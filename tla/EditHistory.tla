------------------------------ MODULE EditHistory ------------------------------
(***************************************************************************)
(* What the editing history of a document promises, as the small class     *)
(* SessionHistory states it (native/pdf-core/src/session_history.cc): a    *)
(* revision that only grows, the newest UndoLimit edits to undo, the       *)
(* undone ones to redo, and an identity that is used once.                 *)
(*                                                                         *)
(* The application does not link this class: the document kernel keeps its *)
(* own history inside the edit log (EditCore), and is shown to implement   *)
(* this module.  The class's mark of the saved revision is left out: it    *)
(* refuses an older revision, which the kernel accepts (EditCore!Confirm). *)
(***************************************************************************)
EXTENDS Naturals, Sequences

CONSTANTS
  Transactions,   \* identities an edit transaction may carry
  UndoLimit       \* how many edits can be undone

VARIABLES
  revision,       \* revision_
  undo,           \* undo_: oldest first
  redo,           \* redo_: the next one to redo last
  ids             \* transaction_ids_

historyVars == << revision, undo, redo, ids >>

Init ==
  /\ revision = 0
  /\ undo = << >>
  /\ redo = << >>
  /\ ids = {}

\* A new edit: the oldest one falls off a full history, what was undone is gone.
RecordCommit(t) ==
  /\ t \notin ids
  /\ ids' = ids \cup {t}
  /\ revision' = revision + 1
  /\ undo' = LET longer == Append(undo, t)
             IN  IF Len(longer) > UndoLimit THEN Tail(longer) ELSE longer
  /\ redo' = << >>

RecordUndo ==
  /\ undo # << >>
  /\ revision' = revision + 1
  /\ redo' = Append(redo, undo[Len(undo)])
  /\ undo' = SubSeq(undo, 1, Len(undo) - 1)
  /\ UNCHANGED ids

RecordRedo ==
  /\ redo # << >>
  /\ revision' = revision + 1
  /\ undo' = Append(undo, redo[Len(redo)])
  /\ redo' = SubSeq(redo, 1, Len(redo) - 1)
  /\ UNCHANGED ids

Next ==
  \/ \E t \in Transactions : RecordCommit(t)
  \/ RecordUndo
  \/ RecordRedo

Spec == Init /\ [][Next]_historyVars

================================================================================
