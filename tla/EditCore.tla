------------------------------- MODULE EditCore -------------------------------
(***************************************************************************)
(* The history of an open document in the document kernel                  *)
(* (native/pdf-core/api/pdf_editor_api.cc): the log of the transactions    *)
(* applied to the source file, how many of them may be undone, the ones    *)
(* that were undone, the revision and the revision confirmed as saved.     *)
(*                                                                         *)
(* Every change rebuilds the whole document from its immutable source and  *)
(* the new log (RebuildCandidate) and is installed only when that succeeds,*)
(* so a call either changes everything or nothing.  The content of the     *)
(* document is a function of the log and is represented by it.             *)
(***************************************************************************)
EXTENDS Naturals, Sequences

CONSTANTS
  Transactions,   \* identities an edit transaction may carry
  UndoLimit,      \* kUndoLimit
  MaxRevision     \* the largest revision an uint32_t holds

\* A history of length zero is refused; the bound of revisions is a real one.
ASSUME UndoLimitAssumption   == UndoLimit \in Nat \ {0}
ASSUME MaxRevisionAssumption == MaxRevision \in Nat

VARIABLES
  open,           \* the document is in g_documents
  revision,       \* Document.revision
  saved,          \* Document.saved_revision
  log,            \* Document.transactions
  redone,         \* Document.redo_transactions
  undoable,       \* Document.undoable_count
  ids             \* Document.transaction_ids

coreVars == << open, revision, saved, log, redone, undoable, ids >>

AtMost(a, b) == IF a <= b THEN a ELSE b

CoreInit ==
  /\ open = TRUE
  /\ revision = 0
  /\ saved = 0
  /\ log = << >>
  /\ redone = << >>
  /\ undoable = 0
  /\ ids = {}

\* Seeded bug: the limit of revisions is not checked: the number wraps around.
MutantCanCommitLimit(t, base) ==
  /\ open
  /\ base = revision
  /\ t \notin ids

\* CommitGenericTransaction: the base must be the present revision, revisions
\* must be left and the identity must be new.
CanCommit(t, base) ==
  /\ open
  /\ base = revision
  /\ revision # MaxRevision
  /\ t \notin ids

\* Seeded bug: a new edit leaves what was undone to be redone.
MutantCommit(t, base) ==
  /\ CanCommit(t, base)
  /\ log' = Append(log, t)
  /\ undoable' = AtMost(UndoLimit, undoable + 1)
  /\ revision' = revision + 1
  /\ ids' = ids \cup {t}
  /\ UNCHANGED << open, saved, redone >>

Commit(t, base) ==
  /\ CanCommit(t, base)
  /\ log' = Append(log, t)
  /\ redone' = << >>
  /\ undoable' = AtMost(UndoLimit, undoable + 1)
  /\ revision' = revision + 1
  /\ ids' = ids \cup {t}
  /\ UNCHANGED << open, saved >>

CanUndo == open /\ undoable # 0 /\ log # << >> /\ revision # MaxRevision

\* pde_undo takes the newest transaction out of the log.
Undo ==
  /\ CanUndo
  /\ log' = SubSeq(log, 1, Len(log) - 1)
  /\ redone' = Append(redone, log[Len(log)])
  /\ undoable' = undoable - 1
  /\ revision' = revision + 1
  /\ UNCHANGED << open, saved, ids >>

CanRedo == open /\ redone # << >> /\ revision # MaxRevision

\* pde_redo puts the transaction undone last back into the log.
Redo ==
  /\ CanRedo
  /\ log' = Append(log, redone[Len(redone)])
  /\ redone' = SubSeq(redone, 1, Len(redone) - 1)
  /\ undoable' = AtMost(UndoLimit, undoable + 1)
  /\ revision' = revision + 1
  /\ UNCHANGED << open, saved, ids >>

\* pde_confirm_save takes any revision up to the present one, an older one than
\* it has as well.
CanConfirm(r) == open /\ r <= revision

Confirm(r) ==
  /\ CanConfirm(r)
  /\ saved' = r
  /\ UNCHANGED << open, revision, log, redone, undoable, ids >>

\* pde_close destroys the document; its last state stays visible to the model.
Close ==
  /\ open
  /\ open' = FALSE
  /\ UNCHANGED << revision, saved, log, redone, undoable, ids >>

CoreNext ==
  \/ \E t \in Transactions : Commit(t, revision)
  \/ Undo
  \/ Redo
  \/ \E r \in 0 .. revision : Confirm(r)
  \/ Close

CoreSpec == CoreInit /\ [][CoreNext]_coreVars

--------------------------------------------------------------------------------
(* What a history keeps: parts of the inductive invariant.                      *)

\* The edits that may be undone are in the log, and together with the ones that
\* may be redone they never exceed the limit: redoing what was undone needs no
\* edit to fall off the history.
HistoryFits ==
  /\ undoable <= Len(log)
  /\ undoable + Len(redone) <= UndoLimit

\* A transaction, applied or undone, occurs once in the history, and its identity
\* is taken: neither a repeated request nor a redo applies an edit twice.
AppliedOnce ==
  /\ \A i \in 1 .. Len(log) : log[i] \in ids
  /\ \A i \in 1 .. Len(redone) : redone[i] \in ids
  /\ \A i, j \in 1 .. Len(log) : log[i] = log[j] => i = j
  /\ \A i, j \in 1 .. Len(redone) : redone[i] = redone[j] => i = j
  /\ \A i \in 1 .. Len(log), j \in 1 .. Len(redone) : log[i] # redone[j]

\* The history as its specification sees it: the newest `undoable` transactions
\* of the log can be undone.
Newest(s, n) == SubSeq(s, Len(s) - n + 1, Len(s))

H == INSTANCE EditHistory
       WITH undo <- Newest(log, undoable), redo <- redone

\* The kernel's history behaves as SessionHistory promises.
Implements == H!Spec

================================================================================
