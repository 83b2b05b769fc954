-------------------------- MODULE EditSession_proofs --------------------------
(***************************************************************************)
(* Proofs about EditCore and EditSession, for any edits, applications and  *)
(* hosts, any undo limit and any largest revision, in four parts.          *)
(*                                                                         *)
(* The kernel implements EditHistory: the abstract undo stack is the       *)
(* newest `undoable` transactions of the log.  A redo is the step that     *)
(* needs an invariant: the abstract history never drops an edit when one   *)
(* is redone, the kernel cuts `undoable` off at the limit, and the two     *)
(* agree because undoable and redone edits never exceed the limit together.*)
(*                                                                         *)
(* The session: the invariant Typed is the type invariant, with what the   *)
(* requests, the answers and the handlers carry.  With it every step of    *)
(* the session is a step of the kernel or none, so that what is shown of   *)
(* the kernel holds of the kernel behind the shell.                        *)
(*                                                                         *)
(* An AI answer is only ever applied to the text it was made for.  The     *)
(* argument follows the revision an application is based on.  It was known *)
(* before the text was read, so the text that was read is the text of that *)
(* revision or of a later one; from then on every change makes a new       *)
(* revision, and the kernel refuses an application that is not based on    *)
(* the present one.  Hence, whenever the base of a checked application is  *)
(* still the present revision, the text is still intact.                   *)
(*                                                                         *)
(* A document shown as saved is in the file.  A revision has one text,     *)
(* wherever it is kept (VersionsInv); a flow has one request or answer     *)
(* under way (FlowsInv); a commit the shell has not heard of is newer than *)
(* all it has saved, so that hearing of it makes the document one with     *)
(* changes (NewerInv).  Then the file holds the text to be confirmed last, *)
(* or the one the shell takes for saved, or the document shows changes     *)
(* (FileInv).  Two corners need an invariant of their own: a confirmation  *)
(* that is refused, which happens only to a document that was closed       *)
(* (ClosedInv), and the browser, whose downloads change the file and are   *)
(* never confirmed (WebInv, OriginalInv).                                  *)
(***************************************************************************)
EXTENDS EditSession, SequenceTheorems, TLAPS

--------------------------------------------------------------------------------
(* Part 1: the document kernel, EditCore.                                       *)

\* The values of the variables; the saved revision has been reached.
CoreTypes ==
  /\ open \in BOOLEAN
  /\ revision \in 0 .. MaxRevision
  /\ saved \in 0 .. revision
  /\ log \in Seq(Transactions)
  /\ redone \in Seq(Transactions)
  /\ undoable \in Nat
  /\ ids \subseteq Transactions

CoreInv == CoreTypes /\ HistoryFits

--------------------------------------------------------------------------------
(* The newest n elements of a sequence.                                         *)

\* They are n, counted from the end.
LEMMA NewestElements ==
  ASSUME NEW S, NEW s \in Seq(S), NEW n \in 0 .. Len(s)
  PROVE  /\ Newest(s, n) \in Seq(S)
         /\ Len(Newest(s, n)) = n
         /\ \A i \in 1 .. n : Newest(s, n)[i] = s[Len(s) - n + i]
<1>1. Len(s) \in Nat
  BY LenProperties
<1>2. \A i \in Len(s) - n + 1 .. Len(s) : s[i] \in S
  BY <1>1, ElementOfSeq
<1>3. /\ SubSeq(s, Len(s) - n + 1, Len(s)) \in Seq(S)
      /\ Len(SubSeq(s, Len(s) - n + 1, Len(s)))
           = IF Len(s) - n + 1 <= Len(s) THEN Len(s) - (Len(s) - n + 1) + 1 ELSE 0
      /\ \A i \in 1 .. Len(s) - (Len(s) - n + 1) + 1 :
           SubSeq(s, Len(s) - n + 1, Len(s))[i] = s[(Len(s) - n + 1) + i - 1]
  <2>1. Len(s) - n + 1 \in Int /\ Len(s) \in Int
    BY <1>1
  <2>2. QED BY <1>2, <2>1, SubSeqProperties
<1>4. QED BY <1>1, <1>3 DEF Newest

\* A new element is the newest.
LEMMA NewestOfAppend ==
  ASSUME NEW S, NEW s \in Seq(S), NEW t \in S, NEW n \in 0 .. Len(s)
  PROVE  Newest(Append(s, t), n + 1) = Append(Newest(s, n), t)
<1>1. /\ Append(s, t) \in Seq(S)
      /\ Len(Append(s, t)) = Len(s) + 1
      /\ \A i \in 1 .. Len(s) : Append(s, t)[i] = s[i]
      /\ Append(s, t)[Len(s) + 1] = t
  BY AppendProperties
<1>2. Len(s) \in Nat
  BY LenProperties
<1>3. /\ Newest(s, n) \in Seq(S)
      /\ Len(Newest(s, n)) = n
      /\ \A i \in 1 .. n : Newest(s, n)[i] = s[Len(s) - n + i]
  BY NewestElements
<1>4. /\ Newest(Append(s, t), n + 1) \in Seq(S)
      /\ Len(Newest(Append(s, t), n + 1)) = n + 1
      /\ \A i \in 1 .. n + 1 : Newest(Append(s, t), n + 1)[i] = Append(s, t)[Len(s) - n + i]
  <2>1. n + 1 \in 0 .. Len(Append(s, t))
    BY <1>1, <1>2
  <2>2. /\ Newest(Append(s, t), n + 1) \in Seq(S)
        /\ Len(Newest(Append(s, t), n + 1)) = n + 1
        /\ \A i \in 1 .. n + 1 : Newest(Append(s, t), n + 1)[i]
                                   = Append(s, t)[Len(Append(s, t)) - (n + 1) + i]
    BY <1>1, <2>1, NewestElements
  <2>3. ASSUME NEW i \in 1 .. n + 1
        PROVE  Len(Append(s, t)) - (n + 1) + i = Len(s) - n + i
    BY <1>1, <1>2
  <2>4. QED BY <2>2, <2>3, Zenon
<1>5. /\ Append(Newest(s, n), t) \in Seq(S)
      /\ Len(Append(Newest(s, n), t)) = n + 1
      /\ \A i \in 1 .. n : Append(Newest(s, n), t)[i] = Newest(s, n)[i]
      /\ Append(Newest(s, n), t)[n + 1] = t
  BY <1>3, AppendProperties
<1>6. ASSUME NEW i \in 1 .. n + 1
      PROVE  Newest(Append(s, t), n + 1)[i] = Append(Newest(s, n), t)[i]
  <2>1. Newest(Append(s, t), n + 1)[i] = Append(s, t)[Len(s) - n + i]
    BY <1>4
  <2>2. CASE i = n + 1
    <3>1. Len(s) - n + i = Len(s) + 1
      BY <1>2, <2>2
    <3>2. QED BY <1>1, <1>5, <2>1, <2>2, <3>1
  <2>3. CASE i # n + 1
    <3>1. i \in 1 .. n /\ Len(s) - n + i \in 1 .. Len(s)
      BY <1>2, <2>3
    <3>2. QED BY <1>1, <1>3, <1>5, <2>1, <3>1
  <2>4. QED BY <2>2, <2>3
<1>7. QED BY <1>4, <1>5, <1>6, SeqEqual

\* One element fewer: the oldest of them is left out.
LEMMA NewestWithoutOldest ==
  ASSUME NEW S, NEW s \in Seq(S), NEW n \in 1 .. Len(s)
  PROVE  Newest(s, n - 1) = Tail(Newest(s, n))
<1>1. Len(s) \in Nat
  BY LenProperties
<1>2. /\ Newest(s, n) \in Seq(S)
      /\ Len(Newest(s, n)) = n
      /\ \A i \in 1 .. n : Newest(s, n)[i] = s[Len(s) - n + i]
  BY <1>1, NewestElements
<1>3. /\ Newest(s, n - 1) \in Seq(S)
      /\ Len(Newest(s, n - 1)) = n - 1
      /\ \A i \in 1 .. n - 1 : Newest(s, n - 1)[i] = s[Len(s) - (n - 1) + i]
  <2>1. n - 1 \in 0 .. Len(s)
    BY <1>1
  <2>2. QED BY <2>1, NewestElements
<1>4. Newest(s, n) # << >>
  BY <1>2, EmptySeq
<1>5. /\ Tail(Newest(s, n)) \in Seq(S)
      /\ Len(Tail(Newest(s, n))) = n - 1
      /\ \A i \in 1 .. n - 1 : Tail(Newest(s, n))[i] = Newest(s, n)[i + 1]
  BY <1>2, <1>4, HeadTailProperties
<1>6. ASSUME NEW i \in 1 .. n - 1
      PROVE  Newest(s, n - 1)[i] = Tail(Newest(s, n))[i]
  <2>1. Tail(Newest(s, n))[i] = Newest(s, n)[i + 1]
    BY <1>5
  <2>2. i + 1 \in 1 .. n /\ Len(s) - n + (i + 1) = Len(s) - (n - 1) + i
    BY <1>1
  <2>3. Newest(s, n)[i + 1] = s[Len(s) - n + (i + 1)]
    BY <1>2, <2>2
  <2>4. QED BY <1>3, <2>1, <2>2, <2>3
<1>7. QED BY <1>3, <1>5, <1>6, SeqEqual

\* A sequence without its last element.
LEMMA ButLast ==
  ASSUME NEW S, NEW s \in Seq(S), s # << >>
  PROVE  /\ Len(s) \in Nat \ {0}
         /\ SubSeq(s, 1, Len(s) - 1) \in Seq(S)
         /\ Len(SubSeq(s, 1, Len(s) - 1)) = Len(s) - 1
         /\ \A i \in 1 .. Len(s) - 1 : SubSeq(s, 1, Len(s) - 1)[i] = s[i]
         /\ s[Len(s)] \in S
<1>1. Len(s) \in Nat /\ Len(s) # 0
  BY LenProperties, EmptySeq
<1>2. \A i \in 1 .. Len(s) : s[i] \in S
  BY ElementOfSeq
<1>3. /\ SubSeq(s, 1, Len(s) - 1) \in Seq(S)
      /\ Len(SubSeq(s, 1, Len(s) - 1)) = IF 1 <= Len(s) - 1 THEN (Len(s) - 1) - 1 + 1 ELSE 0
      /\ \A i \in 1 .. (Len(s) - 1) - 1 + 1 : SubSeq(s, 1, Len(s) - 1)[i] = s[1 + i - 1]
  <2>1. 1 \in Int /\ Len(s) - 1 \in Int /\ \A i \in 1 .. Len(s) - 1 : s[i] \in S
    BY <1>1, <1>2
  <2>2. QED BY <2>1, SubSeqProperties
<1>4. Len(SubSeq(s, 1, Len(s) - 1)) = Len(s) - 1
  <2>1. CASE 1 <= Len(s) - 1
    <3>1. (Len(s) - 1) - 1 + 1 = Len(s) - 1
      BY <1>1
    <3>2. QED BY <1>3, <2>1, <3>1
  <2>2. CASE ~(1 <= Len(s) - 1)
    <3>1. \A m \in Nat \ {0} : ~(1 <= m - 1) => m - 1 = 0
      OBVIOUS
    <3>2. QED BY <1>1, <1>3, <2>2, <3>1
  <2>3. QED BY <2>1, <2>2
<1>5. ASSUME NEW i \in 1 .. Len(s) - 1
      PROVE  SubSeq(s, 1, Len(s) - 1)[i] = s[i]
  <2>1. i \in 1 .. (Len(s) - 1) - 1 + 1 /\ 1 + i - 1 = i
    BY <1>1
  <2>2. QED BY <1>3, <2>1
<1>6. Len(s) \in Nat \ {0} /\ s[Len(s)] \in S
  BY <1>1, <1>2
<1>7. QED BY <1>3, <1>4, <1>5, <1>6

\* Without the last element, the newest n - 1 are the n newest without theirs.
LEMMA NewestOfButLast ==
  ASSUME NEW S, NEW s \in Seq(S), NEW n \in 1 .. Len(s)
  PROVE  /\ Newest(s, n) # << >>
         /\ Newest(s, n)[Len(Newest(s, n))] = s[Len(s)]
         /\ Newest(SubSeq(s, 1, Len(s) - 1), n - 1)
              = SubSeq(Newest(s, n), 1, Len(Newest(s, n)) - 1)
<1> DEFINE b == SubSeq(s, 1, Len(s) - 1)
           w == Newest(s, n)
<1>1. Len(s) \in Nat
  BY LenProperties
<1>2. /\ w \in Seq(S)
      /\ Len(w) = n
      /\ \A i \in 1 .. n : w[i] = s[Len(s) - n + i]
  BY <1>1, NewestElements
<1>3. w # << >> /\ s # << >>
  BY <1>1, <1>2, EmptySeq
<1>4. /\ b \in Seq(S)
      /\ Len(b) = Len(s) - 1
      /\ \A i \in 1 .. Len(s) - 1 : b[i] = s[i]
  BY <1>3, ButLast
<1>5. /\ Newest(b, n - 1) \in Seq(S)
      /\ Len(Newest(b, n - 1)) = n - 1
      /\ \A i \in 1 .. n - 1 : Newest(b, n - 1)[i] = b[Len(b) - (n - 1) + i]
  <2>1. n - 1 \in 0 .. Len(b)
    BY <1>1, <1>4
  <2>2. QED BY <1>4, <2>1, NewestElements
<1>6. /\ SubSeq(w, 1, Len(w) - 1) \in Seq(S)
      /\ Len(SubSeq(w, 1, Len(w) - 1)) = n - 1
      /\ \A i \in 1 .. n - 1 : SubSeq(w, 1, Len(w) - 1)[i] = w[i]
  BY <1>2, <1>3, ButLast
<1>7. ASSUME NEW i \in 1 .. n - 1
      PROVE  Newest(b, n - 1)[i] = SubSeq(w, 1, Len(w) - 1)[i]
  <2>1. Newest(b, n - 1)[i] = b[Len(b) - (n - 1) + i]
    BY <1>5
  <2>2. Len(b) - (n - 1) + i = Len(s) - n + i /\ Len(s) - n + i \in 1 .. Len(s) - 1
    BY <1>1, <1>4
  <2>3. w[i] = s[Len(s) - n + i]
    BY <1>2
  <2>4. QED BY <1>4, <1>6, <2>1, <2>2, <2>3
<1>8. Newest(b, n - 1) = SubSeq(w, 1, Len(w) - 1)
  BY <1>5, <1>6, <1>7, SeqEqual
<1>9. w[Len(w)] = s[Len(s)]
  BY <1>1, <1>2
<1>10. QED BY <1>3, <1>8, <1>9

--------------------------------------------------------------------------------
(* The invariant of the kernel's history.                                       *)

\* The document is opened without a history.
LEMMA InitCore == CoreInit => CoreInv
<1> SUFFICES ASSUME CoreInit PROVE CoreInv
    OBVIOUS
<1>1. << >> \in Seq(Transactions) /\ Len(<< >>) = 0
  BY EmptySeq
<1>2. QED
  BY <1>1, UndoLimitAssumption, MaxRevisionAssumption
     DEF CoreInit, CoreInv, CoreTypes, HistoryFits

\* Every call of the kernel keeps the invariant.
LEMMA NextCore == CoreInv /\ [CoreNext]_coreVars => CoreInv'
<1> SUFFICES ASSUME CoreInv, [CoreNext]_coreVars PROVE CoreInv'
    OBVIOUS
<1> USE UndoLimitAssumption, MaxRevisionAssumption
<1>0. /\ CoreTypes
      /\ undoable <= Len(log) /\ undoable + Len(redone) <= UndoLimit
      /\ Len(log) \in Nat /\ Len(redone) \in Nat
  BY LenProperties DEF CoreInv, CoreTypes, HistoryFits
<1>1. ASSUME NEW t \in Transactions, Commit(t, revision) PROVE CoreInv'
  <2>1. log' \in Seq(Transactions) /\ Len(log') = Len(log) + 1
    BY <1>0, <1>1, AppendProperties DEF Commit, CoreTypes
  <2>2. redone' \in Seq(Transactions) /\ Len(redone') = 0
    BY <1>1, EmptySeq DEF Commit
  <2>3. CoreTypes'
    BY <1>0, <1>1, <2>1, <2>2 DEF Commit, CanCommit, CoreTypes, AtMost
  <2>4. HistoryFits'
    BY <1>0, <1>1, <2>1, <2>2 DEF Commit, CoreTypes, HistoryFits, AtMost
  <2>5. QED BY <2>3, <2>4 DEF CoreInv
<1>2. ASSUME Undo PROVE CoreInv'
  <2>1. log' \in Seq(Transactions) /\ Len(log') = Len(log) - 1 /\ log[Len(log)] \in Transactions
    BY <1>0, <1>2, ButLast DEF Undo, CanUndo, CoreTypes
  <2>2. redone' \in Seq(Transactions) /\ Len(redone') = Len(redone) + 1
    BY <1>0, <1>2, <2>1, AppendProperties DEF Undo, CoreTypes
  <2>3. CoreTypes'
    BY <1>0, <1>2, <2>1, <2>2 DEF Undo, CanUndo, CoreTypes
  <2>4. HistoryFits'
    BY <1>0, <1>2, <2>1, <2>2 DEF Undo, CanUndo, CoreTypes, HistoryFits
  <2>5. QED BY <2>3, <2>4 DEF CoreInv
<1>3. ASSUME Redo PROVE CoreInv'
  <2>1. /\ redone' \in Seq(Transactions) /\ Len(redone') = Len(redone) - 1
        /\ redone[Len(redone)] \in Transactions
    BY <1>0, <1>3, ButLast DEF Redo, CanRedo, CoreTypes
  <2>2. log' \in Seq(Transactions) /\ Len(log') = Len(log) + 1
    BY <1>0, <1>3, <2>1, AppendProperties DEF Redo, CoreTypes
  <2>3. CoreTypes'
    BY <1>0, <1>3, <2>1, <2>2 DEF Redo, CanRedo, CoreTypes, AtMost
  <2>4. HistoryFits'
    <3>1. undoable' = undoable + 1
      BY <1>0, <1>3, ButLast DEF Redo, CanRedo, CoreTypes, AtMost
    <3>2. QED BY <1>0, <2>1, <2>2, <3>1 DEF CoreTypes, HistoryFits
  <2>5. QED BY <2>3, <2>4 DEF CoreInv
<1>4. ASSUME NEW r \in 0 .. revision, Confirm(r) PROVE CoreInv'
  BY <1>0, <1>4 DEF Confirm, CoreInv, CoreTypes, HistoryFits
<1>5. ASSUME Close PROVE CoreInv'
  BY <1>0, <1>5 DEF Close, CoreInv, CoreTypes, HistoryFits
<1>6. ASSUME UNCHANGED coreVars PROVE CoreInv'
  BY <1>0, <1>6 DEF coreVars, CoreInv, CoreTypes, HistoryFits
<1>7. QED BY <1>1, <1>2, <1>3, <1>4, <1>5, <1>6 DEF CoreNext

--------------------------------------------------------------------------------
(* The refinement.                                                              *)

\* An open document without a history is an empty history.
LEMMA InitImplements == CoreInit => H!Init
<1> SUFFICES ASSUME CoreInit PROVE H!Init
    OBVIOUS
<1>1. Newest(log, undoable) = << >>
  BY SubSeqEmpty, EmptySeq DEF CoreInit, Newest
<1>2. QED BY <1>1 DEF CoreInit, H!Init

\* Every call of the kernel is a step of the history or none: a commit, an undo and
\* a redo are the steps of the same name, and the rest does not touch it.
LEMMA NextImplements == CoreInv /\ [CoreNext]_coreVars => [H!Next]_(H!historyVars)
<1> SUFFICES ASSUME CoreInv, [CoreNext]_coreVars PROVE [H!Next]_(H!historyVars)
    OBVIOUS
<1> USE UndoLimitAssumption, MaxRevisionAssumption
<1>0. /\ CoreTypes
      /\ undoable <= Len(log) /\ undoable + Len(redone) <= UndoLimit
      /\ Len(log) \in Nat /\ Len(redone) \in Nat
      /\ undoable \in 0 .. Len(log)
      /\ log \in Seq(Transactions) /\ redone \in Seq(Transactions)
  BY LenProperties DEF CoreInv, CoreTypes, HistoryFits
<1>1. ASSUME NEW t \in Transactions, Commit(t, revision) PROVE H!RecordCommit(t)
  <2> DEFINE longer == Append(Newest(log, undoable), t)
  <2>1. longer = Newest(log', undoable + 1)
    BY <1>0, <1>1, NewestOfAppend DEF Commit
  <2>2. log' \in Seq(Transactions) /\ Len(log') = Len(log) + 1
    BY <1>0, <1>1, AppendProperties DEF Commit
  <2>3. Len(longer) = undoable + 1
    BY <1>0, <2>1, <2>2, NewestElements
  <2>4. Newest(log', undoable') = IF Len(longer) > UndoLimit THEN Tail(longer) ELSE longer
    <3>1. CASE undoable = UndoLimit
      <4>1. undoable' = (undoable + 1) - 1 /\ undoable + 1 \in 1 .. Len(log')
        BY <1>0, <1>1, <2>2, <3>1 DEF Commit, AtMost
      <4>2. Newest(log', undoable') = Tail(longer)
        BY <2>1, <2>2, <4>1, NewestWithoutOldest
      <4>3. QED BY <1>0, <2>3, <3>1, <4>2
    <3>2. CASE undoable # UndoLimit
      <4>1. undoable' = undoable + 1 /\ undoable + 1 <= UndoLimit
        BY <1>0, <1>1, <3>2 DEF Commit, AtMost
      <4>2. QED BY <1>0, <2>1, <2>3, <4>1
    <3>3. QED BY <3>1, <3>2
  <2>5. QED BY <1>1, <2>4 DEF Commit, CanCommit, H!RecordCommit
<1>2. ASSUME Undo PROVE H!RecordUndo
  <2>1. undoable \in 1 .. Len(log)
    BY <1>0, <1>2 DEF Undo, CanUndo
  <2>2. /\ Newest(log, undoable) # << >>
        /\ Newest(log, undoable)[Len(Newest(log, undoable))] = log[Len(log)]
        /\ Newest(SubSeq(log, 1, Len(log) - 1), undoable - 1)
             = SubSeq(Newest(log, undoable), 1, Len(Newest(log, undoable)) - 1)
    BY <1>0, <2>1, NewestOfButLast
  <2>3. QED BY <1>2, <2>2 DEF Undo, H!RecordUndo
<1>3. ASSUME Redo PROVE H!RecordRedo
  <2>1. redone[Len(redone)] \in Transactions /\ Len(redone) # 0
    BY <1>0, <1>3, ButLast DEF Redo, CanRedo
  <2>2. undoable' = undoable + 1
    BY <1>0, <1>3, <2>1 DEF Redo, AtMost
  <2>3. Newest(log', undoable') = Append(Newest(log, undoable), redone[Len(redone)])
    BY <1>0, <1>3, <2>1, <2>2, NewestOfAppend DEF Redo
  <2>4. QED BY <1>3, <2>3 DEF Redo, CanRedo, H!RecordRedo
<1>4. ASSUME NEW r \in 0 .. revision, Confirm(r) PROVE UNCHANGED H!historyVars
  BY <1>4 DEF Confirm, H!historyVars
<1>5. ASSUME Close PROVE UNCHANGED H!historyVars
  BY <1>5 DEF Close, H!historyVars
<1>6. ASSUME UNCHANGED coreVars PROVE UNCHANGED H!historyVars
  BY <1>6 DEF coreVars, H!historyVars
<1>7. QED BY <1>1, <1>2, <1>3, <1>4, <1>5, <1>6 DEF CoreNext, H!Next

\* Whatever is asked of the kernel, its history (pde_apply, pde_undo and pde_redo of
\* pdf_editor_api.cc) is one that SessionHistory allows.
THEOREM CoreImplements == CoreSpec => Implements
<1>1. CoreSpec => []CoreInv
  BY InitCore, NextCore, PTL DEF CoreSpec
<1>2. QED
  BY <1>1, InitImplements, NextImplements, PTL DEF CoreSpec, Implements, H!Spec

--------------------------------------------------------------------------------
(* Part 2: the session around the kernel.                                       *)

Ops == {"apply", "undo", "redo", "read", "save", "confirm", "close"}

\* Who may ask for what.
Asks(op, who) ==
  /\ op = "apply" => who \in Transactions
  /\ op \in Move => who \in Move
  /\ op = "read" => who \in Applications
  /\ op \in {"save", "confirm"} => who \in Flows

Requests == {q \in [op: Ops, who: Tasks \cup Flows, arg: Revisions] : Asks(q.op, q.who)}

Replies == {r \in [op: Ops, who: Tasks \cup Flows, ok: BOOLEAN, rev: Revisions,
                   text: Seq(Transactions), move: [Move -> BOOLEAN]] : Asks(r.op, r.who)}

Activities == {"idle", "editing", "rendering", "saving", "opening"}
Closings   == {"no", "asking", "saving", "closing"}

\* What the shell knows of the document.
ShellTyped ==
  /\ shown \in BOOLEAN
  /\ known \in Revisions /\ knownSaved \in Revisions
  /\ knownText \in Seq(Transactions)
  /\ canMove \in [Move -> BOOLEAN]
  /\ downloaded \in SUBSET Revisions

\* What its handlers keep.
HandlersTyped ==
  /\ activity \in Activities /\ editPending \in BOOLEAN
  /\ stage \in [Tasks -> Stages]
  /\ base \in [Applications -> Revisions]
  /\ applied \in SUBSET Revisions
  /\ took \in [Tasks -> [rev: Revisions, saved: Revisions, text: Seq(Transactions)]]

Saves == [Flows -> [at: {"no", "posted", "host", "confirming"},
                    rev: Revisions, text: Seq(Transactions)]]

\* Saving and closing.
FlowsTyped ==
  /\ closing \in Closings /\ closeAt \in Revisions
  /\ decided \in {"none", "discard", "saved"}
  /\ save \in Saves
  /\ file \in Seq(Transactions)

\* What is under way between the shell and the worker.
MessagesTyped == queue \in Seq(Requests) /\ replies \in Seq(Replies)

Typed == CoreInv /\ ShellTyped /\ HandlersTyped /\ FlowsTyped /\ MessagesTyped

--------------------------------------------------------------------------------
\* The types of a document just opened.
LEMMA InitTyped == Init => Typed
<1> SUFFICES ASSUME Init PROVE Typed
    OBVIOUS
<1> USE MaxRevisionAssumption
<1>1. CoreInv
  BY InitCore DEF Init
<1>2. /\ 0 \in Revisions /\ << >> \in Seq(Transactions)
      /\ << >> \in Seq(Requests) /\ << >> \in Seq(Replies)
  BY EmptySeq DEF Revisions
<1>3. ShellTyped
  BY <1>2 DEF Init, ShellTyped
<1>4. HandlersTyped
  BY <1>2 DEF Init, HandlersTyped, Activities, Stages, NoCommit
<1>5. FlowsTyped
  BY <1>2 DEF Init, FlowsTyped, Closings, NoFlow, Saves
<1>6. MessagesTyped
  BY <1>2 DEF Init, MessagesTyped
<1>7. QED BY <1>1, <1>3, <1>4, <1>5, <1>6 DEF Typed

\* A request of one that may ask for it can be appended to the queue.
LEMMA PostTyped ==
  ASSUME MessagesTyped, NEW op \in Ops, NEW who \in Tasks \cup Flows, NEW arg \in Revisions,
         Asks(op, who), Post(Request(op, who, arg))
  PROVE  queue' \in Seq(Requests)
<1>1. Request(op, who, arg) \in Requests
  BY DEF Request, Requests
<1>2. QED BY <1>1, AppendProperties DEF MessagesTyped, Post

\* The oldest request is taken out.
LEMMA HeadRequest ==
  ASSUME MessagesTyped, queue # << >>
  PROVE  Head(queue) \in Requests /\ Tail(queue) \in Seq(Requests)
BY HeadTailProperties DEF MessagesTyped

\* The oldest answer is taken out.
LEMMA HeadReply ==
  ASSUME MessagesTyped, replies # << >>
  PROVE  Head(replies) \in Replies /\ Tail(replies) \in Seq(Replies)
BY HeadTailProperties DEF MessagesTyped

\* A save or a close that begins, and a save that ends.
LEMMA BeginCloseTyped ==
  ASSUME Typed, BeginClose
  PROVE  activity' \in Activities /\ closing' \in Closings /\ queue' \in Seq(Requests)
<1>1. "close" \in Ops /\ "close" \in Tasks \cup Flows /\ 0 \in Revisions /\ Asks("close", "close")
  BY MaxRevisionAssumption DEF Ops, Flows, Revisions, Asks, Move
<1>2. queue' \in Seq(Requests)
  BY <1>1, PostTyped DEF BeginClose, Typed
<1>3. QED BY <1>2 DEF BeginClose, Activities, Closings

\* A save that begins keeps the types it touches.
LEMMA BeginSaveTyped ==
  ASSUME Typed, NEW t \in Flows, BeginSave(t)
  PROVE  /\ activity' \in Activities /\ queue' \in Seq(Requests)
         /\ save' \in Saves
<1>1. "save" \in Ops /\ t \in Tasks \cup Flows /\ 0 \in Revisions /\ Asks("save", t)
  BY MaxRevisionAssumption DEF Ops, Revisions, Asks, Move
<1>2. queue' \in Seq(Requests)
  BY <1>1, PostTyped DEF BeginSave, Typed
<1>3. << >> \in Seq(Transactions)
  BY EmptySeq
<1>4. QED BY <1>1, <1>2, <1>3 DEF BeginSave, Activities, Typed, FlowsTyped, NoFlow, Saves

\* So does the end of one, whether it was the menu's or the one before closing.
LEMMA EndSaveTyped ==
  ASSUME Typed, NEW t \in Flows, NEW written \in BOOLEAN, NEW started, EndSave(t, written, started)
  PROVE  /\ activity' \in Activities /\ closing' \in Closings /\ queue' \in Seq(Requests)
         /\ decided' \in {"none", "discard", "saved"}
         /\ save' \in Saves
<1>1. 0 \in Revisions /\ << >> \in Seq(Transactions)
  BY EmptySeq, MaxRevisionAssumption DEF Revisions
<1>2. save' \in Saves
  BY <1>1 DEF EndSave, Typed, FlowsTyped, NoFlow, Saves
<1>3. CASE BeginClose /\ decided' = "saved"
  BY <1>2, <1>3, BeginCloseTyped
<1>4. CASE ~(BeginClose /\ decided' = "saved")
  BY <1>2, <1>4 DEF EndSave, Typed, FlowsTyped, MessagesTyped, Activities, Closings
<1>5. QED BY <1>3, <1>4 DEF EndSave

--------------------------------------------------------------------------------
(* One lemma per handler of the shell.                                          *)

\* Both halves of a manual edit, ensureEditable and what follows it.
LEMMA StartEditTyped ==
  ASSUME Typed, NEW e \in Manual, StartEdit(e) \/ EditLoaded(e)
  PROVE  Typed'
<1> USE EditsAssumption
<1>1. e \in Tasks
  BY DEF Tasks
<1>2. CoreInv' /\ ShellTyped' /\ FlowsTyped' /\ replies' = replies
  BY DEF StartEdit, EditLoaded, coreVars, shellVars, closeVars, saveVars, Typed,
         CoreInv, CoreTypes, HistoryFits, ShellTyped, FlowsTyped
<1>3. queue' \in Seq(Requests)
  <2>1. CASE PostEdit(e)
    <3>1. "apply" \in Ops /\ known \in Revisions /\ Asks("apply", e)
      BY DEF Ops, Typed, ShellTyped, Asks, Move
    <3>2. QED BY <1>1, <2>1, <3>1, PostTyped DEF PostEdit, Typed
  <2>2. CASE ~PostEdit(e)
    BY <2>2 DEF StartEdit, EditLoaded, Typed, MessagesTyped
  <2>3. QED BY <2>1, <2>2
<1>4. HandlersTyped'
  BY <1>1 DEF StartEdit, EditLoaded, PostEdit, At, Typed, HandlersTyped, Activities, Stages
<1>5. QED BY <1>2, <1>3, <1>4 DEF Typed, MessagesTyped

\* Undo and redo.
LEMMA MoveHistoryTyped ==
  ASSUME Typed, NEW m \in Move, MoveHistory(m)
  PROVE  Typed'
<1>1. CoreInv' /\ ShellTyped' /\ FlowsTyped' /\ replies' = replies
  BY DEF MoveHistory, coreVars, shellVars, closeVars, saveVars, Typed,
         CoreInv, CoreTypes, HistoryFits, ShellTyped, FlowsTyped
<1>2. m \in Ops /\ m \in Tasks /\ 0 \in Revisions /\ Asks(m, m)
  BY MaxRevisionAssumption DEF Ops, Move, Tasks, Revisions, Asks
<1>3. queue' \in Seq(Requests)
  BY <1>2, PostTyped DEF MoveHistory, Typed
<1>4. HandlersTyped'
  BY <1>2 DEF MoveHistory, At, Typed, HandlersTyped, Activities, Stages
<1>5. QED BY <1>1, <1>3, <1>4 DEF Typed, MessagesTyped

\* The three steps of an application of AI text.
LEMMA ApplicationTyped ==
  ASSUME Typed, NEW a \in Applications, StartApply(a) \/ ReadSources(a) \/ PostApplication(a)
  PROVE  Typed'
<1> USE EditsAssumption
<1>1. a \in Tasks
  BY DEF Tasks
<1>2. CoreInv' /\ ShellTyped' /\ FlowsTyped' /\ replies' = replies
  BY DEF StartApply, ReadSources, PostApplication, coreVars, shellVars, closeVars, saveVars,
         Typed, CoreInv, CoreTypes, HistoryFits, ShellTyped, FlowsTyped
<1>3. queue' \in Seq(Requests)
  <2>1. CASE Post(Request("read", a, 0))
    <3>1. "read" \in Ops /\ 0 \in Revisions /\ Asks("read", a)
      BY MaxRevisionAssumption DEF Ops, Revisions, Asks, Move
    <3>2. QED BY <1>1, <2>1, <3>1, PostTyped DEF Typed
  <2>2. CASE Post(Request("apply", a, base[a]))
    <3>1. "apply" \in Ops /\ base[a] \in Revisions /\ Asks("apply", a)
      BY DEF Ops, Typed, HandlersTyped, Asks, Move
    <3>2. QED BY <1>1, <2>2, <3>1, PostTyped DEF Typed
  <2>3. CASE UNCHANGED queue
    BY <2>3 DEF Typed, MessagesTyped
  <2>4. QED BY <2>1, <2>2, <2>3 DEF StartApply, ReadSources, PostApplication
<1>4. HandlersTyped'
  <2>1. CASE StartApply(a)
    BY <1>1, <2>1 DEF StartApply, At, busyVars, Typed, HandlersTyped, Stages
  <2>2. CASE ReadSources(a)
    <3>1. /\ stage' = [stage EXCEPT ![a] = "reading"] \/ stage' = [stage EXCEPT ![a] = "failed"]
          /\ editPending' = TRUE \/ editPending' = editPending
          /\ base' = [base EXCEPT ![a] = known] \/ base' = base
          /\ UNCHANGED << activity, applied, took >>
      BY <2>2 DEF ReadSources, At
    <3>2. known \in Revisions
      BY DEF Typed, ShellTyped
    <3>3. stage' \in [Tasks -> Stages]
      BY <1>1, <3>1 DEF Typed, HandlersTyped, Stages
    <3>4. base' \in [Applications -> Revisions]
      BY <3>1, <3>2 DEF Typed, HandlersTyped
    <3>5. QED BY <3>1, <3>3, <3>4 DEF Typed, HandlersTyped
  <2>3. CASE PostApplication(a)
    BY <1>1, <2>3 DEF PostApplication, At, Typed, HandlersTyped, Stages
  <2>4. QED BY <2>1, <2>2, <2>3
<1>5. QED BY <1>2, <1>3, <1>4 DEF Typed, MessagesTyped

\* Save from the menu.
LEMMA StartSaveTyped ==
  ASSUME Typed, StartSave
  PROVE  Typed'
<1>1. "menu" \in Flows
  BY DEF Flows
<1>2. CoreInv' /\ ShellTyped' /\ replies' = replies
  BY DEF StartSave, coreVars, shellVars, Typed, CoreInv, CoreTypes, HistoryFits, ShellTyped
<1>3. activity' \in Activities /\ queue' \in Seq(Requests) /\ save' \in Saves
  BY <1>1, BeginSaveTyped DEF StartSave
<1>4. HandlersTyped'
  BY <1>3 DEF StartSave, editVars, Typed, HandlersTyped
<1>5. FlowsTyped'
  BY <1>3 DEF StartSave, closeVars, Typed, FlowsTyped
<1>6. QED BY <1>2, <1>3, <1>4, <1>5 DEF Typed, MessagesTyped

\* The host has written, or failed, or was cancelled.
LEMMA HostAnswersTyped ==
  ASSUME Typed, NEW t \in Flows, HostAnswers(t)
  PROVE  Typed'
<1>1. CoreInv' /\ replies' = replies
  BY DEF HostAnswers, coreVars, Typed, CoreInv, CoreTypes, HistoryFits
<1>2. save[t].rev \in Revisions /\ save[t].text \in Seq(Transactions)
  BY DEF Typed, FlowsTyped, Saves
<1>3. /\ activity' \in Activities /\ closing' \in Closings /\ queue' \in Seq(Requests)
      /\ decided' \in {"none", "discard", "saved"} /\ save' \in Saves
  <2>1. CASE save' = [save EXCEPT ![t].at = "confirming"] /\ Post(Request("confirm", t, save[t].rev))
                /\ UNCHANGED << activity, closing, decided >>
    <3>1. "confirm" \in Ops /\ t \in Tasks \cup Flows /\ Asks("confirm", t)
      BY DEF Ops, Asks, Move
    <3>2. queue' \in Seq(Requests)
      BY <1>2, <2>1, <3>1, PostTyped DEF Typed
    <3>3. save' \in Saves
      BY <2>1 DEF Typed, FlowsTyped, Saves
    <3>4. QED BY <2>1, <3>2, <3>3 DEF Typed, HandlersTyped, FlowsTyped
  <2>2. ASSUME NEW started, EndSave(t, FALSE, started)
        PROVE  /\ activity' \in Activities /\ closing' \in Closings /\ queue' \in Seq(Requests)
               /\ decided' \in {"none", "discard", "saved"} /\ save' \in Saves
    BY <2>2, EndSaveTyped
  <2>3. QED BY <2>1, <2>2 DEF HostAnswers, shellVars
<1>4. ShellTyped'
  BY <1>2 DEF HostAnswers, shellVars, Typed, ShellTyped
<1>5. HandlersTyped'
  BY <1>3 DEF HostAnswers, editVars, Typed, HandlersTyped
<1>6. FlowsTyped'
  BY <1>2, <1>3 DEF HostAnswers, Typed, FlowsTyped
<1>7. QED BY <1>1, <1>3, <1>4, <1>5, <1>6 DEF Typed, MessagesTyped

\* Closing, and the answer to its question.
LEMMA CloseTyped ==
  ASSUME Typed, StartClose \/ AnswerPrompt
  PROVE  Typed'
<1>1. CoreInv' /\ ShellTyped' /\ replies' = replies
  BY DEF StartClose, AnswerPrompt, coreVars, shellVars, Typed, CoreInv, CoreTypes,
         HistoryFits, ShellTyped
<1>2. "close" \in Flows
  BY DEF Flows
<1>3. /\ activity' \in Activities /\ closing' \in Closings /\ queue' \in Seq(Requests)
      /\ save' \in Saves
  <2>1. CASE BeginClose /\ UNCHANGED save
    BY <2>1, BeginCloseTyped DEF Typed, FlowsTyped
  <2>2. CASE closing' = "saving" /\ BeginSave("close")
    BY <1>2, <2>2, BeginSaveTyped DEF Closings
  <2>3. CASE closing' \in {"no", "asking"} /\ UNCHANGED << activity, queue, save >>
    BY <2>3 DEF Closings, Typed, HandlersTyped, FlowsTyped, MessagesTyped
  <2>4. QED BY <2>1, <2>2, <2>3 DEF StartClose, AnswerPrompt, saveVars
<1>4. HandlersTyped'
  BY <1>3 DEF StartClose, AnswerPrompt, editVars, Typed, HandlersTyped
<1>5. closeAt' \in Revisions /\ decided' \in {"none", "discard", "saved"} /\ file' = file
  BY DEF StartClose, AnswerPrompt, saveVars, Typed, ShellTyped, FlowsTyped
<1>6. FlowsTyped'
  BY <1>3, <1>5 DEF Typed, FlowsTyped
<1>7. QED BY <1>1, <1>3, <1>4, <1>6 DEF Typed, MessagesTyped

\* An answer of the worker reaches the shell.
LEMMA DeliverTyped ==
  ASSUME Typed, Deliver
  PROVE  Typed'
<1> DEFINE r == Head(replies)
<1>1. r \in Replies /\ replies' \in Seq(Replies)
  BY HeadReply DEF Deliver, Typed
<1>2. /\ r.op \in Ops /\ Asks(r.op, r.who) /\ r.ok \in BOOLEAN
      /\ r.rev \in Revisions /\ r.text \in Seq(Transactions) /\ r.move \in [Move -> BOOLEAN]
  BY <1>1 DEF Replies
<1> HIDE DEF r
<1>3. CoreInv'
  BY DEF Deliver, coreVars, Typed, CoreInv, CoreTypes, HistoryFits
<1>4. CASE DeliverCommit(r)
  <2>1. r.who \in Tasks
    BY <1>2, <1>4 DEF DeliverCommit, Asks, Tasks, Move
  <2>2. ShellTyped'
    BY <1>2, <1>4 DEF DeliverCommit, shellVars, Typed, ShellTyped
  <2>3. HandlersTyped'
    <3>1. activity' \in Activities /\ editPending' \in BOOLEAN
      BY <1>4 DEF DeliverCommit, Finally, Typed, HandlersTyped, Activities
    <3>2. stage' \in [Tasks -> Stages]
      BY <1>4, <2>1 DEF DeliverCommit, EndStage, At, Typed, HandlersTyped, Stages
    <3>3. base' \in [Applications -> Revisions] /\ applied' \in SUBSET Revisions
      BY <1>2, <1>4 DEF DeliverCommit, Typed, HandlersTyped
    <3>4. took' \in [Tasks -> [rev: Revisions, saved: Revisions, text: Seq(Transactions)]]
      <4>1. [rev |-> r.rev, saved |-> knownSaved, text |-> r.text]
              \in [rev: Revisions, saved: Revisions, text: Seq(Transactions)]
        BY <1>2 DEF Typed, ShellTyped
      <4>2. took' = took \/ took' = [took EXCEPT ![r.who] = [rev |-> r.rev, saved |-> knownSaved,
                                                            text |-> r.text]]
        BY <1>4 DEF DeliverCommit
      <4>3. QED BY <2>1, <4>1, <4>2 DEF Typed, HandlersTyped
    <3>5. QED BY <3>1, <3>2, <3>3, <3>4 DEF HandlersTyped
  <2>4. FlowsTyped' /\ queue' = queue
    BY <1>4 DEF DeliverCommit, closeVars, saveVars, Typed, FlowsTyped
  <2>5. QED BY <1>1, <1>3, <2>2, <2>3, <2>4 DEF Typed, MessagesTyped
<1>5. CASE DeliverFailure(r)
  <2>1. r.who \in Tasks
    BY <1>2, <1>5, EditsAssumption DEF DeliverFailure, Asks, Tasks, Move
  <2>2. ShellTyped' /\ FlowsTyped' /\ queue' = queue
    BY <1>5 DEF DeliverFailure, shellVars, closeVars, saveVars, Typed, ShellTyped, FlowsTyped
  <2>3. HandlersTyped'
    BY <1>5, <2>1 DEF DeliverFailure, EndStage, At, Finally, Typed, HandlersTyped,
                      Activities, Stages
  <2>4. QED BY <1>1, <1>3, <2>2, <2>3 DEF Typed, MessagesTyped
<1>6. CASE DeliverText(r)
  <2>1. r.who \in Tasks
    BY <1>2, <1>6, EditsAssumption DEF DeliverText, Asks, Tasks
  <2>2. ShellTyped' /\ FlowsTyped' /\ queue' = queue
    BY <1>6 DEF DeliverText, shellVars, closeVars, saveVars, Typed, ShellTyped, FlowsTyped
  <2>3. HandlersTyped'
    BY <1>6, <2>1 DEF DeliverText, At, Typed, HandlersTyped, Stages
  <2>4. QED BY <1>1, <1>3, <2>2, <2>3 DEF Typed, MessagesTyped
<1>7. CASE DeliverSaved(r)
  <2>1. r.who \in Flows
    BY <1>2, <1>7 DEF DeliverSaved, Asks
  <2>2. /\ activity' \in Activities /\ closing' \in Closings /\ queue' \in Seq(Requests)
        /\ decided' \in {"none", "discard", "saved"} /\ save' \in Saves
    <3>1. CASE r.ok
      <4>1. /\ save' = [save EXCEPT ![r.who] = [at |-> "host", rev |-> r.rev, text |-> r.text]]
            /\ UNCHANGED << activity, closing, decided, queue >>
        BY <1>7, <3>1 DEF DeliverSaved
      <4>2. [at |-> "host", rev |-> r.rev, text |-> r.text]
              \in [at: {"no", "posted", "host", "confirming"},
                  rev: Revisions, text: Seq(Transactions)]
        BY <1>2
      <4>3. save' \in Saves
        BY <2>1, <4>1, <4>2 DEF Typed, FlowsTyped, Saves
      <4>4. QED BY <4>1, <4>3 DEF Typed, HandlersTyped, FlowsTyped, MessagesTyped
    <3>2. CASE ~r.ok
      BY <1>7, <2>1, <3>2, EndSaveTyped DEF DeliverSaved
    <3>3. QED BY <3>1, <3>2
  <2>3. ShellTyped'
    BY <1>7 DEF DeliverSaved, shellVars, Typed, ShellTyped
  <2>4. HandlersTyped'
    BY <1>7, <2>2 DEF DeliverSaved, editVars, Typed, HandlersTyped
  <2>5. FlowsTyped'
    BY <1>7, <2>2 DEF DeliverSaved, Typed, FlowsTyped
  <2>6. QED BY <1>1, <1>3, <2>2, <2>3, <2>4, <2>5 DEF Typed, MessagesTyped
<1>8. CASE DeliverConfirmed(r)
  <2>1. r.who \in Flows
    BY <1>2, <1>8 DEF DeliverConfirmed, Asks
  <2>2. /\ activity' \in Activities /\ closing' \in Closings /\ queue' \in Seq(Requests)
        /\ decided' \in {"none", "discard", "saved"} /\ save' \in Saves
    BY <1>2, <1>8, <2>1, EndSaveTyped DEF DeliverConfirmed
  <2>3. ShellTyped'
    BY <1>2, <1>8 DEF DeliverConfirmed, Typed, ShellTyped
  <2>4. HandlersTyped'
    BY <1>8, <2>2 DEF DeliverConfirmed, editVars, Typed, HandlersTyped
  <2>5. FlowsTyped'
    BY <1>8, <2>2 DEF DeliverConfirmed, Typed, FlowsTyped
  <2>6. QED BY <1>1, <1>3, <2>2, <2>3, <2>4, <2>5 DEF Typed, MessagesTyped
<1>9. CASE DeliverClosed(r)
  <2>1. ShellTyped'
    BY <1>2, <1>9 DEF DeliverClosed, NoMove, Typed, ShellTyped
  <2>2. HandlersTyped'
    BY <1>9 DEF DeliverClosed, editVars, Typed, HandlersTyped, Activities
  <2>3. FlowsTyped' /\ queue' = queue
    BY <1>9 DEF DeliverClosed, saveVars, Typed, FlowsTyped, Closings
  <2>4. QED BY <1>1, <1>3, <2>1, <2>2, <2>3 DEF Typed, MessagesTyped
<1>10. QED BY <1>4, <1>5, <1>6, <1>7, <1>8, <1>9 DEF Deliver, r

\* What a commit captured is shown after the page was described.
LEMMA RefreshTyped ==
  ASSUME Typed, NEW w \in Tasks, Refresh(w)
  PROVE  Typed'
<1>1. CoreInv' /\ FlowsTyped' /\ queue' = queue /\ replies' = replies
  BY DEF Refresh, coreVars, closeVars, saveVars, Typed, CoreInv, CoreTypes, HistoryFits, FlowsTyped
<1>2. /\ took[w].rev \in Revisions /\ took[w].saved \in Revisions
      /\ took[w].text \in Seq(Transactions)
  BY DEF Typed, HandlersTyped
<1>3. ShellTyped'
  BY <1>2 DEF Refresh, shellVars, Typed, ShellTyped
<1>4. 0 \in Revisions /\ << >> \in Seq(Transactions)
  BY EmptySeq, MaxRevisionAssumption DEF Revisions
<1>5. HandlersTyped'
  BY <1>4 DEF Refresh, EndStage, At, NoCommit, Typed, HandlersTyped, Activities, Stages
<1>6. QED BY <1>1, <1>3, <1>5 DEF Typed, MessagesTyped

--------------------------------------------------------------------------------
(* The worker.                                                                  *)

\* What the worker does with the oldest request is a call of the kernel.
LEMMA ServeIsCore ==
  ASSUME Typed, Serve
  PROVE  [CoreNext]_coreVars
<1> DEFINE q == Head(queue)
<1>1. q \in Requests
  BY HeadRequest DEF Serve, Typed
<1>2. /\ q.op = "apply" => q.who \in Transactions
      /\ q.arg \in Revisions
  BY <1>1 DEF Requests, Asks
<1> HIDE DEF q
<1>3. CASE q.op = "apply" /\ Commit(q.who, q.arg)
  <2>1. q.arg = revision
    BY <1>3 DEF Commit, CanCommit
  <2>2. QED BY <1>2, <1>3, <2>1 DEF CoreNext
<1>4. CASE Undo \/ Redo \/ Close \/ UNCHANGED coreVars
  BY <1>4 DEF CoreNext
<1>5. CASE Confirm(q.arg)
  <2>1. q.arg \in 0 .. revision
    BY <1>2, <1>5, MaxRevisionAssumption DEF Confirm, CanConfirm, Revisions, Typed, CoreInv, CoreTypes
  <2>2. QED BY <1>5, <2>1 DEF CoreNext
<1>6. QED BY <1>3, <1>4, <1>5 DEF Serve, Changes, q

\* An answer to the request q; and what the worker's answer says: a change and a
\* reading of the text answer with the revision and the text of the document then.
Answer(q, ok, rev, text, move) ==
  [op |-> q.op, who |-> q.who, ok |-> ok, rev |-> rev, text |-> text, move |-> move]

Says(op, ok, rev, text) ==
  /\ op = "read" /\ ok => rev = revision /\ text = log /\ UNCHANGED coreVars
  /\ op \in {"apply"} \cup Move /\ ok => rev = revision' /\ text = log'

Answered(q) ==
  \E r \in Replies : /\ replies' = Append(replies, r)
                     /\ r.op = q.op /\ r.who = q.who
                     /\ Says(r.op, r.ok, r.rev, r.text)

\* What an answer says is what its request may be told.
LEMMA AnswerSays ==
  ASSUME NEW q \in Requests, NEW ok \in BOOLEAN, NEW rev \in Revisions,
         NEW text \in Seq(Transactions), NEW move \in [Move -> BOOLEAN],
         replies' = Append(replies, Answer(q, ok, rev, text, move)), Says(q.op, ok, rev, text)
  PROVE  Answered(q)
<1>1. q.op \in Ops /\ q.who \in Tasks \cup Flows /\ Asks(q.op, q.who)
  BY DEF Requests
<1>2. Answer(q, ok, rev, text, move) \in Replies
  BY <1>1 DEF Replies, Answer
<1>3. /\ Answer(q, ok, rev, text, move).op = q.op /\ Answer(q, ok, rev, text, move).who = q.who
      /\ Answer(q, ok, rev, text, move).ok = ok /\ Answer(q, ok, rev, text, move).rev = rev
      /\ Answer(q, ok, rev, text, move).text = text
  BY DEF Answer
<1>4. QED BY <1>2, <1>3 DEF Answered

\* The oldest request is answered.
LEMMA ServeAnswers ==
  ASSUME Typed, Serve
  PROVE  Answered(Head(queue))
<1>1. PICK q \in Requests : q = Head(queue)
  BY HeadRequest DEF Serve, Typed
<1> SUFFICES Answered(q)
    BY <1>1 DEF Answered
<1>2. CoreInv'
  BY ServeIsCore, NextCore DEF Typed
<1>3. PICK r0 \in Revisions, t0 \in Seq(Transactions) : r0 = revision /\ t0 = log
  BY MaxRevisionAssumption DEF Typed, CoreInv, CoreTypes, Revisions
<1>4. PICK r1 \in Revisions, t1 \in Seq(Transactions) : r1 = revision' /\ t1 = log'
  BY <1>2, MaxRevisionAssumption DEF CoreInv, CoreTypes, Revisions
<1>5. /\ 0 \in Revisions /\ << >> \in Seq(Transactions) /\ NoMove \in [Move -> BOOLEAN]
      /\ q.arg \in Revisions
  BY EmptySeq, MaxRevisionAssumption DEF Revisions, NoMove, Requests
<1>6. \/ Changes(q) /\ ReplyCommit(q)
      \/ Reads(q) /\ UNCHANGED coreVars
      \/ q.op = "confirm" /\ Reply(q, TRUE, q.arg, << >>, NoMove)
      \/ q.op = "close" /\ Reply(q, TRUE, 0, << >>, NoMove)
      \/ Refuse(q)
  BY <1>1 DEF Serve
<1>7. CASE Changes(q) /\ ReplyCommit(q)
  <2>1. PICK move \in [Move -> BOOLEAN] :
          move = [m \in Move |-> IF m = "undo" THEN undoable' > 0 ELSE redone' # << >>]
    <3>1. (undoable' > 0) \in BOOLEAN /\ (redone' # << >>) \in BOOLEAN
      OBVIOUS
    <3>2. QED BY <3>1, Zenon
  <2>2. replies' = Append(replies, Answer(q, TRUE, r1, t1, move))
    BY <1>4, <1>7, <2>1 DEF ReplyCommit, Reply, Answer
  <2>3. Says(q.op, TRUE, r1, t1)
    BY <1>4, <1>7 DEF Changes, Says
  <2>4. QED BY <2>2, <2>3, AnswerSays
<1>8. CASE Reads(q) /\ UNCHANGED coreVars
  <2>1. /\ replies' = Append(replies, Answer(q, TRUE, r0, t0, NoMove))
        /\ Says(q.op, TRUE, r0, t0)
    BY <1>3, <1>8 DEF Reads, Reply, Answer, Says, Move
  <2>2. QED BY <1>5, <2>1, AnswerSays
<1>9. CASE q.op = "confirm" /\ Reply(q, TRUE, q.arg, << >>, NoMove)
  <2>1. /\ replies' = Append(replies, Answer(q, TRUE, q.arg, << >>, NoMove))
        /\ Says(q.op, TRUE, q.arg, << >>)
    BY <1>9 DEF Reply, Answer, Says, Move
  <2>2. QED BY <1>5, <2>1, AnswerSays
<1>10. CASE q.op = "close" /\ Reply(q, TRUE, 0, << >>, NoMove)
  <2>1. /\ replies' = Append(replies, Answer(q, TRUE, 0, << >>, NoMove))
        /\ Says(q.op, TRUE, 0, << >>)
    BY <1>10 DEF Reply, Answer, Says, Move
  <2>2. QED BY <1>5, <2>1, AnswerSays
<1>11. CASE Refuse(q)
  <2>1. /\ replies' = Append(replies, Answer(q, FALSE, 0, << >>, NoMove))
        /\ Says(q.op, FALSE, 0, << >>)
    BY <1>11 DEF Refuse, Reply, Answer, Says
  <2>2. QED BY <1>5, <2>1, AnswerSays
<1>12. QED BY <1>6, <1>7, <1>8, <1>9, <1>10, <1>11

\* The worker serves a request.
LEMMA ServeTyped ==
  ASSUME Typed, Serve
  PROVE  Typed'
<1>1. CoreInv'
  BY ServeIsCore, NextCore DEF Typed
<1>2. queue' \in Seq(Requests)
  BY HeadRequest DEF Serve, Typed
<1>3. replies' \in Seq(Replies)
  BY ServeAnswers, AppendProperties DEF Answered, Typed, MessagesTyped
<1>4. ShellTyped' /\ HandlersTyped' /\ FlowsTyped'
  BY DEF Serve, shellVars, busyVars, editVars, closeVars, saveVars, Typed, ShellTyped,
         HandlersTyped, FlowsTyped
<1>5. QED BY <1>1, <1>2, <1>3, <1>4 DEF Typed, MessagesTyped

--------------------------------------------------------------------------------
(* Types, and the kernel behind the shell.                                      *)

\* Every step keeps the types.
LEMMA NextTyped == Typed /\ [Next]_vars => Typed'
<1> SUFFICES ASSUME Typed, [Next]_vars PROVE Typed'
    OBVIOUS
<1>1. CASE Next
  BY <1>1, StartEditTyped, MoveHistoryTyped, ApplicationTyped, StartSaveTyped, HostAnswersTyped,
     CloseTyped, ServeTyped, DeliverTyped, RefreshTyped DEF Next
<1>2. CASE UNCHANGED vars
  BY <1>2 DEF vars, coreVars, shellVars, busyVars, editVars, closeVars, saveVars, Typed,
     CoreInv, CoreTypes, HistoryFits, ShellTyped, HandlersTyped, FlowsTyped, MessagesTyped
<1>3. QED BY <1>1, <1>2

\* Only the worker calls the kernel.
LEMMA NextIsCore == Typed /\ [Next]_vars => [CoreNext]_coreVars
<1> SUFFICES ASSUME Typed, [Next]_vars PROVE [CoreNext]_coreVars
    OBVIOUS
<1>1. CASE Serve
  BY <1>1, ServeIsCore
<1>2. CASE Next /\ ~Serve
  BY <1>2 DEF Next, StartEdit, EditLoaded, MoveHistory, StartApply, ReadSources,
     PostApplication, StartSave, HostAnswers, StartClose, AnswerPrompt, Deliver, Refresh
<1>3. CASE UNCHANGED vars
  BY <1>3 DEF vars
<1>4. QED BY <1>1, <1>2, <1>3

\* The invariant holds throughout.
LEMMA TypedHolds == Spec => []Typed
  BY InitTyped, NextTyped, PTL DEF Spec

\* Every value the shell, the worker and the kernel keep of a document has its type;
\* revisions stay below the largest one.
THEOREM SessionTypes == Spec => []TypeOK
<1>1. Typed => TypeOK
  <2> SUFFICES ASSUME Typed PROVE TypeOK
      OBVIOUS
  <2>1. /\ open \in BOOLEAN /\ ids \subseteq Transactions
        /\ log \in Seq(Transactions) /\ redone \in Seq(Transactions)
        /\ revision \in Revisions /\ saved \in Revisions
    BY MaxRevisionAssumption DEF Typed, CoreInv, CoreTypes, Revisions
  <2>2. undoable \in 0 .. UndoLimit
    BY UndoLimitAssumption, LenProperties DEF Typed, CoreInv, CoreTypes, HistoryFits
  <2>3. \A w \in Tasks : took[w].rev \in Revisions /\ took[w].saved \in Revisions
    BY DEF Typed, HandlersTyped
  <2>4. \A t \in Flows : save[t].at \in {"no", "posted", "host", "confirming"}
    BY DEF Typed, FlowsTyped, Saves
  <2>5. QED BY <2>1, <2>2, <2>3, <2>4 DEF Typed, ShellTyped, HandlersTyped, FlowsTyped,
               Activities, Closings, TypeOK
<1>2. QED BY <1>1, TypedHolds, PTL

\* However edits, undos, redos, saves and the application of AI answers overlap in the
\* shell, the history of the document (pde_apply, pde_undo and pde_redo) is one that
\* SessionHistory allows.
THEOREM SessionImplements == Spec => Implements
<1>1. Init => CoreInit
  BY DEF Init
<1>2. Spec => CoreSpec
  BY <1>1, TypedHolds, NextIsCore, PTL DEF Spec, CoreSpec
<1>3. QED BY <1>2, CoreImplements

--------------------------------------------------------------------------------
(* Part 3: the AI answer and its text.                                          *)

Disturbing == Touching \cup Applications

Elements(s) == {s[i] : i \in 1 .. Len(s)}

\* An application based on revision r would find the text it is for, or is refused.
Fits(r) == r <= revision /\ (r = revision => Intact(log))

\* The application has read its text, or is about to.
Reading(a) == stage[a] \notin {"new", "drafts"}

\* No revision is heard of, remembered or used before it was made.
Heard ==
  /\ known <= revision
  /\ \A w \in Tasks : took[w].rev <= revision
  /\ \A a \in Applications : base[a] <= revision
  /\ \A r \in Elements(replies) : r.op \in {"apply"} \cup Move /\ r.ok => r.rev <= revision

\* A text that is being read is the text of the base or of a later revision.
TextRead ==
  /\ \A q \in Elements(queue) : q.op = "read" => Reading(q.who)
  /\ \A r \in Elements(replies) : r.op = "read" =>
       /\ Reading(r.who)
       /\ r.ok => /\ base[r.who] <= r.rev /\ r.rev <= revision
                  /\ r.rev = revision => r.text = log

\* An application that was checked fits, as it is prepared and as it is sent.
Checked ==
  /\ \A a \in Applications : stage[a] = "prepared" => Fits(base[a])
  /\ \A q \in Elements(queue) : q.op = "apply" /\ q.who \in Applications => Fits(q.arg)

\* An applied answer has nothing below it that disturbed its text, and neither has one
\* that was undone, once it is redone.
LogInv ==
  \A i, k \in 1 .. Len(log) : log[i] \in Applications /\ k < i => log[k] \notin Disturbing

RedoInv ==
  \A i \in 1 .. Len(redone) : redone[i] \in Applications =>
    /\ \A k \in 1 .. Len(log) : log[k] \notin Disturbing
    /\ \A k \in 1 .. Len(redone) : i < k => redone[k] \notin Disturbing

AnswerInv == Heard /\ TextRead /\ Checked /\ LogInv /\ RedoInv

--------------------------------------------------------------------------------
(* Elements of sequences.                                                       *)

\* Appending adds one element.
LEMMA ElementsAppend ==
  ASSUME NEW S, NEW s \in Seq(S), NEW x \in S
  PROVE  Elements(Append(s, x)) = Elements(s) \cup {x}
<1>1. /\ Len(Append(s, x)) = Len(s) + 1
      /\ \A i \in 1 .. Len(s) : Append(s, x)[i] = s[i]
      /\ Append(s, x)[Len(s) + 1] = x
      /\ Len(s) \in Nat
  BY AppendProperties, LenProperties
<1>2. 1 .. Len(s) + 1 = (1 .. Len(s)) \cup {Len(s) + 1}
  BY <1>1
<1>3. QED BY <1>1, <1>2 DEF Elements

\* The head is an element, and the tail holds no others.
LEMMA ElementsTail ==
  ASSUME NEW S, NEW s \in Seq(S), s # << >>
  PROVE  Head(s) \in Elements(s) /\ Elements(Tail(s)) \subseteq Elements(s)
<1>1. /\ Len(s) \in Nat /\ Len(s) # 0 /\ Head(s) = s[1]
      /\ Len(Tail(s)) = Len(s) - 1
      /\ \A i \in 1 .. Len(Tail(s)) : Tail(s)[i] = s[i + 1]
  BY HeadTailProperties, LenProperties, EmptySeq
<1>2. Head(s) \in Elements(s)
  BY <1>1 DEF Elements
<1>3. ASSUME NEW i \in 1 .. Len(Tail(s)) PROVE Tail(s)[i] \in Elements(s)
  <2>1. i + 1 \in 1 .. Len(s)
    BY <1>1
  <2>2. QED BY <1>1, <2>1 DEF Elements
<1>4. QED BY <1>2, <1>3 DEF Elements

\* A request that is posted is the only new one in the queue.
LEMMA PostElements ==
  ASSUME MessagesTyped, NEW op \in Ops, NEW who \in Tasks \cup Flows, NEW arg \in Revisions,
         Asks(op, who), Post(Request(op, who, arg))
  PROVE  \A q \in Elements(queue') : q \in Elements(queue) \/ q = Request(op, who, arg)
<1>1. Request(op, who, arg) \in Requests
  BY DEF Request, Requests
<1>2. QED BY <1>1, ElementsAppend DEF MessagesTyped, Post

--------------------------------------------------------------------------------
(* The shell.                                                                   *)

\* What keeps the invariant in a step of the shell, which leaves the document alone and
\* takes answers only out of the replies.
LEMMA ShellKeeps ==
  ASSUME Typed, AnswerInv, UNCHANGED coreVars,
         Elements(replies') \subseteq Elements(replies),
         \A q \in Elements(queue') : \/ q \in Elements(queue)
                                     \/ q.op \notin {"apply", "read"}
                                     \/ q.op = "apply" /\ q.who \notin Applications
                                     \/ q.op = "apply" /\ q.who \in Applications /\ Fits(q.arg)
                                     \/ q.op = "read" /\ q.who \in Applications /\ Reading(q.who)',
         \A a \in Applications : Reading(a) => Reading(a)' /\ base'[a] = base[a],
         known' <= revision,
         \A w \in Tasks : took'[w].rev <= revision,
         \A a \in Applications : base'[a] <= revision,
         \A a \in Applications : stage'[a] = "prepared" => Fits(base'[a])
  PROVE  AnswerInv'
<1> USE DEF AnswerInv
<1>1. UNCHANGED << revision, log, redone >>
  BY DEF coreVars
<1>2. Heard'
  BY <1>1 DEF Heard
<1>3. \A q \in Elements(queue) : q.op = "read" => q.who \in Applications
  BY DEF Typed, MessagesTyped, Requests, Asks, Elements
<1>4. \A r \in Elements(replies) : r.op = "read" => r.who \in Applications
  BY DEF Typed, MessagesTyped, Replies, Asks, Elements
<1>5. TextRead'
  BY <1>1, <1>3, <1>4 DEF TextRead
<1>6. Checked'
  BY <1>1 DEF Checked, Fits, Intact
<1>7. LogInv' /\ RedoInv'
  BY <1>1 DEF LogInv, RedoInv
<1>8. QED BY <1>2, <1>5, <1>6, <1>7

\* A step that does not touch any application.
LEMMA OtherKeeps ==
  ASSUME Typed, AnswerInv, UNCHANGED coreVars, UNCHANGED << base, known, took >>,
         Elements(replies') \subseteq Elements(replies),
         \A q \in Elements(queue') : \/ q \in Elements(queue)
                                     \/ q.op \notin {"apply", "read"}
                                     \/ q.op = "apply" /\ q.who \notin Applications,
         \A a \in Applications : stage'[a] = stage[a] \/ stage'[a] \in {"done", "failed"}
  PROVE  AnswerInv'
<1>1. \A a \in Applications : Reading(a) => Reading(a)' /\ base'[a] = base[a]
  BY DEF Reading
<1>2. \A a \in Applications : stage'[a] = "prepared" => Fits(base'[a])
  BY DEF AnswerInv, Checked
<1>3. QED BY <1>1, <1>2, ShellKeeps DEF AnswerInv, Heard

\* The requests of the saves and of the closing are of no concern.
LEMMA FlowRequests ==
  ASSUME Typed, NEW t \in Flows, NEW op \in {"save", "confirm", "close"}, NEW arg \in Revisions,
         Post(Request(op, t, arg))
  PROVE  \A q \in Elements(queue') : q \in Elements(queue) \/ q.op \notin {"apply", "read"}
<1>1. op \in Ops /\ t \in Tasks \cup Flows /\ Asks(op, t)
  BY DEF Ops, Asks, Move
<1>2. \A q \in Elements(queue') : q \in Elements(queue) \/ q = Request(op, t, arg)
  BY <1>1, PostElements DEF Typed
<1>3. QED BY <1>2 DEF Request

\* Closing posts neither a change nor a read of the text.
LEMMA BeginCloseRequests ==
  ASSUME Typed, BeginClose
  PROVE  \A q \in Elements(queue') : q \in Elements(queue) \/ q.op \notin {"apply", "read"}
<1>1. "close" \in Flows /\ 0 \in Revisions
  BY MaxRevisionAssumption DEF Flows, Revisions
<1>2. QED BY <1>1, FlowRequests DEF BeginClose

\* Nor does the end of a save, which may go on to close.
LEMMA EndSaveRequests ==
  ASSUME Typed, NEW t, NEW written, NEW started, EndSave(t, written, started)
  PROVE  \A q \in Elements(queue') : q \in Elements(queue) \/ q.op \notin {"apply", "read"}
<1>1. CASE BeginClose
  BY <1>1, BeginCloseRequests
<1>2. CASE ~BeginClose
  BY <1>2 DEF EndSave
<1>3. QED BY <1>1, <1>2

\* A manual edit changes nothing an application relies on.
LEMMA ManualKeeps ==
  ASSUME Typed, AnswerInv, NEW e \in Manual, StartEdit(e) \/ EditLoaded(e)
  PROVE  AnswerInv'
<1> USE EditsAssumption
<1>1. e \in Tasks /\ e \notin Applications
  BY DEF Tasks
<1>2. \A q \in Elements(queue') : \/ q \in Elements(queue)
                                  \/ q.op = "apply" /\ q.who \notin Applications
  <2>1. CASE PostEdit(e)
    <3>1. "apply" \in Ops /\ known \in Revisions /\ Asks("apply", e)
      BY DEF Ops, Typed, ShellTyped, Asks, Move
    <3>2. \A q \in Elements(queue') : q \in Elements(queue) \/ q = Request("apply", e, known)
      BY <1>1, <2>1, <3>1, PostElements DEF PostEdit, Typed
    <3>3. QED BY <1>1, <3>2 DEF Request
  <2>2. CASE ~PostEdit(e)
    BY <2>2 DEF StartEdit, EditLoaded
  <2>3. QED BY <2>1, <2>2
<1>3. \A a \in Applications : stage'[a] = stage[a]
  BY <1>1 DEF StartEdit, EditLoaded, PostEdit, At, Typed, HandlersTyped, Tasks
<1>4. UNCHANGED coreVars /\ UNCHANGED << base, known, took, replies >>
  BY DEF StartEdit, EditLoaded, shellVars
<1>5. QED BY <1>2, <1>3, <1>4, OtherKeeps

\* Nor does the click of undo or redo.
LEMMA MoveKeeps ==
  ASSUME Typed, AnswerInv, NEW m \in Move, MoveHistory(m)
  PROVE  AnswerInv'
<1>1. m \in Ops /\ m \in Tasks /\ 0 \in Revisions /\ Asks(m, m) /\ m \notin Applications
  BY EditsAssumption, MaxRevisionAssumption DEF Ops, Move, Tasks, Revisions, Asks
<1>2. \A q \in Elements(queue') : q \in Elements(queue) \/ q = Request(m, m, 0)
  BY <1>1, PostElements DEF MoveHistory, Typed
<1>3. \A q \in Elements(queue') : q \in Elements(queue) \/ q.op \notin {"apply", "read"}
  BY <1>2 DEF Request, Move
<1>4. \A a \in Applications : stage'[a] = stage[a]
  BY <1>1 DEF MoveHistory, At, Typed, HandlersTyped, Tasks
<1>5. UNCHANGED coreVars /\ UNCHANGED << base, known, took, replies >>
  BY DEF MoveHistory, shellVars
<1>6. QED BY <1>3, <1>4, <1>5, OtherKeeps

\* An application takes the revision that is known as its base before it asks for its
\* text, and sends what was checked.
LEMMA ApplicationKeeps ==
  ASSUME Typed, AnswerInv, NEW a \in Applications,
         StartApply(a) \/ ReadSources(a) \/ PostApplication(a)
  PROVE  AnswerInv'
<1> USE EditsAssumption
<1>1. a \in Tasks /\ Applications \subseteq Tasks
  BY DEF Tasks
<1>2. UNCHANGED coreVars /\ UNCHANGED << known, took, replies >>
  BY DEF StartApply, ReadSources, PostApplication, shellVars
<1>3. /\ \A b \in Applications : b # a => stage'[b] = stage[b] /\ base'[b] = base[b]
      /\ stage[a] \in {"new", "drafts", "prepared"}
      /\ stage'[a] \in {"drafts", "reading", "posted", "failed"}
      /\ stage'[a] = "drafts" => stage[a] = "new"
      /\ base'[a] = base[a] \/ (base'[a] = known /\ stage[a] = "drafts")
  BY <1>1 DEF StartApply, ReadSources, PostApplication, At, Typed, HandlersTyped
<1>4. \A q \in Elements(queue') : \/ q \in Elements(queue)
                                  \/ q.op = "read" /\ q.who = a /\ stage'[a] = "reading"
                                  \/ q.op = "apply" /\ q.who = a /\ Fits(q.arg)
  <2>1. CASE ReadSources(a) /\ Post(Request("read", a, 0))
    <3>1. "read" \in Ops /\ 0 \in Revisions /\ Asks("read", a)
      BY MaxRevisionAssumption DEF Ops, Revisions, Asks, Move
    <3>2. \A q \in Elements(queue') : q \in Elements(queue) \/ q = Request("read", a, 0)
      BY <1>1, <2>1, <3>1, PostElements DEF Typed
    <3>3. stage'[a] = "reading" \/ UNCHANGED queue
      BY <1>1, <2>1 DEF ReadSources, At, Typed, HandlersTyped
    <3>4. QED BY <3>2, <3>3 DEF Request
  <2>2. CASE PostApplication(a) /\ Post(Request("apply", a, base[a]))
    <3>1. "apply" \in Ops /\ base[a] \in Revisions /\ Asks("apply", a)
      BY DEF Ops, Typed, HandlersTyped, Asks, Move
    <3>2. \A q \in Elements(queue') : q \in Elements(queue) \/ q = Request("apply", a, base[a])
      BY <1>1, <2>2, <3>1, PostElements DEF Typed
    <3>3. Fits(base[a])
      BY <2>2 DEF PostApplication, AnswerInv, Checked
    <3>4. QED BY <3>2, <3>3 DEF Request
  <2>3. CASE UNCHANGED queue
    BY <2>3
  <2>4. QED BY <2>1, <2>2, <2>3 DEF StartApply, ReadSources, PostApplication
<1>5. \A b \in Applications : Reading(b) => Reading(b)' /\ base'[b] = base[b]
  BY <1>3 DEF Reading
<1>6. known \in Nat /\ revision \in Nat /\ \A b \in Applications : base'[b] <= revision
  BY <1>3, MaxRevisionAssumption
     DEF AnswerInv, Heard, Typed, ShellTyped, CoreInv, CoreTypes, Revisions
<1>7. \A b \in Applications : stage'[b] = "prepared" => Fits(base'[b])
  BY <1>3 DEF AnswerInv, Checked
<1>8. \A q \in Elements(queue') : \/ q \in Elements(queue)
                                  \/ q.op = "apply" /\ q.who \in Applications /\ Fits(q.arg)
                                  \/ q.op = "read" /\ q.who \in Applications /\ Reading(q.who)'
  BY <1>4 DEF Reading
<1>9. QED BY <1>2, <1>5, <1>6, <1>7, <1>8, ShellKeeps DEF AnswerInv, Heard

\* Saving and closing.
LEMMA FlowsKeep ==
  ASSUME Typed, AnswerInv,
         \/ StartSave
         \/ \E t \in Flows : HostAnswers(t)
         \/ StartClose
         \/ AnswerPrompt
  PROVE  AnswerInv'
<1>1. UNCHANGED coreVars /\ UNCHANGED << stage, base, known, took, replies >>
  BY DEF StartSave, HostAnswers, StartClose, AnswerPrompt, shellVars, editVars
<1>2. "menu" \in Flows /\ "close" \in Flows /\ 0 \in Revisions
  BY MaxRevisionAssumption DEF Flows, Revisions
<1>3. \A q \in Elements(queue') : q \in Elements(queue) \/ q.op \notin {"apply", "read"}
  <2>1. CASE StartSave
    BY <1>2, <2>1, FlowRequests DEF StartSave, BeginSave
  <2>2. ASSUME NEW t \in Flows, HostAnswers(t)
        PROVE  \A q \in Elements(queue') : q \in Elements(queue) \/ q.op \notin {"apply", "read"}
    <3>1. CASE Post(Request("confirm", t, save[t].rev))
      <4>1. save[t].rev \in Revisions
        BY DEF Typed, FlowsTyped, Saves
      <4>2. QED BY <3>1, <4>1, FlowRequests
    <3>2. ASSUME NEW started, EndSave(t, FALSE, started)
          PROVE  \A q \in Elements(queue') : q \in Elements(queue) \/ q.op \notin {"apply", "read"}
      BY <3>2, EndSaveRequests
    <3>3. QED BY <2>2, <3>1, <3>2 DEF HostAnswers
  <2>3. CASE BeginClose
    BY <2>3, BeginCloseRequests
  <2>4. CASE StartClose /\ ~BeginClose
    BY <2>4 DEF StartClose
  <2>5. CASE AnswerPrompt /\ ~BeginClose
    BY <1>2, <2>5, FlowRequests DEF AnswerPrompt, BeginSave
  <2>6. QED BY <2>1, <2>2, <2>3, <2>4, <2>5
<1>4. QED BY <1>1, <1>3, OtherKeeps

\* An application counts as checked when its text was read undisturbed: if its base is
\* still the present revision then that was the present text.
LEMMA DeliverKeeps ==
  ASSUME Typed, AnswerInv, Deliver
  PROVE  AnswerInv'
<1> USE EditsAssumption
<1> DEFINE r == Head(replies)
<1>1. /\ r \in Replies /\ r \in Elements(replies)
      /\ Elements(replies') \subseteq Elements(replies)
  BY HeadReply, ElementsTail DEF Deliver, Typed, MessagesTyped
<1>2. /\ Asks(r.op, r.who) /\ r.ok \in BOOLEAN
      /\ r.op \in {"apply"} \cup Move /\ r.ok => r.rev <= revision
      /\ r.op = "read" /\ r.ok => /\ base[r.who] <= r.rev /\ r.rev <= revision
                                  /\ r.rev = revision => r.text = log
  BY <1>1 DEF Replies, AnswerInv, Heard, TextRead
<1> HIDE DEF r
<1>3. UNCHANGED coreVars
  BY DEF Deliver
<1>4. CASE DeliverCommit(r)
  <2>1. r.who \in Tasks /\ (r.who \in Move => r.who \notin Applications)
    BY <1>2, <1>4 DEF DeliverCommit, Asks, Tasks, Move
  <2>2. UNCHANGED << base, queue >>
    BY <1>4 DEF DeliverCommit
  <2>3. \A a \in Applications : stage'[a] = stage[a] \/ stage'[a] \in {"done", "refreshing"}
    BY <1>4, <2>1 DEF DeliverCommit, EndStage, At, Typed, HandlersTyped, Tasks
  <2>4. known' <= revision
    BY <1>2, <1>4 DEF DeliverCommit, shellVars, AnswerInv, Heard
  <2>5. \A w \in Tasks : took'[w].rev <= revision
    <3>1. \/ took' = took
          \/ /\ r.rev <= revision
             /\ took' = [took EXCEPT ![r.who] =
                           [rev |-> r.rev, saved |-> knownSaved, text |-> r.text]]
      BY <1>2, <1>4 DEF DeliverCommit
    <3>2. /\ \A w \in Tasks : took[w].rev <= revision
          /\ DOMAIN took = Tasks
      BY DEF AnswerInv, Heard, Typed, HandlersTyped
    <3>3. QED BY <3>1, <3>2
  <2>6. \A a \in Applications : Reading(a) => Reading(a)' /\ base'[a] = base[a]
    BY <2>2, <2>3 DEF Reading
  <2>7. /\ \A a \in Applications : stage'[a] = "prepared" => Fits(base'[a])
        /\ \A a \in Applications : base'[a] <= revision
    BY <2>2, <2>3 DEF AnswerInv, Checked, Heard
  <2>8. QED BY <1>1, <1>3, <2>2, <2>4, <2>5, <2>6, <2>7, ShellKeeps
<1>5. CASE DeliverFailure(r)
  <2>1. r.who \in Tasks /\ (r.who \in Move => r.who \notin Applications)
    BY <1>2, <1>5 DEF DeliverFailure, Asks, Tasks, Move
  <2>2. \A a \in Applications : stage'[a] = stage[a] \/ stage'[a] = "failed"
    BY <1>5, <2>1 DEF DeliverFailure, EndStage, At, Typed, HandlersTyped, Tasks
  <2>3. UNCHANGED << base, known, took, queue >>
    BY <1>5 DEF DeliverFailure, shellVars
  <2>4. QED BY <1>1, <1>3, <2>2, <2>3, OtherKeeps
<1>6. CASE DeliverText(r)
  <2>1. r.who \in Applications /\ r.who \in Tasks
    BY <1>2, <1>6 DEF DeliverText, Asks, Tasks
  <2>2. UNCHANGED << base, known, took, queue >>
    BY <1>6 DEF DeliverText, shellVars
  <2>3. \/ Intact(r.text) /\ stage' = [stage EXCEPT ![r.who] = "prepared"]
        \/ stage' = [stage EXCEPT ![r.who] = "failed"]
    BY <1>6 DEF DeliverText, At
  <2>4. base[r.who] \in Nat /\ r.rev \in Nat /\ revision \in Nat
    BY <1>1, <2>1, MaxRevisionAssumption
       DEF Replies, Typed, HandlersTyped, CoreInv, CoreTypes, Revisions
  <2>5. Intact(r.text) => Fits(base[r.who])
    BY <1>2, <1>6, <2>4 DEF DeliverText, Fits
  <2>6. \A a \in Applications : stage'[a] = "prepared" => Fits(base'[a])
    BY <2>1, <2>2, <2>3, <2>5 DEF AnswerInv, Checked, Typed, HandlersTyped, Tasks
  <2>7. \A a \in Applications : Reading(a) => Reading(a)' /\ base'[a] = base[a]
    BY <2>1, <2>2, <2>3 DEF Reading, Typed, HandlersTyped, Tasks
  <2>8. QED BY <1>1, <1>3, <2>2, <2>6, <2>7, ShellKeeps DEF AnswerInv, Heard
<1>7. CASE DeliverSaved(r) \/ DeliverConfirmed(r)
  <2>1. UNCHANGED << base, known, took, stage >>
    BY <1>7 DEF DeliverSaved, DeliverConfirmed, shellVars, editVars
  <2>2. \A q \in Elements(queue') : q \in Elements(queue) \/ q.op \notin {"apply", "read"}
    BY <1>7, EndSaveRequests DEF DeliverSaved, DeliverConfirmed
  <2>3. QED BY <1>1, <1>3, <2>1, <2>2, OtherKeeps
<1>8. CASE DeliverClosed(r)
  <2>1. UNCHANGED << base, known, took, stage, queue >>
    BY <1>8 DEF DeliverClosed, editVars
  <2>2. QED BY <1>1, <1>3, <2>1, OtherKeeps
<1>9. QED BY <1>4, <1>5, <1>6, <1>7, <1>8 DEF Deliver, r

\* What the handler puts back when the page cannot be shown was heard before.
LEMMA RefreshKeeps ==
  ASSUME Typed, AnswerInv, NEW w \in Tasks, Refresh(w)
  PROVE  AnswerInv'
<1>1. UNCHANGED coreVars /\ UNCHANGED << base, queue, replies >>
  BY DEF Refresh
<1>2. \A a \in Applications : stage'[a] = stage[a] \/ stage'[a] = "done"
  BY EditsAssumption DEF Refresh, EndStage, At, Typed, HandlersTyped, Tasks, Move
<1>3. known' <= revision
  BY DEF Refresh, shellVars, AnswerInv, Heard
<1>4. revision \in Nat /\ took' = [took EXCEPT ![w] = NoCommit]
  BY MaxRevisionAssumption DEF Refresh, Typed, CoreInv, CoreTypes
<1>5. \A u \in Tasks : took'[u].rev <= revision
  BY <1>4 DEF NoCommit, AnswerInv, Heard, Typed, HandlersTyped
<1>6. \A a \in Applications : Reading(a) => Reading(a)' /\ base'[a] = base[a]
  BY <1>1, <1>2 DEF Reading
<1>7. /\ \A a \in Applications : stage'[a] = "prepared" => Fits(base'[a])
      /\ \A a \in Applications : base'[a] <= revision
  BY <1>1, <1>2 DEF AnswerInv, Checked, Heard
<1>8. QED BY <1>1, <1>3, <1>5, <1>6, <1>7, ShellKeeps

--------------------------------------------------------------------------------
(* The worker.                                                                  *)

\* A call of the kernel leaves the history alone or makes a new revision.
LEMMA CoreChanges ==
  ASSUME Typed, [CoreNext]_coreVars
  PROVE  UNCHANGED << revision, log, redone >> \/ revision' = revision + 1
<1>1. ASSUME NEW t \in Transactions, Commit(t, revision) PROVE revision' = revision + 1
  BY <1>1 DEF Commit
<1>2. QED BY <1>1 DEF CoreNext, Undo, Redo, Confirm, Close, coreVars

\* What fits keeps fitting: once there is a newer revision it is refused.
LEMMA FitsStays ==
  ASSUME Typed, [CoreNext]_coreVars, NEW c \in Nat, Fits(c)
  PROVE  Fits(c)'
<1>1. revision \in Nat
  BY MaxRevisionAssumption DEF Typed, CoreInv, CoreTypes
<1>2. QED BY <1>1, CoreChanges DEF Fits, Intact

\* What the worker does with the log.
LEMMA ServeChanges ==
  ASSUME Typed, AnswerInv, Serve
  PROVE  \/ \E t \in Transactions : Commit(t, revision) /\ (t \in Applications => Intact(log))
         \/ Undo
         \/ Redo
         \/ UNCHANGED << log, redone >>
<1>1. PICK q \in Requests : q = Head(queue) /\ q \in Elements(queue)
  BY HeadRequest, ElementsTail DEF Serve, Typed, MessagesTyped
<1>2. CASE q.op = "apply" /\ Commit(q.who, q.arg)
  <2>1. q.who \in Transactions /\ q.arg = revision
    BY <1>2 DEF Requests, Asks, Commit, CanCommit
  <2>2. q.who \in Applications => Intact(log)
    BY <1>1, <1>2, <2>1 DEF AnswerInv, Checked, Fits
  <2>3. QED BY <1>2, <2>1, <2>2
<1>3. CASE Undo \/ Redo
  BY <1>3
<1>4. CASE Confirm(q.arg) \/ Close \/ UNCHANGED coreVars
  BY <1>4 DEF Confirm, Close, coreVars
<1>5. QED BY <1>1, <1>2, <1>3, <1>4 DEF Serve, Changes

\* An answer is applied to an intact text, an undo uncovers what was below, and a redo
\* puts back what was above.
LEMMA ServeKeepsLog ==
  ASSUME Typed, AnswerInv, Serve
  PROVE  LogInv' /\ RedoInv'
<1>0. /\ log \in Seq(Transactions) /\ redone \in Seq(Transactions)
      /\ Len(log) \in Nat /\ Len(redone) \in Nat
      /\ LogInv /\ RedoInv
  BY LenProperties DEF Typed, CoreInv, CoreTypes, AnswerInv
<1>1. ASSUME NEW t \in Transactions, Commit(t, revision), t \in Applications => Intact(log)
      PROVE  LogInv' /\ RedoInv'
  <2>1. /\ Len(log') = Len(log) + 1
        /\ \A i \in 1 .. Len(log) : log'[i] = log[i]
        /\ log'[Len(log) + 1] = t
    BY <1>0, <1>1, AppendProperties DEF Commit
  <2>2. LogInv'
    <3> SUFFICES ASSUME NEW i \in 1 .. Len(log'), NEW k \in 1 .. Len(log'),
                        log'[i] \in Applications, k < i
                 PROVE  log'[k] \notin Disturbing
        BY DEF LogInv
    <3>1. k \in 1 .. Len(log) /\ log'[k] = log[k]
      BY <1>0, <2>1
    <3>2. CASE i = Len(log) + 1
      BY <1>1, <2>1, <3>1, <3>2 DEF Intact, Disturbing
    <3>3. CASE i \in 1 .. Len(log)
      BY <1>0, <2>1, <3>1, <3>3 DEF LogInv
    <3>4. QED BY <1>0, <2>1, <3>2, <3>3
  <2>3. Len(redone') = 0
    BY <1>1, EmptySeq DEF Commit
  <2>4. RedoInv'
    BY <2>3 DEF RedoInv
  <2>5. QED BY <2>2, <2>4
<1>2. CASE Undo
  <2> DEFINE n == Len(log)
             t == log[n]
  <2>1. /\ n # 0 /\ Len(log') = n - 1
        /\ \A i \in 1 .. n - 1 : log'[i] = log[i]
        /\ t \in Transactions
    BY <1>0, <1>2, ButLast DEF Undo, CanUndo
  <2>2. /\ Len(redone') = Len(redone) + 1
        /\ \A i \in 1 .. Len(redone) : redone'[i] = redone[i]
        /\ redone'[Len(redone) + 1] = t
    BY <1>0, <1>2, <2>1, AppendProperties DEF Undo
  <2> HIDE DEF t, n
  <2>3. n = Len(log) /\ t = log[n] /\ n \in Nat
    BY <1>0 DEF t, n
  <2>4. LogInv'
    <3> SUFFICES ASSUME NEW i \in 1 .. Len(log'), NEW k \in 1 .. Len(log'),
                        log'[i] \in Applications, k < i
                 PROVE  log'[k] \notin Disturbing
        BY DEF LogInv
    <3>1. i \in 1 .. n - 1 /\ k \in 1 .. n - 1 /\ i \in 1 .. n /\ k \in 1 .. n
      BY <2>1, <2>3
    <3>2. QED BY <1>0, <2>1, <2>3, <3>1 DEF LogInv
  <2>5. RedoInv'
    <3> SUFFICES ASSUME NEW i \in 1 .. Len(redone'), redone'[i] \in Applications
                 PROVE  /\ \A k \in 1 .. Len(log') : log'[k] \notin Disturbing
                        /\ \A k \in 1 .. Len(redone') : i < k => redone'[k] \notin Disturbing
        BY DEF RedoInv
    <3>1. \A k \in 1 .. Len(log') : k \in 1 .. n /\ k < n /\ log'[k] = log[k]
      BY <2>1, <2>3
    <3>2. n \in 1 .. n
      BY <2>1, <2>3
    <3>3. CASE i = Len(redone) + 1
      <4>1. log[n] \in Applications
        BY <2>2, <2>3, <3>3
      <4>2. \A k \in 1 .. Len(log') : log'[k] \notin Disturbing
        BY <1>0, <2>3, <3>1, <3>2, <4>1 DEF LogInv
      <4>3. \A k \in 1 .. Len(redone') : ~(i < k)
        BY <1>0, <2>2, <3>3
      <4>4. QED BY <4>2, <4>3
    <3>4. CASE i \in 1 .. Len(redone)
      <4>1. redone[i] \in Applications
        BY <2>2, <3>4
      <4>2. /\ \A k \in 1 .. n : log[k] \notin Disturbing
            /\ \A k \in 1 .. Len(redone) : i < k => redone[k] \notin Disturbing
        BY <1>0, <2>3, <3>4, <4>1 DEF RedoInv
      <4>3. ASSUME NEW k \in 1 .. Len(redone'), i < k
            PROVE  redone'[k] \notin Disturbing
        <5>1. CASE k = Len(redone) + 1
          BY <2>2, <2>3, <3>2, <4>2, <5>1
        <5>2. CASE k \in 1 .. Len(redone)
          BY <2>2, <4>2, <4>3, <5>2
        <5>3. QED BY <1>0, <2>2, <5>1, <5>2
      <4>4. QED BY <3>1, <4>2, <4>3
    <3>5. QED BY <1>0, <2>2, <3>3, <3>4
  <2>6. QED BY <2>4, <2>5
<1>3. CASE Redo
  <2> DEFINE n == Len(redone)
             t == redone[n]
  <2>1. /\ n # 0 /\ Len(redone') = n - 1
        /\ \A i \in 1 .. n - 1 : redone'[i] = redone[i]
        /\ t \in Transactions
    BY <1>0, <1>3, ButLast DEF Redo, CanRedo
  <2>2. /\ Len(log') = Len(log) + 1
        /\ \A i \in 1 .. Len(log) : log'[i] = log[i]
        /\ log'[Len(log) + 1] = t
    BY <1>0, <1>3, <2>1, AppendProperties DEF Redo
  <2> HIDE DEF t, n
  <2>3. n = Len(redone) /\ t = redone[n] /\ n \in Nat /\ n \in 1 .. n
    BY <1>0, <2>1 DEF t, n
  <2>4. LogInv'
    <3> SUFFICES ASSUME NEW i \in 1 .. Len(log'), NEW k \in 1 .. Len(log'),
                        log'[i] \in Applications, k < i
                 PROVE  log'[k] \notin Disturbing
        BY DEF LogInv
    <3>1. k \in 1 .. Len(log) /\ log'[k] = log[k]
      BY <1>0, <2>2
    <3>2. CASE i = Len(log) + 1
      BY <1>0, <2>2, <2>3, <3>1, <3>2 DEF RedoInv
    <3>3. CASE i \in 1 .. Len(log)
      BY <1>0, <2>2, <3>1, <3>3 DEF LogInv
    <3>4. QED BY <1>0, <2>2, <3>2, <3>3
  <2>5. RedoInv'
    <3> SUFFICES ASSUME NEW i \in 1 .. Len(redone'), redone'[i] \in Applications
                 PROVE  /\ \A k \in 1 .. Len(log') : log'[k] \notin Disturbing
                        /\ \A k \in 1 .. Len(redone') : i < k => redone'[k] \notin Disturbing
        BY DEF RedoInv
    <3>1. i \in 1 .. n /\ i < n /\ redone[i] \in Applications
      BY <2>1, <2>3
    <3>2. /\ \A k \in 1 .. Len(log) : log[k] \notin Disturbing
          /\ \A k \in 1 .. n : i < k => redone[k] \notin Disturbing
      BY <1>0, <2>3, <3>1 DEF RedoInv
    <3>3. t \notin Disturbing
      BY <2>3, <3>1, <3>2
    <3>4. ASSUME NEW k \in 1 .. Len(log') PROVE log'[k] \notin Disturbing
      BY <1>0, <2>2, <3>2, <3>3
    <3>5. ASSUME NEW k \in 1 .. Len(redone'), i < k PROVE redone'[k] \notin Disturbing
      BY <2>1, <2>3, <3>2, <3>5
    <3>6. QED BY <3>4, <3>5
  <2>6. QED BY <2>4, <2>5
<1>4. CASE UNCHANGED << log, redone >>
  BY <1>0, <1>4 DEF LogInv, RedoInv
<1>5. QED BY <1>1, <1>2, <1>3, <1>4, ServeChanges

\* A text is read as it is, and what was read, heard or checked before stays so.
LEMMA ServeKeeps ==
  ASSUME Typed, AnswerInv, Serve
  PROVE  AnswerInv'
<1>1. UNCHANGED << known, took, base, stage >>
  BY DEF Serve, shellVars, editVars
<1>2. /\ Head(queue) \in Elements(queue)
      /\ Elements(queue') \subseteq Elements(queue)
  BY ElementsTail DEF Serve, Typed, MessagesTyped
<1>3. PICK r \in Replies : /\ replies' = Append(replies, r)
                           /\ r.op = Head(queue).op /\ r.who = Head(queue).who
                           /\ Says(r.op, r.ok, r.rev, r.text)
  BY ServeAnswers DEF Answered
<1>4. Elements(replies') = Elements(replies) \cup {r}
  BY <1>3, ElementsAppend DEF Typed, MessagesTyped
<1>5. /\ [CoreNext]_coreVars
      /\ UNCHANGED << revision, log, redone >> \/ revision' = revision + 1
  BY ServeIsCore, CoreChanges
<1>6. /\ revision \in Nat /\ known \in Nat /\ revision' \in Nat /\ r.rev \in Nat
      /\ \A w \in Tasks : took[w].rev \in Nat
      /\ \A a \in Applications : base[a] \in Nat
      /\ \A x \in Elements(replies) : x.rev \in Nat /\ (x.op = "read" => x.who \in Applications)
      /\ \A q \in Elements(queue) : q.arg \in Nat /\ (q.op = "read" => q.who \in Applications)
  <2>1. revision \in Nat /\ known \in Nat /\ r.rev \in Nat
    BY MaxRevisionAssumption DEF Typed, ShellTyped, CoreInv, CoreTypes, Revisions, Replies
  <2>2. \A w \in Tasks : took[w].rev \in Nat
    BY MaxRevisionAssumption DEF Typed, HandlersTyped, Revisions
  <2>3. \A a \in Applications : base[a] \in Nat
    BY MaxRevisionAssumption DEF Typed, HandlersTyped, Revisions
  <2>4. Elements(replies) \subseteq Replies /\ Elements(queue) \subseteq Requests
    BY ElementOfSeq DEF Typed, MessagesTyped, Elements
  <2>5. \A x \in Replies : x.rev \in Nat /\ (x.op = "read" => x.who \in Applications)
    BY MaxRevisionAssumption DEF Replies, Revisions, Asks
  <2>6. \A q \in Requests : q.arg \in Nat /\ (q.op = "read" => q.who \in Applications)
    BY MaxRevisionAssumption DEF Requests, Revisions, Asks
  <2>7. revision' \in Nat
    BY <1>5, <2>1
  <2>8. QED BY <2>1, <2>2, <2>3, <2>4, <2>5, <2>6, <2>7
<1>7. revision <= revision'
  BY <1>5, <1>6
<1>8. Heard'
  <2>1. /\ known' <= revision'
        /\ \A w \in Tasks : took'[w].rev <= revision'
        /\ \A a \in Applications : base'[a] <= revision'
    BY <1>1, <1>6, <1>7 DEF AnswerInv, Heard
  <2>2. ASSUME NEW x \in Elements(replies'), x.op \in {"apply"} \cup Move, x.ok
        PROVE  x.rev <= revision'
    <3>1. CASE x \in Elements(replies)
      BY <1>6, <1>7, <2>2, <3>1 DEF AnswerInv, Heard
    <3>2. CASE x = r
      BY <1>3, <1>6, <2>2, <3>2 DEF Says
    <3>3. QED BY <1>4, <3>1, <3>2
  <2>3. QED BY <2>1, <2>2 DEF Heard
<1>9. TextRead'
  <2>1. \A q \in Elements(queue') : q.op = "read" => Reading(q.who)'
    BY <1>1, <1>2 DEF AnswerInv, TextRead, Reading
  <2>2. ASSUME NEW x \in Elements(replies'), x.op = "read"
        PROVE  /\ Reading(x.who)'
               /\ x.ok => /\ base'[x.who] <= x.rev /\ x.rev <= revision'
                          /\ x.rev = revision' => x.text = log'
    <3>1. CASE x \in Elements(replies)
      <4>1. /\ Reading(x.who)
            /\ x.ok => /\ base[x.who] <= x.rev /\ x.rev <= revision
                       /\ x.rev = revision => x.text = log
        BY <2>2, <3>1 DEF AnswerInv, TextRead
      <4>2. Reading(x.who)'
        BY <1>1, <4>1 DEF Reading
      <4>3. x.rev \in Nat
        BY <1>6, <3>1
      <4>4. ASSUME x.ok
            PROVE  /\ base'[x.who] <= x.rev /\ x.rev <= revision'
                   /\ x.rev = revision' => x.text = log'
        BY <1>1, <1>5, <1>6, <1>7, <4>1, <4>3, <4>4
      <4>5. QED BY <4>2, <4>4
    <3>2. CASE x = r
      <4>1. Reading(r.who) /\ r.who \in Applications
        BY <1>2, <1>3, <1>6, <2>2, <3>2 DEF AnswerInv, TextRead
      <4>2. r.ok => /\ base[r.who] <= r.rev /\ r.rev <= revision'
                    /\ r.rev = revision' => r.text = log'
        BY <1>3, <1>6, <2>2, <3>2, <4>1 DEF Says, coreVars, AnswerInv, Heard
      <4>3. Reading(r.who)'
        BY <1>1, <4>1 DEF Reading
      <4>4. QED BY <1>1, <3>2, <4>2, <4>3
    <3>3. QED BY <1>4, <3>1, <3>2
  <2>3. QED BY <2>1, <2>2 DEF TextRead
<1>10. Checked'
  <2>1. ASSUME NEW a \in Applications, stage'[a] = "prepared" PROVE Fits(base[a])'
    <3>1. PICK c \in Nat : c = base[a]
      BY <1>6
    <3>2. Fits(c)'
      BY <1>1, <1>5, <2>1, <3>1, FitsStays DEF AnswerInv, Checked, Fits
    <3>3. QED BY <1>1, <3>1, <3>2 DEF Fits
  <2>2. ASSUME NEW q \in Elements(queue'), q.op = "apply", q.who \in Applications
        PROVE  Fits(q.arg)'
    BY <1>2, <1>5, <1>6, <2>2, FitsStays DEF AnswerInv, Checked
  <2>3. QED BY <2>1, <2>2 DEF Checked
<1>11. QED BY <1>8, <1>9, <1>10, ServeKeepsLog DEF AnswerInv

--------------------------------------------------------------------------------
\* A document just opened: nothing has been read, asked or undone.
LEMMA InitAnswer == Init => AnswerInv
<1> SUFFICES ASSUME Init PROVE AnswerInv
    OBVIOUS
<1>1. log = << >> /\ redone = << >> /\ queue = << >> /\ replies = << >> /\ revision = 0
  BY DEF Init, CoreInit
<1>2. Len(<< >>) = 0 /\ Elements(<< >>) = {}
  BY EmptySeq DEF Elements
<1>3. Heard
  BY <1>1, <1>2 DEF Init, Heard, NoCommit
<1>4. TextRead /\ Checked
  BY <1>1, <1>2, EditsAssumption DEF Init, TextRead, Checked, Tasks
<1>5. LogInv /\ RedoInv
  BY <1>1, <1>2 DEF LogInv, RedoInv
<1>6. QED BY <1>3, <1>4, <1>5 DEF AnswerInv

\* Every step keeps it.
LEMMA NextAnswer == Typed /\ AnswerInv /\ [Next]_vars => AnswerInv'
<1> SUFFICES ASSUME Typed, AnswerInv, [Next]_vars PROVE AnswerInv'
    OBVIOUS
<1>1. CASE Next
  BY <1>1, ManualKeeps, MoveKeeps, ApplicationKeeps, FlowsKeep, ServeKeeps, DeliverKeeps,
     RefreshKeeps DEF Next
<1>2. CASE UNCHANGED vars
  <2>1. UNCHANGED coreVars /\ UNCHANGED << base, known, took, stage, queue, replies >>
    BY <1>2 DEF vars, shellVars, editVars
  <2>2. QED BY <2>1, OtherKeeps
<1>3. QED BY <1>1, <1>2

\* Whatever is edited, undone and redone while an application reads its text, checks it
\* and prepares its transaction, the document never has the answer on top of an edit
\* that touched the text, nor twice (TextActionPanel.tsx, ValidateBaseRevision).
THEOREM SessionAnswerOnItsText == Spec => []AnswerOnItsText
<1>1. Typed /\ AnswerInv => AnswerOnItsText
  <2> SUFFICES ASSUME Typed, AnswerInv, NEW i \in 1 .. Len(log), log[i] \in Applications
               PROVE  Intact(SubSeq(log, 1, i - 1))
      BY DEF AnswerOnItsText
  <2>1. log \in Seq(Transactions) /\ Len(log) \in Nat /\ LogInv
    BY LenProperties DEF Typed, CoreInv, CoreTypes, AnswerInv
  <2>2. \A k \in 1 .. i - 1 : log[k] \in Transactions
    BY <2>1, ElementOfSeq
  <2>3. /\ Len(SubSeq(log, 1, i - 1)) = IF 1 <= i - 1 THEN (i - 1) - 1 + 1 ELSE 0
        /\ \A k \in 1 .. (i - 1) - 1 + 1 : SubSeq(log, 1, i - 1)[k] = log[1 + k - 1]
    <3>1. 1 \in Int /\ i - 1 \in Int
      BY <2>1
    <3>2. QED BY <2>2, <3>1, SubSeqProperties
  <2>4. ASSUME NEW k \in 1 .. Len(SubSeq(log, 1, i - 1))
        PROVE  SubSeq(log, 1, i - 1)[k] \notin Touching \cup Applications
    <3>1. k \in 1 .. i - 1 /\ k \in 1 .. (i - 1) - 1 + 1 /\ 1 + k - 1 = k /\ k \in 1 .. Len(log) /\ k < i
      BY <2>1, <2>3
    <3>2. SubSeq(log, 1, i - 1)[k] = log[k]
      BY <2>3, <3>1
    <3>3. QED BY <2>1, <3>1, <3>2 DEF LogInv, Disturbing
  <2>5. QED BY <2>4 DEF Intact
<1>2. Init => Typed /\ AnswerInv
  BY InitTyped, InitAnswer
<1>3. (Typed /\ AnswerInv) /\ [Next]_vars => (Typed /\ AnswerInv)'
  BY NextTyped, NextAnswer
<1>4. QED BY <1>1, <1>2, <1>3, PTL DEF Spec

--------------------------------------------------------------------------------
(* Part 4: what counts as saved.                                                *)

CommitOps == {"apply"} \cup Move

\* The positions in the queue and in the replies.
Waiting == 1 .. Len(queue)
Coming  == 1 .. Len(replies)

\* A commit that was made, an answer with the text of a revision, a confirmed save, a close.
IsCommit(r)  == r.op \in CommitOps /\ r.ok
HasText(r)   == r.op \in CommitOps \cup {"save", "read"} /\ r.ok
Confirmed(r) == r.op = "confirm" /\ r.ok
Gone(r)      == r.op = "close" /\ r.ok

\* The revisions whose text is kept somewhere, each with that text.
Versions ==
  {<<0, << >> >>, <<revision, log>>, <<known, knownText>>}
    \cup {<<took[w].rev, took[w].text>> : w \in Tasks}
    \cup {<<save[t].rev, save[t].text>> : t \in Flows}
    \cup {<<replies[i].rev, replies[i].text>> : i \in {k \in Coming : HasText(replies[k])}}

\* A revision has one text wherever it is kept, and none is kept before it was made.
VersionsInv ==
  /\ \A v \in Versions : v[1] <= revision
  /\ \A v, u \in Versions : v[1] = u[1] => v[2] = u[2]
  /\ knownSaved <= revision /\ \A w \in Tasks : took[w].saved <= revision

\* A save, its confirmation or a close is under way once, where its flow waits for it.
OfFlow(m) == m.op \in {"save", "confirm", "close"}

Due(m) ==
  /\ m.op = "save" => save[m.who].at = "posted"
  /\ m.op = "confirm" => save[m.who].at = "confirming"
  /\ m.op = "close" => m.who = "close" /\ closing = "closing"

FlowsInv ==
  /\ \A i \in Waiting : Due(queue[i]) /\ (queue[i].op = "confirm" => queue[i].arg = save[queue[i].who].rev)
  /\ \A i \in Coming : Due(replies[i]) /\ (Confirmed(replies[i]) => replies[i].rev = save[replies[i].who].rev)
  /\ \A i, j \in Waiting : OfFlow(queue[i]) /\ OfFlow(queue[j]) /\ queue[i].who = queue[j].who => i = j
  /\ \A i, j \in Coming : OfFlow(replies[i]) /\ OfFlow(replies[j]) /\ replies[i].who = replies[j].who => i = j
  /\ \A i \in Waiting, j \in Coming : OfFlow(queue[i]) /\ OfFlow(replies[j]) => queue[i].who # replies[j].who
  /\ \A t \in Flows : save[t].at = "no" => save[t] = NoFlow
  /\ save["close"].at # "no" => closing = "saving"

\* A commit the shell has not heard of is newer than all it saved.
NewerInv ==
  /\ \A i \in Coming : IsCommit(replies[i]) =>
       /\ 0 < replies[i].rev /\ knownSaved < replies[i].rev
       /\ \A t \in Flows : save[t].rev < replies[i].rev
       /\ \A w \in Tasks : took[w].saved < replies[i].rev
  /\ \A i, j \in Coming : i < j /\ replies[i].op = "save" /\ replies[i].ok /\ IsCommit(replies[j]) =>
       replies[i].rev < replies[j].rev
  /\ \A w \in Tasks : stage[w] = "refreshing" => took[w].saved < took[w].rev

\* The document is gone from the shell or shown as changed.
Behind == shown => knownSaved < known

\* The answers before the j-th bring this about, and none after it undoes it.
NoneAfter(i) == \A k \in Coming : i < k => ~Confirmed(replies[k])
GoneBefore(j) ==
  \/ Behind /\ NoneAfter(0)
  \/ \E i \in Coming : i < j /\ Gone(replies[i]) /\ NoneAfter(i)

\* A closed document is refused, and only a closed one cannot be confirmed.
ClosedInv ==
  /\ ~open => GoneBefore(Len(replies) + 1)
  /\ \A j \in Coming : replies[j].op = "confirm" /\ ~replies[j].ok => ~open /\ GoneBefore(j)

\* While the shell has heard of no commit, what it saved is the original.
OriginalInv ==
  shown /\ known = 0 =>
    /\ \A t \in Flows : save[t].rev = 0
    /\ \A j \in Coming : replies[j].op = "save" /\ replies[j].ok /\ replies[j].rev # 0 =>
         \E i \in Coming : i < j /\ IsCommit(replies[i])
    /\ revision # 0 => \E i \in Coming : IsCommit(replies[i])

\* The browser confirms nothing.
WebInv ==
  web => /\ knownSaved = 0 /\ \A w \in Tasks : took[w].saved = 0
         /\ \A i \in Waiting : queue[i].op # "confirm"
         /\ \A i \in Coming : replies[i].op # "confirm"

\* The file is the last text written: the one to be confirmed last or, when nothing is
\* left to be confirmed, the one the shell takes for saved.
Confirming(s) == \E i \in 1 .. Len(s) : s[i].op = "confirm"
LastConfirm(s, i) == s[i].op = "confirm" /\ \A j \in 1 .. Len(s) : i < j => s[j].op # "confirm"

FileInv ==
  /\ \A i \in Waiting : LastConfirm(queue, i) => file = save[queue[i].who].text
  /\ ~Confirming(queue) =>
       \A i \in Coming : LastConfirm(replies, i) => file = save[replies[i].who].text
  /\ ~Confirming(queue) /\ ~Confirming(replies) =>
       Behind \/ \A v \in Versions : v[1] = knownSaved => v[2] = file

SaveInv == VersionsInv /\ FlowsInv /\ NewerInv /\ ClosedInv /\ OriginalInv /\ WebInv /\ FileInv

\* The revisions are numbers, and what is under way is requests and answers.
LEMMA Numbers ==
  ASSUME Typed
  PROVE  /\ revision \in Nat /\ known \in Nat /\ knownSaved \in Nat
         /\ \A w \in Tasks : took[w].rev \in Nat /\ took[w].saved \in Nat
         /\ \A t \in Flows : save[t].rev \in Nat
         /\ Len(queue) \in Nat /\ \A i \in Waiting : queue[i] \in Requests /\ queue[i].arg \in Nat
         /\ Len(replies) \in Nat /\ \A i \in Coming : replies[i] \in Replies /\ replies[i].rev \in Nat
<1>1. Revisions \subseteq Nat BY MaxRevisionAssumption DEF Revisions
<1>2. revision \in Nat BY MaxRevisionAssumption DEF Typed, CoreInv, CoreTypes
<1>3. known \in Nat /\ knownSaved \in Nat BY <1>1 DEF Typed, ShellTyped
<1>4. \A w \in Tasks : took[w].rev \in Nat /\ took[w].saved \in Nat BY <1>1 DEF Typed, HandlersTyped
<1>5. \A t \in Flows : save[t].rev \in Nat BY <1>1 DEF Typed, FlowsTyped, Saves
<1>6. Len(queue) \in Nat /\ \A i \in Waiting : queue[i] \in Requests
  BY LenProperties, ElementOfSeq DEF Typed, MessagesTyped, Waiting
<1>7. Len(replies) \in Nat /\ \A i \in Coming : replies[i] \in Replies
  BY LenProperties, ElementOfSeq DEF Typed, MessagesTyped, Coming
<1> QED BY <1>1, <1>2, <1>3, <1>4, <1>5, <1>6, <1>7 DEF Requests, Replies

\* A request is posted behind the others.
LEMMA Behinds ==
  ASSUME NEW S, NEW s \in Seq(S), NEW x \in S
  PROVE  /\ Len(s) \in Nat /\ Len(Append(s, x)) = Len(s) + 1
         /\ 1 .. Len(Append(s, x)) = (1 .. Len(s)) \cup {Len(s) + 1}
         /\ \A i \in 1 .. Len(s) : Append(s, x)[i] = s[i]
         /\ Append(s, x)[Len(s) + 1] = x
<1>1. Len(s) \in Nat /\ Len(Append(s, x)) = Len(s) + 1 BY AppendProperties, LenProperties
<1> QED BY <1>1, AppendProperties

\* The oldest message is taken out, and the others move up.
LEMMA MovesUp ==
  ASSUME NEW S, NEW s \in Seq(S), s # << >>
  PROVE  /\ Head(s) = s[1] /\ 1 \in 1 .. Len(s) /\ Len(s) \in Nat /\ Len(Tail(s)) = Len(s) - 1
         /\ \A i \in 1 .. Len(Tail(s)) : Tail(s)[i] = s[i + 1] /\ i + 1 \in 1 .. Len(s)
<1>1. /\ Len(s) \in Nat /\ Len(s) # 0 /\ Head(s) = s[1]
      /\ Len(Tail(s)) = Len(s) - 1
      /\ \A i \in 1 .. Len(Tail(s)) : Tail(s)[i] = s[i + 1]
  BY HeadTailProperties, LenProperties, EmptySeq
<1> QED BY <1>1

--------------------------------------------------------------------------------
(* Steps of the shell that handle no answer.                                    *)

\* What they leave alone; a save keeps its text or starts anew.
Local ==
  /\ UNCHANGED << coreVars, web, shown, known, knownSaved, knownText, took, replies >>
  /\ \A t \in Flows : \/ save'[t].rev = save[t].rev /\ save'[t].text = save[t].text
                      \/ save'[t].rev = 0 /\ save'[t].text = << >>
  /\ \A w \in Tasks : stage'[w] = "refreshing" => stage[w] = "refreshing"

LEMMA LocalVersions ==
  ASSUME Local
  PROVE  Versions' \subseteq Versions
<1>1. \A t \in Flows : <<save'[t].rev, save'[t].text>> \in Versions BY DEF Local, Versions
<1>2. /\ revision' = revision /\ log' = log /\ known' = known /\ knownText' = knownText
      /\ took' = took /\ replies' = replies
  BY DEF Local, coreVars
<1> QED BY <1>1, <1>2 DEF Versions, Coming

LEMMA LocalKeeps ==
  ASSUME Typed, SaveInv, Local
  PROVE  VersionsInv' /\ NewerInv' /\ ClosedInv' /\ OriginalInv'
<1>1. /\ revision' = revision /\ log' = log /\ known' = known /\ knownText' = knownText
      /\ took' = took /\ replies' = replies /\ knownSaved' = knownSaved /\ shown' = shown
      /\ open' = open
  BY DEF Local, coreVars
<1>2. VersionsInv' BY <1>1, LocalVersions DEF SaveInv, VersionsInv
<1>3. \A t \in Flows : save'[t].rev = save[t].rev \/ save'[t].rev = 0 BY DEF Local
<1>4. \A w \in Tasks : stage'[w] = "refreshing" => stage[w] = "refreshing" BY DEF Local
<1>5. NewerInv' BY <1>1, <1>3, <1>4 DEF SaveInv, NewerInv, Coming
<1>6. ClosedInv' BY <1>1 DEF SaveInv, ClosedInv, GoneBefore, Behind, NoneAfter, Coming
<1>7. OriginalInv' BY <1>1, <1>3 DEF SaveInv, OriginalInv, Coming
<1> QED BY <1>2, <1>5, <1>6, <1>7

\* A request that belongs to no save is posted, or none; the closing does not begin.
Other ==
  /\ Local /\ UNCHANGED << save, file >>
  /\ queue' = queue \/ \E q \in Requests : queue' = Append(queue, q) /\ ~OfFlow(q)
  /\ closing' = closing \/ (closing \in {"no", "asking"} /\ closing' \in {"no", "asking"})

LEMMA OtherSaves ==
  ASSUME Typed, SaveInv, Other
  PROVE  SaveInv'
<1> USE DEF SaveInv
<1>1. /\ replies' = replies /\ save' = save /\ file' = file /\ Behind' = Behind
      /\ knownSaved' = knownSaved /\ web' = web /\ took' = took
  BY DEF Other, Local, Behind
<1>2. Versions' \subseteq Versions BY LocalVersions DEF Other
<1>3. CASE queue' = queue
  <2>1. FlowsInv' BY <1>1, <1>3 DEF Other, FlowsInv, Waiting, Coming, Due
  <2>2. WebInv' BY <1>1, <1>3 DEF WebInv, Waiting, Coming
  <2>3. FileInv' BY <1>1, <1>2, <1>3 DEF FileInv, Waiting, Coming, Confirming, LastConfirm
  <2> QED BY <2>1, <2>2, <2>3, LocalKeeps DEF Other
<1>4. ASSUME NEW q \in Requests, queue' = Append(queue, q), ~OfFlow(q) PROVE SaveInv'
  <2>1. /\ Len(queue) \in Nat /\ Len(queue') = Len(queue) + 1 /\ Waiting' = Waiting \cup {Len(queue) + 1}
        /\ \A i \in Waiting : queue'[i] = queue[i]
        /\ queue'[Len(queue) + 1] = q
    BY <1>4, Behinds DEF Typed, MessagesTyped, Waiting
  <2>2. ~OfFlow(queue'[Len(queue) + 1]) BY <1>4, <2>1
  <2>3. FlowsInv'
    BY <1>1, <2>1, <2>2 DEF Other, FlowsInv, Coming, Due, OfFlow
  <2>4. WebInv' BY <1>1, <2>1, <2>2 DEF WebInv, Coming, OfFlow
  <2>5. Confirming(queue') = Confirming(queue)
    BY <2>1, <2>2 DEF Confirming, Waiting, OfFlow
  <2>6. \A i \in Waiting' : LastConfirm(queue', i) => i \in Waiting /\ LastConfirm(queue, i)
    BY <2>1, <2>2 DEF LastConfirm, Waiting, OfFlow
  <2>7. FileInv' BY <1>1, <1>2, <2>1, <2>5, <2>6 DEF FileInv, Coming
  <2> QED BY <2>3, <2>4, <2>7, LocalKeeps DEF Other
<1> QED BY <1>3, <1>4 DEF Other

\* Editing, undoing and applying an answer ask for nothing that is saved.
LEMMA EditsAreOther ==
  ASSUME Typed,
         \/ \E e \in Manual : StartEdit(e) \/ EditLoaded(e)
         \/ \E m \in Move : MoveHistory(m)
         \/ \E a \in Applications : StartApply(a) \/ ReadSources(a) \/ PostApplication(a)
  PROVE  Other
<1> USE DEF shellVars, busyVars, editVars, closeVars, saveVars
<1>1. UNCHANGED << coreVars, web, shown, known, knownSaved, knownText, took, replies, save, file, closing >>
  BY DEF StartEdit, EditLoaded, MoveHistory, StartApply, ReadSources, PostApplication
<1>2. ASSUME NEW x, NEW s, At(x, s), s # "refreshing"
      PROVE  \A w \in Tasks : stage'[w] = "refreshing" => stage[w] = "refreshing"
  BY <1>2 DEF At, Typed, HandlersTyped
<1>3. \A w \in Tasks : stage'[w] = "refreshing" => stage[w] = "refreshing"
  BY <1>2 DEF StartEdit, EditLoaded, PostEdit, MoveHistory, StartApply, ReadSources, PostApplication
<1>4. ASSUME NEW op \in {"apply", "read"} \cup Move, NEW who \in Tasks, NEW arg \in Revisions, Asks(op, who),
             Post(Request(op, who, arg))
      PROVE  \E q \in Requests : queue' = Append(queue, q) /\ ~OfFlow(q)
  <2>1. op \in Ops /\ op \notin {"save", "confirm", "close"} BY DEF Ops, Move
  <2>2. Request(op, who, arg) \in Requests BY <1>4, <2>1 DEF Request, Requests
  <2>3. Request(op, who, arg).op = op BY DEF Request
  <2> QED BY <1>4, <2>1, <2>2, <2>3 DEF Post, OfFlow
<1>5. queue' = queue \/ \E q \in Requests : queue' = Append(queue, q) /\ ~OfFlow(q)
  <2>1. 0 \in Revisions /\ known \in Revisions /\ \A a \in Applications : base[a] \in Revisions
    BY MaxRevisionAssumption DEF Revisions, Typed, ShellTyped, HandlersTyped
  <2>2. ASSUME NEW e \in Manual, StartEdit(e) \/ EditLoaded(e), queue' # queue
        PROVE  Post(Request("apply", e, known)) /\ e \in Tasks /\ Asks("apply", e)
    BY <2>2, EditsAssumption DEF StartEdit, EditLoaded, PostEdit, Tasks, Asks, Move
  <2>3. ASSUME NEW m \in Move, MoveHistory(m)
        PROVE  Post(Request(m, m, 0)) /\ m \in Tasks /\ Asks(m, m)
    BY <2>3 DEF MoveHistory, Tasks, Asks, Move
  <2>4. ASSUME NEW a \in Applications, StartApply(a) \/ ReadSources(a) \/ PostApplication(a), queue' # queue
        PROVE  /\ a \in Tasks /\ Asks("apply", a) /\ Asks("read", a)
               /\ Post(Request("read", a, 0)) \/ Post(Request("apply", a, base[a]))
    BY <2>4, EditsAssumption DEF StartApply, ReadSources, PostApplication, Tasks, Asks, Move
  <2> QED BY <1>4, <2>1, <2>2, <2>3, <2>4
<1> QED BY <1>1, <1>3, <1>5 DEF Other, Local

\* The closing begins where no save and no close of its own is under way.
LEMMA CloseBegins ==
  ASSUME Typed, SaveInv, Local, UNCHANGED << save, file >>, BeginClose, closing \in {"no", "asking"}
  PROVE  SaveInv'
<1> USE DEF SaveInv
<1> DEFINE q == Request("close", "close", 0)
<1>1. q \in Requests /\ q.op = "close" /\ q.who = "close"
  BY MaxRevisionAssumption DEF Request, Requests, Ops, Flows, Asks, Move, Revisions
<1>2. queue' = Append(queue, q) /\ closing' = "closing" BY DEF BeginClose, Post
<1> HIDE DEF q
<1>3. /\ Len(queue) \in Nat /\ Len(queue') = Len(queue) + 1 /\ Waiting' = Waiting \cup {Len(queue) + 1}
      /\ \A i \in Waiting : queue'[i] = queue[i]
      /\ queue'[Len(queue) + 1] = q
  BY <1>1, <1>2, Behinds DEF Typed, MessagesTyped, Waiting
<1>4. /\ replies' = replies /\ save' = save /\ file' = file /\ Behind' = Behind
      /\ knownSaved' = knownSaved /\ web' = web /\ took' = took
  BY DEF Local, Behind
<1>5. save["close"].at = "no" BY DEF FlowsInv
<1>6. \A i \in Waiting : OfFlow(queue[i]) => queue[i].who # "close" /\ queue[i].op # "close"
  BY <1>5 DEF FlowsInv, Due, OfFlow
<1>7. \A i \in Coming : OfFlow(replies[i]) => replies[i].who # "close" /\ replies[i].op # "close"
  BY <1>5 DEF FlowsInv, Due, OfFlow
<1>8. FlowsInv'
  <2>1. \A i \in Waiting' : (Due(queue[i]) /\ (queue[i].op = "confirm" => queue[i].arg = save[queue[i].who].rev))'
    BY <1>1, <1>2, <1>3, <1>4, <1>6 DEF FlowsInv, Due, OfFlow
  <2>2. \A i \in Coming' : (Due(replies[i]) /\ (Confirmed(replies[i]) => replies[i].rev = save[replies[i].who].rev))'
    BY <1>4, <1>7 DEF FlowsInv, Due, OfFlow, Coming
  <2>3. \A i, j \in Waiting' : OfFlow(queue'[i]) /\ OfFlow(queue'[j]) /\ queue'[i].who = queue'[j].who => i = j
    BY <1>1, <1>3, <1>6 DEF FlowsInv
  <2>4. \A i \in Waiting', j \in Coming' : OfFlow(queue'[i]) /\ OfFlow(replies'[j]) => queue'[i].who # replies'[j].who
    BY <1>1, <1>3, <1>4, <1>7 DEF FlowsInv, Coming
  <2> QED BY <1>4, <1>5, <2>1, <2>2, <2>3, <2>4 DEF FlowsInv, Coming, Confirmed, OfFlow
<1>9. WebInv' BY <1>1, <1>3, <1>4 DEF WebInv, Coming
<1>10. Confirming(queue') = Confirming(queue) BY <1>1, <1>3 DEF Confirming, Waiting
<1>11. \A i \in Waiting' : LastConfirm(queue', i) => i \in Waiting /\ LastConfirm(queue, i)
  BY <1>1, <1>3 DEF LastConfirm, Waiting
<1>12. FileInv' BY <1>3, <1>4, <1>10, <1>11, LocalVersions DEF FileInv, Coming
<1> QED BY <1>8, <1>9, <1>12, LocalKeeps

\* A save begins where none of its flow is under way.
LEMMA SaveBegins ==
  ASSUME Typed, SaveInv, NEW t \in Flows, save[t] = NoFlow, BeginSave(t),
         UNCHANGED << coreVars, web, shown, known, knownSaved, knownText, took, replies, stage, file >>,
         \/ t = "menu" /\ closing' = closing
         \/ t = "close" /\ closing = "asking" /\ closing' = "saving"
  PROVE  SaveInv'
<1> USE DEF SaveInv
<1> DEFINE q == Request("save", t, 0)
<1>1. q \in Requests /\ q.op = "save" /\ q.who = t
  BY MaxRevisionAssumption DEF Request, Requests, Ops, Flows, Asks, Move, Revisions
<1>2. queue' = Append(queue, q) /\ save' = [save EXCEPT ![t] = [NoFlow EXCEPT !.at = "posted"]]
  BY DEF BeginSave, Post
<1> HIDE DEF q
<1>3. /\ Len(queue) \in Nat /\ Len(queue') = Len(queue) + 1 /\ Waiting' = Waiting \cup {Len(queue) + 1}
      /\ \A i \in Waiting : queue'[i] = queue[i]
      /\ queue'[Len(queue) + 1] = q
  BY <1>1, <1>2, Behinds DEF Typed, MessagesTyped, Waiting
<1>4. /\ replies' = replies /\ file' = file /\ Behind' = Behind
      /\ knownSaved' = knownSaved /\ web' = web /\ took' = took
  BY DEF Behind
<1>5. /\ save[t].at = "no" /\ save'[t].at = "posted" /\ save'[t].rev = 0 /\ save'[t].text = << >>
      /\ \A x : x # t => save'[x] = save[x]
  BY <1>2 DEF NoFlow, Typed, FlowsTyped, Saves
<1>6. \A i \in Waiting : OfFlow(queue[i]) => queue[i].who # t
  BY <1>5 DEF FlowsInv, Due, OfFlow
<1>7. \A i \in Coming : OfFlow(replies[i]) => replies[i].who # t
  BY <1>5 DEF FlowsInv, Due, OfFlow
<1>8. t = "close" => (\A i \in Waiting : queue[i].op # "close") /\ \A i \in Coming : replies[i].op # "close"
  BY DEF FlowsInv, Due
<1>9. FlowsInv'
  <2>1. \A i \in Waiting' : (Due(queue[i]) /\ (queue[i].op = "confirm" => queue[i].arg = save[queue[i].who].rev))'
    BY <1>1, <1>3, <1>5, <1>6, <1>8 DEF FlowsInv, Due, OfFlow
  <2>2. \A i \in Coming' : (Due(replies[i]) /\ (Confirmed(replies[i]) => replies[i].rev = save[replies[i].who].rev))'
    BY <1>4, <1>5, <1>7, <1>8 DEF FlowsInv, Due, OfFlow, Coming, Confirmed
  <2>3. \A i, j \in Waiting' : OfFlow(queue'[i]) /\ OfFlow(queue'[j]) /\ queue'[i].who = queue'[j].who => i = j
    BY <1>1, <1>3, <1>6 DEF FlowsInv
  <2>4. \A i \in Waiting', j \in Coming' : OfFlow(queue'[i]) /\ OfFlow(replies'[j]) => queue'[i].who # replies'[j].who
    BY <1>1, <1>3, <1>4, <1>7 DEF FlowsInv, Coming
  <2>5. \A i, j \in Coming' : OfFlow(replies'[i]) /\ OfFlow(replies'[j]) /\ replies'[i].who = replies'[j].who => i = j
    BY <1>4 DEF FlowsInv, Coming
  <2>6. (\A u \in Flows : save'[u].at = "no" => save'[u] = NoFlow) /\ (save'["close"].at # "no" => closing' = "saving")
    BY <1>5 DEF FlowsInv
  <2> QED BY <2>1, <2>2, <2>3, <2>4, <2>5, <2>6 DEF FlowsInv, OfFlow, Confirmed
<1>10. Local BY <1>4, <1>5 DEF Local
<1>11. WebInv' BY <1>1, <1>3, <1>4 DEF WebInv, Coming
<1>12. Confirming(queue') = Confirming(queue) BY <1>1, <1>3 DEF Confirming, Waiting
<1>13. \A i \in Waiting' : LastConfirm(queue', i) => i \in Waiting /\ LastConfirm(queue, i) /\ queue[i].who # t
  BY <1>1, <1>3, <1>6 DEF LastConfirm, Waiting, OfFlow
<1>14. \A i \in Coming : LastConfirm(replies, i) => replies[i].who # t BY <1>7 DEF LastConfirm, OfFlow
<1>15. FileInv' BY <1>3, <1>4, <1>5, <1>10, <1>12, <1>13, <1>14, LocalVersions DEF FileInv, Coming
<1> QED BY <1>9, <1>10, <1>11, <1>15, LocalKeeps

\* The three ways in which the save and the closing begin.
LEMMA FlowsBegin ==
  ASSUME Typed, SaveInv, StartSave \/ StartClose \/ AnswerPrompt
  PROVE  SaveInv'
<1> USE DEF shellVars, busyVars, editVars, closeVars, saveVars
<1>1. CASE StartSave BY <1>1, SaveBegins DEF StartSave, Flows
<1>2. CASE StartClose
  <2>1. Local /\ UNCHANGED << save, file >> BY <1>2 DEF StartClose, Local
  <2>2. CASE BeginClose BY <1>2, <2>1, <2>2, CloseBegins DEF StartClose
  <2>3. CASE ~BeginClose
    <3>1. Other BY <1>2, <2>1, <2>3 DEF StartClose, Other
    <3> QED BY <3>1, OtherSaves
  <2> QED BY <2>2, <2>3
<1>3. CASE AnswerPrompt
  <2>1. closing = "asking" BY <1>3 DEF AnswerPrompt
  <2>2. save["close"] = NoFlow BY <2>1 DEF SaveInv, FlowsInv, Flows
  <2>3. CASE BeginSave("close") /\ closing' = "saving"
    BY <1>3, <2>1, <2>2, <2>3, SaveBegins DEF AnswerPrompt, Flows
  <2>4. CASE save' = save
    <3>1. Local /\ UNCHANGED << save, file >> BY <1>3, <2>4 DEF AnswerPrompt, Local
    <3>2. CASE BeginClose BY <2>1, <3>1, <3>2, CloseBegins
    <3>3. CASE closing' = "no" /\ queue' = queue
      <4>1. Other BY <2>1, <3>1, <3>3 DEF Other
      <4> QED BY <4>1, OtherSaves
    <3> QED BY <1>3, <2>3, <3>2, <3>3 DEF AnswerPrompt
  <2> QED BY <1>3, <2>3, <2>4 DEF AnswerPrompt
<1> QED BY <1>1, <1>2, <1>3

--------------------------------------------------------------------------------
(* The host answers, and the page is shown again.                               *)

\* The file is written, and the kernel told.
LEMMA HostWrites ==
  ASSUME Typed, SaveInv, NEW t \in Flows, save[t].at = "host", ~web, file' = save[t].text,
         save' = [save EXCEPT ![t].at = "confirming"], Post(Request("confirm", t, save[t].rev)),
         UNCHANGED << coreVars, web, shown, known, knownSaved, knownText, took, replies, stage, closing >>
  PROVE  SaveInv'
<1> USE DEF SaveInv
<1> DEFINE q == Request("confirm", t, save[t].rev)
<1>1. q \in Requests /\ q.op = "confirm" /\ q.who = t /\ q.arg = save[t].rev
  BY DEF Request, Requests, Ops, Asks, Move, Typed, FlowsTyped, Saves
<1>2. queue' = Append(queue, q) BY DEF Post
<1> HIDE DEF q
<1>3. /\ Len(queue) \in Nat /\ Len(queue') = Len(queue) + 1 /\ Waiting' = Waiting \cup {Len(queue) + 1}
      /\ \A i \in Waiting : queue'[i] = queue[i]
      /\ queue'[Len(queue) + 1] = q
  BY <1>1, <1>2, Behinds DEF Typed, MessagesTyped, Waiting
<1>4. replies' = replies /\ web' = web /\ closing' = closing OBVIOUS
<1>5. /\ save'[t].at = "confirming" /\ save'[t].rev = save[t].rev /\ save'[t].text = save[t].text
      /\ \A x : x # t => save'[x] = save[x]
  BY DEF Typed, FlowsTyped, Saves
<1>6. t = "close" => closing = "saving" BY DEF FlowsInv
<1>7. \A i \in Waiting : OfFlow(queue[i]) => queue[i].who # t BY <1>6 DEF FlowsInv, Due, OfFlow
<1>8. \A i \in Coming : OfFlow(replies[i]) => replies[i].who # t BY <1>6 DEF FlowsInv, Due, OfFlow
<1>9. FlowsInv'
  <2>1. \A i \in Waiting' : (Due(queue[i]) /\ (queue[i].op = "confirm" => queue[i].arg = save[queue[i].who].rev))'
    BY <1>1, <1>3, <1>4, <1>5, <1>7 DEF FlowsInv, Due, OfFlow
  <2>2. \A i \in Coming' : (Due(replies[i]) /\ (Confirmed(replies[i]) => replies[i].rev = save[replies[i].who].rev))'
    BY <1>4, <1>5, <1>8 DEF FlowsInv, Due, OfFlow, Coming, Confirmed
  <2>3. \A i, j \in Waiting' : OfFlow(queue'[i]) /\ OfFlow(queue'[j]) /\ queue'[i].who = queue'[j].who => i = j
    BY <1>1, <1>3, <1>7 DEF FlowsInv
  <2>4. \A i \in Waiting', j \in Coming' : OfFlow(queue'[i]) /\ OfFlow(replies'[j]) => queue'[i].who # replies'[j].who
    BY <1>1, <1>3, <1>4, <1>8 DEF FlowsInv, Coming
  <2>5. \A i, j \in Coming' : OfFlow(replies'[i]) /\ OfFlow(replies'[j]) /\ replies'[i].who = replies'[j].who => i = j
    BY <1>4 DEF FlowsInv, Coming
  <2>6. (\A u \in Flows : save'[u].at = "no" => save'[u] = NoFlow) /\ (save'["close"].at # "no" => closing' = "saving")
    BY <1>4, <1>5, <1>6 DEF FlowsInv
  <2> QED BY <2>1, <2>2, <2>3, <2>4, <2>5, <2>6 DEF FlowsInv, OfFlow, Confirmed
<1>10. Local BY <1>5 DEF Local
<1>11. WebInv' BY <1>4 DEF WebInv
<1>12. FileInv'
  <2>1. Confirming(queue') BY <1>1, <1>3 DEF Confirming, Waiting
  <2>2. \A i \in Waiting' : LastConfirm(queue', i) => i = Len(queue) + 1
    BY <1>1, <1>3 DEF LastConfirm, Waiting
  <2> QED BY <1>1, <1>3, <1>5, <2>1, <2>2 DEF FileInv
<1> QED BY <1>9, <1>10, <1>11, <1>12, LocalKeeps

\* A save ends: the one that closes goes on to close only if the file was written.
LEMMA EndSaveEffect ==
  ASSUME Typed, NEW t \in Flows, NEW written \in BOOLEAN, NEW started, EndSave(t, written, started)
  PROVE  /\ save' = [save EXCEPT ![t] = NoFlow]
         /\ \/ queue' = queue /\ t = "menu" /\ closing' = closing
            \/ queue' = queue /\ t = "close" /\ closing' \in {"asking", "no"}
            \/ t = "close" /\ written /\ BeginClose
BY DEF EndSave

\* The save ends without the file, or with a download of which nobody tells the kernel.
LEMMA HostEnds ==
  ASSUME Typed, SaveInv, NEW t \in Flows, save[t].at = "host", NEW started, EndSave(t, FALSE, started),
         file' = file \/ (web /\ file' = save[t].text),
         UNCHANGED << coreVars, web, shown, known, knownSaved, knownText, took, replies, stage >>
  PROVE  SaveInv'
<1> USE DEF SaveInv
<1>1. /\ save' = [save EXCEPT ![t] = NoFlow] /\ queue' = queue
      /\ \/ t = "menu" /\ closing' = closing
         \/ t = "close" /\ closing' \in {"asking", "no"}
  BY EndSaveEffect
<1>2. save'[t] = NoFlow /\ \A x : x # t => save'[x] = save[x]
  BY <1>1 DEF Typed, FlowsTyped, Saves
<1>3. t = "close" => closing = "saving" BY DEF FlowsInv
<1>4. \A i \in Waiting : OfFlow(queue[i]) => queue[i].who # t BY <1>3 DEF FlowsInv, Due, OfFlow
<1>5. \A i \in Coming : OfFlow(replies[i]) => replies[i].who # t BY <1>3 DEF FlowsInv, Due, OfFlow
<1>6. t = "close" => (\A i \in Waiting : queue[i].op # "close") /\ \A i \in Coming : replies[i].op # "close"
  BY <1>3 DEF FlowsInv, Due
<1>7. FlowsInv'
  <2>1. \A i \in Waiting' : (Due(queue[i]) /\ (queue[i].op = "confirm" => queue[i].arg = save[queue[i].who].rev))'
    BY <1>1, <1>2, <1>4, <1>6 DEF FlowsInv, Due, OfFlow, Waiting
  <2>2. \A i \in Coming' : (Due(replies[i]) /\ (Confirmed(replies[i]) => replies[i].rev = save[replies[i].who].rev))'
    BY <1>1, <1>2, <1>5, <1>6 DEF FlowsInv, Due, OfFlow, Coming, Confirmed
  <2>3. (\A u \in Flows : save'[u].at = "no" => save'[u] = NoFlow) /\ (save'["close"].at # "no" => closing' = "saving")
    BY <1>1, <1>2 DEF FlowsInv, NoFlow
  <2> QED BY <1>1, <2>1, <2>2, <2>3 DEF FlowsInv, Waiting, Coming, Confirmed, OfFlow
<1>8. Local BY <1>2 DEF Local, NoFlow
<1>9. WebInv' BY <1>1 DEF WebInv, Waiting, Coming
<1>10. FileInv'
  <2>1. Behind' = Behind /\ Versions' \subseteq Versions BY <1>8, LocalVersions DEF Behind
  <2>2. CASE file' = file
    <3>1. \A i \in Waiting : LastConfirm(queue, i) => save'[queue[i].who] = save[queue[i].who]
      BY <1>2, <1>4 DEF LastConfirm, OfFlow
    <3>2. \A i \in Coming : LastConfirm(replies, i) => save'[replies[i].who] = save[replies[i].who]
      BY <1>2, <1>5 DEF LastConfirm, OfFlow
    <3> QED BY <1>1, <2>1, <2>2, <3>1, <3>2 DEF FileInv, Waiting, Coming
  <2>3. CASE web /\ file' = save[t].text
    <3>1. ~Confirming(queue) /\ ~Confirming(replies) BY <2>3 DEF WebInv, Confirming, Waiting, Coming
    <3>2. ASSUME shown, known = 0, NEW v \in Versions, v[1] = knownSaved PROVE v[2] = file'
      <4>1. save[t].rev = 0 /\ knownSaved = 0 BY <2>3, <3>2 DEF OriginalInv, WebInv
      <4>2. <<save[t].rev, save[t].text>> \in Versions BY DEF Versions
      <4> QED BY <2>3, <3>2, <4>1, <4>2 DEF VersionsInv
    <3>3. known # 0 => Behind BY <2>3, Numbers DEF WebInv, Behind
    <3>4. Behind \/ \A v \in Versions : v[1] = knownSaved => v[2] = file' BY <3>2, <3>3 DEF Behind
    <3> QED BY <1>1, <2>1, <3>1, <3>4 DEF FileInv, Confirming, LastConfirm, Waiting, Coming
  <2> QED BY <2>2, <2>3
<1> QED BY <1>7, <1>8, <1>9, <1>10, LocalKeeps

LEMMA HostSaves ==
  ASSUME Typed, SaveInv, NEW t \in Flows, HostAnswers(t)
  PROVE  SaveInv'
<1> USE DEF shellVars, editVars
<1>1. CASE /\ ~web /\ file' = save[t].text
           /\ save' = [save EXCEPT ![t].at = "confirming"] /\ Post(Request("confirm", t, save[t].rev))
           /\ UNCHANGED << shellVars, closing >>
  BY <1>1, HostWrites DEF HostAnswers
<1>2. ASSUME NEW started, EndSave(t, FALSE, started), file' = file \/ (web /\ file' = save[t].text)
      PROVE  SaveInv'
  BY <1>2, HostEnds DEF HostAnswers
<1> QED BY <1>1, <1>2 DEF HostAnswers

\* What a handler puts back is shown as changed.
LEMMA RefreshSaves ==
  ASSUME Typed, SaveInv, NEW w \in Tasks, Refresh(w)
  PROVE  SaveInv'
<1> USE DEF SaveInv, shellVars, closeVars, saveVars
<1>1. /\ UNCHANGED << revision, log, open, web, closing, save, file, queue, replies >>
      /\ took' = [took EXCEPT ![w] = NoCommit]
      /\ \/ UNCHANGED << shown, known, knownSaved, knownText >>
         \/ shown' = TRUE /\ known' = took[w].rev /\ knownSaved' = took[w].saved /\ knownText' = took[w].text
  BY DEF Refresh, coreVars
<1>2. took'[w] = NoCommit /\ \A u \in Tasks : u # w => took'[u] = took[u]
  BY <1>1 DEF Typed, HandlersTyped
<1>3. took[w].saved < took[w].rev BY DEF Refresh, NewerInv
<1>4. \A u \in Tasks : stage'[u] = "refreshing" => stage[u] = "refreshing" /\ u # w
  BY DEF Refresh, EndStage, At, Typed, HandlersTyped
<1>5. took[w].rev \in Nat /\ took[w].saved \in Nat /\ revision \in Nat BY Numbers
<1>6. Versions' \subseteq Versions
  <2>1. <<took[w].rev, took[w].text>> \in Versions /\ <<known, knownText>> \in Versions /\ <<0, << >> >> \in Versions
    BY DEF Versions
  <2>2. <<known', knownText'>> \in Versions BY <1>1, <2>1
  <2>3. \A u \in Tasks : <<took'[u].rev, took'[u].text>> \in Versions BY <1>2, <2>1 DEF Versions, NoCommit
  <2> QED BY <1>1, <2>1, <2>2, <2>3 DEF Versions, Coming
<1>7. Behind' \/ UNCHANGED << shown, known, knownSaved, knownText >> BY <1>1, <1>3 DEF Behind
<1>8. VersionsInv'
  <2>1. knownSaved' <= revision BY <1>1 DEF VersionsInv
  <2>2. \A u \in Tasks : took'[u].saved <= revision BY <1>2, <1>5 DEF VersionsInv, NoCommit
  <2> QED BY <1>1, <1>6, <2>1, <2>2 DEF VersionsInv
<1>9. NewerInv'
  <2>1. \A i \in Coming : IsCommit(replies[i]) => knownSaved' < replies[i].rev BY <1>1 DEF NewerInv
  <2>2. \A i \in Coming : IsCommit(replies[i]) => \A u \in Tasks : took'[u].saved < replies[i].rev
    BY <1>2 DEF NewerInv, NoCommit
  <2>3. \A u \in Tasks : stage'[u] = "refreshing" => took'[u].saved < took'[u].rev BY <1>2, <1>4 DEF NewerInv
  <2> QED BY <1>1, <2>1, <2>2, <2>3 DEF NewerInv, Coming
<1>10. ClosedInv' BY <1>1, <1>7 DEF ClosedInv, GoneBefore, NoneAfter, Behind, Coming
<1>11. OriginalInv'
  <2>1. CASE UNCHANGED << shown, known >> BY <1>1, <2>1 DEF OriginalInv, Coming
  <2>2. CASE known' = took[w].rev BY <1>3, <1>5, <2>2 DEF OriginalInv
  <2> QED BY <1>1, <2>1, <2>2
<1>12. WebInv' BY <1>1, <1>2 DEF WebInv, NoCommit, Waiting, Coming
<1>13. FlowsInv' BY <1>1 DEF FlowsInv, Due, Waiting, Coming
<1>14. FileInv' BY <1>1, <1>6, <1>7 DEF FileInv, Behind, Waiting, Coming
<1> QED BY <1>8, <1>9, <1>10, <1>11, <1>12, <1>13, <1>14

--------------------------------------------------------------------------------
(* The worker.                                                                  *)

\* What the oldest request is answered, and what becomes of the document.
LEMMA ServeEffect ==
  ASSUME Typed, Serve
  PROVE  \E r \in Replies :
           /\ replies' = Append(replies, r) /\ r.op = queue[1].op /\ r.who = queue[1].who
           /\ \/ /\ IsCommit(r) /\ r.rev = revision' /\ r.text = log'
                 /\ revision' = revision + 1 /\ open /\ open' = open
              \/ /\ r.op \in {"read", "save"} /\ r.ok /\ r.rev = revision /\ r.text = log
                 /\ UNCHANGED << revision, log, open >>
              \/ /\ Confirmed(r) /\ r.rev = queue[1].arg /\ open /\ UNCHANGED << revision, log, open >>
              \/ Gone(r) /\ UNCHANGED << revision, log >>
              \/ /\ ~r.ok /\ UNCHANGED << revision, log, open >>
                 /\ r.op = "confirm" => ~CanConfirm(queue[1].arg)
<1> USE DEF coreVars
<1>1. PICK q \in Requests : q = Head(queue) /\ q = queue[1]
  BY HeadRequest, MovesUp DEF Serve, Typed, MessagesTyped
<1> SUFFICES \E r \in Replies :
           /\ replies' = Append(replies, r) /\ r.op = q.op /\ r.who = q.who
           /\ \/ /\ IsCommit(r) /\ r.rev = revision' /\ r.text = log'
                 /\ revision' = revision + 1 /\ open /\ open' = open
              \/ /\ r.op \in {"read", "save"} /\ r.ok /\ r.rev = revision /\ r.text = log
                 /\ UNCHANGED << revision, log, open >>
              \/ /\ Confirmed(r) /\ r.rev = q.arg /\ open /\ UNCHANGED << revision, log, open >>
              \/ Gone(r) /\ UNCHANGED << revision, log >>
              \/ /\ ~r.ok /\ UNCHANGED << revision, log, open >>
                 /\ r.op = "confirm" => ~CanConfirm(q.arg)
    BY <1>1
<1>2. CoreInv' BY ServeIsCore, NextCore DEF Typed
<1>3. revision \in Revisions /\ log \in Seq(Transactions)
  BY MaxRevisionAssumption DEF Typed, CoreInv, CoreTypes, Revisions
<1>4. revision' \in Revisions /\ log' \in Seq(Transactions)
  BY <1>2, MaxRevisionAssumption DEF CoreInv, CoreTypes, Revisions
<1>5. /\ 0 \in Revisions /\ << >> \in Seq(Transactions) /\ NoMove \in [Move -> BOOLEAN]
      /\ q.arg \in Revisions /\ q.op \in Ops /\ q.who \in Tasks \cup Flows /\ Asks(q.op, q.who)
  BY EmptySeq, MaxRevisionAssumption DEF Revisions, NoMove, Requests
<1>6. ASSUME NEW ok \in BOOLEAN, NEW rev \in Revisions, NEW text \in Seq(Transactions),
             NEW move \in [Move -> BOOLEAN]
      PROVE  /\ Answer(q, ok, rev, text, move) \in Replies
             /\ Answer(q, ok, rev, text, move).op = q.op /\ Answer(q, ok, rev, text, move).who = q.who
             /\ (Answer(q, ok, rev, text, move).ok <=> ok) /\ Answer(q, ok, rev, text, move).rev = rev
             /\ Answer(q, ok, rev, text, move).text = text
  BY <1>5 DEF Replies, Answer
<1>7. CASE Changes(q) /\ ReplyCommit(q)
  <2>1. PICK move \in [Move -> BOOLEAN] :
          move = [m \in Move |-> IF m = "undo" THEN undoable' > 0 ELSE redone' # << >>]
    <3>1. (undoable' > 0) \in BOOLEAN /\ (redone' # << >>) \in BOOLEAN OBVIOUS
    <3> QED BY <3>1, Zenon
  <2>2. replies' = Append(replies, Answer(q, TRUE, revision', log', move))
    BY <1>7, <2>1 DEF ReplyCommit, Reply, Answer
  <2>3. q.op \in CommitOps /\ revision' = revision + 1 /\ open /\ open' = open
    BY <1>7 DEF Changes, Commit, CanCommit, Undo, CanUndo, Redo, CanRedo, CommitOps, Move
  <2> QED BY <1>4, <1>6, <2>2, <2>3 DEF IsCommit
<1>8. CASE Reads(q) /\ UNCHANGED coreVars
  <2>1. replies' = Append(replies, Answer(q, TRUE, revision, log, NoMove)) /\ q.op \in {"read", "save"}
    BY <1>8 DEF Reads, Reply, Answer
  <2>2. PICK r \in Replies : /\ r = Answer(q, TRUE, revision, log, NoMove) /\ r.op = q.op /\ r.who = q.who
                             /\ r.ok /\ r.rev = revision /\ r.text = log
    <3>1. /\ Answer(q, TRUE, revision, log, NoMove) \in Replies
          /\ Answer(q, TRUE, revision, log, NoMove).op = q.op /\ Answer(q, TRUE, revision, log, NoMove).who = q.who
          /\ Answer(q, TRUE, revision, log, NoMove).ok
          /\ Answer(q, TRUE, revision, log, NoMove).rev = revision
          /\ Answer(q, TRUE, revision, log, NoMove).text = log
      BY <1>3, <1>5 DEF Answer, Replies
    <3> QED BY <3>1
  <2>3. UNCHANGED << revision, log, open >> BY <1>8
  <2> QED BY <2>1, <2>2, <2>3
<1>9. CASE q.op = "confirm" /\ Confirm(q.arg) /\ Reply(q, TRUE, q.arg, << >>, NoMove)
  <2>1. replies' = Append(replies, Answer(q, TRUE, q.arg, << >>, NoMove)) BY <1>9 DEF Reply, Answer
  <2>2. open /\ UNCHANGED << revision, log, open >> BY <1>9 DEF Confirm, CanConfirm
  <2>3. PICK r \in Replies : /\ r = Answer(q, TRUE, q.arg, << >>, NoMove) /\ r.op = q.op /\ r.who = q.who
                             /\ r.ok /\ r.rev = q.arg
    <3>1. /\ Answer(q, TRUE, q.arg, << >>, NoMove) \in Replies
          /\ Answer(q, TRUE, q.arg, << >>, NoMove).op = q.op /\ Answer(q, TRUE, q.arg, << >>, NoMove).who = q.who
          /\ Answer(q, TRUE, q.arg, << >>, NoMove).ok
          /\ Answer(q, TRUE, q.arg, << >>, NoMove).rev = q.arg
      BY <1>5 DEF Answer, Replies
    <3> QED BY <3>1
  <2>4. Confirmed(r) BY <1>9, <2>3 DEF Confirmed
  <2> QED BY <2>1, <2>2, <2>3, <2>4
<1>10. CASE q.op = "close" /\ Close /\ Reply(q, TRUE, 0, << >>, NoMove)
  <2>1. replies' = Append(replies, Answer(q, TRUE, 0, << >>, NoMove)) BY <1>10 DEF Reply, Answer
  <2>2. UNCHANGED << revision, log >> BY <1>10 DEF Close
  <2>3. PICK r \in Replies : /\ r = Answer(q, TRUE, 0, << >>, NoMove) /\ r.op = q.op /\ r.who = q.who /\ r.ok
    BY <1>5, <1>6
  <2>4. Gone(r) BY <1>10, <2>3 DEF Gone
  <2> QED BY <2>1, <2>2, <2>3, <2>4
<1>11. CASE Refusable(q) /\ Refuse(q) /\ UNCHANGED coreVars
  <2>1. replies' = Append(replies, Answer(q, FALSE, 0, << >>, NoMove)) BY <1>11 DEF Refuse, Reply, Answer
  <2>2. PICK r \in Replies : /\ r = Answer(q, FALSE, 0, << >>, NoMove) /\ r.op = q.op /\ r.who = q.who /\ ~r.ok
    BY <1>5, <1>6
  <2>3. UNCHANGED << revision, log, open >> BY <1>11
  <2>4. r.op = "confirm" => ~CanConfirm(q.arg) BY <1>11, <2>2 DEF Refusable
  <2> QED BY <2>1, <2>2, <2>3, <2>4
<1> QED BY <1>1, <1>7, <1>8, <1>9, <1>10, <1>11 DEF Serve

LEMMA ServeSaves ==
  ASSUME Typed, SaveInv, Serve
  PROVE  SaveInv'
<1> USE DEF SaveInv, shellVars, busyVars, editVars, closeVars, saveVars
<1>a. PICK n \in Nat : n = Len(replies) + 1 BY Numbers
<1>b. PICK q \in Requests : q = queue[1] BY MovesUp DEF Serve, Typed, MessagesTyped
<1>1. PICK r \in Replies :
           /\ replies' = Append(replies, r) /\ r.op = q.op /\ r.who = q.who
           /\ \/ /\ IsCommit(r) /\ r.rev = revision' /\ r.text = log'
                 /\ revision' = revision + 1 /\ open /\ open' = open
              \/ /\ r.op \in {"read", "save"} /\ r.ok /\ r.rev = revision /\ r.text = log
                 /\ UNCHANGED << revision, log, open >>
              \/ /\ Confirmed(r) /\ r.rev = q.arg /\ open /\ UNCHANGED << revision, log, open >>
              \/ Gone(r) /\ UNCHANGED << revision, log >>
              \/ /\ ~r.ok /\ UNCHANGED << revision, log, open >>
                 /\ r.op = "confirm" => ~CanConfirm(q.arg)
  BY <1>b, ServeEffect
<1>c. r.op = q.op /\ r.who = q.who BY <1>1
<1>2. /\ Len(replies) \in Nat /\ Len(replies') = n /\ Coming' = Coming \cup {n} /\ n \notin Coming
      /\ \A i \in Coming : replies'[i] = replies[i] /\ i < n
      /\ replies'[n] = r
  BY <1>a, <1>1, Behinds DEF Typed, MessagesTyped, Coming
<1>3. /\ 1 \in Waiting /\ Waiting \subseteq Nat /\ Waiting' \subseteq Nat
      /\ \A i \in Waiting' : \E k \in Waiting : k = i + 1 /\ k # 1 /\ queue'[i] = queue[k]
      /\ \A k \in Waiting : k = 1 \/ \E i \in Waiting' : k = i + 1 /\ queue'[i] = queue[k]
  <2>1. queue \in Seq(Requests) /\ queue # << >> /\ queue' = Tail(queue) BY DEF Serve, Typed, MessagesTyped
  <2>2. /\ Len(queue) \in Nat /\ Len(queue') = Len(queue) - 1 /\ 1 \in Waiting
        /\ \A i \in Waiting' : queue'[i] = queue[i + 1] /\ i + 1 \in Waiting
    BY <2>1, MovesUp DEF Waiting
  <2>3. Waiting \subseteq Nat /\ Waiting' \subseteq Nat BY DEF Waiting
  <2>4. \A k \in Waiting : k = 1 \/ (k - 1 \in Waiting' /\ (k - 1) + 1 = k) BY <2>2 DEF Waiting
  <2>5. \A i \in Waiting' : i + 1 # 1 BY DEF Waiting
  <2>6. \A k \in Waiting : k = 1 \/ \E i \in Waiting' : k = i + 1 /\ queue'[i] = queue[k]
    <3> SUFFICES ASSUME NEW k \in Waiting, k # 1 PROVE \E i \in Waiting' : k = i + 1 /\ queue'[i] = queue[k] OBVIOUS
    <3>1. PICK i \in Waiting' : i = k - 1 /\ i + 1 = k BY <2>4
    <3> QED BY <2>2, <3>1
  <2> QED BY <2>1, <2>2, <2>3, <2>5, <2>6
<1>4. /\ UNCHANGED << web, shown, known, knownSaved, knownText, took, stage, save, file, closing >>
      /\ Behind' = Behind
  BY DEF Serve, Behind
<1>5. /\ revision \in Nat /\ revision' \in Nat /\ revision <= revision'
      /\ revision' = revision \/ revision' = revision + 1
  BY <1>1, Numbers
<1>6. Versions' \subseteq Versions \cup {<<revision', log'>>}
  <2>1. HasText(r) => <<r.rev, r.text>> \in Versions \cup {<<revision', log'>>}
    BY <1>1 DEF HasText, Versions, IsCommit, Confirmed, Gone, CommitOps, Move
  <2> QED BY <1>2, <1>4, <2>1 DEF Versions
<1>7. VersionsInv'
  <2>1. \A v \in Versions : v[1] <= revision'
    <3>1. \A v \in Versions : v[1] \in Nat BY Numbers DEF Versions
    <3> QED BY <1>5, <3>1 DEF VersionsInv
  <2>2. UNCHANGED << revision, log >> \/ \A v \in Versions : v[1] # revision' BY <1>1, <1>5 DEF VersionsInv
  <2>3. <<revision, log>> \in Versions BY DEF Versions
  <2>4. \A v, u \in Versions' : v[1] = u[1] => v[2] = u[2]
    BY <1>6, <2>2, <2>3 DEF VersionsInv
  <2>5. knownSaved' <= revision' /\ \A w \in Tasks : took'[w].saved <= revision'
    BY <1>4, <1>5, Numbers DEF VersionsInv
  <2> QED BY <1>5, <1>6, <2>1, <2>4, <2>5 DEF VersionsInv
<1>8. Due(q) /\ (q.op = "confirm" => q.arg = save[q.who].rev) BY <1>b, <1>3 DEF FlowsInv
<1>9. FlowsInv'
  <2>1. \A i \in Waiting' : (Due(queue[i]) /\ (queue[i].op = "confirm" => queue[i].arg = save[queue[i].who].rev))'
    BY <1>3, <1>4 DEF FlowsInv, Due
  <2>2. \A i \in Coming' : (Due(replies[i]) /\ (Confirmed(replies[i]) => replies[i].rev = save[replies[i].who].rev))'
    <3>1. Confirmed(r) => r.rev = save[r.who].rev BY <1>1, <1>8 DEF Confirmed, IsCommit, Gone, CommitOps, Move
    <3> QED BY <1>c, <1>2, <1>4, <1>8, <3>1 DEF FlowsInv, Due, Confirmed
  <2>3. \A i, j \in Waiting' : OfFlow(queue'[i]) /\ OfFlow(queue'[j]) /\ queue'[i].who = queue'[j].who => i = j
    <3>1. \A i, j \in Waiting' : OfFlow(queue'[i]) /\ OfFlow(queue'[j]) /\ queue'[i].who = queue'[j].who => i + 1 = j + 1
      BY <1>3 DEF FlowsInv
    <3>2. \A i, j \in Nat : i + 1 = j + 1 => i = j OBVIOUS
    <3> QED BY <1>3, <3>1, <3>2
  <2>4. OfFlow(r) = OfFlow(q) BY <1>1 DEF OfFlow
  <2>5. \A i \in Waiting', j \in Coming' : OfFlow(queue'[i]) /\ OfFlow(replies'[j]) => queue'[i].who # replies'[j].who
    <3>2. \A i \in Waiting' : OfFlow(queue'[i]) /\ OfFlow(q) => queue'[i].who # q.who
      BY <1>b, <1>3 DEF FlowsInv
    <3> QED BY <1>c, <1>2, <1>3, <2>4, <3>2 DEF FlowsInv
  <2>6. \A i, j \in Coming' : OfFlow(replies'[i]) /\ OfFlow(replies'[j]) /\ replies'[i].who = replies'[j].who => i = j
    <3>1. \A j \in Coming : OfFlow(q) /\ OfFlow(replies[j]) => q.who # replies[j].who BY <1>b, <1>3 DEF FlowsInv
    <3> QED BY <1>c, <1>2, <2>4, <3>1 DEF FlowsInv
  <2> QED BY <1>4, <2>1, <2>2, <2>3, <2>5, <2>6 DEF FlowsInv, OfFlow, Confirmed
<1>10. NewerInv'
  <2>1. ASSUME IsCommit(r)
        PROVE  /\ 0 < r.rev /\ knownSaved < r.rev /\ \A t \in Flows : save[t].rev < r.rev
               /\ \A w \in Tasks : took[w].saved < r.rev
               /\ \A i \in Coming : replies[i].op = "save" /\ replies[i].ok => replies[i].rev < r.rev
    <3>1. r.rev = revision + 1
      BY <1>1, <2>1 DEF IsCommit, Confirmed, Gone, CommitOps, Move
    <3>2. \A t \in Flows : save[t].rev <= revision
      <4>1. \A t \in Flows : <<save[t].rev, save[t].text>> \in Versions BY DEF Versions
      <4> QED BY <4>1 DEF VersionsInv
    <3>3. \A i \in Coming : replies[i].op = "save" /\ replies[i].ok => replies[i].rev <= revision
      <4>1. \A i \in Coming : replies[i].op = "save" /\ replies[i].ok => <<replies[i].rev, replies[i].text>> \in Versions
        BY DEF Versions, HasText
      <4> QED BY <4>1 DEF VersionsInv
    <3> QED BY <3>1, <3>2, <3>3, Numbers DEF VersionsInv
  <2>2. \A i \in Coming' : IsCommit(replies'[i]) =>
          /\ 0 < replies'[i].rev /\ knownSaved' < replies'[i].rev
          /\ \A t \in Flows : save'[t].rev < replies'[i].rev
          /\ \A w \in Tasks : took'[w].saved < replies'[i].rev
    BY <1>2, <1>4, <2>1 DEF NewerInv
  <2>3. \A i, j \in Coming' : i < j /\ replies'[i].op = "save" /\ replies'[i].ok /\ IsCommit(replies'[j]) =>
          replies'[i].rev < replies'[j].rev
    <3>1. \A i, j \in Coming' : i < j => i \in Coming BY <1>2 DEF Coming
    <3> QED BY <1>2, <2>1, <3>1 DEF NewerInv
  <2> QED BY <1>4, <2>2, <2>3 DEF NewerInv, IsCommit
<1>11. ~Confirmed(r) => \A j : GoneBefore(j) => GoneBefore(j)'
  <2>1. ~Confirmed(r) => \A i \in Coming \cup {0} : NoneAfter(i) => NoneAfter(i)'
    BY <1>2 DEF NoneAfter
  <2> QED BY <1>2, <1>4, <2>1 DEF GoneBefore
<1>12. \A j \in Int, k \in Int : j <= k /\ GoneBefore(j)' => GoneBefore(k)'
  <2>1. Coming' \subseteq Int BY <1>2 DEF Coming
  <2> QED BY <2>1 DEF GoneBefore
<1>13. ClosedInv'
  <2>1. n \in Int /\ n + 1 \in Int /\ n <= n + 1 BY <1>2
  <2>2. ~open => ~Confirmed(r) BY <1>1 DEF Confirmed, IsCommit, Gone, CommitOps, Move
  <2>3. ~open => GoneBefore(n)' BY <1>a, <1>11, <2>2 DEF ClosedInv
  <2>4. Gone(r) => GoneBefore(n + 1)'
    <3>1. Gone(r) => NoneAfter(n)' BY <1>2 DEF NoneAfter, Coming
    <3> QED BY <1>2, <3>1 DEF GoneBefore
  <2>5. ~open' => GoneBefore(n + 1)'
    <3>1. ~open' => ~open \/ Gone(r) BY <1>1
    <3> QED BY <1>12, <2>1, <2>3, <2>4, <3>1
  <2>6. ASSUME NEW j \in Coming, replies[j].op = "confirm", ~replies[j].ok PROVE ~open' /\ GoneBefore(j)'
    <3>1. ~open /\ GoneBefore(j) BY <2>6 DEF ClosedInv
    <3>2. ~open' BY <1>1, <1>3, <3>1 DEF Serve, Changes, Commit, CanCommit, Undo, CanUndo, Redo, CanRedo,
                                       Confirm, CanConfirm, Close, coreVars
    <3> QED BY <1>11, <2>2, <3>1, <3>2
  <2>7. r.op = "confirm" /\ ~r.ok => ~open' /\ GoneBefore(n)'
    <3> SUFFICES ASSUME r.op = "confirm", ~r.ok PROVE ~open' /\ GoneBefore(n)' OBVIOUS
    <3>1. ~CanConfirm(q.arg) /\ open' = open BY <1>1 DEF IsCommit, Confirmed, Gone
    <3>2. q.arg <= revision
      <4>1. q.who \in Flows BY <1>1 DEF Replies, Asks
      <4>2. <<save[q.who].rev, save[q.who].text>> \in Versions BY <4>1 DEF Versions
      <4> QED BY <1>1, <1>8, <4>2 DEF VersionsInv
    <3> QED BY <2>3, <3>1, <3>2 DEF CanConfirm
  <2>8. \A j \in Coming' : (replies[j].op = "confirm" /\ ~replies[j].ok => ~open /\ GoneBefore(j))'
    BY <1>2, <2>6, <2>7
  <2> QED BY <1>2, <2>5, <2>8 DEF ClosedInv
<1>14. OriginalInv'
  <2> SUFFICES ASSUME shown, known = 0
               PROVE  /\ \A j \in Coming' : replies'[j].op = "save" /\ replies'[j].ok /\ replies'[j].rev # 0 =>
                           \E i \in Coming' : i < j /\ IsCommit(replies'[i])
                      /\ revision' # 0 => \E i \in Coming' : IsCommit(replies'[i])
      BY <1>4 DEF OriginalInv, IsCommit
  <2>1. revision # 0 => \E i \in Coming : IsCommit(replies[i]) BY DEF OriginalInv
  <2>2. IsCommit(r) \/ revision' = revision BY <1>1
  <2>3. revision' # 0 => \E i \in Coming' : IsCommit(replies'[i]) BY <1>2, <2>1, <2>2
  <2>4. r.op = "save" /\ r.ok => r.rev = revision
    BY <1>1 DEF IsCommit, Confirmed, Gone, CommitOps, Move
  <2>5. \A j \in Coming : replies[j].op = "save" /\ replies[j].ok /\ replies[j].rev # 0 =>
          \E i \in Coming : i < j /\ IsCommit(replies[i])
    BY DEF OriginalInv
  <2>6. \A j \in Coming' : replies'[j].op = "save" /\ replies'[j].ok /\ replies'[j].rev # 0 =>
          \E i \in Coming' : i < j /\ IsCommit(replies'[i])
    BY <1>2, <2>1, <2>4, <2>5
  <2> QED BY <2>3, <2>6
<1>15. WebInv' BY <1>b, <1>c, <1>2, <1>3, <1>4 DEF WebInv
<1>16. FileInv'
  <2>1. Confirming(queue) <=> q.op = "confirm" \/ Confirming(queue')
    BY <1>b, <1>3 DEF Confirming, Waiting
  <2>2. Confirming(replies') <=> r.op = "confirm" \/ Confirming(replies)
    BY <1>2 DEF Confirming, Coming
  <2>3. \A i \in Waiting' : LastConfirm(queue', i) => LastConfirm(queue, i + 1)
    <3> SUFFICES ASSUME NEW i \in Waiting', LastConfirm(queue', i), NEW j \in Waiting, i + 1 < j
                 PROVE  queue[j].op # "confirm"
        BY <1>3 DEF LastConfirm, Waiting
    <3>1. PICK k \in Waiting' : j = k + 1 /\ queue'[k] = queue[j] BY <1>3
    <3> QED BY <1>3, <3>1 DEF LastConfirm, Waiting
  <2>4. \A i \in Waiting' : LastConfirm(queue', i) => file' = save'[queue'[i].who].text
    BY <1>3, <1>4, <2>3 DEF FileInv
  <2>5. ASSUME ~Confirming(queue'), NEW i \in Coming', LastConfirm(replies', i)
        PROVE  file' = save'[replies'[i].who].text
    <3>1. CASE r.op = "confirm"
      <4>1. i = n BY <1>2, <2>5, <3>1 DEF LastConfirm, Coming
      <4>2. LastConfirm(queue, 1)
        <5> SUFFICES ASSUME NEW j \in Waiting, 1 < j PROVE queue[j].op # "confirm"
            BY <1>b, <1>c, <1>3, <3>1 DEF LastConfirm, Waiting
        <5>1. PICK k \in Waiting' : j = k + 1 /\ queue'[k] = queue[j] BY <1>3
        <5> QED BY <2>5, <5>1 DEF Confirming, Waiting
      <4> QED BY <1>b, <1>c, <1>2, <1>3, <1>4, <4>1, <4>2 DEF FileInv
    <3>2. CASE r.op # "confirm"
      <4>1. i \in Coming /\ LastConfirm(replies, i) BY <1>2, <2>5, <3>2 DEF LastConfirm, Coming
      <4>2. ~Confirming(queue) BY <1>1, <2>1, <2>5, <3>2
      <4> QED BY <1>2, <1>4, <4>1, <4>2 DEF FileInv
    <3> QED BY <3>1, <3>2
  <2>6. ASSUME ~Confirming(queue'), ~Confirming(replies')
        PROVE  Behind' \/ \A v \in Versions' : v[1] = knownSaved' => v[2] = file'
    <3>1. ~Confirming(queue) /\ ~Confirming(replies) BY <1>1, <2>1, <2>2, <2>6
    <3>2. UNCHANGED << revision, log >> \/ revision' # knownSaved BY <1>1, <1>5, Numbers DEF VersionsInv
    <3>3. <<revision, log>> \in Versions BY DEF Versions
    <3> QED BY <1>4, <1>6, <3>1, <3>2, <3>3 DEF FileInv
  <2> QED BY <2>4, <2>5, <2>6 DEF FileInv
<1> QED BY <1>7, <1>9, <1>10, <1>13, <1>14, <1>15, <1>16

--------------------------------------------------------------------------------
(* The shell handles an answer: the others move up.                             *)

Taken ==
  /\ UNCHANGED << web, revision, log, open >>
  /\ 1 \in Coming /\ Coming \subseteq Nat \ {0} /\ Coming' \subseteq Nat \ {0}
  /\ Len(replies) \in Nat /\ Len(replies') \in Nat /\ Len(replies) = Len(replies') + 1
  /\ \A i \in Coming' : \E k \in Coming : k = i + 1 /\ k # 1 /\ replies'[i] = replies[k]
  /\ \A k \in Coming : k = 1 \/ \E i \in Coming' : k = i + 1 /\ replies'[i] = replies[k]

LEMMA DeliverTakes ==
  ASSUME Typed, Deliver
  PROVE  Taken
<1>1. replies \in Seq(Replies) /\ replies # << >> /\ replies' = Tail(replies) BY DEF Deliver, Typed, MessagesTyped
<1>2. /\ Len(replies) \in Nat /\ Len(replies') = Len(replies) - 1 /\ 1 \in Coming
      /\ \A i \in Coming' : replies'[i] = replies[i + 1] /\ i + 1 \in Coming
  BY <1>1, MovesUp DEF Coming
<1>3. Coming \subseteq Nat \ {0} /\ Coming' \subseteq Nat \ {0} BY DEF Coming
<1>4. Len(replies') \in Nat /\ Len(replies) = Len(replies') + 1 BY <1>2 DEF Coming
<1>5. \A k \in Coming : k = 1 \/ (k - 1 \in Coming' /\ (k - 1) + 1 = k) BY <1>2 DEF Coming
<1>6. \A i \in Coming' : i + 1 # 1 BY <1>3
<1>7. \A k \in Coming : k = 1 \/ \E i \in Coming' : k = i + 1 /\ replies'[i] = replies[k]
  <2> SUFFICES ASSUME NEW k \in Coming, k # 1 PROVE \E i \in Coming' : k = i + 1 /\ replies'[i] = replies[k] OBVIOUS
  <2>1. PICK i \in Coming' : i = k - 1 /\ i + 1 = k BY <1>5
  <2> QED BY <1>2, <2>1
<1>8. UNCHANGED << web, revision, log, open >>
  BY DEF Deliver, DeliverCommit, DeliverFailure, DeliverText, DeliverSaved, DeliverConfirmed, DeliverClosed,
         shellVars, coreVars
<1> QED BY <1>2, <1>3, <1>4, <1>6, <1>7, <1>8 DEF Taken

\* Nothing the answers have brought about is undone by the one that is handled.
LEMMA TakenClosed ==
  ASSUME Taken, ClosedInv,
         Behind => Behind' \/ Confirmed(replies[1]),
         Gone(replies[1]) => Behind'
  PROVE  ClosedInv'
<1>1. ASSUME NEW i \in Nat, NoneAfter(i + 1) PROVE NoneAfter(i)'
  <2> SUFFICES ASSUME NEW l \in Coming', i < l PROVE ~Confirmed(replies'[l]) BY DEF NoneAfter, Confirmed
  <2>1. PICK k \in Coming : k = l + 1 /\ replies'[l] = replies[k] BY DEF Taken
  <2>2. i + 1 < k BY <2>1 DEF Taken
  <2> QED BY <1>1, <2>1, <2>2 DEF NoneAfter
<1>2. NoneAfter(0) => NoneAfter(0)' /\ ~Confirmed(replies[1])
  <2>1. \A k \in Coming : 0 < k BY DEF Taken
  <2> QED BY <2>1 DEF Taken, NoneAfter
<1>3. ASSUME NEW j \in Nat, GoneBefore(j + 1) PROVE GoneBefore(j)'
  <2>1. CASE Behind /\ NoneAfter(0) BY <1>2, <2>1 DEF GoneBefore
  <2>2. ASSUME NEW k \in Coming, k < j + 1, Gone(replies[k]), NoneAfter(k) PROVE GoneBefore(j)'
    <3>1. CASE k = 1 BY <1>1, <2>2, <3>1 DEF GoneBefore
    <3>2. CASE k # 1
      <4>1. PICK i \in Coming' : k = i + 1 /\ replies'[i] = replies[k] BY <3>2 DEF Taken
      <4>2. i \in Nat /\ i < j BY <2>2, <4>1 DEF Taken
      <4>4. NoneAfter(i)' BY <1>1, <2>2, <4>1, <4>2
      <4>3. Gone(replies'[i]) BY <2>2, <4>1
      <4> QED BY <4>2, <4>3, <4>4 DEF GoneBefore, Gone
    <3> QED BY <3>1, <3>2
  <2> QED BY <1>3, <2>1, <2>2 DEF GoneBefore
<1>4. (~open => GoneBefore(Len(replies) + 1))'
  <2>1. PICK n \in Nat : n = Len(replies) BY DEF Taken
  <2>2. n = Len(replies') + 1 BY <2>1 DEF Taken
  <2>3. ~open' => GoneBefore(n)' BY <1>3, <2>1 DEF ClosedInv, Taken
  <2> QED BY <2>2, <2>3
<1>5. ASSUME NEW j \in Coming', replies'[j].op = "confirm", ~replies'[j].ok PROVE ~open' /\ GoneBefore(j)'
  <2>1. PICK k \in Coming : k = j + 1 /\ replies'[j] = replies[k] BY DEF Taken
  <2>2. ~open /\ GoneBefore(j + 1) BY <1>5, <2>1 DEF ClosedInv
  <2> QED BY <1>3, <2>2 DEF Taken
<1> QED BY <1>4, <1>5 DEF ClosedInv

\* The answers that are left are each of its own flow, and the commits lead as before.
LEMMA TakenOnce ==
  ASSUME Taken, FlowsInv
  PROVE  /\ \A i, j \in Coming' : OfFlow(replies'[i]) /\ OfFlow(replies'[j]) /\ replies'[i].who = replies'[j].who => i = j
         /\ OfFlow(replies[1]) => \A j \in Coming' : OfFlow(replies'[j]) => replies'[j].who # replies[1].who
         /\ \A i \in Waiting, j \in Coming' : OfFlow(queue[i]) /\ OfFlow(replies'[j]) => queue[i].who # replies'[j].who
         /\ OfFlow(replies[1]) => \A j \in Waiting : OfFlow(queue[j]) => queue[j].who # replies[1].who
         /\ \A i \in Coming' : Due(replies'[i]) /\ (Confirmed(replies'[i]) => replies'[i].rev = save[replies'[i].who].rev)
<1>1. \A i, j \in Coming' : OfFlow(replies'[i]) /\ OfFlow(replies'[j]) /\ replies'[i].who = replies'[j].who => i + 1 = j + 1
  BY DEF Taken, FlowsInv
<1>2. \A i, j \in Nat : i + 1 = j + 1 => i = j OBVIOUS
<1>3. \A i, j \in Coming' : OfFlow(replies'[i]) /\ OfFlow(replies'[j]) /\ replies'[i].who = replies'[j].who => i = j
  BY <1>1, <1>2 DEF Taken
<1>4. OfFlow(replies[1]) => \A j \in Coming' : OfFlow(replies'[j]) => replies'[j].who # replies[1].who
  BY DEF Taken, FlowsInv
<1>5. \A i \in Waiting, j \in Coming' : OfFlow(queue[i]) /\ OfFlow(replies'[j]) => queue[i].who # replies'[j].who
  BY DEF Taken, FlowsInv
<1>6. OfFlow(replies[1]) => \A j \in Waiting : OfFlow(queue[j]) => queue[j].who # replies[1].who
  BY DEF Taken, FlowsInv
<1>7. \A i \in Coming' : Due(replies'[i]) /\ (Confirmed(replies'[i]) => replies'[i].rev = save[replies'[i].who].rev)
  BY DEF Taken, FlowsInv
<1> QED BY <1>3, <1>4, <1>5, <1>6, <1>7

LEMMA TakenOriginal ==
  ASSUME Taken, OriginalInv, shown, known = 0, ~IsCommit(replies[1])
  PROVE  /\ \A j \in Coming' : replies'[j].op = "save" /\ replies'[j].ok /\ replies'[j].rev # 0 =>
              \E i \in Coming' : i < j /\ IsCommit(replies'[i])
         /\ revision # 0 => \E i \in Coming' : IsCommit(replies'[i])
<1>1. ASSUME NEW k \in Coming, IsCommit(replies[k])
      PROVE  \E i \in Coming' : k = i + 1 /\ IsCommit(replies'[i])
  BY <1>1 DEF Taken
<1>2. revision # 0 => \E i \in Coming' : IsCommit(replies'[i]) BY <1>1 DEF OriginalInv
<1>3. ASSUME NEW j \in Coming', replies'[j].op = "save", replies'[j].ok, replies'[j].rev # 0
      PROVE  \E i \in Coming' : i < j /\ IsCommit(replies'[i])
  <2>1. PICK k \in Coming : k = j + 1 /\ replies'[j] = replies[k] BY DEF Taken
  <2>2. PICK l \in Coming : l < k /\ IsCommit(replies[l]) BY <1>3, <2>1 DEF OriginalInv
  <2>3. PICK i \in Coming' : l = i + 1 /\ IsCommit(replies'[i]) BY <1>1, <2>2
  <2>4. i < j BY <2>1, <2>2, <2>3 DEF Taken
  <2> QED BY <2>3, <2>4
<1> QED BY <1>2, <1>3

LEMMA TakenConfirms ==
  ASSUME Taken
  PROVE  /\ Confirming(replies) <=> replies[1].op = "confirm" \/ Confirming(replies')
         /\ \A i \in Coming' : LastConfirm(replies', i) => \E k \in Coming : LastConfirm(replies, k) /\ replies'[i] = replies[k]
<1>1. Confirming(replies) <=> replies[1].op = "confirm" \/ Confirming(replies')
  BY DEF Taken, Confirming, Coming
<1>2. ASSUME NEW i \in Coming', LastConfirm(replies', i)
      PROVE  \E k \in Coming : LastConfirm(replies, k) /\ replies'[i] = replies[k]
  <2>1. PICK k \in Coming : k = i + 1 /\ replies'[i] = replies[k] BY DEF Taken
  <2>2. ASSUME NEW j \in Coming, k < j PROVE replies[j].op # "confirm"
    <3>1. j # 1 /\ j \in Nat /\ i \in Nat BY <2>1, <2>2 DEF Taken
    <3>2. PICK l \in Coming' : j = l + 1 /\ replies'[l] = replies[j] BY <3>1 DEF Taken
    <3>3. i < l BY <2>1, <2>2, <3>1, <3>2 DEF Taken
    <3> QED BY <1>2, <3>2, <3>3 DEF LastConfirm, Coming
  <2>3. LastConfirm(replies, k) BY <1>2, <2>1, <2>2 DEF LastConfirm, Coming
  <2> QED BY <2>1, <2>3
<1> QED BY <1>1, <1>2

LEMMA AnswersLead ==
  ASSUME Taken, NewerInv
  PROVE  /\ \A i, j \in Coming' : i < j /\ replies'[i].op = "save" /\ replies'[i].ok /\ IsCommit(replies'[j]) =>
              replies'[i].rev < replies'[j].rev
         /\ replies[1].op = "save" /\ replies[1].ok => \A j \in Coming' : IsCommit(replies'[j]) => replies[1].rev < replies'[j].rev
<1>1. ASSUME NEW i \in Coming', NEW j \in Coming', i < j, replies'[i].op = "save", replies'[i].ok, IsCommit(replies'[j])
      PROVE  replies'[i].rev < replies'[j].rev
  <2>1. PICK k \in Coming : k = i + 1 /\ replies'[i] = replies[k] BY DEF Taken
  <2>2. PICK l \in Coming : l = j + 1 /\ replies'[j] = replies[l] BY DEF Taken
  <2>3. k < l BY <1>1, <2>1, <2>2 DEF Taken
  <2> QED BY <1>1, <2>1, <2>2, <2>3 DEF NewerInv
<1>2. ASSUME replies[1].op = "save", replies[1].ok, NEW j \in Coming', IsCommit(replies'[j])
      PROVE  replies[1].rev < replies'[j].rev
  <2>1. PICK l \in Coming : l = j + 1 /\ replies'[j] = replies[l] BY DEF Taken
  <2>2. 1 < l /\ 1 \in Coming BY <2>1 DEF Taken
  <2> QED BY <1>2, <2>1, <2>2 DEF NewerInv
<1> QED BY <1>1, <1>2

\* A save and its confirmation belong to one of the flows.
LEMMA FlowRequest ==
  ASSUME Typed, NEW i \in Waiting, queue[i].op \in {"save", "confirm"}
  PROVE  queue[i].who \in Flows
BY Numbers DEF Requests, Asks

LEMMA FlowAnswer ==
  ASSUME Typed, Taken, NEW i \in Coming', replies'[i].op \in {"save", "confirm"}
  PROVE  replies'[i].who \in Flows
<1>1. PICK k \in Coming : replies'[i] = replies[k] BY DEF Taken
<1> QED BY <1>1, Numbers DEF Replies, Asks

\* An answer to an edit: ignored, or what the shell knows from now on.
LEMMA DeliverEdit ==
  ASSUME Typed, SaveInv, Deliver, NEW r \in Replies, r = replies[1], ~OfFlow(r),
         DeliverCommit(r) \/ DeliverFailure(r) \/ DeliverText(r)
  PROVE  SaveInv'
<1> USE DEF SaveInv, shellVars, closeVars, saveVars
<1>1. Taken BY DeliverTakes
<1>2. UNCHANGED << web, shown, knownSaved, closing, save, file, queue, revision, log >>
  BY DEF Deliver, DeliverCommit, DeliverFailure, DeliverText, coreVars
<1>3. /\ \/ UNCHANGED << known, knownText, took >> /\ (IsCommit(r) => ~shown \/ r.rev <= known)
         \/ /\ IsCommit(r) /\ shown /\ r.rev > known
            /\ known' = r.rev /\ knownText' = r.text
            /\ took' = [took EXCEPT ![r.who] = [rev |-> r.rev, saved |-> knownSaved, text |-> r.text]]
            /\ stage' = [stage EXCEPT ![r.who] = "refreshing"]
      /\ known' = known => \A w \in Tasks : stage'[w] = "refreshing" => stage[w] = "refreshing"
  <2>1. CASE DeliverCommit(r)
    <3>1. IsCommit(r) BY <2>1 DEF DeliverCommit, IsCommit, CommitOps
    <3>2. CASE known' = r.rev /\ shown /\ r.rev > known
      <4>1. known \in Nat /\ r.rev \in Int BY Numbers DEF Replies, Revisions
      <4>2. known' # known /\ ~(~shown \/ r.rev <= known) BY <3>2, <4>1
      <4> QED BY <2>1, <3>1, <3>2, <4>2 DEF DeliverCommit, At
    <3>3. CASE UNCHANGED << shellVars, took >> /\ (~shown \/ r.rev <= known) /\ EndStage(r.who, "done")
      BY <3>3 DEF EndStage, At, Typed, HandlersTyped
    <3> QED BY <2>1, <3>2, <3>3 DEF DeliverCommit
  <2>2. CASE DeliverFailure(r)
    <3>1. ~IsCommit(r) BY <2>2 DEF DeliverFailure, IsCommit
    <3> QED BY <2>2, <3>1 DEF DeliverFailure, EndStage, At, Typed, HandlersTyped
  <2>3. CASE DeliverText(r)
    <3>1. ~IsCommit(r) BY <2>3 DEF DeliverText, IsCommit, CommitOps, Move
    <3> QED BY <2>3, <3>1 DEF DeliverText, At, Typed, HandlersTyped
  <2> QED BY <2>1, <2>2, <2>3
<1>4. /\ known \in Nat /\ knownSaved \in Nat /\ r.rev \in Nat
  BY Numbers DEF Replies, Revisions
<1>5. IsCommit(r) => 0 < r.rev /\ knownSaved < r.rev BY <1>1 DEF Taken, NewerInv
<1>6. Behind => Behind' BY <1>2, <1>3, <1>5 DEF Behind
<1>7. r.op # "confirm" /\ ~Confirmed(r) /\ ~Gone(r) BY DEF OfFlow, Confirmed, Gone
<1>8. \A w \in Tasks : took'[w] = took[w] \/ (IsCommit(r) /\ took'[w] = [rev |-> r.rev, saved |-> knownSaved, text |-> r.text])
  BY <1>3 DEF Typed, HandlersTyped
<1>9. Versions' \subseteq Versions
  <2>1. IsCommit(r) => <<r.rev, r.text>> \in Versions BY <1>1 DEF Taken, Versions, HasText, IsCommit
  <2>2. <<known', knownText'>> \in Versions BY <1>3, <2>1 DEF Versions
  <2>3. \A w \in Tasks : <<took'[w].rev, took'[w].text>> \in Versions BY <1>8, <2>1 DEF Versions
  <2>4. \A i \in Coming' : HasText(replies'[i]) => <<replies'[i].rev, replies'[i].text>> \in Versions
    BY <1>1 DEF Taken, Versions
  <2> QED BY <1>2, <2>2, <2>3, <2>4 DEF Versions, HasText
<1>10. VersionsInv'
  <2>1. \A w \in Tasks : took'[w].saved <= revision BY <1>8 DEF VersionsInv
  <2> QED BY <1>2, <1>9, <2>1 DEF VersionsInv
<1>11. FlowsInv'
  <2>1. \A m : Due(m) => Due(m)' BY <1>2 DEF Due
  <2> QED BY <1>1, <1>2, <2>1, TakenOnce DEF FlowsInv, Waiting, OfFlow, Confirmed, Due
<1>12. NewerInv'
  <2>1. \A i \in Coming' : IsCommit(replies'[i]) =>
          /\ 0 < replies'[i].rev /\ knownSaved < replies'[i].rev
          /\ \A t \in Flows : save[t].rev < replies'[i].rev
          /\ \A w \in Tasks : took'[w].saved < replies'[i].rev
    <3> SUFFICES ASSUME NEW i \in Coming', IsCommit(replies'[i])
                 PROVE  /\ 0 < replies'[i].rev /\ knownSaved < replies'[i].rev
                        /\ \A t \in Flows : save[t].rev < replies'[i].rev
                        /\ \A w \in Tasks : took'[w].saved < replies'[i].rev
        OBVIOUS
    <3>1. PICK k \in Coming : replies'[i] = replies[k] BY <1>1 DEF Taken
    <3>2. /\ 0 < replies'[i].rev /\ knownSaved < replies'[i].rev
          /\ \A t \in Flows : save[t].rev < replies'[i].rev
          /\ \A w \in Tasks : took[w].saved < replies'[i].rev
      BY <3>1 DEF NewerInv
    <3> QED BY <1>8, <3>2
  <2>2. \A i, j \in Coming' : i < j /\ replies'[i].op = "save" /\ replies'[i].ok /\ IsCommit(replies'[j]) =>
          replies'[i].rev < replies'[j].rev
    BY <1>1, AnswersLead
  <2>3. \A w \in Tasks : stage'[w] = "refreshing" => took'[w].saved < took'[w].rev
    <3>1. CASE known' = known /\ took' = took BY <1>3, <3>1 DEF NewerInv
    <3>2. CASE took' = [took EXCEPT ![r.who] = [rev |-> r.rev, saved |-> knownSaved, text |-> r.text]] /\ IsCommit(r)
               /\ stage' = [stage EXCEPT ![r.who] = "refreshing"]
      BY <1>5, <3>2 DEF NewerInv, Typed, HandlersTyped
    <3> QED BY <1>3, <3>1, <3>2
  <2> QED BY <1>2, <2>1, <2>2, <2>3 DEF NewerInv, IsCommit
<1>13. ClosedInv' BY <1>1, <1>6, <1>7, TakenClosed
<1>14. OriginalInv'
  <2>1. CASE known' = known /\ shown /\ known = 0
    <3>1. ~IsCommit(r) BY <1>3, <1>4, <1>5, <2>1
    <3> QED BY <1>1, <1>2, <2>1, <3>1, TakenOriginal DEF OriginalInv, IsCommit
  <2>2. known' # known => known' # 0 BY <1>3, <1>4
  <2> QED BY <1>2, <2>1, <2>2 DEF OriginalInv
<1>15. WebInv' BY <1>1, <1>2, <1>8 DEF WebInv, Taken, Waiting
<1>16. FileInv' BY <1>1, <1>2, <1>6, <1>7, <1>9, TakenConfirms DEF FileInv, Waiting, Confirming
<1> QED BY <1>10, <1>11, <1>12, <1>13, <1>14, <1>15, <1>16

\* The bytes to be written are there, those of the revision answered.
LEMMA DeliverBytes ==
  ASSUME Typed, SaveInv, Deliver, NEW r \in Replies, r = replies[1], r.op = "save", r.ok, DeliverSaved(r)
  PROVE  SaveInv'
<1> USE DEF SaveInv, shellVars, editVars
<1>1. Taken BY DeliverTakes
<1>2. /\ UNCHANGED << web, shown, known, knownText, knownSaved, took, stage, closing, file, queue, revision, log >>
      /\ save' = [save EXCEPT ![r.who] = [at |-> "host", rev |-> r.rev, text |-> r.text]]
      /\ Behind' = Behind
  BY DEF Deliver, DeliverSaved, coreVars, Behind
<1>3. r.who \in Flows BY DEF Replies, Asks
<1>4. /\ save'[r.who].at = "host" /\ save'[r.who].rev = r.rev /\ save'[r.who].text = r.text
      /\ \A t \in Flows : t # r.who => save'[t] = save[t]
  BY <1>2, <1>3 DEF Typed, FlowsTyped, Saves
<1>5. OfFlow(r) /\ r.op # "confirm" /\ ~Confirmed(r) /\ ~Gone(r) /\ ~IsCommit(r) /\ HasText(r)
  BY DEF OfFlow, Confirmed, Gone, IsCommit, CommitOps, Move, HasText
<1>6. /\ \A i \in Coming' : OfFlow(replies'[i]) => replies'[i].who # r.who
      /\ \A i \in Waiting : OfFlow(queue[i]) => queue[i].who # r.who
  BY <1>1, <1>5, TakenOnce
<1>7. Versions' \subseteq Versions
  <2>1. <<r.rev, r.text>> \in Versions BY <1>1, <1>5 DEF Taken, Versions
  <2>2. \A t \in Flows : <<save'[t].rev, save'[t].text>> \in Versions BY <1>4, <2>1 DEF Versions
  <2>3. \A i \in Coming' : HasText(replies'[i]) => <<replies'[i].rev, replies'[i].text>> \in Versions
    BY <1>1 DEF Taken, Versions
  <2> QED BY <1>2, <2>2, <2>3 DEF Versions, HasText
<1>8. VersionsInv' BY <1>2, <1>7 DEF VersionsInv
<1>9. FlowsInv'
  <2>1. \A i \in Waiting' : (Due(queue[i]) /\ (queue[i].op = "confirm" => queue[i].arg = save[queue[i].who].rev))'
    BY <1>2, <1>4, <1>6, FlowRequest DEF FlowsInv, Due, OfFlow, Waiting
  <2>2. \A i \in Coming' : (Due(replies[i]) /\ (Confirmed(replies[i]) => replies[i].rev = save[replies[i].who].rev))'
    BY <1>1, <1>2, <1>4, <1>6, FlowAnswer, TakenOnce DEF Due, OfFlow, Confirmed
  <2>3. r.who = "close" => closing = "saving"
    <3>1. save[r.who].at = "posted" BY <1>1 DEF Taken, FlowsInv, Due
    <3> QED BY <3>1 DEF FlowsInv
  <2>4. (\A u \in Flows : save'[u].at = "no" => save'[u] = NoFlow) /\ (save'["close"].at # "no" => closing' = "saving")
    BY <1>2, <1>4, <2>3 DEF FlowsInv, Flows
  <2> QED BY <1>1, <1>2, <2>1, <2>2, <2>4, TakenOnce DEF FlowsInv, Waiting, OfFlow, Confirmed
<1>10. NewerInv'
  <2> SUFFICES ASSUME NEW i \in Coming', IsCommit(replies'[i])
               PROVE  /\ 0 < replies'[i].rev /\ knownSaved < replies'[i].rev
                      /\ \A t \in Flows : save'[t].rev < replies'[i].rev
                      /\ \A w \in Tasks : took[w].saved < replies'[i].rev
      BY <1>1, <1>2, AnswersLead DEF NewerInv, IsCommit
  <2>1. PICK k \in Coming : replies'[i] = replies[k] BY <1>1 DEF Taken
  <2>2. /\ 0 < replies'[i].rev /\ knownSaved < replies'[i].rev
        /\ \A t \in Flows : save[t].rev < replies'[i].rev
        /\ \A w \in Tasks : took[w].saved < replies'[i].rev
    BY <2>1 DEF NewerInv
  <2>3. r.rev < replies'[i].rev BY <1>1, AnswersLead
  <2> QED BY <1>4, <2>2, <2>3
<1>11. ClosedInv' BY <1>1, <1>2, <1>5, TakenClosed
<1>12. OriginalInv'
  <2> SUFFICES ASSUME shown, known = 0
               PROVE  OriginalInv'
      BY <1>2 DEF OriginalInv
  <2>1. r.rev = 0
    <3>1. \A i \in Coming : ~(i < 1) BY <1>1 DEF Taken
    <3> QED BY <1>1, <3>1 DEF Taken, OriginalInv
  <2>2. \A t \in Flows : save'[t].rev = 0 BY <1>4, <2>1 DEF OriginalInv
  <2> QED BY <1>1, <1>2, <1>5, <2>2, TakenOriginal DEF OriginalInv, IsCommit
<1>13. WebInv' BY <1>1, <1>2 DEF WebInv, Taken, Waiting
<1>14. FileInv'
  <2>1. \A i \in Waiting : LastConfirm(queue, i) => save'[queue[i].who] = save[queue[i].who]
    BY <1>4, <1>6, FlowRequest DEF LastConfirm, OfFlow
  <2>2. \A i \in Coming' : LastConfirm(replies', i) => save'[replies'[i].who] = save[replies'[i].who]
    BY <1>1, <1>4, <1>6, FlowAnswer DEF LastConfirm, OfFlow
  <2> QED BY <1>1, <1>2, <1>5, <1>7, <2>1, <2>2, TakenConfirms DEF FileInv, Waiting, Confirming
<1> QED BY <1>8, <1>9, <1>10, <1>11, <1>12, <1>13, <1>14

\* The document leaves the shell, or stays when the closing was refused.
LEMMA DeliverGone ==
  ASSUME Typed, SaveInv, Deliver, NEW r \in Replies, r = replies[1], DeliverClosed(r)
  PROVE  SaveInv'
<1> USE DEF SaveInv, editVars, saveVars
<1>1. Taken BY DeliverTakes
<1>2. /\ UNCHANGED << web, known, knownText, knownSaved, took, stage, save, file, queue, revision, log >>
      /\ r.op = "close" /\ (shown' <=> shown /\ ~r.ok) /\ closing' = "no"
  BY DEF Deliver, DeliverClosed, coreVars
<1>3. r.who = "close" /\ closing = "closing"
  BY <1>1, <1>2 DEF Taken, FlowsInv, Due
<1>4. OfFlow(r) /\ r.op # "confirm" /\ ~Confirmed(r) /\ ~IsCommit(r) /\ (Gone(r) <=> r.ok)
  BY <1>2 DEF OfFlow, Confirmed, Gone, IsCommit, CommitOps, Move
<1>5. /\ \A i \in Coming' : OfFlow(replies'[i]) => replies'[i].who # "close" /\ replies'[i].op # "close"
      /\ \A i \in Waiting : OfFlow(queue[i]) => queue[i].who # "close" /\ queue[i].op # "close"
  <2>1. /\ \A i \in Coming' : OfFlow(replies'[i]) => replies'[i].who # "close"
        /\ \A i \in Waiting : OfFlow(queue[i]) => queue[i].who # "close"
    BY <1>1, <1>3, <1>4, TakenOnce
  <2> QED BY <1>1, <2>1, TakenOnce DEF Due, FlowsInv, OfFlow
<1>6. (Behind => Behind') /\ (Gone(r) => Behind') BY <1>2, <1>4 DEF Behind
<1>7. Versions' \subseteq Versions
  <2>1. \A i \in Coming' : HasText(replies'[i]) => <<replies'[i].rev, replies'[i].text>> \in Versions
    BY <1>1 DEF Taken, Versions
  <2> QED BY <1>2, <2>1 DEF Versions, HasText
<1>8. VersionsInv' BY <1>2, <1>7 DEF VersionsInv
<1>9. FlowsInv'
  <2>1. \A i \in Waiting' : (Due(queue[i]) /\ (queue[i].op = "confirm" => queue[i].arg = save[queue[i].who].rev))'
    BY <1>2, <1>5 DEF FlowsInv, Due, OfFlow, Waiting
  <2>2. \A i \in Coming' : (Due(replies[i]) /\ (Confirmed(replies[i]) => replies[i].rev = save[replies[i].who].rev))'
    BY <1>1, <1>2, <1>5, TakenOnce DEF Due, OfFlow, Confirmed
  <2>3. save["close"].at = "no" BY <1>3 DEF FlowsInv
  <2> QED BY <1>1, <1>2, <2>1, <2>2, <2>3, TakenOnce DEF FlowsInv, Waiting, OfFlow, Confirmed
<1>10. NewerInv'
  <2>1. \A i \in Coming' : IsCommit(replies'[i]) =>
          /\ 0 < replies'[i].rev /\ knownSaved < replies'[i].rev
          /\ \A t \in Flows : save[t].rev < replies'[i].rev
          /\ \A w \in Tasks : took[w].saved < replies'[i].rev
    BY <1>1 DEF Taken, NewerInv
  <2> QED BY <1>1, <1>2, <2>1, AnswersLead DEF NewerInv, IsCommit
<1>11. ClosedInv' BY <1>1, <1>6, TakenClosed
<1>12. OriginalInv'
  <2> SUFFICES ASSUME shown, known = 0 PROVE OriginalInv' BY <1>2 DEF OriginalInv
  <2> QED BY <1>1, <1>2, <1>4, TakenOriginal DEF OriginalInv, IsCommit
<1>13. WebInv' BY <1>1, <1>2 DEF WebInv, Taken, Waiting
<1>14. FileInv' BY <1>1, <1>2, <1>4, <1>6, <1>7, TakenConfirms DEF FileInv, Waiting, Confirming
<1> QED BY <1>8, <1>9, <1>10, <1>11, <1>12, <1>13, <1>14

\* A save ends: refused, or confirmed with the revision that was written.
LEMMA DeliverEnd ==
  ASSUME Typed, SaveInv, Deliver, NEW r \in Replies, r = replies[1],
         r.op = "confirm" \/ (r.op = "save" /\ ~r.ok),
         EndSave(r.who, r.ok, downloaded),
         knownSaved' = IF Confirmed(r) /\ shown THEN r.rev ELSE knownSaved,
         UNCHANGED << shown, known, knownText, took, stage, file >>
  PROVE  SaveInv'
<1> USE DEF SaveInv
<1>1. Taken BY DeliverTakes
<1>2. UNCHANGED << web, revision, log >> BY <1>1 DEF Taken
<1>3. r.who \in Flows /\ r.ok \in BOOLEAN BY DEF Replies, Asks
<1>4. /\ save' = [save EXCEPT ![r.who] = NoFlow]
      /\ \/ queue' = queue /\ r.who = "menu" /\ closing' = closing
         \/ queue' = queue /\ r.who = "close" /\ closing' \in {"asking", "no"}
         \/ r.who = "close" /\ r.ok /\ BeginClose
  BY <1>3, EndSaveEffect
<1>5. save'[r.who] = NoFlow /\ \A t \in Flows : t # r.who => save'[t] = save[t]
  BY <1>3, <1>4 DEF Typed, FlowsTyped, Saves
<1>6. OfFlow(r) /\ ~Gone(r) /\ ~IsCommit(r) BY DEF OfFlow, Gone, IsCommit, CommitOps, Move
<1>7. /\ Confirmed(r) => r.rev = save[r.who].rev
      /\ save[r.who].at # "no" /\ (r.who = "close" => closing = "saving")
  BY <1>1, <1>3 DEF Taken, FlowsInv, Due
<1>8. /\ \A i \in Coming' : OfFlow(replies'[i]) => replies'[i].who # r.who
      /\ \A i \in Waiting : OfFlow(queue[i]) => queue[i].who # r.who
  BY <1>1, <1>6, TakenOnce
<1>9. r.who = "close" => /\ \A i \in Coming' : replies'[i].op # "close"
                         /\ \A i \in Waiting : queue[i].op # "close"
  BY <1>1, <1>7, TakenOnce DEF Due, FlowsInv
\* What becomes of the queue: the request to close is put behind the others, or nothing.
<1>10. \/ queue' = queue /\ (closing' = closing \/ r.who = "close")
       \/ /\ r.who = "close" /\ closing' = "closing"
          /\ \E n \in Nat, q \in Requests :
               /\ Waiting' = Waiting \cup {n} /\ n \notin Waiting /\ \A i \in Waiting : i < n
               /\ \A i \in Waiting : queue'[i] = queue[i]
               /\ queue'[n] = q /\ q.op = "close" /\ q.who = "close"
  <2> SUFFICES ASSUME r.who = "close", BeginClose
               PROVE  /\ closing' = "closing"
                      /\ \E n \in Nat, q \in Requests :
                           /\ Waiting' = Waiting \cup {n} /\ n \notin Waiting /\ \A i \in Waiting : i < n
                           /\ \A i \in Waiting : queue'[i] = queue[i]
                           /\ queue'[n] = q /\ q.op = "close" /\ q.who = "close"
      BY <1>4
  <2>1. PICK q \in Requests : q = Request("close", "close", 0)
    <3>1. Request("close", "close", 0) \in Requests
      BY MaxRevisionAssumption DEF Request, Requests, Ops, Flows, Asks, Move, Revisions
    <3> QED BY <3>1
  <2>2. queue' = Append(queue, q) /\ closing' = "closing" BY <2>1 DEF BeginClose, Post
  <2>3. PICK n \in Nat : n = Len(queue) + 1 BY Numbers
  <2>4. /\ Waiting' = Waiting \cup {n} /\ n \notin Waiting /\ \A i \in Waiting : i < n
        /\ \A i \in Waiting : queue'[i] = queue[i]
        /\ queue'[n] = q
    BY <2>2, <2>3, Behinds DEF Typed, MessagesTyped, Waiting
  <2> QED BY <2>1, <2>2, <2>4 DEF Request
<1>11. \A i \in Waiting' : \/ i \in Waiting /\ queue'[i] = queue[i]
                           \/ queue'[i].op = "close" /\ queue'[i].who = "close" /\ r.who = "close" /\ closing' = "closing"
  BY <1>10 DEF Waiting
<1>12. Waiting \subseteq Waiting' /\ \A i \in Waiting : queue'[i] = queue[i] BY <1>10 DEF Waiting
<1>13. \A i, j \in Waiting' : i \notin Waiting /\ j \notin Waiting => i = j BY <1>10 DEF Waiting
<1>14. Versions' \subseteq Versions
  <2>1. \A t \in Flows : <<save'[t].rev, save'[t].text>> \in Versions BY <1>5 DEF Versions, NoFlow
  <2>2. \A i \in Coming' : HasText(replies'[i]) => <<replies'[i].rev, replies'[i].text>> \in Versions
    BY <1>1 DEF Taken, Versions
  <2> QED BY <1>2, <2>1, <2>2 DEF Versions, HasText
<1>15. <<save[r.who].rev, save[r.who].text>> \in Versions BY <1>3 DEF Versions
<1>16. VersionsInv'
  <2>1. knownSaved' <= revision BY <1>7, <1>15 DEF VersionsInv
  <2> QED BY <1>2, <1>14, <2>1 DEF VersionsInv
<1>17. FlowsInv'
  <2>1. \A i \in Waiting' : (Due(queue[i]) /\ (queue[i].op = "confirm" => queue[i].arg = save[queue[i].who].rev))'
    <3> SUFFICES ASSUME NEW i \in Waiting'
                 PROVE  (Due(queue[i]) /\ (queue[i].op = "confirm" => queue[i].arg = save[queue[i].who].rev))'
        OBVIOUS
    <3>1. CASE queue'[i].op = "close" /\ queue'[i].who = "close" /\ closing' = "closing" BY <3>1 DEF Due
    <3>2. CASE i \in Waiting /\ queue'[i] = queue[i]
      <4>1. Due(queue[i]) /\ (queue[i].op = "confirm" => queue[i].arg = save[queue[i].who].rev)
        BY <3>2 DEF FlowsInv
      <4>2. queue[i].op \in {"save", "confirm"} => save'[queue[i].who] = save[queue[i].who]
        BY <1>5, <1>8, <3>2, FlowRequest DEF OfFlow
      <4>3. queue[i].op = "close" => closing' = closing BY <1>9, <1>10, <3>2
      <4> QED BY <3>2, <4>1, <4>2, <4>3 DEF Due
    <3> QED BY <1>11, <3>1, <3>2
  <2>2. \A i \in Coming' : (Due(replies[i]) /\ (Confirmed(replies[i]) => replies[i].rev = save[replies[i].who].rev))'
    <3> SUFFICES ASSUME NEW i \in Coming'
                 PROVE  (Due(replies[i]) /\ (Confirmed(replies[i]) => replies[i].rev = save[replies[i].who].rev))'
        OBVIOUS
    <3>1. Due(replies'[i]) /\ (Confirmed(replies'[i]) => replies'[i].rev = save[replies'[i].who].rev)
      BY <1>1, TakenOnce
    <3>2. replies'[i].op \in {"save", "confirm"} => save'[replies'[i].who] = save[replies'[i].who]
      BY <1>1, <1>5, <1>8, FlowAnswer DEF OfFlow
    <3>3. replies'[i].op = "close" => closing' = closing BY <1>9, <1>10
    <3> QED BY <3>1, <3>2, <3>3 DEF Due, Confirmed
  <2>3. \A i, j \in Waiting' : OfFlow(queue'[i]) /\ OfFlow(queue'[j]) /\ queue'[i].who = queue'[j].who => i = j
    <3> SUFFICES ASSUME NEW i \in Waiting', NEW j \in Waiting', OfFlow(queue'[i]), OfFlow(queue'[j]),
                        queue'[i].who = queue'[j].who
                 PROVE  i = j
        OBVIOUS
    <3>1. CASE i \in Waiting /\ j \in Waiting
      <4>1. queue'[i] = queue[i] /\ queue'[j] = queue[j] BY <1>12, <3>1
      <4> QED BY <3>1, <4>1 DEF FlowsInv
    <3>2. ASSUME NEW k \in Waiting, NEW l \in Waiting', l \notin Waiting, OfFlow(queue'[k])
          PROVE  queue'[k].who # queue'[l].who
      <4>1. queue'[k] = queue[k] /\ queue'[k].who # r.who BY <1>8, <1>12, <3>2
      <4>2. queue'[l].who = r.who BY <1>11, <3>2
      <4> QED BY <4>1, <4>2
    <3> QED BY <1>13, <3>1, <3>2
  <2>4. \A i \in Waiting', j \in Coming' : OfFlow(queue'[i]) /\ OfFlow(replies'[j]) => queue'[i].who # replies'[j].who
    <3>1. \A i \in Waiting, j \in Coming' : OfFlow(queue[i]) /\ OfFlow(replies'[j]) => queue[i].who # replies'[j].who
      BY <1>1, TakenOnce
    <3> QED BY <1>8, <1>11, <3>1
  <2>5. \A i, j \in Coming' : OfFlow(replies'[i]) /\ OfFlow(replies'[j]) /\ replies'[i].who = replies'[j].who => i = j
    BY <1>1, TakenOnce
  <2>6. \A u \in Flows : save'[u].at = "no" => save'[u] = NoFlow BY <1>5 DEF FlowsInv
  <2>7. save'["close"].at # "no" => closing' = "saving"
    <3>1. CASE r.who = "close" BY <1>5, <3>1 DEF NoFlow
    <3>2. CASE r.who # "close" BY <1>4, <1>5, <3>2 DEF FlowsInv, Flows
    <3> QED BY <3>1, <3>2
  <2> QED BY <2>1, <2>2, <2>3, <2>4, <2>5, <2>6, <2>7 DEF FlowsInv, OfFlow, Confirmed
<1>18. NewerInv'
  <2> SUFFICES ASSUME NEW i \in Coming', IsCommit(replies'[i])
               PROVE  /\ 0 < replies'[i].rev /\ knownSaved' < replies'[i].rev
                      /\ \A t \in Flows : save'[t].rev < replies'[i].rev
                      /\ \A w \in Tasks : took[w].saved < replies'[i].rev
      BY <1>1, AnswersLead DEF NewerInv, IsCommit
  <2>1. PICK k \in Coming : replies'[i] = replies[k] BY <1>1 DEF Taken
  <2>2. /\ 0 < replies'[i].rev /\ knownSaved < replies'[i].rev
        /\ \A t \in Flows : save[t].rev < replies'[i].rev
        /\ \A w \in Tasks : took[w].saved < replies'[i].rev
    BY <2>1 DEF NewerInv
  <2>3. knownSaved' < replies'[i].rev BY <1>3, <1>7, <2>2
  <2>4. \A t \in Flows : save'[t].rev < replies'[i].rev BY <1>5, <2>2 DEF NoFlow
  <2> QED BY <2>2, <2>3, <2>4
<1>19. Behind => Behind' \/ Confirmed(r) BY DEF Behind
<1>20. ClosedInv' BY <1>1, <1>6, <1>19, TakenClosed
<1>21. OriginalInv'
  <2> SUFFICES ASSUME shown, known = 0 PROVE OriginalInv' BY DEF OriginalInv
  <2>1. \A t \in Flows : save'[t].rev = 0 BY <1>5 DEF OriginalInv, NoFlow
  <2> QED BY <1>1, <1>2, <1>6, <2>1, TakenOriginal DEF OriginalInv, IsCommit
<1>22. WebInv'
  <2>1. web => r.op # "confirm" BY <1>1 DEF Taken, WebInv
  <2>2. \A i \in Waiting' : queue'[i].op = "confirm" => i \in Waiting /\ queue'[i] = queue[i] BY <1>11
  <2>3. \A i \in Coming' : \E k \in Coming : replies'[i] = replies[k] BY <1>1 DEF Taken
  <2> QED BY <1>2, <2>1, <2>2, <2>3 DEF WebInv, Confirmed
<1>23. FileInv'
  <2>1. Confirming(queue') <=> Confirming(queue)
    BY <1>11, <1>12 DEF Confirming, Waiting
  <2>2. \A i \in Waiting' : LastConfirm(queue', i) => file = save'[queue'[i].who].text
    <3> SUFFICES ASSUME NEW i \in Waiting', LastConfirm(queue', i) PROVE file = save'[queue'[i].who].text
        OBVIOUS
    <3>1. i \in Waiting /\ queue'[i] = queue[i] BY <1>11 DEF LastConfirm
    <3>2. LastConfirm(queue, i) BY <1>12, <3>1 DEF LastConfirm, Waiting
    <3>3. save'[queue[i].who] = save[queue[i].who]
      BY <1>5, <1>8, <3>1, <3>2, FlowRequest DEF LastConfirm, OfFlow
    <3> QED BY <3>1, <3>2, <3>3 DEF FileInv
  <2>3. \A i \in Coming' : LastConfirm(replies', i) => save'[replies'[i].who] = save[replies'[i].who]
    BY <1>1, <1>5, <1>8, FlowAnswer DEF LastConfirm, OfFlow
  <2>4. ~Confirming(queue') => \A i \in Coming' : LastConfirm(replies', i) => file = save'[replies'[i].who].text
    BY <1>1, <2>1, <2>3, TakenConfirms DEF FileInv
  <2>5. ASSUME ~Confirming(queue'), ~Confirming(replies')
        PROVE  Behind' \/ \A v \in Versions' : v[1] = knownSaved' => v[2] = file
    <3>1. CASE r.op = "save"
      <4>1. ~Confirming(replies) /\ ~Confirmed(r) BY <1>1, <2>5, <3>1, TakenConfirms DEF Confirmed
      <4> QED BY <1>14, <1>19, <2>1, <2>5, <4>1 DEF FileInv
    <3>2. CASE Confirmed(r)
      <4>1. LastConfirm(replies, 1)
        <5>1. \A j \in Coming : 1 < j => \E i \in Coming' : replies'[i] = replies[j] BY <1>1 DEF Taken
        <5>2. \A i \in Coming' : replies'[i].op # "confirm" BY <2>5 DEF Confirming, Coming
        <5> QED BY <3>2, <5>1, <5>2 DEF LastConfirm, Coming, Confirmed
      <4>2. file = save[r.who].text BY <1>1, <2>1, <2>5, <4>1 DEF FileInv, Taken
      <4>3. \A v \in Versions : v[1] = r.rev => v[2] = file BY <1>7, <1>15, <3>2, <4>2 DEF VersionsInv
      <4> QED BY <1>14, <3>2, <4>3 DEF Behind
    <3>3. CASE r.op = "confirm" /\ ~r.ok
      <4>1. GoneBefore(1) BY <1>1, <3>3 DEF Taken, ClosedInv
      <4>2. \A i \in Coming : ~(i < 1) BY <1>1 DEF Taken
      <4>3. Behind BY <4>1, <4>2 DEF GoneBefore
      <4> QED BY <1>19, <3>3, <4>3 DEF Confirmed
    <3> QED BY <3>1, <3>2, <3>3 DEF Confirmed
  <2> QED BY <2>2, <2>4, <2>5 DEF FileInv
<1> QED BY <1>16, <1>17, <1>18, <1>20, <1>21, <1>22, <1>23

LEMMA DeliverSaves ==
  ASSUME Typed, SaveInv, Deliver
  PROVE  SaveInv'
<1> USE DEF shellVars, editVars
<1>1. PICK r \in Replies : r = Head(replies) /\ r = replies[1]
  BY HeadReply, MovesUp DEF Deliver, Typed, MessagesTyped
<1>2. CASE DeliverCommit(r) \/ DeliverFailure(r) \/ DeliverText(r)
  <2>1. ~OfFlow(r) BY <1>2 DEF DeliverCommit, DeliverFailure, DeliverText, OfFlow, Move
  <2> QED BY <1>1, <1>2, <2>1, DeliverEdit
<1>3. CASE DeliverSaved(r) /\ r.ok
  <2>1. r.op = "save" BY <1>3 DEF DeliverSaved
  <2> QED BY <1>1, <1>3, <2>1, DeliverBytes
<1>4. CASE DeliverSaved(r) /\ ~r.ok
  <2>1. /\ r.op = "save" /\ EndSave(r.who, FALSE, downloaded)
        /\ UNCHANGED << shown, known, knownText, knownSaved, took, stage, file >>
    BY <1>4 DEF DeliverSaved
  <2>2. r.ok = FALSE BY <1>4 DEF Replies
  <2> QED BY <1>1, <2>1, <2>2, DeliverEnd DEF Confirmed
<1>5. CASE DeliverConfirmed(r)
  <2>1. /\ r.op = "confirm" /\ EndSave(r.who, r.ok, downloaded)
        /\ knownSaved' = IF r.ok /\ shown THEN r.rev ELSE knownSaved
        /\ UNCHANGED << shown, known, knownText, took, stage, file >>
    BY <1>5 DEF DeliverConfirmed
  <2> QED BY <1>1, <2>1, DeliverEnd DEF Confirmed
<1>6. CASE DeliverClosed(r) BY <1>1, <1>6, DeliverGone
<1> QED BY <1>1, <1>2, <1>3, <1>4, <1>5, <1>6 DEF Deliver

--------------------------------------------------------------------------------
LEMMA InitSaves == Init => SaveInv
<1> SUFFICES ASSUME Init PROVE SaveInv OBVIOUS
<1> USE DEF SaveInv, Init
<1>1. Waiting = {} /\ Coming = {} /\ Len(replies) = 0 BY EmptySeq DEF Waiting, Coming
<1>2. revision = 0 /\ log = << >> /\ open = TRUE BY DEF CoreInit
<1>3. /\ \A t \in Flows : save[t] = NoFlow
      /\ \A w \in Tasks : took[w] = NoCommit /\ stage[w] = "new"
  OBVIOUS
<1>4. Versions = {<<0, << >> >>} BY <1>1, <1>2, <1>3 DEF Versions, NoFlow, NoCommit
<1>5. VersionsInv BY <1>2, <1>3, <1>4 DEF VersionsInv, NoCommit
<1>6. FlowsInv BY <1>1, <1>3 DEF FlowsInv, NoFlow, Flows
<1>7. NewerInv BY <1>1, <1>3 DEF NewerInv
<1>8. ClosedInv BY <1>1, <1>2 DEF ClosedInv
<1>9. OriginalInv BY <1>1, <1>2, <1>3 DEF OriginalInv, NoFlow
<1>10. WebInv BY <1>1, <1>3 DEF WebInv, NoCommit
<1>11. FileInv BY <1>1, <1>2, <1>4 DEF FileInv
<1> QED BY <1>5, <1>6, <1>7, <1>8, <1>9, <1>10, <1>11

LEMMA NextSaves == Typed /\ SaveInv /\ [Next]_vars => SaveInv'
<1> SUFFICES ASSUME Typed, SaveInv, [Next]_vars PROVE SaveInv' OBVIOUS
<1>1. CASE UNCHANGED vars
  <2>1. Other
    BY <1>1 DEF vars, coreVars, shellVars, busyVars, editVars, closeVars, saveVars, Other, Local
  <2> QED BY <2>1, OtherSaves
<1>2. CASE \/ \E e \in Manual : StartEdit(e) \/ EditLoaded(e)
           \/ \E m \in Move : MoveHistory(m)
           \/ \E a \in Applications : StartApply(a) \/ ReadSources(a) \/ PostApplication(a)
  <2>1. Other BY <1>2, EditsAreOther
  <2> QED BY <2>1, OtherSaves
<1>3. CASE StartSave \/ StartClose \/ AnswerPrompt BY <1>3, FlowsBegin
<1>4. CASE \E t \in Flows : HostAnswers(t) BY <1>4, HostSaves
<1>5. CASE Serve BY <1>5, ServeSaves
<1>6. CASE Deliver BY <1>6, DeliverSaves
<1>7. CASE \E w \in Tasks : Refresh(w) BY <1>7, RefreshSaves
<1> QED BY <1>1, <1>2, <1>3, <1>4, <1>5, <1>6, <1>7 DEF Next

\* A document the shell shows as saved is in the file as it was committed in the
\* revision the shell knows, once no save is under way, whatever was edited, saved,
\* undone, closed or put back meanwhile (saveCurrentDocument and updateSavedRevision in
\* EditorShell.tsx).
THEOREM SessionCleanMeansWritten == Spec => []CleanMeansWritten
<1>1. Typed /\ SaveInv => CleanMeansWritten
  <2> SUFFICES ASSUME Typed, SaveInv, shown, known = knownSaved, \A t \in Flows : save[t] = NoFlow
               PROVE  file = knownText
      BY DEF CleanMeansWritten
  <2> USE DEF SaveInv
  <2>1. ~Confirming(queue)
    <3> SUFFICES ASSUME NEW i \in Waiting, queue[i].op = "confirm" PROVE FALSE
        BY DEF Confirming, Waiting
    <3>1. queue[i].who \in Flows BY FlowRequest
    <3> QED BY <3>1 DEF FlowsInv, Due, NoFlow
  <2>2. ~Confirming(replies)
    <3> SUFFICES ASSUME NEW i \in Coming, replies[i].op = "confirm" PROVE FALSE
        BY DEF Confirming, Coming
    <3>1. replies[i].who \in Flows BY Numbers DEF Replies, Asks
    <3> QED BY <3>1 DEF FlowsInv, Due, NoFlow
  <2>3. ~Behind BY Numbers DEF Behind
  <2>4. <<known, knownText>> \in Versions BY DEF Versions
  <2> QED BY <2>1, <2>2, <2>3, <2>4 DEF FileInv
<1>2. Spec => []SaveInv
  <2>1. Init => SaveInv BY InitSaves
  <2>2. Typed /\ SaveInv /\ [Next]_vars => SaveInv' BY NextSaves
  <2> QED BY <2>1, <2>2, TypedHolds, PTL DEF Spec
<1> QED BY <1>1, <1>2, TypedHolds, PTL

================================================================================
