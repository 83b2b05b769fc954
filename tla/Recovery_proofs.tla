-------------------------- MODULE Recovery_proofs --------------------------
(***************************************************************************)
(* Proofs about Recovery, for any documents and any bounds.                *)
(*                                                                         *)
(* The manifest, the copy of it the start-up check scans and the copies    *)
(* the operations of the queue are about to write back all name revisions. *)
(* VersionsOf says that none of them is ahead of what the store or the     *)
(* engine can still give; LivesOf ties a document's life in the shell to   *)
(* the work under way for it; ClosedInv and CopiesInv say what the queue   *)
(* owes a closed document and what a copy of the manifest still equals.    *)
(***************************************************************************)
EXTENDS Recovery, SequenceTheorems, TLAPS

Steps == {"idle", "export", "snapshot", "remove", "read", "write"}
Task == [step : Steps, rev : Revisions, copy : Manifest]

\* The task that persists a document has exported it and still writes.
Writing(d) == task[<<"persist", d>>].step \in {"snapshot", "read", "write"}

\* The revisions that the manifest, or a copy of it held anywhere, gives a document.
Held(d) ==
  ({manifest[d], check.copy[d]} \cup {task[op].copy[d] : op \in Op}) \ {Absent}

\* No copy of the manifest gives the document more than x.
Within(d, x) == \A v \in Held(d) : v <= x

\* What is held of a document is covered by its snapshot, by the open document
\* and by the snapshot about to be written; a task does not lag what it wrote.
VersionsOf(d) ==
  LET persist == task[<<"persist", d>>] IN
  /\ snapshot[d] # Absent => Within(d, snapshot[d])
  /\ doc[d] = "open" => Within(d, revision[d])
  /\ persist.step = "snapshot" => Within(d, persist.rev)
  /\ persist.step \in {"read", "write"} /\ snapshot[d] # Absent => persist.rev <= snapshot[d]
  /\ Writing(d) /\ doc[d] = "open" => persist.rev <= revision[d]

VersionsInv == \A d \in Docs : VersionsOf(d)

\* A new document has no record; a listed one, or one the check scans, is closed
\* and not being written; nothing is written before the check has its manifest.
LivesOf(d) ==
  /\ doc[d] = "new" => snapshot[d] = Absent /\ Held(d) = {} /\ ~Writing(d)
  /\ d \in listed => doc[d] = "closed" /\ ~Writing(d) /\ check.phase = "done"
  /\ check.phase = "scan" /\ check.copy[d] # Absent => doc[d] = "closed" /\ ~Writing(d)
  /\ check.phase = "start" => /\ doc[d] \in {"new", "closed"} /\ ~Writing(d)
                              /\ ~check.prunes /\ check.copy[d] = Absent

LivesInv == \A d \in Docs : LivesOf(d)

\* A snapshot written for a closed document has its discard still in the queue.
ClosedInv ==
  \A d \in Docs : task[<<"persist", d>>].step = "snapshot" /\ doc[d] = "closed" =>
    \E i \in DOMAIN queue : queue[i] = <<"discard", d>>

\* While the store works, a copy about to be written is still the manifest.
CopiesInv ==
  \A op \in Op : task[op].step = "write" /\ faults = 0 /\ ~check.prunes
    => task[op].copy = manifest

\* The inductive invariant.
RecoveryInv == TypeOK /\ VersionsInv /\ LivesInv /\ ClosedInv /\ CopiesInv

\* Both kinds of operation of a document are operations.
LEMMA OpTypes ==
  ASSUME NEW d \in Docs
  PROVE  <<"persist", d>> \in Op /\ <<"discard", d>> \in Op
BY DEF Op

\* An operation persists or discards its document.
LEMMA OpCases ==
  ASSUME NEW op \in Op
  PROVE  /\ op[2] \in Docs /\ op[1] \in {"persist", "discard"} /\ op = <<op[1], op[2]>>
         /\ op = <<"persist", op[2]>> \/ op = <<"discard", op[2]>>
BY DEF Op

\* An idle task is a task, and holds no entry.
LEMMA NothingKnown ==
  /\ NoEntry \in Manifest /\ NoEntry = [d \in Docs |-> Absent]
  /\ Idle \in Task /\ Idle.step = "idle" /\ Idle.rev = 0 /\ Idle.copy = NoEntry
BY BoundsAssumption DEF NoEntry, Manifest, Idle, Task, Steps, Revisions

\* Replacing the state of the one running operation, or of any when none runs,
\* leaves the others idle.
LEMMA TaskChanges ==
  ASSUME TypeOK, NEW op \in Op, NEW t \in Task, task' = [task EXCEPT ![op] = t],
         task[op].step # "idle" \/ \A q \in Op : task[q].step = "idle"
  PROVE  /\ task' \in [Op -> Task] /\ task'[op] = t
         /\ \A q \in Op \ {op} : task'[q] = task[q] /\ task[q].step = "idle"
         /\ \A p, q \in Op : task'[p].step # "idle" /\ task'[q].step # "idle" => p = q
<1>1. task \in [Op -> Task] BY DEF TypeOK, Task, Steps
<1>2. \A q \in Op \ {op} : task[q].step = "idle" BY DEF TypeOK
<1>3. QED BY <1>1, <1>2

\* What is held is revisions, each from the manifest or from a copy.
LEMMA HeldTypes ==
  ASSUME TypeOK, NEW d \in Docs
  PROVE  /\ \A v \in Held(d) : v \in Nat
         /\ \A x : x \in Held(d) <=> x # Absent /\ (x = manifest[d] \/ x = check.copy[d]
              \/ \E op \in Op : x = task[op].copy[d])
BY BoundsAssumption DEF TypeOK, Held, Manifest, Revisions

\* A document whose records and task a step leaves alone keeps its invariants.
LEMMA OthersKept ==
  ASSUME NEW e \in Docs, VersionsOf(e), LivesOf(e), Held(e)' \subseteq Held(e),
         snapshot'[e] = snapshot[e], doc'[e] = doc[e], revision'[e] = revision[e],
         e \in listed' => e \in listed,
         task'[<<"persist", e>>].step = task[<<"persist", e>>].step,
         task'[<<"persist", e>>].rev = task[<<"persist", e>>].rev,
         check' = check
  PROVE  VersionsOf(e)' /\ LivesOf(e)'
<1>1. \A x : Within(e, x) => Within(e, x)' BY DEF Within
<1>2. Writing(e)' <=> Writing(e) BY DEF Writing
<1>3. VersionsOf(e)' BY <1>1, <1>2 DEF VersionsOf
<1>4. LivesOf(e)' BY <1>2 DEF LivesOf
<1>5. QED BY <1>3, <1>4

\* A task that copies the manifest, or forgets its copy, adds nothing held.
LEMMA CopiesKept ==
  ASSUME NEW op \in Op, NEW d \in Docs, manifest' = manifest, check' = check,
         \A q \in Op \ {op} : task'[q] = task[q],
         task'[op].copy[d] \in {task[op].copy[d], manifest[d], Absent}
  PROVE  Held(d)' \subseteq Held(d)
BY DEF Held

\* The editor starts with an empty store and nothing under way.
LEMMA InitHolds == Init => RecoveryInv
<1> SUFFICES ASSUME Init PROVE RecoveryInv OBVIOUS
<1>1. TypeOK
  BY BoundsAssumption, OpTypes DEF Init, Idle, NoCheck, NoEntry, TypeOK, Manifest, Revisions
<1>2. /\ \A op \in Op : task[op] = Idle
      /\ check.phase = "start" /\ ~check.prunes /\ check.copy = NoEntry /\ manifest = NoEntry
           /\ snapshot = NoEntry
      /\ listed = {} /\ \A d \in Docs : doc[d] = "new"
  BY DEF Init, NoCheck
<1>3. \A d \in Docs : Held(d) = {} /\ ~Writing(d)
  <2> SUFFICES ASSUME NEW d \in Docs PROVE Held(d) = {} /\ ~Writing(d) OBVIOUS
  <2>1. /\ manifest[d] = Absent /\ check.copy[d] = Absent
             /\ \A op \in Op : task[op].copy[d] = Absent
        /\ task[<<"persist", d>>].step = "idle"
    BY <1>2, NothingKnown, OpTypes
  <2>2. QED BY <2>1 DEF Held, Writing
<1>4. VersionsInv BY <1>2, <1>3, NothingKnown, OpTypes DEF VersionsInv, VersionsOf, Within
<1>5. LivesInv BY <1>2, <1>3, NothingKnown DEF LivesInv, LivesOf
<1>6. ClosedInv /\ CopiesInv BY <1>2, NothingKnown, OpTypes DEF ClosedInv, CopiesInv
<1>7. QED BY <1>1, <1>4, <1>5, <1>6 DEF RecoveryInv

\* Opening, editing, restoring and closing touch neither store nor queue.
LEMMA ShellKeeps ==
  ASSUME RecoveryInv, NEW d \in Docs, Open(d) \/ Edit(d) \/ Restore(d) \/ Close(d)
  PROVE  RecoveryInv'
<1> USE DEF RecoveryInv
<1>1. UNCHANGED <<snapshot, manifest, queue, task, check, faults, crashes>>
  BY DEF Open, Edit, Restore, Close, store
<1>2. TypeOK'
  <2>1. doc' \in [Docs -> {"new", "open", "closing", "closed"}] /\ listed' \subseteq Docs
    BY DEF TypeOK, Open, Edit, Restore, Close
  <2>2. revision' \in [Docs -> Revisions]
    BY BoundsAssumption DEF TypeOK, Open, Edit, Restore, Close, Manifest, Revisions
  <2>3. QED BY <1>1, <2>1, <2>2 DEF TypeOK
<1>3. \A e \in Docs : Held(e)' = Held(e) /\ (Writing(e)' <=> Writing(e)) BY <1>1 DEF Held, Writing
<1>4. VersionsInv' /\ LivesInv'
  <2> SUFFICES ASSUME NEW e \in Docs PROVE VersionsOf(e)' /\ LivesOf(e)'
    BY DEF VersionsInv, LivesInv
  <2>1. VersionsOf(e) /\ LivesOf(e) BY DEF VersionsInv, LivesInv
  <2>2. CASE e # d
    <3>1. doc'[e] = doc[e] /\ revision'[e] = revision[e] /\ (e \in listed' => e \in listed)
      BY <2>2 DEF Open, Edit, Restore, Close, TypeOK
    <3>2. QED BY <1>1, <1>3, <2>1, <3>1, OthersKept
  <2>3. CASE e = d
    <3>1. doc[d] # "closed" => d \notin listed BY <2>1, <2>3 DEF LivesOf
    <3>2. Held(d)' = Held(d) /\ (\A v \in Held(d) : v \in Nat) /\ (Writing(d)' <=> Writing(d))
      BY <1>3, HeldTypes
    <3>3. revision[d] \in Nat /\ (snapshot[d] # Absent => snapshot[d] \in Nat)
            /\ task[<<"persist", d>>].rev \in Nat
      <4>1. revision[d] \in Nat /\ (snapshot[d] # Absent => snapshot[d] \in Nat)
        BY BoundsAssumption DEF TypeOK, Manifest, Revisions
      <4>2. task[<<"persist", d>>] \in Task BY OpTypes DEF TypeOK, Task, Steps
      <4>3. QED BY <4>1, <4>2, BoundsAssumption DEF Task, Revisions
    <3>4. CASE Open(d)
      <4>1. Held(d) = {} /\ ~Writing(d) /\ snapshot[d] = Absent /\ doc'[d] = "open"
              /\ d \notin listed /\ listed' = listed /\ check.phase # "start"
           BY <2>1, <2>3, <3>1, <3>4 DEF Open, LivesOf, TypeOK
      <4>2. check.copy[d] = Absent \/ check.copy[d] \in Held(d) BY DEF Held
      <4>3. VersionsOf(d)' BY <1>1, <3>2, <4>1 DEF VersionsOf, Within, Writing
      <4>4. LivesOf(d)' BY <1>1, <3>2, <4>1, <4>2 DEF LivesOf
      <4>5. QED BY <2>3, <4>3, <4>4
    <3>5. CASE Edit(d)
      <4>1. doc[d] = "open" /\ doc' = doc /\ listed' = listed /\ revision'[d] = revision[d] + 1
           BY <3>5 DEF Edit, TypeOK
      <4>3. VersionsOf(d)' BY <1>1, <2>1, <2>3, <3>2, <3>3, <4>1 DEF VersionsOf, Within, Writing
      <4>4. LivesOf(d)' BY <1>1, <2>1, <2>3, <3>2, <4>1 DEF LivesOf
      <4>5. QED BY <2>3, <4>3, <4>4
    <3>6. CASE Restore(d)
      <4>1. doc'[d] = "open" /\ d \in listed /\ d \notin listed'
              /\ revision'[d] = snapshot[d] /\ snapshot[d] # Absent
           BY <3>6 DEF Restore, TypeOK
      <4>2. ~Writing(d) /\ check.phase = "done" BY <2>1, <2>3, <4>1 DEF LivesOf
      <4>3. VersionsOf(d)'
        BY <1>1, <2>1, <2>3, <3>2, <3>3, <4>1, <4>2 DEF VersionsOf, Within, Writing
      <4>4. LivesOf(d)' BY <1>1, <2>1, <2>3, <3>2, <4>1, <4>2 DEF LivesOf
      <4>5. QED BY <2>3, <4>3, <4>4
    <3>7. CASE Close(d)
      <4>1. doc[d] = "open" /\ doc'[d] = "closing" /\ listed' = listed /\ revision' = revision
           BY <3>7 DEF Close, TypeOK
      <4>2. d \notin listed /\ check.phase # "start" /\ ~(check.phase = "scan"
              /\ check.copy[d] # Absent)
           BY <2>1, <2>3, <4>1 DEF LivesOf
      <4>3. VersionsOf(d)' BY <1>1, <2>1, <2>3, <3>2, <4>1 DEF VersionsOf, Within, Writing
      <4>4. LivesOf(d)' BY <1>1, <2>1, <2>3, <3>2, <4>1, <4>2 DEF LivesOf
      <4>5. QED BY <2>3, <4>3, <4>4
    <3>8. QED BY <2>3, <3>4, <3>5, <3>6, <3>7
  <2>4. QED BY <2>2, <2>3
<1>5. ClosedInv'
  <2>1. \A e \in Docs : doc'[e] = "closed" => doc[e] = "closed"
    BY DEF Open, Edit, Restore, Close, TypeOK
  <2>2. QED BY <1>1, <2>1 DEF ClosedInv
<1>6. CopiesInv' BY <1>1 DEF CopiesInv
<1>7. QED BY <1>2, <1>4, <1>5, <1>6

\* enqueueRecoveryOperation appends: what waited still waits, in its place.
LEMMA EnqueueFacts ==
  ASSUME TypeOK, NEW op \in Op, Enqueue(op)
  PROVE  /\ queue' \in Seq(Op) /\ Len(queue') <= MaxQueue
         /\ DOMAIN queue \subseteq DOMAIN queue' /\ \A i \in DOMAIN queue : queue'[i] = queue[i]
         /\ \E i \in DOMAIN queue' : queue'[i] = op
<1>1. queue \in Seq(Op) /\ queue' = Append(queue, op) /\ Len(queue) < MaxQueue
  BY DEF TypeOK, Enqueue
<1>2. /\ queue' \in Seq(Op) /\ Len(queue') = Len(queue) + 1
      /\ \A i \in 1..Len(queue) : queue'[i] = queue[i]
      /\ queue'[Len(queue) + 1] = op
  BY <1>1, AppendProperties
<1>3. DOMAIN queue = 1..Len(queue) /\ DOMAIN queue' = 1..Len(queue') /\ Len(queue) \in Nat
  BY <1>1, <1>2, LenProperties
<1>4. QED BY <1>1, <1>2, <1>3, BoundsAssumption

\* Asking for a persist or a discard.
LEMMA QueueKeeps ==
  ASSUME RecoveryInv, NEW d \in Docs, Persist(d) \/ Discard(d)
  PROVE  RecoveryInv'
<1> USE DEF RecoveryInv
<1> DEFINE op == IF Persist(d) THEN <<"persist", d>> ELSE <<"discard", d>>
<1>1. UNCHANGED <<snapshot, manifest, listed, revision, task, check, faults, crashes>>
  BY DEF Persist, Discard, store, shell
<1>2. op \in Op /\ Enqueue(op) BY OpTypes DEF Persist, Discard
<1> HIDE DEF op
<1>3. /\ queue' \in Seq(Op) /\ Len(queue') <= MaxQueue
      /\ DOMAIN queue \subseteq DOMAIN queue' /\ \A i \in DOMAIN queue : queue'[i] = queue[i]
  BY <1>2, EnqueueFacts
<1>4. /\ doc' \in [Docs -> {"new", "open", "closing", "closed"}]
      /\ \A e \in Docs : doc'[e] = doc[e] \/ (Discard(d) /\ e = d /\ doc[e] = "closing"
           /\ doc'[e] = "closed")
  BY DEF Persist, Discard, shell, TypeOK
<1>5. TypeOK' BY <1>1, <1>3, <1>4 DEF TypeOK
<1>6. \A e \in Docs : Held(e)' = Held(e) /\ (Writing(e)' <=> Writing(e)) BY <1>1 DEF Held, Writing
<1>7. VersionsInv' /\ LivesInv'
  <2> SUFFICES ASSUME NEW e \in Docs PROVE VersionsOf(e)' /\ LivesOf(e)'
    BY DEF VersionsInv, LivesInv
  <2>1. VersionsOf(e) /\ LivesOf(e) BY DEF VersionsInv, LivesInv
  <2>2. CASE doc'[e] = doc[e] BY <1>1, <1>6, <2>1, <2>2, OthersKept
  <2>3. CASE doc[e] = "closing" /\ doc'[e] = "closed"
    <3>1. VersionsOf(e)' BY <1>1, <1>6, <2>1, <2>3 DEF VersionsOf, Within
    <3>2. LivesOf(e)' BY <1>1, <1>6, <2>1, <2>3 DEF LivesOf
    <3>3. QED BY <3>1, <3>2
  <2>4. QED BY <1>4, <2>2, <2>3
<1>8. ClosedInv'
  <2> SUFFICES ASSUME NEW e \in Docs, task'[<<"persist", e>>].step = "snapshot", doc'[e] = "closed"
               PROVE  \E i \in DOMAIN queue' : queue'[i] = <<"discard", e>>
    BY DEF ClosedInv
  <2>1. CASE doc[e] = "closed" BY <1>1, <1>3, <2>1 DEF ClosedInv
  <2>2. CASE Discard(d) /\ e = d
    <3>1. Enqueue(<<"discard", d>>) BY <2>2 DEF Discard
    <3>2. QED BY <2>2, <3>1, OpTypes, EnqueueFacts
  <2>3. QED BY <1>4, <2>1, <2>2
<1>9. CopiesInv' BY <1>1 DEF CopiesInv
<1>10. QED BY <1>5, <1>7, <1>8, <1>9

\* The next operation starts when none runs, so nothing is being written.
LEMMA StartKeeps ==
  ASSUME RecoveryInv, Start
  PROVE  RecoveryInv'
<1> USE DEF RecoveryInv
<1> DEFINE op == Head(queue)
           s == IF op[1] = "persist" THEN "export" ELSE "remove"
           t == [task[op] EXCEPT !.step = s]
<1>1. /\ UNCHANGED <<snapshot, manifest, doc, listed, revision, check, faults, crashes>>
      /\ queue # <<>> /\ queue' = Tail(queue) /\ \A q \in Op : task[q].step = "idle"
      /\ task' = [task EXCEPT ![op].step = s]
  BY DEF Start, Begin, Goto, store, shell
<1>2. op \in Op /\ queue' \in Seq(Op) /\ Len(queue') = Len(queue) - 1 /\ Len(queue) \in Nat
  BY <1>1, HeadTailProperties, LenProperties DEF TypeOK
<1>3. t \in Task /\ t.step \in {"export", "remove"} /\ t.copy = task[op].copy
        /\ task' = [task EXCEPT ![op] = t]
  BY <1>1, <1>2 DEF TypeOK, Task, Steps
<1> HIDE DEF op, s, t
<1>4. /\ task' \in [Op -> Task] /\ task'[op] = t
      /\ \A q \in Op \ {op} : task'[q] = task[q] /\ task[q].step = "idle"
      /\ \A p, q \in Op : task'[p].step # "idle" /\ task'[q].step # "idle" => p = q
  BY <1>1, <1>2, <1>3, TaskChanges
<1>5. TypeOK'
  <2>1. Len(queue') <= MaxQueue BY <1>2, BoundsAssumption DEF TypeOK
  <2>2. QED BY <1>1, <1>2, <1>4, <2>1 DEF TypeOK, Task, Steps
<1>6. \A q \in Op : task'[q].step \in {"idle", "export", "remove"} /\ task'[q].copy = task[q].copy
  BY <1>2, <1>3, <1>4
<1>7. \A e \in Docs : Held(e)' = Held(e) /\ ~Writing(e)' /\ ~Writing(e)
  <2> SUFFICES ASSUME NEW e \in Docs PROVE Held(e)' = Held(e) /\ ~Writing(e)'
        /\ ~Writing(e) OBVIOUS
  <2>1. Held(e)' = Held(e) BY <1>1, <1>6 DEF Held
  <2>2. ~Writing(e)' /\ ~Writing(e) BY <1>1, <1>6, OpTypes DEF Writing
  <2>3. QED BY <2>1, <2>2
<1>8. VersionsInv' BY <1>1, <1>7, OpTypes DEF VersionsInv, VersionsOf, Within, Writing
<1>9. LivesInv' BY <1>1, <1>7 DEF LivesInv, LivesOf
<1>10. ClosedInv' /\ CopiesInv' BY <1>6, OpTypes DEF ClosedInv, CopiesInv
<1>11. QED BY <1>5, <1>8, <1>9, <1>10

\* One step of an operation of the queue.
LEMMA StepTypes ==
  ASSUME TypeOK, NEW op \in Op, NEW t \in Task, task[op].step # "idle",
           task' = [task EXCEPT ![op] = t],
         snapshot' \in Manifest, manifest' \in Manifest, listed' \subseteq Docs,
           faults' \in 0..MaxFaults,
         UNCHANGED <<doc, revision, queue, check, crashes>>
  PROVE  /\ TypeOK'
         /\ task'[op] = t
         /\ \A q \in Op \ {op} : task'[q] = task[q] /\ task[q].step = "idle"
<1>1. /\ task' \in [Op -> Task] /\ task'[op] = t
      /\ \A q \in Op \ {op} : task'[q] = task[q] /\ task[q].step = "idle"
      /\ \A p, q \in Op : task'[p].step # "idle" /\ task'[q].step # "idle" => p = q
  BY TaskChanges
<1>2. TypeOK' BY <1>1 DEF TypeOK, Task, Steps
<1>3. QED BY <1>1, <1>2

\* An access that fails counts, so while none has, none did now.
LEMMA FaultTypes ==
  ASSUME TypeOK, Fault \/ NoFault
  PROVE  faults' \in 0..MaxFaults /\ (faults' = 0 => faults = 0 /\ NoFault)
BY BoundsAssumption DEF TypeOK, Fault, NoFault

\* An operation that is rejected, or over, holds nothing any more.
LEMMA TaskOver ==
  ASSUME RecoveryInv, NEW op \in Op, task[op].step # "idle", Reject(op), Fault \/ NoFault,
         UNCHANGED <<snapshot, manifest, doc, revision, queue, check, crashes>>,
           listed' \subseteq listed
  PROVE  RecoveryInv'
<1> USE DEF RecoveryInv
<1>1. Idle \in Task /\ task' = [task EXCEPT ![op] = Idle] /\ Idle.step = "idle"
        /\ \A e \in Docs : Idle.copy[e] = Absent
  BY NothingKnown DEF Reject
<1>2. TypeOK' /\ task'[op] = Idle /\ \A q \in Op \ {op} : task'[q] = task[q]
  <2>1. snapshot' \in Manifest /\ manifest' \in Manifest /\ listed' \subseteq Docs BY DEF TypeOK
  <2>2. faults' \in 0..MaxFaults BY FaultTypes
  <2>3. QED BY <1>1, <2>1, <2>2, StepTypes
<1>3. \A e \in Docs : Held(e)' \subseteq Held(e) BY <1>1, <1>2, CopiesKept
<1>4. VersionsInv' /\ LivesInv'
  <2> SUFFICES ASSUME NEW e \in Docs PROVE VersionsOf(e)' /\ LivesOf(e)'
    BY DEF VersionsInv, LivesInv
  <2>1. VersionsOf(e) /\ LivesOf(e) BY DEF VersionsInv, LivesInv
  <2>2. CASE op # <<"persist", e>>
    <3>1. task'[<<"persist", e>>] = task[<<"persist", e>>] BY <1>2, <2>2, OpTypes
    <3>2. QED BY <1>3, <2>1, <3>1, OthersKept
  <2>3. CASE op = <<"persist", e>>
    <3>1. ~Writing(e)' /\ task'[<<"persist", e>>].step = "idle" BY <1>1, <1>2, <2>3 DEF Writing
    <3>2. VersionsOf(e)' BY <1>3, <2>1, <3>1 DEF VersionsOf, Within
    <3>3. LivesOf(e)' BY <1>3, <2>1, <3>1 DEF LivesOf
    <3>4. QED BY <3>2, <3>3
  <2>4. QED BY <2>2, <2>3
<1>5. ClosedInv' BY <1>1, <1>2, OpTypes DEF ClosedInv
<1>6. CopiesInv' BY <1>1, <1>2, FaultTypes DEF CopiesInv
<1>7. QED BY <1>2, <1>4, <1>5, <1>6

\* The engine exports an open document at its current revision, or refuses.
LEMMA ExportKeeps ==
  ASSUME RecoveryInv, NEW d \in Docs, Export(d)
  PROVE  RecoveryInv'
<1> DEFINE op == <<"persist", d>>
<1> USE DEF RecoveryInv
<1>1. op \in Op /\ task[op] \in Task /\ task[op].step = "export" /\ task \in [Op -> Task]
  BY OpTypes DEF Export, TypeOK, Task, Steps
<1>2. UNCHANGED <<snapshot, manifest, doc, listed, revision, queue, check, faults, crashes>>
  BY DEF Export, store, shell
<1>3. CASE doc[d] = "open" /\ task' = [task EXCEPT ![op] = [@ EXCEPT !.step = "snapshot", !.rev = revision[d]]]
  <2> DEFINE t == [task[op] EXCEPT !.step = "snapshot", !.rev = revision[d]]
  <2>1. t \in Task /\ t.step = "snapshot" /\ t.rev = revision[d] /\ t.copy = task[op].copy
    BY <1>1 DEF Task, Steps, TypeOK
  <2>2. task' = [task EXCEPT ![op] = t] BY <1>3
  <2> HIDE DEF t
  <2>3. TypeOK' /\ task'[op] = t /\ \A q \in Op \ {op} : task'[q] = task[q]
    <3>1. snapshot' \in Manifest /\ manifest' \in Manifest /\ listed' \subseteq Docs
            /\ faults' \in 0..MaxFaults
      BY <1>2 DEF TypeOK
    <3>2. QED BY <1>1, <1>2, <2>1, <2>2, <3>1, StepTypes
  <2>4. \A e \in Docs : Held(e)' \subseteq Held(e) BY <1>1, <1>2, <2>1, <2>3, CopiesKept
  <2>5. VersionsInv' /\ LivesInv'
    <3> SUFFICES ASSUME NEW e \in Docs PROVE VersionsOf(e)' /\ LivesOf(e)'
      BY DEF VersionsInv, LivesInv
    <3>1. VersionsOf(e) /\ LivesOf(e) BY DEF VersionsInv, LivesInv
    <3>2. CASE e # d
      <4>1. task'[<<"persist", e>>] = task[<<"persist", e>>] BY <2>3, <3>2, OpTypes
      <4>2. QED BY <1>2, <2>4, <3>1, <4>1, OthersKept
    <3>3. CASE e = d
      <4>1. task'[<<"persist", e>>].step = "snapshot"
              /\ task'[<<"persist", e>>].rev = revision[e] /\ revision[e] \in Nat
        BY <2>1, <2>3, <3>3, BoundsAssumption DEF TypeOK, Revisions
      <4>2. VersionsOf(e)' BY <1>2, <1>3, <2>4, <3>1, <3>3, <4>1 DEF VersionsOf, Within
      <4>3. d \notin listed /\ check.phase # "start" /\ ~(check.phase = "scan"
              /\ check.copy[d] # Absent)
        BY <1>3, <3>1, <3>3 DEF LivesOf
      <4>4. LivesOf(e)' BY <1>2, <1>3, <3>3, <4>3 DEF LivesOf
      <4>5. QED BY <4>2, <4>4
    <3>4. QED BY <3>2, <3>3
  <2>6. ClosedInv' BY <1>2, <1>3, <2>3, OpTypes DEF ClosedInv
  <2>7. CopiesInv' BY <1>2, <2>1, <2>3 DEF CopiesInv
  <2>8. QED BY <2>3, <2>5, <2>6, <2>7
<1>4. CASE Reject(op)
  BY <1>1, <1>2, <1>4, TaskOver DEF NoFault
<1>5. QED BY <1>3, <1>4 DEF Export

\* The snapshot takes the exported revision, which covers every copy held.
LEMMA WriteSnapshotKeeps ==
  ASSUME RecoveryInv, NEW d \in Docs, WriteSnapshot(d)
  PROVE  RecoveryInv'
<1> DEFINE op == <<"persist", d>>
<1> USE DEF RecoveryInv
<1>1. op \in Op /\ task[op] \in Task /\ task[op].step = "snapshot" /\ task \in [Op -> Task]
  BY OpTypes DEF WriteSnapshot, TypeOK, Task, Steps
<1>2. UNCHANGED <<manifest, doc, listed, revision, queue, check, crashes>>
  BY DEF WriteSnapshot, shell
<1>3. CASE NoFault /\ task' = [task EXCEPT ![op].step = "read"]
             /\ snapshot' = [snapshot EXCEPT ![d] = task[op].rev]
  <2> DEFINE t == [task[op] EXCEPT !.step = "read"]
  <2>1. t \in Task /\ t.step = "read" /\ t.rev = task[op].rev /\ t.copy = task[op].copy
          /\ task' = [task EXCEPT ![op] = t]
    BY <1>1, <1>3 DEF Task, Steps, TypeOK
  <2> HIDE DEF t
  <2>2. task[op].rev \in Revisions /\ task[op].rev \in Nat /\ task[op].rev # Absent
    BY <1>1, BoundsAssumption DEF Task, Revisions
  <2>3. TypeOK' /\ task'[op] = t /\ \A q \in Op \ {op} : task'[q] = task[q]
    <3>1. snapshot' \in Manifest BY <1>3, <2>2 DEF TypeOK, Manifest
    <3>2. manifest' \in Manifest /\ listed' \subseteq Docs BY <1>2 DEF TypeOK
    <3>3. faults' \in 0..MaxFaults BY <1>3, FaultTypes
    <3>4. QED BY <1>1, <1>2, <2>1, <3>1, <3>2, <3>3, StepTypes
  <2>4. \A e \in Docs : Held(e)' \subseteq Held(e) BY <1>1, <1>2, <2>1, <2>3, CopiesKept
  <2>5. VersionsInv' /\ LivesInv'
    <3> SUFFICES ASSUME NEW e \in Docs PROVE VersionsOf(e)' /\ LivesOf(e)'
      BY DEF VersionsInv, LivesInv
    <3>1. VersionsOf(e) /\ LivesOf(e) BY DEF VersionsInv, LivesInv
    <3>2. CASE e # d
      <4>1. task'[<<"persist", e>>] = task[<<"persist", e>>] BY <2>3, <3>2, OpTypes
      <4>2. snapshot'[e] = snapshot[e] BY <1>3, <3>2 DEF TypeOK, Manifest
      <4>3. QED BY <1>2, <2>4, <3>1, <4>1, <4>2, OthersKept
    <3>3. CASE e = d
      <4>1. task'[<<"persist", e>>].step = "read"
              /\ task'[<<"persist", e>>].rev = task[<<"persist", e>>].rev
            /\ snapshot'[e] = task[<<"persist", e>>].rev /\ Writing(e) /\ Writing(e)'
        BY <1>1, <1>3, <2>1, <2>3, <3>3 DEF TypeOK, Manifest, Writing
      <4>2. VersionsOf(e)' BY <1>1, <1>2, <2>2, <2>4, <3>1, <3>3, <4>1 DEF VersionsOf, Within
      <4>3. LivesOf(e)' BY <1>2, <3>1, <4>1 DEF LivesOf
      <4>4. QED BY <4>2, <4>3
    <3>4. QED BY <3>2, <3>3
  <2>6. ClosedInv' BY <1>2, <2>1, <2>3, OpTypes DEF ClosedInv
  <2>7. CopiesInv' BY <1>2, <1>3, <2>1, <2>3 DEF CopiesInv, NoFault
  <2>8. QED BY <2>3, <2>5, <2>6, <2>7
<1>4. CASE Fault /\ Reject(op) /\ UNCHANGED snapshot
  BY <1>1, <1>2, <1>4, TaskOver
<1>5. QED BY <1>3, <1>4 DEF WriteSnapshot, Goto

\* The snapshot of a discarded document goes first.
LEMMA RemoveSnapshotKeeps ==
  ASSUME RecoveryInv, NEW d \in Docs, RemoveSnapshot(d)
  PROVE  RecoveryInv'
<1> DEFINE op == <<"discard", d>>
<1> USE DEF RecoveryInv
<1>1. op \in Op /\ task[op] \in Task /\ task[op].step = "remove" /\ task \in [Op -> Task]
  BY OpTypes DEF RemoveSnapshot, TypeOK, Task, Steps
<1>2. UNCHANGED <<manifest, doc, listed, revision, queue, check, crashes>>
  BY DEF RemoveSnapshot, shell
<1>3. CASE NoFault /\ task' = [task EXCEPT ![op].step = "read"]
             /\ snapshot' = [snapshot EXCEPT ![d] = Absent]
  <2> DEFINE t == [task[op] EXCEPT !.step = "read"]
  <2>1. t \in Task /\ t.step = "read" /\ t.copy = task[op].copy /\ task' = [task EXCEPT ![op] = t]
    BY <1>1, <1>3 DEF Task, Steps, TypeOK
  <2> HIDE DEF t
  <2>3. TypeOK' /\ task'[op] = t /\ \A q \in Op \ {op} : task'[q] = task[q]
    <3>1. snapshot' \in Manifest BY <1>3 DEF TypeOK, Manifest
    <3>2. manifest' \in Manifest /\ listed' \subseteq Docs BY <1>2 DEF TypeOK
    <3>3. faults' \in 0..MaxFaults BY <1>3, FaultTypes
    <3>4. QED BY <1>1, <1>2, <2>1, <3>1, <3>2, <3>3, StepTypes
  <2>4. \A e \in Docs : Held(e)' \subseteq Held(e) BY <1>1, <1>2, <2>1, <2>3, CopiesKept
  <2>5. VersionsInv' /\ LivesInv'
    <3> SUFFICES ASSUME NEW e \in Docs PROVE VersionsOf(e)' /\ LivesOf(e)'
      BY DEF VersionsInv, LivesInv
    <3>1. VersionsOf(e) /\ LivesOf(e) BY DEF VersionsInv, LivesInv
    <3>2. task'[<<"persist", e>>] = task[<<"persist", e>>] BY <2>3, OpTypes
    <3>3. CASE e # d
      <4>1. snapshot'[e] = snapshot[e] BY <1>3, <3>3 DEF TypeOK, Manifest
      <4>2. QED BY <1>2, <2>4, <3>1, <3>2, <4>1, OthersKept
    <3>4. CASE e = d
      <4>1. snapshot'[e] = Absent BY <1>3, <3>4 DEF TypeOK, Manifest
      <4>2. VersionsOf(e)' BY <1>2, <2>4, <3>1, <3>2, <4>1 DEF VersionsOf, Within, Writing
      <4>3. LivesOf(e)' BY <1>2, <2>4, <3>1, <3>2, <4>1 DEF LivesOf, Writing
      <4>4. QED BY <4>2, <4>3
    <3>5. QED BY <3>3, <3>4
  <2>6. ClosedInv' BY <1>2, <2>1, <2>3, OpTypes DEF ClosedInv
  <2>7. CopiesInv' BY <1>2, <1>3, <2>1, <2>3 DEF CopiesInv, NoFault
  <2>8. QED BY <2>3, <2>5, <2>6, <2>7
<1>4. CASE Fault /\ Reject(op) /\ UNCHANGED snapshot
  BY <1>1, <1>2, <1>4, TaskOver
<1>5. QED BY <1>3, <1>4 DEF RemoveSnapshot, Goto

\* The operation copies the manifest, or finds it unreadable and starts empty.
LEMMA ReadManifestKeeps ==
  ASSUME RecoveryInv, NEW op \in Op, ReadManifest(op)
  PROVE  RecoveryInv'
<1> USE DEF RecoveryInv
<1>1. task[op] \in Task /\ task[op].step = "read" /\ task \in [Op -> Task]
  BY DEF ReadManifest, TypeOK, Task, Steps
<1>2. UNCHANGED <<snapshot, manifest, doc, listed, revision, queue, check, crashes>>
        /\ (Fault \/ NoFault)
  BY DEF ReadManifest, store, shell
<1>3. PICK copy \in {manifest, NoEntry} :
        /\ task' = [task EXCEPT ![op] = [@ EXCEPT !.step = "write", !.copy = copy]]
        /\ IF copy = manifest THEN NoFault ELSE Fault
  BY DEF ReadManifest
<1> DEFINE t == [task[op] EXCEPT !.step = "write", !.copy = copy]
<1>4. copy \in Manifest BY NothingKnown DEF TypeOK
<1>5. t \in Task /\ t.step = "write" /\ t.rev = task[op].rev /\ t.copy = copy
        /\ task' = [task EXCEPT ![op] = t]
  BY <1>1, <1>3, <1>4 DEF Task, Steps
<1> HIDE DEF t
<1>6. TypeOK' /\ task'[op] = t /\ \A q \in Op \ {op} : task'[q] = task[q] /\ task[q].step = "idle"
  <2>1. snapshot' \in Manifest /\ manifest' \in Manifest /\ listed' \subseteq Docs
    BY <1>2 DEF TypeOK
  <2>2. faults' \in 0..MaxFaults BY <1>2, FaultTypes
  <2>3. QED BY <1>1, <1>2, <1>5, <2>1, <2>2, StepTypes
<1>7. \A e \in Docs : Held(e)' \subseteq Held(e)
  <2> SUFFICES ASSUME NEW e \in Docs PROVE Held(e)' \subseteq Held(e) OBVIOUS
  <2>1. task'[op].copy[e] \in {manifest[e], Absent} BY <1>3, <1>5, <1>6, NothingKnown
  <2>2. QED BY <1>2, <1>6, <2>1, CopiesKept
<1>8. VersionsInv' /\ LivesInv'
  <2> SUFFICES ASSUME NEW e \in Docs PROVE VersionsOf(e)' /\ LivesOf(e)'
    BY DEF VersionsInv, LivesInv
  <2>1. VersionsOf(e) /\ LivesOf(e) BY DEF VersionsInv, LivesInv
  <2>2. CASE op # <<"persist", e>>
    <3>1. task'[<<"persist", e>>] = task[<<"persist", e>>] BY <1>6, <2>2, OpTypes
    <3>2. QED BY <1>2, <1>7, <2>1, <3>1, OthersKept
  <2>3. CASE op = <<"persist", e>>
    <3>1. /\ task'[<<"persist", e>>].step = "write"
               /\ task'[<<"persist", e>>].rev = task[<<"persist", e>>].rev
          /\ task[<<"persist", e>>].step = "read" /\ Writing(e) /\ Writing(e)'
      BY <1>1, <1>5, <1>6, <2>3 DEF Writing
    <3>2. VersionsOf(e)' BY <1>2, <1>7, <2>1, <3>1 DEF VersionsOf, Within
    <3>3. LivesOf(e)' BY <1>2, <2>1, <3>1 DEF LivesOf
    <3>4. QED BY <3>2, <3>3
  <2>4. QED BY <2>2, <2>3
<1>9. ClosedInv' BY <1>2, <1>5, <1>6, OpTypes DEF ClosedInv
<1>10. CopiesInv'
  <2>1. faults' = 0 => copy = manifest BY <1>3, FaultTypes DEF Fault, TypeOK
  <2>2. QED BY <1>2, <1>5, <1>6, <2>1 DEF CopiesInv
<1>11. QED BY <1>6, <1>8, <1>9, <1>10

\* NewManifest changes the operation's own entry of its copy, and no other.
LEMMA NewManifestTypes ==
  ASSUME TypeOK, NEW op \in Op
  PROVE  /\ NewManifest(op) \in Manifest
         /\ \A e \in Docs \ {op[2]} : NewManifest(op)[e] = task[op].copy[e]
         /\ NewManifest(op)[op[2]] = IF op[1] = "persist" THEN task[op].rev ELSE Absent
<1>1. task[op] \in Task BY DEF TypeOK, Task, Steps
<1>2. QED BY <1>1, OpCases DEF NewManifest, Task, Manifest

\* What is written is what the operation held, and its own exported revision.
LEMMA WriteManifestKeeps ==
  ASSUME RecoveryInv, NEW op \in Op, WriteManifest(op)
  PROVE  RecoveryInv'
<1> USE DEF RecoveryInv
<1>1. task[op] \in Task /\ task[op].step = "write" /\ task \in [Op -> Task]
  BY DEF WriteManifest, TypeOK, Task, Steps
<1>2. UNCHANGED <<snapshot, doc, revision, queue, check, crashes>> /\ Reject(op)
  BY DEF WriteManifest
<1>3. CASE Fault /\ UNCHANGED <<manifest, listed>>
  BY <1>1, <1>2, <1>3, TaskOver
<1>4. CASE /\ NoFault
           /\ manifest' \in {manifest, NewManifest(op)} /\ listed' \subseteq listed
  <2>1. Idle \in Task /\ task' = [task EXCEPT ![op] = Idle] /\ Idle.step = "idle"
          /\ \A e \in Docs : Idle.copy[e] = Absent
    BY <1>2, NothingKnown DEF Reject
  <2>2. TypeOK' /\ task'[op] = Idle /\ \A q \in Op \ {op} : task'[q] = task[q]
          /\ task[q].step = "idle"
    <3>1. snapshot' \in Manifest /\ manifest' \in Manifest /\ listed' \subseteq Docs
      BY <1>2, <1>4, NewManifestTypes DEF TypeOK
    <3>2. faults' \in 0..MaxFaults BY <1>4, FaultTypes
    <3>3. QED BY <1>1, <1>2, <2>1, <3>1, <3>2, StepTypes
  <2>3. ASSUME NEW e \in Docs, NEW x, x \in Held(e)'
        PROVE  x \in Held(e) \/ (op = <<"persist", e>> /\ x = task[op].rev)
    <3>1. \A q \in Op : task'[q].copy[e] \in {task[q].copy[e], Absent} BY <2>1, <2>2
    <3>2. \/ manifest'[e] \in {manifest[e], task[op].copy[e], Absent}
          \/ op = <<"persist", e>> /\ manifest'[e] = task[op].rev
      BY <1>4, NewManifestTypes, OpCases
    <3>3. x # Absent /\ (x = manifest'[e] \/ x = check'.copy[e]
            \/ \E q \in Op : x = task'[q].copy[e])
      BY <2>2, <2>3, HeldTypes DEF Held
    <3>4. QED BY <1>2, <3>1, <3>2, <3>3 DEF Held
  <2>4. VersionsInv' /\ LivesInv'
    <3> SUFFICES ASSUME NEW e \in Docs PROVE VersionsOf(e)' /\ LivesOf(e)'
      BY DEF VersionsInv, LivesInv
    <3>1. VersionsOf(e) /\ LivesOf(e) BY DEF VersionsInv, LivesInv
    <3>2. CASE op # <<"persist", e>>
      <4>1. task'[<<"persist", e>>] = task[<<"persist", e>>] BY <2>2, <3>2, OpTypes
      <4>2. Held(e)' \subseteq Held(e) BY <2>3, <3>2
      <4>3. QED BY <1>2, <1>4, <3>1, <4>1, <4>2, OthersKept
    <3>3. CASE op = <<"persist", e>>
      <4>1. ~Writing(e)' /\ task'[<<"persist", e>>].step = "idle" /\ Writing(e)
              /\ task[<<"persist", e>>].step = "write"
        BY <1>1, <2>1, <2>2, <3>3 DEF Writing
      <4>2. \A x \in Held(e)' : x \in Held(e) \/ x = task[<<"persist", e>>].rev BY <2>3, <3>3
      <4>3. VersionsOf(e)' BY <1>2, <3>1, <4>1, <4>2 DEF VersionsOf, Within
      <4>4. LivesOf(e)' BY <1>2, <1>4, <3>1, <4>1 DEF LivesOf
      <4>5. QED BY <4>3, <4>4
    <3>4. QED BY <3>2, <3>3
  <2>5. ClosedInv' BY <1>2, <2>1, <2>2, OpTypes DEF ClosedInv
  <2>6. CopiesInv' BY <2>1, <2>2 DEF CopiesInv
  <2>7. QED BY <2>2, <2>4, <2>5, <2>6
<1>5. QED BY <1>3, <1>4 DEF WriteManifest

\* The start-up check takes its copy before anything is opened or written.
LEMMA CheckManifestKeeps ==
  ASSUME RecoveryInv, CheckManifest
  PROVE  RecoveryInv'
<1> USE DEF RecoveryInv
<1>1. UNCHANGED <<snapshot, manifest, doc, listed, revision, queue, task, crashes>>
        /\ check.phase = "start"
  BY DEF CheckManifest, store, shell
<1>2. PICK copy \in {manifest, NoEntry} :
        /\ check' = [phase |-> "scan", copy |-> copy, left |-> {d \in Docs : copy[d] # Absent}, prunes |-> FALSE]
        /\ IF copy = manifest THEN NoFault ELSE Fault
  BY DEF CheckManifest
<1>3. copy \in Manifest /\ \A e \in Docs : copy[e] \in {manifest[e], Absent}
  BY NothingKnown DEF TypeOK
<1>4. TypeOK' BY <1>1, <1>2, <1>3, FaultTypes DEF TypeOK
<1>5. \A e \in Docs : Held(e)' \subseteq Held(e) /\ (Writing(e)' <=> Writing(e))
  BY <1>1, <1>2, <1>3 DEF Held, Writing
<1>6. VersionsInv' BY <1>1, <1>5 DEF VersionsInv, VersionsOf, Within
<1>7. LivesInv'
  <2> SUFFICES ASSUME NEW e \in Docs PROVE LivesOf(e)' BY DEF LivesInv
  <2>1. LivesOf(e) BY DEF LivesInv
  <2>2. doc[e] = "new" => copy[e] = Absent BY <1>3, <2>1 DEF LivesOf, Held
  <2>3. QED BY <1>1, <1>2, <1>5, <2>1, <2>2 DEF LivesOf
<1>8. ClosedInv' BY <1>1 DEF ClosedInv
<1>9. CopiesInv'
  <2>1. \A op \in Op : ~check.prunes BY <1>1, OpCases DEF LivesInv, LivesOf
  <2>2. QED BY <1>1, <1>2, <2>1, FaultTypes DEF CopiesInv
<1>10. QED BY <1>4, <1>6, <1>7, <1>8, <1>9

\* The check drops entries from its copy, or keeps them.
LEMMA CheckSnapshotKeeps ==
  ASSUME RecoveryInv, NEW d \in Docs, CheckSnapshot(d)
  PROVE  RecoveryInv'
<1> USE DEF RecoveryInv
<1>1. /\ UNCHANGED <<snapshot, manifest, doc, listed, revision, queue, task, crashes>>
      /\ check.phase = "scan" /\ (Fault \/ NoFault)
  BY DEF CheckSnapshot, store, shell
<1>2. PICK missing \in {snapshot[d] = Absent, FALSE} :
        check' = [check EXCEPT !.left = @ \ {d}, !.copy[d] = IF missing THEN Absent ELSE @,
                               !.prunes = @ \/ missing]
  BY DEF CheckSnapshot
<1>3. missing \in BOOLEAN OBVIOUS
<1>4. check' \in [phase : {"start", "scan", "done"}, copy : Manifest, left : SUBSET Docs, prunes : BOOLEAN]
  BY <1>2, <1>3 DEF TypeOK, Manifest
<1>5. /\ check'.phase = check.phase /\ (check.prunes => check'.prunes)
      /\ \A e \in Docs : check'.copy[e] \in {check.copy[e], Absent}
  BY <1>2, <1>3 DEF TypeOK, Manifest
<1>6. TypeOK' BY <1>1, <1>4, FaultTypes DEF TypeOK
<1>7. \A e \in Docs : Held(e)' \subseteq Held(e) /\ (Writing(e)' <=> Writing(e))
  BY <1>1, <1>5 DEF Held, Writing
<1>8. VersionsInv' BY <1>1, <1>7 DEF VersionsInv, VersionsOf, Within
<1>9. LivesInv' BY <1>1, <1>5, <1>7 DEF LivesInv, LivesOf
<1>10. ClosedInv' BY <1>1 DEF ClosedInv
<1>11. CopiesInv' BY <1>1, <1>5, FaultTypes DEF CopiesInv
<1>12. QED BY <1>6, <1>8, <1>9, <1>10, <1>11

\* The check writes its copy back, which only drops entries.
LEMMA CheckDoneKeeps ==
  ASSUME RecoveryInv, CheckDone
  PROVE  RecoveryInv'
<1> USE DEF RecoveryInv
<1>1. /\ UNCHANGED <<snapshot, doc, revision, queue, task, crashes>>
      /\ check.phase = "scan" /\ (Fault \/ NoFault)
      /\ manifest' = manifest \/ (check.prunes /\ manifest' = check.copy)
      /\ listed' \subseteq {d \in Docs : check.copy[d] # Absent}
  BY DEF CheckDone
<1>2. check' = [phase |-> "done", copy |-> NoEntry, left |-> {}, prunes |-> check.prunes]
  BY DEF CheckDone, NoCheck
<1>3. NoEntry \in Manifest /\ \A e \in Docs : NoEntry[e] = Absent BY NothingKnown
<1>4. TypeOK' BY <1>1, <1>2, <1>3, FaultTypes DEF TypeOK
<1>5. \A e \in Docs : Held(e)' \subseteq Held(e) /\ (Writing(e)' <=> Writing(e))
  BY <1>1, <1>2, <1>3 DEF Held, Writing
<1>6. VersionsInv' BY <1>1, <1>5 DEF VersionsInv, VersionsOf, Within
<1>7. LivesInv' BY <1>1, <1>2, <1>5 DEF LivesInv, LivesOf
<1>8. ClosedInv' BY <1>1 DEF ClosedInv
<1>9. CopiesInv' BY <1>1, <1>2, FaultTypes DEF CopiesInv
<1>10. QED BY <1>4, <1>6, <1>7, <1>8, <1>9

\* Killing the page leaves the store and forgets every copy.
LEMMA CrashKeeps ==
  ASSUME RecoveryInv, Crash
  PROVE  RecoveryInv'
<1> USE DEF RecoveryInv
<1>1. /\ UNCHANGED <<snapshot, manifest, faults>> /\ crashes < MaxCrashes
           /\ crashes' = crashes + 1
      /\ doc' = [d \in Docs |-> IF doc[d] = "new" THEN "new" ELSE "closed"]
      /\ listed' = {} /\ revision' = [d \in Docs |-> 0] /\ queue' = <<>>
      /\ \A op \in Op : task'[op] = Idle
      /\ task' \in [Op -> Task]
      /\ check' = [phase |-> "start", copy |-> NoEntry, left |-> {}, prunes |-> FALSE]
  BY NothingKnown DEF Crash, store, NoCheck
<1>2. NoEntry \in Manifest /\ \A e \in Docs : NoEntry[e] = Absent /\ Idle.copy[e] = Absent
  BY NothingKnown
<1>3. TypeOK'
  <2>1. doc' \in [Docs -> {"new", "open", "closing", "closed"}] BY <1>1 DEF TypeOK
  <2>2. revision' \in [Docs -> Revisions] BY <1>1, BoundsAssumption DEF Revisions
  <2>3. queue' \in Seq(Op) /\ Len(queue') <= MaxQueue BY <1>1, BoundsAssumption
  <2>4. crashes' \in 0..MaxCrashes BY <1>1, BoundsAssumption DEF TypeOK
  <2>5. \A p, q \in Op : task'[p].step # "idle" /\ task'[q].step # "idle" => p = q
    BY <1>1, NothingKnown
  <2>6. QED BY <1>1, <1>2, <2>1, <2>2, <2>3, <2>4, <2>5 DEF TypeOK, Task, Steps
<1>4. \A e \in Docs : Held(e)' \subseteq Held(e) BY <1>1, <1>2 DEF Held
<1>5. \A e \in Docs : ~Writing(e)' /\ task'[<<"persist", e>>].step = "idle"
  BY <1>1, NothingKnown, OpTypes DEF Writing
<1>6. VersionsInv' /\ LivesInv'
  <2> SUFFICES ASSUME NEW e \in Docs PROVE VersionsOf(e)' /\ LivesOf(e)'
    BY DEF VersionsInv, LivesInv
  <2>1. VersionsOf(e) /\ LivesOf(e) BY DEF VersionsInv, LivesInv
  <2>2. doc'[e] \in {"new", "closed"} /\ (doc'[e] = "new" => doc[e] = "new") BY <1>1
  <2>3. VersionsOf(e)' BY <1>1, <1>4, <1>5, <2>1, <2>2 DEF VersionsOf, Within
  <2>4. LivesOf(e)' BY <1>1, <1>2, <1>4, <1>5, <2>1, <2>2 DEF LivesOf
  <2>5. QED BY <2>3, <2>4
<1>7. ClosedInv' /\ CopiesInv' BY <1>1, <1>5, NothingKnown DEF ClosedInv, CopiesInv
<1>8. QED BY <1>3, <1>6, <1>7

\* RecoveryInv is inductive.
LEMMA NextKeeps == RecoveryInv /\ [Next]_vars => RecoveryInv'
<1> SUFFICES ASSUME RecoveryInv, [Next]_vars PROVE RecoveryInv' OBVIOUS
<1>1. ASSUME NEW d \in Docs, Open(d) \/ Edit(d) \/ Restore(d) \/ Close(d) PROVE RecoveryInv'
  BY <1>1, ShellKeeps
<1>2. ASSUME NEW d \in Docs, Persist(d) \/ Discard(d) PROVE RecoveryInv' BY <1>2, QueueKeeps
<1>3. CASE Start BY <1>3, StartKeeps
<1>4. ASSUME NEW d \in Docs, Progress(d) PROVE RecoveryInv'
  <2>1. \A kind \in {"persist", "discard"} : <<kind, d>> \in Op BY DEF Op
  <2>2. CASE Export(d) BY <2>2, ExportKeeps
  <2>3. CASE WriteSnapshot(d) BY <2>3, WriteSnapshotKeeps
  <2>4. CASE RemoveSnapshot(d) BY <2>4, RemoveSnapshotKeeps
  <2>5. ASSUME NEW kind \in {"persist", "discard"}, ReadManifest(<<kind, d>>) PROVE RecoveryInv'
    BY <2>1, <2>5, ReadManifestKeeps
  <2>6. ASSUME NEW kind \in {"persist", "discard"}, WriteManifest(<<kind, d>>) PROVE RecoveryInv'
    BY <2>1, <2>6, WriteManifestKeeps
  <2>7. QED BY <1>4, <2>2, <2>3, <2>4, <2>5, <2>6 DEF Progress
<1>5. CASE CheckManifest BY <1>5, CheckManifestKeeps
<1>6. ASSUME NEW d \in Docs, CheckSnapshot(d) PROVE RecoveryInv' BY <1>6, CheckSnapshotKeeps
<1>7. CASE CheckDone BY <1>7, CheckDoneKeeps
<1>8. CASE Crash BY <1>8, CrashKeeps
<1>9. CASE UNCHANGED vars
  <2>1. UNCHANGED <<snapshot, manifest, doc, listed, revision, queue, task, check, faults, crashes>>
    BY <1>9 DEF vars, store, shell
  <2>2. TypeOK' BY <2>1 DEF RecoveryInv, TypeOK
  <2>3. VersionsInv' /\ LivesInv'
    BY <2>1 DEF RecoveryInv, VersionsInv, LivesInv, VersionsOf, LivesOf, Within, Held, Writing
  <2>4. ClosedInv' /\ CopiesInv' BY <2>1 DEF RecoveryInv, ClosedInv, CopiesInv
  <2>5. QED BY <2>2, <2>3, <2>4 DEF RecoveryInv
<1>10. QED BY <1>1, <1>2, <1>3, <1>4, <1>5, <1>6, <1>7, <1>8, <1>9 DEF Next

\* RecoveryInv holds always.
LEMMA AlwaysHolds == Spec => []RecoveryInv
BY InitHolds, NextKeeps, PTL DEF Spec

\* The variables keep their types, and hostQueues never lets two operations of
\* one host overlap.
THEOREM RecoveryTypes == Spec => []TypeOK
BY AlwaysHolds, PTL DEF RecoveryInv

\* The manifest never promises a newer revision than the snapshot holds, for any
\* number of documents, failed accesses and kills of the page: the snapshot is
\* written first, and every copy of the manifest that is still to be written is
\* covered too.
THEOREM RecoveryManifestNeverAhead == Spec => []ManifestNeverAhead
<1>1. RecoveryInv => ManifestNeverAhead
  <2> SUFFICES ASSUME RecoveryInv, NEW d \in Docs, snapshot[d] # Absent, manifest[d] # Absent
               PROVE  manifest[d] <= snapshot[d]
    BY DEF ManifestNeverAhead
  <2>1. manifest[d] \in Held(d) BY DEF Held
  <2>2. Within(d, snapshot[d]) BY DEF RecoveryInv, VersionsInv, VersionsOf
  <2>3. QED BY <2>1, <2>2 DEF Within
<1>2. QED BY <1>1, AlwaysHolds, PTL

\* Only WriteSnapshot puts a snapshot where there was none.
LEMMA SnapshotAppears ==
  ASSUME RecoveryInv, [Next]_vars, NEW d \in Docs, snapshot[d] = Absent, snapshot'[d] # Absent
  PROVE  WriteSnapshot(d)
<1>1. UNCHANGED snapshot \/ \E e \in Docs : WriteSnapshot(e) \/ RemoveSnapshot(e)
  BY DEF Next, Open, Edit, Persist, Close, Discard, Restore, Start, Progress, Export,
       ReadManifest,
         WriteManifest, CheckManifest, CheckSnapshot, CheckDone, Crash, store, vars
<1>2. ASSUME NEW e \in Docs, WriteSnapshot(e), e # d PROVE FALSE
  BY <1>2 DEF WriteSnapshot, RecoveryInv, TypeOK, Manifest
<1>3. ASSUME NEW e \in Docs, RemoveSnapshot(e) PROVE FALSE
  BY <1>3 DEF RemoveSnapshot, RecoveryInv, TypeOK, Manifest
<1>4. QED BY <1>1, <1>2, <1>3

\* A closed document's snapshot comes back only with its discard still to run:
\* persistRecoverySnapshot fails to export a closed document, and what was
\* exported before the close is followed by the discard in the queue.
THEOREM RecoveryDiscardIsFinal == Spec => DiscardIsFinal
<1> DEFINE Final == \A d \in Docs : snapshot[d] = Absent /\ snapshot'[d] # Absent
             /\ doc[d] = "closed"
                                    => Live(<<"discard", d>>)
<1>1. RecoveryInv /\ [Next]_vars => Final
  <2> SUFFICES ASSUME RecoveryInv, [Next]_vars, NEW d \in Docs,
                      snapshot[d] = Absent, snapshot'[d] # Absent, doc[d] = "closed"
               PROVE  Live(<<"discard", d>>)
    OBVIOUS
  <2>1. task[<<"persist", d>>].step = "snapshot" BY SnapshotAppears DEF WriteSnapshot
  <2>2. QED BY <2>1 DEF RecoveryInv, ClosedInv, Live
<1>2. RecoveryInv /\ [Next]_vars => [Final]_vars BY <1>1
<1> HIDE DEF Final
<1>3. Spec => [][Final]_vars BY <1>2, AlwaysHolds, PTL DEF Spec
<1>4. QED BY <1>3 DEF DiscardIsFinal, Final

\* Only WriteManifest and a crash end an operation that is about to write the manifest.
LEMMA WriteEnds ==
  ASSUME RecoveryInv, [Next]_vars, NEW op \in Op, task[op].step = "write", task'[op].step = "idle"
  PROVE  WriteManifest(op) \/ UNCHANGED manifest
<1> USE DEF RecoveryInv
<1>1. \A q \in Op : task[q].step # "idle" => q = op BY DEF TypeOK
<1>2. ~Start BY DEF Start
<1>3. ASSUME NEW q \in Op, WriteManifest(q) PROVE q = op BY <1>1, <1>3 DEF WriteManifest
<1>4. CheckDone => UNCHANGED task BY DEF CheckDone
<1>5. \A d \in Docs, kind \in {"persist", "discard"} : <<kind, d>> \in Op BY DEF Op
<1>6. QED
  BY <1>2, <1>3, <1>4, <1>5 DEF Next, Open, Edit, Persist, Close, Discard, Restore, Progress,
       Export,
     WriteSnapshot, RemoveSnapshot, ReadManifest, CheckManifest, CheckSnapshot, Crash, store, vars

\* While the store works and the start-up check prunes nothing, persisting and
\* discarding change no entry of the manifest but their own: readManifest and
\* writeManifest enclose no write of another operation.
THEOREM RecoveryOwnEntryOnly == Spec => OwnEntryOnly
<1> DEFINE Own == \A op \in Op, d \in Docs :
                    /\ task[op].step = "write" /\ task'[op].step = "idle" /\ d # op[2]
                    /\ faults = 0 /\ ~check.prunes
                    => manifest'[d] = manifest[d]
<1>1. RecoveryInv /\ [Next]_vars => Own
  <2> SUFFICES ASSUME RecoveryInv, [Next]_vars, NEW op \in Op, NEW d \in Docs,
                      task[op].step = "write", task'[op].step = "idle", d # op[2],
                      faults = 0, ~check.prunes
               PROVE  manifest'[d] = manifest[d]
    OBVIOUS
  <2>1. task[op].copy = manifest BY DEF RecoveryInv, CopiesInv
  <2>2. NewManifest(op)[d] = task[op].copy[d] BY NewManifestTypes DEF RecoveryInv
  <2>3. CASE WriteManifest(op) BY <2>1, <2>2, <2>3 DEF WriteManifest
  <2>4. QED BY <2>3, WriteEnds
<1>2. RecoveryInv /\ [Next]_vars => [Own]_vars BY <1>1
<1> HIDE DEF Own
<1>3. Spec => [][Own]_vars BY <1>2, AlwaysHolds, PTL DEF Spec
<1>4. QED BY <1>3 DEF OwnEntryOnly, Own
=============================================================================
