------------------------------ MODULE Recovery ------------------------------
(***************************************************************************)
(* Crash recovery of the editor: recovery/recovery-manager.ts over the     *)
(* host's record store, driven by ui/EditorShell.tsx.                      *)
(*                                                                         *)
(* The store holds one snapshot per document and one manifest naming the   *)
(* recoverable ones; no transaction covers the two.  Persisting and        *)
(* discarding run one at a time through a queue per host; the check of the *)
(* manifest when the editor starts does not.  Every access to the store    *)
(* may fail, and the page may be killed between any two of them.           *)
(***************************************************************************)
EXTENDS Naturals, Sequences

CONSTANTS Docs,        \* documents, named by the id the engine gives them
          Absent,      \* no record
          MaxRevision, \* bound: edits of one document
          MaxQueue,    \* bound: operations waiting in the host's queue
          MaxFaults,   \* bound: accesses to the store that fail
          MaxCrashes   \* bound: times the page is killed and opened again

ASSUME BoundsAssumption ==
  /\ MaxRevision \in Nat /\ MaxQueue \in Nat /\ MaxFaults \in Nat /\ MaxCrashes \in Nat
  /\ Absent \notin Nat

VARIABLES
  snapshot,  \* store: the revision of each document's snapshot
  manifest,  \* store: the revision the manifest gives for each document
  doc,       \* editor: what the shell knows of each document
  listed,    \* editor: pendingRecovery, the records offered to the user
  revision,  \* engine: the revision of each open document
  queue,     \* editor: hostQueues, the operations not yet started
  task,      \* editor: the progress of each operation
  check,     \* editor: the progress of checkRecoverableSessions
  faults,    \* accesses that have failed
  crashes    \* times the page was killed

store == <<snapshot, manifest>>
shell == <<doc, listed, revision>>
vars == <<store, shell, queue, task, check, faults, crashes>>

Revisions == 0..MaxRevision
Manifest == [Docs -> Revisions \cup {Absent}]
NoEntry == [d \in Docs |-> Absent]
Op == {"persist", "discard"} \X Docs
Idle == [step |-> "idle", rev |-> 0, copy |-> NoEntry]
NoCheck == [phase |-> "start", copy |-> NoEntry, left |-> {}, prunes |-> FALSE]

Live(op) == task[op].step # "idle" \/ \E i \in DOMAIN queue : queue[i] = op

\* An access to the store fails; the bound is on their number.
Fault == faults < MaxFaults /\ faults' = faults + 1
NoFault == UNCHANGED faults

----------------------------------------------------------------------------
(* The shell *)

Enqueue(op) == Len(queue) < MaxQueue /\ queue' = Append(queue, op)

\* openDocument: the engine gives the document a fresh id.  The start-up check
\* asks for the manifest as the editor mounts, and the store answers in order.
Open(d) ==
  /\ doc[d] = "new" /\ check.phase # "start"
  /\ doc' = [doc EXCEPT ![d] = "open"]
  /\ UNCHANGED <<store, listed, revision, queue, task, check, faults, crashes>>

Edit(d) ==
  /\ doc[d] = "open" /\ revision[d] < MaxRevision
  /\ revision' = [revision EXCEPT ![d] = @ + 1]
  /\ UNCHANGED <<store, doc, listed, queue, task, check, faults, crashes>>

\* triggerAutoRecovery and firstPagePainted: after an edit, a save or the first
\* paint; what follows an answer of the worker may ask once the document closed.
Persist(d) ==
  /\ doc[d] \in {"open", "closing", "closed"}
  /\ Enqueue(<<"persist", d>>)
  /\ UNCHANGED <<store, shell, task, check, faults, crashes>>

\* closeDocument: the engine has closed the document...
Close(d) ==
  /\ doc[d] = "open"
  /\ doc' = [doc EXCEPT ![d] = "closing"]
  /\ UNCHANGED <<store, listed, revision, queue, task, check, faults, crashes>>

\* ...and then its record is discarded.  A record that was listed is discarded
\* at the user's word, and stays listed until that has succeeded.
Discard(d) ==
  /\ doc[d] = "closing" \/ d \in listed
  /\ doc' = [doc EXCEPT ![d] = IF @ = "closing" THEN "closed" ELSE @]
  /\ Enqueue(<<"discard", d>>)
  /\ UNCHANGED <<store, listed, revision, task, check, faults, crashes>>

\* restorePendingRecovery: the document comes back under its old id, which the
\* engine refuses while it is open.
Restore(d) ==
  /\ d \in listed /\ snapshot[d] # Absent /\ doc[d] = "closed"
  /\ doc' = [doc EXCEPT ![d] = "open"]
  /\ listed' = listed \ {d}
  /\ revision' = [revision EXCEPT ![d] = snapshot[d]]
  /\ UNCHANGED <<store, queue, task, check, faults, crashes>>

----------------------------------------------------------------------------
(* The queue and its operations *)

Goto(op, s) == task' = [task EXCEPT ![op].step = s]

\* Seeded bug: a rejected operation stops the queue.
MutantReject(op) == Goto(op, "rejected")

\* The queue goes on after an operation that was rejected.
Reject(op) == task' = [task EXCEPT ![op] = Idle]

Begin == Goto(Head(queue), IF Head(queue)[1] = "persist" THEN "export" ELSE "remove")

\* Seeded bug: the operations of one host run side by side.
MutantStart ==
  /\ queue # <<>> /\ task[Head(queue)].step = "idle"
  /\ queue' = Tail(queue) /\ Begin
  /\ UNCHANGED <<store, shell, check, faults, crashes>>

\* enqueueRecoveryOperation: the next one starts when the last has settled.
Start ==
  /\ queue # <<>> /\ \A op \in Op : task[op].step = "idle"
  /\ queue' = Tail(queue) /\ Begin
  /\ UNCHANGED <<store, shell, check, faults, crashes>>

\* Seeded bug: a document that was closed is still exported.
MutantExport(d) ==
  /\ task[<<"persist", d>>].step = "export"
  /\ task' = [task EXCEPT ![<<"persist", d>>] = [@ EXCEPT !.step = "snapshot", !.rev = revision[d]]]
  /\ UNCHANGED <<store, shell, queue, check, faults, crashes>>

\* engine.exportRecovery fails for a document the engine has closed.
Export(d) ==
  /\ task[<<"persist", d>>].step = "export"
  /\ \/ /\ doc[d] = "open"
        /\ task' = [task EXCEPT ![<<"persist", d>>] =
                      [@ EXCEPT !.step = "snapshot", !.rev = revision[d]]]
     \/ doc[d] # "open" /\ Reject(<<"persist", d>>)
  /\ UNCHANGED <<store, shell, queue, check, faults, crashes>>

\* Seeded bug: a snapshot that could not be written is entered all the same.
MutantWriteSnapshot(d) ==
  /\ task[<<"persist", d>>].step = "snapshot"
  /\ Goto(<<"persist", d>>, "read")
  /\ \/ NoFault /\ snapshot' = [snapshot EXCEPT ![d] = task[<<"persist", d>>].rev]
     \/ Fault /\ UNCHANGED snapshot
  /\ UNCHANGED <<manifest, shell, queue, check, crashes>>

WriteSnapshot(d) ==
  /\ task[<<"persist", d>>].step = "snapshot"
  /\ \/ /\ NoFault /\ Goto(<<"persist", d>>, "read")
        /\ snapshot' = [snapshot EXCEPT ![d] = task[<<"persist", d>>].rev]
     \/ Fault /\ Reject(<<"persist", d>>) /\ UNCHANGED snapshot
  /\ UNCHANGED <<manifest, shell, queue, check, crashes>>

RemoveSnapshot(d) ==
  /\ task[<<"discard", d>>].step = "remove"
  /\ \/ /\ NoFault /\ Goto(<<"discard", d>>, "read")
        /\ snapshot' = [snapshot EXCEPT ![d] = Absent]
     \/ Fault /\ Reject(<<"discard", d>>) /\ UNCHANGED snapshot
  /\ UNCHANGED <<manifest, shell, queue, check, crashes>>

\* readManifest: a read that fails gives an empty manifest.
ReadManifest(op) ==
  /\ task[op].step = "read"
  /\ \E copy \in {manifest, NoEntry} :
       /\ task' = [task EXCEPT ![op] = [@ EXCEPT !.step = "write", !.copy = copy]]
       /\ IF copy = manifest THEN NoFault ELSE Fault
  /\ UNCHANGED <<store, shell, queue, check, crashes>>

\* The copy with the operation's own entry replaced, added or dropped.
NewManifest(op) ==
  [task[op].copy EXCEPT ![op[2]] = IF op[1] = "persist" THEN task[op].rev ELSE Absent]

\* Discarding does not write a manifest that does not name the document.
WriteManifest(op) ==
  /\ task[op].step = "write"
  /\ Reject(op)
  /\ \/ /\ NoFault
        /\ IF op[1] = "discard" /\ NewManifest(op) = task[op].copy THEN UNCHANGED manifest
           ELSE manifest' = NewManifest(op)
        /\ listed' = IF op[1] = "discard" THEN listed \ {op[2]} ELSE listed
     \/ /\ Fault /\ UNCHANGED <<manifest, listed>>
  /\ UNCHANGED <<snapshot, doc, revision, queue, check, crashes>>

----------------------------------------------------------------------------
(* checkRecoverableSessions, once when the editor starts, outside the queue *)

CheckManifest ==
  /\ check.phase = "start"
  /\ \E copy \in {manifest, NoEntry} :
       /\ check' = [phase |-> "scan", copy |-> copy, left |-> {d \in Docs : copy[d] # Absent},
                    prunes |-> FALSE]
       /\ IF copy = manifest THEN NoFault ELSE Fault
  /\ UNCHANGED <<store, shell, queue, task, crashes>>

\* A snapshot confirmed missing drops the entry; a read that fails keeps it.
CheckSnapshot(d) ==
  /\ check.phase = "scan" /\ d \in check.left
  /\ \E missing \in {snapshot[d] = Absent, FALSE} :
       /\ check' = [check EXCEPT !.left = @ \ {d},
                                 !.copy[d] = IF missing THEN Absent ELSE @,
                                 !.prunes = @ \/ missing]
       /\ IF missing = (snapshot[d] = Absent) THEN NoFault ELSE Fault
  /\ UNCHANGED <<store, shell, queue, task, crashes>>

\* The pruned manifest is written, or its write fails; the unsaved documents
\* among those it names are listed.
CheckDone ==
  /\ check.phase = "scan" /\ check.left = {}
  /\ check' = [NoCheck EXCEPT !.phase = "done", !.prunes = check.prunes]
  /\ \/ NoFault /\ manifest' = IF check.prunes THEN check.copy ELSE manifest
     \/ check.prunes /\ Fault /\ UNCHANGED manifest
  /\ listed' \in SUBSET {d \in Docs : check.copy[d] # Absent}
  /\ UNCHANGED <<snapshot, doc, revision, queue, task, crashes>>

----------------------------------------------------------------------------
\* The page is killed and opened again: only the store survives.
Crash ==
  /\ crashes < MaxCrashes
  /\ crashes' = crashes + 1
  /\ doc' = [d \in Docs |-> IF doc[d] = "new" THEN "new" ELSE "closed"]
  /\ listed' = {} /\ revision' = [d \in Docs |-> 0]
  /\ queue' = <<>> /\ task' = [op \in Op |-> Idle] /\ check' = NoCheck
  /\ UNCHANGED <<store, faults>>

Init ==
  /\ snapshot = NoEntry /\ manifest = NoEntry
  /\ doc = [d \in Docs |-> "new"] /\ listed = {} /\ revision = [d \in Docs |-> 0]
  /\ queue = <<>> /\ task = [op \in Op |-> Idle] /\ check = NoCheck
  /\ faults = 0 /\ crashes = 0

Progress(d) ==
  \/ Export(d) \/ WriteSnapshot(d) \/ RemoveSnapshot(d)
  \/ \E kind \in {"persist", "discard"} : ReadManifest(<<kind, d>>) \/ WriteManifest(<<kind, d>>)

Next ==
  \/ \E d \in Docs : Open(d) \/ Edit(d) \/ Persist(d) \/ Close(d) \/ Discard(d) \/ Restore(d)
  \/ Start
  \/ \E d \in Docs : Progress(d)
  \/ CheckManifest
  \/ \E d \in Docs : CheckSnapshot(d)
  \/ CheckDone
  \/ Crash

Spec == Init /\ [][Next]_vars

\* Every access to the store settles, and the event loop resumes what waited.
FairSpec == Spec /\ WF_vars(Start) /\ \A d \in Docs : WF_vars(Progress(d))

----------------------------------------------------------------------------
(* Properties *)

\* Every variable has its type, and one operation of the queue runs at a time.
TypeOK ==
  /\ snapshot \in Manifest /\ manifest \in Manifest
  /\ doc \in [Docs -> {"new", "open", "closing", "closed"}]
  /\ listed \subseteq Docs
  /\ revision \in [Docs -> Revisions]
  /\ queue \in Seq(Op) /\ Len(queue) <= MaxQueue
  /\ task \in [Op -> [step : {"idle", "export", "snapshot", "remove", "read", "write"},
                      rev : Revisions, copy : Manifest]]
  /\ check \in [phase : {"start", "scan", "done"}, copy : Manifest, left : SUBSET Docs,
                prunes : BOOLEAN]
  /\ faults \in 0..MaxFaults /\ crashes \in 0..MaxCrashes
  /\ \A p, q \in Op : task[p].step # "idle" /\ task[q].step # "idle" => p = q

\* The manifest never promises a newer revision than the snapshot holds,
\* whatever fails and wherever the page is killed (persistRecoverySnapshot
\* writes the snapshot before the manifest).
ManifestNeverAhead ==
  \A d \in Docs : snapshot[d] # Absent /\ manifest[d] # Absent => manifest[d] <= snapshot[d]

\* The snapshot of a document the user closed never comes back with no discard
\* left to remove it: not from a persist queued before the close, nor from one
\* asked for after it (recovery.test.ts:292).
DiscardIsFinal ==
  [][\A d \in Docs : snapshot[d] = Absent /\ snapshot'[d] # Absent /\ doc[d] = "closed"
        => Live(<<"discard", d>>)]_vars

\* While the store works and the start-up check prunes nothing, an operation
\* changes no entry of the manifest but its own: no update of another is lost.
OwnEntryOnly ==
  [][\A op \in Op, d \in Docs :
       /\ task[op].step = "write" /\ task'[op].step = "idle" /\ d # op[2]
       /\ faults = 0 /\ ~check.prunes
       => manifest'[d] = manifest[d]]_vars

\* A discard asked for is carried out or fails, though operations before it fail.
DiscardRuns == \A d \in Docs : Live(<<"discard", d>>) ~> ~Live(<<"discard", d>>)

\* "do NOT prune manifest on transient errors" (recovery-manager.ts:111): an
\* entry leaves the manifest only once its snapshot is gone.
TransientErrorsNeverPrune ==
  [][\A d \in Docs : manifest[d] # Absent /\ manifest'[d] = Absent => snapshot[d] = Absent]_vars
=============================================================================
