------------------------------ MODULE LongTask ------------------------------
(***************************************************************************)
(* One long AI task of a document, batch after batch: the runner of        *)
(* ai-client/src/tasks.ts, the permission of authorization.ts, the records *)
(* of AiPanelTaskStore.ts and the panel that drives them,                  *)
(* AiPanelBatch.tsx, over pause, reset, unmounting and a killed page.      *)
(*                                                                         *)
(* Every await is a place where another may step in.  The accesses to the  *)
(* store take effect in the order they are made, so a read carries what    *)
(* the store held when it was made, and a write is lost with the page only *)
(* if the page is killed before it is made.                                *)
(***************************************************************************)
EXTENDS Naturals, FiniteSets, FiniteSetsExt

CONSTANTS N,         \* the batches of the task are 1 .. N
          Keys,      \* cacheKeys
          Key,       \* the cacheKey of each batch
          Stored,    \* the cacheKeys earlier tasks may have left results of
          MaxMounts, \* bound: the times the panel is mounted
          Loops,     \* bound: the calls of runTaskLoop under way at once
          Ops        \* bound: the other operations under way at once

ASSUME TaskAssumption ==
  /\ N \in Nat \ {0} /\ MaxMounts \in Nat \ {0}
  /\ Key \in [1 .. N -> Keys] /\ Stored \subseteq Keys /\ 0 \notin Loops

VARIABLES
  task,       \* the stored record: its status and its batches'
  cached,     \* the cacheKeys in completed_batches
  revised,    \* of each panel: the revision it knows is no longer the task's
  mounts, mount,  \* the panels there have been, and the present one, 0 if none
  authorized, \* of each panel: DocumentAiAuthorization.enabled
  shown,      \* the status of the task the panel shows, or "none"
  busy, ref,  \* the panel's busy, and whether activeTaskIdRef is set
  active,     \* of each panel's runner: the run in #active, or 0
  intent,     \* ... and that run's intent, "run" if there is none
  loop,       \* the calls of runTaskLoop
  op,         \* the calls under way of restore, pauseTask and cancelTask
  overlapped  \* two runs of the task have been under way at once

storeVars == <<task, cached>>
panelVars == <<shown, busy, ref>>
mountVars == <<revised, mounts, mount, authorized>>
runVars == <<active, intent, loop>>
vars == <<storeVars, mountVars, panelVars, runVars, op, overlapped>>

Batches == 1 .. N
Mounts == 1 .. MaxMounts
Free == [stage |-> "none"]
Running == busy \/ shown = "running"

InRun(l) == loop[l].stage \notin {"none", "opening"}
Asking(l) == loop[l].stage = "asking"

\* saveTask: the record is overwritten, and its completed batches are kept.
Save(rec) ==
  /\ task' = rec
  /\ cached' = cached \cup {Key[b] : b \in {c \in Batches : rec.batches[c] = "completed"}}

\* A run goes on, with the record it holds, and with the batch it is at.
Step(l, stage, rec) == loop' = [loop EXCEPT ![l] = [stage |-> stage, mount |-> @.mount, rec |-> rec]]
LookUp(l, rec, b) ==
  loop' = [loop EXCEPT ![l] = [stage |-> "looking", mount |-> @.mount, rec |-> rec, batch |-> b,
                               found |-> Key[b] \in cached]]
MarkBatch(l, rec, b) ==
  loop' = [loop EXCEPT ![l] = [stage |-> "marked", mount |-> @.mount, rec |-> rec, batch |-> b]]
Request(l, live) ==
  loop' = [loop EXCEPT ![l] = [stage |-> "asking", mount |-> @.mount, rec |-> @.rec, batch |-> @.batch,
                               live |-> live]]

\* Another operation begins, and goes on: with the record it holds, or waiting for a save.
Operation(o, kind, stage) ==
  op' = [op EXCEPT ![o] = [stage |-> stage, kind |-> kind, mount |-> mount, rec |-> task]]
StepOp(o, stage, rec) ==
  op' = [op EXCEPT ![o] = [stage |-> stage, kind |-> @.kind, mount |-> @.mount, rec |-> rec]]
WaitOp(o, stage) == op' = [op EXCEPT ![o] = [stage |-> stage, kind |-> @.kind, mount |-> @.mount]]

Mark(rec, b, status) == [rec EXCEPT !.batches[b] = status]

----------------------------------------------------------------------------
(* LongTaskRunner.continueTask                                             *)

\* Start or Resume: runTaskLoop reads the record.
Open(l) ==
  /\ mount # 0 /\ shown \in {"paused", "failed"} /\ ~busy /\ ~revised[mount]
  /\ loop[l] = Free
  /\ loop' = [loop EXCEPT ![l] = [stage |-> "opening", mount |-> mount]]
  /\ busy' = TRUE /\ ref' = TRUE
  /\ UNCHANGED <<storeVars, mountVars, shown, active, intent, op, overlapped>>

\* The run returns or throws, and so does runTaskLoop.
Quit(l, returned) ==
  LET m == loop[l].mount IN
  /\ loop' = [loop EXCEPT ![l] = Free]
  /\ active' = [active EXCEPT ![m] = IF @ = l THEN 0 ELSE @]
  /\ intent' = [intent EXCEPT ![m] = IF active[m] = l THEN "run" ELSE @]
  /\ IF mount = m
     THEN busy' = FALSE /\ ref' = FALSE /\ shown' = IF returned THEN loop[l].rec.status ELSE shown
     ELSE UNCHANGED <<busy, ref, shown>>

\* runTaskLoop goes on into continueTask, which reads the record again.
Enter(l) ==
  LET m == loop[l].mount IN
  /\ loop[l].stage = "opening"
  /\ IF revised[m] \/ active[m] # 0
     THEN Quit(l, FALSE) /\ UNCHANGED overlapped
     ELSE /\ active' = [active EXCEPT ![m] = l]
          /\ intent' = [intent EXCEPT ![m] = "run"]
          /\ Step(l, "loading", task)
          /\ overlapped' = (overlapped \/ \E k \in Loops : InRun(k))
          /\ UNCHANGED <<busy, ref, shown>>
  /\ UNCHANGED <<storeVars, mountVars, op>>

\* The record is there: refused, over already, or running.
Begin(l) ==
  LET rec == loop[l].rec
      now == [rec EXCEPT !.status = "running"]
  IN /\ loop[l].stage = "loading"
     /\ \/ /\ rec.status = "completed" /\ Quit(l, TRUE) /\ UNCHANGED storeVars
        \/ /\ rec.status \in {"cancelled", "failed"} \/ ~authorized[loop[l].mount]
           /\ rec.status # "completed"
           /\ Quit(l, FALSE) /\ UNCHANGED storeVars
        \/ /\ rec.status \in {"paused", "running"} /\ authorized[loop[l].mount]
           /\ Save(now) /\ Step(l, "turn", now)
           /\ UNCHANGED <<active, intent, busy, ref, shown>>
     /\ UNCHANGED <<mountVars, op, overlapped>>

\* #finishInterrupted.
Interrupt(l, b, why) ==
  LET status == IF why = "cancel" THEN "cancelled" ELSE "paused"
      rec == Mark([loop[l].rec EXCEPT !.status = status], b, status)
  IN Save(rec) /\ Step(l, "ending", rec)

\* A result is known, and saved with its batch.
Complete(l, b) ==
  LET rec == Mark(loop[l].rec, b, "completed")
  IN Save(rec) /\ Step(l, "stored", rec)

\* The next batch's turn: interrupted, completed by another of its key, or looked up.
TakeTurn(l, b) ==
  LET m == loop[l].mount
      rec == loop[l].rec
  IN IF intent[m] # "run" THEN Interrupt(l, b, intent[m])
     ELSE IF ~authorized[m] THEN Interrupt(l, b, "pause")
     ELSE IF \E c \in Batches : rec.batches[c] = "completed" /\ Key[c] = Key[b] THEN Complete(l, b)
     ELSE /\ LookUp(l, rec, b)
          /\ UNCHANGED storeVars

\* No batch is left.
Conclude(l) ==
  LET rec == loop[l].rec
      done == [rec EXCEPT !.status = IF \A b \in Batches : rec.batches[b] = "completed"
                                     THEN "completed" ELSE "paused"]
  IN Save(done) /\ Step(l, "ending", done)

\* A save is over: onBatchCompleted shows the record, and the next batch has its turn.
Turn(l) ==
  LET todo == {b \in Batches : loop[l].rec.batches[b] \in {"pending", "paused"}} IN
  /\ loop[l].stage \in {"turn", "stored"}
  /\ IF todo = {} THEN Conclude(l) ELSE TakeTurn(l, Min(todo))
  /\ shown' = IF loop[l].stage = "stored" /\ mount = loop[l].mount THEN loop[l].rec.status ELSE shown
  /\ UNCHANGED <<mountVars, busy, ref, active, intent, op, overlapped>>

\* Seeded bug: what other tasks have completed is not used.
MutantLook(l) ==
  LET rec == Mark(loop[l].rec, loop[l].batch, "running") IN
  /\ loop[l].stage = "looking"
  /\ Save(rec) /\ MarkBatch(l, rec, loop[l].batch)
  /\ UNCHANGED <<mountVars, panelVars, active, intent, op, overlapped>>

\* findCompletedBatch has answered.
Look(l) ==
  LET rec == Mark(loop[l].rec, loop[l].batch, "running") IN
  /\ loop[l].stage = "looking"
  /\ IF loop[l].found THEN Complete(l, loop[l].batch)
     ELSE Save(rec) /\ MarkBatch(l, rec, loop[l].batch)
  /\ UNCHANGED <<mountVars, panelVars, active, intent, op, overlapped>>

\* Seeded bug: a signal that has fired before the request is not looked at.
MutantSignal(m) == TRUE

\* beginRequest: a request of a run that is stopped is born aborted.
Signal(m) == intent[m] = "run"

\* The batch is marked: the request is made, unless permission or revision is gone.
Ask(l) ==
  LET m == loop[l].mount IN
  /\ loop[l].stage = "marked"
  /\ \/ /\ ~authorized[m]
        /\ Interrupt(l, loop[l].batch, IF intent[m] = "cancel" THEN "cancel" ELSE "pause")
        /\ UNCHANGED intent
     \/ /\ authorized[m] /\ revised[m]
        /\ intent' = [intent EXCEPT ![m] = "pause"] /\ Interrupt(l, loop[l].batch, "pause")
     \/ /\ authorized[m] /\ ~revised[m]
        /\ Request(l, Signal(m))
        /\ UNCHANGED <<storeVars, intent>>
  /\ UNCHANGED <<mountVars, panelVars, active, op, overlapped>>

\* interruptionIntent.
Interruption(m) ==
  IF intent[m] = "cancel" THEN "cancel"
  ELSE IF intent[m] = "pause" \/ ~authorized[m] THEN "pause" ELSE "none"

\* The answer comes in full.
Answer(l) ==
  LET m == loop[l].mount IN
  /\ Asking(l)
  /\ IF revised[m] THEN intent' = [intent EXCEPT ![m] = "pause"] /\ Interrupt(l, loop[l].batch, "pause")
     ELSE /\ UNCHANGED intent
          /\ IF Interruption(m) # "none" THEN Interrupt(l, loop[l].batch, Interruption(m))
             ELSE Complete(l, loop[l].batch)
  /\ UNCHANGED <<mountVars, panelVars, active, op, overlapped>>

\* The request fails, or is aborted.
Fail(l) ==
  LET rec == Mark([loop[l].rec EXCEPT !.status = "failed"], loop[l].batch, "failed") IN
  /\ Asking(l)
  /\ IF Interruption(loop[l].mount) # "none"
     THEN Interrupt(l, loop[l].batch, Interruption(loop[l].mount))
     ELSE Save(rec) /\ Step(l, "failing", rec)
  /\ UNCHANGED <<mountVars, panelVars, active, intent, op, overlapped>>

\* The last save is over.
End(l) ==
  /\ loop[l].stage \in {"ending", "failing"}
  /\ Quit(l, loop[l].stage = "ending")
  /\ UNCHANGED <<storeVars, mountVars, op, overlapped>>

----------------------------------------------------------------------------
(* The other operations of the runner and of the panel                     *)

\* With a run in #active, pauseTask and cancelTask only tell it, and abort its request.
Stop(m, why) ==
  /\ intent' = [intent EXCEPT ![m] = why]
  /\ loop' = IF Asking(active[m]) THEN [loop EXCEPT ![active[m]].live = FALSE] ELSE loop

Rest(rec, from, to) ==
  [rec EXCEPT !.batches = [b \in Batches |-> IF @[b] \in from THEN to ELSE @[b]]]

Over(rec) == rec.status \in {"completed", "cancelled"}

\* Pause is pressed: pauseTask, and then restore.
ClickPause(o) ==
  /\ mount # 0 /\ shown # "none" /\ Running
  /\ op[o] = Free
  /\ IF active[mount] # 0
     THEN Stop(mount, "pause") /\ Operation(o, "pause", "restoring")
     ELSE /\ Operation(o, "pause", "pausing")
          /\ UNCHANGED <<intent, loop>>
  /\ UNCHANGED <<storeVars, mountVars, panelVars, active, overlapped>>

\* pauseTask returns: Pause goes on to restore, an unmounted panel has nobody waiting.
Paused(o) ==
  IF op[o].kind = "leave" THEN op' = [op EXCEPT ![o] = Free]
  ELSE StepOp(o, "restoring", task)

\* The record pauseTask reads is there.
Pausing(o) ==
  LET rec == [Rest(op[o].rec, {"running"}, "paused") EXCEPT !.status = "paused"] IN
  /\ op[o].stage = "pausing"
  /\ IF Over(op[o].rec)
     THEN Paused(o) /\ UNCHANGED storeVars
     ELSE Save(rec) /\ WaitOp(o, "saved")
  /\ UNCHANGED <<mountVars, panelVars, runVars, overlapped>>

Saved(o) ==
  /\ op[o].stage = "saved"
  /\ Paused(o)
  /\ UNCHANGED <<storeVars, mountVars, panelVars, runVars, overlapped>>

\* Seeded bug: restore looks at the status of the task alone.
MutantRestored(rec) == [rec EXCEPT !.status = IF @ = "running" THEN "paused" ELSE @]

\* What a record left running is restored to.
Restored(rec) ==
  [Rest(rec, {"running"}, "paused") EXCEPT !.status = IF @ = "running" THEN "paused" ELSE @]

\* The panel shows what was restored.
Show(o, rec) ==
  /\ op' = [op EXCEPT ![o] = Free]
  /\ IF mount = op[o].mount
     THEN /\ shown' = rec.status
          /\ IF op[o].kind = "pause" THEN busy' = FALSE ELSE UNCHANGED busy
     ELSE UNCHANGED <<shown, busy>>

\* The record restore reads is there: saved if that changes it.
Restoring(o) ==
  LET rec == Restored(op[o].rec) IN
  /\ op[o].stage = "restoring"
  /\ IF rec = op[o].rec
     THEN Show(o, rec) /\ UNCHANGED storeVars
     ELSE Save(rec) /\ StepOp(o, "restored", rec) /\ UNCHANGED <<shown, busy>>
  /\ UNCHANGED <<mountVars, ref, runVars, overlapped>>

Restore(o) ==
  /\ op[o].stage = "restored"
  /\ Show(o, op[o].rec)
  /\ UNCHANGED <<storeVars, mountVars, ref, runVars, overlapped>>

\* The panel forgets the task that is reset.
Forget(m) ==
  IF mount = m THEN shown' = "none" /\ busy' = FALSE ELSE UNCHANGED <<shown, busy>>

\* Reset Task is pressed: cancelTask.
ClickReset(o) ==
  /\ mount # 0 /\ shown # "none" /\ ~Running
  /\ op[o] = Free
  /\ IF active[mount] # 0
     THEN Stop(mount, "cancel") /\ Forget(mount) /\ UNCHANGED op
     ELSE /\ Operation(o, "reset", "cancelling")
          /\ UNCHANGED <<intent, loop, shown, busy>>
  /\ UNCHANGED <<storeVars, mountVars, ref, active, overlapped>>

\* The record cancelTask reads is there.
Cancelling(o) ==
  LET rec == [Rest(op[o].rec, {"pending", "paused", "running"}, "cancelled")
                EXCEPT !.status = "cancelled"] IN
  /\ op[o].stage = "cancelling"
  /\ IF Over(op[o].rec)
     THEN Forget(op[o].mount) /\ op' = [op EXCEPT ![o] = Free] /\ UNCHANGED storeVars
     ELSE Save(rec) /\ WaitOp(o, "cancelled") /\ UNCHANGED <<shown, busy>>
  /\ UNCHANGED <<mountVars, ref, runVars, overlapped>>

Cancelled(o) ==
  /\ op[o].stage = "cancelled"
  /\ Forget(op[o].mount) /\ op' = [op EXCEPT ![o] = Free]
  /\ UNCHANGED <<storeVars, mountVars, ref, runVars, overlapped>>

----------------------------------------------------------------------------
(* The life of the panel                                                   *)

\* A panel that knows of no task.
NoPanel == shown' = "none" /\ busy' = FALSE /\ ref' = FALSE

\* The panel is mounted, with a runner of its own, and looks for the document's latest task.
Mount(o) ==
  /\ mount = 0 /\ mounts < MaxMounts
  /\ op[o] = Free
  /\ mounts' = mounts + 1 /\ mount' = mounts + 1
  /\ authorized' = [authorized EXCEPT ![mounts + 1] = TRUE]
  /\ NoPanel
  /\ op' = [op EXCEPT ![o] = [stage |-> "latest", kind |-> "mount", mount |-> mounts + 1]]
  /\ UNCHANGED <<storeVars, revised, runVars, overlapped>>

\* It is found, and restored.
Latest(o) ==
  /\ op[o].stage = "latest"
  /\ IF mount = op[o].mount THEN StepOp(o, "restoring", task)
     ELSE op' = [op EXCEPT ![o] = Free]
  /\ UNCHANGED <<storeVars, mountVars, panelVars, runVars, overlapped>>

\* The batch panel is unmounted, and pauses the task it is running; revoked says whether
\* the panel of the document's AI goes with it.
Unmount(o, revoked) ==
  /\ mount # 0 /\ op[o] = Free
  /\ mount' = 0 /\ NoPanel
  /\ authorized' = [m \in Mounts |-> authorized[m] /\ ~revoked]
  /\ IF ref /\ active[mount] # 0
     THEN intent' = [intent EXCEPT ![mount] = "pause"] /\ UNCHANGED op
     ELSE /\ IF ref THEN Operation(o, "leave", "pausing")
             ELSE UNCHANGED op
          /\ UNCHANGED intent
  /\ loop' = [l \in Loops |->
                IF Asking(l) /\ (revoked \/ (ref /\ active[mount] = l))
                THEN [loop[l] EXCEPT !.live = FALSE] ELSE loop[l]]
  /\ UNCHANGED <<storeVars, revised, mounts, active, overlapped>>

\* The document is edited: the present panel sees it, and those to come.
Revise ==
  /\ revised' = [m \in Mounts |-> revised[m] \/ m >= IF mount = 0 THEN mounts + 1 ELSE mount]
  /\ revised' # revised
  /\ UNCHANGED <<storeVars, panelVars, mounts, mount, authorized, runVars, op, overlapped>>

\* The page is closed, or reloaded.
Kill ==
  /\ mount' = 0 /\ NoPanel
  /\ authorized' = [m \in Mounts |-> FALSE]
  /\ loop' = [l \in Loops |-> Free] /\ op' = [o \in Ops |-> Free]
  /\ active' = [m \in Mounts |-> 0] /\ intent' = [m \in Mounts |-> "run"]
  /\ UNCHANGED <<storeVars, revised, mounts, overlapped>>

----------------------------------------------------------------------------
Init ==
  /\ task = [status |-> "paused", batches |-> [b \in Batches |-> "pending"]]
  /\ cached \in SUBSET Stored
  /\ revised = [m \in Mounts |-> FALSE]
  /\ mounts = 1 /\ mount = 1 /\ authorized = [m \in Mounts |-> m = 1]
  /\ shown = "paused" /\ busy = FALSE /\ ref = FALSE
  /\ active = [m \in Mounts |-> 0] /\ intent = [m \in Mounts |-> "run"]
  /\ loop = [l \in Loops |-> Free] /\ op = [o \in Ops |-> Free]
  /\ overlapped = FALSE

Run(l) == Enter(l) \/ Begin(l) \/ Turn(l) \/ Look(l) \/ Ask(l) \/ Answer(l) \/ Fail(l) \/ End(l)

Operate(o) ==
  \/ Pausing(o) \/ Saved(o) \/ Restoring(o) \/ Restore(o)
  \/ Cancelling(o) \/ Cancelled(o) \/ Latest(o)

Next ==
  \/ \E l \in Loops : Open(l) \/ Run(l)
  \/ \E o \in Ops : \/ ClickPause(o) \/ ClickReset(o) \/ Mount(o) \/ Operate(o)
                   \/ \E revoked \in BOOLEAN : Unmount(o, revoked)
  \/ Revise \/ Kill

Spec == Init /\ [][Next]_vars

\* A store access and a request each come to an end.
FairSpec == Spec /\ (\A l \in Loops : WF_vars(Run(l))) /\ (\A o \in Ops : WF_vars(Operate(o)))

----------------------------------------------------------------------------
(* Properties                                                              *)

\* Whatever is still being asked of the AI is asked by the run its runner holds, which has
\* not been told to stop, for a document whose authorization stands: no order of Pause, Reset,
\* unmounting and the awaits before beginRequest lets a request out that they cannot abort.
StoppedAsksNothing ==
  \A l \in Loops : Asking(l) /\ loop[l].live =>
    /\ authorized[loop[l].mount]
    /\ active[loop[l].mount] = l /\ intent[loop[l].mount] = "run"

\* A batch whose result is stored is never asked for again, over pauses, restarts of the page
\* and batches with the same key; only two runs of the task at once can ask twice.
AskedOnce ==
  [][\A l \in Loops :
       loop[l].stage = "marked" /\ loop'[l].stage = "asking" /\ loop'[l].live /\ Key[loop[l].batch] \in cached
       => overlapped]_vars

\* When the panel is there and nothing is under way, nothing is recorded as running: a batch
\* left running would be passed over by every later run (continueTask takes only pending and
\* paused ones).
NoGhostRunning ==
  mount # 0 /\ ~overlapped /\ (\A l \in Loops : loop[l] = Free) /\ (\A o \in Ops : op[o] = Free) =>
    task.status # "running" /\ \A b \in Batches : task.batches[b] # "running"
=============================================================================
