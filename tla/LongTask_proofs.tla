--------------------------- MODULE LongTask_proofs ---------------------------
(***************************************************************************)
(* Proofs about LongTask, for any number of batches, any keys and results  *)
(* of earlier tasks, any number of panels, of runs and of other operations.*)
(*                                                                         *)
(* What a request may be asked for rests on who holds it: a runner holds   *)
(* at most one run (HeldInv), so whoever stops a runner stops every run of *)
(* it.  What is recorded rests on what the records in flight may say: that *)
(* a batch is completed only with its result in the store (KeptInv), and   *)
(* that a batch is running only while the run that says so goes on         *)
(* (AloneInv), unless two runs of the task have been under way at once.    *)
(***************************************************************************)
EXTENDS LongTask, FiniteSetTheorems, TLAPS

Statuses      == {"paused", "running", "completed", "cancelled", "failed"}
BatchStatuses == Statuses \cup {"pending"}
Records       == [status: Statuses, batches: [Batches -> BatchStatuses]]

\* A call of runTaskLoop: before the run, in the run, and at a batch of it.
RunStages == {"loading", "turn", "stored", "ending", "failing"}
Runs ==
  {Free} \cup [stage: {"opening"}, mount: Mounts]
    \cup [stage: RunStages, mount: Mounts, rec: Records]
    \cup [stage: {"marked"}, mount: Mounts, rec: Records, batch: Batches]
    \cup [stage: {"looking"}, mount: Mounts, rec: Records, batch: Batches, found: BOOLEAN]
    \cup [stage: {"asking"}, mount: Mounts, rec: Records, batch: Batches, live: BOOLEAN]

\* Another operation: with the record it holds, or waiting.
HoldStages == {"pausing", "restoring", "restored", "cancelling"}
WaitStages == {"saved", "cancelled", "latest"}
Kinds      == {"pause", "leave", "reset", "mount"}
Operations ==
  {Free} \cup [stage: HoldStages, kind: Kinds, mount: Mounts, rec: Records]
    \cup [stage: WaitStages, kind: Kinds, mount: Mounts]

\* The values of the variables.
TypeInv ==
  /\ task \in Records
  /\ cached \subseteq Keys
  /\ revised \in [Mounts -> BOOLEAN] /\ authorized \in [Mounts -> BOOLEAN]
  /\ mounts \in Mounts /\ mount \in 0 .. mounts
  /\ shown \in Statuses \cup {"none"}
  /\ busy \in BOOLEAN /\ ref \in BOOLEAN /\ overlapped \in BOOLEAN
  /\ active \in [Mounts -> Loops \cup {0}]
  /\ intent \in [Mounts -> {"run", "pause", "cancel"}]
  /\ loop \in [Loops -> Runs]
  /\ op \in [Ops -> Operations]

\* A runner holds at most one run, and every run that is under way is held.
HeldInv ==
  /\ \A l \in Loops : InRun(l) => active[loop[l].mount] = l
  /\ \A m \in Mounts : active[m] # 0 => InRun(active[m]) /\ loop[active[m]].mount = m

Holds(o) == op[o].stage \in HoldStages

\* The results of the batches a record calls completed.
Results(rec) == {Key[b] : b \in {c \in Batches : rec.batches[c] = "completed"}}

\* No record is held whose results are not in the store.
KeptInv ==
  /\ Results(task) \subseteq cached
  /\ \A l \in Loops : InRun(l) => Results(loop[l].rec) \subseteq cached
  /\ \A o \in Ops : Holds(o) => Results(op[o].rec) \subseteq cached

OneRun == \A k, l \in Loops : InRun(k) /\ InRun(l) => k = l

\* A batch is marked only if the store has no result of its key, and none can come meanwhile.
LookedUp(l) ==
  /\ loop[l].stage = "looking" => (loop[l].found <=> Key[loop[l].batch] \in cached)
  /\ loop[l].stage = "marked" => Key[loop[l].batch] \notin cached

\* Nothing is recorded as running.
Ghosts(rec) == {b \in Batches : rec.batches[b] = "running"}
GhostFree(rec) == rec.status # "running" /\ Ghosts(rec) = {}

\* The only batch a run records as running is the one it asks for, and it ends with none.
OnlyMarked(l) ==
  InRun(l) =>
    /\ \A b \in Ghosts(loop[l].rec) : loop[l].stage \in {"marked", "asking"} /\ b = loop[l].batch
    /\ loop[l].stage \in {"loading", "ending", "failing"} => GhostFree(task)

\* The record is at rest, or it will be when the run ends.
Rested == GhostFree(task) \/ \E l \in Loops : InRun(l)

\* What the killed page left is shown to nobody before it is restored.
Fresh ==
  /\ shown = "none" /\ ~ref
  /\ \A l \in Loops : loop[l] = Free
  /\ \A o \in Ops : \/ op[o] = Free
                    \/ op[o].stage = "latest"
                    \/ op[o].stage = "restoring" /\ ~GhostFree(op[o].rec)
  /\ mount # 0 => \E o \in Ops : op[o] # Free /\ op[o].mount = mount

\* What holds unless two runs have been under way at once.
AloneInv ==
  ~overlapped =>
    /\ OneRun
    /\ \A l \in Loops : LookedUp(l) /\ OnlyMarked(l)
    /\ Rested \/ Fresh

IndInv == TypeInv /\ HeldInv /\ KeptInv /\ AloneInv /\ StoppedAsksNothing

--------------------------------------------------------------------------------
(* What the records are made of.                                                *)

\* The fields of a call of runTaskLoop, by its stage.
LEMMA RunFields ==
  ASSUME TypeInv, NEW l \in Loops
  PROVE  /\ loop[l].stage \in RunStages \cup {"none", "opening", "marked", "looking", "asking"}
         /\ loop[l].stage = "none" <=> loop[l] = Free
         /\ loop[l].stage # "none" => loop[l].mount \in Mounts
         /\ InRun(l) => loop[l].rec \in Records
         /\ loop[l].stage \in {"marked", "looking", "asking"} => loop[l].batch \in Batches
         /\ loop[l].stage = "looking" => loop[l].found \in BOOLEAN
         /\ Asking(l) => loop[l].live \in BOOLEAN
<1>1. loop[l] \in Runs BY DEF TypeInv
<1>2. CASE loop[l] = Free BY <1>2 DEF Free, InRun, Asking
<1>3. CASE loop[l] \in [stage: {"opening"}, mount: Mounts] BY <1>3 DEF Free, InRun, Asking
<1>4. CASE loop[l] \in [stage: RunStages, mount: Mounts, rec: Records]
  BY <1>4 DEF Free, InRun, Asking, RunStages
<1>5. CASE loop[l] \in [stage: {"marked"}, mount: Mounts, rec: Records, batch: Batches]
  BY <1>5 DEF Free, InRun, Asking
<1>6. CASE loop[l] \in [stage: {"looking"}, mount: Mounts, rec: Records, batch: Batches, found: BOOLEAN]
  BY <1>6 DEF Free, InRun, Asking
<1>7. CASE loop[l] \in [stage: {"asking"}, mount: Mounts, rec: Records, batch: Batches, live: BOOLEAN]
  BY <1>7 DEF Free, InRun, Asking
<1> QED BY <1>1, <1>2, <1>3, <1>4, <1>5, <1>6, <1>7 DEF Runs

\* The fields of another operation, by its stage.
LEMMA OperationFields ==
  ASSUME TypeInv, NEW o \in Ops
  PROVE  /\ op[o].stage \in HoldStages \cup WaitStages \cup {"none"}
         /\ op[o].stage = "none" <=> op[o] = Free
         /\ op[o].stage # "none" => op[o].kind \in Kinds /\ op[o].mount \in Mounts
         /\ Holds(o) => op[o].rec \in Records
<1>1. op[o] \in Operations BY DEF TypeInv
<1>2. CASE op[o] = Free BY <1>2 DEF Free, Holds, HoldStages
<1>3. CASE op[o] \in [stage: HoldStages, kind: Kinds, mount: Mounts, rec: Records]
  BY <1>3 DEF Free, HoldStages, Holds
<1>4. CASE op[o] \in [stage: WaitStages, kind: Kinds, mount: Mounts]
  BY <1>4 DEF Free, HoldStages, WaitStages, Holds
<1> QED BY <1>1, <1>2, <1>3, <1>4 DEF Operations

\* The states a run can be put in.
LEMMA RunStates ==
  ASSUME NEW m \in Mounts, NEW rec \in Records, NEW b \in Batches, NEW bit \in BOOLEAN
  PROVE  /\ Free \in Runs /\ [stage |-> "opening", mount |-> m] \in Runs
         /\ \A s \in RunStages : [stage |-> s, mount |-> m, rec |-> rec] \in Runs
         /\ [stage |-> "marked", mount |-> m, rec |-> rec, batch |-> b] \in Runs
         /\ [stage |-> "looking", mount |-> m, rec |-> rec, batch |-> b, found |-> bit] \in Runs
         /\ [stage |-> "asking", mount |-> m, rec |-> rec, batch |-> b, live |-> bit] \in Runs
BY DEF Runs

\* Marking a batch, laying batches to rest and changing the status leave a record one.
LEMMA RecordChanges ==
  ASSUME NEW rec \in Records, NEW s \in Statuses
  PROVE  /\ [rec EXCEPT !.status = s] \in Records
         /\ \A b \in Batches, t \in BatchStatuses : Mark(rec, b, t) \in Records
         /\ \A from, to \in SUBSET BatchStatuses : \A t \in BatchStatuses : Rest(rec, from, t) \in Records
<1>1. rec.batches \in [Batches -> BatchStatuses] BY DEF Records
<1>2. ASSUME NEW b \in Batches, NEW t \in BatchStatuses
      PROVE  Mark(rec, b, t) \in Records
  <2>1. [rec.batches EXCEPT ![b] = t] \in [Batches -> BatchStatuses] BY <1>1
  <2> QED BY <2>1 DEF Mark, Records
<1>3. ASSUME NEW from, NEW t \in BatchStatuses
      PROVE  Rest(rec, from, t) \in Records
  <2>1. [b \in Batches |-> IF rec.batches[b] \in from THEN t ELSE rec.batches[b]] \in [Batches -> BatchStatuses]
    BY <1>1
  <2> QED BY <2>1 DEF Rest, Records
<1> QED BY <1>2, <1>3 DEF Records

--------------------------------------------------------------------------------
(* The values of the variables.                                                 *)

\* A save keeps the stored record a record and adds results of the task's keys.
LEMMA SaveTypes ==
  ASSUME TypeInv, NEW rec \in Records, Save(rec)
  PROVE  task' \in Records /\ cached' \subseteq Keys /\ cached \subseteq cached'
BY TaskAssumption DEF Save, TypeInv, Batches

\* The first of the batches left is one of them.
LEMMA FirstBatch ==
  ASSUME NEW todo \in SUBSET Batches, todo # {}
  PROVE  Min(todo) \in todo
<1>1. PICK n \in todo : TRUE OBVIOUS
<1>2. todo \subseteq Nat BY TaskAssumption DEF Batches
<1>3. \E b \in todo : \A c \in todo : b <= c
  <2> DEFINE Below(k) == 0 .. k
             Initial  == {Below(k) : k \in {j \in todo : j <= n}}
  <2>1. Initial \subseteq SUBSET (0 .. n) /\ Initial # {} BY <1>1, <1>2
  <2>2. IsWellFoundedOn(StrictSubsetOrdering(0 .. n), SUBSET (0 .. n))
    <3>1. IsFiniteSet(0 .. n) BY <1>1, <1>2, FS_Interval
    <3>2. FiniteSubsetsOf(0 .. n) = SUBSET (0 .. n) BY <3>1, FS_FiniteSubsetsOfFinite
    <3> QED BY <3>2, FS_StrictSubsetOrderingWellFounded
  <2>3. PICK A \in Initial : \A B \in Initial : <<B, A>> \notin StrictSubsetOrdering(0 .. n)
    <3> HIDE DEF Initial
    <3> QED BY <2>1, <2>2, WFMin
  <2>4. PICK b \in todo : b <= n /\ A = 0 .. b BY <2>3
  <2>5. ASSUME NEW c \in todo, c < b PROVE FALSE
    <3>1. (0 .. c) \in Initial BY <2>4, <2>5, <1>1, <1>2
    <3>2. (0 .. c) \subseteq (0 .. b) /\ (0 .. c) # (0 .. b) BY <2>4, <2>5, <1>2
    <3>3. <<0 .. c, 0 .. b>> \in StrictSubsetOrdering(0 .. n)
      BY <2>1, <2>3, <2>4, <3>1, <3>2 DEF StrictSubsetOrdering
    <3> QED BY <2>3, <2>4, <3>1, <3>3
  <2> QED BY <2>4, <2>5, <1>2
<1> QED BY <1>3 DEF Min

\* A run that goes on in a stage without a batch.
LEMMA StepTypes ==
  ASSUME TypeInv, NEW l \in Loops, loop[l].stage # "none", NEW s \in RunStages, NEW rec \in Records,
         Step(l, s, rec)
  PROVE  loop' \in [Loops -> Runs]
<1>1. loop[l].mount \in Mounts BY RunFields
<1>2. [stage |-> s, mount |-> loop[l].mount, rec |-> rec] \in Runs BY <1>1 DEF Runs
<1> QED BY <1>2 DEF Step, TypeInv

\* A batch is interrupted, or completed.
LEMMA BatchTypes ==
  ASSUME TypeInv, NEW l \in Loops, InRun(l), NEW b \in Batches, NEW why,
         Interrupt(l, b, why) \/ Complete(l, b)
  PROVE  task' \in Records /\ cached' \subseteq Keys /\ loop' \in [Loops -> Runs]
<1>1. loop[l].rec \in Records /\ loop[l].stage # "none" BY RunFields DEF InRun
<1>2. CASE Interrupt(l, b, why)
  <2> DEFINE s == IF why = "cancel" THEN "cancelled" ELSE "paused"
             rec == Mark([loop[l].rec EXCEPT !.status = s], b, s)
  <2>1. s \in Statuses /\ s \in BatchStatuses BY DEF Statuses, BatchStatuses
  <2>2. rec \in Records BY <1>1, <2>1, RecordChanges
  <2>3. Save(rec) /\ Step(l, "ending", rec) BY <1>2 DEF Interrupt
  <2> QED BY <1>1, <2>2, <2>3, SaveTypes, StepTypes DEF RunStages
<1>3. CASE Complete(l, b)
  <2> DEFINE rec == Mark(loop[l].rec, b, "completed")
  <2>2. rec \in Records BY <1>1, RecordChanges DEF Statuses, BatchStatuses
  <2>3. Save(rec) /\ Step(l, "stored", rec) BY <1>3 DEF Complete
  <2> QED BY <1>1, <2>2, <2>3, SaveTypes, StepTypes DEF RunStages
<1> QED BY <1>2, <1>3

\* A run returns, or throws.
LEMMA QuitTypes ==
  ASSUME TypeInv, NEW l \in Loops, NEW returned \in BOOLEAN, Quit(l, returned),
         loop[l].stage # "none", returned => InRun(l)
  PROVE  /\ loop' \in [Loops -> Runs]
         /\ active' \in [Mounts -> Loops \cup {0}] /\ intent' \in [Mounts -> {"run", "pause", "cancel"}]
         /\ busy' \in BOOLEAN /\ ref' \in BOOLEAN /\ shown' \in Statuses \cup {"none"}
<1>1. loop[l].mount \in Mounts /\ (returned => loop[l].rec \in Records) BY RunFields
<1>2. loop[l].rec \in Records => loop[l].rec.status \in Statuses BY DEF Records
<1>3. loop' \in [Loops -> Runs] BY DEF Quit, TypeInv, Runs
<1>4. active' \in [Mounts -> Loops \cup {0}] /\ intent' \in [Mounts -> {"run", "pause", "cancel"}]
  BY <1>1 DEF Quit, TypeInv
<1>5. busy' \in BOOLEAN /\ ref' \in BOOLEAN BY DEF Quit, TypeInv
<1>6. shown' \in Statuses \cup {"none"} BY <1>1, <1>2 DEF Quit, TypeInv
<1> QED BY <1>3, <1>4, <1>5, <1>6

\* The next turn of a run, and the end of its turns.
LEMMA TurnTypes ==
  ASSUME TypeInv, NEW l \in Loops, InRun(l), Turn(l)
  PROVE  task' \in Records /\ cached' \subseteq Keys /\ loop' \in [Loops -> Runs]
<1> DEFINE todo == {b \in Batches : loop[l].rec.batches[b] \in {"pending", "paused"}}
<1>1. loop[l].rec \in Records /\ loop[l].stage # "none" /\ loop[l].mount \in Mounts BY RunFields DEF InRun
<1>2. CASE todo = {}
  <2>1. PICK s \in Statuses : Save([loop[l].rec EXCEPT !.status = s])
                              /\ Step(l, "ending", [loop[l].rec EXCEPT !.status = s])
    <3>1. Conclude(l) BY <1>2 DEF Turn
    <3> QED BY <3>1 DEF Conclude, Statuses
  <2>2. [loop[l].rec EXCEPT !.status = s] \in Records BY <1>1, RecordChanges
  <2> QED BY <1>1, <2>1, <2>2, SaveTypes, StepTypes DEF RunStages
<1>3. CASE todo # {}
  <2> DEFINE b == Min(todo)
  <2>1. b \in Batches BY <1>3, FirstBatch
  <2>2. TakeTurn(l, b) BY <1>3 DEF Turn
  <2> HIDE DEF b
  <2>3. \/ \E why : Interrupt(l, b, why)
        \/ Complete(l, b)
        \/ LookUp(l, loop[l].rec, b) /\ UNCHANGED storeVars
    BY <2>2 DEF TakeTurn
  <2>4. CASE LookUp(l, loop[l].rec, b) /\ UNCHANGED storeVars
    <3>1. [stage |-> "looking", mount |-> loop[l].mount, rec |-> loop[l].rec, batch |-> b,
           found |-> Key[b] \in cached] \in Runs
      BY <1>1, <2>1 DEF Runs
    <3>2. loop' \in [Loops -> Runs] BY <2>4, <3>1 DEF LookUp, TypeInv
    <3> QED BY <2>4, <3>2 DEF storeVars, TypeInv
  <2> QED BY <2>1, <2>3, <2>4, BatchTypes
<1> QED BY <1>2, <1>3

\* Every step of a run.
LEMMA RunTypes ==
  ASSUME TypeInv, NEW l \in Loops, Run(l)
  PROVE  TypeInv'
<1> USE DEF storeVars, mountVars, panelVars, runVars
<1> DEFINE m == loop[l].mount
<1>1. loop[l].stage # "none" /\ m \in Mounts
  BY RunFields DEF Run, Enter, Begin, Turn, Look, Ask, Answer, Fail, End, Asking
<1>2. InRun(l) => loop[l].rec \in Records BY RunFields
<1>3. CASE Enter(l)
  <2>1. CASE revised[m] \/ active[m] # 0
    <3>1. Quit(l, FALSE) BY <1>3, <2>1 DEF Enter
    <3> QED BY <1>1, <1>3, <2>1, <3>1, QuitTypes DEF Enter, TypeInv
  <2>2. CASE ~(revised[m] \/ active[m] # 0)
    <3>1. Step(l, "loading", task) BY <1>3, <2>2 DEF Enter
    <3>2. loop' \in [Loops -> Runs] BY <1>1, <3>1, StepTypes DEF TypeInv, RunStages
    <3> QED BY <1>1, <1>3, <2>2, <3>2 DEF Enter, TypeInv
  <2> QED BY <2>1, <2>2
<1>4. CASE Begin(l)
  <2>0. InRun(l) BY <1>4 DEF Begin, InRun
  <2>1. CASE (Quit(l, TRUE) \/ Quit(l, FALSE)) /\ UNCHANGED storeVars
    BY <1>1, <1>4, <2>0, <2>1, QuitTypes DEF Begin, TypeInv
  <2>2. CASE \E now \in Records : Save(now) /\ Step(l, "turn", now) /\ UNCHANGED <<active, intent, busy, ref, shown>>
    <3>1. task' \in Records /\ cached' \subseteq Keys /\ loop' \in [Loops -> Runs]
      BY <1>1, <2>2, SaveTypes, StepTypes DEF RunStages
    <3> QED BY <1>4, <2>2, <3>1 DEF Begin, TypeInv
  <2>3. [loop[l].rec EXCEPT !.status = "running"] \in Records BY <1>2, <2>0, RecordChanges DEF Statuses
  <2> QED BY <1>4, <2>1, <2>2, <2>3 DEF Begin
<1>5. CASE Turn(l)
  <2>0. InRun(l) BY <1>5 DEF Turn, InRun
  <2>1. task' \in Records /\ cached' \subseteq Keys /\ loop' \in [Loops -> Runs] BY <1>5, <2>0, TurnTypes
  <2>2. loop[l].rec.status \in Statuses BY <1>2, <2>0 DEF Records
  <2>3. shown' \in Statuses \cup {"none"} BY <1>5, <2>2 DEF Turn, TypeInv
  <2> QED BY <1>5, <2>1, <2>3 DEF Turn, TypeInv
<1>6. CASE Look(l)
  <2> DEFINE rec == Mark(loop[l].rec, loop[l].batch, "running")
  <2>0. InRun(l) /\ loop[l].batch \in Batches BY <1>6, RunFields DEF Look, InRun
  <2>1. CASE Complete(l, loop[l].batch)
    <3>1. task' \in Records /\ cached' \subseteq Keys /\ loop' \in [Loops -> Runs]
      BY <2>0, <2>1, BatchTypes
    <3> QED BY <1>6, <3>1 DEF Look, TypeInv
  <2>2. CASE Save(rec) /\ MarkBatch(l, rec, loop[l].batch)
    <3>1. rec \in Records BY <1>2, <2>0, RecordChanges DEF Statuses, BatchStatuses
    <3>2. task' \in Records /\ cached' \subseteq Keys BY <2>2, <3>1, SaveTypes
    <3>3. [stage |-> "marked", mount |-> m, rec |-> rec, batch |-> loop[l].batch] \in Runs
      BY <1>1, <2>0, <3>1 DEF Runs
    <3>4. loop' \in [Loops -> Runs] BY <2>2, <3>3 DEF MarkBatch, TypeInv
    <3> QED BY <1>6, <3>2, <3>4 DEF Look, TypeInv
  <2> QED BY <1>6, <2>1, <2>2 DEF Look
<1>7. CASE Ask(l) \/ Answer(l) \/ Fail(l)
  <2>0. InRun(l) /\ loop[l].batch \in Batches BY <1>7, RunFields DEF Ask, Answer, Fail, Asking, InRun
  <2>1. CASE \E why : Interrupt(l, loop[l].batch, why) \/ Complete(l, loop[l].batch)
    <3>1. task' \in Records /\ cached' \subseteq Keys /\ loop' \in [Loops -> Runs]
      BY <2>0, <2>1, BatchTypes
    <3>2. intent' \in [Mounts -> {"run", "pause", "cancel"}]
      BY <1>1, <1>7 DEF Ask, Answer, Fail, TypeInv
    <3> QED BY <1>7, <3>1, <3>2 DEF Ask, Answer, Fail, TypeInv
  <2>2. CASE Ask(l) /\ Request(l, Signal(m)) /\ UNCHANGED <<storeVars, intent>>
    <3>1. [stage |-> "asking", mount |-> m, rec |-> loop[l].rec, batch |-> loop[l].batch,
           live |-> Signal(m)] \in Runs
      BY <1>1, <1>2, <2>0 DEF Runs, Signal
    <3>2. loop' \in [Loops -> Runs] BY <2>2, <3>1 DEF Request, TypeInv
    <3> QED BY <2>2, <3>2 DEF Ask, TypeInv
  <2>3. CASE \E rec \in Records : Save(rec) /\ Step(l, "failing", rec) /\ Fail(l)
    <3>1. task' \in Records /\ cached' \subseteq Keys /\ loop' \in [Loops -> Runs]
      BY <1>1, <2>3, SaveTypes, StepTypes DEF RunStages
    <3> QED BY <2>3, <3>1 DEF Fail, TypeInv
  <2>4. Mark([loop[l].rec EXCEPT !.status = "failed"], loop[l].batch, "failed") \in Records
    BY <1>2, <2>0, RecordChanges DEF Statuses, BatchStatuses
  <2> QED BY <1>7, <2>1, <2>2, <2>3, <2>4 DEF Ask, Answer, Fail
<1>8. CASE End(l)
  <2>1. InRun(l) /\ Quit(l, loop[l].stage = "ending") BY <1>8 DEF End, InRun
  <2> QED BY <1>1, <1>8, <2>1, QuitTypes DEF End, TypeInv
<1> QED BY <1>3, <1>4, <1>5, <1>6, <1>7, <1>8 DEF Run

\* An operation that goes on with a record, or waits for a save.
LEMMA OperationStates ==
  ASSUME TypeInv, NEW o \in Ops, op[o].stage # "none", NEW s, NEW rec,
         \/ StepOp(o, s, rec) /\ s \in HoldStages /\ rec \in Records
         \/ WaitOp(o, s) /\ s \in WaitStages
         \/ op' = [op EXCEPT ![o] = Free]
  PROVE  op' \in [Ops -> Operations]
<1>1. op[o].kind \in Kinds /\ op[o].mount \in Mounts BY OperationFields
<1>2. CASE StepOp(o, s, rec) /\ s \in HoldStages /\ rec \in Records
  <2>1. [stage |-> s, kind |-> op[o].kind, mount |-> op[o].mount, rec |-> rec] \in Operations
    BY <1>1, <1>2 DEF Operations
  <2> QED BY <1>2, <2>1 DEF StepOp, TypeInv
<1>3. CASE WaitOp(o, s) /\ s \in WaitStages
  <2>1. [stage |-> s, kind |-> op[o].kind, mount |-> op[o].mount] \in Operations
    BY <1>1, <1>3 DEF Operations
  <2> QED BY <1>3, <2>1 DEF WaitOp, TypeInv
<1>4. CASE op' = [op EXCEPT ![o] = Free] BY <1>4 DEF TypeInv, Operations
<1> QED BY <1>2, <1>3, <1>4

\* Every step of another operation.
LEMMA OperateTypes ==
  ASSUME TypeInv, NEW o \in Ops, Operate(o)
  PROVE  TypeInv'
<1> USE DEF storeVars, mountVars, panelVars, runVars
<1>1. op[o].stage # "none"
  BY DEF Operate, Pausing, Saved, Restoring, Restore, Cancelling, Cancelled, Latest
<1>2. Holds(o) => op[o].rec \in Records BY OperationFields
<1>3. ASSUME Paused(o) PROVE op' \in [Ops -> Operations]
  <2>1. task \in Records BY DEF TypeInv
  <2> QED BY <1>1, <1>3, <2>1, OperationStates DEF Paused, HoldStages
<1>4. ASSUME NEW rec \in Records, Show(o, rec)
      PROVE  op' \in [Ops -> Operations] /\ shown' \in Statuses \cup {"none"} /\ busy' \in BOOLEAN
  <2>1. op' \in [Ops -> Operations] BY <1>1, <1>4, OperationStates DEF Show
  <2> QED BY <1>4, <2>1 DEF Show, TypeInv, Records
<1>5. CASE Pausing(o)
  <2> DEFINE rec == [Rest(op[o].rec, {"running"}, "paused") EXCEPT !.status = "paused"]
  <2>1. op[o].rec \in Records BY <1>2, <1>5 DEF Pausing, Holds, HoldStages
  <2>2. CASE Paused(o) /\ UNCHANGED storeVars BY <1>3, <1>5, <2>2 DEF Pausing, TypeInv
  <2>3. CASE Save(rec) /\ WaitOp(o, "saved")
    <3>1. Rest(op[o].rec, {"running"}, "paused") \in Records
      BY <2>1, RecordChanges DEF Statuses, BatchStatuses
    <3>2. rec \in Records BY <3>1, RecordChanges DEF Statuses
    <3>3. task' \in Records /\ cached' \subseteq Keys BY <2>3, <3>2, SaveTypes
    <3>4. op' \in [Ops -> Operations] BY <1>1, <2>3, OperationStates DEF WaitStages
    <3> QED BY <1>5, <3>3, <3>4 DEF Pausing, TypeInv
  <2> QED BY <1>5, <2>2, <2>3 DEF Pausing
<1>6. CASE Saved(o) BY <1>3, <1>6 DEF Saved, TypeInv
<1>7. CASE Restoring(o)
  <2> DEFINE rec == Restored(op[o].rec)
  <2>1. op[o].rec \in Records BY <1>2, <1>7 DEF Restoring, Holds, HoldStages
  <2>2. Rest(op[o].rec, {"running"}, "paused") \in Records
    BY <2>1, RecordChanges DEF Statuses, BatchStatuses
  <2>3. Rest(op[o].rec, {"running"}, "paused").status \in Statuses BY <2>2 DEF Records
  <2>4. rec \in Records BY <2>2, <2>3, RecordChanges DEF Restored, Statuses
  <2>5. CASE Show(o, rec) /\ UNCHANGED storeVars BY <1>4, <1>7, <2>4, <2>5 DEF Restoring, TypeInv
  <2>6. CASE Save(rec) /\ StepOp(o, "restored", rec) /\ UNCHANGED <<shown, busy>>
    <3>1. task' \in Records /\ cached' \subseteq Keys BY <2>4, <2>6, SaveTypes
    <3>2. op' \in [Ops -> Operations] BY <1>1, <2>4, <2>6, OperationStates DEF HoldStages
    <3> QED BY <1>7, <2>6, <3>1, <3>2 DEF Restoring, TypeInv
  <2> QED BY <1>7, <2>5, <2>6 DEF Restoring
<1>8. CASE Restore(o)
  <2>1. op[o].rec \in Records BY <1>2, <1>8 DEF Restore, Holds, HoldStages
  <2> QED BY <1>4, <1>8, <2>1 DEF Restore, TypeInv
<1>9. CASE Cancelling(o)
  <2> DEFINE resting == Rest(op[o].rec, {"pending", "paused", "running"}, "cancelled")
             rec == [resting EXCEPT !.status = "cancelled"]
  <2>1. op[o].rec \in Records BY <1>2, <1>9 DEF Cancelling, Holds, HoldStages
  <2>2. CASE Forget(op[o].mount) /\ op' = [op EXCEPT ![o] = Free] /\ UNCHANGED storeVars
    <3>1. op' \in [Ops -> Operations] BY <1>1, <2>2, OperationStates
    <3> QED BY <1>9, <2>2, <3>1 DEF Cancelling, Forget, TypeInv
  <2>3. CASE Save(rec) /\ WaitOp(o, "cancelled") /\ UNCHANGED <<shown, busy>>
    <3>1. resting \in Records BY <2>1, RecordChanges DEF Statuses, BatchStatuses
    <3>2. rec \in Records BY <3>1, RecordChanges DEF Statuses
    <3>3. task' \in Records /\ cached' \subseteq Keys BY <2>3, <3>2, SaveTypes
    <3>4. op' \in [Ops -> Operations] BY <1>1, <2>3, OperationStates DEF WaitStages
    <3> QED BY <1>9, <2>3, <3>3, <3>4 DEF Cancelling, TypeInv
  <2> QED BY <1>9, <2>2, <2>3 DEF Cancelling
<1>10. CASE Cancelled(o)
  <2>1. op' \in [Ops -> Operations] BY <1>1, <1>10, OperationStates DEF Cancelled
  <2> QED BY <1>10, <2>1 DEF Cancelled, Forget, TypeInv
<1>11. CASE Latest(o)
  <2>1. op' \in [Ops -> Operations] BY <1>1, <1>11, OperationStates DEF Latest, HoldStages, TypeInv
  <2> QED BY <1>11, <2>1 DEF Latest, TypeInv
<1> QED BY <1>5, <1>6, <1>7, <1>8, <1>9, <1>10, <1>11 DEF Operate

\* A run is told to stop: its request is aborted, and nothing else of it changes.
Aborted(l) == [loop[l] EXCEPT !.live = FALSE]

LEMMA AbortTypes ==
  ASSUME TypeInv, NEW l \in Loops, Asking(l)
  PROVE  /\ Aborted(l) \in Runs /\ ~Aborted(l).live
         /\ Aborted(l).stage = "asking" /\ Aborted(l).mount = loop[l].mount
         /\ Aborted(l).rec = loop[l].rec /\ Aborted(l).batch = loop[l].batch
<1>1. loop[l] \in [stage: {"asking"}, mount: Mounts, rec: Records, batch: Batches, live: BOOLEAN]
  BY DEF TypeInv, Runs, Asking, Free, RunStages
<1> QED BY <1>1 DEF Aborted, Runs

LEMMA StopTypes ==
  ASSUME TypeInv, HeldInv, NEW m \in Mounts, active[m] # 0, NEW why \in {"pause", "cancel"}, Stop(m, why)
  PROVE  loop' \in [Loops -> Runs] /\ intent' \in [Mounts -> {"run", "pause", "cancel"}]
<1>1. active[m] \in Loops BY DEF TypeInv
<1>2. Asking(active[m]) => Aborted(active[m]) \in Runs BY <1>1, AbortTypes
<1>3. loop' \in [Loops -> Runs] BY <1>1, <1>2 DEF Stop, TypeInv, Aborted
<1> QED BY <1>3 DEF Stop, TypeInv

\* The steps of the panel.
LEMMA PanelTypes ==
  ASSUME TypeInv, HeldInv
  PROVE  /\ \A l \in Loops : Open(l) => TypeInv'
         /\ \A o \in Ops : ClickPause(o) \/ ClickReset(o) \/ Mount(o) => TypeInv'
         /\ \A o \in Ops, revoked \in BOOLEAN : Unmount(o, revoked) => TypeInv'
         /\ Revise \/ Kill => TypeInv'
<1> USE DEF storeVars, mountVars, panelVars, runVars
<1>1. mount # 0 => mount \in Mounts BY TaskAssumption DEF TypeInv, Mounts
<1>2. ASSUME NEW o \in Ops, NEW kind \in Kinds, NEW s \in HoldStages, Operation(o, kind, s), mount # 0
      PROVE  op' \in [Ops -> Operations]
  <2>1. [stage |-> s, kind |-> kind, mount |-> mount, rec |-> task] \in Operations
    BY <1>1, <1>2 DEF Operations, TypeInv
  <2> QED BY <1>2, <2>1 DEF Operation, TypeInv
<1>3. ASSUME NEW l \in Loops, Open(l) PROVE TypeInv'
  <2>1. [stage |-> "opening", mount |-> mount] \in Runs BY <1>1, <1>3 DEF Open, Runs
  <2>2. loop' \in [Loops -> Runs] BY <1>3, <2>1 DEF Open, TypeInv
  <2> QED BY <1>3, <2>2 DEF Open, TypeInv
<1>4. ASSUME NEW o \in Ops, ClickPause(o) PROVE TypeInv'
  <2>1. op' \in [Ops -> Operations] BY <1>2, <1>4 DEF ClickPause, HoldStages, Kinds
  <2>2. loop' \in [Loops -> Runs] /\ intent' \in [Mounts -> {"run", "pause", "cancel"}]
    BY <1>1, <1>4, StopTypes DEF ClickPause, TypeInv
  <2> QED BY <1>4, <2>1, <2>2 DEF ClickPause, TypeInv
<1>5. ASSUME NEW o \in Ops, ClickReset(o) PROVE TypeInv'
  <2>1. op' \in [Ops -> Operations] BY <1>2, <1>5 DEF ClickReset, HoldStages, Kinds, TypeInv
  <2>2. loop' \in [Loops -> Runs] /\ intent' \in [Mounts -> {"run", "pause", "cancel"}]
    BY <1>1, <1>5, StopTypes DEF ClickReset, TypeInv
  <2>3. shown' \in Statuses \cup {"none"} /\ busy' \in BOOLEAN BY <1>5 DEF ClickReset, Forget, TypeInv
  <2> QED BY <1>5, <2>1, <2>2, <2>3 DEF ClickReset, TypeInv
<1>6. ASSUME NEW o \in Ops, Mount(o) PROVE TypeInv'
  <2>1. mounts + 1 \in Mounts /\ mounts \in Nat BY <1>6, TaskAssumption DEF Mount, TypeInv, Mounts
  <2>2. [stage |-> "latest", kind |-> "mount", mount |-> mounts + 1] \in Operations
    BY <2>1 DEF Operations, WaitStages, Kinds
  <2>3. op' \in [Ops -> Operations] BY <1>6, <2>2 DEF Mount, TypeInv
  <2>4. authorized' \in [Mounts -> BOOLEAN] BY <1>6, <2>1 DEF Mount, TypeInv
  <2>5. mount' \in 0 .. mounts' BY <1>6, <2>1 DEF Mount
  <2> QED BY <1>6, <2>1, <2>3, <2>4, <2>5 DEF Mount, NoPanel, TypeInv
<1>7. ASSUME NEW o \in Ops, NEW revoked \in BOOLEAN, Unmount(o, revoked) PROVE TypeInv'
  <2>1. op' \in [Ops -> Operations] BY <1>2, <1>7 DEF Unmount, HoldStages, Kinds, TypeInv
  <2>2. \A l \in Loops : Asking(l) => Aborted(l) \in Runs BY AbortTypes
  <2>3. loop' \in [Loops -> Runs] BY <1>7, <2>2 DEF Unmount, Aborted, TypeInv
  <2>4. intent' \in [Mounts -> {"run", "pause", "cancel"}] BY <1>1, <1>7 DEF Unmount, TypeInv
  <2>5. authorized' \in [Mounts -> BOOLEAN] BY <1>7 DEF Unmount, TypeInv
  <2>6. mount' \in 0 .. mounts BY <1>7, TaskAssumption DEF Unmount, TypeInv, Mounts
  <2> QED BY <1>7, <2>1, <2>3, <2>4, <2>5, <2>6 DEF Unmount, NoPanel, TypeInv
<1>8. ASSUME Revise PROVE TypeInv'
  <2>1. revised' \in [Mounts -> BOOLEAN] BY <1>8 DEF Revise, TypeInv
  <2> QED BY <1>8, <2>1 DEF Revise, TypeInv
<1>9. ASSUME Kill PROVE TypeInv'
  <2>1. loop' \in [Loops -> Runs] /\ op' \in [Ops -> Operations] BY <1>9 DEF Kill, Runs, Operations
  <2>2. mount' \in 0 .. mounts BY <1>9, TaskAssumption DEF Kill, TypeInv, Mounts
  <2> QED BY <1>9, <2>1, <2>2 DEF Kill, NoPanel, TypeInv
<1> QED BY <1>3, <1>4, <1>5, <1>6, <1>7, <1>8, <1>9

--------------------------------------------------------------------------------
(* A run that is asking is held by its runner and has not been told to stop.    *)

\* A run goes on in its runner; it asks only if nothing stops it.
GoesOn(l) ==
  /\ InRun(l) /\ InRun(l)'
  /\ \A k \in Loops : k # l => loop'[k] = loop[k]
  /\ loop'[l].mount = loop[l].mount
  /\ active' = active
  /\ intent' = intent \/ intent' = [intent EXCEPT ![loop[l].mount] = "pause"]
  /\ loop'[l].stage = "asking" /\ loop'[l].live =>
       authorized[loop[l].mount] /\ intent'[loop[l].mount] = "run"

\* A run begins where its runner has none.
Enters(l) ==
  /\ loop[l].stage = "opening" /\ active[loop[l].mount] = 0
  /\ Step(l, "loading", task)
  /\ active' = [active EXCEPT ![loop[l].mount] = l]
  /\ intent' = [intent EXCEPT ![loop[l].mount] = "run"]

LEMMA RunMoves ==
  ASSUME TypeInv, NEW l \in Loops, Run(l)
  PROVE  /\ authorized' = authorized
         /\ \/ GoesOn(l)
            \/ Enters(l)
            \/ loop[l].stage # "none" /\ \E returned \in BOOLEAN : Quit(l, returned)
<1> USE DEF storeVars, mountVars, panelVars, runVars
<1> DEFINE m == loop[l].mount
<1>1. loop[l].stage # "none" /\ m \in Mounts
  BY RunFields DEF Run, Enter, Begin, Turn, Look, Ask, Answer, Fail, End, Asking
<1>2. authorized' = authorized
  BY DEF Run, Enter, Begin, Turn, Look, Ask, Answer, Fail, End
<1>3. ASSUME NEW s \in RunStages, NEW rec, InRun(l), active' = active,
             intent' = intent \/ intent' = [intent EXCEPT ![m] = "pause"],
             Step(l, s, rec)
      PROVE  GoesOn(l)
  <2>1. loop'[l] = [stage |-> s, mount |-> m, rec |-> rec] BY <1>3 DEF Step, TypeInv
  <2>2. \A k \in Loops : k # l => loop'[k] = loop[k] BY <1>3 DEF Step, TypeInv
  <2>3. loop'[l].stage = s /\ loop'[l].mount = m BY <2>1
  <2>4. s \notin {"none", "opening", "asking"} BY DEF RunStages
  <2> QED BY <1>3, <2>2, <2>3, <2>4 DEF GoesOn, InRun
<1>4. ASSUME NEW b, NEW why, Interrupt(l, b, why) \/ Complete(l, b), InRun(l), active' = active,
             intent' = intent \/ intent' = [intent EXCEPT ![m] = "pause"]
      PROVE  GoesOn(l)
  BY <1>3, <1>4 DEF Interrupt, Complete, RunStages
<1>5. CASE Enter(l) BY <1>5 DEF Enter, Enters
<1>6. CASE Begin(l)
  <2>1. InRun(l) BY <1>6 DEF Begin, InRun
  <2> QED BY <1>1, <1>3, <1>6, <2>1 DEF Begin, RunStages
<1>7. CASE Turn(l)
  <2> DEFINE todo == {b \in Batches : loop[l].rec.batches[b] \in {"pending", "paused"}}
  <2>1. InRun(l) /\ active' = active /\ intent' = intent BY <1>7 DEF Turn, InRun
  <2>2. \/ Conclude(l)
        \/ \E b : TakeTurn(l, b)
    BY <1>7 DEF Turn
  <2>3. CASE Conclude(l) BY <1>2, <1>3, <2>1, <2>3 DEF Conclude, RunStages
  <2>4. ASSUME NEW b, TakeTurn(l, b) PROVE GoesOn(l)
    <3>1. CASE LookUp(l, loop[l].rec, b)
      <4>1. loop'[l].stage = "looking" /\ loop'[l].mount = m /\ \A k \in Loops : k # l => loop'[k] = loop[k]
        BY <3>1 DEF LookUp, TypeInv
      <4> QED BY <2>1, <4>1 DEF GoesOn, InRun
    <3>2. CASE ~LookUp(l, loop[l].rec, b) BY <1>4, <2>1, <2>4, <3>2 DEF TakeTurn
    <3> QED BY <3>1, <3>2
  <2> QED BY <1>2, <2>2, <2>3, <2>4
<1>8. CASE Look(l)
  <2>1. InRun(l) /\ active' = active /\ intent' = intent BY <1>8 DEF Look, InRun
  <2>2. CASE Complete(l, loop[l].batch) BY <1>2, <1>4, <2>1, <2>2
  <2>3. CASE ~Complete(l, loop[l].batch)
    <3>1. loop'[l].stage = "marked" /\ loop'[l].mount = m /\ \A k \in Loops : k # l => loop'[k] = loop[k]
      BY <1>8, <2>3 DEF Look, MarkBatch, TypeInv
    <3> QED BY <1>2, <2>1, <3>1 DEF GoesOn, InRun
  <2> QED BY <2>2, <2>3
<1>9. CASE Ask(l)
  <2>1. InRun(l) /\ active' = active BY <1>9 DEF Ask, InRun
  <2>2. CASE authorized[m] /\ ~revised[m]
    <3>1. Request(l, Signal(m)) /\ intent' = intent BY <1>9, <2>2 DEF Ask
    <3>2. /\ loop'[l].stage = "asking" /\ loop'[l].mount = m /\ loop'[l].live = Signal(m)
          /\ \A k \in Loops : k # l => loop'[k] = loop[k]
      BY <3>1 DEF Request, TypeInv
    <3> QED BY <1>2, <2>1, <2>2, <3>1, <3>2 DEF GoesOn, InRun, Signal
  <2>3. CASE ~(authorized[m] /\ ~revised[m]) BY <1>2, <1>4, <1>9, <2>1, <2>3 DEF Ask
  <2> QED BY <2>2, <2>3
<1>10. CASE Answer(l)
  <2>1. InRun(l) /\ active' = active BY <1>10 DEF Answer, Asking, InRun
  <2> QED BY <1>2, <1>4, <1>10, <2>1 DEF Answer
<1>11. CASE Fail(l)
  <2>1. InRun(l) /\ active' = active /\ intent' = intent BY <1>11 DEF Fail, Asking, InRun
  <2> QED BY <1>2, <1>3, <1>4, <1>11, <2>1 DEF Fail, RunStages
<1>12. CASE End(l) BY <1>1, <1>2, <1>12 DEF End
<1> QED BY <1>5, <1>6, <1>7, <1>8, <1>9, <1>10, <1>11, <1>12 DEF Run

LEMMA RunHeld ==
  ASSUME TypeInv, HeldInv, StoppedAsksNothing, NEW l \in Loops, Run(l)
  PROVE  HeldInv' /\ StoppedAsksNothing'
<1> DEFINE m == loop[l].mount
<1>0. 0 \notin Loops BY TaskAssumption
<1>1. authorized' = authorized BY RunMoves
<1>2. \A k \in Loops : loop[k].stage # "none" => loop[k].mount \in Mounts BY RunFields
<1>3. \A k \in Loops : Asking(k) => InRun(k) BY DEF Asking, InRun
<1>4. active \in [Mounts -> Loops \cup {0}] /\ intent \in [Mounts -> {"run", "pause", "cancel"}]
      /\ loop \in [Loops -> Runs]
  BY DEF TypeInv
<1>5. CASE GoesOn(l)
  <2>1. m \in Mounts /\ InRun(l) /\ active[m] = l BY <1>2, <1>5 DEF GoesOn, HeldInv, InRun
  <2>2. \A k \in Loops : InRun(k)' <=> InRun(k) BY <1>5 DEF GoesOn, InRun
  <2>3. \A k \in Loops : loop'[k].mount = loop[k].mount BY <1>5 DEF GoesOn
  <2>4. HeldInv'
    <3>1. \A k \in Loops : InRun(k)' => active'[loop'[k].mount] = k BY <1>5, <2>2, <2>3 DEF GoesOn, HeldInv
    <3>2. ASSUME NEW n \in Mounts, active'[n] # 0 PROVE loop'[active'[n]].stage \notin {"none", "opening"} /\ loop'[active'[n]].mount = n
      BY <1>4, <1>5, <2>2, <2>3, <3>2 DEF GoesOn, HeldInv, InRun
    <3> QED BY <3>1, <3>2 DEF HeldInv, InRun
  <2>5. ASSUME NEW k \in Loops, Asking(k)', loop'[k].live
        PROVE  authorized'[loop'[k].mount] /\ active'[loop'[k].mount] = k /\ intent'[loop'[k].mount] = "run"
    <3>1. CASE k = l BY <1>1, <1>5, <2>1, <2>5, <3>1 DEF GoesOn, Asking
    <3>2. CASE k # l
      <4>1. loop'[k] = loop[k] BY <1>5, <3>2 DEF GoesOn
      <4>2. Asking(k) /\ loop[k].live BY <2>5, <4>1 DEF Asking
      <4>3. active[loop[k].mount] = k /\ loop[k].mount \in Mounts \ {m}
        BY <1>2, <2>1, <3>2, <4>2 DEF StoppedAsksNothing, Asking
      <4> QED BY <1>1, <1>4, <1>5, <2>1, <4>1, <4>2, <4>3 DEF GoesOn, StoppedAsksNothing
    <3> QED BY <3>1, <3>2
  <2> QED BY <2>4, <2>5 DEF StoppedAsksNothing, Asking
<1>6. CASE Enters(l)
  <2>1. m \in Mounts BY <1>2, <1>6 DEF Enters
  <2>2. /\ loop'[l].stage = "loading" /\ loop'[l].mount = m
        /\ \A k \in Loops : k # l => loop'[k] = loop[k]
    BY <1>4, <1>6 DEF Enters, Step
  <2>3. active'[m] = l /\ \A n \in Mounts : n # m => active'[n] = active[n] /\ intent'[n] = intent[n]
    BY <1>4, <1>6, <2>1 DEF Enters
  <2>4. HeldInv'
    <3>1. ASSUME NEW k \in Loops, InRun(k)' PROVE active'[loop'[k].mount] = k
      <4>1. CASE k = l BY <2>2, <2>3, <4>1
      <4>2. CASE k # l
        <5>1. InRun(k) /\ loop'[k] = loop[k] BY <2>2, <3>1, <4>2 DEF InRun
        <5>2. active[loop[k].mount] = k /\ loop[k].mount \in Mounts BY <1>2, <5>1 DEF HeldInv, InRun
        <5>3. loop[k].mount # m BY <1>0, <1>6, <5>2 DEF Enters
        <5> QED BY <2>3, <5>1, <5>2, <5>3
      <4> QED BY <4>1, <4>2
    <3>2. ASSUME NEW n \in Mounts, active'[n] # 0 PROVE loop'[active'[n]].stage \notin {"none", "opening"} /\ loop'[active'[n]].mount = n
      <4>1. CASE n = m BY <2>2, <2>3, <4>1
      <4>2. CASE n # m
        <5>1. active'[n] = active[n] BY <2>3, <4>2
        <5>2. InRun(active[n]) /\ loop[active[n]].mount = n /\ active[n] \in Loops
          BY <1>4, <3>2, <5>1 DEF HeldInv
        <5>3. active[n] # l BY <1>6, <5>2 DEF Enters, InRun
        <5> QED BY <2>2, <5>1, <5>2, <5>3 DEF InRun
      <4> QED BY <4>1, <4>2
    <3> QED BY <3>1, <3>2 DEF HeldInv, InRun
  <2>5. ASSUME NEW k \in Loops, Asking(k)', loop'[k].live
        PROVE  authorized'[loop'[k].mount] /\ active'[loop'[k].mount] = k /\ intent'[loop'[k].mount] = "run"
    <3>1. k # l BY <2>2, <2>5 DEF Asking
    <3>2. loop'[k] = loop[k] BY <2>2, <3>1
    <3>3. Asking(k) /\ loop[k].live /\ active[loop[k].mount] = k /\ loop[k].mount \in Mounts
      BY <1>2, <1>3, <2>5, <3>2 DEF Asking, StoppedAsksNothing
    <3>4. loop[k].mount # m BY <1>0, <1>6, <3>3 DEF Enters
    <3> QED BY <1>1, <2>3, <3>2, <3>3, <3>4 DEF StoppedAsksNothing
  <2> QED BY <2>4, <2>5 DEF StoppedAsksNothing, Asking
<1>7. ASSUME NEW returned \in BOOLEAN, Quit(l, returned), loop[l].stage # "none"
      PROVE  HeldInv' /\ StoppedAsksNothing'
  <2>1. m \in Mounts BY <1>2, <1>7
  <2>2. loop'[l] = Free /\ \A k \in Loops : k # l => loop'[k] = loop[k] BY <1>4, <1>7 DEF Quit
  <2>3. /\ \A n \in Mounts : active'[n] = IF n = m /\ active[n] = l THEN 0 ELSE active[n]
        /\ \A n \in Mounts : active[n] # l => intent'[n] = intent[n]
    BY <1>4, <1>7, <2>1 DEF Quit
  <2>4. \A n \in Mounts : active[n] = l => n = m BY <1>0 DEF HeldInv
  <2>5. loop'[l].stage = "none" BY <2>2 DEF Free
  <2>6. HeldInv'
    <3>1. ASSUME NEW k \in Loops, InRun(k)' PROVE active'[loop'[k].mount] = k
      <4>1. k # l BY <2>5, <3>1 DEF InRun
      <4>2. loop'[k] = loop[k] /\ InRun(k) BY <2>2, <3>1, <4>1 DEF InRun
      <4>3. active[loop[k].mount] = k /\ loop[k].mount \in Mounts BY <1>2, <4>2 DEF HeldInv, InRun
      <4> QED BY <2>3, <4>1, <4>2, <4>3
    <3>2. ASSUME NEW n \in Mounts, active'[n] # 0 PROVE loop'[active'[n]].stage \notin {"none", "opening"} /\ loop'[active'[n]].mount = n
      <4>1. active'[n] = active[n] /\ active[n] # l BY <2>3, <2>4, <3>2
      <4>2. InRun(active[n]) /\ loop[active[n]].mount = n /\ active[n] \in Loops
        BY <1>4, <3>2, <4>1 DEF HeldInv
      <4> QED BY <2>2, <4>1, <4>2 DEF InRun
    <3> QED BY <3>1, <3>2 DEF HeldInv, InRun
  <2>7. ASSUME NEW k \in Loops, Asking(k)', loop'[k].live
        PROVE  authorized'[loop'[k].mount] /\ active'[loop'[k].mount] = k /\ intent'[loop'[k].mount] = "run"
    <3>1. k # l BY <2>5, <2>7 DEF Asking
    <3>2. loop'[k] = loop[k] BY <2>2, <3>1
    <3>3. Asking(k) /\ loop[k].live /\ active[loop[k].mount] = k /\ loop[k].mount \in Mounts
      BY <1>2, <1>3, <2>7, <3>2 DEF Asking, StoppedAsksNothing
    <3> QED BY <1>1, <2>3, <3>1, <3>2, <3>3 DEF StoppedAsksNothing
  <2> QED BY <2>6, <2>7 DEF StoppedAsksNothing, Asking
<1> QED BY <1>5, <1>6, <1>7, RunMoves

\* The steps that leave the runs and the authorizations alone.
LEMMA HeldElsewhere ==
  ASSUME HeldInv, StoppedAsksNothing, UNCHANGED <<loop, active, intent, authorized>>
  PROVE  HeldInv' /\ StoppedAsksNothing'
<1>1. HeldInv' BY DEF HeldInv, InRun
<1> QED BY <1>1 DEF StoppedAsksNothing, Asking

\* A runner is told to stop: the request of its run is aborted.
LEMMA StopHeld ==
  ASSUME TypeInv, HeldInv, StoppedAsksNothing, NEW m \in Mounts,
         NEW gone \in SUBSET Mounts,
         active' = active,
         authorized' = authorized \/ authorized' = [n \in Mounts |-> authorized[n] /\ n \notin gone],
         intent' \in [Mounts -> {"run", "pause", "cancel"}],
         \A n \in Mounts \ {m} : intent'[n] = intent[n],
         \A l \in Loops : loop'[l] = loop[l] \/ (Asking(l) /\ loop'[l] = Aborted(l)),
         \A l \in Loops : Asking(l) /\ loop'[l] = loop[l] /\ loop[l].live =>
           loop[l].mount \notin gone /\ (intent' = intent \/ active[m] # l)
  PROVE  HeldInv' /\ StoppedAsksNothing'
<1>1. \A l \in Loops : loop[l].stage # "none" => loop[l].mount \in Mounts BY RunFields
<1>2. \A l \in Loops : loop'[l].stage = loop[l].stage /\ loop'[l].mount = loop[l].mount
  BY AbortTypes DEF Asking
<1>3. active \in [Mounts -> Loops \cup {0}] BY DEF TypeInv
<1>4. HeldInv' BY <1>2, <1>3 DEF HeldInv, InRun
<1>5. ASSUME NEW l \in Loops, loop'[l].stage = "asking", loop'[l].live
      PROVE  authorized'[loop'[l].mount] /\ active'[loop'[l].mount] = l /\ intent'[loop'[l].mount] = "run"
  <2>1. Asking(l) /\ loop'[l] = loop[l] BY <1>2, <1>5, AbortTypes DEF Asking
  <2>2. loop[l].live /\ loop[l].mount \in Mounts BY <1>1, <1>5, <2>1 DEF Asking
  <2>3. authorized[loop[l].mount] /\ active[loop[l].mount] = l /\ intent[loop[l].mount] = "run"
    BY <2>1, <2>2 DEF StoppedAsksNothing
  <2>4. loop[l].mount \notin gone /\ (intent' = intent \/ active[m] # l) BY <2>1, <2>2
  <2>5. authorized'[loop[l].mount] BY <2>2, <2>3, <2>4
  <2>6. intent'[loop[l].mount] = "run" BY <2>2, <2>3, <2>4
  <2> QED BY <2>1, <2>3, <2>5, <2>6
<1> QED BY <1>4, <1>5 DEF StoppedAsksNothing, Asking

LEMMA PressHeld ==
  ASSUME TypeInv, HeldInv, StoppedAsksNothing, NEW m \in Mounts, active[m] # 0,
         NEW why \in {"pause", "cancel"}, Stop(m, why), active' = active, authorized' = authorized
  PROVE  HeldInv' /\ StoppedAsksNothing'
<1>1. active[m] \in Loops /\ intent \in [Mounts -> {"run", "pause", "cancel"}] /\ loop \in [Loops -> Runs]
  BY DEF TypeInv
<1>2. intent' \in [Mounts -> {"run", "pause", "cancel"}] /\ \A n \in Mounts \ {m} : intent'[n] = intent[n]
  BY <1>1 DEF Stop
<1>3. \A l \in Loops : loop'[l] = IF l = active[m] /\ Asking(l) THEN Aborted(l) ELSE loop[l]
  BY <1>1 DEF Stop, Aborted
<1>4. \A l \in Loops : Asking(l) /\ loop'[l] = loop[l] /\ loop[l].live => active[m] # l
  BY <1>3, AbortTypes
<1>5. \A l \in Loops : loop'[l] = loop[l] \/ (Asking(l) /\ loop'[l] = Aborted(l)) BY <1>3
<1>6. {} \in SUBSET Mounts /\ \A n \in Mounts : n \notin {} OBVIOUS
<1> QED BY <1>2, <1>4, <1>5, <1>6, StopHeld

LEMMA PanelHeld ==
  ASSUME TypeInv, HeldInv, StoppedAsksNothing
  PROVE  /\ \A l \in Loops : Open(l) => HeldInv' /\ StoppedAsksNothing'
         /\ \A o \in Ops : ClickPause(o) \/ ClickReset(o) \/ Mount(o) \/ Operate(o)
              => HeldInv' /\ StoppedAsksNothing'
         /\ \A o \in Ops, revoked \in BOOLEAN : Unmount(o, revoked) => HeldInv' /\ StoppedAsksNothing'
         /\ Revise \/ Kill => HeldInv' /\ StoppedAsksNothing'
<1> USE DEF storeVars, mountVars, panelVars, runVars
<1>0. /\ 0 \notin Loops /\ (mount # 0 => mount \in Mounts) /\ loop \in [Loops -> Runs]
      /\ active \in [Mounts -> Loops \cup {0}] /\ intent \in [Mounts -> {"run", "pause", "cancel"}]
      /\ authorized \in [Mounts -> BOOLEAN]
  BY TaskAssumption DEF TypeInv, Mounts
<1>1. ASSUME NEW l \in Loops, Open(l) PROVE HeldInv' /\ StoppedAsksNothing'
  <2>1. /\ loop'[l].stage = "opening" /\ loop[l].stage = "none"
        /\ \A k \in Loops : k # l => loop'[k] = loop[k]
        /\ UNCHANGED <<active, intent, authorized>>
    BY <1>0, <1>1 DEF Open, Free
  <2>2. \A n \in Mounts : active[n] # l BY <1>0, <2>1 DEF HeldInv, InRun
  <2>3. HeldInv' BY <1>0, <2>1, <2>2 DEF HeldInv, InRun
  <2>4. StoppedAsksNothing' BY <2>1 DEF StoppedAsksNothing, Asking
  <2> QED BY <2>3, <2>4
<1>2. ASSUME NEW o \in Ops, Operate(o) PROVE HeldInv' /\ StoppedAsksNothing'
  <2>1. UNCHANGED <<loop, active, intent, authorized>>
    BY <1>2 DEF Operate, Pausing, Saved, Restoring, Restore, Cancelling, Cancelled, Latest
  <2> QED BY <2>1, HeldElsewhere
<1>3. ASSUME NEW o \in Ops, ClickPause(o) PROVE HeldInv' /\ StoppedAsksNothing'
  <2>1. CASE active[mount] # 0 BY <1>0, <1>3, <2>1, PressHeld DEF ClickPause
  <2>2. CASE active[mount] = 0 BY <1>3, <2>2, HeldElsewhere DEF ClickPause
  <2> QED BY <2>1, <2>2
<1>4. ASSUME NEW o \in Ops, ClickReset(o) PROVE HeldInv' /\ StoppedAsksNothing'
  <2>1. CASE active[mount] # 0 BY <1>0, <1>4, <2>1, PressHeld DEF ClickReset
  <2>2. CASE active[mount] = 0 BY <1>4, <2>2, HeldElsewhere DEF ClickReset
  <2> QED BY <2>1, <2>2
<1>5. ASSUME NEW o \in Ops, Mount(o) PROVE HeldInv' /\ StoppedAsksNothing'
  <2>1. UNCHANGED <<loop, active, intent>> BY <1>5 DEF Mount
  <2>2. \A n \in Mounts : authorized[n] => authorized'[n] BY <1>0, <1>5 DEF Mount
  <2>3. \A l \in Loops : Asking(l) => loop[l].mount \in Mounts BY RunFields DEF Asking
  <2>4. HeldInv' BY <2>1 DEF HeldInv, InRun
  <2> QED BY <2>1, <2>2, <2>3, <2>4 DEF StoppedAsksNothing, Asking
<1>6. ASSUME NEW o \in Ops, NEW revoked \in BOOLEAN, Unmount(o, revoked)
      PROVE  HeldInv' /\ StoppedAsksNothing'
  <2> DEFINE told(l) == Asking(l) /\ (revoked \/ (ref /\ active[mount] = l))
             gone    == IF revoked THEN Mounts ELSE {}
  <2>1. mount \in Mounts /\ active' = active BY <1>0, <1>6 DEF Unmount
  <2>2. authorized' = [n \in Mounts |-> authorized[n] /\ n \notin gone] BY <1>6 DEF Unmount
  <2>3. \A l \in Loops : loop'[l] = IF told(l) THEN Aborted(l) ELSE loop[l] BY <1>6 DEF Unmount, Aborted
  <2>4. intent' = IF ref /\ active[mount] # 0 THEN [intent EXCEPT ![mount] = "pause"] ELSE intent
    BY <1>6 DEF Unmount
  <2>5. \A l \in Loops : Asking(l) /\ loop'[l] = loop[l] /\ loop[l].live => ~told(l)
    BY <2>3, AbortTypes
  <2>6. ASSUME NEW l \in Loops, Asking(l), loop'[l] = loop[l], loop[l].live
        PROVE  loop[l].mount \notin gone /\ (intent' = intent \/ active[mount] # l)
    BY <2>4, <2>5, <2>6
  <2>7. intent' \in [Mounts -> {"run", "pause", "cancel"}] /\ \A n \in Mounts \ {mount} : intent'[n] = intent[n]
    BY <1>0, <2>1, <2>4
  <2>8. \A l \in Loops : loop'[l] = loop[l] \/ (Asking(l) /\ loop'[l] = Aborted(l)) BY <2>3
  <2>9. gone \in SUBSET Mounts OBVIOUS
  <2> HIDE DEF told, gone
  <2> QED BY <2>1, <2>2, <2>6, <2>7, <2>8, <2>9, StopHeld
<1>7. ASSUME Revise PROVE HeldInv' /\ StoppedAsksNothing'
  BY <1>7, HeldElsewhere DEF Revise
<1>8. ASSUME Kill PROVE HeldInv' /\ StoppedAsksNothing'
  <2>1. \A l \in Loops : loop'[l].stage = "none" BY <1>8 DEF Kill, Free
  <2>2. \A n \in Mounts : active'[n] = 0 BY <1>8 DEF Kill
  <2> QED BY <2>1, <2>2 DEF HeldInv, InRun, StoppedAsksNothing, Asking
<1> QED BY <1>1, <1>2, <1>3, <1>4, <1>5, <1>6, <1>7, <1>8

--------------------------------------------------------------------------------
(* What is recorded as completed is in the store.                               *)

\* Marking a batch as anything but completed completes none; nor does laying to rest.
LEMMA NoNewResults ==
  ASSUME NEW rec \in Records, NEW s
  PROVE  /\ Results([rec EXCEPT !.status = s]) = Results(rec)
         /\ \A b \in Batches, t \in BatchStatuses \ {"completed"} : Results(Mark(rec, b, t)) \subseteq Results(rec)
         /\ \A from \in SUBSET BatchStatuses, t \in BatchStatuses \ {"completed"} :
              Results(Rest(rec, from, t)) \subseteq Results(rec)
<1>1. rec.batches \in [Batches -> BatchStatuses] BY DEF Records
<1>2. [rec EXCEPT !.status = s].batches = rec.batches BY DEF Records
<1>3. ASSUME NEW b \in Batches, NEW t \in BatchStatuses \ {"completed"}
      PROVE  Results(Mark(rec, b, t)) \subseteq Results(rec)
  <2>1. Mark(rec, b, t).batches = [rec.batches EXCEPT ![b] = t] BY DEF Mark, Records
  <2> QED BY <1>1, <2>1 DEF Results
<1>4. ASSUME NEW from \in SUBSET BatchStatuses, NEW t \in BatchStatuses \ {"completed"}
      PROVE  Results(Rest(rec, from, t)) \subseteq Results(rec)
  <2>1. Rest(rec, from, t).batches = [b \in Batches |-> IF rec.batches[b] \in from THEN t ELSE rec.batches[b]]
    BY DEF Rest, Records
  <2> QED BY <1>1, <2>1 DEF Results
<1> QED BY <1>2, <1>3, <1>4 DEF Results

\* What a run holds after its step: what it held, what is stored, or what it saved.
LEMMA RunHolds ==
  ASSUME TypeInv, NEW l \in Loops, Run(l)
  PROVE  /\ op' = op /\ \A k \in Loops : k # l => loop'[k] = loop[k]
         /\ \/ /\ UNCHANGED storeVars
               /\ InRun(l)' => loop'[l].rec = task \/ (InRun(l) /\ loop'[l].rec = loop[l].rec)
            \/ Save(loop'[l].rec)
<1> USE DEF storeVars, mountVars, panelVars, runVars
<1>1. loop \in [Loops -> Runs] BY DEF TypeInv
<1>2. ASSUME NEW s, NEW rec, Step(l, s, rec)
      PROVE  loop'[l].rec = rec /\ \A k \in Loops : k # l => loop'[k] = loop[k]
  BY <1>1, <1>2 DEF Step
<1>3. ASSUME NEW returned, Quit(l, returned)
      PROVE  ~InRun(l)' /\ \A k \in Loops : k # l => loop'[k] = loop[k]
  BY <1>1, <1>3 DEF Quit, Free, InRun
<1>4. ASSUME NEW b, NEW why, Interrupt(l, b, why) \/ Complete(l, b)
      PROVE  Save(loop'[l].rec) /\ \A k \in Loops : k # l => loop'[k] = loop[k]
  BY <1>2, <1>4 DEF Interrupt, Complete
<1>5. CASE Enter(l) BY <1>2, <1>3, <1>5 DEF Enter
<1>6. CASE Begin(l) BY <1>2, <1>3, <1>6 DEF Begin
<1>7. CASE Turn(l)
  <2>1. Conclude(l) \/ \E b : TakeTurn(l, b) BY <1>7 DEF Turn
  <2>2. CASE Conclude(l) BY <1>2, <1>7, <2>2 DEF Turn, Conclude
  <2>3. ASSUME NEW b, TakeTurn(l, b)
        PROVE  \/ Save(loop'[l].rec) /\ \A k \in Loops : k # l => loop'[k] = loop[k]
               \/ LookUp(l, loop[l].rec, b) /\ UNCHANGED storeVars
    BY <1>4, <2>3 DEF TakeTurn
  <2>4. ASSUME NEW b, LookUp(l, loop[l].rec, b)
        PROVE  loop'[l].rec = loop[l].rec /\ \A k \in Loops : k # l => loop'[k] = loop[k]
    BY <1>1, <2>4 DEF LookUp
  <2>5. InRun(l) /\ op' = op BY <1>7 DEF Turn, InRun
  <2> QED BY <2>1, <2>2, <2>3, <2>4, <2>5
<1>8. CASE Look(l)
  <2>1. op' = op BY <1>8 DEF Look
  <2>2. CASE Complete(l, loop[l].batch) BY <1>4, <2>1, <2>2
  <2>3. CASE ~Complete(l, loop[l].batch)
    <3>1. PICK rec : Save(rec) /\ MarkBatch(l, rec, loop[l].batch) BY <1>8, <2>3 DEF Look
    <3>2. loop'[l].rec = rec /\ \A k \in Loops : k # l => loop'[k] = loop[k]
      BY <1>1, <3>1 DEF MarkBatch
    <3> QED BY <2>1, <3>1, <3>2
  <2> QED BY <2>2, <2>3
<1>9. CASE Ask(l) \/ Answer(l) \/ Fail(l)
  <2>1. InRun(l) /\ op' = op BY <1>9 DEF Ask, Answer, Fail, Asking, InRun
  <2>2. \/ \E b, why : Interrupt(l, b, why) \/ Complete(l, b)
        \/ \E live : Request(l, live) /\ UNCHANGED storeVars
        \/ \E rec : Save(rec) /\ Step(l, "failing", rec)
    BY <1>9 DEF Ask, Answer, Fail
  <2>3. ASSUME NEW live, Request(l, live)
        PROVE  loop'[l].rec = loop[l].rec /\ \A k \in Loops : k # l => loop'[k] = loop[k]
    BY <1>1, <2>3 DEF Request
  <2> QED BY <1>2, <1>4, <2>1, <2>2, <2>3
<1>10. CASE End(l) BY <1>3, <1>10 DEF End
<1> QED BY <1>5, <1>6, <1>7, <1>8, <1>9, <1>10 DEF Run

LEMMA RunKept ==
  ASSUME TypeInv, KeptInv, NEW l \in Loops, Run(l)
  PROVE  KeptInv'
<1>1. op' = op /\ \A k \in Loops : k # l => loop'[k] = loop[k] BY RunHolds
<1>2. CASE /\ UNCHANGED storeVars
           /\ InRun(l)' => loop'[l].rec = task \/ (InRun(l) /\ loop'[l].rec = loop[l].rec)
  <2>1. cached' = cached /\ task' = task BY <1>2 DEF storeVars
  <2>2. ASSUME NEW k \in Loops, InRun(k)' PROVE Results(loop'[k].rec) \subseteq cached
    BY <1>1, <1>2, <2>2 DEF KeptInv, InRun
  <2> QED BY <1>1, <2>1, <2>2 DEF KeptInv, Holds, Results, InRun
<1>3. CASE Save(loop'[l].rec)
  <2>1. task' = loop'[l].rec /\ cached' = cached \cup Results(loop'[l].rec) BY <1>3 DEF Save, Results
  <2>2. ASSUME NEW k \in Loops, InRun(k)' PROVE Results(loop'[k].rec) \subseteq cached'
    BY <1>1, <2>1, <2>2 DEF KeptInv, InRun
  <2>3. ASSUME NEW o \in Ops, Holds(o)' PROVE Results(op'[o].rec) \subseteq cached'
    BY <1>1, <2>1, <2>3 DEF KeptInv, Holds
  <2>4. Results(task') \subseteq cached' BY <2>1
  <2> QED BY <2>2, <2>3, <2>4 DEF KeptInv, Holds, Results, InRun
<1> QED BY <1>2, <1>3, RunHolds

\* What the other operations save completes nothing and records nothing as running.
LEMMA OperateSaves ==
  ASSUME TypeInv, KeptInv, NEW o \in Ops, Operate(o)
  PROVE  /\ cached' = cached
         /\ task' = task \/ GhostFree(task')
         /\ op[o].stage = "restoring" /\ ~GhostFree(op[o].rec) => GhostFree(task')
         /\ Results(task') \subseteq cached
         /\ Holds(o)' => Results(op'[o].rec) \subseteq cached
         /\ \A p \in Ops : p # o => op'[p] = op[p]
<1> USE DEF storeVars, mountVars, panelVars, runVars
<1>1. op \in [Ops -> Operations] /\ task \in Records BY DEF TypeInv
<1>2. Holds(o) => op[o].rec \in Records /\ Results(op[o].rec) \subseteq cached
  BY OperationFields DEF KeptInv
<1>3. Results(task) \subseteq cached BY DEF KeptInv
<1>4. ASSUME NEW rec, Save(rec), Results(rec) \subseteq cached
      PROVE  task' = rec /\ cached' = cached
  BY <1>4 DEF Save, Results
<1>5. /\ \A s, rec : StepOp(o, s, rec) => op'[o].rec = rec /\ \A p \in Ops : p # o => op'[p] = op[p]
      /\ \A s : WaitOp(o, s) => op'[o].stage = s /\ \A p \in Ops : p # o => op'[p] = op[p]
      /\ op' = [op EXCEPT ![o] = Free] => op'[o].stage = "none" /\ \A p \in Ops : p # o => op'[p] = op[p]
  BY <1>1 DEF StepOp, WaitOp, Free
<1>6. Paused(o) => /\ Holds(o)' => Results(op'[o].rec) \subseteq cached
                   /\ \A p \in Ops : p # o => op'[p] = op[p]
  BY <1>3, <1>5 DEF Paused, Holds, HoldStages
<1>7. \A rec : Show(o, rec) => ~Holds(o)' /\ \A p \in Ops : p # o => op'[p] = op[p]
  BY <1>5 DEF Show, Holds, HoldStages
<1>8. ASSUME NEW from \in SUBSET BatchStatuses, "running" \in from, NEW t \in BatchStatuses \ {"completed", "running"},
             NEW s \in Statuses, Holds(o)
      PROVE  /\ Ghosts(Rest(op[o].rec, from, t)) = {}
             /\ Rest(op[o].rec, from, t).status = op[o].rec.status
             /\ Results([Rest(op[o].rec, from, t) EXCEPT !.status = s]) \subseteq cached
             /\ s # "running" => GhostFree([Rest(op[o].rec, from, t) EXCEPT !.status = s])
  <2> DEFINE old == op[o].rec
             rec == Rest(old, from, t)
  <2>1. old \in Records /\ Results(old) \subseteq cached BY <1>2, <1>8
  <2>2. rec.batches = [b \in Batches |-> IF old.batches[b] \in from THEN t ELSE old.batches[b]]
        /\ rec.status = old.status
    BY <2>1 DEF Rest, Records
  <2>3. Ghosts(rec) = {} BY <1>8, <2>2 DEF Ghosts
  <2>4. rec \in Records BY <2>1, RecordChanges DEF Statuses
  <2>5. Results(rec) \subseteq cached /\ Results([rec EXCEPT !.status = s]) = Results(rec)
    BY <2>1, <2>4, NoNewResults
  <2>6. [rec EXCEPT !.status = s].batches = rec.batches /\ [rec EXCEPT !.status = s].status = s
    BY <2>4 DEF Records
  <2> QED BY <2>2, <2>3, <2>5, <2>6 DEF GhostFree, Ghosts
<1>9. CASE Pausing(o)
  <2> DEFINE rec == [Rest(op[o].rec, {"running"}, "paused") EXCEPT !.status = "paused"]
  <2>1. Results(rec) \subseteq cached /\ GhostFree(rec)
    BY <1>8, <1>9 DEF Pausing, Holds, HoldStages, Statuses, BatchStatuses
  <2>2. CASE Paused(o) /\ UNCHANGED storeVars BY <1>3, <1>6, <1>9, <2>2 DEF Pausing
  <2>3. CASE Save(rec) /\ WaitOp(o, "saved")
    <3>1. task' = rec /\ cached' = cached BY <1>4, <2>1, <2>3
    <3> QED BY <1>5, <2>1, <2>3, <3>1 DEF Holds, HoldStages
  <2> QED BY <1>9, <2>2, <2>3 DEF Pausing
<1>10. CASE Saved(o) BY <1>3, <1>6, <1>10 DEF Saved
<1>11. CASE Restoring(o)
  <2> DEFINE rec == Restored(op[o].rec)
  <2>0. Holds(o) BY <1>11 DEF Restoring, Holds, HoldStages
  <2>1. Results(rec) \subseteq cached /\ GhostFree(rec)
    <3> DEFINE s == IF op[o].rec.status = "running" THEN "paused" ELSE op[o].rec.status
    <3>1. s \in Statuses /\ s # "running" BY <1>2, <2>0 DEF Records, Statuses
    <3>2. Rest(op[o].rec, {"running"}, "paused").status = op[o].rec.status
      BY <1>8, <2>0, <3>1 DEF Statuses, BatchStatuses
    <3>3. rec = [Rest(op[o].rec, {"running"}, "paused") EXCEPT !.status = s] BY <3>2 DEF Restored
    <3> HIDE DEF s, rec
    <3> QED BY <1>8, <2>0, <3>1, <3>3 DEF Statuses, BatchStatuses
  <2>2. CASE rec = op[o].rec /\ Show(o, rec) /\ UNCHANGED storeVars BY <1>3, <1>7, <2>1, <2>2
  <2>3. CASE Save(rec) /\ StepOp(o, "restored", rec)
    <3>1. task' = rec /\ cached' = cached BY <1>4, <2>1, <2>3
    <3> QED BY <1>5, <2>1, <2>3, <3>1
  <2> QED BY <1>11, <2>2, <2>3 DEF Restoring
<1>12. CASE Restore(o) BY <1>3, <1>7, <1>12 DEF Restore
<1>13. CASE Cancelling(o)
  <2> DEFINE rec == [Rest(op[o].rec, {"pending", "paused", "running"}, "cancelled") EXCEPT !.status = "cancelled"]
  <2>1. Results(rec) \subseteq cached /\ GhostFree(rec)
    BY <1>8, <1>13 DEF Cancelling, Holds, HoldStages, Statuses, BatchStatuses
  <2>2. CASE op' = [op EXCEPT ![o] = Free] /\ UNCHANGED storeVars
    BY <1>3, <1>5, <1>13, <2>2 DEF Cancelling, Holds, HoldStages
  <2>3. CASE Save(rec) /\ WaitOp(o, "cancelled")
    <3>1. task' = rec /\ cached' = cached BY <1>4, <2>1, <2>3
    <3> QED BY <1>5, <2>1, <2>3, <3>1 DEF Holds, HoldStages
  <2> QED BY <1>13, <2>2, <2>3 DEF Cancelling
<1>14. CASE Cancelled(o) BY <1>3, <1>5, <1>14 DEF Cancelled, Holds, HoldStages
<1>15. CASE Latest(o) BY <1>3, <1>5, <1>15 DEF Latest, Holds, HoldStages
<1> QED BY <1>9, <1>10, <1>11, <1>12, <1>13, <1>14, <1>15 DEF Operate

LEMMA OperateKept ==
  ASSUME TypeInv, KeptInv, NEW o \in Ops, Operate(o)
  PROVE  KeptInv'
<1>1. loop' = loop
  BY DEF Operate, Pausing, Saved, Restoring, Restore, Cancelling, Cancelled, Latest, runVars
<1>2. \A p \in Ops : Holds(p)' => Results(op'[p].rec) \subseteq cached
  BY OperateSaves DEF KeptInv, Holds
<1>3. Results(task') \subseteq cached' /\ cached' = cached BY OperateSaves
<1> QED BY <1>1, <1>2, <1>3 DEF KeptInv, Holds, Results, InRun

\* The steps of the panel save nothing, and hold nothing but the stored record.
LEMMA PanelKept ==
  ASSUME TypeInv, HeldInv, KeptInv,
         \/ \E l \in Loops : Open(l)
         \/ \E o \in Ops : \/ ClickPause(o) \/ ClickReset(o) \/ Mount(o)
                           \/ \E revoked \in BOOLEAN : Unmount(o, revoked)
         \/ Revise \/ Kill
  PROVE  /\ KeptInv' /\ UNCHANGED storeVars
         /\ ~Kill => \A l \in Loops : InRun(l) => InRun(l)'
         /\ \A l \in Loops : InRun(l)' =>
              /\ InRun(l) /\ loop'[l].stage = loop[l].stage
              /\ loop'[l].rec = loop[l].rec
              /\ loop[l].stage = "asking" => loop'[l].batch = loop[l].batch
              /\ loop[l].stage # "asking" => loop'[l] = loop[l]
<1> USE DEF storeVars, mountVars, panelVars, runVars
<1>1. UNCHANGED storeVars BY DEF Open, ClickPause, ClickReset, Mount, Unmount, Revise, Kill
<1>2. op \in [Ops -> Operations] /\ loop \in [Loops -> Runs] BY DEF TypeInv
<1>3. ASSUME NEW o \in Ops, Holds(o)' PROVE op'[o] = op[o] \/ op'[o].rec = task
  BY <1>2, <1>3 DEF Open, ClickPause, ClickReset, Mount, Unmount, Revise, Kill, Operation, Free, Holds, HoldStages
<1>4. ASSUME NEW l \in Loops, InRun(l)' \/ (InRun(l) /\ ~Kill)
      PROVE  \/ loop'[l] = loop[l]
             \/ Asking(l) /\ loop'[l] = Aborted(l)
  <2>1. CASE \E k \in Loops : Open(k) BY <1>2, <1>4, <2>1 DEF Open, InRun, Free
  <2>2. ASSUME NEW o \in Ops, ClickPause(o) \/ ClickReset(o)
        PROVE  loop'[l] = loop[l] \/ (Asking(l) /\ loop'[l] = Aborted(l))
    BY <1>2, <2>2 DEF ClickPause, ClickReset, Stop, Aborted
  <2>3. ASSUME NEW o \in Ops, NEW revoked \in BOOLEAN, Unmount(o, revoked)
        PROVE  loop'[l] = loop[l] \/ (Asking(l) /\ loop'[l] = Aborted(l))
    BY <2>3 DEF Unmount, Aborted
  <2>4. CASE Kill BY <1>4, <2>4 DEF Kill, InRun, Free
  <2>5. CASE Revise \/ \E o \in Ops : Mount(o) BY <2>5 DEF Revise, Mount
  <2> QED BY <2>1, <2>2, <2>3, <2>4, <2>5
<1>5. ASSUME NEW l \in Loops, InRun(l)'
      PROVE  /\ InRun(l) /\ loop'[l].stage = loop[l].stage
             /\ loop'[l].rec = loop[l].rec
             /\ loop[l].stage = "asking" => loop'[l].batch = loop[l].batch
             /\ loop[l].stage # "asking" => loop'[l] = loop[l]
  BY <1>4, <1>5, AbortTypes DEF InRun, Asking
<1>6. ASSUME NEW o \in Ops, Holds(o)' PROVE Results(op'[o].rec) \subseteq cached
  <2>1. op'[o] = op[o] => Holds(o) BY <1>6 DEF Holds
  <2> QED BY <1>3, <1>6, <2>1 DEF KeptInv
<1>7. KeptInv' BY <1>1, <1>5, <1>6 DEF KeptInv, Holds, Results, InRun
<1>8. ASSUME NEW l \in Loops, InRun(l), ~Kill PROVE InRun(l)'
  BY <1>4, <1>8, AbortTypes DEF InRun, Asking
<1> QED BY <1>1, <1>5, <1>7, <1>8

--------------------------------------------------------------------------------
(* What is recorded as running, while no two runs are under way at once.        *)

\* The batches a record calls running, after a change of its status and of a batch.
LEMMA StatusGhosts ==
  ASSUME NEW rec \in Records, NEW s
  PROVE  [rec EXCEPT !.status = s].status = s /\ Ghosts([rec EXCEPT !.status = s]) = Ghosts(rec)
<1>1. [rec EXCEPT !.status = s].batches = rec.batches /\ [rec EXCEPT !.status = s].status = s
  BY DEF Records
<1> QED BY <1>1 DEF Ghosts

LEMMA MarkGhosts ==
  ASSUME NEW rec \in Records, NEW b \in Batches, NEW t \in BatchStatuses
  PROVE  /\ Mark(rec, b, t).status = rec.status
         /\ t = "running" => Ghosts(Mark(rec, b, t)) = Ghosts(rec) \cup {b}
         /\ t # "running" => Ghosts(Mark(rec, b, t)) = Ghosts(rec) \ {b}
<1>1. rec.batches \in [Batches -> BatchStatuses] BY DEF Records
<1>2. Mark(rec, b, t).status = rec.status /\ Mark(rec, b, t).batches = [rec.batches EXCEPT ![b] = t]
  BY DEF Mark, Records
<1>3. \A c \in Batches : Mark(rec, b, t).batches[c] = IF c = b THEN t ELSE rec.batches[c] BY <1>1, <1>2
<1>4. t = "running" => Ghosts(Mark(rec, b, t)) = Ghosts(rec) \cup {b} BY <1>3 DEF Ghosts
<1>5. t # "running" => Ghosts(Mark(rec, b, t)) = Ghosts(rec) \ {b} BY <1>3 DEF Ghosts
<1> QED BY <1>2, <1>4, <1>5

\* A run goes on with a record in which only the batch it asks for may be running.
GoesWell(l) == InRun(l)' /\ LookedUp(l)' /\ OnlyMarked(l)'

LEMMA Settles ==
  ASSUME TypeInv, NEW l \in Loops, NEW rec \in Records, Ghosts(rec) = {}, Save(rec),
         NEW s, Step(l, s, rec),
         s \in {"turn", "stored"} \/ (s \in {"ending", "failing"} /\ rec.status # "running")
  PROVE  GoesWell(l)
<1>1. loop'[l].stage = s /\ loop'[l].rec = rec BY DEF Step, TypeInv
<1>2. InRun(l)' BY <1>1 DEF InRun
<1>3. LookedUp(l)' BY <1>1 DEF LookedUp
<1>4. task' = rec BY DEF Save
<1>5. Ghosts(loop'[l].rec) = {} BY <1>1
<1>6. s \in {"ending", "failing"} => GhostFree(task') BY <1>4 DEF GhostFree
<1>7. OnlyMarked(l)' BY <1>1, <1>5, <1>6 DEF OnlyMarked, Ghosts, GhostFree
<1> QED BY <1>2, <1>3, <1>7 DEF GoesWell

\* A step of the only run: it goes on, or it has left nothing recorded as running.
LEMMA RunAlone ==
  ASSUME TypeInv, KeptInv, NEW l \in Loops, InRun(l), LookedUp(l), OnlyMarked(l), Run(l)
  PROVE  GoesWell(l) \/ (loop'[l] = Free /\ GhostFree(task'))
<1> USE DEF storeVars, mountVars, panelVars, runVars
<1> DEFINE rec == loop[l].rec
           b == loop[l].batch
<1>1. rec \in Records /\ rec.status \in Statuses /\ Results(rec) \subseteq cached
  BY RunFields DEF KeptInv, Records
<1>2. loop \in [Loops -> Runs] BY DEF TypeInv
<1>3. loop[l].stage \in {"marked", "looking", "asking"} => b \in Batches BY RunFields
<1>4. loop[l].stage \notin {"marked", "asking"} => Ghosts(rec) = {} BY DEF OnlyMarked
<1>5. loop[l].stage \in {"marked", "asking"} => Ghosts(rec) \subseteq {b} BY DEF OnlyMarked
<1>6. ASSUME NEW returned, Quit(l, returned) PROVE loop'[l] = Free
  BY <1>2, <1>6 DEF Quit
<1>7. ASSUME NEW c \in Batches, Ghosts(rec) \subseteq {c}, NEW s \in Statuses, NEW t \in BatchStatuses \ {"running"}
      PROVE  /\ Mark([rec EXCEPT !.status = s], c, t) \in Records
             /\ Mark([rec EXCEPT !.status = s], c, t).status = s
             /\ Ghosts(Mark([rec EXCEPT !.status = s], c, t)) = {}
             /\ Mark(rec, c, t) \in Records /\ Ghosts(Mark(rec, c, t)) = {}
  <2>1. [rec EXCEPT !.status = s] \in Records BY <1>1, RecordChanges
  <2>2. Ghosts([rec EXCEPT !.status = s]) = Ghosts(rec) /\ [rec EXCEPT !.status = s].status = s
    BY <1>1, StatusGhosts
  <2>3. Mark([rec EXCEPT !.status = s], c, t) \in Records /\ Mark(rec, c, t) \in Records
    BY <1>1, <2>1, RecordChanges
  <2>4. /\ Mark([rec EXCEPT !.status = s], c, t).status = s
        /\ Ghosts(Mark([rec EXCEPT !.status = s], c, t)) = Ghosts(rec) \ {c}
    <3> DEFINE mid == [rec EXCEPT !.status = s]
    <3>1. mid \in Records /\ Ghosts(mid) = Ghosts(rec) /\ mid.status = s BY <2>1, <2>2
    <3> HIDE DEF mid
    <3>2. Mark(mid, c, t).status = s /\ Ghosts(Mark(mid, c, t)) = Ghosts(rec) \ {c}
      BY <1>7, <3>1, MarkGhosts
    <3> QED BY <3>2 DEF mid
  <2>5. Ghosts(Mark(rec, c, t)) = Ghosts(rec) \ {c} BY <1>1, <1>7, MarkGhosts
  <2> QED BY <1>7, <2>3, <2>4, <2>5
<1>8. ASSUME NEW c \in Batches, Ghosts(rec) \subseteq {c}, NEW why, Interrupt(l, c, why)
      PROVE  GoesWell(l)
  <2> DEFINE status == IF why = "cancel" THEN "cancelled" ELSE "paused"
             new == Mark([rec EXCEPT !.status = status], c, status)
  <2>1. status \in Statuses /\ status \in BatchStatuses \ {"running"} BY DEF Statuses, BatchStatuses
  <2>2. new \in Records /\ new.status # "running" /\ Ghosts(new) = {} BY <1>7, <1>8, <2>1
  <2>3. Save(new) /\ Step(l, "ending", new) BY <1>8 DEF Interrupt
  <2> QED BY <2>2, <2>3, Settles
<1>9. ASSUME NEW c \in Batches, Ghosts(rec) \subseteq {c}, Complete(l, c)
      PROVE  GoesWell(l)
  <2> DEFINE new == Mark(rec, c, "completed")
  <2>1. "completed" \in BatchStatuses \ {"running"} /\ "paused" \in Statuses BY DEF Statuses, BatchStatuses
  <2>2. new \in Records /\ Ghosts(new) = {} BY <1>7, <1>9, <2>1
  <2>3. Save(new) /\ Step(l, "stored", new) BY <1>9 DEF Complete
  <2> QED BY <2>2, <2>3, Settles
<1>10. CASE Begin(l)
  <2> DEFINE now == [rec EXCEPT !.status = "running"]
  <2>1. loop[l].stage = "loading" /\ Ghosts(rec) = {} /\ GhostFree(task)
    BY <1>4, <1>10 DEF Begin, OnlyMarked
  <2>2. CASE (\E returned \in BOOLEAN : Quit(l, returned)) /\ UNCHANGED storeVars
    BY <1>6, <2>1, <2>2 DEF GhostFree, Ghosts
  <2>3. CASE Save(now) /\ Step(l, "turn", now)
    <3>1. now \in Records /\ Ghosts(now) = {} BY <1>1, <2>1, RecordChanges, StatusGhosts DEF Statuses
    <3> QED BY <2>3, <3>1, Settles
  <2> QED BY <1>10, <2>2, <2>3 DEF Begin
<1>11. CASE Turn(l)
  <2> DEFINE todo == {c \in Batches : rec.batches[c] \in {"pending", "paused"}}
  <2>1. loop[l].stage \in {"turn", "stored"} /\ Ghosts(rec) = {} BY <1>4, <1>11 DEF Turn
  <2>2. CASE Conclude(l)
    <3>1. PICK s \in {"completed", "paused"} :
            Save([rec EXCEPT !.status = s]) /\ Step(l, "ending", [rec EXCEPT !.status = s])
      BY <2>2 DEF Conclude
    <3>2. [rec EXCEPT !.status = s] \in Records /\ Ghosts([rec EXCEPT !.status = s]) = {}
          /\ [rec EXCEPT !.status = s].status = s
      BY <1>1, <2>1, RecordChanges, StatusGhosts DEF Statuses
    <3> QED BY <3>1, <3>2, Settles
  <2>3. CASE todo # {} /\ TakeTurn(l, Min(todo))
    <3>1. Min(todo) \in todo BY <2>3, FirstBatch
    <3>2. Min(todo) \in Batches /\ Ghosts(rec) \subseteq {Min(todo)} BY <2>1, <3>1
    <3>3. CASE LookUp(l, rec, Min(todo)) /\ UNCHANGED storeVars
      <4>1. /\ loop'[l].stage = "looking" /\ loop'[l].rec = rec /\ loop'[l].batch = Min(todo)
            /\ loop'[l].found = (Key[Min(todo)] \in cached)
        BY <1>2, <3>3 DEF LookUp
      <4>2. LookedUp(l)' BY <3>3, <4>1 DEF LookedUp
      <4>3. OnlyMarked(l)' BY <2>1, <4>1 DEF OnlyMarked, Ghosts
      <4> QED BY <4>1, <4>2, <4>3 DEF GoesWell, InRun
    <3> HIDE DEF todo
    <3> QED BY <1>8, <1>9, <2>3, <3>2, <3>3 DEF TakeTurn
  <2> QED BY <1>11, <2>2, <2>3 DEF Turn
<1>12. CASE Look(l)
  <2> DEFINE new == Mark(rec, b, "running")
  <2>1. loop[l].stage = "looking" /\ b \in Batches /\ Ghosts(rec) = {} BY <1>3, <1>4, <1>12 DEF Look
  <2>2. CASE Complete(l, b) BY <1>9, <2>1, <2>2
  <2>3. CASE ~loop[l].found /\ Save(new) /\ MarkBatch(l, new, b)
    <3>1. Key[b] \notin cached BY <2>1, <2>3 DEF LookedUp
    <3>2. Results(new) \subseteq cached BY <1>1, <2>1, NoNewResults DEF BatchStatuses, Statuses
    <3>3. cached' = cached BY <2>3, <3>2 DEF Save, Results
    <3>4. loop'[l].stage = "marked" /\ loop'[l].rec = new /\ loop'[l].batch = b
      BY <1>2, <2>3 DEF MarkBatch
    <3>5. Ghosts(new) = {b} BY <1>1, <2>1, MarkGhosts DEF BatchStatuses, Statuses
    <3>6. LookedUp(l)' BY <3>1, <3>3, <3>4 DEF LookedUp
    <3>7. OnlyMarked(l)' BY <3>4, <3>5 DEF OnlyMarked, Ghosts
    <3> QED BY <3>4, <3>6, <3>7 DEF GoesWell, InRun
  <2> QED BY <1>12, <2>2, <2>3 DEF Look
<1>13. CASE Ask(l)
  <2>1. loop[l].stage = "marked" /\ b \in Batches /\ Ghosts(rec) \subseteq {b} BY <1>3, <1>5, <1>13 DEF Ask
  <2>2. CASE \E why : Interrupt(l, b, why) BY <1>8, <2>1, <2>2
  <2>3. ASSUME NEW live, Request(l, live), UNCHANGED storeVars PROVE GoesWell(l)
    <3>1. loop'[l].stage = "asking" /\ loop'[l].rec = rec /\ loop'[l].batch = b
      BY <1>2, <2>3 DEF Request
    <3> QED BY <2>1, <3>1 DEF GoesWell, InRun, LookedUp, OnlyMarked, Ghosts
  <2> QED BY <1>13, <2>2, <2>3 DEF Ask
<1>14. CASE Answer(l)
  <2>1. b \in Batches /\ Ghosts(rec) \subseteq {b} BY <1>3, <1>5, <1>14 DEF Answer, Asking
  <2> QED BY <1>8, <1>9, <1>14, <2>1 DEF Answer
<1>15. CASE Fail(l)
  <2> DEFINE new == Mark([rec EXCEPT !.status = "failed"], b, "failed")
  <2>1. b \in Batches /\ Ghosts(rec) \subseteq {b} BY <1>3, <1>5, <1>15 DEF Fail, Asking
  <2>2. CASE \E why : Interrupt(l, b, why) BY <1>8, <2>1, <2>2
  <2>3. CASE Save(new) /\ Step(l, "failing", new)
    <3>1. new \in Records /\ new.status # "running" /\ Ghosts(new) = {}
      BY <1>7, <2>1 DEF Statuses, BatchStatuses
    <3> QED BY <2>3, <3>1, Settles
  <2> QED BY <1>15, <2>2, <2>3 DEF Fail
<1>16. CASE End(l)
  <2>1. GhostFree(task) BY <1>16 DEF End, OnlyMarked
  <2> QED BY <1>6, <1>16, <2>1 DEF End, GhostFree, Ghosts
<1>17. ~Enter(l) BY DEF Enter, InRun
<1> QED BY <1>10, <1>11, <1>12, <1>13, <1>14, <1>15, <1>16, <1>17 DEF Run

LEMMA RunKeepsAlone ==
  ASSUME TypeInv, KeptInv, AloneInv, NEW l \in Loops, Run(l)
  PROVE  AloneInv'
<1> USE DEF storeVars, mountVars, panelVars, runVars
<1> SUFFICES ASSUME ~overlapped'
             PROVE  /\ OneRun' /\ \A k \in Loops : LookedUp(k)' /\ OnlyMarked(k)'
                    /\ Rested'
  BY DEF AloneInv
<1>1. ~overlapped BY DEF Run, Enter, Begin, Turn, Look, Ask, Answer, Fail, End, TypeInv
<1>2. OneRun /\ \A k \in Loops : LookedUp(k) /\ OnlyMarked(k) BY <1>1 DEF AloneInv
<1>3. loop[l].stage # "none" BY DEF Run, Enter, Begin, Turn, Look, Ask, Answer, Fail, End, Asking
<1>4. Rested BY <1>1, <1>3 DEF AloneInv, Fresh, Free
<1>5. \A k \in Loops : k # l => loop'[k] = loop[k] BY RunHolds
<1>6. loop \in [Loops -> Runs] BY DEF TypeInv
<1>7. CASE InRun(l)
  <2>1. \A k \in Loops : k # l => ~InRun(k)' BY <1>2, <1>5, <1>7 DEF OneRun, InRun
  <2>2. \A k \in Loops : k # l => LookedUp(k)' /\ OnlyMarked(k)' BY <2>1 DEF LookedUp, OnlyMarked, InRun
  <2>3. CASE GoesWell(l) BY <2>1, <2>2, <2>3 DEF GoesWell, OneRun, Rested
  <2>4. CASE loop'[l] = Free /\ GhostFree(task')
    <3>1. ~InRun(l)' /\ LookedUp(l)' /\ OnlyMarked(l)' BY <2>4 DEF Free, InRun, LookedUp, OnlyMarked
    <3>2. Rested' BY <2>4 DEF Rested, GhostFree, Ghosts
    <3> QED BY <2>1, <2>2, <3>1, <3>2 DEF OneRun
  <2> QED BY <1>2, <1>7, <2>3, <2>4, RunAlone
<1>8. CASE ~InRun(l)
  <2>1. loop[l].stage = "opening" BY <1>3, <1>8 DEF InRun
  <2>2. Enter(l) BY <2>1 DEF Run, Begin, Turn, Look, Ask, Answer, Fail, End, Asking
  <2>3. UNCHANGED storeVars BY <2>2 DEF Enter
  <2>4. \A k \in Loops : k # l => /\ LookedUp(k)' /\ OnlyMarked(k)'
                                  /\ InRun(k)' <=> InRun(k)
    BY <1>2, <1>5, <2>3 DEF LookedUp, OnlyMarked, InRun, Ghosts, GhostFree
  <2>5. CASE loop'[l] = Free
    <3>1. ~InRun(l)' /\ LookedUp(l)' /\ OnlyMarked(l)' BY <2>5 DEF Free, InRun, LookedUp, OnlyMarked
    <3>2. OneRun' BY <1>2, <2>4, <3>1 DEF OneRun
    <3>3. Rested' BY <1>4, <1>8, <2>3, <2>4 DEF Rested, GhostFree, Ghosts
    <3> QED BY <2>4, <3>1, <3>2, <3>3
  <2>6. CASE Step(l, "loading", task) /\ ~\E k \in Loops : InRun(k)
    <3>1. loop'[l].stage = "loading" /\ loop'[l].rec = task BY <1>6, <2>6 DEF Step
    <3>2. GhostFree(task) BY <1>4, <2>6 DEF Rested
    <3>3. InRun(l)' /\ LookedUp(l)' BY <3>1 DEF InRun, LookedUp
    <3>4. OnlyMarked(l)' BY <2>3, <3>1, <3>2 DEF OnlyMarked, GhostFree, Ghosts
    <3>5. OneRun' /\ Rested' BY <2>4, <2>6, <3>3 DEF OneRun, Rested
    <3> QED BY <2>4, <3>3, <3>4, <3>5
  <2> QED BY <1>6, <2>2, <2>5, <2>6 DEF Enter, Quit
<1> QED BY <1>7, <1>8

\* Of what the killed page left, restore lays to rest what it finds running.
LEMMA OperateKeepsAlone ==
  ASSUME TypeInv, KeptInv, AloneInv, NEW o \in Ops, Operate(o)
  PROVE  AloneInv'
<1> USE DEF storeVars, mountVars, panelVars, runVars
<1> SUFFICES ASSUME ~overlapped'
             PROVE  /\ OneRun' /\ \A k \in Loops : LookedUp(k)' /\ OnlyMarked(k)'
                    /\ Rested' \/ Fresh'
  BY DEF AloneInv
<1>1. loop' = loop /\ mount' = mount /\ ref' = ref /\ overlapped' = overlapped
  BY DEF Operate, Pausing, Saved, Restoring, Restore, Cancelling, Cancelled, Latest
<1>2. /\ OneRun /\ \A k \in Loops : LookedUp(k) /\ OnlyMarked(k)
      /\ Rested \/ Fresh
  BY <1>1 DEF AloneInv
<1>3. /\ cached' = cached /\ (task' = task \/ GhostFree(task'))
      /\ op[o].stage = "restoring" /\ ~GhostFree(op[o].rec) => GhostFree(task')
      /\ \A p \in Ops : p # o => op'[p] = op[p]
  BY OperateSaves
<1>4. OneRun' BY <1>1, <1>2 DEF OneRun, InRun
<1>5. GhostFree(task) => GhostFree(task') BY <1>3
<1>6. ASSUME NEW k \in Loops PROVE LookedUp(k)' /\ OnlyMarked(k)'
  <2>1. LookedUp(k)' BY <1>1, <1>2, <1>3 DEF LookedUp
  <2>2. OnlyMarked(k)' BY <1>1, <1>2, <1>5 DEF OnlyMarked, InRun, Ghosts, GhostFree
  <2> QED BY <2>1, <2>2
<1>7. GhostFree(task') => Rested' BY DEF Rested, GhostFree, Ghosts
<1>8. CASE Rested BY <1>1, <1>4, <1>5, <1>6, <1>7, <1>8 DEF Rested, InRun
<1>9. CASE Fresh /\ ~GhostFree(task')
  <2>1. op[o].stage # "none"
    BY DEF Operate, Pausing, Saved, Restoring, Restore, Cancelling, Cancelled, Latest
  <2>2. op[o].stage = "latest" BY <1>3, <1>9, <2>1 DEF Fresh, Free
  <2>3. Latest(o) BY <2>2 DEF Operate, Pausing, Saved, Restoring, Restore, Cancelling, Cancelled
  <2>4. shown' = "none" /\ ~ref' /\ task' = task /\ \A k \in Loops : loop'[k] = Free
    BY <1>1, <1>9, <2>3 DEF Latest, Fresh
  <2>5. op \in [Ops -> Operations] BY DEF TypeInv
  <2>6. CASE mount = op[o].mount
    <3>1. /\ op'[o].stage = "restoring" /\ op'[o].rec = task /\ op'[o].mount = mount
          /\ op'[o] # Free
      BY <2>3, <2>5, <2>6 DEF Latest, StepOp, Free
    <3> QED BY <1>1, <1>3, <1>4, <1>6, <1>9, <2>4, <3>1 DEF Fresh, GhostFree, Ghosts, Free
  <2>7. CASE mount # op[o].mount
    <3>1. op'[o] = Free BY <2>3, <2>5, <2>7 DEF Latest
    <3>2. mount # 0 => \E p \in Ops : op'[p] # Free /\ op'[p].mount = mount BY <1>3, <1>9, <2>7 DEF Fresh
    <3> QED BY <1>1, <1>3, <1>4, <1>6, <1>9, <2>4, <3>1, <3>2 DEF Fresh, GhostFree, Ghosts, Free
  <2> QED BY <2>6, <2>7
<1> QED BY <1>2, <1>4, <1>6, <1>7, <1>8, <1>9

LEMMA PanelKeepsAlone ==
  ASSUME TypeInv, HeldInv, KeptInv, AloneInv,
         \/ \E l \in Loops : Open(l)
         \/ \E o \in Ops : \/ ClickPause(o) \/ ClickReset(o) \/ Mount(o)
                           \/ \E revoked \in BOOLEAN : Unmount(o, revoked)
         \/ Revise \/ Kill
  PROVE  AloneInv'
<1> USE DEF storeVars, mountVars, panelVars, runVars
<1> SUFFICES ASSUME ~overlapped'
             PROVE  /\ OneRun' /\ \A k \in Loops : LookedUp(k)' /\ OnlyMarked(k)'
                    /\ Rested' \/ Fresh'
  BY DEF AloneInv
<1>1. overlapped' = overlapped BY DEF Open, ClickPause, ClickReset, Mount, Unmount, Revise, Kill
<1>2. /\ OneRun /\ \A k \in Loops : LookedUp(k) /\ OnlyMarked(k)
      /\ Rested \/ Fresh
  BY <1>1 DEF AloneInv
<1>3. /\ task' = task /\ cached' = cached
      /\ ~Kill => \A l \in Loops : InRun(l) => InRun(l)'
      /\ \A l \in Loops : InRun(l)' =>
           /\ InRun(l) /\ loop'[l].stage = loop[l].stage
           /\ loop'[l].rec = loop[l].rec
           /\ loop[l].stage = "asking" => loop'[l].batch = loop[l].batch
           /\ loop[l].stage # "asking" => loop'[l] = loop[l]
  BY PanelKept
<1>4. OneRun' BY <1>2, <1>3 DEF OneRun
<1>5. ASSUME NEW k \in Loops PROVE LookedUp(k)' /\ OnlyMarked(k)'
  <2>1. CASE ~InRun(k)' BY <2>1 DEF LookedUp, OnlyMarked, InRun
  <2>2. CASE InRun(k)'
    <3>1. LookedUp(k)' BY <1>2, <1>3, <2>2 DEF LookedUp
    <3>2. OnlyMarked(k)' BY <1>2, <1>3, <2>2 DEF OnlyMarked, Ghosts, GhostFree
    <3> QED BY <3>1, <3>2
  <2> QED BY <2>1, <2>2
<1>6. CASE Kill
  <2>1. shown' = "none" /\ ref' = FALSE /\ mount' = 0 BY <1>6 DEF Kill, NoPanel
  <2>2. (\A l \in Loops : loop'[l] = Free) /\ \A o \in Ops : op'[o] = Free BY <1>6 DEF Kill
  <2> QED BY <1>4, <1>5, <2>1, <2>2 DEF Fresh
<1>7. CASE ~Kill /\ Rested
  <2>1. Rested' BY <1>3, <1>7 DEF Rested, GhostFree, Ghosts
  <2> QED BY <1>4, <1>5, <2>1
<1>8. CASE ~Kill /\ Fresh
  <2>1. loop \in [Loops -> Runs] /\ op \in [Ops -> Operations] BY DEF TypeInv
  <2>2. ASSUME NEW o \in Ops, Mount(o) PROVE Fresh'
    <3>1. shown' = "none" /\ ref' = FALSE BY <2>2 DEF Mount, NoPanel
    <3>2. \A l \in Loops : loop'[l] = Free BY <1>8, <2>2 DEF Mount, Fresh
    <3>3. op'[o].stage = "latest" /\ op'[o] # Free /\ op'[o].mount = mount'
      BY <2>1, <2>2 DEF Mount, Free
    <3>4. \A p \in Ops : p # o => op'[p] = op[p] BY <2>1, <2>2 DEF Mount
    <3> QED BY <1>8, <3>1, <3>2, <3>3, <3>4 DEF Fresh, GhostFree, Ghosts
  <2>3. ASSUME NEW o \in Ops, NEW revoked \in BOOLEAN, Unmount(o, revoked) PROVE Fresh'
    <3>1. shown' = "none" /\ ref' = FALSE /\ mount' = 0 BY <2>3 DEF Unmount, NoPanel
    <3>2. op' = op BY <1>8, <2>3 DEF Unmount, Fresh
    <3>3. \A l \in Loops : loop'[l] = Free BY <1>8, <2>3 DEF Unmount, Fresh, Asking, Free
    <3> QED BY <1>8, <3>1, <3>2, <3>3 DEF Fresh, GhostFree, Ghosts
  <2>4. ASSUME Revise PROVE Fresh' BY <1>8, <2>4 DEF Revise, Fresh, GhostFree, Ghosts
  <2>5. shown = "none" BY <1>8 DEF Fresh
  <2> QED BY <1>4, <1>5, <1>8, <2>2, <2>3, <2>4, <2>5 DEF Open, ClickPause, ClickReset
<1> QED BY <1>2, <1>6, <1>7, <1>8

--------------------------------------------------------------------------------
(* The theorems.                                                                *)

LEMMA Starts == Init => IndInv
<1> SUFFICES ASSUME Init PROVE IndInv OBVIOUS
<1>1. \A l \in Loops : loop[l] = Free BY DEF Init
<1>2. \A o \in Ops : op[o] = Free BY DEF Init
<1>3. task \in Records /\ GhostFree(task) /\ Results(task) = {}
  BY DEF Init, Records, Statuses, BatchStatuses, GhostFree, Ghosts, Results
<1>4. TypeInv
  <2>1. mounts = 1 /\ mount = 1 /\ 1 \in Mounts BY TaskAssumption DEF Init, Mounts
  <2>2. loop \in [Loops -> Runs] /\ op \in [Ops -> Operations] BY DEF Init, Runs, Operations
  <2>3. cached \subseteq Keys BY TaskAssumption DEF Init
  <2>4. authorized \in [Mounts -> BOOLEAN] /\ revised \in [Mounts -> BOOLEAN] BY DEF Init
  <2>5. active \in [Mounts -> Loops \cup {0}] /\ intent \in [Mounts -> {"run", "pause", "cancel"}]
    BY DEF Init
  <2>6. mount \in 0 .. mounts /\ shown \in Statuses \cup {"none"} BY <2>1 DEF Init, Statuses
  <2>7. busy \in BOOLEAN /\ ref \in BOOLEAN /\ overlapped \in BOOLEAN BY DEF Init
  <2> QED BY <1>3, <2>1, <2>2, <2>3, <2>4, <2>5, <2>6, <2>7 DEF TypeInv
<1>5. HeldInv BY <1>1 DEF Init, HeldInv, InRun, Free
<1>6. KeptInv BY <1>1, <1>2, <1>3 DEF KeptInv, InRun, Holds, HoldStages, Free
<1>7. AloneInv BY <1>1, <1>3 DEF AloneInv, OneRun, LookedUp, OnlyMarked, Rested, InRun, Free
<1>8. StoppedAsksNothing BY <1>1 DEF StoppedAsksNothing, Asking, Free
<1> QED BY <1>4, <1>5, <1>6, <1>7, <1>8 DEF IndInv

LEMMA Goes == IndInv /\ [Next]_vars => IndInv'
<1> SUFFICES ASSUME IndInv, [Next]_vars PROVE IndInv' OBVIOUS
<1> USE DEF IndInv
<1>1. ASSUME NEW l \in Loops, Run(l) PROVE IndInv'
  BY <1>1, RunTypes, RunHeld, RunKept, RunKeepsAlone
<1>2. ASSUME NEW o \in Ops, Operate(o) PROVE IndInv'
  <2>1. /\ loop' = loop /\ authorized' = authorized /\ active' = active /\ intent' = intent
    BY <1>2 DEF Operate, Pausing, Saved, Restoring, Restore, Cancelling, Cancelled, Latest, runVars, mountVars
  <2>2. HeldInv' /\ StoppedAsksNothing' BY <2>1, HeldElsewhere
  <2> QED BY <1>2, <2>2, OperateTypes, OperateKept, OperateKeepsAlone
<1>3. ASSUME \/ \E l \in Loops : Open(l)
             \/ \E o \in Ops : \/ ClickPause(o) \/ ClickReset(o) \/ Mount(o)
                               \/ \E revoked \in BOOLEAN : Unmount(o, revoked)
             \/ Revise \/ Kill
      PROVE  IndInv'
  <2>1. TypeInv' BY <1>3, PanelTypes
  <2>2. HeldInv' /\ StoppedAsksNothing' BY <1>3, PanelHeld
  <2>3. KeptInv' BY <1>3, PanelKept
  <2>4. AloneInv' BY <1>3, PanelKeepsAlone
  <2> QED BY <2>1, <2>2, <2>3, <2>4
<1>4. CASE UNCHANGED vars
  <2>1. /\ UNCHANGED <<task, cached, revised, mounts, mount, authorized, shown, busy, ref>>
        /\ UNCHANGED <<active, intent, loop, op, overlapped>>
    BY <1>4 DEF vars, storeVars, mountVars, panelVars, runVars
  <2>2. TypeInv' BY <2>1 DEF TypeInv
  <2>3. HeldInv' BY <2>1 DEF HeldInv, InRun
  <2>4. KeptInv' BY <2>1 DEF KeptInv, InRun, Holds, Results
  <2>5. AloneInv'
    BY <2>1 DEF AloneInv, OneRun, LookedUp, OnlyMarked, Rested, Fresh, InRun, GhostFree, Ghosts
  <2>6. StoppedAsksNothing' BY <2>1 DEF StoppedAsksNothing, Asking
  <2> QED BY <2>2, <2>3, <2>4, <2>5, <2>6
<1> QED BY <1>1, <1>2, <1>3, <1>4 DEF Next

\* The invariant of a task, over every order of its runs, the panel's operations and its lives.
LEMMA AlwaysInv == Spec => []IndInv
BY Starts, Goes, PTL DEF Spec

\* What is recorded, held and shown is always of the kind tasks.ts and AiPanelBatch.tsx declare.
THEOREM TaskTypes == Spec => []TypeInv
<1>1. IndInv => TypeInv BY DEF IndInv
<1> QED BY <1>1, AlwaysInv, PTL

\* A request still under way is asked by the run its runner holds, which nothing has told to
\* stop, under a standing authorization: the signal of beginRequest and the aborts reach all.
THEOREM TaskStoppedAsksNothing == Spec => []StoppedAsksNothing
<1>1. IndInv => StoppedAsksNothing BY DEF IndInv
<1> QED BY <1>1, AlwaysInv, PTL

\* No result is recorded as completed that findCompletedBatch would not find.
THEOREM TaskResultsAreStored == Spec => [](Results(task) \subseteq cached)
<1>1. IndInv => Results(task) \subseteq cached BY DEF IndInv, KeptInv
<1> QED BY <1>1, AlwaysInv, PTL

\* While no two runs meet, what restore, Pause and Reset leave has nothing running in it.
THEOREM TaskNoGhostRunning == Spec => []NoGhostRunning
<1>1. IndInv => NoGhostRunning
  BY DEF IndInv, AloneInv, NoGhostRunning, Rested, Fresh, GhostFree, Ghosts, InRun, Free
<1> QED BY <1>1, AlwaysInv, PTL

\* While no two runs meet, no batch is asked for whose result is stored.
THEOREM TaskAskedOnce == Spec => AskedOnce
<1>1. IndInv => [\A l \in Loops :
         loop[l].stage = "marked" /\ loop'[l].stage = "asking" /\ loop'[l].live /\ Key[loop[l].batch] \in cached
         => overlapped]_vars
  BY DEF IndInv, AloneInv, LookedUp
<1> QED BY <1>1, AlwaysInv, PTL DEF AskedOnce
====
