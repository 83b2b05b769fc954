------------------------- MODULE RenderLane_proofs -------------------------
(***************************************************************************)
(* Proofs about RenderLane, for any set of requests, keys and owners.      *)
(*                                                                         *)
(* The four safety properties follow from one inductive invariant, which   *)
(* says which jobs have consumers, what lane.shared points to, and that    *)
(* every request that waits is a consumer of exactly one job.              *)
(***************************************************************************)
EXTENDS RenderLane, TLAPS

\* A job has consumers only while it is in the lane, and is aborted only
\* without any; a job that has not started is wanted.
JobsInv ==
  /\ \A j \in Requests : consumers[j] # {} => phase[j] \in {"pending", "running"} /\ j \notin aborted
  /\ \A j \in Requests : phase[j] = "pending" => consumers[j] # {}
  /\ \A j \in Requests : phase[j] # "none" => outcome[j] # "none"
  /\ \A j \in aborted : phase[j] # "none"

\* lane.shared holds exactly the wanted jobs that have a key.
SharedInv ==
  /\ \A k \in Keys : shared[k] # None => consumers[shared[k]] # {} /\ KeyOf[shared[k]] = k
  /\ \A j \in Requests : consumers[j] # {} /\ KeyOf[j] # NoKey => shared[KeyOf[j]] = j

\* The consumers are the requests that wait, each of one job of its own key.
ConsumersInv ==
  /\ \A r, j \in Requests : r \in consumers[j] => outcome[r] = "waiting" /\ KeyOf[r] = KeyOf[j]
  /\ \A r \in Requests : outcome[r] = "waiting" => \E j \in Requests : r \in consumers[j]
  /\ \A r, i, j \in Requests : r \in consumers[i] /\ r \in consumers[j] => i = j

LaneInv == TypeOK /\ JobsInv /\ SharedInv /\ ConsumersInv /\ NoLostWakeup

\* The lane starts empty.
LEMMA InitLane == Init => LaneInv
<1> SUFFICES ASSUME Init PROVE LaneInv
    OBVIOUS
<1>1. TypeOK
  BY LaneAssumption DEF Init, TypeOK
<1>2. JobsInv
  BY DEF Init, JobsInv
<1>3. SharedInv
  BY LaneAssumption DEF Init, SharedInv
<1>4. ConsumersInv
  BY DEF Init, ConsumersInv
<1>5. NoLostWakeup
  BY DEF Init, NoLostWakeup, Eligible
<1>6. QED BY <1>1, <1>2, <1>3, <1>4, <1>5 DEF LaneInv

\* Every step of the lane keeps the invariant.
LEMMA NextLane == LaneInv /\ [Next]_vars => LaneInv'
<1> SUFFICES ASSUME LaneInv, [Next]_vars PROVE LaneInv'
    OBVIOUS
<1> USE LaneAssumption
<1>1. ASSUME NEW r \in Requests, Refuse(r) PROVE LaneInv'
  <2> USE DEF jobVars
  <2>1. TypeOK'
    BY <1>1 DEF Refuse, LaneInv, TypeOK, JobsInv, Settled
  <2>2. JobsInv'
    BY <1>1 DEF Refuse, LaneInv, TypeOK, JobsInv, SharedInv, ConsumersInv
  <2>3. SharedInv'
    BY <1>1 DEF Refuse, LaneInv, TypeOK, JobsInv, SharedInv, ConsumersInv
  <2>4. ConsumersInv'
    BY <1>1 DEF Refuse, LaneInv, TypeOK, JobsInv, SharedInv, ConsumersInv
  <2>5. NoLostWakeup'
    BY <1>1 DEF Refuse, LaneInv, TypeOK, NoLostWakeup, Eligible
  <2>6. QED BY <2>1, <2>2, <2>3, <2>4, <2>5 DEF LaneInv
<1>2. ASSUME NEW r \in Requests, Request(r) PROVE LaneInv'
  <2> USE DEF jobVars
  <2>1. phase[r] = "none" /\ consumers[r] = {} /\ r \notin aborted
    BY <1>2 DEF Request, LaneInv, TypeOK, JobsInv
  <2>2. NoLostWakeup'
    BY <1>2 DEF Request, NoLostWakeup
  <2>3. ASSUME Bring(r), KeyOf[r] # NoKey => shared[KeyOf[r]] = None PROVE LaneInv'
    <3>1. TypeOK'
      BY <1>2, <2>1, <2>3 DEF Request, Bring, LaneInv, TypeOK, Settled
    <3>2. JobsInv'
      BY <1>2, <2>1, <2>3 DEF Request, Bring, LaneInv, TypeOK, JobsInv
    <3>3. SharedInv'
      <4>1. /\ consumers' = [consumers EXCEPT ![r] = {r}]
            /\ shared' = [k \in Keys |-> IF k = KeyOf[r] THEN r ELSE shared[k]]
        BY <2>3 DEF Bring
      <4>2. consumers \in [Requests -> SUBSET Requests] /\ SharedInv
        BY DEF LaneInv, TypeOK
      <4>3. ASSUME NEW k \in Keys, shared'[k] # None
            PROVE consumers'[shared'[k]] # {} /\ KeyOf[shared'[k]] = k
        <5>1. CASE k = KeyOf[r]
          BY <4>1, <4>2, <5>1
        <5>2. CASE k # KeyOf[r]
          BY <2>1, <4>1, <4>2, <4>3, <5>2 DEF SharedInv
        <5>3. QED BY <5>1, <5>2
      <4>4. ASSUME NEW j \in Requests, consumers'[j] # {}, KeyOf[j] # NoKey
            PROVE shared'[KeyOf[j]] = j
        <5>1. KeyOf[j] \in Keys
          BY <4>4
        <5>2. CASE j = r
          BY <4>1, <5>1, <5>2
        <5>3. CASE j # r
          BY <2>3, <4>1, <4>2, <4>4, <5>1, <5>3 DEF SharedInv
        <5>4. QED BY <5>2, <5>3
      <4>5. QED BY <4>3, <4>4 DEF SharedInv
    <3>4. ConsumersInv'
      BY <1>2, <2>1, <2>3 DEF Request, Bring, LaneInv, TypeOK, ConsumersInv
    <3>5. QED BY <3>1, <3>2, <3>3, <3>4, <2>2 DEF LaneInv
  <2>4. ASSUME NEW k \in Keys, KeyOf[r] = k, shared[k] # None, Join(r, shared[k]) PROVE LaneInv'
    <3> DEFINE j == shared[k]
    <3>1. j \in Requests /\ consumers[j] # {} /\ KeyOf[j] = KeyOf[r]
      BY <2>4 DEF LaneInv, TypeOK, SharedInv
    <3>2. TypeOK'
      <4>1. urgency' \in [Requests -> [priority : Nat, distance : Nat]]
        BY <2>4, <3>1 DEF Join, Lower, LaneInv, TypeOK
      <4>2. consumers' \in [Requests -> SUBSET Requests]
        BY <2>4, <3>1 DEF Join, LaneInv, TypeOK
      <4>3. QED BY <1>2, <2>4, <4>1, <4>2 DEF Request, Join, LaneInv, TypeOK, Settled
    <3>3. consumers' = [consumers EXCEPT ![j] = @ \cup {r}]
          /\ UNCHANGED <<phase, shared, aborted>>
      BY <1>2, <2>4 DEF Request, Join
    <3> HIDE DEF j
    <3>4. JobsInv'
      BY <1>2, <2>1, <3>1, <3>3 DEF Request, LaneInv, TypeOK, JobsInv
    <3>5. SharedInv'
      BY <1>2, <2>1, <3>1, <3>3 DEF Request, LaneInv, TypeOK, SharedInv
    <3>6. ConsumersInv'
      BY <1>2, <2>1, <3>1, <3>3 DEF Request, LaneInv, TypeOK, ConsumersInv
    <3>7. QED BY <3>2, <3>4, <3>5, <3>6, <2>2 DEF LaneInv
  <2>5. QED BY <1>2, <2>3, <2>4 DEF Request
<1>3. ASSUME NEW r \in Requests, NEW j \in Requests, Cancel(r, j) PROVE LaneInv'
  <2> USE DEF jobVars
  <2>1. TypeOK'
    BY <1>3 DEF Cancel, Forget, LaneInv, TypeOK, JobsInv, Settled
  <2>2. JobsInv'
    BY <1>3 DEF Cancel, Forget, LaneInv, TypeOK, JobsInv, SharedInv, ConsumersInv
  <2>3. SharedInv'
    <3>1. CASE consumers[j] = {r}
      <4>1. /\ consumers' = [consumers EXCEPT ![j] = {}]
            /\ shared' = [k \in Keys |-> IF shared[k] = j THEN None ELSE shared[k]]
        BY <1>3, <3>1 DEF Cancel, Forget, LaneInv, TypeOK
      <4>2. /\ consumers \in [Requests -> SUBSET Requests]
            /\ shared \in [Keys -> Requests \cup {None}]
        BY DEF LaneInv, TypeOK
      <4>3. QED BY <4>1, <4>2 DEF LaneInv, SharedInv
    <3>2. CASE consumers[j] # {r}
      BY <1>3, <3>2 DEF Cancel, LaneInv, TypeOK, SharedInv
    <3>3. QED BY <3>1, <3>2
  <2>4. ConsumersInv'
    BY <1>3 DEF Cancel, Forget, LaneInv, TypeOK, JobsInv, SharedInv, ConsumersInv
  <2>5. NoLostWakeup'
    BY <1>3 DEF Cancel, Forget, LaneInv, TypeOK, NoLostWakeup, Eligible
  <2>6. QED BY <2>1, <2>2, <2>3, <2>4, <2>5 DEF LaneInv
<1>4. ASSUME NEW j \in Requests, Start(j) PROVE LaneInv'
  <2> USE DEF jobVars
  <2>1. TypeOK'
    BY <1>4 DEF Start, Eligible, LaneInv, TypeOK, JobsInv, Settled
  <2>2. JobsInv'
    BY <1>4 DEF Start, Eligible, LaneInv, TypeOK, JobsInv, SharedInv, ConsumersInv
  <2>3. SharedInv'
    BY <1>4 DEF Start, Eligible, LaneInv, TypeOK, JobsInv, SharedInv, ConsumersInv
  <2>4. ConsumersInv'
    BY <1>4 DEF Start, Eligible, LaneInv, TypeOK, JobsInv, SharedInv, ConsumersInv
  <2>5. NoLostWakeup'
    BY <1>4 DEF Start, Eligible, LaneInv, TypeOK, NoLostWakeup, Eligible
  <2>6. QED BY <2>1, <2>2, <2>3, <2>4, <2>5 DEF LaneInv
<1>5. ASSUME NEW j \in Requests, Finish(j) PROVE LaneInv'
  <2> USE DEF jobVars
  <2>1. TypeOK'
    BY <1>5 DEF Finish, Forget, LaneInv, TypeOK, JobsInv, Settled
  <2>2. JobsInv'
    BY <1>5 DEF Finish, Forget, LaneInv, TypeOK, JobsInv, SharedInv, ConsumersInv
  <2>3. SharedInv'
    BY <1>5 DEF Finish, Forget, LaneInv, TypeOK, JobsInv, SharedInv, ConsumersInv
  <2>4. ConsumersInv'
    BY <1>5 DEF Finish, Forget, LaneInv, TypeOK, JobsInv, SharedInv, ConsumersInv
  <2>5. NoLostWakeup'
    BY <1>5 DEF Finish, Forget, LaneInv, TypeOK, NoLostWakeup, Eligible
  <2>6. QED BY <2>1, <2>2, <2>3, <2>4, <2>5 DEF LaneInv
<1>6. ASSUME Skip PROVE LaneInv'
  <2> USE DEF jobVars
  <2>1. TypeOK'
    BY <1>6 DEF Skip, LaneInv, TypeOK, JobsInv, Settled
  <2>2. JobsInv'
    BY <1>6 DEF Skip, LaneInv, TypeOK, JobsInv, SharedInv, ConsumersInv
  <2>3. SharedInv'
    BY <1>6 DEF Skip, LaneInv, TypeOK, JobsInv, SharedInv, ConsumersInv
  <2>4. ConsumersInv'
    BY <1>6 DEF Skip, LaneInv, TypeOK, JobsInv, SharedInv, ConsumersInv
  <2>5. NoLostWakeup'
    BY <1>6 DEF Skip, LaneInv, TypeOK, NoLostWakeup, Eligible
  <2>6. QED BY <2>1, <2>2, <2>3, <2>4, <2>5 DEF LaneInv
<1>7. ASSUME NEW o \in Owners, Pause(o) PROVE LaneInv'
  <2> USE DEF jobVars
  <2>1. TypeOK'
    BY <1>7 DEF Pause, LaneInv, TypeOK, JobsInv, Settled
  <2>2. JobsInv'
    BY <1>7 DEF Pause, LaneInv, TypeOK, JobsInv, SharedInv, ConsumersInv
  <2>3. SharedInv'
    BY <1>7 DEF Pause, LaneInv, TypeOK, JobsInv, SharedInv, ConsumersInv
  <2>4. ConsumersInv'
    BY <1>7 DEF Pause, LaneInv, TypeOK, JobsInv, SharedInv, ConsumersInv
  <2>5. NoLostWakeup'
    BY <1>7 DEF Pause, LaneInv, TypeOK, NoLostWakeup, Eligible
  <2>6. QED BY <2>1, <2>2, <2>3, <2>4, <2>5 DEF LaneInv
<1>8. ASSUME NEW o \in Owners, Unpause(o) PROVE LaneInv'
  <2> USE DEF jobVars
  <2>1. TypeOK'
    BY <1>8 DEF Unpause, LaneInv, TypeOK, JobsInv, Settled
  <2>2. JobsInv'
    BY <1>8 DEF Unpause, LaneInv, TypeOK, JobsInv, SharedInv, ConsumersInv
  <2>3. SharedInv'
    BY <1>8 DEF Unpause, LaneInv, TypeOK, JobsInv, SharedInv, ConsumersInv
  <2>4. ConsumersInv'
    BY <1>8 DEF Unpause, LaneInv, TypeOK, JobsInv, SharedInv, ConsumersInv
  <2>5. NoLostWakeup'
    BY <1>8 DEF Unpause, LaneInv, TypeOK, NoLostWakeup, Eligible
  <2>6. QED BY <2>1, <2>2, <2>3, <2>4, <2>5 DEF LaneInv
<1>9. ASSUME UNCHANGED vars PROVE LaneInv'
  <2> USE DEF jobVars
  <2>1. TypeOK'
    BY <1>9 DEF vars, LaneInv, TypeOK, JobsInv, Settled
  <2>2. JobsInv'
    BY <1>9 DEF vars, LaneInv, TypeOK, JobsInv, SharedInv, ConsumersInv
  <2>3. SharedInv'
    BY <1>9 DEF vars, LaneInv, TypeOK, JobsInv, SharedInv, ConsumersInv
  <2>4. ConsumersInv'
    BY <1>9 DEF vars, LaneInv, TypeOK, JobsInv, SharedInv, ConsumersInv
  <2>5. NoLostWakeup'
    BY <1>9 DEF vars, LaneInv, TypeOK, NoLostWakeup, Eligible
  <2>6. QED BY <2>1, <2>2, <2>3, <2>4, <2>5 DEF LaneInv
<1>10. QED BY <1>1, <1>2, <1>3, <1>4, <1>5, <1>6, <1>7, <1>8, <1>9 DEF Next

\* The invariant always holds.
LEMMA LaneInvariant == Spec => []LaneInv
  BY InitLane, NextLane, PTL DEF Spec

\* TypeOK always holds.
THEOREM TypeCorrect == Spec => []TypeOK
<1>1. LaneInv => TypeOK
  BY DEF LaneInv
<1>2. QED BY LaneInvariant, <1>1, PTL

\* A free lane never sleeps while it has a job it may start.
THEOREM NeverAsleep == Spec => []NoLostWakeup
<1>1. LaneInv => NoLostWakeup
  BY DEF LaneInv
<1>2. QED BY LaneInvariant, <1>1, PTL

\* No two jobs of one key are wanted at the same time.
THEOREM WorkIsShared == Spec => []OneJobPerKey
<1>1. LaneInv => OneJobPerKey
  BY LaneAssumption DEF LaneInv, SharedInv, OneJobPerKey
<1>2. QED BY LaneInvariant, <1>1, PTL

\* Every request that waits is a consumer of a live job of its key.
THEOREM NobodyOrphaned == Spec => []WaitersServed
<1>1. LaneInv => WaitersServed
  BY DEF LaneInv, TypeOK, JobsInv, ConsumersInv, WaitersServed
<1>2. QED BY LaneInvariant, <1>1, PTL

\* The engine is given one job at a time, and none that nobody wants.
THEOREM EngineSerial == Spec => SerialAndWanted
<1>1. LaneInv /\ [Next]_vars =>
        [\A j \in Requests : phase[j] # "running" /\ phase'[j] = "running" =>
           consumers[j] # {} /\ \A i \in Requests : phase[i] # "running"]_vars
  <2> SUFFICES ASSUME LaneInv, Next, NEW j \in Requests,
                      phase[j] # "running", phase'[j] = "running"
               PROVE consumers[j] # {} /\ \A i \in Requests : phase[i] # "running"
      OBVIOUS
  <2> USE LaneAssumption DEF jobVars
  <2>1. PICK i \in Requests : Start(i)
    <3>1. ASSUME NEW r \in Requests, Request(r) PROVE FALSE
      BY <3>1 DEF Request, Bring, Join, LaneInv, TypeOK
    <3>2. ASSUME NEW r \in Requests, Refuse(r) PROVE FALSE
      BY <3>2 DEF Refuse
    <3>3. ASSUME NEW r \in Requests, NEW k \in Requests, Cancel(r, k) PROVE FALSE
      BY <3>3 DEF Cancel, LaneInv, TypeOK
    <3>4. ASSUME NEW k \in Requests, Finish(k) PROVE FALSE
      BY <3>4 DEF Finish, LaneInv, TypeOK
    <3>5. ASSUME Skip \/ \E o \in Owners : Pause(o) \/ Unpause(o) PROVE FALSE
      BY <3>5 DEF Skip, Pause, Unpause
    <3>6. QED BY <3>1, <3>2, <3>3, <3>4, <3>5 DEF Next
  <2>2. i = j
    BY <2>1 DEF Start, LaneInv, TypeOK
  <2>3. QED BY <2>1, <2>2 DEF Start, Eligible, LaneInv, TypeOK, JobsInv
<1>2. QED BY LaneInvariant, <1>1, PTL DEF Spec, SerialAndWanted
=============================================================================
