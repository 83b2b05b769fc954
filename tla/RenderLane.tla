----------------------------- MODULE RenderLane -----------------------------
(***************************************************************************)
(* The lane of display work in front of one engine: ui/render-work.ts.     *)
(*                                                                         *)
(* A request joins the live job of its key or brings a new one; a job runs *)
(* when the lane is free and no waiting job is more urgent.  A request may *)
(* be cancelled, and the job with the last of them; a running job holds    *)
(* the lane until the engine has really answered.  While the view is being *)
(* dragged, its owner pauses everything but interaction.                   *)
(*                                                                         *)
(* A job is named by the request that brought it.                          *)
(***************************************************************************)
EXTENDS Naturals

CONSTANTS Requests,   \* the calls of renderWork, each made at most once
          Cancellable,\* those that came with an AbortSignal
          Keys, NoKey,\* what can be shared; a request without a key
          KeyOf,      \* the key of each request
          Priority,   \* its priority, 0 for interaction
          Distance,   \* its distance from the visible page
          Owners,     \* who may pause the lane
          None        \* the lane runs nothing

ASSUME LaneAssumption ==
  /\ Cancellable \subseteq Requests
  /\ KeyOf \in [Requests -> Keys \cup {NoKey}] /\ NoKey \notin Keys
  /\ Priority \in [Requests -> Nat] /\ Distance \in [Requests -> Nat]
  /\ None \notin Requests

VARIABLES
  outcome,    \* what has become of each request's promise
  phase,      \* each job: not there, in lane.pending, lane.running or over
  consumers,  \* each job's consumers
  aborted,    \* the jobs whose controller has aborted
  urgency,    \* each job's priority and distance
  arrival,    \* each job's place in lane.pending, which keeps the order of arrival
  pushes,     \* the jobs that ever entered lane.pending
  shared,     \* lane.shared: the job a request of each key joins
  running,    \* lane.running
  scheduled,  \* lane.scheduled: a microtask is queued
  paused      \* lane.paused

jobVars == <<phase, consumers, aborted, urgency, arrival, pushes>>
vars == <<outcome, jobVars, shared, running, scheduled, paused>>

Settled == {"resolved", "rejected", "cancelled"}
Lower(m, n) == IF m < n THEN m ELSE n

----------------------------------------------------------------------------
\* A request whose signal had fired before it was made.
Refuse(r) ==
  /\ r \in Cancellable /\ outcome[r] = "none"
  /\ outcome' = [outcome EXCEPT ![r] = "cancelled"]
  /\ UNCHANGED <<jobVars, shared, running, scheduled, paused>>

\* The first request of its key, or one without a key, brings a job.
Bring(r) ==
  /\ phase' = [phase EXCEPT ![r] = "pending"]
  /\ consumers' = [consumers EXCEPT ![r] = {r}]
  /\ urgency' = [urgency EXCEPT ![r] = [priority |-> Priority[r], distance |-> Distance[r]]]
  /\ arrival' = [arrival EXCEPT ![r] = pushes] /\ pushes' = pushes + 1
  /\ shared' = [k \in Keys |-> IF k = KeyOf[r] THEN r ELSE shared[k]]

\* Any other joins the job of its key and lends it its urgency.
Join(r, j) ==
  /\ consumers' = [consumers EXCEPT ![j] = @ \cup {r}]
  /\ urgency' = [urgency EXCEPT ![j] = [priority |-> Lower(@.priority, Priority[r]),
                                        distance |-> Lower(@.distance, Distance[r])]]
  /\ UNCHANGED <<phase, arrival, pushes, shared>>

\* renderWork: a request is made.
Request(r) ==
  /\ outcome[r] = "none"
  /\ outcome' = [outcome EXCEPT ![r] = "waiting"]
  /\ \/ KeyOf[r] = NoKey /\ Bring(r)
     \/ \E k \in Keys : KeyOf[r] = k /\ IF shared[k] = None THEN Bring(r) ELSE Join(r, shared[k])
  /\ scheduled' = TRUE
  /\ UNCHANGED <<aborted, running, paused>>

\* Seeded bug: the key is given up whoever holds it.
MutantForget(j) == shared' = [k \in Keys |-> IF k = KeyOf[j] THEN None ELSE shared[k]]

\* forget: the key is given up only if it still stands for this very job.
Forget(j) == shared' = [k \in Keys |-> IF shared[k] = j THEN None ELSE shared[k]]

\* Seeded bug: an aborted job keeps its key until it has run.
MutantCancel(r, j) ==
  /\ r \in Cancellable /\ outcome[r] = "waiting" /\ r \in consumers[j]
  /\ outcome' = [outcome EXCEPT ![r] = "cancelled"]
  /\ consumers' = [consumers EXCEPT ![j] = @ \ {r}]
  /\ IF consumers[j] = {r}
     THEN /\ aborted' = aborted \cup {j}
          /\ phase' = [phase EXCEPT ![j] = IF @ = "pending" THEN "over" ELSE @]
     ELSE UNCHANGED <<aborted, phase>>
  /\ UNCHANGED <<urgency, arrival, pushes, shared, running, scheduled, paused>>

\* Seeded bug: an aborted job gives the lane up before the engine has answered.
MutantRelease(r, j) ==
  /\ r \in Cancellable /\ outcome[r] = "waiting" /\ r \in consumers[j]
  /\ outcome' = [outcome EXCEPT ![r] = "cancelled"]
  /\ consumers' = [consumers EXCEPT ![j] = @ \ {r}]
  /\ IF consumers[j] = {r}
     THEN /\ Forget(j)
          /\ aborted' = aborted \cup {j}
          /\ phase' = [phase EXCEPT ![j] = IF @ = "pending" THEN "over" ELSE @]
          /\ running' = IF running = j THEN None ELSE running
     ELSE UNCHANGED <<shared, aborted, phase, running>>
  /\ scheduled' = TRUE
  /\ UNCHANGED <<urgency, arrival, pushes, paused>>

\* cancel: the request's signal fires while it waits.  With its last consumer
\* a job is aborted, and leaves the lane if it has not started.
Cancel(r, j) ==
  /\ r \in Cancellable /\ outcome[r] = "waiting" /\ r \in consumers[j]
  /\ outcome' = [outcome EXCEPT ![r] = "cancelled"]
  /\ consumers' = [consumers EXCEPT ![j] = @ \ {r}]
  /\ IF consumers[j] = {r}
     THEN /\ Forget(j)
          /\ aborted' = aborted \cup {j}
          /\ phase' = [phase EXCEPT ![j] = IF @ = "pending" THEN "over" ELSE @]
     ELSE UNCHANGED <<shared, aborted, phase>>
  /\ UNCHANGED <<urgency, arrival, pushes, running, scheduled, paused>>

\* A paused lane starts nothing but interaction.
Eligible(j) == phase[j] = "pending" /\ (paused = {} \/ urgency[j].priority = 0)

Before(i, j) ==
  \/ urgency[i].priority < urgency[j].priority
  \/ /\ urgency[i].priority = urgency[j].priority
     /\ \/ urgency[i].distance < urgency[j].distance
        \/ urgency[i].distance = urgency[j].distance /\ arrival[i] < arrival[j]

\* The microtask starts the most urgent job, if the lane is free and has one.
Start(j) ==
  /\ scheduled /\ running = None
  /\ Eligible(j) /\ \A i \in Requests : Eligible(i) => ~Before(i, j)
  /\ scheduled' = FALSE
  /\ phase' = [phase EXCEPT ![j] = "running"]
  /\ running' = j
  /\ UNCHANGED <<outcome, consumers, aborted, urgency, arrival, pushes, shared, paused>>

\* The microtask finds the lane busy, empty or paused.
Skip ==
  /\ scheduled
  /\ running # None \/ \A j \in Requests : ~Eligible(j)
  /\ scheduled' = FALSE
  /\ UNCHANGED <<outcome, jobVars, shared, running, paused>>

\* Seeded bug: the end of a job does not look for the next.
MutantFinish(j) ==
  /\ running = j /\ phase[j] = "running"
  /\ Forget(j)
  /\ \E result \in {"resolved", "rejected"} :
       outcome' = [r \in Requests |-> IF r \in consumers[j] THEN result ELSE outcome[r]]
  /\ consumers' = [consumers EXCEPT ![j] = {}]
  /\ phase' = [phase EXCEPT ![j] = "over"]
  /\ running' = None
  /\ UNCHANGED <<aborted, urgency, arrival, pushes, scheduled, paused>>

\* finish: the engine has answered; every consumer left settles with it.
Finish(j) ==
  /\ running = j /\ phase[j] = "running"
  /\ Forget(j)
  /\ \E result \in {"resolved", "rejected"} :
       outcome' = [r \in Requests |-> IF r \in consumers[j] THEN result ELSE outcome[r]]
  /\ consumers' = [consumers EXCEPT ![j] = {}]
  /\ phase' = [phase EXCEPT ![j] = "over"]
  /\ running' = None
  /\ scheduled' = TRUE
  /\ UNCHANGED <<aborted, urgency, arrival, pushes, paused>>

\* Seeded bug: the end of a pause wakes nobody.
MutantUnpause(o) ==
  /\ o \in paused /\ paused' = paused \ {o}
  /\ UNCHANGED <<outcome, jobVars, shared, running, scheduled>>

\* setRenderWorkPaused
Pause(o) ==
  /\ o \notin paused /\ paused' = paused \cup {o}
  /\ scheduled' = TRUE
  /\ UNCHANGED <<outcome, jobVars, shared, running>>

Unpause(o) ==
  /\ o \in paused /\ paused' = paused \ {o}
  /\ scheduled' = TRUE
  /\ UNCHANGED <<outcome, jobVars, shared, running>>

----------------------------------------------------------------------------
Init ==
  /\ outcome = [r \in Requests |-> "none"]
  /\ phase = [r \in Requests |-> "none"]
  /\ consumers = [r \in Requests |-> {}]
  /\ aborted = {}
  /\ urgency = [r \in Requests |-> [priority |-> 0, distance |-> 0]]
  /\ arrival = [r \in Requests |-> 0] /\ pushes = 0
  /\ shared = [k \in Keys |-> None]
  /\ running = None /\ scheduled = FALSE /\ paused = {}

Next ==
  \/ \E r \in Requests : Refuse(r) \/ Request(r) \/ \E j \in Requests : Cancel(r, j)
  \/ \E j \in Requests : Start(j) \/ Finish(j)
  \/ Skip
  \/ \E o \in Owners : Pause(o) \/ Unpause(o)

Microtask == Skip \/ \E j \in Requests : Start(j)

\* Fairness: microtasks run and the engine answers every job it was given.
\* That the view is left alone at last is an assumption of the liveness property.
Spec == Init /\ [][Next]_vars
FairSpec == Spec /\ WF_vars(Microtask) /\ WF_vars(\E j \in Requests : Finish(j))

----------------------------------------------------------------------------
(* Properties *)

\* Every variable has its type, and the lane holds the job that is running.
TypeOK ==
  /\ outcome \in [Requests -> {"none", "waiting"} \cup Settled]
  /\ phase \in [Requests -> {"none", "pending", "running", "over"}]
  /\ consumers \in [Requests -> SUBSET Requests]
  /\ aborted \subseteq Requests
  /\ urgency \in [Requests -> [priority : Nat, distance : Nat]]
  /\ arrival \in [Requests -> Nat] /\ pushes \in Nat
  /\ shared \in [Keys -> Requests \cup {None}]
  /\ running \in Requests \cup {None}
  /\ scheduled \in BOOLEAN /\ paused \subseteq Owners
  /\ \A j \in Requests : phase[j] = "running" <=> running = j

\* No lost wake-up: a free lane that has a job it may start has its microtask
\* queued, whatever order of finishing, cancelling and unpausing led there.
NoLostWakeup == running = None /\ (\E j \in Requests : Eligible(j)) => scheduled

\* Work is shared: no two jobs of one key are ever wanted at the same time,
\* though a cancelled one may still run beside its successor.
OneJobPerKey ==
  \A i, j \in Requests :
    KeyOf[i] \in Keys /\ KeyOf[i] = KeyOf[j] /\ consumers[i] # {} /\ consumers[j] # {} => i = j

\* A request that waits has a job that will answer it: one live job of its key,
\* never an aborted one (joining a job whose last consumer just left).
WaitersServed ==
  \A r \in Requests : outcome[r] = "waiting" =>
    \E j \in Requests \ aborted :
      r \in consumers[j] /\ phase[j] \in {"pending", "running"} /\ KeyOf[j] = KeyOf[r]

\* The engine is given no job that nobody wants, and one job at a time even
\* while an aborted one has not answered (render-work.test.ts:48).
SerialAndWanted ==
  [][\A j \in Requests : phase[j] # "running" /\ phase'[j] = "running" =>
       consumers[j] # {} /\ \A i \in Requests : phase[i] # "running"]_vars

\* Every request settles, unless the view is dragged for ever.
RequestsSettle ==
  <>[](paused = {}) => \A r \in Requests : outcome[r] = "waiting" ~> outcome[r] \in Settled
=============================================================================
