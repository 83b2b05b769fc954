----------------------------- MODULE WorkerRpc -----------------------------
(***************************************************************************)
(* The RPC between the editor's page and its PDF worker:                   *)
(* packages/editor/src/rpc/client.ts (WorkerRpcClient) on one side,        *)
(* packages/editor/src/rpc/server.ts (attachEngineWorker) on the other and *)
(* the two ordered message channels of the Worker between them.            *)
(*                                                                         *)
(* A call of the client waits for the shared handshake, posts one request  *)
(* and settles when the worker answers, when its answer comes after its    *)
(* AbortSignal fired, or when the worker exits.  The worker executes the   *)
(* requests one at a time in the order they arrive; an engine-cancel and   *)
(* the arrival of a mutation act at once on the renders already there.     *)
(***************************************************************************)
EXTENDS Naturals, Sequences

CONSTANTS Calls,       \* the calls the application may make, each at most once
          Render,      \* the calls of render, the only ones with a signal
          Mutate,      \* the calls of apply, undo, redo and close
          Unknown,     \* calls of a method this worker does not know
          DocOf,       \* the document a call is about
          HS,          \* the request id of the handshake
          None,        \* no request is running
          Compatible   \* the worker's handshake has the client's version

ASSUME CallsAssumption ==
  /\ Render \subseteq Calls /\ Mutate \subseteq Calls /\ Unknown \subseteq Calls
  /\ Render \cap Mutate = {} /\ Unknown \cap (Render \cup Mutate) = {}
  /\ HS \notin Calls /\ None \notin Calls /\ HS # None
  /\ Compatible \in BOOLEAN

VARIABLES
  status,     \* client: what has become of each call's promise
  issued,     \* client: the calls made, in the order they were made
  signal,     \* client: the calls whose AbortSignal has fired
  handshake,  \* client: the cached handshakePromise
  exited,     \* client: exitedError is set
  attached,   \* client: its listeners are installed
  toWorker,   \* channel: messages from the client, oldest first
  toClient,   \* channel: messages from the worker, oldest first
  alive,      \* worker: the thread runs
  listening,  \* worker: its message listener is installed
  queue,      \* worker: requests waiting in executionQueue
  running,    \* worker: the request being executed, or None
  invoked,    \* worker: the running request has reached the engine
  binding,    \* worker: bindingPromise
  renders,    \* worker: the keys of the renders map
  aborted     \* worker: the renders whose controller has aborted

clientVars == <<status, issued, signal, handshake, exited, attached>>
serverVars == <<listening, queue, running, invoked, binding, renders, aborted>>
vars == <<clientVars, toWorker, toClient, alive, serverVars>>

Ids == Calls \cup {HS}
Settled == {"resolved", "cancelled", "failed"}
Exit == [kind |-> "exit", id |-> HS]
RequestMsg == [kind : {"handshake"}, id : {HS}] \cup [kind : {"request", "cancel"}, id : Calls]
ResponseMsg == [kind : {"handshake", "exit"}, id : {HS}] \cup [kind : {"result"}, id : Calls]
                 \cup [kind : {"error"}, id : Ids]

Holds(seq, x) == \E i \in DOMAIN seq : seq[i] = x

----------------------------------------------------------------------------
(* The client *)

\* A post to a dead worker is silently dropped.
Post(m) == toWorker' = IF alive THEN Append(toWorker, m) ELSE toWorker

Waiting(c) == status[c] = "waiting"
Oldest(c) == \E i \in DOMAIN issued : /\ issued[i] = c
                                      /\ \A j \in 1..(i - 1) : ~Waiting(issued[j])

\* Seeded bug: the exit is recorded and nobody is told.
MutantFailPending == exited' = TRUE /\ handshake' = "none" /\ UNCHANGED status

\* failPending: every pending promise is rejected and the handshake forgotten.
FailPending ==
  /\ exited' = TRUE
  /\ handshake' = "none"
  /\ status' = [c \in Calls |-> IF status[c] = "pending" THEN "failed" ELSE status[c]]

\* handshake(): the first call posts the one handshake request, unless the
\* worker has exited or the post throws; the promise is cached either way.
EnsureHandshake ==
  IF handshake # "none" THEN UNCHANGED <<handshake, toWorker>>
  ELSE \/ /\ ~exited
          /\ handshake' = "pending"
          /\ Post([kind |-> "handshake", id |-> HS])
       \/ handshake' = "failed" /\ UNCHANGED toWorker

\* call(): an already aborted signal rejects, otherwise wait for the handshake.
Call(c) ==
  /\ status[c] = "idle"
  /\ issued' = Append(issued, c)
  /\ IF c \in signal
     THEN /\ status' = [status EXCEPT ![c] = "cancelled"]
          /\ UNCHANGED <<handshake, toWorker>>
     ELSE /\ status' = [status EXCEPT ![c] = "waiting"]
          /\ EnsureHandshake
  /\ UNCHANGED <<signal, exited, attached, toClient, alive, serverVars>>

\* request(): the calls resume in the order they began to wait.  A post that
\* throws rejects the call; a closed client and a fired signal are seen first.
Resume(c) ==
  /\ Waiting(c) /\ Oldest(c)
  /\ exited \/ handshake \in {"ok", "failed"}
  /\ \/ /\ exited \/ handshake = "failed"
        /\ status' = [status EXCEPT ![c] = "failed"]
        /\ UNCHANGED toWorker
     \/ /\ ~exited /\ handshake = "ok" /\ c \in signal
        /\ status' = [status EXCEPT ![c] = "cancelled"]
        /\ UNCHANGED toWorker
     \/ /\ ~exited /\ handshake = "ok" /\ c \notin signal
        /\ \/ /\ status' = [status EXCEPT ![c] = "pending"]
              /\ Post([kind |-> "request", id |-> c])
           \/ /\ status' = [status EXCEPT ![c] = "failed"]
              /\ UNCHANGED toWorker
  /\ UNCHANGED <<issued, signal, handshake, exited, attached, toClient, alive, serverVars>>

\* Seeded bug: an aborted call is rejected at once, whatever the worker does.
MutantAbort(c) ==
  /\ c \in Render \ signal
  /\ signal' = signal \cup {c}
  /\ status' = [status EXCEPT ![c] = IF @ = "pending" THEN "cancelled" ELSE @]
  /\ UNCHANGED <<issued, handshake, exited, attached, toWorker, toClient, alive, serverVars>>

\* The application aborts a render.  onAbort posts one cancel for a pending
\* request, and keeps the request; a cancel that cannot be posted is swallowed.
Abort(c) ==
  /\ c \in Render \ signal
  /\ signal' = signal \cup {c}
  /\ \/ status[c] = "pending" /\ Post([kind |-> "cancel", id |-> c])
     \/ UNCHANGED toWorker
  /\ UNCHANGED <<status, issued, handshake, exited, attached, toClient, alive, serverVars>>

\* Seeded bug: a result that crossed the cancel resolves the call.
MutantOutcome(c, kind) == IF kind = "error" THEN "failed" ELSE "resolved"

\* onMessage, for the answer to a call: an answer that finds no pending request
\* is ignored, and one that finds the signal fired never resolves the call.
Outcome(c, kind) == IF kind = "error" THEN "failed"
                    ELSE IF c \in signal THEN "cancelled"
                    ELSE "resolved"

OnAnswer(m) ==
  /\ m.kind \in {"result", "error"} /\ m.id \in Calls
  /\ status' = [status EXCEPT ![m.id] = IF @ = "pending" THEN Outcome(m.id, m.kind) ELSE @]
  /\ UNCHANGED <<handshake, exited>>

\* The handshake's answer; isRpcResponse drops one of another version.
OnHandshake(m) ==
  /\ m.id = HS
  /\ m.kind \in {"handshake", "error"}
  /\ handshake' = IF handshake # "pending" THEN handshake
                  ELSE IF m.kind = "error" THEN "failed"
                  ELSE IF Compatible THEN "ok" ELSE handshake
  /\ UNCHANGED <<status, exited>>

\* One event of the worker reaches the client, if its listeners are installed.
ClientReceive ==
  /\ toClient # <<>>
  /\ toClient' = Tail(toClient)
  /\ IF attached
     THEN \/ OnAnswer(Head(toClient))
          \/ OnHandshake(Head(toClient))
          \/ Head(toClient).kind = "exit" /\ FailPending
     ELSE UNCHANGED <<status, handshake, exited>>
  /\ UNCHANGED <<issued, signal, attached, toWorker, alive, serverVars>>

\* The thread is gone: with it go its queue and the messages it has not read.
WorkerGone ==
  /\ alive' = FALSE
  /\ toWorker' = <<>> /\ queue' = <<>>
  /\ running' = None /\ invoked' = FALSE
  /\ renders' = {} /\ aborted' = {}
  /\ UNCHANGED <<listening, binding>>

\* dispose(): terminate is optional, so the worker may live on.
Dispose ==
  /\ attached
  /\ attached' = FALSE
  /\ FailPending
  /\ WorkerGone \/ UNCHANGED <<toWorker, alive, serverVars>>
  /\ UNCHANGED <<issued, signal, toClient>>

----------------------------------------------------------------------------
(* The worker *)

Respond(kind, id) == toClient' = Append(toClient, [kind |-> kind, id |-> id])

\* onMessage: a cancel and a mutation abort renders as they arrive, ahead of
\* the queue; an unknown method is answered without entering it.
Conflicts(id) == IF id \in Mutate THEN {r \in renders : DocOf[r] = DocOf[id]} ELSE {}

\* Seeded bug: a cancel that comes after its render leaves a mark behind.
MutantOnCancel(m) ==
  /\ m.kind = "cancel"
  /\ aborted' = aborted \cup {m.id}
  /\ UNCHANGED <<queue, renders, toClient>>

OnCancel(m) ==
  /\ m.kind = "cancel"
  /\ aborted' = aborted \cup ({m.id} \cap renders)
  /\ UNCHANGED <<queue, renders, toClient>>

OnUnknown(m) ==
  /\ m.kind = "request" /\ m.id \in Unknown
  /\ Respond("error", m.id)
  /\ UNCHANGED <<queue, renders, aborted>>

\* Seeded bug: a change of the document overtakes the queue.
MutantOnRequest(m) ==
  /\ m.kind # "cancel" /\ m.id \notin Unknown
  /\ aborted' = aborted \cup Conflicts(m.id)
  /\ renders' = renders \cup ({m.id} \cap Render)
  /\ queue' = IF m.id \in Mutate THEN <<m.id>> \o queue ELSE Append(queue, m.id)
  /\ UNCHANGED toClient

OnRequest(m) ==
  /\ m.kind # "cancel" /\ m.id \notin Unknown
  /\ aborted' = aborted \cup Conflicts(m.id)
  /\ renders' = renders \cup ({m.id} \cap Render)
  /\ queue' = Append(queue, m.id)
  /\ UNCHANGED toClient

WorkerReceive ==
  /\ alive /\ toWorker # <<>>
  /\ toWorker' = Tail(toWorker)
  /\ IF listening
     THEN OnCancel(Head(toWorker)) \/ OnUnknown(Head(toWorker)) \/ OnRequest(Head(toWorker))
     ELSE UNCHANGED <<queue, renders, aborted, toClient>>
  /\ UNCHANGED <<clientVars, alive, listening, running, invoked, binding>>

\* The queue's promise chain starts its next request: handleRequest's first
\* check, then the load of the binding, once for the life of the worker.
Begin ==
  /\ alive /\ running = None /\ queue # <<>>
  /\ queue' = Tail(queue)
  /\ IF Head(queue) \in aborted
     THEN /\ Respond("error", Head(queue))
          /\ renders' = renders \ {Head(queue)}
          /\ aborted' = aborted \ {Head(queue)}
          /\ UNCHANGED <<running, binding>>
     ELSE /\ running' = Head(queue)
          /\ binding' = IF binding = "none" THEN "loading" ELSE binding
          /\ UNCHANGED <<renders, aborted, toClient>>
  /\ UNCHANGED <<clientVars, toWorker, alive, listening, invoked>>

\* loadBinding settles, for better or worse, and stays so.
LoadBinding ==
  /\ alive /\ binding = "loading"
  /\ binding' \in {"ready", "failed"}
  /\ UNCHANGED <<clientVars, toWorker, toClient, alive, listening, queue, running, invoked,
                 renders, aborted>>

\* The running request answers and leaves the renders map.
Finish(kind) ==
  /\ Respond(kind, running)
  /\ running' = None /\ invoked' = FALSE
  /\ renders' = renders \ {running}
  /\ aborted' = aborted \ {running}

\* After the binding: the handshake answers, an aborted render does not start.
Bound ==
  /\ alive /\ running # None /\ ~invoked /\ binding \in {"ready", "failed"}
  /\ \/ binding = "failed" /\ Finish("error")
     \/ binding = "ready" /\ running = HS /\ Finish("handshake")
     \/ binding = "ready" /\ running \in aborted /\ Finish("error")
     \/ /\ binding = "ready" /\ running \in Calls \ aborted
        /\ invoked' = TRUE
        /\ UNCHANGED <<toClient, running, renders, aborted>>
  /\ UNCHANGED <<clientVars, toWorker, alive, listening, queue, binding>>

\* Seeded bug: the signal is not read again after the engine returns.
MutantComplete ==
  /\ alive /\ invoked
  /\ Finish("error") \/ Finish("result")
  /\ UNCHANGED <<clientVars, toWorker, alive, listening, queue, binding>>

\* The engine returns or throws; an aborted render's result is not posted.
Complete ==
  /\ alive /\ invoked
  /\ \/ Finish("error")
     \/ running \notin aborted /\ Finish("result")
  /\ UNCHANGED <<clientVars, toWorker, alive, listening, queue, binding>>

\* The worker raises an error event or notifies its exit: it may be gone, or
\* live on after an uncaught error.  Bound: one such event reaches the client.
WorkerFails ==
  /\ alive /\ attached /\ ~exited /\ ~Holds(toClient, Exit)
  /\ toClient' = Append(toClient, Exit)
  /\ WorkerGone \/ UNCHANGED <<toWorker, alive, serverVars>>
  /\ UNCHANGED clientVars

\* The detach function, called after the client is disposed.
Detach ==
  /\ alive /\ listening /\ ~attached
  /\ listening' = FALSE
  /\ aborted' = aborted \cup renders
  /\ UNCHANGED <<clientVars, toWorker, toClient, alive, queue, running, invoked, binding, renders>>

----------------------------------------------------------------------------
Init ==
  /\ status = [c \in Calls |-> "idle"]
  /\ issued = <<>> /\ signal = {}
  /\ handshake = "none" /\ exited = FALSE /\ attached = TRUE
  /\ toWorker = <<>> /\ toClient = <<>> /\ alive = TRUE
  /\ listening = TRUE /\ queue = <<>> /\ running = None /\ invoked = FALSE
  /\ binding = "none" /\ renders = {} /\ aborted = {}

Next ==
  \/ \E c \in Calls : Call(c) \/ Resume(c) \/ Abort(c)
  \/ ClientReceive
  \/ Dispose
  \/ WorkerReceive
  \/ Begin
  \/ LoadBinding
  \/ Bound
  \/ Complete
  \/ WorkerFails
  \/ Detach

(***************************************************************************)
(* Fairness: event loops deliver queued messages and resume settled        *)
(* promises, and the binding and the engine eventually settle.  Nothing    *)
(* makes the application call, abort or dispose, or the worker fail.       *)
(***************************************************************************)
Fairness ==
  /\ \A c \in Calls : WF_vars(Resume(c))
  /\ WF_vars(ClientReceive) /\ WF_vars(WorkerReceive)
  /\ WF_vars(Begin) /\ WF_vars(LoadBinding) /\ WF_vars(Bound) /\ WF_vars(Complete)

Spec == Init /\ [][Next]_vars
FairSpec == Spec /\ Fairness

----------------------------------------------------------------------------
(* Properties *)

\* Every variable has its type: channels carry only protocol messages, and
\* only renders are in the worker's renders map.
TypeOK ==
  /\ status \in [Calls -> {"idle", "waiting", "pending"} \cup Settled]
  /\ issued \in Seq(Calls) /\ signal \subseteq Render
  /\ handshake \in {"none", "pending", "ok", "failed"}
  /\ exited \in BOOLEAN /\ attached \in BOOLEAN
  /\ toWorker \in Seq(RequestMsg) /\ toClient \in Seq(ResponseMsg)
  /\ alive \in BOOLEAN /\ listening \in BOOLEAN
  /\ queue \in Seq(Ids) /\ running \in Ids \cup {None} /\ invoked \in BOOLEAN
  /\ binding \in {"none", "loading", "ready", "failed"}
  /\ renders \subseteq Render /\ aborted \subseteq renders

Posted(id) == \E i \in DOMAIN toWorker : toWorker[i].kind # "cancel" /\ toWorker[i].id = id
AtWorker(id) == Posted(id) \/ Holds(queue, id) \/ running = id
Answered(id) == \E i \in DOMAIN toClient : toClient[i].kind # "exit" /\ toClient[i].id = id

\* A cancelled call settles only after the worker has closed its render
\* (client.ts:111): while the client lives, a settled call is nowhere at the
\* worker, so a new request for its document finds no render still open.
SettledMeansClosed ==
  ~exited => \A c \in Calls : status[c] \in Settled => ~AtWorker(c) /\ c \notin renders

\* Once its signal has fired, a call never resolves: not when the cancel was
\* lost, nor when it crossed the result in the channel (client.ts:39).
CancelledNeverResolves ==
  [][\A c \in Calls : status'[c] = "resolved" /\ status[c] # "resolved" => c \notin signal]_vars

\* A render's pixels never leave the worker once a change of its document has
\* arrived there, even though the change still waits behind the render.
NoStaleRender ==
  [][\A r \in Render, m \in Mutate :
       Answered(r)' /\ ~Answered(r) /\ Holds(queue, m) /\ DocOf[m] = DocOf[r]
         => \A i \in DOMAIN toClient' : toClient'[i].id = r => toClient'[i].kind = "error"]_vars

\* Calls reach the engine in the order the application made them, whether they
\* waited for the handshake or found it done.
InvokedInOrder ==
  [][\A i, j \in DOMAIN issued :
       /\ i < j /\ invoked' /\ ~invoked /\ running = issued[j]
       => ~Waiting(issued[i]) /\ (issued[i] \in Unknown \/ ~AtWorker(issued[i]))]_vars

\* Every call settles.
EveryCallSettles == \A c \in Calls : status[c] # "idle" ~> status[c] \in Settled

\* A handshake ends, in agreement or in the CORE_UNAVAILABLE error client.ts:62
\* has for a worker of another version.
HandshakeSettles == (handshake = "pending") ~> (handshake # "pending")
=============================================================================
