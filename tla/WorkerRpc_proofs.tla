-------------------------- MODULE WorkerRpc_proofs --------------------------
(***************************************************************************)
(* Proofs about WorkerRpc, for any set of calls, documents and versions:   *)
(* first its types, then where the request of each call may be, from that  *)
(* what the client promises about cancelled and stale renders, and last    *)
(* the order in which the calls travel from the application to the engine. *)
(***************************************************************************)
EXTENDS WorkerRpc, TLAPS

\* What FailPending does to the promises, as a typed function.
LEMMA FailPendingType ==
  ASSUME TypeOK, FailPending
  PROVE  /\ status' \in [Calls -> {"idle", "waiting", "pending"} \cup Settled]
         /\ handshake' = "none" /\ exited' = TRUE
  BY DEF TypeOK, FailPending, Settled

\* The worker is gone: what it leaves behind has its type.
LEMMA WorkerGoneType ==
  ASSUME TypeOK, WorkerGone
  PROVE  /\ alive' \in BOOLEAN /\ toWorker' \in Seq(RequestMsg) /\ queue' \in Seq(Ids)
         /\ running' \in Ids \cup {None} /\ invoked' \in BOOLEAN
         /\ renders' \subseteq Render /\ aborted' \subseteq renders'
         /\ listening' \in BOOLEAN /\ binding' \in {"none", "loading", "ready", "failed"}
<1>1. <<>> \in Seq(RequestMsg) /\ <<>> \in Seq(Ids)
  OBVIOUS
<1>2. QED BY <1>1 DEF TypeOK, WorkerGone

\* A posted request is appended to the channel of a live worker.
LEMMA PostType ==
  ASSUME TypeOK, NEW m \in RequestMsg, Post(m)
  PROVE  toWorker' \in Seq(RequestMsg)
  BY DEF TypeOK, Post

\* An answer is appended to the channel to the client.
LEMMA RespondType ==
  ASSUME TypeOK, NEW kind \in {"handshake", "result", "error"}, NEW id \in Ids,
         id = HS => kind # "result", id # HS => kind # "handshake", Respond(kind, id)
  PROVE  toClient' \in Seq(ResponseMsg)
<1>1. [kind |-> kind, id |-> id] \in ResponseMsg
  BY CallsAssumption DEF ResponseMsg, Ids
<1>2. QED BY <1>1 DEF TypeOK, Respond

\* Only a call reaches the engine: the handshake is answered before.
TypeInv == TypeOK /\ (invoked => running \in Calls)

\* The initial state has its type.
LEMMA InitType == Init => TypeInv
<1> SUFFICES ASSUME Init PROVE TypeInv
    OBVIOUS
<1>1. /\ <<>> \in Seq(RequestMsg) /\ <<>> \in Seq(ResponseMsg) /\ <<>> \in Seq(Ids)
      /\ <<>> \in Seq(Calls)
  OBVIOUS
<1>2. status \in [Calls -> {"idle", "waiting", "pending"} \cup Settled]
  BY DEF Init
<1>3. QED BY <1>1, <1>2, CallsAssumption DEF Init, TypeInv, TypeOK

\* Every step keeps the types.
LEMMA NextType == TypeInv /\ [Next]_vars => TypeInv'
<1> SUFFICES ASSUME TypeOK, invoked => running \in Calls, [Next]_vars PROVE TypeInv'
    BY DEF TypeInv
<1> USE CallsAssumption DEF clientVars, serverVars
<1>1. ASSUME NEW c \in Calls, Call(c) PROVE TypeOK'
  <2>1. handshake' \in {"none", "pending", "ok", "failed"} /\ toWorker' \in Seq(RequestMsg)
    <3>1. [kind |-> "handshake", id |-> HS] \in RequestMsg
      BY DEF RequestMsg
    <3>2. QED BY <1>1, <3>1, PostType DEF Call, EnsureHandshake, TypeOK
  <2>2. status' \in [Calls -> {"idle", "waiting", "pending"} \cup Settled]
    BY <1>1 DEF Call, TypeOK, Settled
  <2>3. QED BY <1>1, <2>1, <2>2 DEF Call, TypeOK
<1>2. ASSUME NEW c \in Calls, Resume(c) PROVE TypeOK'
  <2>1. [kind |-> "request", id |-> c] \in RequestMsg
    BY DEF RequestMsg
  <2>2. toWorker' \in Seq(RequestMsg)
    BY <1>2, <2>1, PostType DEF Resume, TypeOK
  <2>3. status' \in [Calls -> {"idle", "waiting", "pending"} \cup Settled]
    BY <1>2 DEF Resume, TypeOK, Settled
  <2>4. QED BY <1>2, <2>2, <2>3 DEF Resume, TypeOK
<1>3. ASSUME NEW c \in Calls, Abort(c) PROVE TypeOK'
  <2>1. [kind |-> "cancel", id |-> c] \in RequestMsg
    BY DEF RequestMsg
  <2>2. toWorker' \in Seq(RequestMsg)
    BY <1>3, <2>1, PostType DEF Abort, TypeOK
  <2>3. QED BY <1>3, <2>2 DEF Abort, TypeOK
<1>4. ASSUME ClientReceive PROVE TypeOK'
  <2>1. Head(toClient) \in ResponseMsg /\ toClient' \in Seq(ResponseMsg)
    BY <1>4 DEF ClientReceive, TypeOK
  <2>2. /\ status' \in [Calls -> {"idle", "waiting", "pending"} \cup Settled]
        /\ handshake' \in {"none", "pending", "ok", "failed"} /\ exited' \in BOOLEAN
    <3>1. CASE OnAnswer(Head(toClient))
      BY <3>1 DEF OnAnswer, Outcome, TypeOK, Settled
    <3>2. CASE OnHandshake(Head(toClient))
      BY <3>2 DEF OnHandshake, TypeOK
    <3>3. CASE FailPending
      BY <3>3, FailPendingType
    <3>4. CASE UNCHANGED <<status, handshake, exited>>
      BY <3>4 DEF TypeOK
    <3>5. QED BY <1>4, <3>1, <3>2, <3>3, <3>4 DEF ClientReceive
  <2>3. QED BY <1>4, <2>1, <2>2 DEF ClientReceive, TypeOK
<1>5. ASSUME Dispose PROVE TypeOK'
  <2>1. /\ alive' \in BOOLEAN /\ toWorker' \in Seq(RequestMsg) /\ queue' \in Seq(Ids)
        /\ running' \in Ids \cup {None} /\ invoked' \in BOOLEAN
        /\ renders' \subseteq Render /\ aborted' \subseteq renders'
        /\ listening' \in BOOLEAN /\ binding' \in {"none", "loading", "ready", "failed"}
    BY <1>5, WorkerGoneType DEF Dispose, TypeOK
  <2>2. QED BY <1>5, <2>1, FailPendingType DEF Dispose, TypeOK
<1>6. ASSUME WorkerReceive PROVE TypeOK'
  <2> DEFINE m == Head(toWorker)
  <2>1. m \in RequestMsg /\ toWorker' \in Seq(RequestMsg)
    BY <1>6 DEF WorkerReceive, TypeOK
  <2>2. /\ queue' \in Seq(Ids) /\ renders' \subseteq Render /\ aborted' \subseteq renders'
        /\ toClient' \in Seq(ResponseMsg)
    <3>1. CASE OnCancel(m)
      BY <3>1 DEF OnCancel, TypeOK
    <3>2. CASE OnUnknown(m)
      BY <3>2, RespondType DEF OnUnknown, TypeOK, Ids
    <3>3. CASE OnRequest(m)
      <4>1. m.id \in Ids
        BY <2>1 DEF RequestMsg, Ids
      <4>2. QED BY <3>3, <4>1 DEF OnRequest, Conflicts, TypeOK
    <3>4. CASE UNCHANGED <<queue, renders, aborted, toClient>>
      BY <3>4 DEF TypeOK
    <3>5. QED BY <1>6, <3>1, <3>2, <3>3, <3>4 DEF WorkerReceive
  <2>3. QED BY <1>6, <2>1, <2>2 DEF WorkerReceive, TypeOK
<1>7. ASSUME Begin PROVE TypeOK'
  <2>1. Head(queue) \in Ids /\ queue' \in Seq(Ids)
    BY <1>7 DEF Begin, TypeOK
  <2>2. toClient' \in Seq(ResponseMsg)
    BY <1>7, <2>1, RespondType DEF Begin, TypeOK, Ids
  <2>3. QED BY <1>7, <2>1, <2>2 DEF Begin, TypeOK
<1>8. ASSUME LoadBinding PROVE TypeOK'
  BY <1>8 DEF LoadBinding, TypeOK
<1>9. ASSUME NEW kind \in {"handshake", "result", "error"}, running \in Ids, Finish(kind),
             running = HS => kind # "result", running # HS => kind # "handshake",
             UNCHANGED <<clientVars, toWorker, alive, listening, queue, binding>>
      PROVE  TypeOK'
  <2>1. toClient' \in Seq(ResponseMsg)
    BY <1>9, RespondType DEF Finish
  <2>2. QED BY <1>9, <2>1 DEF Finish, TypeOK
<1>10. ASSUME Bound PROVE TypeOK'
  BY <1>9, <1>10 DEF Bound, TypeOK, Ids
<1>11. ASSUME Complete PROVE TypeOK'
  <2>1. running \in Calls
    BY <1>11 DEF Complete
  <2>2. PICK kind \in {"error", "result"} : Finish(kind)
    BY <1>11 DEF Complete
  <2>3. QED BY <1>9, <1>11, <2>1, <2>2 DEF Complete, Ids
<1>12. ASSUME WorkerFails PROVE TypeOK'
  <2>1. Exit \in ResponseMsg
    BY DEF Exit, ResponseMsg
  <2>2. toClient' \in Seq(ResponseMsg)
    BY <1>12, <2>1 DEF WorkerFails, TypeOK
  <2>3. CASE WorkerGone
    BY <1>12, <2>2, <2>3, WorkerGoneType DEF WorkerFails, TypeOK
  <2>4. CASE UNCHANGED <<toWorker, alive, serverVars>>
    BY <1>12, <2>2, <2>4 DEF WorkerFails, TypeOK
  <2>5. QED BY <1>12, <2>3, <2>4 DEF WorkerFails
<1>13. ASSUME Detach PROVE TypeOK'
  BY <1>13 DEF Detach, TypeOK
<1>14. ASSUME UNCHANGED vars PROVE TypeOK'
  BY <1>14 DEF vars, TypeOK
<1>15. TypeOK'
  BY <1>1, <1>2, <1>3, <1>4, <1>5, <1>6, <1>7, <1>8, <1>10, <1>11, <1>12, <1>13, <1>14 DEF Next
<1>16. (invoked => running \in Calls)'
  <2>1. CASE UNCHANGED <<running, invoked>>
    BY <2>1
  <2>2. CASE Begin
    BY <2>2 DEF Begin, TypeOK, Ids
  <2>3. CASE Bound \/ Complete
    BY <2>3 DEF Bound, Complete, Finish
  <2>4. CASE Dispose \/ WorkerFails
    BY <2>4 DEF Dispose, WorkerFails, WorkerGone
  <2>5. QED BY <2>1, <2>2, <2>3, <2>4 DEF Next, vars, Call, Resume, Abort, ClientReceive,
                 WorkerReceive, LoadBinding, Detach
<1>17. QED BY <1>15, <1>16 DEF TypeInv

\* Every variable always has its type.
THEOREM TypeCorrect == Spec => []TypeOK
<1>1. TypeInv => TypeOK
  BY DEF TypeInv
<1>2. QED BY InitType, NextType, <1>1, PTL DEF Spec

----------------------------------------------------------------------------
(* Facts about the queues, whatever their elements. *)

\* Every element of a queue is there once.
Once(s) == \A i, j \in DOMAIN s : s[i] = s[j] => i = j

\* An a stands before a b in a queue.
Ahead(s, a, b) == \E i, j \in DOMAIN s : i < j /\ s[i] = a /\ s[j] = b

\* A channel to the worker carries the request of id, and no request twice.
SentIn(s, id) == \E i \in DOMAIN s : s[i].kind # "cancel" /\ s[i].id = id
OnceSent(s) ==
  \A i, j \in DOMAIN s :
    s[i].kind # "cancel" /\ s[j].kind # "cancel" /\ s[i].id = s[j].id => i = j

\* The request of a stands before the request of b in a channel to the worker.
SentAhead(s, a, b) ==
  \E i, j \in DOMAIN s :
    i < j /\ s[i].kind # "cancel" /\ s[i].id = a /\ s[j].kind # "cancel" /\ s[j].id = b

\* A channel to the client carries the answer to id.
AnswerIn(s, id) == \E i \in DOMAIN s : s[i].kind # "exit" /\ s[i].id = id

\* Appending to a queue.
LEMMA QueueAppend ==
  ASSUME NEW S, NEW s \in Seq(S), NEW x \in S
  PROVE  /\ \A y : Holds(Append(s, x), y) <=> Holds(s, y) \/ y = x
         /\ Once(s) /\ ~Holds(s, x) => Once(Append(s, x))
         /\ \A a, b : Ahead(Append(s, x), a, b) <=> Ahead(s, a, b) \/ (Holds(s, a) /\ b = x)
<1>1. \A i \in DOMAIN Append(s, x) : i \in DOMAIN s \/ i = Len(s) + 1
  OBVIOUS
<1>2. /\ \A i \in DOMAIN s : i \in DOMAIN Append(s, x) /\ i < Len(s) + 1 /\ Append(s, x)[i] = s[i]
      /\ Len(s) + 1 \in DOMAIN Append(s, x) /\ Append(s, x)[Len(s) + 1] = x
  OBVIOUS
<1>3. DOMAIN s \subseteq Nat /\ Len(s) \in Nat /\ \A i \in DOMAIN s : ~(Len(s) + 1 < i)
  OBVIOUS
<1> DEFINE t == Append(s, x)
<1> HIDE DEF t
<1>4. \A y : Holds(t, y) <=> Holds(s, y) \/ y = x
  BY <1>1, <1>2 DEF Holds, t
<1>5. Once(s) /\ ~Holds(s, x) => Once(t)
  BY <1>1, <1>2 DEF Once, Holds, t
<1>6. \A a, b : Ahead(t, a, b) <=> Ahead(s, a, b) \/ (Holds(s, a) /\ b = x)
  BY <1>1, <1>2, <1>3 DEF Ahead, Holds, t
<1>7. QED BY <1>4, <1>5, <1>6 DEF t

\* Taking the head of a queue.
LEMMA QueueTail ==
  ASSUME NEW S, NEW s \in Seq(S), s # <<>>
  PROVE  /\ Head(s) \in S /\ Tail(s) \in Seq(S)
         /\ \A y : Holds(s, y) <=> Holds(Tail(s), y) \/ y = Head(s)
         /\ Once(s) => Once(Tail(s)) /\ ~Holds(Tail(s), Head(s))
         /\ \A a, b : Ahead(s, a, b) <=> Ahead(Tail(s), a, b) \/ (a = Head(s) /\ Holds(Tail(s), b))
<1>1. Len(s) \in Nat /\ Len(s) >= 1 /\ DOMAIN s = 1..Len(s) /\ Head(s) = s[1]
  OBVIOUS
<1>2. DOMAIN Tail(s) = 1..(Len(s) - 1) /\ \A i \in DOMAIN Tail(s) : Tail(s)[i] = s[i + 1]
  OBVIOUS
<1>3. Head(s) \in S /\ Tail(s) \in Seq(S)
  OBVIOUS
<1> DEFINE t == Tail(s)
           h == Head(s)
<1>4. \A i \in DOMAIN s : i = 1 \/ (i - 1 \in DOMAIN t /\ t[i - 1] = s[i] /\ i > 1)
  BY <1>1, <1>2
<1>5. \A i \in DOMAIN t : i \in Nat /\ i >= 1 /\ i + 1 \in DOMAIN s /\ t[i] = s[i + 1]
  BY <1>1, <1>2
<1>6. 1 \in DOMAIN s /\ s[1] = h
  BY <1>1
<1> HIDE DEF t, h
<1>7. \A y : Holds(s, y) <=> Holds(t, y) \/ y = h
  BY <1>4, <1>5, <1>6 DEF Holds
<1>8. Once(s) => Once(t) /\ ~Holds(t, h)
  BY <1>1, <1>5, <1>6 DEF Once, Holds
<1>9. ASSUME NEW a, NEW b PROVE Ahead(s, a, b) <=> Ahead(t, a, b) \/ (a = h /\ Holds(t, b))
  <2>1. ASSUME Ahead(s, a, b) PROVE Ahead(t, a, b) \/ (a = h /\ Holds(t, b))
    <3>1. PICK i, j \in DOMAIN s : i < j /\ s[i] = a /\ s[j] = b
      BY <2>1 DEF Ahead
    <3>2. j # 1 /\ i \in Nat /\ j \in Nat
      BY <3>1, <1>1
    <3>3. CASE i = 1
      BY <3>1, <3>2, <3>3, <1>4, <1>6 DEF Holds
    <3>4. CASE i # 1
      BY <3>1, <3>2, <3>4, <1>4 DEF Ahead
    <3>5. QED BY <3>3, <3>4
  <2>2. ASSUME Ahead(t, a, b) PROVE Ahead(s, a, b)
    <3>1. PICK i, j \in DOMAIN t : i < j /\ t[i] = a /\ t[j] = b
      BY <2>2 DEF Ahead
    <3>2. i + 1 < j + 1
      BY <3>1, <1>5
    <3>3. QED BY <3>1, <3>2, <1>5 DEF Ahead
  <2>3. ASSUME a = h, Holds(t, b) PROVE Ahead(s, a, b)
    <3>1. PICK j \in DOMAIN t : t[j] = b
      BY <2>3 DEF Holds
    <3>2. 1 < j + 1
      BY <1>5
    <3>3. QED BY <2>3, <3>1, <3>2, <1>5, <1>6 DEF Ahead
  <2>4. QED BY <2>1, <2>2, <2>3
<1>10. QED BY <1>3, <1>7, <1>8, <1>9 DEF t, h

\* Appending a message to the channel to the worker.
LEMMA SentAppend ==
  ASSUME NEW S, NEW s \in Seq(S), NEW m \in S
  PROVE  /\ \A id : SentIn(Append(s, m), id) <=> SentIn(s, id) \/ (m.kind # "cancel" /\ m.id = id)
         /\ OnceSent(s) /\ (m.kind # "cancel" => ~SentIn(s, m.id)) => OnceSent(Append(s, m))
<1>1. \A i \in DOMAIN Append(s, m) : i \in DOMAIN s \/ i = Len(s) + 1
  OBVIOUS
<1>2. /\ \A i \in DOMAIN s : i \in DOMAIN Append(s, m) /\ Append(s, m)[i] = s[i]
      /\ Len(s) + 1 \in DOMAIN Append(s, m) /\ Append(s, m)[Len(s) + 1] = m
  OBVIOUS
<1> DEFINE t == Append(s, m)
<1> HIDE DEF t
<1>3. \A id : SentIn(t, id) <=> SentIn(s, id) \/ (m.kind # "cancel" /\ m.id = id)
  BY <1>1, <1>2 DEF SentIn, t
<1>4. OnceSent(s) /\ (m.kind # "cancel" => ~SentIn(s, m.id)) => OnceSent(t)
  BY <1>1, <1>2 DEF SentIn, OnceSent, t
<1>5. QED BY <1>3, <1>4 DEF t

\* The worker takes a message from its channel.
LEMMA SentTail ==
  ASSUME NEW S, NEW s \in Seq(S), s # <<>>
  PROVE  /\ Head(s) \in S /\ Tail(s) \in Seq(S)
         /\ \A id : SentIn(s, id) <=>
                      SentIn(Tail(s), id) \/ (Head(s).kind # "cancel" /\ Head(s).id = id)
         /\ OnceSent(s) => /\ OnceSent(Tail(s))
                           /\ Head(s).kind # "cancel" => ~SentIn(Tail(s), Head(s).id)
<1>1. Len(s) \in Nat /\ Len(s) >= 1 /\ DOMAIN s = 1..Len(s) /\ Head(s) = s[1]
  OBVIOUS
<1>2. DOMAIN Tail(s) = 1..(Len(s) - 1) /\ \A i \in DOMAIN Tail(s) : Tail(s)[i] = s[i + 1]
  OBVIOUS
<1>3. Head(s) \in S /\ Tail(s) \in Seq(S)
  OBVIOUS
<1> DEFINE t == Tail(s)
           h == Head(s)
<1>4. \A i \in DOMAIN s : i = 1 \/ (i - 1 \in DOMAIN t /\ t[i - 1] = s[i])
  BY <1>1, <1>2
<1>5. \A i \in DOMAIN t : i \in Nat /\ i >= 1 /\ i + 1 \in DOMAIN s /\ t[i] = s[i + 1]
  BY <1>1, <1>2
<1>6. 1 \in DOMAIN s /\ s[1] = h
  BY <1>1
<1> HIDE DEF t, h
<1>7. \A id : SentIn(s, id) <=> SentIn(t, id) \/ (h.kind # "cancel" /\ h.id = id)
  BY <1>4, <1>5, <1>6 DEF SentIn
<1>8. OnceSent(s) => OnceSent(t) /\ (h.kind # "cancel" => ~SentIn(t, h.id))
  BY <1>1, <1>5, <1>6 DEF OnceSent, SentIn
<1>9. QED BY <1>3, <1>7, <1>8 DEF t, h

\* A request that is appended stands behind all the others.
LEMMA SentAheadAppend ==
  ASSUME NEW S, NEW s \in Seq(S), NEW m \in S
  PROVE  \A a, b : SentAhead(s, a, b) \/ (SentIn(s, a) /\ m.kind # "cancel" /\ m.id = b)
                    => SentAhead(Append(s, m), a, b)
<1>1. /\ \A i \in DOMAIN s : i \in DOMAIN Append(s, m) /\ i < Len(s) + 1 /\ Append(s, m)[i] = s[i]
      /\ Len(s) + 1 \in DOMAIN Append(s, m) /\ Append(s, m)[Len(s) + 1] = m
  OBVIOUS
<1> DEFINE t == Append(s, m)
<1> HIDE DEF t
<1>2. \A a, b : SentAhead(s, a, b) \/ (SentIn(s, a) /\ m.kind # "cancel" /\ m.id = b)
                  => SentAhead(t, a, b)
  BY <1>1 DEF SentAhead, SentIn, t
<1>3. QED BY <1>2 DEF t

\* Taking a message keeps the order of the requests that are left.
LEMMA SentAheadTail ==
  ASSUME NEW S, NEW s \in Seq(S), s # <<>>
  PROVE  \A a, b : SentAhead(s, a, b) =>
           /\ SentAhead(Tail(s), a, b) \/ (Head(s).kind # "cancel" /\ Head(s).id = a)
           /\ SentIn(Tail(s), b)
<1>1. Len(s) \in Nat /\ Len(s) >= 1 /\ DOMAIN s = 1..Len(s) /\ Head(s) = s[1]
  OBVIOUS
<1>2. DOMAIN Tail(s) = 1..(Len(s) - 1) /\ \A i \in DOMAIN Tail(s) : Tail(s)[i] = s[i + 1]
  OBVIOUS
<1> DEFINE t == Tail(s)
           h == Head(s)
<1>3. \A i, j \in DOMAIN s : i < j =>
        /\ j - 1 \in DOMAIN t /\ t[j - 1] = s[j]
        /\ \/ s[i] = h
           \/ i - 1 \in DOMAIN t /\ t[i - 1] = s[i] /\ i - 1 < j - 1
  BY <1>1, <1>2
<1> HIDE DEF t, h
<1>4. ASSUME NEW a, NEW b, SentAhead(s, a, b)
      PROVE  /\ SentAhead(t, a, b) \/ (h.kind # "cancel" /\ h.id = a)
             /\ SentIn(t, b)
  <2>1. PICK i, j \in DOMAIN s : /\ i < j
                                /\ s[i].kind # "cancel" /\ s[i].id = a
                                /\ s[j].kind # "cancel" /\ s[j].id = b
    BY <1>4 DEF SentAhead
  <2>2. SentIn(t, b)
    BY <1>3, <2>1 DEF SentIn
  <2>3. SentAhead(t, a, b) \/ (h.kind # "cancel" /\ h.id = a)
    BY <1>3, <2>1 DEF SentAhead
  <2>4. QED BY <2>2, <2>3
<1>5. QED BY <1>4 DEF t, h

\* Appending an answer to the channel to the client.
LEMMA AnswerAppend ==
  ASSUME NEW S, NEW s \in Seq(S), NEW m \in S
  PROVE  \A id : AnswerIn(Append(s, m), id) <=> AnswerIn(s, id) \/ (m.kind # "exit" /\ m.id = id)
<1>1. \A i \in DOMAIN Append(s, m) : i \in DOMAIN s \/ i = Len(s) + 1
  OBVIOUS
<1>2. /\ \A i \in DOMAIN s : i \in DOMAIN Append(s, m) /\ Append(s, m)[i] = s[i]
      /\ Len(s) + 1 \in DOMAIN Append(s, m) /\ Append(s, m)[Len(s) + 1] = m
  OBVIOUS
<1> DEFINE t == Append(s, m)
<1> HIDE DEF t
<1>3. \A id : AnswerIn(t, id) <=> AnswerIn(s, id) \/ (m.kind # "exit" /\ m.id = id)
  BY <1>1, <1>2 DEF AnswerIn, t
<1>4. QED BY <1>3 DEF t

\* What is left was there, and what was taken.
LEMMA AnswerTail ==
  ASSUME NEW S, NEW s \in Seq(S), s # <<>>
  PROVE  /\ \A id : AnswerIn(Tail(s), id) => AnswerIn(s, id)
         /\ Head(s).kind # "exit" => AnswerIn(s, Head(s).id)
<1>1. Len(s) \in Nat /\ Len(s) >= 1 /\ DOMAIN s = 1..Len(s) /\ Head(s) = s[1]
  OBVIOUS
<1>2. DOMAIN Tail(s) = 1..(Len(s) - 1) /\ \A i \in DOMAIN Tail(s) : Tail(s)[i] = s[i + 1]
  OBVIOUS
<1>3. \A i \in DOMAIN Tail(s) : i + 1 \in DOMAIN s /\ Tail(s)[i] = s[i + 1]
  BY <1>1, <1>2
<1>4. 1 \in DOMAIN s /\ s[1] = Head(s)
  BY <1>1
<1>5. \A id : AnswerIn(Tail(s), id) => AnswerIn(s, id)
  BY <1>3 DEF AnswerIn
<1>6. Head(s).kind # "exit" => AnswerIn(s, Head(s).id)
  BY <1>4 DEF AnswerIn
<1>7. QED BY <1>5, <1>6

\* An empty channel or queue holds nothing.
LEMMA EmptyHolds ==
  /\ \A y : ~Holds(<<>>, y) /\ ~SentIn(<<>>, y) /\ ~AnswerIn(<<>>, y)
  /\ Once(<<>>) /\ OnceSent(<<>>) /\ \A a, b : ~Ahead(<<>>, a, b)
<1>1. DOMAIN <<>> = {}
  OBVIOUS
<1>2. QED BY <1>1 DEF Holds, SentIn, AnswerIn, Once, OnceSent, Ahead

----------------------------------------------------------------------------
(* Where the request of each call may be *)

\* The request of id has been sent and not answered.
Open(id) == SentIn(toWorker, id) \/ Holds(queue, id) \/ running = id

\* A request is in one place at most, and once.
PlaceInv ==
  /\ OnceSent(toWorker) /\ Once(queue)
  /\ \A id \in Ids : SentIn(toWorker, id) => ~Holds(queue, id) /\ running # id
  /\ \A id \in Ids : Holds(queue, id) => running # id

\* What has not been sent, or has been answered or settled, is not open.
ClosedInv ==
  /\ \A c \in Calls : status[c] \in {"idle", "waiting"} => ~Open(c) /\ ~AnswerIn(toClient, c)
  /\ ~exited /\ handshake = "none" => ~Open(HS) /\ ~AnswerIn(toClient, HS)
  /\ \A id \in Ids : AnswerIn(toClient, id) => ~Open(id)
  /\ ~exited => \A c \in Calls : status[c] \in Settled => ~Open(c)

\* The renders map holds the renders of the worker from arrival to answer, and
\* none that is not aborted runs or waits ahead of a change of its document.
RendersInv ==
  /\ \A r \in Render : r \in renders <=> Holds(queue, r) \/ running = r
  /\ \A r \in renders \ aborted, m \in Mutate : DocOf[m] = DocOf[r] =>
       ~(running = r /\ Holds(queue, m)) /\ ~Ahead(queue, r, m)

RpcInv == TypeInv /\ PlaceInv /\ ClosedInv /\ RendersInv

\* What stands ahead of something is in the queue.
LEMMA AheadHolds == \A s, a, b : Ahead(s, a, b) => Holds(s, a) /\ Holds(s, b)
  BY DEF Ahead, Holds

\* Posting a request that was not sent before.
LEMMA PostEffect ==
  ASSUME TypeOK, OnceSent(toWorker), NEW m \in RequestMsg, Post(m),
         m.kind # "cancel" => ~SentIn(toWorker, m.id)
  PROVE  /\ OnceSent(toWorker')
         /\ \A id : SentIn(toWorker', id) =>
                      SentIn(toWorker, id) \/ (m.kind # "cancel" /\ m.id = id)
<1>1. toWorker' = toWorker \/ toWorker' = Append(toWorker, m)
  BY DEF Post
<1>2. toWorker \in Seq(RequestMsg)
  BY DEF TypeOK
<1>3. QED BY <1>1, <1>2, SentAppend

\* A worker that is gone has no request, and its invariants hold again.
LEMMA WorkerGoneEffect ==
  ASSUME WorkerGone
  PROVE  /\ \A id \in Ids : ~Open(id)'
         /\ PlaceInv' /\ RendersInv'
<1>1. /\ \A id : ~SentIn(toWorker', id) /\ ~Holds(queue', id)
      /\ OnceSent(toWorker') /\ Once(queue')
  BY EmptyHolds DEF WorkerGone
<1>2. running' = None /\ renders' = {} /\ None \notin Ids
  BY CallsAssumption DEF WorkerGone, Ids
<1>3. \A id \in Ids : ~Open(id)'
  BY <1>1, <1>2 DEF Open
<1>4. PlaceInv'
  BY <1>1 DEF PlaceInv
<1>5. RendersInv'
  BY <1>1, <1>2, CallsAssumption DEF RendersInv, Ids
<1>6. QED BY <1>3, <1>4, <1>5

\* An answer to id, appended to the channel.
LEMMA RespondEffect ==
  ASSUME TypeOK, NEW kind \in {"handshake", "result", "error"}, NEW id \in Ids,
         id = HS => kind # "result", id # HS => kind # "handshake", Respond(kind, id)
  PROVE  \A x : AnswerIn(toClient', x) => AnswerIn(toClient, x) \/ x = id
<1>1. [kind |-> kind, id |-> id] \in ResponseMsg
  BY CallsAssumption DEF ResponseMsg, Ids
<1>2. toClient \in Seq(ResponseMsg) /\ toClient' = Append(toClient, [kind |-> kind, id |-> id])
  BY DEF TypeOK, Respond
<1>3. QED BY <1>1, <1>2, AnswerAppend

\* The initial state is empty.
LEMMA InitRpc == Init => RpcInv
<1> SUFFICES ASSUME Init PROVE RpcInv
    OBVIOUS
<1>1. \A id \in Ids : ~Open(id)
  BY EmptyHolds, CallsAssumption DEF Init, Open, Ids
<1>2. PlaceInv
  BY EmptyHolds DEF Init, PlaceInv
<1>3. ClosedInv
  BY <1>1, EmptyHolds, CallsAssumption DEF Init, ClosedInv, Ids, Settled
<1>4. RendersInv
  BY EmptyHolds, CallsAssumption DEF Init, RendersInv
<1>5. QED BY <1>2, <1>3, <1>4, InitType DEF RpcInv

\* A step of the client, or the failure of the worker, keeps the invariant.
LEMMA ClientSteps ==
  ASSUME RpcInv,
         \/ \E c \in Calls : Call(c) \/ Resume(c) \/ Abort(c)
         \/ ClientReceive \/ Dispose \/ WorkerFails
  PROVE  PlaceInv' /\ ClosedInv' /\ RendersInv'
<1> USE CallsAssumption DEF clientVars, serverVars
<1>1. TypeOK /\ PlaceInv /\ ClosedInv /\ RendersInv
  BY DEF RpcInv, TypeInv
<1>2. ASSUME UNCHANGED serverVars, OnceSent(toWorker'),
             \A id \in Ids : SentIn(toWorker', id) =>
                SentIn(toWorker, id) \/ (~Holds(queue, id) /\ running # id)
      PROVE  PlaceInv' /\ RendersInv'
  BY <1>1, <1>2 DEF PlaceInv, RendersInv
<1>3. ASSUME NEW c \in Calls, Call(c) PROVE PlaceInv' /\ ClosedInv' /\ RendersInv'
  <2>1. /\ status[c] = "idle" /\ toClient' = toClient /\ exited' = exited
        /\ status' = [status EXCEPT ![c] = "cancelled"] \/ status' = [status EXCEPT ![c] = "waiting"]
        /\ UNCHANGED serverVars
    BY <1>3 DEF Call
  <2>2. /\ OnceSent(toWorker')
        /\ \A id \in Ids : SentIn(toWorker', id) => SentIn(toWorker, id) \/ (id = HS /\ ~Open(HS))
        /\ handshake' = "none" => handshake = "none" /\ toWorker' = toWorker
        /\ \A id \in Ids : SentIn(toWorker', id) => SentIn(toWorker, id) \/ ~AnswerIn(toClient, HS)
    <3>1. CASE UNCHANGED toWorker /\ (handshake' = handshake \/ handshake' = "failed")
      BY <1>1, <3>1 DEF PlaceInv
    <3>2. CASE ~exited /\ handshake = "none" /\ handshake' = "pending"
               /\ Post([kind |-> "handshake", id |-> HS])
      <4>1. [kind |-> "handshake", id |-> HS] \in RequestMsg
        BY DEF RequestMsg
      <4>2. ~Open(HS) /\ ~AnswerIn(toClient, HS) /\ ~SentIn(toWorker, HS)
        BY <1>1, <3>2 DEF ClosedInv, Open
      <4>3. QED BY <1>1, <3>2, <4>1, <4>2, PostEffect DEF PlaceInv
    <3>3. QED BY <1>3, <3>1, <3>2 DEF Call, EnsureHandshake
  <2>3. PlaceInv' /\ RendersInv'
    BY <1>2, <2>1, <2>2 DEF Open
  <2>4. \A id \in Ids : Open(id)' => Open(id) \/ (id = HS /\ ~AnswerIn(toClient, HS) /\ handshake' # "none")
    BY <2>1, <2>2 DEF Open
  <2>5. ClosedInv'
    BY <1>1, <2>1, <2>2, <2>4 DEF ClosedInv, TypeOK, Ids, Settled
  <2>6. QED BY <2>3, <2>5
<1>4. ASSUME NEW c \in Calls, Resume(c) PROVE PlaceInv' /\ ClosedInv' /\ RendersInv'
  <2>1. /\ status[c] = "waiting" /\ ~Open(c) /\ ~AnswerIn(toClient, c) /\ ~SentIn(toWorker, c)
        /\ UNCHANGED <<toClient, handshake, exited, serverVars>>
    BY <1>1, <1>4 DEF Resume, Waiting, ClosedInv, Open
  <2>2. \/ /\ status' = [status EXCEPT ![c] = "failed"] \/ status' = [status EXCEPT ![c] = "cancelled"]
           /\ toWorker' = toWorker
        \/ /\ status' = [status EXCEPT ![c] = "pending"]
           /\ OnceSent(toWorker')
           /\ \A id \in Ids : SentIn(toWorker', id) => SentIn(toWorker, id) \/ id = c
    <3>1. [kind |-> "request", id |-> c] \in RequestMsg
      BY DEF RequestMsg
    <3>2. QED BY <1>1, <1>4, <2>1, <3>1, PostEffect DEF Resume, PlaceInv
  <2>3. PlaceInv' /\ RendersInv'
    BY <1>1, <1>2, <2>1, <2>2 DEF Open, PlaceInv
  <2>4. ClosedInv'
    <3>1. \A id \in Ids : Open(id)' => Open(id) \/ (id = c /\ status'[c] = "pending")
      BY <1>1, <2>1, <2>2 DEF Open, TypeOK
    <3>2. QED BY <1>1, <2>1, <2>2, <3>1 DEF ClosedInv, TypeOK, Ids, Settled
  <2>5. QED BY <2>3, <2>4
<1>5. ASSUME NEW c \in Calls, Abort(c) PROVE PlaceInv' /\ ClosedInv' /\ RendersInv'
  <2>1. [kind |-> "cancel", id |-> c] \in RequestMsg
    BY DEF RequestMsg
  <2>2. OnceSent(toWorker') /\ \A id : SentIn(toWorker', id) => SentIn(toWorker, id)
    BY <1>1, <1>5, <2>1, PostEffect DEF Abort, PlaceInv
  <2>3. UNCHANGED <<status, toClient, handshake, exited, serverVars>>
    BY <1>5 DEF Abort
  <2>4. ClosedInv'
    BY <1>1, <2>2, <2>3 DEF ClosedInv, Open
  <2>5. QED BY <1>2, <2>2, <2>3, <2>4
<1>6. ASSUME ClientReceive PROVE PlaceInv' /\ ClosedInv' /\ RendersInv'
  <2> DEFINE m == Head(toClient)
  <2>1. /\ UNCHANGED <<toWorker, serverVars>> /\ m \in ResponseMsg
        /\ \A id : AnswerIn(toClient', id) => AnswerIn(toClient, id)
        /\ m.kind # "exit" => AnswerIn(toClient, m.id)
    BY <1>1, <1>6, AnswerTail DEF ClientReceive, TypeOK
  <2>2. PlaceInv' /\ RendersInv' /\ \A id : Open(id)' = Open(id)
    BY <1>1, <1>2, <2>1 DEF PlaceInv, Open
  <2>3. ClosedInv'
    <3>1. CASE OnAnswer(m)
      BY <1>1, <2>1, <2>2, <3>1 DEF OnAnswer, Outcome, ClosedInv, TypeOK, Ids, Settled
    <3>2. CASE OnHandshake(m)
      BY <1>1, <2>1, <2>2, <3>2 DEF OnHandshake, ClosedInv
    <3>3. CASE FailPending
      BY <1>1, <2>1, <2>2, <3>3 DEF FailPending, ClosedInv, TypeOK
    <3>4. CASE UNCHANGED <<status, handshake, exited>>
      BY <1>1, <2>1, <2>2, <3>4 DEF ClosedInv
    <3>5. QED BY <1>6, <3>1, <3>2, <3>3, <3>4 DEF ClientReceive
  <2>4. QED BY <2>2, <2>3
<1>7. ASSUME WorkerGone \/ UNCHANGED <<toWorker, alive, serverVars>>
      PROVE  /\ PlaceInv' /\ RendersInv'
             /\ \A id \in Ids : Open(id)' => Open(id)
  <2>1. CASE WorkerGone
    BY <2>1, WorkerGoneEffect
  <2>2. CASE UNCHANGED <<toWorker, alive, serverVars>>
    BY <1>1, <2>2 DEF PlaceInv, RendersInv, Open
  <2>3. QED BY <1>7, <2>1, <2>2
<1>8. ASSUME Dispose PROVE PlaceInv' /\ ClosedInv' /\ RendersInv'
  <2>1. /\ FailPending /\ UNCHANGED toClient
        /\ WorkerGone \/ UNCHANGED <<toWorker, alive, serverVars>>
    BY <1>8 DEF Dispose
  <2>2. ClosedInv'
    BY <1>1, <1>7, <2>1 DEF FailPending, ClosedInv, TypeOK, Ids
  <2>3. QED BY <1>7, <2>1, <2>2
<1>9. ASSUME WorkerFails PROVE PlaceInv' /\ ClosedInv' /\ RendersInv'
  <2>1. /\ UNCHANGED clientVars /\ toClient' = Append(toClient, Exit)
        /\ WorkerGone \/ UNCHANGED <<toWorker, alive, serverVars>>
    BY <1>9 DEF WorkerFails
  <2>2. Exit \in ResponseMsg /\ Exit.kind = "exit" /\ toClient \in Seq(ResponseMsg)
    BY <1>1 DEF Exit, ResponseMsg, TypeOK
  <2>3. \A id : AnswerIn(toClient', id) <=> AnswerIn(toClient, id)
    BY <2>1, <2>2, AnswerAppend
  <2>4. ClosedInv'
    BY <1>1, <1>7, <2>1, <2>3 DEF ClosedInv, Ids
  <2>5. QED BY <1>7, <2>1, <2>4
<1>10. QED BY <1>3, <1>4, <1>5, <1>6, <1>8, <1>9

\* A step of the worker keeps the invariant.
LEMMA WorkerSteps ==
  ASSUME RpcInv, WorkerReceive \/ Begin \/ LoadBinding \/ Bound \/ Complete \/ Detach
  PROVE  PlaceInv' /\ ClosedInv' /\ RendersInv'
<1> USE CallsAssumption DEF clientVars, serverVars
<1>1. /\ TypeOK /\ PlaceInv /\ ClosedInv /\ RendersInv
      /\ invoked => running \in Calls
  BY DEF RpcInv, TypeInv
<1>2. ASSUME UNCHANGED clientVars, \A id \in Ids : Open(id)' => Open(id),
             \A id \in Ids : AnswerIn(toClient', id) => AnswerIn(toClient, id) \/ (Open(id) /\ ~Open(id)')
      PROVE  ClosedInv'
  BY <1>1, <1>2 DEF ClosedInv, Ids
<1>3. ASSUME WorkerReceive PROVE PlaceInv' /\ ClosedInv' /\ RendersInv'
  <2> DEFINE m == Head(toWorker)
  <2>1. /\ m \in RequestMsg /\ OnceSent(toWorker')
        /\ \A id : SentIn(toWorker, id) <=> SentIn(toWorker', id) \/ (m.kind # "cancel" /\ m.id = id)
        /\ m.kind # "cancel" => ~SentIn(toWorker', m.id)
        /\ m.id \in Ids
        /\ UNCHANGED <<clientVars, running>>
    <3>1. toWorker \in Seq(RequestMsg) /\ toWorker # <<>> /\ toWorker' = Tail(toWorker)
      BY <1>1, <1>3 DEF WorkerReceive, TypeOK
    <3>2. m \in RequestMsg
      BY <3>1, SentTail
    <3>3. QED BY <1>1, <1>3, <3>1, <3>2, SentTail DEF WorkerReceive, PlaceInv, RequestMsg, Ids
  <2> HIDE DEF m
  <2>2. CASE OnCancel(m)
    <3>1. UNCHANGED <<queue, renders, toClient>> /\ aborted \subseteq aborted'
      BY <2>2 DEF OnCancel
    <3>2. PlaceInv' /\ \A id \in Ids : Open(id)' => Open(id)
      BY <1>1, <2>1, <3>1 DEF PlaceInv, Open
    <3>3. RendersInv'
      BY <1>1, <2>1, <3>1 DEF RendersInv
    <3>4. QED BY <1>2, <2>1, <3>1, <3>2, <3>3
  <2>3. CASE OnUnknown(m)
    <3>1. m.kind = "request" /\ UNCHANGED <<queue, renders, aborted>> /\ Respond("error", m.id)
      BY <2>3 DEF OnUnknown
    <3>2. PlaceInv' /\ \A id \in Ids : Open(id)' => Open(id)
      BY <1>1, <2>1, <3>1 DEF PlaceInv, Open
    <3>3. RendersInv'
      BY <1>1, <2>1, <3>1 DEF RendersInv
    <3>4. \A id \in Ids : id = m.id => Open(id) /\ ~Open(id)'
      BY <1>1, <2>1, <3>1 DEF PlaceInv, Open
    <3>5. \A id : AnswerIn(toClient', id) => AnswerIn(toClient, id) \/ id = m.id
      BY <1>1, <2>1, <3>1, RespondEffect
    <3>6. QED BY <1>2, <2>1, <3>2, <3>3, <3>4, <3>5
  <2>4. CASE OnRequest(m)
    <3>1. /\ m.kind # "cancel" /\ UNCHANGED toClient
          /\ queue' = Append(queue, m.id) /\ queue \in Seq(Ids)
          /\ renders' = renders \cup ({m.id} \cap Render)
          /\ aborted' = aborted \cup Conflicts(m.id)
      BY <1>1, <2>4 DEF OnRequest, TypeOK
    <3>2. ~Holds(queue, m.id) /\ running # m.id
      BY <1>1, <2>1, <3>1 DEF PlaceInv
    <3>3. /\ \A y : Holds(queue', y) <=> Holds(queue, y) \/ y = m.id
          /\ Once(queue')
          /\ \A a, b : Ahead(queue', a, b) <=> Ahead(queue, a, b) \/ (Holds(queue, a) /\ b = m.id)
      BY <1>1, <2>1, <3>1, <3>2, QueueAppend DEF PlaceInv
    <3>4. PlaceInv' /\ \A id \in Ids : Open(id)' => Open(id)
      BY <1>1, <2>1, <3>1, <3>2, <3>3 DEF PlaceInv, Open
    <3>5. \A r \in Render : r \in renders' <=> Holds(queue', r) \/ running' = r
      BY <1>1, <2>1, <3>1, <3>3 DEF RendersInv
    <3>6. ASSUME NEW r \in renders' \ aborted', NEW c \in Mutate, DocOf[c] = DocOf[r]
          PROVE  ~(running' = r /\ Holds(queue', c)) /\ ~Ahead(queue', r, c)
      <4>1. CASE r \in renders
        <5>1. r \notin aborted /\ c # m.id
          BY <3>1, <3>6, <4>1 DEF Conflicts
        <5>2. QED BY <1>1, <2>1, <3>3, <3>6, <4>1, <5>1 DEF RendersInv
      <4>2. CASE r \notin renders
        <5>1. r = m.id
          BY <3>1, <3>6, <4>2
        <5>2. QED BY <2>1, <3>2, <3>3, <5>1, AheadHolds
      <4>3. QED BY <4>1, <4>2
    <3>7. RendersInv'
      BY <3>5, <3>6 DEF RendersInv
    <3>8. QED BY <1>2, <2>1, <3>1, <3>4, <3>7
  <2>5. CASE UNCHANGED <<queue, renders, aborted, toClient>>
    <3>1. PlaceInv' /\ \A id \in Ids : Open(id)' => Open(id)
      BY <1>1, <2>1, <2>5 DEF PlaceInv, Open
    <3>2. RendersInv'
      BY <1>1, <2>1, <2>5 DEF RendersInv
    <3>3. QED BY <1>2, <2>1, <2>5, <3>1, <3>2
  <2>6. QED BY <1>3, <2>2, <2>3, <2>4, <2>5 DEF WorkerReceive, m
<1>4. ASSUME Begin PROVE PlaceInv' /\ ClosedInv' /\ RendersInv'
  <2> DEFINE h == Head(queue)
  <2>1. /\ running = None /\ UNCHANGED <<clientVars, toWorker>>
        /\ queue \in Seq(Ids) /\ queue # <<>> /\ queue' = Tail(queue)
    BY <1>1, <1>4 DEF Begin, TypeOK
  <2>2. /\ h \in Ids /\ h # None
        /\ \A y : Holds(queue, y) <=> Holds(queue', y) \/ y = h
        /\ Once(queue') /\ ~Holds(queue', h)
        /\ \A a, b : Ahead(queue, a, b) <=> Ahead(queue', a, b) \/ (a = h /\ Holds(queue', b))
    BY <1>1, <2>1, QueueTail DEF PlaceInv, Ids
  <2>3. \/ /\ Respond("error", h) /\ running' = None
           /\ renders' = renders \ {h} /\ aborted' = aborted \ {h}
        \/ /\ h \notin aborted /\ running' = h /\ UNCHANGED <<toClient, renders, aborted>>
    BY <1>4, <2>1 DEF Begin
  <2> HIDE DEF h
  <2>4. PlaceInv'
    BY <1>1, <2>1, <2>2, <2>3 DEF PlaceInv, Ids
  <2>5. RendersInv'
    <3>1. CASE running' = None
      <4>1. renders' = renders \ {h} /\ aborted' = aborted \ {h}
        BY <2>2, <2>3, <3>1
      <4>2. QED BY <1>1, <2>1, <2>2, <3>1, <4>1 DEF RendersInv
    <3>2. CASE running' = h
      <4>1. h \notin aborted /\ UNCHANGED <<renders, aborted>>
        BY <2>2, <2>3, <3>2
      <4>2. QED BY <1>1, <2>1, <2>2, <3>2, <4>1 DEF RendersInv
    <3>3. QED BY <2>3, <3>1, <3>2
  <2>6. \A id \in Ids : Open(id)' => Open(id)
    BY <2>1, <2>2, <2>3 DEF Open, Ids
  <2>7. \A id \in Ids : AnswerIn(toClient', id) => AnswerIn(toClient, id) \/ (Open(id) /\ ~Open(id)')
    <3>1. CASE Respond("error", h) /\ running' = None
      <4>1. \A id : AnswerIn(toClient', id) => AnswerIn(toClient, id) \/ id = h
        BY <1>1, <2>2, <3>1, RespondEffect
      <4>2. \A id \in Ids : id = h => Open(id) /\ ~Open(id)'
        BY <1>1, <2>1, <2>2, <3>1 DEF Open, PlaceInv
      <4>3. QED BY <4>1, <4>2
    <3>2. CASE UNCHANGED toClient
      BY <3>2
    <3>3. QED BY <2>3, <3>1, <3>2
  <2>8. QED BY <1>2, <2>1, <2>4, <2>5, <2>6, <2>7
<1>5. ASSUME NEW kind \in {"handshake", "result", "error"}, running \in Ids, Finish(kind),
             running = HS => kind # "result", running # HS => kind # "handshake",
             UNCHANGED <<clientVars, toWorker, alive, listening, queue, binding>>
      PROVE  PlaceInv' /\ ClosedInv' /\ RendersInv'
  <2>1. running' = None /\ renders' = renders \ {running} /\ aborted' = aborted \ {running}
    BY <1>5 DEF Finish
  <2>2. \A id : AnswerIn(toClient', id) => AnswerIn(toClient, id) \/ id = running
    BY <1>1, <1>5, RespondEffect DEF Finish
  <2>3. PlaceInv' /\ \A id \in Ids : Open(id)' => Open(id)
    BY <1>1, <1>5, <2>1 DEF PlaceInv, Open, Ids
  <2>4. RendersInv'
    <3>1. \A r \in Render : r \in renders' <=> Holds(queue', r) \/ running' = r
      <4>1. ASSUME NEW r \in Render, r \in renders' PROVE Holds(queue', r)
        BY <1>1, <1>5, <2>1, <4>1 DEF RendersInv
      <4>2. ASSUME NEW r \in Render, Holds(queue', r) PROVE r \in renders'
        BY <1>1, <1>5, <2>1, <4>2 DEF RendersInv, PlaceInv, Ids
      <4>3. \A r \in Render : running' # r
        BY <2>1
      <4>4. QED BY <4>1, <4>2, <4>3
    <3>2. ASSUME NEW r \in renders' \ aborted', NEW c \in Mutate, DocOf[c] = DocOf[r]
          PROVE  ~(running' = r /\ Holds(queue', c)) /\ ~Ahead(queue', r, c)
      <4>1. r \in renders \ aborted /\ running' # r
        BY <1>1, <2>1, <3>2 DEF TypeOK
      <4>2. QED BY <1>1, <1>5, <3>2, <4>1 DEF RendersInv
    <3>3. QED BY <3>1, <3>2 DEF RendersInv
  <2>5. \A id \in Ids : id = running => Open(id) /\ ~Open(id)'
    BY <1>1, <1>5, <2>1 DEF Open, PlaceInv, Ids
  <2>6. QED BY <1>2, <1>5, <2>2, <2>3, <2>4, <2>5
<1>6. ASSUME UNCHANGED <<clientVars, toWorker, toClient, queue, running, renders>>, aborted \subseteq aborted'
      PROVE  PlaceInv' /\ ClosedInv' /\ RendersInv'
  <2>1. PlaceInv' /\ \A id \in Ids : Open(id)' => Open(id)
    BY <1>1, <1>6 DEF PlaceInv, Open
  <2>2. RendersInv'
    BY <1>1, <1>6 DEF RendersInv
  <2>3. QED BY <1>2, <1>6, <2>1, <2>2
<1>7. ASSUME LoadBinding \/ Detach PROVE PlaceInv' /\ ClosedInv' /\ RendersInv'
  BY <1>6, <1>7 DEF LoadBinding, Detach
<1>8. ASSUME Bound PROVE PlaceInv' /\ ClosedInv' /\ RendersInv'
  <2>1. running \in Ids
    BY <1>1, <1>8 DEF Bound, TypeOK
  <2>2. QED BY <1>5, <1>6, <1>8, <2>1 DEF Bound, Ids
<1>9. ASSUME Complete PROVE PlaceInv' /\ ClosedInv' /\ RendersInv'
  <2>1. running \in Calls
    BY <1>1, <1>9 DEF Complete
  <2>2. QED BY <1>5, <1>9, <2>1 DEF Complete, Ids
<1>10. QED BY <1>3, <1>4, <1>7, <1>8, <1>9

\* Every step keeps the invariant.
LEMMA NextRpc == RpcInv /\ [Next]_vars => RpcInv'
<1> SUFFICES ASSUME RpcInv, [Next]_vars PROVE RpcInv'
    OBVIOUS
<1>1. TypeInv'
  BY NextType DEF RpcInv
<1>2. PlaceInv' /\ ClosedInv' /\ RendersInv'
  <2>1. CASE UNCHANGED vars
    BY <2>1 DEF RpcInv, vars, clientVars, serverVars, PlaceInv, ClosedInv, RendersInv, Open
  <2>2. QED BY <2>1, ClientSteps, WorkerSteps DEF Next
<1>3. QED BY <1>1, <1>2 DEF RpcInv

\* The invariant always holds.
LEMMA RpcInvariant == Spec => []RpcInv
  BY InitRpc, NextRpc, PTL DEF Spec

----------------------------------------------------------------------------
(* What the client and the worker promise *)

\* A call that has settled is nowhere at the worker while the client lives: a
\* new request for its document finds no render still open.
THEOREM SettledClosed == Spec => []SettledMeansClosed
<1>1. RpcInv => SettledMeansClosed
  <2> SUFFICES ASSUME RpcInv, ~exited, NEW c \in Calls, status[c] \in Settled
               PROVE ~AtWorker(c) /\ c \notin renders
      BY DEF SettledMeansClosed
  <2>1. ~Open(c)
    BY DEF RpcInv, ClosedInv
  <2>2. ~AtWorker(c)
    BY <2>1 DEF Open, AtWorker, Posted, SentIn
  <2>3. c \notin renders
    BY <2>1 DEF RpcInv, TypeInv, TypeOK, RendersInv, Open
  <2>4. QED BY <2>2, <2>3
<1>2. QED BY RpcInvariant, <1>1, PTL

\* Once its signal has fired, a call never resolves.
THEOREM CancelledStays == Spec => CancelledNeverResolves
<1>1. RpcInv /\ [Next]_vars =>
        [\A c \in Calls : status'[c] = "resolved" /\ status[c] # "resolved" => c \notin signal]_vars
  <2> SUFFICES ASSUME RpcInv, Next, NEW c \in Calls, status'[c] = "resolved", status[c] # "resolved"
               PROVE c \notin signal
      OBVIOUS
  <2>1. TypeOK
    BY DEF RpcInv, TypeInv
  <2>2. ClientReceive
    <3>1. ASSUME NEW d \in Calls, Call(d) \/ Resume(d) \/ Abort(d) PROVE FALSE
      BY <2>1, <3>1 DEF Call, Resume, Abort, TypeOK
    <3>2. ASSUME Dispose PROVE FALSE
      BY <2>1, <3>2 DEF Dispose, FailPending, TypeOK
    <3>3. QED BY <3>1, <3>2 DEF Next, clientVars, WorkerReceive, Begin, LoadBinding, Bound, Complete,
                   WorkerFails, Detach
  <2>3. OnAnswer(Head(toClient))
    BY <2>1, <2>2 DEF ClientReceive, OnHandshake, FailPending, TypeOK
  <2>4. QED BY <2>1, <2>3 DEF OnAnswer, Outcome, TypeOK
<1>2. QED BY RpcInvariant, <1>1, PTL DEF Spec, CancelledNeverResolves

\* No render's pixels leave the worker once a change of its document is there.
THEOREM StaleNeverLeaves == Spec => NoStaleRender
<1>1. RpcInv /\ [Next]_vars =>
        [\A r \in Render, m \in Mutate :
           Answered(r)' /\ ~Answered(r) /\ Holds(queue, m) /\ DocOf[m] = DocOf[r]
             => \A i \in DOMAIN toClient' : toClient'[i].id = r => toClient'[i].kind = "error"]_vars
  <2> SUFFICES ASSUME RpcInv, Next, NEW r \in Render, NEW m \in Mutate,
                      Answered(r)', ~Answered(r), Holds(queue, m), DocOf[m] = DocOf[r],
                      NEW i \in DOMAIN toClient', toClient'[i].id = r
               PROVE  toClient'[i].kind = "error"
      OBVIOUS
  <2> USE CallsAssumption
  <2>1. TypeOK /\ RendersInv /\ toClient \in Seq(ResponseMsg) /\ (invoked => running \in Calls)
    BY DEF RpcInv, TypeInv, TypeOK
  <2>2. \A j \in DOMAIN toClient : toClient[j].id # r
    <3> SUFFICES ASSUME NEW j \in DOMAIN toClient, toClient[j].id = r PROVE FALSE
        OBVIOUS
    <3>1. toClient[j] \in ResponseMsg
      BY <2>1
    <3>2. toClient[j].kind = "exit" /\ r # HS
      BY DEF Answered
    <3>3. QED BY <3>1, <3>2 DEF ResponseMsg
  <2>3. ASSUME NEW x, toClient' = Append(toClient, x), x.id = r => x.kind = "error"
        PROVE  toClient'[i].kind = "error"
    <3>1. (i \in DOMAIN toClient /\ toClient'[i] = toClient[i]) \/ toClient'[i] = x
      BY <2>1, <2>3
    <3>2. QED BY <2>2, <2>3, <3>1
  <2>4. ASSUME NEW id, Respond("error", id) PROVE toClient'[i].kind = "error"
    BY <2>3, <2>4 DEF Respond
  <2>5. ASSUME toClient' = toClient \/ (toClient # <<>> /\ toClient' = Tail(toClient)) PROVE FALSE
    <3>1. Answered(r)' = AnswerIn(toClient', r) /\ Answered(r) = AnswerIn(toClient, r)
      BY DEF Answered, AnswerIn
    <3>2. QED BY <2>1, <2>5, <3>1, AnswerTail
  <2>6. ASSUME ClientReceive \/ Dispose \/ LoadBinding \/ Detach
               \/ \E c \in Calls : Call(c) \/ Resume(c) \/ Abort(c)
        PROVE  FALSE
    BY <2>5, <2>6 DEF ClientReceive, Dispose, LoadBinding, Detach, Call, Resume, Abort
  <2>7. ASSUME WorkerReceive PROVE toClient'[i].kind = "error"
    BY <2>4, <2>5, <2>7 DEF WorkerReceive, OnCancel, OnUnknown, OnRequest
  <2>8. ASSUME Begin PROVE toClient'[i].kind = "error"
    BY <2>4, <2>5, <2>8 DEF Begin
  <2>9. ASSUME Bound PROVE toClient'[i].kind = "error"
    <3>1. CASE running = HS /\ Finish("handshake")
      BY <2>3, <3>1 DEF Finish, Respond
    <3>2. CASE Finish("error")
      BY <2>4, <3>2 DEF Finish
    <3>3. QED BY <2>5, <2>9, <3>1, <3>2 DEF Bound
  <2>10. ASSUME Complete PROVE toClient'[i].kind = "error"
    <3>1. CASE Finish("error")
      BY <2>4, <3>1 DEF Finish
    <3>2. CASE running \notin aborted /\ Finish("result")
      <4>1. running # r
        BY <2>1, <3>2 DEF RendersInv
      <4>2. QED BY <2>3, <3>2, <4>1 DEF Finish, Respond
    <3>3. QED BY <2>10, <3>1, <3>2 DEF Complete
  <2>11. ASSUME WorkerFails PROVE toClient'[i].kind = "error"
    BY <2>3, <2>11 DEF WorkerFails, Exit
  <2>12. QED BY <2>6, <2>7, <2>8, <2>9, <2>10, <2>11 DEF Next
<1>2. QED BY RpcInvariant, <1>1, PTL DEF Spec, NoStaleRender

----------------------------------------------------------------------------
(* The order of the calls, from the application to the engine *)

\* The calls made are the ones that are not idle, each made once.
IssuedInv == Once(issued) /\ \A c \in Calls : Holds(issued, c) <=> status[c] # "idle"

\* A call behind one that waits has not been sent.  Of two that have been, the
\* later one stands behind the earlier in the channel and in the queue, is not
\* in the queue while the earlier is in the channel, and does not run while
\* the earlier is open; a method the worker does not know never queues.
OrderInv ==
  \A a, b \in Calls : Ahead(issued, a, b) =>
    /\ Waiting(a) => ~Open(b)
    /\ a \notin Unknown =>
         /\ running = b => ~Open(a)
         /\ Holds(queue, b) => ~SentIn(toWorker, a) /\ (Holds(queue, a) => Ahead(queue, a, b))
         /\ SentIn(toWorker, a) /\ SentIn(toWorker, b) => SentAhead(toWorker, a, b)

SeqInv == RpcInv /\ IssuedInv /\ OrderInv

\* Nothing stands ahead of itself.
LEMMA AheadOther == \A s, a, b : Once(s) /\ s \in Seq(Calls) /\ Ahead(s, a, b) => a # b
<1> SUFFICES ASSUME NEW s \in Seq(Calls), NEW a, NEW b, Once(s), Ahead(s, a, b) PROVE a # b
    OBVIOUS
<1>1. PICK i, j \in DOMAIN s : i < j /\ s[i] = a /\ s[j] = b
  BY DEF Ahead
<1>2. i # j
  BY <1>1
<1>3. QED BY <1>1, <1>2 DEF Once

\* No call has been made.
LEMMA InitSeq == Init => SeqInv
<1> SUFFICES ASSUME Init PROVE SeqInv
    OBVIOUS
<1>1. IssuedInv /\ OrderInv
  BY EmptyHolds DEF Init, IssuedInv, OrderInv
<1>2. QED BY <1>1, InitRpc DEF SeqInv

\* The calls made grow by the call that is made.
LEMMA NextIssued ==
  ASSUME SeqInv, [Next]_vars
  PROVE  IssuedInv'
<1> USE DEF clientVars, serverVars
<1>1. TypeOK /\ IssuedInv
  BY DEF SeqInv, RpcInv, TypeInv
<1>2. ASSUME NEW c \in Calls, Call(c) PROVE IssuedInv'
  <2>1. /\ status[c] = "idle" /\ issued' = Append(issued, c) /\ issued \in Seq(Calls)
        /\ \A d \in Calls : status'[d] # "idle" <=> status[d] # "idle" \/ d = c
    BY <1>1, <1>2 DEF Call, TypeOK
  <2>2. Once(issued') /\ \A y : Holds(issued', y) <=> Holds(issued, y) \/ y = c
    BY <1>1, <2>1, QueueAppend DEF IssuedInv
  <2>3. QED BY <1>1, <2>1, <2>2 DEF IssuedInv
<1>3. ASSUME UNCHANGED issued, \A d \in Calls : status'[d] = "idle" <=> status[d] = "idle"
      PROVE  IssuedInv'
  BY <1>1, <1>3 DEF IssuedInv
<1>4. ASSUME NEW c \in Calls, Resume(c) PROVE IssuedInv'
  BY <1>1, <1>3, <1>4 DEF Resume, Waiting, TypeOK
<1>5. ASSUME ClientReceive PROVE IssuedInv'
  <2>1. UNCHANGED issued
    BY <1>5 DEF ClientReceive
  <2>2. CASE OnAnswer(Head(toClient))
    BY <1>1, <1>3, <2>1, <2>2 DEF OnAnswer, Outcome, TypeOK
  <2>3. CASE FailPending
    BY <1>1, <1>3, <2>1, <2>3 DEF FailPending, TypeOK
  <2>4. CASE UNCHANGED status
    BY <1>3, <2>1, <2>4
  <2>5. QED BY <1>5, <2>2, <2>3, <2>4 DEF ClientReceive, OnHandshake
<1>6. ASSUME Dispose PROVE IssuedInv'
  BY <1>1, <1>3, <1>6 DEF Dispose, FailPending, TypeOK
<1>7. CASE UNCHANGED <<issued, status>>
  BY <1>3, <1>7
<1>8. QED BY <1>2, <1>4, <1>5, <1>6, <1>7 DEF Next, vars, Abort, WorkerReceive, Begin, LoadBinding,
               Bound, Complete, WorkerFails, Detach

\* Where the requests of the calls stand does not change, or they are fewer.
LEMMA OrderKept ==
  ASSUME SeqInv, UNCHANGED issued, \A c \in Calls : Waiting(c)' => Waiting(c),
         UNCHANGED queue,
         running' = running \/ running' = None,
         \A c \in Calls : SentIn(toWorker', c) <=> SentIn(toWorker, c),
         \A a, b \in Calls : SentAhead(toWorker, a, b) => SentAhead(toWorker', a, b)
  PROVE  OrderInv'
<1>1. /\ \A c \in Calls : Open(c)' => Open(c)
      /\ \A c \in Calls : running' = c => running = c
  BY CallsAssumption DEF Open
<1>2. QED BY <1>1 DEF SeqInv, OrderInv

\* A worker that is gone has no request to order.
LEMMA OrderGone ==
  ASSUME WorkerGone
  PROVE  OrderInv'
<1>1. /\ \A c \in Calls : ~Open(c)'
      /\ \A y : ~SentIn(toWorker', y) /\ ~Holds(queue', y)
  BY WorkerGoneEffect, EmptyHolds DEF WorkerGone, Ids
<1>2. running' \notin Calls
  BY CallsAssumption DEF WorkerGone
<1>3. QED BY <1>1, <1>2 DEF OrderInv

\* A post that is no call's request keeps the place of every call's.
LEMMA PostOther ==
  ASSUME TypeOK, NEW m \in RequestMsg, Post(m), m.kind = "cancel" \/ m.id = HS
  PROVE  /\ \A c \in Calls : SentIn(toWorker', c) <=> SentIn(toWorker, c)
         /\ \A a, b \in Calls : SentAhead(toWorker, a, b) => SentAhead(toWorker', a, b)
<1>1. toWorker' = toWorker \/ toWorker' = Append(toWorker, m)
  BY DEF Post
<1>2. toWorker \in Seq(RequestMsg)
  BY DEF TypeOK
<1>3. CASE toWorker' = Append(toWorker, m)
  <2>1. \A id : SentIn(toWorker', id) <=> SentIn(toWorker, id) \/ (m.kind # "cancel" /\ m.id = id)
    BY <1>2, <1>3, SentAppend
  <2>2. \A a, b : SentAhead(toWorker, a, b) => SentAhead(toWorker', a, b)
    BY <1>2, <1>3, SentAheadAppend
  <2>3. QED BY <2>1, <2>2, CallsAssumption
<1>4. QED BY <1>1, <1>3

\* A step of the client, or the failure of the worker, keeps the order.
LEMMA ClientOrder ==
  ASSUME SeqInv,
         \/ \E c \in Calls : Call(c) \/ Resume(c) \/ Abort(c)
         \/ ClientReceive \/ Dispose \/ WorkerFails
  PROVE  OrderInv'
<1> USE CallsAssumption DEF clientVars, serverVars
<1>1. TypeOK /\ PlaceInv /\ ClosedInv /\ IssuedInv /\ OrderInv
  BY DEF SeqInv, RpcInv, TypeInv
<1>2. ASSUME NEW c \in Calls, Call(c) PROVE OrderInv'
  <2>1. /\ status[c] = "idle" /\ issued' = Append(issued, c) /\ issued \in Seq(Calls)
        /\ UNCHANGED serverVars
        /\ \A d \in Calls : d # c => (Waiting(d)' <=> Waiting(d))
    BY <1>1, <1>2 DEF Call, Waiting, TypeOK
  <2>2. /\ \A d \in Calls : SentIn(toWorker', d) <=> SentIn(toWorker, d)
        /\ \A a, b \in Calls : SentAhead(toWorker, a, b) => SentAhead(toWorker', a, b)
    <3>1. [kind |-> "handshake", id |-> HS] \in RequestMsg
      BY DEF RequestMsg
    <3>2. CASE UNCHANGED toWorker
      BY <3>2
    <3>3. CASE Post([kind |-> "handshake", id |-> HS])
      BY <1>1, <3>1, <3>3, PostOther
    <3>4. QED BY <1>2, <3>2, <3>3 DEF Call, EnsureHandshake
  <2>3. /\ \A d \in Calls : Open(d)' <=> Open(d)
        /\ ~Open(c) /\ ~Open(c)' /\ ~Holds(issued, c)
    BY <1>1, <2>1, <2>2 DEF Open, ClosedInv, IssuedInv
  <2>4. \A a, b : Ahead(issued', a, b) <=> Ahead(issued, a, b) \/ (Holds(issued, a) /\ b = c)
    BY <2>1, QueueAppend
  <2>5. ASSUME NEW a \in Calls, NEW b \in Calls, Ahead(issued', a, b), b = c
        PROVE  ~Open(b)' /\ ~SentIn(toWorker', b) /\ ~Holds(queue', b) /\ running' # b
    BY <2>3, <2>5 DEF Open
  <2>6. ASSUME NEW a \in Calls, NEW b \in Calls, Ahead(issued', a, b), b # c
        PROVE  Ahead(issued, a, b) /\ a # c
    BY <2>3, <2>4, <2>6, AheadHolds
  <2>7. QED BY <1>1, <2>1, <2>2, <2>3, <2>5, <2>6 DEF OrderInv
<1>3. ASSUME NEW c \in Calls, Resume(c) PROVE OrderInv'
  <2>1. /\ Waiting(c) /\ ~Open(c) /\ UNCHANGED <<issued, serverVars>> /\ issued \in Seq(Calls)
        /\ \A d \in Calls : Waiting(d)' => Waiting(d)
    BY <1>1, <1>3 DEF Resume, Waiting, ClosedInv, TypeOK
  <2>2. CASE UNCHANGED toWorker
    BY <2>1, <2>2, OrderKept
  <2>3. CASE toWorker' = Append(toWorker, [kind |-> "request", id |-> c])
    <3> DEFINE m == [kind |-> "request", id |-> c]
    <3>1. m \in RequestMsg /\ m.kind # "cancel" /\ m.id = c /\ toWorker \in Seq(RequestMsg)
      BY <1>1 DEF RequestMsg, TypeOK
    <3>2. toWorker' = Append(toWorker, m)
      BY <2>3
    <3> HIDE DEF m
    <3>3. /\ \A id : SentIn(toWorker', id) <=> SentIn(toWorker, id) \/ id = c
          /\ \A a, b : SentAhead(toWorker, a, b) \/ (SentIn(toWorker, a) /\ b = c)
                         => SentAhead(toWorker', a, b)
      BY <3>1, <3>2, SentAppend, SentAheadAppend
    <3>4. \A a \in Calls : Ahead(issued, a, c) => ~Waiting(a) /\ a # c
      <4>1. PICK k \in DOMAIN issued : issued[k] = c /\ \A j \in 1..(k - 1) : ~Waiting(issued[j])
        BY <1>3 DEF Resume, Oldest
      <4> SUFFICES ASSUME NEW a \in Calls, Ahead(issued, a, c) PROVE ~Waiting(a) /\ a # c
          OBVIOUS
      <4>2. PICK i, j \in DOMAIN issued : i < j /\ issued[i] = a /\ issued[j] = c
        BY DEF Ahead
      <4>3. j = k
        BY <1>1, <4>1, <4>2 DEF IssuedInv, Once
      <4>4. i \in 1..(k - 1)
        BY <2>1, <4>2, <4>3
      <4>5. QED BY <1>1, <2>1, <4>1, <4>2, <4>4, AheadOther DEF IssuedInv
    <3>5. \A b \in Calls : Ahead(issued, c, b) => ~Open(b) /\ ~SentIn(toWorker, b) /\ b # c
      BY <1>1, <2>1, AheadOther DEF OrderInv, Open, IssuedInv
    <3>6. \A d \in Calls : d # c => (Open(d)' <=> Open(d))
      BY <2>1, <3>3 DEF Open
    <3>7. ~Holds(queue, c) /\ running # c /\ ~SentIn(toWorker, c)
      BY <2>1 DEF Open
    <3> SUFFICES ASSUME NEW a \in Calls, NEW b \in Calls, Ahead(issued', a, b)
                 PROVE  /\ Waiting(a)' => ~Open(b)'
                        /\ a \notin Unknown =>
                             /\ running' = b => ~Open(a)'
                             /\ Holds(queue', b) => /\ ~SentIn(toWorker', a)
                                                    /\ Holds(queue', a) => Ahead(queue', a, b)
                             /\ SentIn(toWorker', a) /\ SentIn(toWorker', b)
                                  => SentAhead(toWorker', a, b)
        BY DEF OrderInv
    <3>8. CASE b = c
      BY <2>1, <3>3, <3>4, <3>7, <3>8
    <3>9. CASE a = c
      BY <2>1, <3>3, <3>5, <3>6, <3>9 DEF Open
    <3>10. CASE a # c /\ b # c
      BY <1>1, <2>1, <3>3, <3>6, <3>10 DEF OrderInv
    <3>11. QED BY <3>8, <3>9, <3>10
  <2>4. QED BY <1>3, <2>2, <2>3 DEF Resume, Post
<1>4. ASSUME NEW c \in Calls, Abort(c) PROVE OrderInv'
  <2>1. UNCHANGED <<issued, status, queue, running>>
    BY <1>4 DEF Abort
  <2>2. [kind |-> "cancel", id |-> c] \in RequestMsg
    BY DEF RequestMsg
  <2>3. /\ \A d \in Calls : SentIn(toWorker', d) <=> SentIn(toWorker, d)
        /\ \A a, b \in Calls : SentAhead(toWorker, a, b) => SentAhead(toWorker', a, b)
    BY <1>1, <1>4, <2>2, PostOther DEF Abort
  <2>4. QED BY <2>1, <2>3, OrderKept DEF Waiting
<1>5. ASSUME ClientReceive PROVE OrderInv'
  <2>1. UNCHANGED <<issued, toWorker, queue, running>>
    BY <1>5 DEF ClientReceive
  <2>2. \A d \in Calls : Waiting(d)' => Waiting(d)
    <3>1. CASE OnAnswer(Head(toClient))
      BY <1>1, <3>1 DEF OnAnswer, Outcome, Waiting, TypeOK
    <3>2. CASE FailPending
      BY <1>1, <3>2 DEF FailPending, Waiting, TypeOK
    <3>3. CASE UNCHANGED status
      BY <3>3 DEF Waiting
    <3>4. QED BY <1>5, <3>1, <3>2, <3>3 DEF ClientReceive, OnHandshake
  <2>3. QED BY <2>1, <2>2, OrderKept
<1>6. ASSUME Dispose PROVE OrderInv'
  <2>1. UNCHANGED issued /\ \A d \in Calls : Waiting(d)' => Waiting(d)
    BY <1>1, <1>6 DEF Dispose, FailPending, Waiting, TypeOK
  <2>2. CASE WorkerGone
    BY <2>2, OrderGone
  <2>3. CASE UNCHANGED <<toWorker, alive, serverVars>>
    BY <2>1, <2>3, OrderKept
  <2>4. QED BY <1>6, <2>2, <2>3 DEF Dispose
<1>7. ASSUME WorkerFails PROVE OrderInv'
  <2>1. CASE WorkerGone
    BY <2>1, OrderGone
  <2>2. CASE UNCHANGED <<toWorker, alive, serverVars>>
    BY <1>7, <2>2, OrderKept DEF WorkerFails, Waiting
  <2>3. QED BY <1>7, <2>1, <2>2 DEF WorkerFails
<1>8. QED BY <1>2, <1>3, <1>4, <1>5, <1>6, <1>7

\* A step of the worker keeps the order: it takes requests from the front.
LEMMA WorkerOrder ==
  ASSUME SeqInv, WorkerReceive \/ Begin \/ LoadBinding \/ Bound \/ Complete \/ Detach
  PROVE  OrderInv'
<1> USE CallsAssumption DEF clientVars, serverVars
<1>1. TypeOK /\ PlaceInv /\ IssuedInv /\ OrderInv
  BY DEF SeqInv, RpcInv, TypeInv
<1>2. ASSUME WorkerReceive PROVE OrderInv'
  <2> DEFINE m == Head(toWorker)
  <2>1. /\ toWorker \in Seq(RequestMsg) /\ toWorker # <<>> /\ toWorker' = Tail(toWorker)
        /\ UNCHANGED <<issued, status, running>>
    BY <1>1, <1>2 DEF WorkerReceive, TypeOK
  <2>2. /\ \A id : SentIn(toWorker, id) <=> SentIn(toWorker', id) \/ (m.kind # "cancel" /\ m.id = id)
        /\ m.kind # "cancel" => ~SentIn(toWorker', m.id)
        /\ \A a, b : SentAhead(toWorker, a, b) =>
             /\ SentAhead(toWorker', a, b) \/ (m.kind # "cancel" /\ m.id = a)
             /\ SentIn(toWorker', b)
        /\ m \in RequestMsg /\ m.id \in Ids
    <3>1. m \in RequestMsg
      BY <2>1, SentTail
    <3>2. QED BY <1>1, <2>1, <3>1, SentTail, SentAheadTail DEF PlaceInv, RequestMsg, Ids
  <2> HIDE DEF m
  <2>3. CASE UNCHANGED queue
    <3>1. \A d \in Calls : Open(d)' => Open(d)
      BY <2>1, <2>2, <2>3 DEF Open
    <3> SUFFICES ASSUME NEW a \in Calls, NEW b \in Calls, Ahead(issued, a, b)
                 PROVE  /\ Waiting(a)' => ~Open(b)'
                        /\ a \notin Unknown =>
                             /\ running' = b => ~Open(a)'
                             /\ Holds(queue', b) => /\ ~SentIn(toWorker', a)
                                                    /\ Holds(queue', a) => Ahead(queue', a, b)
                             /\ SentIn(toWorker', a) /\ SentIn(toWorker', b)
                                  => SentAhead(toWorker', a, b)
        BY <2>1 DEF OrderInv
    <3>2. QED BY <1>1, <2>1, <2>2, <2>3, <3>1 DEF OrderInv, Waiting
  <2>4. CASE OnRequest(m)
    <3>1. /\ m.kind # "cancel" /\ m.id \notin Unknown
          /\ queue' = Append(queue, m.id) /\ queue \in Seq(Ids)
      BY <1>1, <2>4 DEF OnRequest, TypeOK
    <3>2. /\ \A y : Holds(queue', y) <=> Holds(queue, y) \/ y = m.id
          /\ \A a, b : Ahead(queue', a, b) <=> Ahead(queue, a, b) \/ (Holds(queue, a) /\ b = m.id)
      BY <2>2, <3>1, QueueAppend
    <3>3. /\ \A id \in Ids : Open(id)' <=> Open(id)
          /\ ~Holds(queue, m.id) /\ running # m.id
      BY <1>1, <2>1, <2>2, <3>1, <3>2 DEF Open, PlaceInv
    <3> SUFFICES ASSUME NEW a \in Calls, NEW b \in Calls, Ahead(issued, a, b), a # b
                 PROVE  /\ Waiting(a)' => ~Open(b)'
                        /\ a \notin Unknown =>
                             /\ running' = b => ~Open(a)'
                             /\ Holds(queue', b) => /\ ~SentIn(toWorker', a)
                                                    /\ Holds(queue', a) => Ahead(queue', a, b)
                             /\ SentIn(toWorker', a) /\ SentIn(toWorker', b)
                                  => SentAhead(toWorker', a, b)
        BY <1>1, <2>1, AheadOther DEF OrderInv, IssuedInv, TypeOK
    <3>4. /\ Waiting(a)' => ~Open(b)'
          /\ a \notin Unknown /\ running' = b => ~Open(a)'
      BY <1>1, <2>1, <3>3 DEF OrderInv, Waiting, Ids
    <3>5. ASSUME a \notin Unknown, Holds(queue', b), b = m.id
          PROVE  ~SentIn(toWorker', a) /\ (Holds(queue', a) => Ahead(queue', a, b))
      <4>1. ~SentIn(toWorker', a)
        BY <1>1, <2>2, <3>1, <3>5 DEF OrderInv
      <4>2. QED BY <3>2, <3>5, <4>1
    <3>6. ASSUME a \notin Unknown, Holds(queue', b), b # m.id
          PROVE  ~SentIn(toWorker', a) /\ (Holds(queue', a) => Ahead(queue', a, b))
      <4>1. Holds(queue, b) /\ ~SentIn(toWorker, a)
        BY <1>1, <3>2, <3>6 DEF OrderInv
      <4>2. a # m.id /\ ~SentIn(toWorker', a)
        BY <2>2, <3>1, <4>1
      <4>3. QED BY <1>1, <3>2, <3>6, <4>1, <4>2 DEF OrderInv
    <3>7. a \notin Unknown /\ SentIn(toWorker', a) /\ SentIn(toWorker', b) => SentAhead(toWorker', a, b)
      BY <1>1, <2>2, <3>1 DEF OrderInv
    <3>8. QED BY <3>4, <3>5, <3>6, <3>7
  <2>5. QED BY <1>2, <2>3, <2>4 DEF WorkerReceive, OnCancel, OnUnknown, m
<1>3. ASSUME Begin PROVE OrderInv'
  <2> DEFINE h == Head(queue)
  <2>1. /\ running = None /\ UNCHANGED <<issued, status, toWorker>>
        /\ queue \in Seq(Ids) /\ queue # <<>> /\ queue' = Tail(queue)
        /\ running' = None \/ running' = h
    BY <1>1, <1>3 DEF Begin, TypeOK
  <2>2. /\ h \in Ids /\ h # None
        /\ \A y : Holds(queue, y) <=> Holds(queue', y) \/ y = h
        /\ ~Holds(queue', h)
        /\ \A a, b : Ahead(queue, a, b) <=> Ahead(queue', a, b) \/ (a = h /\ Holds(queue', b))
    BY <1>1, <2>1, QueueTail DEF PlaceInv, Ids
  <2> HIDE DEF h
  <2>3. \A id \in Ids : Open(id)' => Open(id)
    BY <2>1, <2>2 DEF Open, Ids
  <2> SUFFICES ASSUME NEW a \in Calls, NEW b \in Calls, Ahead(issued, a, b), a # b
               PROVE  /\ Waiting(a)' => ~Open(b)'
                      /\ a \notin Unknown =>
                           /\ running' = b => ~Open(a)'
                           /\ Holds(queue', b) => /\ ~SentIn(toWorker', a)
                                                  /\ Holds(queue', a) => Ahead(queue', a, b)
                           /\ SentIn(toWorker', a) /\ SentIn(toWorker', b)
                                => SentAhead(toWorker', a, b)
      BY <1>1, <2>1, AheadOther DEF OrderInv, IssuedInv, TypeOK
  <2>4. Waiting(a)' => ~Open(b)'
    BY <1>1, <2>1, <2>3 DEF OrderInv, Waiting, Ids
  <2>5. ASSUME a \notin Unknown, running' = b PROVE ~Open(a)'
    <3>1. b = h /\ Holds(queue, b) /\ ~Holds(queue', b)
      BY <2>1, <2>2, <2>5
    <3>2. ~SentIn(toWorker, a) /\ ~Holds(queue', a)
      <4>1. ~SentIn(toWorker, a) /\ (Holds(queue, a) => Ahead(queue, a, b))
        BY <1>1, <2>5, <3>1 DEF OrderInv
      <4>2. ~Ahead(queue, a, b)
        BY <2>2, <3>1, AheadHolds
      <4>3. QED BY <2>2, <4>1, <4>2
    <3>3. QED BY <2>1, <2>5, <3>2 DEF Open
  <2>6. ASSUME a \notin Unknown, Holds(queue', b)
        PROVE  ~SentIn(toWorker', a) /\ (Holds(queue', a) => Ahead(queue', a, b))
    BY <1>1, <2>1, <2>2, <2>6 DEF OrderInv
  <2>7. a \notin Unknown /\ SentIn(toWorker', a) /\ SentIn(toWorker', b) => SentAhead(toWorker', a, b)
    BY <1>1, <2>1 DEF OrderInv
  <2>8. QED BY <2>4, <2>5, <2>6, <2>7
<1>4. ASSUME LoadBinding \/ Bound \/ Complete \/ Detach PROVE OrderInv'
  <2>1. UNCHANGED <<issued, status, toWorker, queue>> /\ (running' = running \/ running' = None)
    BY <1>4 DEF LoadBinding, Bound, Complete, Finish, Detach
  <2>2. QED BY <2>1, OrderKept DEF Waiting
<1>5. QED BY <1>2, <1>3, <1>4

\* Every step keeps the order.
LEMMA NextSeq == SeqInv /\ [Next]_vars => SeqInv'
<1> SUFFICES ASSUME SeqInv, [Next]_vars PROVE SeqInv'
    OBVIOUS
<1>1. RpcInv' /\ IssuedInv'
  BY NextRpc, NextIssued DEF SeqInv
<1>2. OrderInv'
  <2>1. CASE UNCHANGED vars
    BY <2>1, OrderKept DEF vars, clientVars, serverVars, Waiting
  <2>2. QED BY <2>1, ClientOrder, WorkerOrder DEF Next
<1>3. QED BY <1>1, <1>2 DEF SeqInv

\* Calls reach the engine in the order the application made them: whatever
\* was lost, rejected or cancelled on the way, none overtakes another.
THEOREM CallsInOrder == Spec => InvokedInOrder
<1>1. SeqInv /\ [Next]_vars =>
        [\A i, j \in DOMAIN issued :
           /\ i < j /\ invoked' /\ ~invoked /\ running = issued[j]
           => ~Waiting(issued[i]) /\ (issued[i] \in Unknown \/ ~AtWorker(issued[i]))]_vars
  <2> SUFFICES ASSUME SeqInv, NEW i \in DOMAIN issued, NEW j \in DOMAIN issued,
                      i < j, running = issued[j]
               PROVE  ~Waiting(issued[i]) /\ (issued[i] \in Unknown \/ ~AtWorker(issued[i]))
      OBVIOUS
  <2>1. issued[i] \in Calls /\ issued[j] \in Calls
    BY DEF SeqInv, RpcInv, TypeInv, TypeOK
  <2>2. Ahead(issued, issued[i], issued[j])
    BY DEF Ahead
  <2>3. Open(issued[j])
    BY DEF Open
  <2>4. ~Waiting(issued[i]) /\ (issued[i] \in Unknown \/ ~Open(issued[i]))
    BY <2>1, <2>2, <2>3 DEF SeqInv, OrderInv
  <2>5. QED BY <2>4 DEF Open, AtWorker, Posted, SentIn
<1>2. QED BY InitSeq, NextSeq, <1>1, PTL DEF Spec, InvokedInOrder
=============================================================================
