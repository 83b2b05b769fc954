--------------------------- MODULE GatewayLedger ---------------------------
(***************************************************************************)
(* An AI request at the gateway: apps/gateway/src/server.ts takes a slot   *)
(* from admission.ts, reserves tokens in the ledger of account-store.ts,   *)
(* works with the model provider, settles the reservation with what was    *)
(* really used and gives the slot back.                                    *)
(*                                                                         *)
(* The ledger is a SQLite file: reserve and settle are transactions, and   *)
(* it survives the process.  Slots, and the WeakMap charges that leads     *)
(* from a request to its reservation, do not.  A request may end by its    *)
(* answer, an error, its deadline or its client's going away.              *)
(***************************************************************************)
EXTENDS Integers, FiniteSets, Functions

CONSTANTS Requests,     \* requests, each made once
          Agent,        \* those of the agent's routes; the others stream SSE
          Image,        \* those that also take one of the slots for images
          Users, UserOf,\* accounts, and the account of each request
          Ips, IpOf,    \* clients, and the client of each request
          Free,         \* FREE_TOKENS, what an account may use for nothing
          InputBound,   \* tokens the input of each request can take at most
          OutputLimit,  \* tokens of output the gateway asks for at most
          MinOutput,    \* tokens of output without which a request is no use
          InFlight, ImageInFlight, PerIpInFlight, \* limits of the slots
          None,         \* no row, no reservation, no usage
          MaxFaults,    \* bound: transactions of settle that fail
          MaxRestarts   \* bound: times the process dies

ASSUME GatewayAssumption ==
  /\ IsFiniteSet(Requests) /\ Agent \subseteq Requests /\ Image \subseteq Requests
  /\ UserOf \in [Requests -> Users] /\ IpOf \in [Requests -> Ips]
  /\ Free \in Nat /\ InputBound \in [Requests -> Nat] /\ OutputLimit \in Nat
  /\ MinOutput \in [Requests -> Nat \ {0}]
  /\ InFlight \in Nat /\ ImageInFlight \in Nat /\ PerIpInFlight \in Nat
  /\ MaxFaults \in Nat /\ MaxRestarts \in Nat
  /\ None \notin Int /\ None \notin [reserved : Int, bound : Int]

VARIABLES
  phase,     \* how far each request's handler has come
  conn,      \* whether each request's connection is open
  early,     \* requests admitted when their client had already gone
  held,      \* requests whose slot has not been released
  total, images, perIp, \* the counters of the AdmissionController
  charges,   \* reservations by request: what was reserved, what may be used
  observed,  \* the usage the provider has reported for each request
  delivered, \* the estimate of the output each client has received
  complete,  \* requests whose answer was delivered whole
  member,    \* ledger: the accounts with a paid subscription
  spent,     \* ledger: the column spent of each account
  row,       \* ledger: the usage row of each request
  lease,     \* ledger: the lease row of each request
  expired,   \* ledger: leases past their fifteen minutes
  free,      \* history: requests reserved under the free allowance
  faults, restarts

slots == <<held, total, images, perIp>>
work == <<observed, delivered, complete>>
ledger == <<member, spent, row, lease, expired, free>>
vars == <<phase, conn, early, slots, charges, work, ledger, faults, restarts>>

Of(u) == {r \in Requests : UserOf[r] = u}
Pending(u) == SumFunctionOnSet(lease, {r \in Of(u) : lease[r] # None /\ r \notin expired})
Lesser(m, n) == IF m < n THEN m ELSE n
Greater(m, n) == IF m > n THEN m ELSE n
Goto(r, p) == phase' = [phase EXCEPT ![r] = p]

----------------------------------------------------------------------------
(* Slots *)

\* Seeded bug: a slot is given back as often as release is called.
MutantRelease(r) ==
  /\ held' = held \ {r}
  /\ total' = total - 1
  /\ images' = IF r \in Image THEN images - 1 ELSE images
  /\ perIp' = [perIp EXCEPT ![IpOf[r]] = Greater(0, @ - 1)]

\* AdmissionLease.release: the first call counts.
Release(r) ==
  IF r \in held
  THEN /\ held' = held \ {r}
       /\ total' = total - 1
       /\ images' = IF r \in Image THEN images - 1 ELSE images
       /\ perIp' = [perIp EXCEPT ![IpOf[r]] = Greater(0, @ - 1)]
  ELSE UNCHANGED slots

\* A request is authenticated, which takes time.
Arrive(r) ==
  /\ phase[r] = "new" /\ Goto(r, "arrived")
  /\ conn' = [conn EXCEPT ![r] = "open"]
  /\ UNCHANGED <<early, slots, charges, work, ledger, faults, restarts>>

\* AdmissionController.acquire, and the hook for the end of the connection.
Admit(r) ==
  /\ phase[r] = "arrived"
  /\ perIp[IpOf[r]] < PerIpInFlight /\ total < InFlight /\ (r \in Image => images < ImageInFlight)
  /\ Goto(r, "admitted")
  /\ held' = held \cup {r}
  /\ total' = total + 1
  /\ images' = IF r \in Image THEN images + 1 ELSE images
  /\ perIp' = [perIp EXCEPT ![IpOf[r]] = @ + 1]
  /\ early' = IF conn[r] = "closed" THEN early \cup {r} ELSE early
  /\ UNCHANGED <<conn, charges, work, ledger, faults, restarts>>

\* It is not authenticated or not admitted: no slot is free, or its client has
\* made too many requests in the last minute.
TurnAway(r) ==
  /\ phase[r] = "arrived" /\ Goto(r, "over")
  /\ UNCHANGED <<conn, early, slots, charges, work, ledger, faults, restarts>>

\* The client goes away; a slot taken before is given back at once.
Close(r) ==
  /\ conn[r] = "open" /\ phase[r] # "new"
  /\ conn' = [conn EXCEPT ![r] = "closed"]
  /\ Release(r)
  /\ UNCHANGED <<phase, early, charges, work, ledger, faults, restarts>>

\* A reply that is no stream: onResponse gives the slot back once it is sent,
\* and nothing says that it runs for a connection that is already closed.
Reply(r) ==
  /\ Goto(r, "over")
  /\ \/ Release(r)
     \/ conn[r] = "closed" /\ UNCHANGED slots

----------------------------------------------------------------------------
(* The ledger *)

\* Seeded bug: what others have reserved is not counted.
MutantAvailable(u) == Free - spent[u]

\* What is left of a free account.
Available(u) == Free - spent[u] - Pending(u)

MaxOutput(r) == IF UserOf[r] \in member THEN OutputLimit
                ELSE Lesser(OutputLimit, Available(UserOf[r]) - InputBound[r])

\* The request is malformed, late or beyond the account's credits.
Decline(r) ==
  /\ phase[r] = "admitted" /\ Reply(r)
  /\ UNCHANGED <<conn, early, charges, work, ledger, faults, restarts>>

\* AccountStore.reserve: a member reserves nothing.
Reserve(r) ==
  /\ phase[r] = "admitted" /\ MaxOutput(r) >= MinOutput[r]
  /\ LET bound == InputBound[r] + MaxOutput(r)
         reserved == IF UserOf[r] \in member THEN 0 ELSE bound
     IN /\ charges' = [charges EXCEPT ![r] = [reserved |-> reserved, bound |-> bound]]
        /\ lease' = [lease EXCEPT ![r] = reserved]
  /\ free' = IF UserOf[r] \in member THEN free ELSE free \cup {r}
  /\ Goto(r, "reserved")
  /\ UNCHANGED <<conn, early, slots, work, member, spent, row, expired, faults, restarts>>

\* Seeded bug: a request that was not answered whole pays all it reserved.
MutantCharge(r, completed) ==
  IF observed[r] # None THEN observed[r] ELSE charges[r].reserved

\* settle's charge: the usage the provider reported, even zero; without one the
\* reservation for a whole answer, and what was delivered of any other.
Charge(r, completed) ==
  IF observed[r] # None THEN observed[r]
  ELSE IF completed THEN charges[r].reserved
  ELSE Lesser(charges[r].reserved, delivered[r])

\* Seeded bug: row and account are written by two transactions.
MutantCommit(r, charged) ==
  /\ row' = [row EXCEPT ![r] = IF @ = None THEN charged ELSE @]
  /\ \/ spent' = [spent EXCEPT ![UserOf[r]] = IF row[r] = None THEN @ + charged ELSE @]
     \/ faults < MaxFaults /\ UNCHANGED spent
  /\ lease' = [lease EXCEPT ![r] = None]

\* AccountStore.settle: one transaction writes the usage row, unless there is
\* one, adds it to what the account has spent, and deletes the lease.
Commit(r, charged) ==
  /\ row' = [row EXCEPT ![r] = IF @ = None THEN charged ELSE @]
  /\ spent' = [spent EXCEPT ![UserOf[r]] = IF row[r] = None THEN @ + charged ELSE @]
  /\ lease' = [lease EXCEPT ![r] = None]

\* server.ts settle: the reservation is forgotten once it is settled.
Settle(r, completed) ==
  /\ IF charges[r] = None THEN UNCHANGED <<charges, row, spent, lease>>
     ELSE /\ Commit(r, Charge(r, completed))
          /\ charges' = [charges EXCEPT ![r] = None]
  /\ UNCHANGED <<member, expired, free, faults>>

\* The transaction fails, and is rolled back.
SettleFails(r) ==
  /\ charges[r] # None /\ faults < MaxFaults
  /\ faults' = faults + 1
  /\ UNCHANGED <<charges, ledger>>

----------------------------------------------------------------------------
(* The handlers *)

\* Seeded bug: the reservation of a late agent request is left alone.
MutantLate(r) ==
  /\ phase[r] = "reserved" /\ r \in Agent
  /\ Reply(r)
  /\ UNCHANGED <<conn, early, charges, ledger, faults, work, restarts>>

\* handleAgent: its deadline has passed while it was prepared.
Late(r) ==
  /\ phase[r] = "reserved" /\ r \in Agent
  /\ Reply(r)
  /\ Settle(r, FALSE) \/ SettleFails(r)
  /\ UNCHANGED <<conn, early, work, restarts>>

\* The provider is asked.
Forward(r) ==
  /\ phase[r] = "reserved" /\ Goto(r, "streaming")
  /\ UNCHANGED <<conn, early, slots, charges, work, ledger, faults, restarts>>

\* The provider reports usage, within the limits it was given, as it goes on.
Report(r) ==
  /\ phase[r] = "streaming"
  /\ \E tokens \in 0..charges[r].bound :
       /\ observed[r] # None => observed[r] <= tokens
       /\ observed' = [observed EXCEPT ![r] = tokens]
  /\ UNCHANGED <<phase, conn, early, slots, charges, delivered, complete, ledger, faults, restarts>>

\* A part of the answer is written to an open SSE stream.
Deliver(r) ==
  /\ phase[r] = "streaming" /\ r \notin Agent /\ conn[r] = "open"
  /\ delivered[r] < OutputLimit
  /\ delivered' = [delivered EXCEPT ![r] = @ + 1]
  /\ UNCHANGED <<phase, conn, early, slots, charges, observed, complete, ledger, faults, restarts>>

\* The answer is whole.  An SSE request settles before it says so, which needs
\* its connection; an agent's settles when forward has returned.
Complete(r) ==
  /\ phase[r] = "streaming"
  /\ Goto(r, "ending")
  /\ complete' = complete \cup {r}
  /\ \/ r \in Agent /\ UNCHANGED <<charges, ledger, faults>>
     \/ r \notin Agent /\ conn[r] = "open" /\ (Settle(r, TRUE) \/ SettleFails(r))
  /\ UNCHANGED <<conn, early, slots, observed, delivered, restarts>>

\* The provider fails, the deadline passes or the client has gone.
Break(r) ==
  /\ phase[r] = "streaming" /\ Goto(r, "ending")
  /\ UNCHANGED <<conn, early, slots, charges, work, ledger, faults, restarts>>

\* The handler's finally settles what is not settled yet; if that throws, the
\* rest of it is not reached.
Conclude(r) ==
  /\ phase[r] = "ending"
  /\ \/ Settle(r, r \in Agent /\ r \in complete) /\ Goto(r, "flushing")
     \/ SettleFails(r) /\ Goto(r, "over")
  /\ UNCHANGED <<conn, early, slots, work, restarts>>

\* Seeded bug: the slot is left to the end of the connection.
MutantFlush(r) ==
  /\ phase[r] = "flushing" /\ Goto(r, "over")
  /\ UNCHANGED <<conn, early, slots, charges, work, ledger, faults, restarts>>

\* The stream is finished or destroyed, and the slot given back.
Flush(r) ==
  /\ phase[r] = "flushing" /\ Goto(r, "over")
  /\ Release(r)
  /\ UNCHANGED <<conn, early, charges, work, ledger, faults, restarts>>

----------------------------------------------------------------------------
(* The rest of the world *)

\* A subscription begins or ends: setSubscription, or its paid time is over.
Subscribe(u) ==
  /\ member' = IF u \in member THEN member \ {u} ELSE member \cup {u}
  /\ UNCHANGED <<phase, conn, early, slots, charges, work, spent, row, lease, expired, free,
                 faults, restarts>>

\* Fifteen minutes are over.  A handler ends within its deadline of three, so a
\* lease that expires is one its request has left behind.
Expire(r) ==
  /\ lease[r] # None /\ r \notin expired /\ phase[r] = "over"
  /\ expired' = expired \cup {r}
  /\ UNCHANGED <<phase, conn, early, slots, charges, work, member, spent, row, lease, free,
                 faults, restarts>>

\* The process dies and is started again: only the ledger is left.
Restart ==
  /\ restarts < MaxRestarts /\ restarts' = restarts + 1
  /\ phase' = [r \in Requests |-> IF phase[r] = "new" THEN "new" ELSE "over"]
  /\ conn' = [r \in Requests |-> "closed"]
  /\ held' = {} /\ total' = 0 /\ images' = 0 /\ perIp' = [i \in Ips |-> 0]
  /\ charges' = [r \in Requests |-> None]
  /\ UNCHANGED <<early, work, ledger, faults>>

Init ==
  /\ phase = [r \in Requests |-> "new"] /\ conn = [r \in Requests |-> "closed"]
  /\ early = {} /\ held = {} /\ total = 0 /\ images = 0 /\ perIp = [i \in Ips |-> 0]
  /\ charges = [r \in Requests |-> None] /\ observed = [r \in Requests |-> None]
  /\ delivered = [r \in Requests |-> 0] /\ complete = {}
  /\ member = {} /\ spent = [u \in Users |-> 0]
  /\ row = [r \in Requests |-> None] /\ lease = [r \in Requests |-> None]
  /\ expired = {} /\ free = {} /\ faults = 0 /\ restarts = 0

Handle(r) ==
  \/ Admit(r) \/ TurnAway(r) \/ Decline(r) \/ Reserve(r)
  \/ Late(r) \/ Forward(r) \/ Complete(r) \/ Break(r) \/ Conclude(r) \/ Flush(r)

Next ==
  \/ \E r \in Requests : Arrive(r) \/ Close(r) \/ Handle(r) \/ Report(r) \/ Deliver(r) \/ Expire(r)
  \/ \E u \in Users : Subscribe(u)
  \/ Restart

Spec == Init /\ [][Next]_vars

\* Fairness: a handler goes on, and its deadline ends it.  Nothing makes a
\* client go away or come, the provider report or a lease expire.
FairSpec == Spec /\ \A r \in Requests : WF_vars(Handle(r))

----------------------------------------------------------------------------
(* Properties *)

\* The counters agree with the slots that are held and keep their limits: a
\* slot is given back once, though close, onResponse and finally all do it.
SlotsCounted ==
  /\ total = Cardinality(held) /\ total <= InFlight
  /\ images = Cardinality(held \cap Image) /\ images <= ImageInFlight
  /\ \A i \in Ips : /\ perIp[i] = Cardinality({r \in held : IpOf[r] = i})
                    /\ perIp[i] <= PerIpInFlight

\* Every variable has its type, and the counters count.
TypeOK ==
  /\ phase \in [Requests -> {"new", "arrived", "admitted", "reserved", "streaming", "ending",
                             "flushing", "over"}]
  /\ conn \in [Requests -> {"open", "closed"}]
  /\ early \subseteq Requests /\ held \subseteq Requests /\ complete \subseteq Requests
  /\ perIp \in [Ips -> Nat] /\ SlotsCounted
  /\ charges \in [Requests -> [reserved : Nat, bound : Nat] \cup {None}]
  /\ observed \in [Requests -> Nat \cup {None}] /\ delivered \in [Requests -> Nat]
  /\ member \subseteq Users /\ spent \in [Users -> Nat]
  /\ row \in [Requests -> Nat \cup {None}] /\ lease \in [Requests -> Nat \cup {None}]
  /\ expired \subseteq Requests /\ free \subseteq Requests
  /\ faults \in 0..MaxFaults /\ restarts \in 0..MaxRestarts

\* Each account's spent is the sum of its usage rows, whatever fails: nothing
\* is charged twice, or charged and not recorded.
LedgerBalances ==
  \A u \in Users : spent[u] = SumFunctionOnSet(row, {r \in Of(u) : row[r] # None})

\* What an account used or may still use under the free allowance never exceeds
\* it, for concurrent requests too, and whenever its membership begins or ends.
FreeWithinAllowance ==
  \A u \in Users :
    SumFunctionOnSet(row, {r \in Of(u) \cap free : row[r] # None})
      + SumFunctionOnSet(lease, {r \in Of(u) \cap free : lease[r] # None /\ r \notin expired})
      <= Free

\* A request of which no usage is known and that was not answered whole pays at
\* most what was delivered, "never the full reservation" (account-store.ts:67).
PartialPaysDelivered ==
  \A r \in Requests : row[r] # None /\ observed[r] = None /\ r \notin complete => row[r] <= delivered[r]

\* A reservation outlives its request only if its settlement failed or the
\* process died (accounts.test.ts:102).
NoLeaseLeftBehind ==
  \A r \in Requests : lease[r] # None /\ phase[r] = "over" => faults > 0 \/ restarts > 0

\* A slot taken while the client was there is given back, unless the ledger fails.
SlotsReturn == \A r \in Requests : r \in held \ early ~> r \notin held \/ faults > 0
=============================================================================
