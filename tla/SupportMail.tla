------------------------------ MODULE SupportMail ------------------------------
(***************************************************************************)
(* The notifications of a support ticket: what the gateway stores of each  *)
(* message (apps/gateway/src/support/store.ts), the handlers that persist  *)
(* a message and start to send its notifications without waiting for them  *)
(* (routes.ts, engine.ts supportAction), and the sender, which takes the   *)
(* team's and then the customer's notification of a message                *)
(* (engine.ts sendSupportMail).                                            *)
(*                                                                         *)
(* Clients repeat requests whose answer they did not get, the mail server  *)
(* may accept a mail and its answer be lost, and the gateway may die and   *)
(* start again between any two steps: the senders are gone then, the rows  *)
(* stay.  A step of the store is atomic (SQLite, one process).             *)
(***************************************************************************)
EXTENDS Naturals, FiniteSets

CONSTANTS
  Opening,        \* the message that creates the ticket
  Additions,      \* further messages of the customer
  Answers,        \* replies of the staff
  Senders,        \* names for the calls of sendSupportMail under way at a time
  MaxRetries,     \* bound: how often an administrator resends
  MaxCrashes      \* bound: how often the gateway dies

ASSUME SupportAssumption ==
  /\ Opening \notin Additions \cup Answers
  /\ Additions \cap Answers = {}
  /\ MaxRetries \in Nat
  /\ MaxCrashes \in Nat

VARIABLES
  mail,           \* team_mail and customer_mail of each message; "none": no row
  status,         \* status of the ticket; "none": no row
  sender,         \* where each sender is
  accepted,       \* how often the mail server accepted each notification
  unanswered,     \* how often it did so and nobody learnt of it
  retries,        \* resends so far
  crashes         \* restarts so far

vars == << mail, status, sender, accepted, unanswered, retries, crashes >>

Messages == {Opening} \cup Additions \cup Answers
Targets  == {"team", "customer"}

Resting == [at |-> "no", message |-> Opening, target |-> "team", retry |-> FALSE]

Init ==
  /\ mail = [m \in Messages |-> [t \in Targets |-> "none"]]
  /\ status = "none"
  /\ sender = [s \in Senders |-> Resting]
  /\ accepted = [m \in Messages |-> [t \in Targets |-> 0]]
  /\ unanswered = accepted
  /\ retries = 0
  /\ crashes = 0

\* Seeded bug: the columns of a further message are left to an unset default.
MutantWanted(m) == [t \in Targets |-> IF m = Opening \/ (t = "team") = (m \in Additions)
                                        THEN "pending" ELSE "unset"]

\* What a new message is to cause: the creation notifies both sides, a further
\* message of the customer the team, and a reply the customer.
Wanted(m) ==
  IF m = Opening THEN [t \in Targets |-> "pending"]
  ELSE [t \in Targets |-> IF (t = "team") = (m \in Additions) THEN "pending" ELSE "skip"]

StatusAfter(m) == IF m \in Answers THEN "active" ELSE "open"

\* sendSupportMail is started and not waited for.
Notify(m, retry) ==
  \E s \in Senders :
    /\ sender[s] = Resting
    /\ sender' = [sender EXCEPT ![s] = [at |-> "claim", message |-> m,
                                        target |-> "team", retry |-> retry]]

\* create, message and admin.reply.  A message that is there already, because the
\* request is repeated, is left alone with its notifications and the status of the
\* ticket; its notifications are tried all the same.
Post(m) ==
  /\ m = Opening \/ status # "none"
  /\ \/ /\ mail[m]["team"] = "none"
        /\ mail' = [mail EXCEPT ![m] = Wanted(m)]
        /\ status' = StatusAfter(m)
     \/ /\ mail[m]["team"] # "none"
        /\ UNCHANGED << mail, status >>
  /\ Notify(m, FALSE)
  /\ UNCHANGED << accepted, unanswered, retries, crashes >>

\* admin.status.
SetStatus(new) ==
  /\ status # "none"
  /\ status' = new
  /\ UNCHANGED << mail, sender, accepted, unanswered, retries, crashes >>

\* admin.retry, of a message that is there.
Retry(m) ==
  /\ retries < MaxRetries
  /\ mail[m]["team"] # "none"
  /\ retries' = retries + 1
  /\ Notify(m, TRUE)
  /\ UNCHANGED << mail, status, accepted, unanswered, crashes >>

\* Seeded bug: the sender stops after the team's notification.
MutantAdvance(s) == sender' = [sender EXCEPT ![s] = Resting]

\* The sender goes on to the customer's notification, or is done.
Advance(s) ==
  sender' = [sender EXCEPT ![s] = IF @.target = "team"
                                    THEN [@ EXCEPT !.target = "customer", !.at = "claim"]
                                    ELSE Resting]

\* Seeded bug: a retry takes whatever was not sent, also what is being sent.
MutantClaimable(row, retry) == row = "pending" \/ (retry /\ row \in {"failed", "sending"})

\* claimMail's condition.
Claimable(row, retry) == row = "pending" \/ (retry /\ row = "failed")

\* claimMail, and the mail goes out.
Claim(s) ==
  LET c == sender[s]
  IN  /\ c.at = "claim"
      /\ \/ /\ Claimable(mail[c.message][c.target], c.retry)
            /\ mail' = [mail EXCEPT ![c.message][c.target] = "sending"]
            /\ sender' = [sender EXCEPT ![s].at = "sending"]
         \/ /\ ~Claimable(mail[c.message][c.target], c.retry)
            /\ Advance(s)
            /\ UNCHANGED mail
      /\ UNCHANGED << status, accepted, unanswered, retries, crashes >>

\* The mail server accepts the mail and says so, or accepts it and the answer is
\* lost, or it does not accept it (or mail is not configured).
Transmit(s) ==
  LET c == sender[s]
      once(count) == [count EXCEPT ![c.message][c.target] = @ + 1]
  IN  /\ c.at = "sending"
      /\ \/ /\ accepted' = once(accepted)
            /\ sender' = [sender EXCEPT ![s].at = "accepted"]
            /\ UNCHANGED unanswered
         \/ /\ accepted' = once(accepted)
            /\ unanswered' = once(unanswered)
            /\ sender' = [sender EXCEPT ![s].at = "refused"]
         \/ /\ sender' = [sender EXCEPT ![s].at = "refused"]
            /\ UNCHANGED << accepted, unanswered >>
      /\ UNCHANGED << mail, status, retries, crashes >>

\* Seeded bug: only a success is recorded.
MutantMarked(row, sent) == IF row = "sending" /\ sent THEN "sent" ELSE row

\* Seeded bug: the outcome is not looked at.
MutantMarkedSent(row, sent) == IF row = "sending" THEN "sent" ELSE row

\* What markMail makes of a row.
Marked(row, sent) == IF row = "sending" THEN (IF sent THEN "sent" ELSE "failed") ELSE row

\* markMail, and the next notification.
Mark(s) ==
  LET c == sender[s]
  IN  /\ c.at \in {"accepted", "refused"}
      /\ mail' = [mail EXCEPT ![c.message][c.target] = Marked(@, c.at = "accepted")]
      /\ Advance(s)
      /\ UNCHANGED << status, accepted, unanswered, retries, crashes >>

\* The gateway dies and starts again: nothing resumes what was being sent.  A mail
\* that was accepted is not known to have been.
Crash ==
  /\ crashes < MaxCrashes
  /\ crashes' = crashes + 1
  /\ sender' = [s \in Senders |-> Resting]
  /\ unanswered' = [m \in Messages |-> [t \in Targets |->
       unanswered[m][t] + Cardinality({s \in Senders :
         /\ sender[s].at = "accepted"
         /\ sender[s].message = m /\ sender[s].target = t})]]
  /\ UNCHANGED << mail, status, accepted, retries >>

Next ==
  \/ \E m \in Messages : Post(m) \/ Retry(m)
  \/ \E new \in {"open", "active", "resolved"} : SetStatus(new)
  \/ \E s \in Senders : Claim(s) \/ Transmit(s) \/ Mark(s)
  \/ Crash

Spec == Init /\ [][Next]_vars

\* A sender under way goes on; the mail server or a timeout answers.
Fairness == \A s \in Senders : WF_vars(Claim(s) \/ Transmit(s) \/ Mark(s))

FairSpec == Spec /\ Fairness

--------------------------------------------------------------------------------
(* Properties.                                                                  *)

\* The type invariant.
TypeOK ==
  /\ mail \in [Messages -> [Targets -> {"none", "pending", "skip", "sending", "sent", "failed"}]]
  /\ status \in {"none", "open", "active", "resolved"}
  /\ sender \in [Senders -> [at: {"no", "claim", "sending", "accepted", "refused"},
                             message: Messages, target: Targets, retry: BOOLEAN]]
  /\ accepted \in [Messages -> [Targets -> Nat]]
  /\ unanswered \in [Messages -> [Targets -> Nat]]
  /\ retries \in 0 .. MaxRetries
  /\ crashes \in 0 .. MaxCrashes

\* The senders that hold a notification: claimed and not yet marked.
Holders(m, t) == {s \in Senders : /\ sender[s].at \in {"sending", "accepted", "refused"}
                                  /\ sender[s].message = m /\ sender[s].target = t}

\* However requests are repeated and resends overlap, a notification is in the hands of
\* at most one sender, and its row says so (the UPDATE of claimMail is the lock,
\* store.ts:75).
OneSender ==
  \A m \in Messages, t \in Targets :
    /\ \A s, u \in Holders(m, t) : s = u
    /\ Holders(m, t) # {} => mail[m][t] = "sending"

\* A notification is accepted by the mail server a second time only if the gateway never
\* learnt of the first: "without ... resending an already accepted notification"
\* (docs/customer-support.md).  And what is recorded as sent was accepted.
AcceptedOnce ==
  \A m \in Messages, t \in Targets :
    /\ accepted[m][t] <= unanswered[m][t] + 1
    /\ mail[m][t] = "sent" => accepted[m][t] > 0

\* A claimed notification that nobody is sending any more was left by a crash: it stays
\* 'sending', and neither a repeated request nor a resend can take it.  Without a crash
\* every failure leaves a row that can be resent (the catch of engine.ts:108).
StuckOnlyByCrash ==
  crashes = 0 => \A m \in Messages, t \in Targets :
                   mail[m][t] = "sending" => Holders(m, t) # {}

\* As long as the gateway lives, what was persisted is tried: a pending notification does
\* not stay pending.
PendingIsTried ==
  \A m \in Messages, t \in Targets :
    (mail[m][t] = "pending" /\ crashes = 0) ~> (mail[m][t] \in {"sent", "failed"} \/ crashes > 0)

================================================================================
