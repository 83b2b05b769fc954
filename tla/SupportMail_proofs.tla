-------------------------- MODULE SupportMail_proofs --------------------------
(***************************************************************************)
(* Proofs about SupportMail, for any messages and any number of senders,   *)
(* resends and crashes.                                                    *)
(*                                                                         *)
(* The row of a notification is the lock of the one sender that holds it,  *)
(* and the mails that were accepted are the ones nobody learnt of and at   *)
(* most one more: the one recorded as sent, or the one its sender has yet  *)
(* to record.                                                              *)
(***************************************************************************)
EXTENDS SupportMail, FiniteSetTheorems, TLAPS

Rows == {"none", "pending", "skip", "sending", "sent", "failed"}

SenderStates == [at: {"no", "claim", "sending", "accepted", "refused"},
                 message: Messages, target: Targets, retry: BOOLEAN]

\* Sender s has claimed the notification and not yet recorded what became of it.
Holds(s, m, t) ==
  /\ sender[s].at \in {"sending", "accepted", "refused"}
  /\ sender[s].message = m
  /\ sender[s].target = t

\* Its mail was accepted, and the sender knows.
Knows(s, m, t) == Holds(s, m, t) /\ sender[s].at = "accepted"

\* One holder at a time, and the row says that there is one; without a crash the row
\* says so only then.
LockInv ==
  /\ \A m \in Messages, t \in Targets, s, u \in Senders : Holds(s, m, t) /\ Holds(u, m, t) => s = u
  /\ \A m \in Messages, t \in Targets, s \in Senders : Holds(s, m, t) => mail[m][t] = "sending"
  /\ crashes = 0 => \A m \in Messages, t \in Targets :
                      mail[m][t] = "sending" => \E s \in Senders : Holds(s, m, t)

\* A message has the rows of both its notifications or none.
RowInv == \A m \in Messages, t \in Targets : mail[m]["team"] = "none" => mail[m][t] = "none"

\* One accepted mail is known of, or none.
CountInv ==
  \A m \in Messages, t \in Targets :
    /\ mail[m][t] = "sent" \/ (\E s \in Senders : Knows(s, m, t))
         => accepted[m][t] = unanswered[m][t] + 1
    /\ mail[m][t] # "sent" /\ (\A s \in Senders : ~Knows(s, m, t))
         => accepted[m][t] = unanswered[m][t]

MailInv == TypeOK /\ RowInv /\ LockInv /\ CountInv

--------------------------------------------------------------------------------
\* The database starts empty, with no sender.
LEMMA InitMail == Init => MailInv
<1> SUFFICES ASSUME Init PROVE MailInv
    OBVIOUS
<1>1. Resting \in SenderStates
  BY DEF Resting, SenderStates, Messages, Targets
<1>2. TypeOK
  BY <1>1, SupportAssumption DEF Init, TypeOK, SenderStates
<1>3. \A s \in Senders : sender[s].at = "no"
  BY DEF Init, Resting
<1>4. LockInv
  BY <1>3 DEF Init, LockInv, Holds
<1>5. CountInv
  BY <1>3 DEF Init, CountInv, Knows
<1>6. RowInv
  BY DEF Init, RowInv, Targets
<1>7. QED BY <1>2, <1>4, <1>5, <1>6 DEF MailInv

\* A sender that starts holds nothing yet.
LEMMA NotifyStarts ==
  ASSUME TypeOK, NEW m \in Messages, NEW retry \in BOOLEAN, Notify(m, retry)
  PROVE  /\ sender' \in [Senders -> SenderStates]
         /\ \A s \in Senders : \/ sender'[s] = sender[s]
                               \/ sender[s].at = "no" /\ sender'[s].at = "claim"
<1>1. PICK s \in Senders :
        /\ sender[s] = Resting
        /\ sender' = [sender EXCEPT ![s] = [at |-> "claim", message |-> m,
                                            target |-> "team", retry |-> retry]]
  BY DEF Notify
<1>2. [at |-> "claim", message |-> m, target |-> "team", retry |-> retry] \in SenderStates
  BY DEF SenderStates, Targets
<1>3. sender \in [Senders -> SenderStates]
  BY DEF TypeOK, SenderStates
<1>4. sender[s].at = "no"
  BY <1>1 DEF Resting
<1>5. QED BY <1>1, <1>2, <1>3, <1>4

\* A sender that goes on holds nothing.
LEMMA AdvanceReleases ==
  ASSUME TypeOK, NEW s \in Senders, Advance(s)
  PROVE  /\ sender' \in [Senders -> SenderStates]
         /\ \A u \in Senders : u # s => sender'[u] = sender[u]
         /\ sender'[s].at \in {"claim", "no"}
<1>1. Resting \in SenderStates /\ Resting.at = "no"
  BY DEF Resting, SenderStates, Messages, Targets
<1>2. sender \in [Senders -> SenderStates]
  BY DEF TypeOK, SenderStates
<1>3. PICK c : c = [sender[s] EXCEPT !.target = "customer", !.at = "claim"]
  OBVIOUS
<1>4. c \in SenderStates /\ c.at = "claim"
  BY <1>2, <1>3 DEF SenderStates, Targets
<1>5. sender' = [sender EXCEPT ![s] = c] \/ sender' = [sender EXCEPT ![s] = Resting]
  BY <1>3 DEF Advance
<1>6. QED BY <1>1, <1>2, <1>4, <1>5

\* Senders that start, and rows that are not being sent, do not disturb the invariant.
LEMMA PostKeeps ==
  ASSUME MailInv, NEW m \in Messages, Post(m) \/ Retry(m)
  PROVE  MailInv'
<1> USE DEF MailInv
<1>1. /\ sender' \in [Senders -> SenderStates]
      /\ \A s \in Senders : \/ sender'[s] = sender[s]
                            \/ sender[s].at = "no" /\ sender'[s].at = "claim"
  BY NotifyStarts DEF Post, Retry
<1>2. UNCHANGED << accepted, unanswered, crashes >>
  BY DEF Post, Retry
<1>3. /\ mail' \in [Messages -> [Targets -> Rows]]
      /\ \A n \in Messages, t \in Targets :
           \/ mail'[n][t] = mail[n][t]
           \/ mail'[n][t] \in {"pending", "skip"} /\ mail[n][t] = "none"
      /\ RowInv'
  <2>1. Wanted(m) \in [Targets -> Rows] /\ \A t \in Targets : Wanted(m)[t] \in {"pending", "skip"}
    BY DEF Wanted, Rows
  <2>2. CASE mail' = mail
    BY <2>2 DEF TypeOK, Rows, RowInv
  <2>3. CASE mail[m]["team"] = "none" /\ mail' = [mail EXCEPT ![m] = Wanted(m)]
    <3>1. mail' \in [Messages -> [Targets -> Rows]]
      BY <2>1, <2>3 DEF TypeOK, Rows
    <3>2. \A n \in Messages : n # m => mail'[n] = mail[n]
      BY <2>3 DEF TypeOK
    <3>3. mail'[m] = Wanted(m) /\ \A t \in Targets : mail[m][t] = "none"
      BY <2>3 DEF TypeOK, RowInv
    <3>4. "team" \in Targets
      BY DEF Targets
    <3>5. RowInv'
      BY <2>1, <3>2, <3>3, <3>4 DEF RowInv
    <3>6. QED BY <2>1, <3>1, <3>2, <3>3, <3>5
  <2>4. QED BY <2>2, <2>3 DEF Post, Retry
<1>4. TypeOK'
  <2>1. status' \in {"none", "open", "active", "resolved"} /\ retries' \in 0 .. MaxRetries
    <3>1. CASE Post(m)
      BY <3>1 DEF Post, StatusAfter, TypeOK
    <3>2. CASE Retry(m)
      BY <3>2, SupportAssumption DEF Retry, TypeOK
    <3>3. QED BY <3>1, <3>2
  <2>2. QED BY <1>1, <1>2, <1>3, <2>1 DEF TypeOK, Rows, SenderStates
<1>5. \A s \in Senders, n \in Messages, t \in Targets :
        Holds(s, n, t)' = Holds(s, n, t) /\ Knows(s, n, t)' = Knows(s, n, t)
  BY <1>1 DEF Holds, Knows
<1>6. LockInv'
  BY <1>2, <1>3, <1>5 DEF LockInv
<1>7. CountInv'
  BY <1>2, <1>3, <1>5 DEF CountInv
<1>8. QED BY <1>3, <1>4, <1>6, <1>7

\* A notification is claimed only when nobody holds it.
LEMMA ClaimKeeps ==
  ASSUME MailInv, NEW s \in Senders, Claim(s)
  PROVE  MailInv'
<1> USE DEF MailInv
<1> DEFINE m == sender[s].message
           t == sender[s].target
<1>1. /\ sender \in [Senders -> SenderStates] /\ mail \in [Messages -> [Targets -> Rows]]
      /\ m \in Messages /\ t \in Targets
  BY DEF TypeOK, SenderStates, Rows
<1>2. UNCHANGED << status, accepted, unanswered, retries, crashes >> /\ sender[s].at = "claim"
  BY DEF Claim
<1>3. CASE /\ Claimable(mail[m][t], sender[s].retry)
           /\ mail' = [mail EXCEPT ![m][t] = "sending"]
           /\ sender' = [sender EXCEPT ![s].at = "sending"]
  <2> HIDE DEF m, t
  <2>1. /\ sender' \in [Senders -> SenderStates]
        /\ \A u \in Senders : u # s => sender'[u] = sender[u]
        /\ sender'[s].at = "sending"
        /\ sender'[s].message = sender[s].message
        /\ sender'[s].target = sender[s].target
    BY <1>1, <1>3 DEF SenderStates
  <2>2. mail[m][t] \in {"pending", "failed"}
    BY <1>3 DEF Claimable
  <2>3. /\ mail' \in [Messages -> [Targets -> Rows]]
        /\ mail'[m][t] = "sending"
        /\ \A n \in Messages, x \in Targets : n # m \/ x # t => mail'[n][x] = mail[n][x]
    BY <1>1, <1>3 DEF Rows
  <2>4. TypeOK'
    BY <1>2, <2>1, <2>3 DEF TypeOK, Rows, SenderStates
  <2>5. RowInv'
    BY <1>1, <2>2, <2>3 DEF RowInv, Targets
  <2>6. \A u \in Senders, n \in Messages, x \in Targets :
          /\ Holds(u, n, x)' <=> (Holds(u, n, x) \/ (u = s /\ n = m /\ x = t))
          /\ Knows(u, n, x)' <=> Knows(u, n, x)
    BY <1>1, <1>2, <2>1 DEF Holds, Knows, m, t
  <2>7. \A u \in Senders : ~Holds(u, m, t)
    BY <1>1, <2>2 DEF LockInv
  <2>8. LockInv'
    BY <1>1, <1>2, <2>3, <2>6, <2>7 DEF LockInv
  <2>9. CountInv'
    BY <1>1, <1>2, <2>2, <2>3, <2>6 DEF CountInv
  <2>10. QED BY <2>4, <2>5, <2>8, <2>9
<1>4. CASE Advance(s) /\ UNCHANGED mail
  <2>1. /\ sender' \in [Senders -> SenderStates]
        /\ \A u \in Senders : u # s => sender'[u] = sender[u]
        /\ sender'[s].at \in {"claim", "no"}
    BY <1>4, AdvanceReleases
  <2>2. \A u \in Senders, n \in Messages, x \in Targets :
          Holds(u, n, x)' = Holds(u, n, x) /\ Knows(u, n, x)' = Knows(u, n, x)
    BY <1>2, <2>1 DEF Holds, Knows
  <2>3. TypeOK'
    BY <1>2, <1>4, <2>1 DEF TypeOK, SenderStates
  <2>4. RowInv' /\ LockInv' /\ CountInv'
    BY <1>2, <1>4, <2>2 DEF RowInv, LockInv, CountInv
  <2>5. QED BY <2>3, <2>4
<1>5. QED BY <1>3, <1>4 DEF Claim

\* The mail server's answer: a mail that was accepted is counted for its holder, or as
\* one nobody learnt of.
LEMMA TransmitKeeps ==
  ASSUME MailInv, NEW s \in Senders, Transmit(s)
  PROVE  MailInv'
<1> USE DEF MailInv
<1>1. /\ sender \in [Senders -> SenderStates]
      /\ accepted \in [Messages -> [Targets -> Nat]] /\ unanswered \in [Messages -> [Targets -> Nat]]
  BY DEF TypeOK, SenderStates
<1>2. PICK m \in Messages, t \in Targets : m = sender[s].message /\ t = sender[s].target
  BY <1>1 DEF SenderStates
<1>3. UNCHANGED << mail, status, retries, crashes >> /\ sender[s].at = "sending"
  BY DEF Transmit
<1>4. PICK at \in {"accepted", "refused"} :
        /\ sender' = [sender EXCEPT ![s].at = at]
        /\ \/ /\ accepted' = [accepted EXCEPT ![m][t] = @ + 1]
              /\ at = "accepted" /\ UNCHANGED unanswered
           \/ /\ accepted' = [accepted EXCEPT ![m][t] = @ + 1]
              /\ unanswered' = [unanswered EXCEPT ![m][t] = @ + 1]
              /\ at = "refused"
           \/ at = "refused" /\ UNCHANGED << accepted, unanswered >>
  BY <1>2 DEF Transmit
<1>5. /\ sender' \in [Senders -> SenderStates]
      /\ \A u \in Senders : u # s => sender'[u] = sender[u]
      /\ sender'[s].at = at
      /\ sender'[s].message = m /\ sender'[s].target = t
  BY <1>1, <1>2, <1>4 DEF SenderStates
<1>6. Holds(s, m, t)
  BY <1>2, <1>3 DEF Holds
<1>7. mail[m][t] = "sending" /\ \A u \in Senders : Holds(u, m, t) => u = s
  BY <1>6 DEF LockInv
<1>8. accepted[m][t] = unanswered[m][t] /\ accepted[m][t] \in Nat /\ unanswered[m][t] \in Nat
  BY <1>1, <1>3, <1>7 DEF CountInv, Knows
<1>9. /\ accepted' \in [Messages -> [Targets -> Nat]]
      /\ unanswered' \in [Messages -> [Targets -> Nat]]
      /\ \A n \in Messages, x \in Targets : n # m \/ x # t =>
           accepted'[n][x] = accepted[n][x] /\ unanswered'[n][x] = unanswered[n][x]
      /\ at = "accepted" => accepted'[m][t] = unanswered'[m][t] + 1
      /\ at = "refused" => accepted'[m][t] = unanswered'[m][t]
  <2>1. ASSUME NEW f \in [Messages -> [Targets -> Nat]], NEW g,
               g = [f EXCEPT ![m][t] = f[m][t] + 1]
        PROVE  /\ g \in [Messages -> [Targets -> Nat]]
               /\ \A n \in Messages, x \in Targets : n # m \/ x # t => g[n][x] = f[n][x]
               /\ g[m][t] = f[m][t] + 1
    BY <2>1
  <2>2. CASE at = "accepted"
    BY <1>1, <1>4, <1>8, <2>1, <2>2
  <2>3. CASE at = "refused"
    <3>1. CASE UNCHANGED << accepted, unanswered >>
      BY <1>1, <1>8, <2>3, <3>1
    <3>2. CASE /\ accepted' = [accepted EXCEPT ![m][t] = @ + 1]
               /\ unanswered' = [unanswered EXCEPT ![m][t] = @ + 1]
      <4>1. /\ accepted' \in [Messages -> [Targets -> Nat]]
            /\ \A n \in Messages, x \in Targets : n # m \/ x # t => accepted'[n][x] = accepted[n][x]
            /\ accepted'[m][t] = accepted[m][t] + 1
        BY <1>1, <2>1, <3>2
      <4>2. /\ unanswered' \in [Messages -> [Targets -> Nat]]
            /\ \A n \in Messages, x \in Targets :
                 n # m \/ x # t => unanswered'[n][x] = unanswered[n][x]
            /\ unanswered'[m][t] = unanswered[m][t] + 1
        BY <1>1, <2>1, <3>2
      <4>3. QED BY <1>8, <2>3, <4>1, <4>2
    <3>3. QED BY <1>4, <2>3, <3>1, <3>2
  <2>4. QED BY <2>2, <2>3
<1>10. TypeOK'
  BY <1>3, <1>5, <1>9 DEF TypeOK, SenderStates
<1>11. \A u \in Senders, n \in Messages, x \in Targets :
         /\ Holds(u, n, x)' <=> Holds(u, n, x)
         /\ n # m \/ x # t => (Knows(u, n, x)' <=> Knows(u, n, x))
  BY <1>2, <1>3, <1>5 DEF Holds, Knows
<1>12. /\ \A u \in Senders : Knows(u, m, t)' => at = "accepted"
       /\ at = "accepted" => Knows(s, m, t)'
  BY <1>5, <1>7, <1>11 DEF Holds, Knows
<1>13. RowInv' /\ LockInv'
  BY <1>3, <1>11 DEF RowInv, LockInv
<1>14. CountInv'
  <2> SUFFICES ASSUME NEW n \in Messages, NEW x \in Targets
               PROVE  /\ mail'[n][x] = "sent" \/ (\E u \in Senders : Knows(u, n, x)')
                           => accepted'[n][x] = unanswered'[n][x] + 1
                      /\ mail'[n][x] # "sent" /\ (\A u \in Senders : ~Knows(u, n, x)')
                           => accepted'[n][x] = unanswered'[n][x]
      BY DEF CountInv
  <2>1. CASE n = m /\ x = t
    BY <1>3, <1>7, <1>9, <1>12, <2>1
  <2>2. CASE n # m \/ x # t
    BY <1>3, <1>9, <1>11, <2>2 DEF CountInv
  <2>3. QED BY <2>1, <2>2
<1>15. QED BY <1>10, <1>13, <1>14

\* The outcome is recorded in the row, and the notification is let go.
LEMMA MarkKeeps ==
  ASSUME MailInv, NEW s \in Senders, Mark(s)
  PROVE  MailInv'
<1> USE DEF MailInv
<1>1. sender \in [Senders -> SenderStates] /\ mail \in [Messages -> [Targets -> Rows]]
  BY DEF TypeOK, SenderStates, Rows
<1>2. PICK m \in Messages, t \in Targets : m = sender[s].message /\ t = sender[s].target
  BY <1>1 DEF SenderStates
<1>3. /\ UNCHANGED << status, accepted, unanswered, retries, crashes >>
      /\ sender[s].at \in {"accepted", "refused"}
      /\ Advance(s)
  BY DEF Mark
<1>4. /\ sender' \in [Senders -> SenderStates]
      /\ \A u \in Senders : u # s => sender'[u] = sender[u]
      /\ sender'[s].at \in {"claim", "no"}
  BY <1>3, AdvanceReleases
<1>5. Holds(s, m, t) /\ mail[m][t] = "sending" /\ \A u \in Senders : Holds(u, m, t) => u = s
  BY <1>2, <1>3 DEF Holds, LockInv
<1>6. PICK row \in {"sent", "failed"} :
        /\ mail' = [mail EXCEPT ![m][t] = row]
        /\ row = "sent" <=> sender[s].at = "accepted"
  <2>1. Marked(mail[m][t], sender[s].at = "accepted") \in {"sent", "failed"}
    BY <1>5 DEF Marked
  <2>2. Marked(mail[m][t], sender[s].at = "accepted") = "sent" <=> sender[s].at = "accepted"
    BY <1>5 DEF Marked
  <2>3. QED BY <1>2, <2>1, <2>2 DEF Mark
<1>7. /\ mail' \in [Messages -> [Targets -> Rows]]
      /\ mail'[m][t] = row
      /\ \A n \in Messages, x \in Targets : n # m \/ x # t => mail'[n][x] = mail[n][x]
  BY <1>1, <1>6 DEF Rows
<1>8. TypeOK'
  BY <1>3, <1>4, <1>7 DEF TypeOK, SenderStates, Rows
<1>9. RowInv'
  BY <1>5, <1>7 DEF RowInv, Targets
<1>10. \A u \in Senders, n \in Messages, x \in Targets :
         /\ Holds(u, n, x)' <=> Holds(u, n, x) /\ u # s
         /\ Knows(u, n, x)' <=> Knows(u, n, x) /\ u # s
  BY <1>4 DEF Holds, Knows
<1>11. \A n \in Messages, x \in Targets : Holds(s, n, x) => n = m /\ x = t
  BY <1>2 DEF Holds
<1>12. LockInv'
  BY <1>3, <1>5, <1>6, <1>7, <1>10, <1>11 DEF LockInv
<1>13. CountInv'
  <2> SUFFICES ASSUME NEW n \in Messages, NEW x \in Targets
               PROVE  /\ mail'[n][x] = "sent" \/ (\E u \in Senders : Knows(u, n, x)')
                           => accepted'[n][x] = unanswered'[n][x] + 1
                      /\ mail'[n][x] # "sent" /\ (\A u \in Senders : ~Knows(u, n, x)')
                           => accepted'[n][x] = unanswered'[n][x]
      BY DEF CountInv
  <2>1. CASE n = m /\ x = t
    <3>1. \A u \in Senders : ~Knows(u, m, t)'
      BY <1>5, <1>10 DEF Knows
    <3>2. row = "sent" <=> \E u \in Senders : Knows(u, m, t)
      BY <1>5, <1>6 DEF Knows
    <3>3. /\ row = "sent" => accepted[m][t] = unanswered[m][t] + 1
          /\ row # "sent" => accepted[m][t] = unanswered[m][t]
      BY <1>5, <3>2 DEF CountInv
    <3>4. QED BY <1>3, <1>7, <2>1, <3>1, <3>3
  <2>2. CASE n # m \/ x # t
    <3>1. \A u \in Senders : Knows(u, n, x)' <=> Knows(u, n, x)
      BY <1>10, <1>11, <2>2 DEF Knows
    <3>2. QED BY <1>3, <1>7, <2>2, <3>1 DEF CountInv
  <2>3. QED BY <2>1, <2>2
<1>14. QED BY <1>8, <1>9, <1>12, <1>13

\* The senders are gone, the rows and what the mail server accepted stay: what a sender
\* knew of, nobody has learnt of.
LEMMA CrashKeeps ==
  ASSUME MailInv, Crash
  PROVE  MailInv'
<1> USE DEF MailInv
<1>1. /\ UNCHANGED << mail, status, accepted, retries >>
      /\ crashes' = crashes + 1
      /\ sender' = [s \in Senders |-> Resting]
  BY DEF Crash
<1>2. /\ mail \in [Messages -> [Targets -> Rows]]
      /\ accepted \in [Messages -> [Targets -> Nat]] /\ unanswered \in [Messages -> [Targets -> Nat]]
      /\ crashes \in Nat
  BY SupportAssumption DEF TypeOK, Rows
<1> DEFINE Lost(m, t) == {s \in Senders : /\ sender[s].at = "accepted"
                                          /\ sender[s].message = m /\ sender[s].target = t}
<1>3. ASSUME NEW m \in Messages, NEW t \in Targets
      PROVE  /\ unanswered'[m][t] = unanswered[m][t] + Cardinality(Lost(m, t))
             /\ unanswered'[m][t] \in Nat
             /\ mail[m][t] # "sent" => accepted[m][t] = unanswered'[m][t]
             /\ mail[m][t] = "sent" => accepted[m][t] = unanswered'[m][t] + 1
  <2>1. unanswered'[m][t] = unanswered[m][t] + Cardinality(Lost(m, t))
    BY DEF Crash
  <2>2. \A s \in Senders : s \in Lost(m, t) <=> Knows(s, m, t)
    BY DEF Knows, Holds
  <2>3. unanswered[m][t] \in Nat /\ accepted[m][t] \in Nat
    BY <1>2
  <2>4. CASE Lost(m, t) = {}
    <3>1. Cardinality(Lost(m, t)) = 0
      BY <2>4, FS_EmptySet
    <3>2. \A s \in Senders : ~Knows(s, m, t)
      BY <2>2, <2>4
    <3>3. /\ mail[m][t] # "sent" => accepted[m][t] = unanswered[m][t]
          /\ mail[m][t] = "sent" => accepted[m][t] = unanswered[m][t] + 1
      BY <3>2 DEF CountInv
    <3> HIDE DEF Lost
    <3>4. QED BY <2>1, <2>3, <3>1, <3>3
  <2>5. CASE Lost(m, t) # {}
    <3>1. PICK s \in Senders : s \in Lost(m, t)
      BY <2>5
    <3>2. Knows(s, m, t) /\ Holds(s, m, t)
      BY <2>2, <3>1 DEF Knows
    <3>3. \A u \in Senders : u \in Lost(m, t) => u = s
      BY <2>2, <3>2 DEF LockInv, Knows
    <3>4. Lost(m, t) = {s}
      BY <3>1, <3>3
    <3>5. Cardinality(Lost(m, t)) = 1
      BY <3>4, FS_Singleton
    <3>6. mail[m][t] = "sending" /\ accepted[m][t] = unanswered[m][t] + 1
      BY <3>2 DEF LockInv, CountInv
    <3> HIDE DEF Lost
    <3>7. QED BY <2>1, <2>3, <3>5, <3>6
  <2>6. QED BY <2>4, <2>5
<1> HIDE DEF Lost
<1>4. unanswered' \in [Messages -> [Targets -> Nat]]
  <2>1. unanswered' = [m \in Messages |-> [t \in Targets |-> unanswered'[m][t]]]
    BY DEF Crash
  <2>2. QED BY <1>3, <2>1
<1>5. Resting \in SenderStates /\ Resting.at = "no"
  BY DEF Resting, SenderStates, Messages, Targets
<1>6. TypeOK'
  BY <1>1, <1>2, <1>4, <1>5, SupportAssumption DEF Crash, TypeOK, SenderStates
<1>7. \A s \in Senders, m \in Messages, t \in Targets : ~Holds(s, m, t)' /\ ~Knows(s, m, t)'
  BY <1>1, <1>5 DEF Holds, Knows
<1>8. RowInv' /\ LockInv'
  BY <1>1, <1>2, <1>7 DEF RowInv, LockInv
<1>9. CountInv'
  BY <1>1, <1>3, <1>7 DEF CountInv
<1>10. QED BY <1>6, <1>8, <1>9

\* Every step keeps the invariant.
LEMMA NextMail == MailInv /\ [Next]_vars => MailInv'
<1> SUFFICES ASSUME MailInv, [Next]_vars PROVE MailInv'
    OBVIOUS
<1>1. ASSUME NEW new \in {"open", "active", "resolved"}, SetStatus(new) PROVE MailInv'
  <2>1. UNCHANGED << mail, sender, accepted, unanswered, retries, crashes >> /\ status' = new
    BY <1>1 DEF SetStatus
  <2>2. QED BY <2>1 DEF MailInv, TypeOK, RowInv, LockInv, CountInv, Holds, Knows
<1>2. CASE UNCHANGED vars
  BY <1>2 DEF vars, MailInv, TypeOK, RowInv, LockInv, CountInv, Holds, Knows
<1>3. QED
  BY <1>1, <1>2, PostKeeps, ClaimKeeps, TransmitKeeps, MarkKeeps, CrashKeeps DEF Next

\* The invariant holds throughout.
LEMMA MailInvHolds == Spec => []MailInv
  BY InitMail, NextMail, PTL DEF Spec

--------------------------------------------------------------------------------
\* The rows, the tickets and the senders keep their types.
THEOREM MailTypes == Spec => []TypeOK
  BY MailInvHolds, PTL DEF MailInv

\* However many requests are repeated and resends overlap, one sender at a time has a
\* notification in hand (claimMail, store.ts).
THEOREM MailOneSender == Spec => []OneSender
<1>1. MailInv => OneSender
  BY DEF MailInv, LockInv, OneSender, Holders, Holds
<1>2. QED BY <1>1, MailInvHolds, PTL

\* A mail is accepted twice only after the gateway failed to learn of an acceptance
\* (markMail and the catch of sendSupportMail).
THEOREM MailAcceptedOnce == Spec => []AcceptedOnce
<1>1. MailInv => AcceptedOnce
  <2> SUFFICES ASSUME MailInv, NEW m \in Messages, NEW t \in Targets
               PROVE  /\ accepted[m][t] <= unanswered[m][t] + 1
                      /\ mail[m][t] = "sent" => accepted[m][t] > 0
      BY DEF AcceptedOnce
  <2>1. accepted[m][t] \in Nat /\ unanswered[m][t] \in Nat
    BY DEF MailInv, TypeOK
  <2>2. /\ accepted[m][t] = unanswered[m][t] \/ accepted[m][t] = unanswered[m][t] + 1
        /\ mail[m][t] = "sent" => accepted[m][t] = unanswered[m][t] + 1
    BY DEF MailInv, CountInv
  <2>3. QED BY <2>1, <2>2
<1>2. QED BY <1>1, MailInvHolds, PTL

\* Without a crash no notification is left 'sending' by nobody: sendSupportMail records
\* every outcome (engine.ts).
THEOREM MailStuckOnlyByCrash == Spec => []StuckOnlyByCrash
<1>1. MailInv => StuckOnlyByCrash
  BY DEF MailInv, LockInv, StuckOnlyByCrash, Holders, Holds
<1>2. QED BY <1>1, MailInvHolds, PTL

================================================================================
