SPECIFICATION FairSpec
CONSTANTS
  open1 = open1
  reply1 = reply1
  s1 = s1
  s2 = s2
  Opening = open1
  Additions = {}
  Answers = {reply1}
  Senders = {s1, s2}
  MaxRetries = 2
  MaxCrashes = 1
INVARIANTS TypeOK OneSender AcceptedOnce StuckOnlyByCrash
PROPERTY PendingIsTried
