SPECIFICATION Spec
CONSTANTS
  t1 = t1
  t2 = t2
  p1 = p1
  r1 = r1
  r2 = r2
  Senders = {t1, p1}
  Receivers = {r1}
  Program <- MCBurst
  MAX = 2
  MaxSends = 2
  MaxKills = 0
INVARIANT
  PriorityMessagesInPriorityBuffer
