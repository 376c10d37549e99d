SPECIFICATION FairSpec
CONSTANTS
  Threads = {t1, t2}
  NoThread = none
  Mails = {m1, m2}
  Nothing = nothing
  Capacity = 3
  Scalar = 2
  MailSize = 4
INVARIANT TypeOK
PROPERTIES
  ImplementsMailbox
  EveryCallReturns
CHECK_DEADLOCK FALSE
