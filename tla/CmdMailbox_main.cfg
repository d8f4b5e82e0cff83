\* The connection may be lost.  A semaphore that is worth more than 4 blocks
\* no thread before it is worth 4 again.
SPECIFICATION FairSpec
CONSTANTS
  Commands = 2
  SemCap = 4
  Drops = TRUE
INVARIANTS
  TypeOK
  CommandIntact
  AnswersRequest
  OneOutstanding
PROPERTIES
  CommandAnswered
  ImplementsExchange
