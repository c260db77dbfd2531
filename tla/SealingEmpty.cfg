SPECIFICATION SealSpec
CONSTANTS
  a1 = a1
  a2 = a2
  p1 = p1
  p2 = p2
  Nonces = 4
  MaxZeros = 1
  Commitment <- SomeCommitments
  MaxLen = 4
  Agreements = {a1, a2}
  MaxTail = 2
  MaxWorkers = 3
  Nil = Nil
  Parents = {p1, p2}
  Jobs <- AgreementJobs
INVARIANT EmptyBatchRefused
CHECK_DEADLOCK FALSE
