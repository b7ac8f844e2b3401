SPECIFICATION FairSpec
CONSTANTS
  EndPoint = e
  Pems = {A, B}
  LastMinute = 5
  Drift = 2
  MaxCachedKeys = 2
  Verifiers = {v1}
  Styles = {TRUE, FALSE}
  ClockSkew = 1
  SigningSkew = 2
  Latency = 1
  Lead = 3
  Period = 2
  MaxKeys = 2
INVARIANTS
  TypeOK
  HeldSpansAreTrue
  StatedSpansAreWhole
  GenuineIsNotDenied
  AcceptedKeyWasInForce
PROPERTY VerificationsEnd
