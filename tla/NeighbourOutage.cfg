SPECIFICATION Spec
CONSTANTS
  EndPoint = e
  Pems = {A, B}
  LastMinute = 5
  Drift = 1
  MaxCachedKeys = 2
  Verifiers = {v1}
  Styles = {TRUE}
  ClockSkew = 0
  SigningSkew = 1
  Latency = 1
  Lead = 2
  Period = 2
  MaxKeys = 2
SYMMETRY Symmetric
INVARIANT OutageIsNotInvalid
