SPECIFICATION Spec
CONSTANTS
  e = e
  A = A
  B = B
  c1 = c1
  c2 = c2
  c3 = c3
  l1 = l1
  l2 = l2
  NoFetch = NoFetch
  EndPoints = {e}
  Pems = {A}
  LastMinute = 1
  Drift = 1
  MaxCachedKeys = 1
  Callers = {c1, c2}
  Loops = {l1, l2}
  HomeLoop <- MCHomeLoop
  Urls <- MCOneUrl
  Answers <- MCOneAnswer
  Fetches = {f1, f2}
  EndsEarly = FALSE
INVARIANT CancellingSparesOthers
