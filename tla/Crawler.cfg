SPECIFICATION FairSpec
CONSTANTS
  home = home
  a = a
  b = b
  c = c
  d = d
  e = e
  f = f
  root = root
  p = p
  q = q
  r = r
  Url = {home, a, b, c, d, e, f}
  None = None
  Home = home
  OtherOrigin = {f}
  Excluded = {e}
  Disallowed = {c}
  Path = {root, p, q, r}
  PathOf <- SharedPaths
  MaxDepth = 2
  MaxPages = 3
  RespectRobots = TRUE
  MaxQueryVariants = 2
  MaxDiscovered = 3
INVARIANTS EachOnce RequestsAllowed ReasonTruthful DepthInOrder
PROPERTIES CrawlEnds
\* A crawl that is done does nothing more.
CHECK_DEADLOCK FALSE
