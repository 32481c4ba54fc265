SPECIFICATION Spec
CONSTANTS
  AskedLimit = 9
  AskedDepth = 2
  GlobalCap = 2
  AskedHostCap = 1
  Sites <- EverySite
  URLs = {s, pa, pb, pc}
  InScope = {s, pa, pb, pc}
  Far = {pb, pc}
  Disallowed = {}
  Seed = s
  pa = pa
  pb = pb
  pc = pc
  pd = pd
  pe = pe
  NoUrl = none
  Host <- TwoHosts
  HostOf <- SplitHosts
CHECK_DEADLOCK FALSE
SYMMETRY Symmetry
INVARIANTS PagesDistinct DepthIsAPath CoversShallow NothingLost
