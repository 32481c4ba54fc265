SPECIFICATION FairSpec
CONSTANTS
  AskedLimit = 4
  AskedDepth = 2
  GlobalCap = 3
  AskedHostCap = 1
  Sites <- Star
  URLs = {s, pa, pb, pc, pd, pe}
  InScope = {s, pa, pb, pc, pd, pe}
  Far = {pc, pd}
  Disallowed = {pe}
  Seed = s
  pa = pa
  pb = pb
  pc = pc
  pd = pd
  pe = pe
  NoUrl = none
  Host <- TwoHosts
  HostOf <- SplitHosts
CHECK_DEADLOCK FALSE
INVARIANTS BudgetExact SeedHostBounded 
 
