CONSTANTS
  s1 = s1  s2 = s2  c1 = c1  t1 = t1  t2 = t2
  r1 = r1  r2 = r2  ann = ann  bob = bob
  NoUser = NoUser  NoJob = NoJob  Worker = worker
  Scrapes = {s1}
  Crawls = {c1}
  Users = {ann, bob}
  Reqs = {r1, r2}
  Threads = {t1}
  BadCreds = {bob}
  RecoveryLimit = 100
  MaxPages = 1
  MaxReplays = 0
  MaxApiCrashes = 0
  MaxWorkerCrashes = 0
  MaxOutages = 0
SPECIFICATION Spec
SYMMETRY HandlerSymmetry
CHECK_DEADLOCK FALSE
INVARIANTS
  RunOnce
  QueuedIsHeld
  ToldOnce

  
