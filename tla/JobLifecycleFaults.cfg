CONSTANTS
  s1 = s1  s2 = s2  c1 = c1  t1 = t1  t2 = t2
  r1 = r1  r2 = r2  ann = ann  bob = bob
  NoUser = NoUser  NoJob = NoJob  Worker = worker
  Scrapes = {s1}
  Crawls = {}
  Users = {ann}
  Reqs = {r1}
  Threads = {t1}
  BadCreds = {}
  RecoveryLimit = 100
  MaxPages = 1
  MaxReplays = 1
  MaxApiCrashes = 1
  MaxWorkerCrashes = 1
  MaxOutages = 1
SPECIFICATION Spec
CHECK_DEADLOCK FALSE
INVARIANTS
  
  CompletedHasResult
  NothingAfterDelete
  EventHasResult
