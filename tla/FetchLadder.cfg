SPECIFICATION FairSpec
CONSTANTS
  Threads = {payer, guest}
  Procs <- OneProc
  ProcOf <- InApi
  Paid = {payer}
  Usable = {0, 2, 3}
  Retries <- Few
CHECK_DEADLOCK FALSE
INVARIANTS Ascends NeverRefused ProfileWorked HitIsOneRun
PROPERTY FetchEnds
