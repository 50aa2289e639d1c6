\* Order, exclusion and progress of writes, and the admission of workloads.
SPECIFICATION QueuesSpec
CONSTANTS
    p1 = p1  p2 = p2
    c1 = c1  c2 = c2  c3 = c3  d1 = d1
    NoCall = NoCall
    Procs <- MCProcs
    Calls <- MCCalls
    ProcOf <- MCProcOf
    s1 = s1  s2 = s2  s3 = s3  i1 = i1  o1 = o1  o2 = o2
    NoObject = NoObject
    Requests <- MCRequests
    Path <- MCPath
    Workloads <- MCWorkloads
    Objects = {o1, o2}
    Limits <- MCLimits
INVARIANT FirstComeFirstServed
PROPERTIES ImplementsMutex WritesProceed AdmissionSound EveryoneServed
\* All calls may have settled.
CHECK_DEADLOCK FALSE
