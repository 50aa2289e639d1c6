\* Leases and confirmation against the collection; runs fail, processes die.
SPECIFICATION Spec
CONSTANTS
    r1 = r1  r2 = r2
    NoTable = NoTable
    NoRun = NoRun
    Readers = {r1}
    Local = {}
    Confirming = {r1}
    MaxRetained = 1
    MaxTable = 2
    Events = {"crash", "fail", "longRead", "evaluate"}
PROPERTIES LeasedTablesKept ConfirmedReaderKeepsTable RolesKept
