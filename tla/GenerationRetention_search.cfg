\* A search opens its table before it leases it.
SPECIFICATION Spec
CONSTANTS
    r1 = r1  r2 = r2
    NoTable = NoTable
    NoRun = NoRun
    Readers = {r1}
    Local = {}
    Confirming = {}
    MaxRetained = 3
    MaxTable = 2
    Events = {}
PROPERTY SearchKeepsTable
