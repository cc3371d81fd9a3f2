SPECIFICATION FairSV
CONSTANTS
    first = first
    again = again
    other = other
    Requests = {first, again, other}
    HashOf <- MCHashOf
    PageSize = 1
    MaxStoreMissResends = 2
    MaxStops = 1
INVARIANTS StoreInv NoStarvation NoResendAfterStop
PROPERTIES ResentOnlyWhileWaiting AskedInTheEnd
CHECK_DEADLOCK FALSE
