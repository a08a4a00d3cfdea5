SPECIFICATION Spec
CONSTANTS
    IP = {ip1, ip2, ip3}
    Slot = {a, b}
    maxAttempts = 2
    attemptWindow = 2
    maxTrackedIPs = 2
    sweepScan = 1
    NoRecord = NoRecord
    Watched = ip1
SYMMETRY Symmetry
INVARIANTS TypeOK TableBounded InFlightBound LimitedWithCause
PROPERTIES LiveRecordKept UnrecordedOnlyInACrowd
