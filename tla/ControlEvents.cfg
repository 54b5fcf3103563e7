CONSTANTS
    Tunnel = {t1, t2, t3}
    EVENT_CAPACITY = 2
SPECIFICATION FairSpec
INVARIANTS ViewWillAgree
PROPERTIES GoneLeavesView
