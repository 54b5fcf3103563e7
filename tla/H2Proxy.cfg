SPECIFICATION FairSpec
CONSTANTS
  Req = {r1, r2}
  Versions = {"h2", "h1"}
  MaxStreams = 2
  Credit = 1
  Cf = {"none", "malformed", "v6", "mapped"}
  Peers = {"mapped"}
INVARIANTS StreamsAddUp PoolIsNotSpliced AddressIsTold
PROPERTIES SetupOrAnswer GoneGivesBack
CHECK_DEADLOCK FALSE
