\* Every order of driver and controller, with errors.
SPECIFICATION FairSpec
CONSTANTS
  Lbas <- MCLbas
  Values <- MCValues
  Stale = Stale
  MaxCalls = 3
INVARIANTS ExecutesRequest EnginesRehomed
PROPERTIES CallsReturn DeviceSpec
CHECK_DEADLOCK FALSE
