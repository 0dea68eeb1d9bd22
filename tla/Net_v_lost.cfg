\* A reply that net_poll reads is dropped.
SPECIFICATION Spec
CONSTANTS
  Hosts <- MCHosts
  Lan <- MCLan
  Router = "gw"
  Mac <- MCMac
  Us <- MCUs
  None = "none"
  Configs <- MCConfigs
  CacheSize = 2
  ArpPolls = 2
  PingPolls = 2
  RingSize = 2
  MaxPings = 2
  MaxFrames = 3
INVARIANTS FailedMeansSilent
CHECK_DEADLOCK FALSE
