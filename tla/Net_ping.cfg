\* Two pings, of any host and under any configuration, with every arrival.
SPECIFICATION Spec
CONSTANTS
  Hosts <- MCHosts
  Lan <- MCLan
  Router = "gw"
  Mac <- MCMac
  Us <- MCUs
  None = "none"
  Configs <- MCConfigs
  CacheSize = 2
  ArpPolls = 2
  PingPolls = 2
  RingSize = 2
  MaxPings = 2
  MaxFrames = 3
INVARIANTS CacheSound Routed OkMeansAlive ResolveHears

CHECK_DEADLOCK FALSE
