------------------------------- MODULE MCNet -------------------------------
(* Two hosts on the wire beside the router, and one behind it; with and    *)
(* without a gateway.                                                      *)
EXTENDS Net

MCHosts == {"a", "b", "gw", "x"}
MCLan == {"a", "b", "gw"}
MCMac == [a |-> "A", b |-> "B", gw |-> "G", x |-> "G"]
MCConfigs == {[ip |-> "me", link |-> MCLan, gw |-> "gw"],
              [ip |-> "me", link |-> MCLan, gw |-> "none"]}
MCUs == {"me"}
=============================================================================
