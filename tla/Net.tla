-------------------------------- MODULE Net --------------------------------
(***************************************************************************)
(* net/net.c: the ARP cache, the handlers of ARP and ICMP packets, and     *)
(* net_ping, which the shell calls and which polls the card for as long as *)
(* it waits.  The network delivers a frame late, more than once, in any    *)
(* order or never; a host answers only what was sent to it.                *)
(*                                                                         *)
(* The card is what Rtl8139 shows of it: frames in order, and one frame    *)
(* for each time ROK is found set.  Addresses are names; Mac[h] is the     *)
(* station that leads to h, the router's for a host behind it.             *)
(***************************************************************************)
EXTENDS Naturals, Sequences, FiniteSets

CONSTANTS
  Hosts, Lan, Router,  \* all other hosts; those on the wire; one of these
  Mac,                 \* Mac[h]: the station through which h is reached
  Us, None,            \* our possible addresses; no host
  Configs,             \* what net_init and "ip set" may leave
  CacheSize,           \* entries of g_arp: 8
  ArpPolls, PingPolls, \* turns of the two waiting loops: 50000, 200000
  RingSize,            \* frames the card holds
  MaxPings, MaxFrames  \* bounds on the commands and on the frames that come

Config == [ip : Us, link : SUBSET Hosts, gw : Lan \cup {None}]

ASSUME NetConstants ==
  /\ Lan \subseteq Hosts /\ Router \in Lan /\ None \notin Hosts
  /\ \A h \in Hosts \ Lan : Mac[h] = Mac[Router]
  /\ Configs \subseteq {c \in Config : c.link = Lan /\ c.gw \in {Router, None}}
  /\ CacheSize \in Nat /\ RingSize \in Nat /\ MaxPings \in Nat /\ MaxFrames \in Nat
  /\ ArpPolls \in Nat \ {0} /\ PingPolls \in Nat \ {0}

VARIABLES
  conf,        \* g_ip, the hosts under g_netmask, and g_gateway
  arp,         \* g_arp[0 .. g_arp_count - 1]
  ring, rok,   \* the card: frames that wait, and ISR.ROK
  sent,        \* every frame sent
  pc,          \* where net_ping is
  dest, left,  \* its dest_ip, and the turns its loop has left
  ret,         \* what it returned, and why
  seen,        \* the frames it has read from dest_ip and the next hop
  pings, came  \* commands begun, frames arrived

vars == <<conf, arp, ring, rok, sent, pc, dest, left, ret, seen, pings, came>>

\* A frame that comes: its kind, the address it is from, the station it is
\* from, the address it is for (of requests), the ping it answers (of echoes).
FrameIn(k, h, d, n) == [type |-> k, src |-> h, mac |-> Mac[h], dst |-> d, n |-> n]
\* A frame we send: its kind, its destination, the station, the ping.
FrameOut(k, d, m, n) == [type |-> k, dst |-> d, to |-> m, n |-> n]

Init ==
  /\ conf \in Configs /\ arp = <<>>
  /\ ring = <<>> /\ rok = 0 /\ sent = {}
  /\ pc = "idle" /\ dest = None /\ left = 0 /\ ret = "none" /\ seen = {}
  /\ pings = 0 /\ came = 0

-----------------------------------------------------------------------------
(* The network.  A frame for which the card has no room is lost.           *)

Comes(f) ==
  /\ came < MaxFrames /\ Len(ring) < RingSize
  /\ ring' = Append(ring, f) /\ rok' = 1 /\ came' = came + 1
  /\ UNCHANGED <<conf, arp, sent, pc, dest, left, ret, seen, pings>>

\* A host asks for an address, ours or another's, or pings us.
HostAsks(h, d) ==
  \/ h \in Lan /\ Comes(FrameIn("arp_req", h, d, 0))
  \/ d \in Us /\ Comes(FrameIn("echo_req", h, d, 0))

\* A host answers a frame that reached it.
HostAnswers(f) ==
  \/ f.type = "arp_req" /\ f.dst \in Lan /\ Comes(FrameIn("arp_rep", f.dst, None, 0))
  \/ /\ f.type = "echo_req" /\ f.to = Mac[f.dst]
     /\ Comes(FrameIn("echo_rep", f.dst, None, f.n))

-----------------------------------------------------------------------------
(* The ARP cache and the handlers.                                         *)

Known == {arp[i].ip : i \in 1 .. Len(arp)}
MacOf(ip) == arp[CHOOSE i \in 1 .. Len(arp) : arp[i].ip = ip].mac

\* Mutant: an address that is known gets a second entry.
CacheSetTwice(ip, mac) ==
  IF Len(arp) < CacheSize THEN Append(arp, [ip |-> ip, mac |-> mac]) ELSE arp

CacheSet(ip, mac) ==
  LET e == [ip |-> ip, mac |-> mac] IN
  IF ip \in Known
  THEN [i \in 1 .. Len(arp) |-> IF arp[i].ip = ip THEN e ELSE arp[i]]
  ELSE IF Len(arp) < CacheSize THEN Append(arp, e) ELSE arp

\* Mutant: only answers are learnt from.
CacheAfterReply(f) == IF f.type = "arp_rep" THEN CacheSet(f.src, f.mac) ELSE arp

\* The cache and the frames sent after net_poll has handled frame f.
CacheAfter(f) ==
  IF f.type \in {"arp_req", "arp_rep"} THEN CacheSet(f.src, f.mac) ELSE arp

\* Mutant: an echo is answered to the station the cache has for its sender.
AnswersByCache(f) ==
  IF f.type = "arp_req" /\ f.dst = conf.ip THEN {FrameOut("arp_rep", f.src, f.mac, 0)}
  ELSE IF f.type = "echo_req" /\ f.dst = conf.ip
  THEN {FrameOut("echo_rep", f.src, IF arp # <<>> THEN arp[1].mac ELSE f.mac, 0)}
  ELSE {}

Answers(f) ==
  IF f.type = "arp_req" /\ f.dst = conf.ip THEN {FrameOut("arp_rep", f.src, f.mac, 0)}
  ELSE IF f.type = "echo_req" /\ f.dst = conf.ip
  THEN {FrameOut("echo_rep", f.src, f.mac, 0)}
  ELSE {}

-----------------------------------------------------------------------------
(* The shell: "ip set", and the beginning of "ping".                       *)

SetIp(c) ==
  /\ pc = "idle" /\ conf' = c /\ ret' = "none"
  /\ UNCHANGED <<arp, ring, rok, sent, pc, dest, left, seen, pings, came>>

\* The address to resolve; None: no gateway is set.
Target(h) == IF h \in conf.link THEN h ELSE conf.gw

Return(r) == pc' = "idle" /\ ret' = r /\ left' = 0

SendEcho(mac) ==
  /\ sent' = sent \cup {FrameOut("echo_req", dest', mac, pings')}
  /\ pc' = "direct" /\ left' = PingPolls /\ ret' = "none"

Ping(h) ==
  /\ pc = "idle" /\ pings < MaxPings
  /\ pings' = pings + 1 /\ dest' = h /\ seen' = {}
  /\ \/ Target(h) = None /\ Return("route") /\ UNCHANGED sent
     \/ Target(h) \in Known /\ SendEcho(MacOf(Target(h)))
     \/ /\ Target(h) \notin Known \cup {None}
        /\ sent' = sent \cup {FrameOut("arp_req", Target(h), "all", pings')}
        /\ pc' = "resolve" /\ left' = ArpPolls /\ ret' = "none"
  /\ UNCHANGED <<conf, arp, ring, rok, came>>

-----------------------------------------------------------------------------
(* The two loops, one action per poll.                                     *)

\* rtl8139_poll: nothing unless ROK is set, else the oldest frame.
PollsNothing == rok = 0 /\ UNCHANGED <<ring, rok, seen>>

Polls(f) ==
  /\ rok = 1 /\ ring # <<>> /\ f = Head(ring)
  /\ rok' = 0 /\ ring' = Tail(ring) /\ seen' = seen \cup {g \in {f} : g.src \in {dest, Target(dest)}}

\* One turn of arp_resolve: net_poll, then a look at the cache.
Resolve ==
  /\ pc = "resolve"
  /\ \/ /\ PollsNothing /\ UNCHANGED <<arp, sent>>
        /\ IF left = 1 THEN Return("arp")
           ELSE left' = left - 1 /\ UNCHANGED <<pc, ret>>
     \/ \E f \in {ring[i] : i \in 1 .. Len(ring)} :
          /\ Polls(f) /\ arp' = CacheAfter(f)
          /\ LET got == {i \in 1 .. Len(arp') : arp'[i].ip = Target(dest)} IN
             IF got # {}
             THEN /\ sent' = sent \cup Answers(f)
                       \cup {FrameOut("echo_req", dest, arp'[CHOOSE i \in got : TRUE].mac, pings)}
                  /\ pc' = "direct" /\ left' = PingPolls /\ UNCHANGED ret
             ELSE /\ sent' = sent \cup Answers(f)
                  /\ IF left = 1 THEN Return("arp")
                     ELSE left' = left - 1 /\ UNCHANGED <<pc, ret>>
  /\ UNCHANGED <<conf, dest, pings, came>>

NextTurn == IF left = 1 THEN Return("echo")
            ELSE pc' = "direct" /\ left' = left - 1 /\ UNCHANGED ret

\* Mutant: any echo reply will do.
IsReplyOfAnyone(f) == f.type = "echo_rep"

IsReply(f) == f.type = "echo_rep" /\ f.src = dest

\* A frame for which the loop says "continue", without the net_poll.
IsSkipped(f) == f.type \in {"arp_req", "arp_rep"} \/ f.src # dest

\* The poll of net_ping's own loop.
DirectPoll ==
  /\ pc = "direct"
  /\ \/ PollsNothing /\ pc' = "net_poll" /\ UNCHANGED <<left, ret>>
     \/ \E f \in {ring[i] : i \in 1 .. Len(ring)} :
          /\ Polls(f)
          /\ IF IsReply(f) THEN Return("ok")
             ELSE IF IsSkipped(f) THEN NextTurn
             ELSE pc' = "net_poll" /\ UNCHANGED <<left, ret>>
  /\ UNCHANGED <<conf, arp, sent, dest, pings, came>>

NetPoll ==
  /\ pc = "net_poll"
  /\ \/ PollsNothing /\ UNCHANGED <<arp, sent>>
     \/ \E f \in {ring[i] : i \in 1 .. Len(ring)} :
          Polls(f) /\ arp' = CacheAfter(f) /\ sent' = sent \cup Answers(f)
  /\ NextTurn
  /\ UNCHANGED <<conf, dest, pings, came>>

Kernel == Resolve \/ DirectPoll \/ NetPoll

Next ==
  \/ Kernel
  \/ \E c \in Configs : SetIp(c)
  \/ \E h \in Hosts : Ping(h)
  \/ \E h \in Hosts, d \in Us \cup {None} : HostAsks(h, d)
  \/ \E f \in sent : HostAnswers(f)

Spec == Init /\ [][Next]_vars

-----------------------------------------------------------------------------
Frames == {FrameIn(k, h, d, n) : k \in {"arp_req", "arp_rep", "echo_req", "echo_rep"},
            h \in Hosts, d \in Us \cup {None}, n \in 0 .. MaxPings}
Macs == {Mac[h] : h \in Hosts}
ArpEntry == [ip : Lan, mac : Macs]
SentFrames == [type : {"arp_req", "arp_rep", "echo_req", "echo_rep"},
               dst : Hosts, to : Macs \cup {"all"}, n : 0 .. MaxPings]

TypeOK ==
  /\ conf \in Configs
  /\ arp \in Seq(ArpEntry) /\ Len(arp) <= CacheSize
  /\ ring \in Seq(Frames) /\ Len(ring) <= RingSize /\ rok \in {0, 1}
  /\ sent \subseteq SentFrames
  /\ pc \in {"idle", "resolve", "direct", "net_poll"}
  /\ dest \in Hosts \cup {None} /\ left \in Nat
  /\ ret \in {"none", "route", "arp", "echo", "ok"}
  /\ seen \subseteq Frames /\ pings \in 0 .. MaxPings /\ came \in 0 .. MaxFrames

\* No address is in the cache twice, and each leads to its owner, whatever
\* requests and answers were overheard and in whatever order.
CacheSound ==
  \A i, j \in 1 .. Len(arp) :
    /\ arp[i].mac = Mac[arp[i].ip]
    /\ arp[i].ip = arp[j].ip => i = j

\* What we send goes to everyone or to the station that leads to its
\* destination: on-link hosts directly, the others by the gateway.
Routed == \A f \in sent : f.to \in {"all", Mac[f.dst]}

\* "Ping OK": the destination has answered an echo request of ours, this
\* one's or an earlier one's.
OkMeansAlive ==
  ret = "ok" => \E f \in seen : /\ f.type = "echo_rep" /\ f.src = dest
                                /\ FrameOut("echo_req", dest, Mac[dest], f.n) \in sent

\* arp_resolve gives up only on a host it read no ARP packet of, or when
\* its cache is full of others.
ResolveHears ==
  ret = "arp" => \/ \A f \in seen : ~(f.type \in {"arp_req", "arp_rep"} /\ f.src = Target(dest))
                 \/ Len(arp) = CacheSize

-----------------------------------------------------------------------------
(* What the code does not keep.                                            *)

\* "Ping failed" means that no echo reply of the destination was read: not
\* so, net_poll reads one and drops it.
FailedMeansSilent ==
  ret = "echo" => \A f \in seen : ~(f.type = "echo_rep" /\ f.src = dest)
=============================================================================
