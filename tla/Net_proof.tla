----------------------------- MODULE Net_proof -----------------------------
(***************************************************************************)
(* Net: types, the ARP cache, where frames go, and what "ok" and a failed  *)
(* resolution mean, for every network, cache size and number of polls.     *)
(***************************************************************************)
EXTENDS Net, TLAPS

ArpTypes == {"arp_req", "arp_rep"}

\* What is known of a frame that has come: ARP is spoken on the wire only,
\* and an echo reply answers an echo request that was sent.
Honest(f) ==
  /\ f \in Frames
  /\ f.type \in ArpTypes => f.src \in Lan
  /\ f.type = "echo_rep" => FrameOut("echo_req", f.src, Mac[f.src], f.n) \in sent

Arrived == \A i \in 1 .. Len(ring) : Honest(ring[i])
Read == \A f \in seen : Honest(f)

\* No ARP packet of the next hop was read since the ping began.
NoneHeard == \A f \in seen : ~(f.type \in ArpTypes /\ f.src = Target(dest))

\* A ping under way has a destination, a next hop on the wire and a turn
\* left; while it resolves, the hop was not heard of or cannot be kept.
Waiting ==
  pc # "idle" =>
    /\ ret = "none" /\ left \in Nat \ {0} /\ dest \in Hosts
    /\ Target(dest) \in Lan
    /\ pc = "resolve" => NoneHeard \/ Len(arp) = CacheSize

\* TypeOK and the invariants of the run, with what makes them inductive.
Inv == /\ TypeOK /\ CacheSound /\ Routed /\ OkMeansAlive /\ ResolveHears
       /\ Arrived /\ Read /\ Waiting

\* The part of Inv that speaks of the cache.
CacheOK(c) ==
  /\ c \in Seq(ArpEntry) /\ Len(c) <= CacheSize
  /\ \A i, j \in 1 .. Len(c) : /\ c[i].mac = Mac[c[i].ip]
                               /\ c[i].ip = c[j].ip => i = j

-----------------------------------------------------------------------------
(* Frames.                                                                 *)

\* The fields of a frame that has come.
LEMMA FrameFields ==
  ASSUME NEW f \in Frames
  PROVE  /\ f.type \in {"arp_req", "arp_rep", "echo_req", "echo_rep"}
         /\ f.src \in Hosts /\ f.mac = Mac[f.src] /\ f.mac \in Macs
         /\ f.n \in 0 .. MaxPings
BY DEF Frames, FrameIn, Macs

\* The next hop leads to the destination.
LEMMA HopLeads ==
  ASSUME conf \in Configs, NEW h \in Hosts, Target(h) # None
  PROVE  Target(h) \in Lan /\ Mac[Target(h)] = Mac[h]
<1>1. conf.link = Lan /\ conf.gw \in {Router, None}
  BY NetConstants
<1>. QED  BY <1>1, NetConstants DEF Target

\* A frame stays honest while more is sent.
LEMMA HonestStays ==
  ASSUME NEW f, Honest(f), sent \subseteq sent'
  PROVE  Honest(f)'
BY DEF Honest

-----------------------------------------------------------------------------
(* The cache.                                                              *)

\* Storing an address of a host on the wire keeps the cache sound, and the
\* address is then known unless the cache was full.
LEMMA CacheSetSound ==
  ASSUME CacheOK(arp), NEW ip \in Lan, NEW mac \in Macs, mac = Mac[ip]
  PROVE  /\ CacheOK(CacheSet(ip, mac))
         /\ \/ \E i \in 1 .. Len(CacheSet(ip, mac)) : CacheSet(ip, mac)[i].ip = ip
            \/ Len(CacheSet(ip, mac)) = CacheSize
<1>. DEFINE e == [ip |-> ip, mac |-> mac]
            c == CacheSet(ip, mac)
<1>0. e \in ArpEntry /\ e.ip = ip /\ e.mac = mac
  BY DEF ArpEntry
<1>1. CASE ip \in Known
  <2>1. c = [i \in 1 .. Len(arp) |-> IF arp[i].ip = ip THEN e ELSE arp[i]]
    BY <1>1 DEF CacheSet
  <2>2. \A i \in 1 .. Len(arp) : /\ c[i] \in ArpEntry
                                 /\ c[i].ip = arp[i].ip /\ c[i].mac = arp[i].mac
    <3>. SUFFICES ASSUME NEW i \in 1 .. Len(arp)
                  PROVE  /\ c[i] \in ArpEntry
                         /\ c[i].ip = arp[i].ip /\ c[i].mac = arp[i].mac
      OBVIOUS
    <3>1. arp[i] \in ArpEntry
      <4>. HIDE DEF c, e
      <4>. QED  BY DEF CacheOK
    <3>2. arp[i].mac = Mac[arp[i].ip]
      <4>. HIDE DEF c, e
      <4>. QED  BY DEF CacheOK
    <3>3. c[i] = IF arp[i].ip = ip THEN e ELSE arp[i]
      BY <2>1
    <3>. QED  BY <1>0, <3>1, <3>2, <3>3
  <2>. HIDE DEF e
  <2>3. Len(arp) \in Nat /\ c \in Seq(ArpEntry) /\ Len(c) = Len(arp)
    BY <2>1, <2>2 DEF CacheOK
  <2>4. PICK k \in 1 .. Len(arp) : arp[k].ip = ip
    BY <1>1 DEF Known
  <2>. HIDE DEF c
  <2>5. CacheOK(c)
    BY <2>2, <2>3 DEF CacheOK
  <2>6. k \in 1 .. Len(c) /\ c[k].ip = ip
    BY <2>2, <2>3, <2>4
  <2>. QED  BY <2>5, <2>6 DEF c
<1>2. CASE ip \notin Known /\ Len(arp) < CacheSize
  <2>1. c = Append(arp, e)
    BY <1>2 DEF CacheSet
  <2>2. \A i \in 1 .. Len(arp) : arp[i].ip # ip
    BY <1>2 DEF Known
  <2>3. Len(arp) \in Nat /\ arp \in Seq(ArpEntry)
    BY DEF CacheOK
  <2>. HIDE DEF e
  <2>4. /\ c \in Seq(ArpEntry) /\ Len(c) = Len(arp) + 1
        /\ c[Len(arp) + 1] = e /\ \A i \in 1 .. Len(arp) : c[i] = arp[i]
    BY <1>0, <2>1, <2>3
  <2>. HIDE DEF c
  <2>5. CacheOK(c)
    BY <1>0, <1>2, <2>2, <2>3, <2>4, NetConstants DEF CacheOK
  <2>6. Len(arp) + 1 \in 1 .. Len(c) /\ c[Len(arp) + 1].ip = ip
    BY <1>0, <2>3, <2>4
  <2>. QED  BY <2>5, <2>6 DEF c
<1>3. CASE ip \notin Known /\ ~(Len(arp) < CacheSize)
  <2>1. c = arp
    BY <1>3 DEF CacheSet
  <2>2. Len(arp) = CacheSize
    BY <1>3, NetConstants DEF CacheOK
  <2>. QED  BY <2>1, <2>2
<1>. QED  BY <1>1, <1>2, <1>3

\* So does handling a frame; a full cache stays full.
LEMMA CacheAfterSound ==
  ASSUME CacheOK(arp), NEW f, Honest(f)
  PROVE  /\ CacheOK(CacheAfter(f))
         /\ f.type \in ArpTypes =>
              \/ \E i \in 1 .. Len(CacheAfter(f)) : CacheAfter(f)[i].ip = f.src
              \/ Len(CacheAfter(f)) = CacheSize
         /\ Len(arp) = CacheSize => Len(CacheAfter(f)) = CacheSize
<1>1. f \in Frames
  BY DEF Honest
<1>2. CASE f.type \in ArpTypes
  <2>1. f.src \in Lan /\ f.mac \in Macs /\ f.mac = Mac[f.src]
    BY <1>1, <1>2, FrameFields DEF Honest
  <2>2. CacheAfter(f) = CacheSet(f.src, f.mac)
    BY <1>2 DEF CacheAfter, ArpTypes
  <2>3. Len(arp) = CacheSize => Len(CacheSet(f.src, f.mac)) = CacheSize
    <3>1. Len(arp) \in Nat
      BY DEF CacheOK
    <3>. QED  BY <3>1 DEF CacheSet
  <2>. QED  BY <2>1, <2>2, <2>3, CacheSetSound
<1>3. CASE f.type \notin ArpTypes
  BY <1>3 DEF CacheAfter, ArpTypes
<1>. QED  BY <1>2, <1>3

\* CacheOK is what the invariant says of the cache.
LEMMA CacheInInv ==
  CacheOK(arp) <=> arp \in Seq(ArpEntry) /\ Len(arp) <= CacheSize /\ CacheSound
BY DEF CacheOK, CacheSound

-----------------------------------------------------------------------------
(* What is sent.                                                           *)

\* Every frame handled is answered, if at all, to where it came from.
LEMMA AnswersRouted ==
  ASSUME NEW f, Honest(f)
  PROVE  \A g \in Answers(f) : g \in SentFrames /\ g.to = Mac[g.dst]
<1>1. f.src \in Hosts /\ f.mac = Mac[f.src] /\ f.mac \in Macs
  BY FrameFields DEF Honest
<1>2. 0 \in 0 .. MaxPings
  BY NetConstants
<1>. QED  BY <1>1, <1>2 DEF Answers, FrameOut, SentFrames

\* So is the echo request of a ping under way sent to its next hop.
LEMMA EchoRouted ==
  ASSUME NEW h \in Hosts, NEW n \in 0 .. MaxPings
  PROVE  /\ FrameOut("echo_req", h, Mac[h], n) \in SentFrames
         /\ FrameOut("echo_req", h, Mac[h], n).to = Mac[FrameOut("echo_req", h, Mac[h], n).dst]
BY DEF FrameOut, SentFrames, Macs

-----------------------------------------------------------------------------
(* The invariant holds at the start and is kept.                           *)

LEMMA NetInit == Init => Inv
<1>. SUFFICES ASSUME Init PROVE Inv
  OBVIOUS
<1>1. arp = <<>> /\ ring = <<>> /\ Len(arp) = 0 /\ Len(ring) = 0
  BY DEF Init
<1>2. TypeOK
  BY <1>1, NetConstants DEF Init, TypeOK
<1>3. CacheSound /\ Routed /\ Arrived
  BY <1>1 DEF Init, CacheSound, Routed, Arrived
<1>4. OkMeansAlive /\ ResolveHears /\ Read /\ Waiting
  BY DEF Init, OkMeansAlive, ResolveHears, Read, Waiting
<1>. QED  BY <1>2, <1>3, <1>4 DEF Inv

\* A frame that comes and is honest.
LEMMA ComesStep ==
  ASSUME Inv, NEW f, Honest(f), Comes(f)
  PROVE  Inv'
<1>1. /\ ring' = Append(ring, f) /\ Len(ring) < RingSize /\ f \in Frames
      /\ ring \in Seq(Frames)
  BY DEF Comes, Honest, Inv, TypeOK
<1>2. /\ ring' \in Seq(Frames) /\ Len(ring) \in Nat /\ Len(ring') = Len(ring) + 1
      /\ ring'[Len(ring) + 1] = f /\ \A i \in 1 .. Len(ring) : ring'[i] = ring[i]
  BY <1>1
<1>3. \A g : Honest(g) => Honest(g)'
  BY DEF Comes, Honest
<1>4. Arrived' /\ Read'
  <2>1. Read'
    BY <1>3 DEF Inv, Read, Comes
  <2>2. ASSUME NEW i \in 1 .. Len(ring') PROVE Honest(ring'[i])
    <3>1. CASE i \in 1 .. Len(ring)
      BY <1>2, <3>1 DEF Inv, Arrived
    <3>2. CASE i = Len(ring) + 1
      BY <1>2, <3>2
    <3>. QED  BY <1>2, <3>1, <3>2
  <2>. QED  BY <1>3, <2>1, <2>2 DEF Arrived
<1>5. TypeOK'
  <2>1. Len(ring') <= RingSize /\ came' \in 0 .. MaxFrames
    BY <1>1, <1>2, NetConstants DEF Comes, Inv, TypeOK
  <2>. QED  BY <1>2, <2>1 DEF Comes, Inv, TypeOK
<1>6. CacheSound' /\ Routed' /\ OkMeansAlive' /\ ResolveHears' /\ Waiting'
  BY DEF Comes, Inv, CacheSound, Routed, OkMeansAlive, ResolveHears, Waiting, NoneHeard, Target
<1>. QED  BY <1>4, <1>5, <1>6 DEF Inv

\* What the network does.
LEMMA NetworkStep ==
  ASSUME Inv,
         \/ \E h \in Hosts, d \in Us \cup {None} : HostAsks(h, d)
         \/ \E f \in sent : HostAnswers(f)
  PROVE  Inv'
<1>1. CASE \E h \in Hosts, d \in Us \cup {None} : HostAsks(h, d)
  <2>1. PICK h \in Hosts, d \in Us \cup {None} : HostAsks(h, d)
    BY <1>1
  <2>2. 0 \in 0 .. MaxPings
    BY NetConstants
  <2>3. CASE h \in Lan /\ Comes(FrameIn("arp_req", h, d, 0))
    <3>1. Honest(FrameIn("arp_req", h, d, 0))
      BY <2>2, <2>3 DEF Honest, Frames, FrameIn, ArpTypes
    <3>. QED  BY <2>3, <3>1, ComesStep
  <2>4. CASE d \in Us /\ Comes(FrameIn("echo_req", h, d, 0))
    <3>1. Honest(FrameIn("echo_req", h, d, 0))
      BY <2>2, <2>4 DEF Honest, Frames, FrameIn, ArpTypes
    <3>. QED  BY <2>4, <3>1, ComesStep
  <2>. QED  BY <2>1, <2>3, <2>4 DEF HostAsks
<1>2. CASE \E f \in sent : HostAnswers(f)
  <2>1. PICK f \in sent : HostAnswers(f)
    BY <1>2
  <2>2. f \in SentFrames /\ 0 \in 0 .. MaxPings
    BY NetConstants DEF Inv, TypeOK
  <2>3. f.dst \in Hosts /\ f.n \in 0 .. MaxPings
    BY <2>2 DEF SentFrames
  <2>4. CASE f.type = "arp_req" /\ f.dst \in Lan /\ Comes(FrameIn("arp_rep", f.dst, None, 0))
    <3>1. Honest(FrameIn("arp_rep", f.dst, None, 0))
      BY <2>2, <2>3, <2>4 DEF Honest, Frames, FrameIn, ArpTypes
    <3>. QED  BY <2>4, <3>1, ComesStep
  <2>5. CASE /\ f.type = "echo_req" /\ f.to = Mac[f.dst]
             /\ Comes(FrameIn("echo_rep", f.dst, None, f.n))
    <3>1. f = FrameOut("echo_req", f.dst, Mac[f.dst], f.n)
      BY <2>2, <2>5 DEF SentFrames, FrameOut
    <3>2. Honest(FrameIn("echo_rep", f.dst, None, f.n))
      BY <2>1, <2>3, <3>1 DEF Honest, Frames, FrameIn, ArpTypes
    <3>. QED  BY <2>5, <3>2, ComesStep
  <2>. QED  BY <2>1, <2>4, <2>5 DEF HostAnswers
<1>. QED  BY <1>1, <1>2

\* "ip set".
LEMMA SetIpStep ==
  ASSUME Inv, NEW c \in Configs, SetIp(c)
  PROVE  Inv'
<1>1. TypeOK'
  BY DEF SetIp, Inv, TypeOK
<1>2. CacheSound' /\ Routed' /\ OkMeansAlive' /\ ResolveHears' /\ Arrived' /\ Read' /\ Waiting'
  BY DEF SetIp, Inv, CacheSound, Routed, OkMeansAlive, ResolveHears, Arrived, Read, Honest, Waiting
<1>. QED  BY <1>1, <1>2 DEF Inv

\* The beginning of a ping.
LEMMA PingStep ==
  ASSUME Inv, NEW h \in Hosts, Ping(h)
  PROVE  Inv'
<1>1. /\ UNCHANGED <<conf, arp, ring, rok, came>> /\ pings' \in 0 .. MaxPings
      /\ dest' = h /\ seen' = {} /\ pc = "idle"
  BY NetConstants DEF Ping, Inv, TypeOK
<1>2. /\ sent' \subseteq SentFrames /\ Routed' /\ sent \subseteq sent'
      /\ pc' \in {"idle", "resolve", "direct", "net_poll"} /\ left' \in Nat
      /\ ret' \in {"none", "route"} /\ Waiting'
  <2>0. sent \subseteq SentFrames /\ Routed
    BY DEF Inv, TypeOK
  <2>1. CASE Target(h) = None /\ Return("route") /\ UNCHANGED sent
    BY <2>0, <2>1 DEF Return, Routed, Waiting
  <2>2. CASE Target(h) \in Known /\ SendEcho(MacOf(Target(h)))
    <3>1. PICK i \in 1 .. Len(arp) : MacOf(Target(h)) = arp[i].mac /\ arp[i].ip = Target(h)
      BY <2>2 DEF Known, MacOf
    <3>2. Target(h) \in Lan /\ MacOf(Target(h)) = Mac[Target(h)]
      <4>1. arp \in Seq(ArpEntry) /\ arp[i].mac = Mac[arp[i].ip]
        BY DEF Inv, TypeOK, CacheSound
      <4>2. arp[i] \in ArpEntry
        BY <4>1
      <4>. QED  BY <3>1, <4>1, <4>2 DEF ArpEntry
    <3>3. MacOf(Target(h)) = Mac[h]
      BY <3>2, HopLeads, NetConstants DEF Inv, TypeOK
    <3>4. /\ sent' = sent \cup {FrameOut("echo_req", h, Mac[h], pings')}
          /\ pc' = "direct" /\ left' = PingPolls /\ ret' = "none"
      BY <1>1, <2>2, <3>3 DEF SendEcho
    <3>5. Routed' /\ sent' \subseteq SentFrames
      BY <1>1, <2>0, <3>4, EchoRouted DEF Routed
    <3>6. Waiting'
      BY <1>1, <3>2, <3>4, NetConstants DEF Waiting, Target
    <3>. QED  BY <3>4, <3>5, <3>6, NetConstants
  <2>3. CASE /\ Target(h) \notin Known \cup {None}
             /\ sent' = sent \cup {FrameOut("arp_req", Target(h), "all", pings')}
             /\ pc' = "resolve" /\ left' = ArpPolls /\ ret' = "none"
    <3>1. Target(h) \in Lan /\ Target(h) \in Hosts
      BY <2>3, HopLeads, NetConstants DEF Inv, TypeOK
    <3>2. /\ FrameOut("arp_req", Target(h), "all", pings') \in SentFrames
          /\ FrameOut("arp_req", Target(h), "all", pings').to = "all"
      BY <1>1, <3>1 DEF FrameOut, SentFrames
    <3>3. Routed' /\ sent' \subseteq SentFrames
      BY <2>0, <2>3, <3>2 DEF Routed
    <3>4. Waiting'
      BY <1>1, <2>3, <3>1, NetConstants DEF Waiting, Target, NoneHeard
    <3>. QED  BY <2>3, <3>3, <3>4, NetConstants
  <2>. QED  BY <2>1, <2>2, <2>3 DEF Ping
<1>3. TypeOK'
  BY <1>1, <1>2 DEF Inv, TypeOK
<1>4. Arrived' /\ Read'
  BY <1>1, <1>2 DEF Inv, Arrived, Read, Honest
<1>5. CacheSound' /\ OkMeansAlive' /\ ResolveHears'
  BY <1>1, <1>2 DEF Inv, CacheSound, OkMeansAlive, ResolveHears
<1>. QED  BY <1>2, <1>3, <1>4, <1>5 DEF Inv

\* A poll of the card that reads a frame, while nothing sent is forgotten.
LEMMA PollStep ==
  ASSUME Inv, NEW f, Polls(f), sent \subseteq sent'
  PROVE  /\ Honest(f)
         /\ ring' \in Seq(Frames) /\ Len(ring') <= RingSize /\ rok' \in {0, 1}
         /\ seen' \subseteq Frames /\ Arrived' /\ Read'
<1>1. ring \in Seq(Frames) /\ ring # <<>> /\ f = ring[1] /\ ring' = Tail(ring)
  BY DEF Polls, Inv, TypeOK
<1>2. /\ Len(ring) \in Nat \ {0} /\ ring' \in Seq(Frames) /\ Len(ring') = Len(ring) - 1
      /\ \A i \in 1 .. Len(ring') : ring'[i] = ring[i + 1] /\ i + 1 \in 1 .. Len(ring)
  BY <1>1
<1>3. Honest(f)
  BY <1>1, <1>2 DEF Inv, Arrived
<1>4. \A g : Honest(g) => Honest(g)'
  BY DEF Honest
<1>5. Arrived'
  BY <1>2, <1>4 DEF Inv, Arrived
<1>6. seen' = seen \cup {g \in {f} : g.src \in {dest, Target(dest)}}
  BY DEF Polls
<1>7. Read' /\ seen' \subseteq Frames
  BY <1>3, <1>4, <1>6 DEF Inv, TypeOK, Read, Honest
<1>8. Len(ring') <= RingSize /\ rok' \in {0, 1}
  BY <1>2, NetConstants DEF Inv, TypeOK, Polls
<1>. QED  BY <1>2, <1>3, <1>5, <1>7, <1>8

\* A poll that reads none.
LEMMA EmptyPollStep ==
  ASSUME Inv, PollsNothing, sent' = sent
  PROVE  /\ ring' \in Seq(Frames) /\ Len(ring') <= RingSize /\ rok' \in {0, 1}
         /\ seen' \subseteq Frames /\ Arrived' /\ Read'
BY DEF Inv, TypeOK, PollsNothing, Arrived, Read, Honest

\* One turn of arp_resolve.
LEMMA ResolveStep ==
  ASSUME Inv, Resolve
  PROVE  Inv'
<1>1. /\ pc = "resolve" /\ UNCHANGED <<conf, dest, pings, came>> /\ dest \in Hosts
      /\ left \in Nat \ {0} /\ ret = "none" /\ Target(dest) \in Lan
      /\ NoneHeard \/ Len(arp) = CacheSize
  BY DEF Resolve, Inv, Waiting
<1>2. Target(dest)' = Target(dest)
  BY <1>1 DEF Target
<1>3. CASE /\ PollsNothing /\ UNCHANGED <<arp, sent>>
           /\ IF left = 1 THEN Return("arp") ELSE left' = left - 1 /\ UNCHANGED <<pc, ret>>
  <2>1. /\ left' \in Nat /\ pc' \in {"idle", "resolve"} /\ ret' \in {"none", "arp"}
        /\ pc' = "resolve" => left' # 0 /\ ret' = "none"
        /\ seen' = seen
    BY <1>1, <1>3 DEF Return, PollsNothing
  <2>2. TypeOK' /\ Arrived' /\ Read'
    <3>1. /\ ring' \in Seq(Frames) /\ Len(ring') <= RingSize /\ rok' \in {0, 1}
          /\ seen' \subseteq Frames /\ Arrived' /\ Read'
      BY <1>3, EmptyPollStep
    <3>. QED  BY <1>1, <1>3, <2>1, <3>1 DEF Inv, TypeOK
  <2>3. CacheSound' /\ Routed' /\ OkMeansAlive'
    BY <1>1, <1>3, <2>1 DEF Inv, CacheSound, Routed, OkMeansAlive
  <2>4. ResolveHears' /\ Waiting'
    BY <1>1, <1>2, <1>3, <2>1 DEF ResolveHears, Waiting, NoneHeard, ArpTypes
  <2>. QED  BY <2>2, <2>3, <2>4 DEF Inv
<1>4. ASSUME NEW f, Polls(f), arp' = CacheAfter(f),
             LET got == {i \in 1 .. Len(arp') : arp'[i].ip = Target(dest)} IN
             IF got # {}
             THEN /\ sent' = sent \cup Answers(f)
                       \cup {FrameOut("echo_req", dest, arp'[CHOOSE i \in got : TRUE].mac, pings)}
                  /\ pc' = "direct" /\ left' = PingPolls /\ UNCHANGED ret
             ELSE /\ sent' = sent \cup Answers(f)
                  /\ IF left = 1 THEN Return("arp")
                     ELSE left' = left - 1 /\ UNCHANGED <<pc, ret>>
      PROVE  Inv'
  <2>. DEFINE got == {i \in 1 .. Len(arp') : arp'[i].ip = Target(dest)}
  <2>1. sent \subseteq sent'
    BY <1>4
  <2>2. /\ Honest(f) /\ ring' \in Seq(Frames) /\ Len(ring') <= RingSize /\ rok' \in {0, 1}
        /\ seen' \subseteq Frames /\ Arrived' /\ Read'
    BY <1>4, <2>1, PollStep
  <2>3. /\ CacheOK(arp')
        /\ f.type \in ArpTypes => (\E i \in 1 .. Len(arp') : arp'[i].ip = f.src)
                                    \/ Len(arp') = CacheSize
        /\ Len(arp) = CacheSize => Len(arp') = CacheSize
    <3>1. CacheOK(arp)
      BY CacheInInv DEF Inv, TypeOK
    <3>. QED  BY <1>4, <2>2, <3>1, CacheAfterSound
  <2>4. arp' \in Seq(ArpEntry) /\ Len(arp') <= CacheSize /\ CacheSound'
    BY <2>3 DEF CacheOK, CacheSound
  <2>5. /\ sent \subseteq SentFrames /\ Routed
        /\ \A g \in Answers(f) : g \in SentFrames /\ g.to = Mac[g.dst]
    BY <2>2, AnswersRouted DEF Inv, TypeOK
  <2>6. CASE got # {}
    <3>1. PICK i \in 1 .. Len(arp') :
            /\ arp'[i].ip = Target(dest)
            /\ sent' = sent \cup Answers(f) \cup {FrameOut("echo_req", dest, arp'[i].mac, pings)}
      BY <1>4, <2>6
    <3>2. arp'[i].mac = Mac[dest]
      <4>1. arp'[i].mac = Mac[Target(dest)]
        BY <2>3, <3>1 DEF CacheOK
      <4>2. Target(dest) # None
        BY <1>1, NetConstants
      <4>. QED  BY <1>1, <4>1, <4>2, HopLeads DEF Inv, TypeOK
    <3>3. sent' \subseteq SentFrames /\ Routed'
      <4>1. pings \in 0 .. MaxPings
        BY DEF Inv, TypeOK
      <4>. QED  BY <1>1, <2>5, <3>1, <3>2, <4>1, EchoRouted DEF Routed
    <3>4. pc' = "direct" /\ left' = PingPolls /\ ret' = "none"
      BY <1>1, <1>4, <2>6
    <3>5. TypeOK'
      BY <1>1, <2>2, <2>4, <3>3, <3>4, NetConstants DEF Inv, TypeOK
    <3>6. OkMeansAlive' /\ ResolveHears' /\ Waiting'
      BY <1>1, <1>2, <3>4, NetConstants DEF OkMeansAlive, ResolveHears, Waiting
    <3>. QED  BY <2>2, <2>4, <3>3, <3>5, <3>6 DEF Inv
  <2>7. CASE got = {}
    <3>1. /\ sent' = sent \cup Answers(f)
          /\ left' \in Nat /\ pc' \in {"idle", "resolve"} /\ ret' \in {"none", "arp"}
          /\ pc' = "resolve" => left' # 0 /\ ret' = "none"
      BY <1>1, <1>4, <2>7 DEF Return
    <3>2. sent' \subseteq SentFrames /\ Routed'
      BY <2>5, <3>1 DEF Routed
    <3>3. NoneHeard' \/ Len(arp') = CacheSize
      <4>1. seen' \subseteq seen \cup {f}
        BY <1>4 DEF Polls
      <4>2. f.type \in ArpTypes /\ f.src = Target(dest) => Len(arp') = CacheSize
        BY <2>3, <2>7
      <4>. QED  BY <1>1, <1>2, <2>3, <4>1, <4>2 DEF NoneHeard
    <3>4. TypeOK'
      BY <1>1, <2>2, <2>4, <3>1, <3>2 DEF Inv, TypeOK
    <3>5. OkMeansAlive' /\ ResolveHears' /\ Waiting'
      BY <1>1, <1>2, <3>1, <3>3 DEF OkMeansAlive, ResolveHears, Waiting, NoneHeard, ArpTypes
    <3>. QED  BY <2>2, <2>4, <3>2, <3>4, <3>5 DEF Inv
  <2>. QED  BY <2>6, <2>7
<1>. QED  BY <1>3, <1>4 DEF Resolve

\* The end of a turn of net_ping's loop.
LEMMA TurnEnds ==
  ASSUME Inv, pc \in {"direct", "net_poll"}, NextTurn
  PROVE  /\ left' \in Nat /\ pc' \in {"idle", "direct"} /\ ret' \in {"none", "echo"}
         /\ pc' = "direct" => left' # 0 /\ ret' = "none"
BY DEF NextTurn, Return, Inv, Waiting

\* The loop's own poll.
LEMMA DirectStep ==
  ASSUME Inv, DirectPoll
  PROVE  Inv'
<1>1. /\ pc = "direct" /\ UNCHANGED <<conf, arp, sent, dest, pings, came>> /\ dest \in Hosts
      /\ left \in Nat \ {0} /\ ret = "none" /\ Target(dest) \in Lan
  BY DEF DirectPoll, Inv, Waiting
<1>2. Target(dest)' = Target(dest)
  BY <1>1 DEF Target
<1>3. /\ ring' \in Seq(Frames) /\ Len(ring') <= RingSize /\ rok' \in {0, 1}
      /\ seen' \subseteq Frames /\ Arrived' /\ Read'
  <2>1. PollsNothing \/ \E f : Polls(f)
    BY DEF DirectPoll
  <2>. QED  BY <1>1, <2>1, PollStep, EmptyPollStep
<1>4. /\ left' \in Nat /\ pc' \in {"idle", "direct", "net_poll"}
      /\ ret' \in {"none", "echo", "ok"}
      /\ pc' # "idle" => left' # 0 /\ ret' = "none"
  BY <1>1, TurnEnds DEF DirectPoll, Return
<1>5. OkMeansAlive'
  <2>. SUFFICES ASSUME ret' = "ok" PROVE OkMeansAlive'
    BY DEF OkMeansAlive
  <2>1. PICK f : Polls(f) /\ IsReply(f)
    BY <1>1, TurnEnds DEF DirectPoll
  <2>2. f \in seen' /\ f.type = "echo_rep" /\ f.src = dest
    BY <2>1 DEF Polls, IsReply
  <2>3. Honest(f)'
    BY <1>3, <2>2 DEF Read
  <2>. QED  BY <1>1, <2>2, <2>3 DEF OkMeansAlive, Honest
<1>6. TypeOK'
  BY <1>1, <1>3, <1>4 DEF Inv, TypeOK
<1>7. CacheSound' /\ Routed' /\ ResolveHears' /\ Waiting'
  BY <1>1, <1>2, <1>4 DEF Inv, CacheSound, Routed, ResolveHears, Waiting
<1>. QED  BY <1>3, <1>5, <1>6, <1>7 DEF Inv

\* The net_poll at the end of a turn.
LEMMA NetPollStep ==
  ASSUME Inv, NetPoll
  PROVE  Inv'
<1>1. /\ pc = "net_poll" /\ UNCHANGED <<conf, dest, pings, came>> /\ dest \in Hosts
      /\ left \in Nat \ {0} /\ ret = "none" /\ Target(dest) \in Lan /\ NextTurn
  BY DEF NetPoll, Inv, Waiting
<1>2. Target(dest)' = Target(dest)
  BY <1>1 DEF Target
<1>3. /\ left' \in Nat /\ pc' \in {"idle", "direct"} /\ ret' \in {"none", "echo"}
      /\ pc' = "direct" => left' # 0 /\ ret' = "none"
  BY <1>1, TurnEnds
<1>4. /\ ring' \in Seq(Frames) /\ Len(ring') <= RingSize /\ rok' \in {0, 1}
      /\ seen' \subseteq Frames /\ Arrived' /\ Read'
      /\ arp' \in Seq(ArpEntry) /\ Len(arp') <= CacheSize /\ CacheSound'
      /\ sent' \subseteq SentFrames /\ Routed'
  <2>0. CacheOK(arp) /\ sent \subseteq SentFrames /\ Routed
    BY CacheInInv DEF Inv, TypeOK
  <2>1. CASE PollsNothing /\ UNCHANGED <<arp, sent>>
    <3>1. arp' \in Seq(ArpEntry) /\ Len(arp') <= CacheSize /\ CacheSound' /\ Routed'
      BY <2>0, <2>1 DEF Inv, TypeOK, CacheSound, Routed
    <3>. QED  BY <2>0, <2>1, <3>1, EmptyPollStep
  <2>2. ASSUME NEW f, Polls(f), arp' = CacheAfter(f), sent' = sent \cup Answers(f)
        PROVE  /\ ring' \in Seq(Frames) /\ Len(ring') <= RingSize /\ rok' \in {0, 1}
               /\ seen' \subseteq Frames /\ Arrived' /\ Read'
               /\ arp' \in Seq(ArpEntry) /\ Len(arp') <= CacheSize /\ CacheSound'
               /\ sent' \subseteq SentFrames /\ Routed'
    <3>1. /\ Honest(f) /\ ring' \in Seq(Frames) /\ Len(ring') <= RingSize
          /\ rok' \in {0, 1} /\ seen' \subseteq Frames /\ Arrived' /\ Read'
      BY <2>2, PollStep
    <3>2. CacheOK(arp')
      BY <2>0, <2>2, <3>1, CacheAfterSound
    <3>3. arp' \in Seq(ArpEntry) /\ Len(arp') <= CacheSize /\ CacheSound'
      BY <3>2 DEF CacheOK, CacheSound
    <3>4. sent' \subseteq SentFrames /\ Routed'
      BY <2>0, <2>2, <3>1, AnswersRouted DEF Routed
    <3>. QED  BY <3>1, <3>3, <3>4
  <2>. QED  BY <2>1, <2>2 DEF NetPoll
<1>5. TypeOK'
  BY <1>1, <1>3, <1>4 DEF Inv, TypeOK
<1>6. OkMeansAlive' /\ ResolveHears' /\ Waiting'
  BY <1>1, <1>2, <1>3 DEF OkMeansAlive, ResolveHears, Waiting
<1>. QED  BY <1>4, <1>5, <1>6 DEF Inv

\* Every step keeps the invariant.
LEMMA NetStep == Inv /\ [Next]_vars => Inv'
<1>. SUFFICES ASSUME Inv, [Next]_vars PROVE Inv'
  OBVIOUS
<1>1. CASE Kernel
  BY <1>1, ResolveStep, DirectStep, NetPollStep DEF Kernel
<1>2. CASE \E c \in Configs : SetIp(c)
  BY <1>2, SetIpStep
<1>3. CASE \E h \in Hosts : Ping(h)
  BY <1>3, PingStep
<1>4. CASE \/ \E h \in Hosts, d \in Us \cup {None} : HostAsks(h, d)
           \/ \E f \in sent : HostAnswers(f)
  BY <1>4, NetworkStep
<1>5. CASE UNCHANGED vars
  <2>1. TypeOK' /\ Arrived' /\ Read' /\ Waiting'
    BY <1>5 DEF vars, Inv, TypeOK, Arrived, Read, Honest, Waiting, NoneHeard, Target
  <2>2. CacheSound' /\ Routed' /\ OkMeansAlive' /\ ResolveHears'
    BY <1>5 DEF vars, Inv, CacheSound, Routed, OkMeansAlive, ResolveHears, Target
  <2>. QED  BY <2>1, <2>2 DEF Inv
<1>. QED  BY <1>1, <1>2, <1>3, <1>4, <1>5 DEF Next

LEMMA Inductive == Spec => []Inv
<1>. QED  BY NetInit, NetStep, PTL DEF Spec

-----------------------------------------------------------------------------
(* The results.                                                            *)

\* Types, and with them the limits of the cache and of the card's ring.
THEOREM TypeCorrect == Spec => []TypeOK
<1>1. Inv => TypeOK
  BY DEF Inv
<1>. QED  BY <1>1, Inductive, PTL

\* The ARP cache holds every address once, with its owner's station.
THEOREM CacheCorrect == Spec => []CacheSound
<1>1. Inv => CacheSound
  BY DEF Inv
<1>. QED  BY <1>1, Inductive, PTL

\* Every frame goes to everyone or towards its destination.
THEOREM RoutingCorrect == Spec => []Routed
<1>1. Inv => Routed
  BY DEF Inv
<1>. QED  BY <1>1, Inductive, PTL

\* "Ping OK" is only said of a destination that has answered us.
THEOREM PingSound == Spec => []OkMeansAlive
<1>1. Inv => OkMeansAlive
  BY DEF Inv
<1>. QED  BY <1>1, Inductive, PTL

\* A resolution fails only unheard or with a full cache.
THEOREM ResolutionHears == Spec => []ResolveHears
<1>1. Inv => ResolveHears
  BY DEF Inv
<1>. QED  BY <1>1, Inductive, PTL
=============================================================================
