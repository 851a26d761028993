------------------------------- MODULE Tunnel -------------------------------
(***************************************************************************)
(* The packet tunnel of service/tunnel.go and the packet pool and read     *)
(* loop of vpn/vpn.go.                                                     *)
(*                                                                         *)
(* Two tables, peerIDToPeer and netIPToPeer, lead from a peer id and from  *)
(* an IPv4 address to a VpnPeer object: two buffered channels and the      *)
(* goroutines that empty them.  RefreshPeersList rebuilds the tables from  *)
(* the configuration each time a KnownPeerChanged event is consumed.  The  *)
(* TUN reader, one stream handler per remote peer, the handlers of every   *)
(* VpnPeer, the refresher and Close all run concurrently; peersLock is the *)
(* only thing between a sender and the close of the channel it sends on.   *)
(*                                                                         *)
(* A packet is the identity of a pooled *vpn.Packet; its bytes do not      *)
(* matter here, only where it is headed and who owns it.  A VpnPeer is the *)
(* identity of the object, so that an object closed by one refresh and its *)
(* successor for the same peer id are told apart.                          *)
(***************************************************************************)
EXTENDS Naturals, Sequences, FiniteSets

CONSTANTS
    PeerID,     \* remote peers
    IP,         \* addresses that net.ParseIP(..).To4() accepts
    VpnPeers,   \* identities of VpnPeer objects
    Packets,    \* identities of pooled packets
    NoPeer,     \* nil *VpnPeer, a missing map entry
    NoPacket,   \* nil *vpn.Packet
    Unknown,    \* the peer id is not a key of conf.KnownPeers
    BadIP,      \* an IPAddr string that does not parse
    Broadcast,  \* destination is udpBroadcastAddr or 255.255.255.255
    NoRoute,    \* any other destination (IPv6, outside the VPN, no packet)
    ChanCap,    \* packetHandlersChanCap
    TunBatch,   \* tun.BatchSize(): slots of ReadTUNPackets
    BatchSize,  \* largest batch a handler takes from its channel
    MaxBehind,  \* configuration changes the refresher may lag behind
    Malformed   \* may a packet from a remote peer fail Packet.Parse?

ASSUME NilsAreDistinct ==
    /\ NoPeer \notin VpnPeers /\ NoPacket \notin Packets
    /\ Unknown \notin IP /\ BadIP \notin IP /\ Unknown # BadIP
    /\ Broadcast \notin IP /\ NoRoute \notin IP /\ Broadcast # NoRoute
    /\ "tun" \notin PeerID

ASSUME BoundsAreNat ==
    /\ {ChanCap, TunBatch, BatchSize, MaxBehind} \subseteq Nat \ {0}
    /\ Malformed \in BOOLEAN

VARIABLES
    known,       \* conf.KnownPeers, as the IPAddr of each peer
    events,      \* KnownPeerChanged events waiting in the subscription
    subscribed,  \* the goroutine of WrapSubscriptionToCallback is running
    peerIDToPeer, netIPToPeer,  \* the two tables of Tunnel
    vp,          \* each VpnPeer object with the batches of its goroutines
    rpc, todo,   \* RefreshPeersList: where it is, peers left to visit
    closePc,     \* Application.Close, as far as the tunnel sees it
    readers,     \* holders of peersLock.RLock
    pool,        \* how many times each packet is in packetsPool
    tun,         \* ReadTUNPackets and HandleReadPackets
    str          \* StreamHandler, for each remote peer

confVars  == <<known, events, subscribed>>
tableVars == <<peerIDToPeer, netIPToPeer, vp>>
lockVars  == <<rpc, todo, closePc, readers>>
vars == <<confVars, tableVars, lockVars, pool, tun, str>>

Slots == 1..TunBatch
Dsts  == IP \cup {Broadcast, NoRoute}

VpnPeer ==
    [status : {"unused", "running", "closed"},
     peerID : PeerID \cup {Unknown}, localIP : IP \cup {Unknown},
     inboundCh : Seq(Packets), outboundCh : Seq(Packets),
     inBatch : Seq(Packets), outBatch : Seq(Packets),  \* packets in hand
     inRun : BOOLEAN, outRun : BOOLEAN]                \* goroutine is alive

TunReader ==
    [pc : {"fill", "lock", "scan", "send", "bcast", "stopped"},
     packets : [Slots -> Packets \cup {NoPacket}], dst : [Slots -> Dsts],
     i : 1..(TunBatch + 1), to : SUBSET VpnPeers]

StreamReader ==
    [pc : {"idle", "get", "read", "send"},
     packet : Packets \cup {NoPacket}, to : VpnPeers \cup {NoPeer}]

TypeOK ==
    /\ known \in [PeerID -> IP \cup {Unknown, BadIP}]
    /\ events \in 0..MaxBehind /\ subscribed \in BOOLEAN
    /\ peerIDToPeer \in [PeerID -> VpnPeers \cup {NoPeer}]
    /\ netIPToPeer \in [IP -> VpnPeers \cup {NoPeer}]
    /\ vp \in [VpnPeers -> VpnPeer]
    /\ rpc \in {"idle", "lock", "visit", "prune"} /\ todo \in SUBSET PeerID
    /\ closePc \in {"open", "cancelled", "lock", "closing", "closed"}
    /\ readers \in SUBSET (PeerID \cup {"tun"})
    /\ pool \in [Packets -> Nat]
    /\ tun \in TunReader
    /\ str \in [PeerID -> StreamReader]

(* NewTunnel is done, on a configuration file whose only peers, if any,    *)
(* have an address that does not parse; ReadTUNPackets is about to run.    *)
Init ==
    /\ known \in [PeerID -> {Unknown, BadIP}]
    /\ events = 0 /\ subscribed = TRUE
    /\ peerIDToPeer = [p \in PeerID |-> NoPeer]
    /\ netIPToPeer = [ip \in IP |-> NoPeer]
    /\ vp = [v \in VpnPeers |->
                [status |-> "unused", peerID |-> Unknown, localIP |-> Unknown,
                 inboundCh |-> <<>>, outboundCh |-> <<>>, inBatch |-> <<>>, outBatch |-> <<>>,
                 inRun |-> FALSE, outRun |-> FALSE]]
    /\ rpc = "idle" /\ todo = {} /\ closePc = "open" /\ readers = {}
    /\ pool = [pk \in Packets |-> 1]
    /\ tun = [pc |-> "fill", packets |-> [i \in Slots |-> NoPacket],
              dst |-> [i \in Slots |-> NoRoute], i |-> 1, to |-> {}]
    /\ str = [p \in PeerID |-> [pc |-> "idle", packet |-> NoPacket, to |-> NoPeer]]

-----------------------------------------------------------------------------
(* peersLock, a sync.RWMutex: a waiting writer keeps new readers out.      *)

WriterHolds == rpc \in {"visit", "prune"} \/ closePc = "closing"
CanRLock    == ~WriterHolds /\ rpc # "lock" /\ closePc # "lock"
CanLock_IgnoresReaders == ~WriterHolds  \* faulty variant
CanLock     == ~WriterHolds /\ readers = {}

(* packetsPool: GetTempPacket, and PutTempPacket of all packets of s and t.*)
Get(pk) == pool[pk] > 0 /\ pool' = [pool EXCEPT ![pk] = @ - 1]
Occurrences(s, pk) == Cardinality({i \in DOMAIN s : s[i] = pk})
PutBoth(s, t) == [pk \in Packets |-> pool[pk] + Occurrences(s, pk) + Occurrences(t, pk)]
PutAll(s) == PutBoth(s, <<>>)

-----------------------------------------------------------------------------
(* The configuration, as the tunnel sees it: UpsertPeer, with an address   *)
(* that CheckIPUnique has passed, and RemovePeer.  Both need conf.Lock,    *)
(* which a refresh keeps busy, and end with an Emit.                       *)

ConfUnlocked == rpc \notin {"visit", "prune"}
Behind == events + (IF rpc = "lock" THEN 1 ELSE 0)

Emit_Lost == UNCHANGED events  \* faulty variant
Emit == IF subscribed THEN Behind < MaxBehind /\ events' = events + 1 ELSE UNCHANGED events

UpsertPeer(p, ip) ==
    /\ ConfUnlocked
    /\ \A q \in PeerID \ {p} : known[q] # ip
    /\ known' = [known EXCEPT ![p] = ip]
    /\ Emit
    /\ UNCHANGED <<subscribed, tableVars, lockVars, pool, tun, str>>

RemovePeer(p) ==
    /\ ConfUnlocked
    /\ known[p] # Unknown
    /\ known' = [known EXCEPT ![p] = Unknown]
    /\ Emit
    /\ UNCHANGED <<subscribed, tableVars, lockVars, pool, tun, str>>

-----------------------------------------------------------------------------
(* RefreshPeersList, called by the goroutine of WrapSubscriptionToCallback *)
(* once per event.  Go visits a map in no particular order.                *)

RefreshCalled ==
    /\ rpc = "idle" /\ subscribed /\ events > 0
    /\ events' = events - 1 /\ rpc' = "lock"
    /\ UNCHANGED <<known, subscribed, tableVars, todo, closePc, readers, pool, tun, str>>

RefreshLock ==
    /\ rpc = "lock" /\ CanLock
    /\ rpc' = "visit" /\ todo' = {p \in PeerID : known[p] # Unknown}
    /\ UNCHANGED <<confVars, tableVars, closePc, readers, pool, tun, str>>

(* One known peer; what happens to it is one of the next three.            *)
Visit(p) ==
    /\ rpc = "visit" /\ p \in todo /\ todo' = todo \ {p}
    /\ UNCHANGED <<confVars, rpc, closePc, readers, pool, tun, str>>

(* The address does not parse, or nothing changed: continue.               *)
RefreshSkip(p) ==
    /\ Visit(p)
    /\ \/ known[p] = BadIP
       \/ peerIDToPeer[p] # NoPeer /\ vp[peerIDToPeer[p]].localIP = known[p]
    /\ UNCHANGED tableVars

(* netIPToPeer once a peer that had address old is registered under new.   *)
Moved_KeepsOld(old, new, v) == [netIPToPeer EXCEPT ![new] = v]        \* faulty variant
Moved_ForgetsNew(old, new, v) == [netIPToPeer EXCEPT ![old] = NoPeer] \* faulty variant
Moved(old, new, v) == [netIPToPeer EXCEPT ![old] = NoPeer, ![new] = v]

(* changed IP                                                              *)
RefreshMove(p) ==
    LET v == peerIDToPeer[p] IN
    /\ Visit(p)
    /\ known[p] # BadIP /\ v # NoPeer /\ vp[v].localIP # known[p]
    /\ netIPToPeer' = Moved(vp[v].localIP, known[p], v)
    /\ vp' = [vp EXCEPT ![v].localIP = known[p]]
    /\ UNCHANGED peerIDToPeer

(* A VpnPeer object nothing refers to: never allocated, or closed with its *)
(* goroutines gone.                                                        *)
Allocatable(v) ==
    \/ vp[v].status = "unused"
    \/ vp[v].status = "closed" /\ ~vp[v].inRun /\ ~vp[v].outRun

NewVpnPeer(old, p, ip) ==
    [old EXCEPT !.status = "running", !.peerID = p, !.localIP = ip, !.inRun = TRUE, !.outRun = TRUE]

(* add new peer: NewVpnPeer, both tables, Start                            *)
RefreshAdd(p) ==
    /\ Visit(p)
    /\ known[p] # BadIP /\ peerIDToPeer[p] = NoPeer
    /\ \E v \in VpnPeers :
        /\ Allocatable(v)
        /\ vp' = [vp EXCEPT ![v] = NewVpnPeer(vp[v], p, known[p])]
        /\ peerIDToPeer' = [peerIDToPeer EXCEPT ![p] = v]
        /\ netIPToPeer' = [netIPToPeer EXCEPT ![known[p]] = v]

RefreshVisited ==
    /\ rpc = "visit" /\ todo = {}
    /\ rpc' = "prune" /\ todo' = {p \in PeerID : peerIDToPeer[p] # NoPeer}
    /\ UNCHANGED <<confVars, tableVars, closePc, readers, pool, tun, str>>

(* VpnPeer.Close and the removal from both tables: the channels are closed *)
(* and what is left in them goes back to the pool.                         *)
CloseVpnPeer(p) ==
    LET v == peerIDToPeer[p] IN
    /\ pool' = PutBoth(vp[v].inboundCh, vp[v].outboundCh)
    /\ vp' = [vp EXCEPT ![v] = [@ EXCEPT !.status = "closed", !.inboundCh = <<>>,
                                         !.outboundCh = <<>>]]
    /\ peerIDToPeer' = [peerIDToPeer EXCEPT ![p] = NoPeer]
    /\ netIPToPeer' = [netIPToPeer EXCEPT ![vp[v].localIP] = NoPeer]

(* delete unknown peers                                                    *)
RefreshPrune(p) ==
    /\ rpc = "prune" /\ p \in todo /\ todo' = todo \ {p}
    /\ IF known[p] # Unknown THEN UNCHANGED <<tableVars, pool>> ELSE CloseVpnPeer(p)
    /\ UNCHANGED <<confVars, rpc, closePc, readers, tun, str>>

RefreshUnlock ==
    /\ rpc = "prune" /\ todo = {} /\ rpc' = "idle"
    /\ UNCHANGED <<confVars, tableVars, todo, closePc, readers, pool, tun, str>>

-----------------------------------------------------------------------------
(* Application.Close: ctxCancel first, Tunnel.Close after the API is down. *)

CloseStep(from, to) ==
    /\ closePc = from /\ closePc' = to
    /\ UNCHANGED <<confVars, tableVars, rpc, todo, readers, pool, tun, str>>

CtxCancel   == CloseStep("open", "cancelled")
CloseCalled == CloseStep("cancelled", "lock")
CloseLock   == CanLock /\ CloseStep("lock", "closing")
CloseUnlock == (\A p \in PeerID : peerIDToPeer[p] = NoPeer) /\ CloseStep("closing", "closed")

ClosePeer(p) ==
    /\ closePc = "closing" /\ peerIDToPeer[p] # NoPeer
    /\ CloseVpnPeer(p)
    /\ UNCHANGED <<confVars, lockVars, tun, str>>

(* The select of WrapSubscriptionToCallback may still prefer a pending     *)
(* event, so this is not forced before the next RefreshCalled.             *)
SubscriptionDone ==
    /\ closePc # "open" /\ subscribed /\ rpc = "idle" /\ subscribed' = FALSE
    /\ UNCHANGED <<known, events, tableVars, lockVars, pool, tun, str>>

-----------------------------------------------------------------------------
(* ReadTUNPackets and, through it, HandleReadPackets.                      *)

TunFill(i) ==
    /\ tun.pc = "fill" /\ tun.packets[i] = NoPacket
    /\ \E pk \in Packets : Get(pk) /\ tun' = [tun EXCEPT !.packets[i] = pk]
    /\ UNCHANGED <<confVars, tableVars, lockVars, str>>

(* tun.Read filled the slots; the packets that do not parse go back to the *)
(* pool and leave a nil slot.                                              *)
TunRead(bad, dst) ==
    /\ tun.pc = "fill" /\ \A i \in Slots : tun.packets[i] # NoPacket
    /\ pool' = PutAll([i \in Slots |-> IF i \in bad THEN tun.packets[i] ELSE NoPacket])
    /\ tun' = [tun EXCEPT !.pc = "lock", !.dst = dst, !.i = 1,
                          !.packets = [i \in Slots |-> IF i \in bad THEN NoPacket ELSE tun.packets[i]]]
    /\ UNCHANGED <<confVars, tableVars, lockVars, str>>

(* tun.Read fails: vpnDevice.Close has closed it, or the device broke.     *)
TunStop ==
    /\ tun.pc = "fill" /\ \A i \in Slots : tun.packets[i] # NoPacket
    /\ tun' = [tun EXCEPT !.pc = "stopped"]
    /\ UNCHANGED <<confVars, tableVars, lockVars, pool, str>>

(* Back to the head of the loop, which clears the packets that were kept.  *)
TunLoop == tun' = [tun EXCEPT !.pc = "fill", !.dst = [i \in Slots |-> NoRoute], !.i = 1]

TunRLock ==
    /\ tun.pc = "lock" /\ CanRLock
    /\ IF closePc = "closed" THEN TunLoop /\ UNCHANGED readers
       ELSE tun' = [tun EXCEPT !.pc = "scan"] /\ readers' = readers \cup {"tun"}
    /\ UNCHANGED <<confVars, tableVars, rpc, todo, closePc, pool, str>>

Routes == {v \in VpnPeers : \E ip \in IP : netIPToPeer[ip] = v}

(* One round of the loop over the slots: fan out, look up, or skip.        *)
TunScan ==
    /\ tun.pc = "scan" /\ tun.i <= TunBatch
    /\ LET dst == tun.dst[tun.i] IN
       \/ /\ tun.packets[tun.i] # NoPacket /\ dst = Broadcast
          /\ tun' = [tun EXCEPT !.pc = "bcast", !.to = Routes]
       \/ /\ tun.packets[tun.i] # NoPacket /\ dst \in IP /\ netIPToPeer[dst] # NoPeer
          /\ tun' = [tun EXCEPT !.pc = "send", !.to = {netIPToPeer[dst]}]
       \/ /\ \/ tun.packets[tun.i] = NoPacket \/ dst = NoRoute
             \/ dst \in IP /\ netIPToPeer[dst] = NoPeer
          /\ tun' = [tun EXCEPT !.i = tun.i + 1]
    /\ UNCHANGED <<confVars, tableVars, lockVars, pool, str>>

HandedOver_Kept(packets, i) == packets  \* faulty variant
HandedOver(packets, i) == [packets EXCEPT ![i] = NoPacket]

(* outboundCh <- packet, or leave the packet in its slot: channel full.    *)
TunSend(v) ==
    /\ tun.pc = "send" /\ v \in tun.to
    /\ IF Len(vp[v].outboundCh) < ChanCap
       THEN /\ vp' = [vp EXCEPT ![v].outboundCh = Append(@, tun.packets[tun.i])]
            /\ tun' = [tun EXCEPT !.pc = "scan", !.i = tun.i + 1, !.to = {},
                                  !.packets = HandedOver(tun.packets, tun.i)]
       ELSE tun' = [tun EXCEPT !.pc = "scan", !.i = tun.i + 1, !.to = {}] /\ UNCHANGED vp
    /\ UNCHANGED <<confVars, peerIDToPeer, netIPToPeer, lockVars, pool, str>>

(* One peer of a broadcast: a copy is sent; or there is no room for it, or *)
(* the peer is not connected.                                              *)
TunBroadcast(v) ==
    /\ tun.pc = "bcast" /\ v \in tun.to
    /\ \/ /\ Len(vp[v].outboundCh) < ChanCap
          /\ \E pk \in Packets :
                Get(pk) /\ vp' = [vp EXCEPT ![v].outboundCh = Append(@, pk)]
       \/ UNCHANGED <<pool, vp>>
    /\ tun' = [tun EXCEPT !.to = tun.to \ {v}]
    /\ UNCHANGED <<confVars, peerIDToPeer, netIPToPeer, lockVars, str>>

TunBroadcastDone ==
    /\ tun.pc = "bcast" /\ tun.to = {}
    /\ tun' = [tun EXCEPT !.pc = "scan", !.i = tun.i + 1]
    /\ UNCHANGED <<confVars, tableVars, lockVars, pool, str>>

TunRUnlock ==
    /\ tun.pc = "scan" /\ tun.i > TunBatch /\ TunLoop
    /\ readers' = readers \ {"tun"}
    /\ UNCHANGED <<confVars, tableVars, rpc, todo, closePc, pool, str>>

-----------------------------------------------------------------------------
(* Tunnel.StreamHandler, one incoming stream per remote peer.  A peer that *)
(* is not in the table is turned away without a step.                      *)

StreamOpen(p) ==
    /\ str[p].pc = "idle" /\ CanRLock /\ peerIDToPeer[p] # NoPeer
    /\ str' = [str EXCEPT ![p].pc = "get"]
    /\ UNCHANGED <<confVars, tableVars, lockVars, pool, tun>>

StreamGet(p) ==
    /\ str[p].pc = "get"
    /\ \E pk \in Packets :
        Get(pk) /\ str' = [str EXCEPT ![p] = [@ EXCEPT !.pc = "read", !.packet = pk]]
    /\ UNCHANGED <<confVars, tableVars, lockVars, tun>>

(* The stream ended or broke, before the size or inside the packet.        *)
StreamEOF(p) ==
    /\ str[p].pc = "read"
    /\ pool' = PutAll(<<str[p].packet>>)
    /\ str' = [str EXCEPT ![p] = [@ EXCEPT !.pc = "idle", !.packet = NoPacket]]
    /\ UNCHANGED <<confVars, tableVars, lockVars, tun>>

(* A packet is in; RLock, and the peer is looked up again.                 *)
StreamReceive(p) ==
    /\ str[p].pc = "read" /\ CanRLock
    /\ readers' = readers \cup {p}
    /\ str' = [str EXCEPT ![p] = [@ EXCEPT !.pc = "send", !.to = peerIDToPeer[p]]]
    /\ UNCHANGED <<confVars, tableVars, rpc, todo, closePc, pool, tun>>

(* inboundCh <- packet, or back to the pool: peer gone, or channel full.   *)
StreamSend(p) ==
    LET v == str[p].to IN
    /\ str[p].pc = "send"
    /\ IF v # NoPeer /\ Len(vp[v].inboundCh) < ChanCap
       THEN vp' = [vp EXCEPT ![v].inboundCh = Append(@, str[p].packet)] /\ UNCHANGED pool
       ELSE pool' = PutAll(<<str[p].packet>>) /\ UNCHANGED vp
    /\ str' = [str EXCEPT ![p] = [pc |-> IF v = NoPeer THEN "idle" ELSE "get",
                                  packet |-> NoPacket, to |-> NoPeer]]
    /\ readers' = readers \ {p}
    /\ UNCHANGED <<confVars, peerIDToPeer, netIPToPeer, rpc, todo, closePc, tun>>

-----------------------------------------------------------------------------
(* The goroutines of a VpnPeer.  Both collect a batch (readBatchFromChan:  *)
(* until the channel is empty or the buffer full), use it, and give every  *)
(* packet of it back to the pool; both end when the channel is closed.     *)

BatchReady(batch, ch) == batch # <<>> /\ (ch = <<>> \/ Len(batch) = BatchSize)
Ended_Never(v, batch) == FALSE  \* faulty variant
Ended(v, batch) == vp[v].status = "closed" /\ batch = <<>>

InReceive(v) ==
    /\ vp[v].inRun /\ vp[v].inboundCh # <<>> /\ Len(vp[v].inBatch) < BatchSize
    /\ vp' = [vp EXCEPT ![v] = [@ EXCEPT !.inBatch = Append(vp[v].inBatch, Head(vp[v].inboundCh)),
                                         !.inboundCh = Tail(vp[v].inboundCh)]]
    /\ UNCHANGED <<confVars, peerIDToPeer, netIPToPeer, lockVars, pool, tun, str>>

(* packetsBatch after the loop that moves the packets that parse to its    *)
(* front, and the packets that loop has put back; packet i parses if ok[i].*)
Filtered(batch, ok) ==
    LET newLen(i) == Cardinality({j \in 1..i : ok[j]})  \* after packet i
    IN  [i \in DOMAIN batch |->
           IF i <= newLen(Len(batch)) THEN batch[CHOOSE j \in DOMAIN batch : ok[j] /\ newLen(j) = i]
           ELSE IF ok[i] THEN batch[i] ELSE NoPacket]
Rejected(batch, ok) == [i \in DOMAIN batch |-> IF ok[i] THEN NoPacket ELSE batch[i]]

ParseResults(batch) ==
    IF Malformed THEN [DOMAIN batch -> BOOLEAN] ELSE {[i \in DOMAIN batch |-> TRUE]}

(* Parse, WritePacketsBatch, and every PutTempPacket of the round.         *)
InProcess(v) ==
    /\ vp[v].inRun /\ BatchReady(vp[v].inBatch, vp[v].inboundCh)
    /\ \E ok \in ParseResults(vp[v].inBatch) :
        pool' = PutBoth(Rejected(vp[v].inBatch, ok), Filtered(vp[v].inBatch, ok))
    /\ vp' = [vp EXCEPT ![v].inBatch = <<>>]
    /\ UNCHANGED <<confVars, peerIDToPeer, netIPToPeer, lockVars, tun, str>>

InExit(v) ==
    /\ vp[v].inRun /\ Ended(v, vp[v].inBatch)
    /\ vp' = [vp EXCEPT ![v].inRun = FALSE]
    /\ UNCHANGED <<confVars, peerIDToPeer, netIPToPeer, lockVars, pool, tun, str>>

OutReceive(v) ==
    /\ vp[v].outRun /\ vp[v].outboundCh # <<>> /\ Len(vp[v].outBatch) < BatchSize
    /\ vp' = [vp EXCEPT ![v] = [@ EXCEPT !.outBatch = Append(vp[v].outBatch, Head(vp[v].outboundCh)),
                                         !.outboundCh = Tail(vp[v].outboundCh)]]
    /\ UNCHANGED <<confVars, peerIDToPeer, netIPToPeer, lockVars, pool, tun, str>>

(* The batch is sent, fails, or is thrown away (not connected): the        *)
(* packets go back to the pool in each case. The stream is left out.       *)
OutProcess(v) ==
    /\ vp[v].outRun /\ BatchReady(vp[v].outBatch, vp[v].outboundCh)
    /\ pool' = PutAll(vp[v].outBatch)
    /\ vp' = [vp EXCEPT ![v].outBatch = <<>>]
    /\ UNCHANGED <<confVars, peerIDToPeer, netIPToPeer, lockVars, tun, str>>

OutExit(v) ==
    /\ vp[v].outRun /\ Ended(v, vp[v].outBatch)
    /\ vp' = [vp EXCEPT ![v].outRun = FALSE]
    /\ UNCHANGED <<confVars, peerIDToPeer, netIPToPeer, lockVars, pool, tun, str>>

-----------------------------------------------------------------------------
Configure == \E p \in PeerID : RemovePeer(p) \/ \E ip \in IP : UpsertPeer(p, ip)

RefreshPeersList ==
    \/ RefreshCalled \/ RefreshLock \/ RefreshVisited \/ RefreshUnlock
    \/ \E p \in PeerID : RefreshSkip(p) \/ RefreshMove(p) \/ RefreshAdd(p) \/ RefreshPrune(p)

Close == CloseCalled \/ CloseLock \/ CloseUnlock \/ \E p \in PeerID : ClosePeer(p)

ReadTUNPackets ==
    \/ TunStop \/ \E i \in Slots : TunFill(i)
    \/ \E bad \in SUBSET Slots, dst \in [Slots -> Dsts] : TunRead(bad, dst)

HandleReadPackets ==
    \/ TunRLock \/ TunScan \/ TunBroadcastDone \/ TunRUnlock
    \/ \E v \in VpnPeers : TunSend(v) \/ TunBroadcast(v)

StreamHandler(p) ==
    StreamOpen(p) \/ StreamGet(p) \/ StreamEOF(p) \/ StreamReceive(p) \/ StreamSend(p)

backgroundInboundHandler(v)  == InReceive(v) \/ InProcess(v) \/ InExit(v)
backgroundOutboundHandler(v) == OutReceive(v) \/ OutProcess(v) \/ OutExit(v)

Next ==
    \/ Configure \/ RefreshPeersList \/ CtxCancel \/ SubscriptionDone \/ Close
    \/ ReadTUNPackets \/ HandleReadPackets
    \/ \E p \in PeerID : StreamHandler(p)
    \/ \E v \in VpnPeers : backgroundInboundHandler(v) \/ backgroundOutboundHandler(v)

Spec == Init /\ [][Next]_vars

(* Goroutines that can run do run.  What the user, the TUN device and the  *)
(* remote peers send is never forced.                                      *)
Fairness ==
    /\ WF_vars(RefreshPeersList) /\ WF_vars(Close) /\ WF_vars(HandleReadPackets)
    /\ \A p \in PeerID : WF_vars(StreamSend(p))
    /\ \A v \in VpnPeers : /\ WF_vars(backgroundInboundHandler(v))
                           /\ WF_vars(backgroundOutboundHandler(v))

FairSpec == Spec /\ Fairness

-----------------------------------------------------------------------------
(* Every route leads to a live VpnPeer that has that very address and that *)
(* peerIDToPeer also knows: HandleReadPackets never hands a packet to a    *)
(* closed object, nor to another peer than the one the address belongs to. *)
RouteSound ==
    \A ip \in IP : netIPToPeer[ip] # NoPeer =>
        LET v == netIPToPeer[ip] IN
        vp[v].status = "running" /\ vp[v].localIP = ip /\ peerIDToPeer[vp[v].peerID] = v

(* No goroutine is about to send on a closed channel (a panic in Go): the  *)
(* VpnPeer that a reader of peersLock has looked up stays open until it    *)
(* has sent, whatever refresh or close wait for the lock.                  *)
SendSafe ==
    /\ \A v \in tun.to : vp[v].status = "running"
    /\ \A p \in PeerID : str[p].to # NoPeer => vp[str[p].to].status = "running"

(* Where a packet object is: in the pool, in a slot of the TUN reader,     *)
(* with a stream handler, in a channel, or in the batch of a handler.      *)
At(s, pk) == {i \in DOMAIN s : s[i] = pk}
Places(pk) ==
    ({<<"pool", NoPeer>>} \X (1..pool[pk])) \cup ({<<"tun", NoPeer>>} \X At(tun.packets, pk))
    \cup ({<<"stream", p>> : p \in {p \in PeerID : str[p].packet = pk}} \X {1})
    \cup UNION {({<<"inboundCh", v>>} \X At(vp[v].inboundCh, pk))
                \cup ({<<"outboundCh", v>>} \X At(vp[v].outboundCh, pk))
                \cup ({<<"inBatch", v>>} \X At(vp[v].inBatch, pk))
                \cup ({<<"outBatch", v>>} \X At(vp[v].outBatch, pk)) : v \in VpnPeers}

(* Every packet object is in exactly one place: never put back twice,      *)
(* never used after it was put back, never lost, across batches, drops,    *)
(* VpnPeer.Close and the shutdown of the tunnel.                           *)
SingleOwner == \A pk \in Packets : Cardinality(Places(pk)) = 1

(* Once the refresher has caught up, every known peer with a valid address *)
(* is reachable under it: what the configuration calls the address used    *)
(* for forwarding is in the forwarding table.                              *)
RoutesComplete ==
    (rpc = "idle" /\ events = 0 /\ subscribed /\ closePc \in {"open", "cancelled"}) =>
        \A p \in PeerID : known[p] \in IP =>
            netIPToPeer[known[p]] # NoPeer /\ netIPToPeer[known[p]] = peerIDToPeer[p]

(* While the application is up, the table of peers follows the             *)
(* configuration: a removed peer loses its tunnel, a peer with a valid     *)
(* address gets one with that address, unless it is changed again.         *)
TableFollowsConfig ==
    /\ \A p \in PeerID :
        known[p] = Unknown ~> known[p] # Unknown \/ closePc # "open" \/ peerIDToPeer[p] = NoPeer
    /\ \A p \in PeerID, ip \in IP :
        known[p] = ip ~> known[p] # ip \/ closePc # "open"
                         \/ (peerIDToPeer[p] # NoPeer /\ vp[peerIDToPeer[p]].localIP = ip)

(* VpnPeer.Close ends the goroutines that Start began.                     *)
HandlersExit == \A v \in VpnPeers : vp[v].status = "closed" ~> ~vp[v].inRun /\ ~vp[v].outRun

=============================================================================
