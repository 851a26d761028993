---------------------------- MODULE TunnelProofs ----------------------------
(***************************************************************************)
(* Proofs about module Tunnel: its type invariant, RouteSound and          *)
(* SendSafe, for any number of peers, addresses, packets and VpnPeer       *)
(* objects, any channel capacity and batch size, and whether or not remote *)
(* packets parse; RoutesComplete, when every change of the configuration   *)
(* has a refresh of its own; and SingleOwner, when remote packets parse.   *)
(***************************************************************************)
EXTENDS Tunnel, FiniteSetTheorems, TLAPS

(* Every entry of peerIDToPeer is a running object of that peer.           *)
TablesOK ==
    \A p \in PeerID : peerIDToPeer[p] # NoPeer =>
        LET v == peerIDToPeer[p] IN
        vp[v].status = "running" /\ vp[v].peerID = p /\ vp[v].localIP \in IP

(* A writer of peersLock is alone, and whoever has looked up a VpnPeer in  *)
(* the tables still holds its read lock.                                   *)
LockOK ==
    /\ WriterHolds => readers = {}
    /\ ~(rpc \in {"visit", "prune"} /\ closePc = "closing")
    /\ \A p \in PeerID : str[p].to # NoPeer => p \in readers
    /\ tun.pc \in {"scan", "send", "bcast"} => "tun" \in readers

(* The peers a refresh still has to visit are the ones its loop is about.  *)
TodoOK ==
    /\ rpc = "visit" => \A p \in todo : known[p] # Unknown
    /\ rpc = "prune" => \A p \in todo : peerIDToPeer[p] # NoPeer

(* A goroutine that is about to send or put back a packet has one.         *)
HandsOK ==
    /\ tun.pc = "bcast" => tun.i <= TunBatch
    /\ tun.pc = "send" => tun.i <= TunBatch /\ tun.packets[tun.i] # NoPacket
    /\ tun.pc \notin {"send", "bcast"} => tun.to = {}
    /\ \A p \in PeerID : str[p].pc \in {"read", "send"} => str[p].packet # NoPacket

IInv == TypeOK /\ TablesOK /\ RouteSound /\ LockOK /\ SendSafe /\ TodoOK /\ HandsOK

-----------------------------------------------------------------------------
(* The number of times a packet occurs in a batch is a natural number.     *)
LEMMA OccurrencesNat ==
    ASSUME NEW s, NEW pk, NEW n \in Nat, DOMAIN s = 1..n
    PROVE  Occurrences(s, pk) \in Nat
<1>1. IsFiniteSet(1..n)
  BY FS_Interval
<1>2. IsFiniteSet({i \in DOMAIN s : s[i] = pk})
  BY <1>1, FS_Subset, Zenon
<1> QED
  BY <1>2, FS_CardinalityType, Zenon DEF Occurrences

(* PutTempPacket leaves the pool a function from packets to counts.        *)
LEMMA PutType ==
    ASSUME pool \in [Packets -> Nat],
           NEW s, NEW m \in Nat, DOMAIN s = 1..m,
           NEW t, NEW n \in Nat, DOMAIN t = 1..n
    PROVE  PutBoth(s, t) \in [Packets -> Nat]
  BY OccurrencesNat DEF PutBoth

LEMMA PutAllType ==
    ASSUME pool \in [Packets -> Nat], NEW s, NEW m \in Nat, DOMAIN s = 1..m
    PROVE  PutAll(s) \in [Packets -> Nat]
<1>1. DOMAIN << >> = 1..0
  OBVIOUS
<1> QED
  BY <1>1, PutType, Zenon DEF PutAll

-----------------------------------------------------------------------------
(* What Start, Close and a change of the batches make of a VpnPeer object. *)
LEMMA Started ==
    ASSUME NEW r \in VpnPeer, NEW p \in PeerID, NEW ip \in IP
    PROVE  LET n == NewVpnPeer(r, p, ip)
           IN  n \in VpnPeer /\ n.status = "running" /\ n.peerID = p /\ n.localIP = ip
  BY Zenon DEF NewVpnPeer, VpnPeer

LEMMA Closed ==
    ASSUME NEW r \in VpnPeer
    PROVE  LET n == [r EXCEPT !.status = "closed", !.inboundCh = <<>>, !.outboundCh = <<>>]
           IN  n \in VpnPeer /\ n.status = "closed" /\ n.peerID = r.peerID /\ n.localIP = r.localIP
<1>1. <<>> \in Seq(Packets)
  OBVIOUS
<1> QED
  BY <1>1, Zenon DEF VpnPeer

(* The objects other than v are not touched by a change of v.              *)
LEMMA OneChanged ==
    ASSUME vp \in [VpnPeers -> VpnPeer], NEW v \in VpnPeers, NEW r \in VpnPeer,
           vp' = [vp EXCEPT ![v] = r]
    PROVE  vp' \in [VpnPeers -> VpnPeer] /\ vp'[v] = r /\ \A w \in VpnPeers \ {v} : vp'[w] = vp[w]
  BY Zenon

-----------------------------------------------------------------------------
(* The inductive invariant holds when NewTunnel returns.                   *)
LEMMA InitIInv == Init => IInv
<1> SUFFICES ASSUME Init PROVE IInv
  BY Zenon
<1> USE NilsAreDistinct, BoundsAreNat
<1>1. TypeOK
  BY SMTT(30) DEF Init, TypeOK, VpnPeer, TunReader, StreamReader, Slots, Dsts
<1> QED
  BY <1>1, Zenon DEF Init, IInv, TablesOK, RouteSound, LockOK, SendSafe, TodoOK, HandsOK, WriterHolds, Slots

(* Changes of the configuration touch neither tables nor locks.            *)
LEMMA ConfigureIInv == IInv /\ Configure => IInv'
<1> SUFFICES ASSUME IInv, Configure PROVE IInv'
  BY Zenon
<1> USE NilsAreDistinct, BoundsAreNat
<1>1. UNCHANGED <<tableVars, lockVars, pool, tun, str>> /\ ConfUnlocked
  BY Zenon DEF Configure, UpsertPeer, RemovePeer
<1>2. known' \in [PeerID -> IP \cup {Unknown, BadIP}] /\ subscribed' = subscribed
  BY DEF Configure, UpsertPeer, RemovePeer, IInv, TypeOK
<1>3. events' \in 0..MaxBehind
  BY SMTT(30) DEF Configure, UpsertPeer, RemovePeer, Emit, Behind, IInv, TypeOK
<1>4. TypeOK'
  BY <1>1, <1>2, <1>3, Zenon DEF IInv, TypeOK, tableVars, lockVars
<1> QED
  BY <1>1, <1>4, Zenon DEF IInv, TablesOK, RouteSound, LockOK, SendSafe, TodoOK, HandsOK, WriterHolds,
     ConfUnlocked, tableVars, lockVars

(* VpnPeer.Close under the lock leaves the tables sound, and closes no     *)
(* channel that a reader is about to send on.                              *)
LEMMA CloseVpnPeerSound ==
    ASSUME IInv, NEW p \in PeerID, peerIDToPeer[p] # NoPeer, WriterHolds, CloseVpnPeer(p),
           UNCHANGED <<known, events, subscribed, tun, str>>,
           rpc' = rpc, closePc' = closePc, readers' = readers, todo' \in SUBSET PeerID
    PROVE  /\ TypeOK' /\ TablesOK' /\ RouteSound' /\ SendSafe'
           /\ peerIDToPeer' = [peerIDToPeer EXCEPT ![p] = NoPeer]
<1> DEFINE v == peerIDToPeer[p]
           n == [vp[v] EXCEPT !.status = "closed", !.inboundCh = <<>>, !.outboundCh = <<>>]
<1> USE NilsAreDistinct
<1>1. v \in VpnPeers /\ vp[v] \in VpnPeer /\ vp[v].localIP \in IP /\ vp[v].peerID = p
  BY SMTT(60) DEF IInv, TypeOK, TablesOK
<1>2. n \in VpnPeer /\ n.status = "closed" /\ n.peerID = vp[v].peerID /\ n.localIP = vp[v].localIP
  BY <1>1, Closed, Zenon
<1>3. /\ vp' = [vp EXCEPT ![v] = n] /\ pool' = PutBoth(vp[v].inboundCh, vp[v].outboundCh)
      /\ peerIDToPeer' = [peerIDToPeer EXCEPT ![p] = NoPeer]
      /\ netIPToPeer' = [netIPToPeer EXCEPT ![vp[v].localIP] = NoPeer]
  BY Zenon DEF CloseVpnPeer
<1> HIDE DEF n, v
<1>4. vp' \in [VpnPeers -> VpnPeer] /\ vp'[v] = n /\ \A w \in VpnPeers \ {v} : vp'[w] = vp[w]
  BY <1>1, <1>2, <1>3, OneChanged, Zenon DEF IInv, TypeOK
<1>5. pool' \in [Packets -> Nat]
  <2>1. vp[v].inboundCh \in Seq(Packets) /\ vp[v].outboundCh \in Seq(Packets)
    BY <1>1, Zenon DEF VpnPeer
  <2> QED
    BY <1>3, <2>1, PutType, SMTT(30) DEF IInv, TypeOK
<1>6. TypeOK'
  BY <1>1, <1>3, <1>4, <1>5, Zenon DEF IInv, TypeOK
<1>7. TablesOK'
  BY <1>1, <1>3, <1>4, SMTT(60) DEF IInv, TypeOK, TablesOK, v
<1>8. RouteSound'
  BY <1>1, <1>3, <1>4, SMTT(30) DEF IInv, TypeOK, TablesOK, RouteSound, v
<1>9. tun'.to = {} /\ \A q \in PeerID : str'[q].to = NoPeer
  BY Zenon DEF IInv, LockOK, HandsOK
<1> QED
  BY <1>3, <1>6, <1>7, <1>8, <1>9, Zenon DEF SendSafe

(* A refresh changes the tables alone in the lock, one peer at a time; in  *)
(* between, every entry is sound.                                          *)
LEMMA RefreshIInv == IInv /\ RefreshPeersList => IInv'
<1> SUFFICES ASSUME IInv, RefreshPeersList PROVE IInv'
  BY Zenon
<1> USE NilsAreDistinct, BoundsAreNat DEF confVars, tableVars, lockVars
<1>1. CASE RefreshCalled
  <2>1. TypeOK'
    BY <1>1, SMTT(30) DEF IInv, TypeOK, RefreshCalled
  <2> QED
    BY <1>1, <2>1, Zenon DEF RefreshCalled, IInv, TablesOK, RouteSound, LockOK, SendSafe, TodoOK, HandsOK,
       WriterHolds
<1>2. CASE RefreshLock
  <2>1. TypeOK'
    BY <1>2, Zenon DEF IInv, TypeOK, RefreshLock
  <2> QED
    BY <1>2, <2>1, Zenon DEF RefreshLock, CanLock, IInv, TablesOK, RouteSound, LockOK, SendSafe, TodoOK,
       HandsOK, WriterHolds
<1>3. CASE RefreshVisited
  <2>1. TypeOK'
    BY <1>3, Zenon DEF IInv, TypeOK, RefreshVisited
  <2> QED
    BY <1>3, <2>1, Zenon DEF RefreshVisited, IInv, TablesOK, RouteSound, LockOK, SendSafe, TodoOK, HandsOK,
       WriterHolds
<1>4. CASE RefreshUnlock
  <2>1. TypeOK'
    BY <1>4, Zenon DEF IInv, TypeOK, RefreshUnlock
  <2> QED
    BY <1>4, <2>1, Zenon DEF RefreshUnlock, IInv, TablesOK, RouteSound, LockOK, SendSafe, TodoOK, HandsOK,
       WriterHolds
<1>5. ASSUME NEW p \in PeerID, RefreshSkip(p) PROVE IInv'
  <2>1. TypeOK'
    BY <1>5, Zenon DEF IInv, TypeOK, RefreshSkip, Visit
  <2> QED
    BY <1>5, <2>1, Zenon DEF RefreshSkip, Visit, IInv, TablesOK, RouteSound, LockOK, SendSafe, TodoOK,
       HandsOK, WriterHolds
<1>6. ASSUME NEW p \in PeerID, RefreshMove(p) PROVE IInv'
  <2> DEFINE v == peerIDToPeer[p]
  <2>1. v \in VpnPeers /\ known[p] \in IP /\ vp[v].localIP \in IP
    BY <1>6 DEF RefreshMove, Visit, IInv, TypeOK, TodoOK, TablesOK
  <2>2. /\ vp' \in [VpnPeers -> VpnPeer]
        /\ \A w \in VpnPeers : /\ vp'[w].status = vp[w].status /\ vp'[w].peerID = vp[w].peerID
                               /\ vp'[w].localIP = IF w = v THEN known[p] ELSE vp[w].localIP
    <3> DEFINE n == [vp[v] EXCEPT !.localIP = known[p]]
    <3>1. vp[v] \in VpnPeer
      BY <2>1, Zenon DEF IInv, TypeOK
    <3>2. n \in VpnPeer /\ n.status = vp[v].status /\ n.peerID = vp[v].peerID /\ n.localIP = known[p]
      BY <2>1, <3>1, ZenonT(60) DEF VpnPeer
    <3>3. vp' = [vp EXCEPT ![v] = n]
      BY <1>6, Zenon DEF RefreshMove
    <3> HIDE DEF n, v
    <3>4. vp' \in [VpnPeers -> VpnPeer] /\ vp'[v] = n /\ \A w \in VpnPeers \ {v} : vp'[w] = vp[w]
      BY <2>1, <3>2, <3>3, OneChanged, Zenon DEF IInv, TypeOK
    <3> QED
      BY <3>2, <3>4, Zenon
  <2>3. TypeOK'
    BY <1>6, <2>1, <2>2, Zenon DEF RefreshMove, Visit, Moved, IInv, TypeOK
  <2>4. TablesOK'
    BY <1>6, <2>1, <2>2, SMTT(60) DEF RefreshMove, Visit, IInv, TypeOK, TablesOK
  <2>5. RouteSound'
    BY <1>6, <2>1, <2>2, SMTT(30) DEF RefreshMove, Visit, Moved, IInv, TypeOK, TablesOK, RouteSound
  <2>6. SendSafe'
    BY <1>6, <2>2, SMTT(30) DEF RefreshMove, Visit, IInv, TypeOK, TunReader, StreamReader, SendSafe
  <2> QED
    BY <1>6, <2>3, <2>4, <2>5, <2>6, Zenon DEF RefreshMove, Visit, IInv, LockOK, TodoOK, HandsOK,
       WriterHolds
<1>7. ASSUME NEW p \in PeerID, RefreshAdd(p) PROVE IInv'
  <2>1. PICK v \in VpnPeers :
          /\ Allocatable(v)
          /\ vp' = [vp EXCEPT ![v] = NewVpnPeer(vp[v], p, known[p])]
          /\ peerIDToPeer' = [peerIDToPeer EXCEPT ![p] = v]
          /\ netIPToPeer' = [netIPToPeer EXCEPT ![known[p]] = v]
    BY <1>7, Zenon DEF RefreshAdd
  <2>2. known[p] \in IP /\ vp[v].status # "running"
    BY <1>7, <2>1, Zenon DEF RefreshAdd, Visit, Allocatable, IInv, TypeOK, TodoOK
  <2> DEFINE n == NewVpnPeer(vp[v], p, known[p])
  <2>a. n \in VpnPeer /\ n.status = "running" /\ n.peerID = p /\ n.localIP = known[p]
    <3>1. vp[v] \in VpnPeer
      BY Zenon DEF IInv, TypeOK
    <3> QED
      BY <2>2, <3>1, Started
  <2>b. vp' = [vp EXCEPT ![v] = n]
    BY <2>1, Zenon
  <2> HIDE DEF n
  <2>c. vp' \in [VpnPeers -> VpnPeer] /\ vp'[v] = n /\ \A w \in VpnPeers \ {v} : vp'[w] = vp[w]
    BY <2>a, <2>b, OneChanged, Zenon DEF IInv, TypeOK
  <2>3. /\ vp' \in [VpnPeers -> VpnPeer]
        /\ vp'[v].status = "running" /\ vp'[v].peerID = p /\ vp'[v].localIP = known[p]
        /\ \A w \in VpnPeers : w # v => vp'[w] = vp[w]
    BY <2>a, <2>c, Zenon
  <2>4. TypeOK'
    BY <1>7, <2>1, <2>2, <2>3, Zenon DEF RefreshAdd, Visit, IInv, TypeOK
  <2>5. TablesOK'
    BY <1>7, <2>1, <2>2, <2>3, SMTT(30) DEF RefreshAdd, Visit, IInv, TypeOK, TablesOK
  <2>6. RouteSound'
    BY <1>7, <2>1, <2>2, <2>3, SMTT(30) DEF RefreshAdd, Visit, IInv, TypeOK, TablesOK, RouteSound
  <2>7. SendSafe'
    BY <1>7, <2>2, <2>3, SMTT(30) DEF RefreshAdd, Visit, IInv, TypeOK, TunReader, StreamReader, SendSafe
  <2> QED
    BY <1>7, <2>4, <2>5, <2>6, <2>7, Zenon DEF RefreshAdd, Visit, IInv, LockOK, TodoOK, HandsOK,
       WriterHolds
<1>8. ASSUME NEW p \in PeerID, RefreshPrune(p) PROVE IInv'
  <2>1. CASE known[p] # Unknown
    <3>1. TypeOK'
      BY <1>8, <2>1, Zenon DEF IInv, TypeOK, RefreshPrune
    <3> QED
      BY <1>8, <2>1, <3>1, SMTT(30) DEF RefreshPrune, IInv, TablesOK, RouteSound, LockOK, SendSafe, TodoOK,
         HandsOK, WriterHolds
  <2>2. CASE known[p] = Unknown
    <3>1. peerIDToPeer[p] # NoPeer /\ rpc = "prune" /\ CloseVpnPeer(p)
      BY <1>8, <2>2, Zenon DEF RefreshPrune, IInv, TodoOK
    <3>2. todo' \in SUBSET PeerID /\ WriterHolds
      BY <1>8, Zenon DEF RefreshPrune, IInv, TypeOK, WriterHolds
    <3>3. /\ TypeOK' /\ TablesOK' /\ RouteSound' /\ SendSafe'
          /\ peerIDToPeer' = [peerIDToPeer EXCEPT ![p] = NoPeer]
      BY <1>8, <3>1, <3>2, CloseVpnPeerSound, Zenon DEF RefreshPrune
    <3> QED
      BY <1>8, <3>1, <3>3, Zenon DEF RefreshPrune, IInv, TypeOK, LockOK, TodoOK, HandsOK, WriterHolds
  <2> QED
    BY <2>1, <2>2, Zenon
<1> QED
  BY <1>1, <1>2, <1>3, <1>4, <1>5, <1>6, <1>7, <1>8, Zenon DEF RefreshPeersList

(* The shutdown closes every VpnPeer, alone in the lock.                   *)
LEMMA CloseIInv == IInv /\ (CtxCancel \/ SubscriptionDone \/ Close) => IInv'
<1> SUFFICES ASSUME IInv, CtxCancel \/ SubscriptionDone \/ Close PROVE IInv'
  BY Zenon
<1> USE NilsAreDistinct, BoundsAreNat DEF confVars, tableVars, lockVars
<1>1. CASE CtxCancel \/ CloseCalled \/ CloseLock \/ CloseUnlock
  <2>1. TypeOK'
    BY <1>1, Zenon DEF IInv, TypeOK, CtxCancel, CloseCalled, CloseLock, CloseUnlock, CloseStep
  <2> QED
    BY <1>1, <2>1, SMTT(30) DEF CtxCancel, CloseCalled, CloseLock, CloseUnlock, CloseStep, CanLock, IInv,
       TablesOK, RouteSound, LockOK, SendSafe, TodoOK, HandsOK, WriterHolds
<1>2. CASE SubscriptionDone
  <2>1. TypeOK'
    BY <1>2, ZenonT(60) DEF IInv, TypeOK, SubscriptionDone
  <2> QED
    BY <1>2, <2>1, Zenon DEF SubscriptionDone, IInv, TablesOK, RouteSound, LockOK, SendSafe, TodoOK,
       HandsOK, WriterHolds
<1>3. ASSUME NEW p \in PeerID, ClosePeer(p) PROVE IInv'
  <2>1. WriterHolds /\ todo' \in SUBSET PeerID /\ rpc # "prune"
    BY <1>3, Zenon DEF ClosePeer, WriterHolds, IInv, TypeOK, LockOK
  <2>2. TypeOK' /\ TablesOK' /\ RouteSound' /\ SendSafe'
    BY <1>3, <2>1, CloseVpnPeerSound, Zenon DEF ClosePeer
  <2> QED
    BY <1>3, <2>1, <2>2, Zenon DEF ClosePeer, IInv, LockOK, TodoOK, HandsOK, WriterHolds
<1> QED
  BY <1>1, <1>2, <1>3, Zenon DEF Close

-----------------------------------------------------------------------------
(* The steps that move packets leave the objects' identity alone.          *)
SameObjects ==
    /\ vp' \in [VpnPeers -> VpnPeer]
    /\ \A v \in VpnPeers : /\ vp'[v].status = vp[v].status /\ vp'[v].peerID = vp[v].peerID
                           /\ vp'[v].localIP = vp[v].localIP

(* The tables are sound after a step that moves packets.                   *)
LEMMA SameTables ==
    ASSUME IInv, SameObjects, UNCHANGED <<peerIDToPeer, netIPToPeer>>
    PROVE  TablesOK' /\ RouteSound'
  BY NilsAreDistinct, SMTT(30) DEF SameObjects, IInv, TypeOK, TablesOK, RouteSound

(* So is the rest, if it is a handler of a VpnPeer that moves them.        *)
LEMMA HandlerStep ==
    ASSUME IInv, SameObjects, pool' \in [Packets -> Nat],
           UNCHANGED <<confVars, peerIDToPeer, netIPToPeer, lockVars, tun, str>>
    PROVE  IInv'
<1> USE NilsAreDistinct DEF confVars, tableVars, lockVars
<1>1. TypeOK'
  BY Zenon DEF SameObjects, IInv, TypeOK
<1>2. TablesOK' /\ RouteSound'
  BY SameTables, Zenon
<1>3. SendSafe'
  BY SMTT(60) DEF SameObjects, IInv, TypeOK, TunReader, StreamReader, SendSafe
<1> QED
  BY <1>1, <1>2, <1>3, Zenon DEF IInv, LockOK, TodoOK, HandsOK, WriterHolds

(* Replacing the channels and batches of one object keeps them all.        *)
LEMMA OneMoved ==
    ASSUME vp \in [VpnPeers -> VpnPeer], NEW v \in VpnPeers, NEW r \in VpnPeer,
           vp' = [vp EXCEPT ![v] = r], r.status = vp[v].status, r.peerID = vp[v].peerID,
           r.localIP = vp[v].localIP
    PROVE  SameObjects
  BY OneChanged, Zenon DEF SameObjects

(* The handlers of a VpnPeer preserve the invariant.                       *)
LEMMA HandlersIInv ==
    ASSUME IInv, NEW v \in VpnPeers, backgroundInboundHandler(v) \/ backgroundOutboundHandler(v)
    PROVE  IInv'
<1> USE BoundsAreNat DEF confVars, tableVars, lockVars
<1>0. vp[v] \in VpnPeer /\ <<>> \in Seq(Packets)
  BY DEF IInv, TypeOK
<1> USE <1>0
<1>1. CASE InReceive(v)
  <2> DEFINE b == Append(vp[v].inBatch, Head(vp[v].inboundCh))
             c == Tail(vp[v].inboundCh)
             n == [vp[v] EXCEPT !.inBatch = b, !.inboundCh = c]
  <2>1. vp[v].inBatch \in Seq(Packets) /\ vp[v].inboundCh \in Seq(Packets) /\ vp[v].inboundCh # <<>>
    BY <1>1, Zenon DEF InReceive, VpnPeer
  <2>2. b \in Seq(Packets) /\ c \in Seq(Packets)
    BY <2>1
  <2>3. vp' = [vp EXCEPT ![v] = n]
    BY <1>1, Zenon DEF InReceive
  <2> HIDE DEF b, c
  <2>4. n \in VpnPeer /\ n.status = vp[v].status /\ n.peerID = vp[v].peerID /\ n.localIP = vp[v].localIP
    BY <2>2, Zenon DEF VpnPeer
  <2> HIDE DEF n
  <2>5. SameObjects
    BY <2>3, <2>4, OneMoved, Zenon DEF IInv, TypeOK
  <2> QED
    BY <1>1, <2>5, HandlerStep, Zenon DEF InReceive, IInv, TypeOK
<1>2. CASE InProcess(v)
  <2> DEFINE n == [vp[v] EXCEPT !.inBatch = <<>>]
  <2>1. n \in VpnPeer /\ n.status = vp[v].status /\ n.peerID = vp[v].peerID /\ n.localIP = vp[v].localIP
    BY Zenon DEF VpnPeer
  <2>2. vp' = [vp EXCEPT ![v] = n]
    BY <1>2, Zenon DEF InProcess
  <2> HIDE DEF n
  <2>3. SameObjects
    BY <2>1, <2>2, OneMoved, Zenon DEF IInv, TypeOK
  <2>4. pool' \in [Packets -> Nat]
    <3>1. vp[v].inBatch \in Seq(Packets)
      BY Zenon DEF VpnPeer
    <3>2. PICK ok : pool' = PutBoth(Rejected(vp[v].inBatch, ok), Filtered(vp[v].inBatch, ok))
      BY <1>2, Zenon DEF InProcess
    <3>3. /\ DOMAIN Rejected(vp[v].inBatch, ok) = 1..Len(vp[v].inBatch)
          /\ DOMAIN Filtered(vp[v].inBatch, ok) = 1..Len(vp[v].inBatch)
          /\ Len(vp[v].inBatch) \in Nat
      BY <3>1, SMTT(30) DEF Rejected, Filtered
    <3> QED
      BY <3>2, <3>3, PutType, Zenon DEF IInv, TypeOK
  <2> QED
    BY <1>2, <2>3, <2>4, HandlerStep, Zenon DEF InProcess
<1>3. CASE InExit(v)
  <2> DEFINE n == [vp[v] EXCEPT !.inRun = FALSE]
  <2>1. n \in VpnPeer /\ n.status = vp[v].status /\ n.peerID = vp[v].peerID /\ n.localIP = vp[v].localIP
    BY Zenon DEF VpnPeer
  <2>2. vp' = [vp EXCEPT ![v] = n]
    BY <1>3, Zenon DEF InExit
  <2> HIDE DEF n
  <2>3. SameObjects
    BY <2>1, <2>2, OneMoved, Zenon DEF IInv, TypeOK
  <2> QED
    BY <1>3, <2>3, HandlerStep, Zenon DEF InExit, IInv, TypeOK
<1>4. CASE OutReceive(v)
  <2> DEFINE b == Append(vp[v].outBatch, Head(vp[v].outboundCh))
             c == Tail(vp[v].outboundCh)
             n == [vp[v] EXCEPT !.outBatch = b, !.outboundCh = c]
  <2>1. vp[v].outBatch \in Seq(Packets) /\ vp[v].outboundCh \in Seq(Packets) /\ vp[v].outboundCh # <<>>
    BY <1>4, Zenon DEF OutReceive, VpnPeer
  <2>2. b \in Seq(Packets) /\ c \in Seq(Packets)
    BY <2>1
  <2>3. vp' = [vp EXCEPT ![v] = n]
    BY <1>4, Zenon DEF OutReceive
  <2> HIDE DEF b, c
  <2>4. n \in VpnPeer /\ n.status = vp[v].status /\ n.peerID = vp[v].peerID /\ n.localIP = vp[v].localIP
    BY <2>2, Zenon DEF VpnPeer
  <2> HIDE DEF n
  <2>5. SameObjects
    BY <2>3, <2>4, OneMoved, Zenon DEF IInv, TypeOK
  <2> QED
    BY <1>4, <2>5, HandlerStep, Zenon DEF OutReceive, IInv, TypeOK
<1>5. CASE OutProcess(v)
  <2> DEFINE n == [vp[v] EXCEPT !.outBatch = <<>>]
  <2>1. n \in VpnPeer /\ n.status = vp[v].status /\ n.peerID = vp[v].peerID /\ n.localIP = vp[v].localIP
    BY Zenon DEF VpnPeer
  <2>2. vp' = [vp EXCEPT ![v] = n]
    BY <1>5, Zenon DEF OutProcess
  <2> HIDE DEF n
  <2>3. SameObjects
    BY <2>1, <2>2, OneMoved, Zenon DEF IInv, TypeOK
  <2>4. pool' \in [Packets -> Nat]
    <3>1. vp[v].outBatch \in Seq(Packets)
      BY Zenon DEF VpnPeer
    <3>2. Len(vp[v].outBatch) \in Nat /\ DOMAIN vp[v].outBatch = 1..Len(vp[v].outBatch)
      BY <3>1
    <3>3. pool' = PutAll(vp[v].outBatch) /\ pool \in [Packets -> Nat]
      BY <1>5, Zenon DEF OutProcess, IInv, TypeOK
    <3> QED
      BY <3>2, <3>3, PutAllType, Zenon
  <2> QED
    BY <1>5, <2>3, <2>4, HandlerStep, Zenon DEF OutProcess
<1>6. CASE OutExit(v)
  <2> DEFINE n == [vp[v] EXCEPT !.outRun = FALSE]
  <2>1. n \in VpnPeer /\ n.status = vp[v].status /\ n.peerID = vp[v].peerID /\ n.localIP = vp[v].localIP
    BY Zenon DEF VpnPeer
  <2>2. vp' = [vp EXCEPT ![v] = n]
    BY <1>6, Zenon DEF OutExit
  <2> HIDE DEF n
  <2>3. SameObjects
    BY <2>1, <2>2, OneMoved, Zenon DEF IInv, TypeOK
  <2> QED
    BY <1>6, <2>3, HandlerStep, Zenon DEF OutExit, IInv, TypeOK
<1> QED
  BY <1>1, <1>2, <1>3, <1>4, <1>5, <1>6, Zenon DEF backgroundInboundHandler, backgroundOutboundHandler

-----------------------------------------------------------------------------
(* A step of one stream handler that keeps its read lock while it has a    *)
(* VpnPeer in hand.                                                        *)
LEMMA StreamStep ==
    ASSUME IInv, NEW p \in PeerID, NEW r \in StreamReader, SameObjects, pool' \in [Packets -> Nat],
           UNCHANGED <<confVars, peerIDToPeer, netIPToPeer, rpc, todo, closePc, tun>>,
           str' = [str EXCEPT ![p] = r],
           readers \ {p} \subseteq readers', readers' \subseteq readers \cup {p},
           WriterHolds => readers' \subseteq readers,
           r.to # NoPeer => p \in readers' /\ vp[r.to].status = "running",
           r.pc \in {"read", "send"} => r.packet # NoPacket
    PROVE  IInv'
<1> USE NilsAreDistinct DEF confVars, tableVars, lockVars
<1>1. str' \in [PeerID -> StreamReader] /\ str'[p] = r /\ \A q \in PeerID \ {p} : str'[q] = str[q]
  BY Zenon DEF IInv, TypeOK
<1>2. TypeOK'
  BY <1>1, SMTT(30) DEF SameObjects, IInv, TypeOK
<1>3. TablesOK' /\ RouteSound'
  BY SameTables, Zenon
<1>4. SendSafe'
  <2>1. \A v \in tun'.to : vp'[v].status = "running"
    BY Zenon DEF SameObjects, IInv, TypeOK, TunReader, SendSafe
  <2>2. ASSUME NEW q \in PeerID, str'[q].to # NoPeer PROVE vp'[str'[q].to].status = "running"
    <3>1. str'[q].to \in VpnPeers
      BY <1>1, <2>2, Zenon DEF StreamReader
    <3>2. vp[str'[q].to].status = "running"
      BY <1>1, <2>2, Zenon DEF IInv, SendSafe
    <3> QED
      BY <3>1, <3>2, Zenon DEF SameObjects
  <2> QED
    BY <2>1, <2>2, Zenon DEF SendSafe
<1>5. LockOK'
  <2>1. \A q \in PeerID : str'[q].to # NoPeer => q \in readers'
    BY <1>1, Zenon DEF IInv, LockOK
  <2>2. tun'.pc \in {"scan", "send", "bcast"} => "tun" \in readers'
    BY Zenon DEF IInv, LockOK
  <2>3. WriterHolds' => readers' = {}
    BY Zenon DEF IInv, LockOK, WriterHolds
  <2> QED
    BY <2>1, <2>2, <2>3, Zenon DEF IInv, LockOK
<1>6. HandsOK'
  BY <1>1, Zenon DEF IInv, HandsOK
<1> QED
  BY <1>2, <1>3, <1>4, <1>5, <1>6, Zenon DEF IInv, TodoOK

(* StreamHandler preserves the invariant.                                  *)
LEMMA StreamIInv == ASSUME IInv, NEW p \in PeerID, StreamHandler(p) PROVE IInv'
<1> USE NilsAreDistinct DEF confVars, tableVars, lockVars
<1>1. /\ str[p] \in StreamReader /\ pool \in [Packets -> Nat]
      /\ str \in [PeerID -> StreamReader] /\ vp \in [VpnPeers -> VpnPeer]
      /\ peerIDToPeer[p] \in VpnPeers \cup {NoPeer}
  BY Zenon DEF IInv, TypeOK
<1>2. str[p].to # NoPeer => p \in readers /\ vp[str[p].to].status = "running"
  BY Zenon DEF IInv, LockOK, SendSafe
<1>3. str[p].pc \in {"read", "send"} => str[p].packet \in Packets
  BY <1>1, Zenon DEF IInv, HandsOK, StreamReader
<1>4. UNCHANGED vp => SameObjects
  BY <1>1, Zenon DEF SameObjects
<1>5. PutAll(<<str[p].packet>>) \in [Packets -> Nat]
  <2>1. DOMAIN <<str[p].packet>> = 1..1
    OBVIOUS
  <2> QED
    BY <1>1, <2>1, PutAllType, Zenon
<1>6. CASE StreamOpen(p)
  <2> DEFINE r == [str[p] EXCEPT !.pc = "get"]
  <2>1. r \in StreamReader /\ r.pc = "get" /\ r.to = str[p].to
    BY <1>1, Zenon DEF StreamReader
  <2>2. str' = [str EXCEPT ![p] = r]
    BY <1>6, Zenon DEF StreamOpen
  <2>3. /\ SameObjects /\ pool' \in [Packets -> Nat]
        /\ UNCHANGED <<confVars, peerIDToPeer, netIPToPeer, rpc, todo, closePc, readers, tun>>
    BY <1>1, <1>4, <1>6, Zenon DEF StreamOpen
  <2> HIDE DEF r
  <2> QED
    BY <1>2, <2>1, <2>2, <2>3, StreamStep, Zenon
<1>7. CASE StreamGet(p)
  <2>1. PICK pk \in Packets : /\ Get(pk)
                              /\ str' = [str EXCEPT ![p] = [@ EXCEPT !.pc = "read", !.packet = pk]]
    BY <1>7, Zenon DEF StreamGet
  <2> DEFINE r == [str[p] EXCEPT !.pc = "read", !.packet = pk]
  <2>2. r \in StreamReader /\ r.packet = pk /\ r.to = str[p].to
    BY <1>1, Zenon DEF StreamReader
  <2>3. str' = [str EXCEPT ![p] = r]
    BY <2>1, Zenon
  <2>4. pool' \in [Packets -> Nat]
    BY <1>1, <2>1 DEF Get
  <2> HIDE DEF r
  <2> QED
    BY <1>2, <1>4, <1>7, <2>2, <2>3, <2>4, StreamStep, Zenon DEF StreamGet
<1>8. CASE StreamEOF(p)
  <2> DEFINE r == [str[p] EXCEPT !.pc = "idle", !.packet = NoPacket]
  <2>1. r \in StreamReader /\ r.pc = "idle" /\ r.to = str[p].to
    BY <1>1, Zenon DEF StreamReader
  <2>2. str' = [str EXCEPT ![p] = r]
    BY <1>8, Zenon DEF StreamEOF
  <2>3. /\ SameObjects /\ pool' \in [Packets -> Nat]
        /\ UNCHANGED <<confVars, peerIDToPeer, netIPToPeer, rpc, todo, closePc, readers, tun>>
    BY <1>4, <1>5, <1>8, Zenon DEF StreamEOF
  <2> HIDE DEF r
  <2> QED
    BY <1>2, <2>1, <2>2, <2>3, StreamStep, Zenon
<1>9. CASE StreamReceive(p)
  <2> DEFINE r == [str[p] EXCEPT !.pc = "send", !.to = peerIDToPeer[p]]
  <2>1. r \in StreamReader /\ r.packet = str[p].packet /\ r.to = peerIDToPeer[p]
    BY <1>1, Zenon DEF StreamReader
  <2>2. str' = [str EXCEPT ![p] = r] /\ readers' = readers \cup {p} /\ ~WriterHolds
    BY <1>9, Zenon DEF StreamReceive, CanRLock
  <2>3. r.packet # NoPacket
    BY <1>3, <1>9, <2>1, Zenon DEF StreamReceive
  <2>4. r.to # NoPeer => vp[r.to].status = "running"
    BY <2>1, Zenon DEF IInv, TablesOK
  <2> HIDE DEF r
  <2> QED
    BY <1>1, <1>4, <1>9, <2>1, <2>2, <2>3, <2>4, StreamStep, Zenon DEF StreamReceive
<1>10. CASE StreamSend(p)
  <2> DEFINE v == str[p].to
             r == [pc |-> IF v = NoPeer THEN "idle" ELSE "get", packet |-> NoPacket, to |-> NoPeer]
  <2>1. r \in StreamReader /\ r.pc \in {"idle", "get"} /\ r.to = NoPeer
    BY Zenon DEF StreamReader
  <2>2. str' = [str EXCEPT ![p] = r] /\ readers' = readers \ {p}
    BY <1>10, Zenon DEF StreamSend
  <2>3. SameObjects /\ pool' \in [Packets -> Nat]
    <3>1. CASE v # NoPeer /\ Len(vp[v].inboundCh) < ChanCap
      <4> DEFINE c == Append(vp[v].inboundCh, str[p].packet)
                 n == [vp[v] EXCEPT !.inboundCh = c]
      <4>1. v \in VpnPeers /\ vp[v] \in VpnPeer
        BY <1>1, <3>1, Zenon DEF StreamReader
      <4>2. c \in Seq(Packets)
        BY <1>3, <1>10, <4>1 DEF StreamSend, VpnPeer
      <4>3. vp' = [vp EXCEPT ![v] = n] /\ UNCHANGED pool
        BY <1>10, <3>1, Zenon DEF StreamSend
      <4> HIDE DEF c, v
      <4>4. n \in VpnPeer /\ n.status = vp[v].status /\ n.peerID = vp[v].peerID /\ n.localIP = vp[v].localIP
        BY <4>1, <4>2, Zenon DEF VpnPeer
      <4> HIDE DEF n
      <4> QED
        BY <1>1, <4>1, <4>3, <4>4, OneMoved, ZenonT(60)
    <3>2. CASE ~(v # NoPeer /\ Len(vp[v].inboundCh) < ChanCap)
      BY <1>4, <1>5, <1>10, <3>2, Zenon DEF StreamSend
    <3> QED
      BY <3>1, <3>2, Zenon
  <2> HIDE DEF r
  <2> QED
    BY <1>10, <2>1, <2>2, <2>3, StreamStep, Zenon DEF StreamSend
<1> QED
  BY <1>6, <1>7, <1>8, <1>9, <1>10, Zenon DEF StreamHandler

-----------------------------------------------------------------------------
(* A step of the TUN reader that keeps its read lock while it looks up and *)
(* sends.                                                                  *)
LEMMA TunStep ==
    ASSUME IInv, NEW r \in TunReader, SameObjects, pool' \in [Packets -> Nat],
           UNCHANGED <<confVars, peerIDToPeer, netIPToPeer, rpc, todo, closePc, str>>,
           tun' = r,
           readers \ {"tun"} \subseteq readers', readers' \subseteq readers \cup {"tun"},
           WriterHolds => readers' \subseteq readers,
           r.pc \in {"scan", "send", "bcast"} => "tun" \in readers',
           r.pc \notin {"send", "bcast"} => r.to = {},
           r.pc \in {"send", "bcast"} => r.i <= TunBatch,
           r.pc = "send" => r.packets[r.i] # NoPacket,
           \A v \in r.to : vp[v].status = "running"
    PROVE  IInv'
<1> USE NilsAreDistinct DEF confVars, tableVars, lockVars
<1>1. TypeOK'
  BY Zenon DEF SameObjects, IInv, TypeOK
<1>2. TablesOK' /\ RouteSound'
  BY SameTables, Zenon
<1>3. SendSafe'
  <2>1. \A v \in tun'.to : vp'[v].status = "running"
    BY Zenon DEF SameObjects, TunReader
  <2>2. \A q \in PeerID : str'[q].to # NoPeer => vp'[str'[q].to].status = "running"
    BY DEF SameObjects, IInv, TypeOK, StreamReader, SendSafe
  <2> QED
    BY <2>1, <2>2, Zenon DEF SendSafe
<1>4. LockOK'
  <2>1. \A q \in PeerID : str'[q].to # NoPeer => q \in readers'
    BY Zenon DEF IInv, LockOK
  <2>2. WriterHolds' => readers' = {}
    BY Zenon DEF IInv, LockOK, WriterHolds
  <2> QED
    BY <2>1, <2>2, Zenon DEF IInv, LockOK
<1>5. HandsOK'
  BY Zenon DEF IInv, HandsOK
<1> QED
  BY <1>1, <1>2, <1>3, <1>4, <1>5, Zenon DEF IInv, TodoOK

(* What the proofs below need of the state of the TUN reader.              *)
TunFacts ==
    /\ tun \in TunReader /\ pool \in [Packets -> Nat] /\ vp \in [VpnPeers -> VpnPeer]
    /\ netIPToPeer \in [IP -> VpnPeers \cup {NoPeer}] /\ TunBatch \in Nat \ {0}
    /\ tun.pc \in {"scan", "send", "bcast"} => "tun" \in readers
    /\ tun.pc \notin {"send", "bcast"} => tun.to = {}
    /\ tun.pc \in {"send", "bcast"} => tun.i <= TunBatch
    /\ tun.pc = "send" => tun.packets[tun.i] \in Packets
    /\ \A v \in tun.to : vp[v].status = "running"
    /\ UNCHANGED vp => SameObjects

LEMMA TunFactsHold == ASSUME IInv PROVE TunFacts
<1> USE NilsAreDistinct, BoundsAreNat
<1>1. tun \in TunReader /\ pool \in [Packets -> Nat] /\ vp \in [VpnPeers -> VpnPeer]
  BY Zenon DEF IInv, TypeOK
<1>2. tun.pc = "send" => tun.packets[tun.i] \in Packets
  <2>1. tun.i \in 1..(TunBatch + 1) /\ tun.packets \in [1..TunBatch -> Packets \cup {NoPacket}]
    BY <1>1, Zenon DEF TunReader, Slots
  <2> QED
    BY <2>1, SMTT(30) DEF IInv, HandsOK
<1> QED
  BY <1>1, <1>2, Zenon DEF TunFacts, IInv, TypeOK, LockOK, HandsOK, SendSafe, SameObjects

(* ReadTUNPackets preserves the invariant.                                 *)
LEMMA ReadIInv == ASSUME IInv, ReadTUNPackets PROVE IInv'
<1> USE NilsAreDistinct DEF confVars, tableVars, lockVars
<1>0. TunFacts
  BY TunFactsHold, Zenon
<1>1. CASE TunStop
  <2> DEFINE r == [tun EXCEPT !.pc = "stopped"]
  <2>1. r \in TunReader /\ r.pc = "stopped" /\ r.to = {}
    BY <1>0, <1>1, Zenon DEF TunFacts, TunReader, TunStop
  <2>2. tun' = r /\ SameObjects
    BY <1>0, <1>1, Zenon DEF TunStop, TunFacts
  <2> HIDE DEF r
  <2> QED
    BY <1>0, <1>1, <2>1, <2>2, TunStep, Zenon DEF TunStop, TunFacts
<1>2. ASSUME NEW i \in Slots, TunFill(i) PROVE IInv'
  <2>1. PICK pk \in Packets : Get(pk) /\ tun' = [tun EXCEPT !.packets[i] = pk]
    BY <1>2, Zenon DEF TunFill
  <2> DEFINE q == [tun.packets EXCEPT ![i] = pk]
             r == [tun EXCEPT !.packets = q]
  <2>2. q \in [Slots -> Packets \cup {NoPacket}]
    BY <1>0, Zenon DEF TunFacts, TunReader
  <2>3. tun' = r /\ SameObjects
    BY <1>0, <1>2, <2>1, Zenon DEF TunFill, TunFacts
  <2> HIDE DEF q
  <2>4. r \in TunReader /\ r.pc = "fill" /\ r.to = {}
    BY <1>0, <1>2, <2>2, Zenon DEF TunFacts, TunReader, TunFill
  <2>5. pool' \in [Packets -> Nat]
    BY <1>0, <2>1, SMTT(60) DEF Get, TunFacts
  <2> HIDE DEF r
  <2> QED
    BY <1>0, <1>2, <2>3, <2>4, <2>5, TunStep, Zenon DEF TunFill
<1>3. ASSUME NEW bad \in SUBSET Slots, NEW dst \in [Slots -> Dsts], TunRead(bad, dst) PROVE IInv'
  <2> DEFINE q == [i \in Slots |-> IF i \in bad THEN NoPacket ELSE tun.packets[i]]
             r == [tun EXCEPT !.pc = "lock", !.dst = dst, !.i = 1, !.packets = q]
             back == [i \in Slots |-> IF i \in bad THEN tun.packets[i] ELSE NoPacket]
  <2>1. q \in [Slots -> Packets \cup {NoPacket}] /\ 1 \in 1..(TunBatch + 1)
    BY <1>0 DEF TunFacts, TunReader
  <2>2. tun' = r /\ SameObjects /\ pool' = PutAll(back)
    BY <1>0, <1>3, Zenon DEF TunRead, TunFacts
  <2>3. DOMAIN back = 1..TunBatch
    BY Zenon DEF Slots
  <2> HIDE DEF q, back
  <2>4. r \in TunReader /\ r.pc = "lock" /\ r.to = {}
    BY <1>0, <1>3, <2>1, Zenon DEF TunFacts, TunReader, TunRead
  <2>5. pool' \in [Packets -> Nat]
    BY <1>0, <2>2, <2>3, PutAllType, Zenon DEF TunFacts
  <2> HIDE DEF r
  <2> QED
    BY <1>0, <1>3, <2>2, <2>4, <2>5, TunStep, ZenonT(60) DEF TunRead
<1> QED
  BY <1>1, <1>2, <1>3, Zenon DEF ReadTUNPackets

(* HandleReadPackets preserves the invariant.                              *)
LEMMA HandleIInv == ASSUME IInv, HandleReadPackets PROVE IInv'
<1> USE NilsAreDistinct DEF confVars, tableVars, lockVars
<1>0. TunFacts
  BY TunFactsHold, Zenon
<1>1. ASSUME TunLoop PROVE tun' \in TunReader /\ tun'.pc = "fill" /\ tun'.to = tun.to
  <2> DEFINE d == [i \in Slots |-> NoRoute]
  <2>1. d \in [Slots -> Dsts] /\ 1 \in 1..(TunBatch + 1)
    BY <1>0 DEF Dsts, TunFacts
  <2>2. tun' = [tun EXCEPT !.pc = "fill", !.dst = d, !.i = 1]
    BY <1>1, Zenon DEF TunLoop
  <2> HIDE DEF d
  <2> QED
    BY <1>0, <2>1, <2>2, Zenon DEF TunFacts, TunReader
<1>2. tun.i <= TunBatch => /\ tun.i + 1 \in 1..(TunBatch + 1) /\ tun.i \in Slots
                           /\ tun.packets[tun.i] \in Packets \cup {NoPacket}
  <2>1. tun.i \in 1..(TunBatch + 1) /\ tun.packets \in [Slots -> Packets \cup {NoPacket}]
    BY <1>0, Zenon DEF TunFacts, TunReader
  <2> QED
    BY <1>0, <2>1, SMTT(30) DEF TunFacts, Slots
<1>3. CASE TunRLock
  <2>1. CASE closePc = "closed"
    <3>1. TunLoop /\ UNCHANGED readers /\ tun.to = {}
      BY <1>0, <1>3, <2>1, Zenon DEF TunRLock, TunFacts
    <3> QED
      BY <1>0, <1>1, <1>3, <3>1, TunStep, Zenon DEF TunRLock, TunFacts
  <2>2. CASE closePc # "closed"
    <3> DEFINE r == [tun EXCEPT !.pc = "scan"]
    <3>1. r \in TunReader /\ r.pc = "scan" /\ r.to = {}
      BY <1>0, <1>3, Zenon DEF TunFacts, TunReader, TunRLock
    <3>2. tun' = r /\ readers' = readers \cup {"tun"} /\ ~WriterHolds
      BY <1>3, <2>2, Zenon DEF TunRLock, CanRLock
    <3> HIDE DEF r
    <3> QED
      BY <1>0, <1>3, <3>1, <3>2, TunStep, Zenon DEF TunRLock, TunFacts
  <2> QED
    BY <2>1, <2>2, Zenon
<1>4. CASE TunScan
  <2> DEFINE d == tun.dst[tun.i]
  <2>1. UNCHANGED readers /\ "tun" \in readers /\ tun.to = {} /\ tun.i <= TunBatch /\ SameObjects
    BY <1>0, <1>4, Zenon DEF TunScan, TunFacts
  <2>2. CASE /\ tun.packets[tun.i] # NoPacket /\ d = Broadcast
             /\ tun' = [tun EXCEPT !.pc = "bcast", !.to = Routes]
    <3>1. Routes \subseteq VpnPeers /\ \A v \in Routes : vp[v].status = "running"
      BY DEF Routes, IInv, RouteSound
    <3>2. tun' \in TunReader /\ tun'.pc = "bcast" /\ tun'.to = Routes /\ tun'.i = tun.i
      BY <1>0, <2>2, <3>1, Zenon DEF TunFacts, TunReader
    <3> QED
      BY <1>0, <1>4, <2>1, <3>1, <3>2, TunStep, Zenon DEF TunScan, TunFacts
  <2>3. CASE /\ tun.packets[tun.i] # NoPacket /\ d \in IP /\ netIPToPeer[d] # NoPeer
             /\ tun' = [tun EXCEPT !.pc = "send", !.to = {netIPToPeer[d]}]
    <3> DEFINE w == netIPToPeer[d]
    <3>1. w \in VpnPeers /\ vp[w].status = "running"
      BY <1>0, <2>3 DEF TunFacts, IInv, RouteSound
    <3>2. tun' = [tun EXCEPT !.pc = "send", !.to = {w}]
      BY <2>3, Zenon
    <3> HIDE DEF w
    <3>3. /\ tun' \in TunReader /\ tun'.pc = "send" /\ tun'.to = {w} /\ tun'.i = tun.i
          /\ tun'.packets = tun.packets
      BY <1>0, <3>1, <3>2, ZenonT(60) DEF TunFacts, TunReader
    <3> QED
      BY <1>0, <1>4, <2>1, <2>3, <3>1, <3>3, TunStep, ZenonT(60) DEF TunScan, TunFacts
  <2>4. CASE tun' = [tun EXCEPT !.i = tun.i + 1]
    <3>1. tun' \in TunReader /\ tun'.pc = "scan" /\ tun'.to = {}
      BY <1>0, <1>2, <1>4, <2>1, <2>4, Zenon DEF TunFacts, TunReader, TunScan
    <3> QED
      BY <1>0, <1>4, <2>1, <3>1, TunStep, Zenon DEF TunScan, TunFacts
  <2> QED
    BY <1>4, <2>2, <2>3, <2>4, Zenon DEF TunScan
<1>5. CASE TunBroadcastDone
  <2> DEFINE r == [tun EXCEPT !.pc = "scan", !.i = tun.i + 1]
  <2>1. tun.i <= TunBatch /\ tun.to = {} /\ "tun" \in readers
    BY <1>0, <1>5, Zenon DEF TunBroadcastDone, TunFacts
  <2>2. r \in TunReader /\ r.pc = "scan" /\ r.to = {}
    BY <1>0, <1>2, <2>1, Zenon DEF TunFacts, TunReader
  <2>3. tun' = r /\ UNCHANGED readers
    BY <1>5, Zenon DEF TunBroadcastDone
  <2> HIDE DEF r
  <2> QED
    BY <1>0, <1>5, <2>1, <2>2, <2>3, TunStep, Zenon DEF TunBroadcastDone, TunFacts
<1>6. CASE TunRUnlock
  <2>1. TunLoop /\ tun.to = {} /\ readers' = readers \ {"tun"}
    BY <1>0, <1>6, Zenon DEF TunRUnlock, TunFacts
  <2> QED
    BY <1>0, <1>1, <1>6, <2>1, TunStep, Zenon DEF TunRUnlock, TunFacts
<1>7. ASSUME NEW v \in VpnPeers, TunSend(v) PROVE IInv'
  <2>1. /\ tun.i <= TunBatch /\ tun.packets[tun.i] \in Packets /\ "tun" \in readers
        /\ vp[v] \in VpnPeer /\ UNCHANGED <<readers, pool>>
    BY <1>0, <1>7, Zenon DEF TunSend, TunFacts
  <2>2. CASE Len(vp[v].outboundCh) < ChanCap
    <3> DEFINE c == Append(vp[v].outboundCh, tun.packets[tun.i])
               n == [vp[v] EXCEPT !.outboundCh = c]
               q == HandedOver(tun.packets, tun.i)
    <3>1. c \in Seq(Packets)
      BY <2>1 DEF VpnPeer
    <3>2. q \in [Slots -> Packets \cup {NoPacket}]
      BY <1>0, Zenon DEF TunFacts, TunReader, HandedOver
    <3>3. /\ vp' = [vp EXCEPT ![v] = n]
          /\ tun' = [tun EXCEPT !.pc = "scan", !.i = tun.i + 1, !.to = {}, !.packets = q]
      BY <1>7, <2>2, Zenon DEF TunSend
    <3> HIDE DEF c, q
    <3>4. n \in VpnPeer /\ n.status = vp[v].status /\ n.peerID = vp[v].peerID /\ n.localIP = vp[v].localIP
      BY <2>1, <3>1, Zenon DEF VpnPeer
    <3>5. tun' \in TunReader /\ tun'.pc = "scan" /\ tun'.to = {}
      BY <1>0, <1>2, <2>1, <3>2, <3>3, Zenon DEF TunFacts, TunReader
    <3> HIDE DEF n
    <3>6. SameObjects
      BY <1>0, <3>3, <3>4, OneMoved, Zenon DEF TunFacts
    <3> QED
      BY <1>0, <1>7, <2>1, <3>5, <3>6, TunStep, Zenon DEF TunSend, TunFacts
  <2>3. CASE ~(Len(vp[v].outboundCh) < ChanCap)
    <3>1. tun' = [tun EXCEPT !.pc = "scan", !.i = tun.i + 1, !.to = {}] /\ SameObjects
      BY <1>0, <1>7, <2>3, Zenon DEF TunSend, TunFacts
    <3>2. tun' \in TunReader /\ tun'.pc = "scan" /\ tun'.to = {}
      BY <1>0, <1>2, <2>1, <3>1, Zenon DEF TunFacts, TunReader
    <3> QED
      BY <1>0, <1>7, <2>1, <3>1, <3>2, TunStep, Zenon DEF TunSend, TunFacts
  <2> QED
    BY <2>2, <2>3, Zenon
<1>8. ASSUME NEW v \in VpnPeers, TunBroadcast(v) PROVE IInv'
  <2>1. tun' \in TunReader /\ tun'.pc = "bcast" /\ tun'.to = tun.to \ {v} /\ tun'.i = tun.i
    BY <1>0, <1>8, Zenon DEF TunFacts, TunReader, TunBroadcast
  <2>2. tun.i <= TunBatch /\ "tun" \in readers /\ UNCHANGED readers /\ vp[v] \in VpnPeer
    BY <1>0, <1>8, Zenon DEF TunBroadcast, TunFacts
  <2>3. SameObjects /\ pool' \in [Packets -> Nat]
    <3>1. CASE UNCHANGED <<pool, vp>>
      BY <1>0, <3>1, Zenon DEF TunFacts
    <3>2. ASSUME NEW pk \in Packets, Get(pk), vp' = [vp EXCEPT ![v].outboundCh = Append(@, pk)]
          PROVE SameObjects /\ pool' \in [Packets -> Nat]
      <4> DEFINE c == Append(vp[v].outboundCh, pk)
                 n == [vp[v] EXCEPT !.outboundCh = c]
      <4>1. c \in Seq(Packets)
        BY <2>2 DEF VpnPeer
      <4>2. vp' = [vp EXCEPT ![v] = n]
        BY <3>2, Zenon
      <4>3. pool' \in [Packets -> Nat]
        BY <1>0, <3>2 DEF Get, TunFacts
      <4> HIDE DEF c
      <4>4. n \in VpnPeer /\ n.status = vp[v].status /\ n.peerID = vp[v].peerID /\ n.localIP = vp[v].localIP
        BY <2>2, <4>1, Zenon DEF VpnPeer
      <4> HIDE DEF n
      <4> QED
        BY <1>0, <4>2, <4>3, <4>4, OneMoved, Zenon DEF TunFacts
    <3> QED
      BY <1>8, <3>1, <3>2, Zenon DEF TunBroadcast
  <2> QED
    BY <1>0, <1>8, <2>1, <2>2, <2>3, TunStep, Zenon DEF TunBroadcast, TunFacts
<1> QED
  BY <1>3, <1>4, <1>5, <1>6, <1>7, <1>8, Zenon DEF HandleReadPackets

-----------------------------------------------------------------------------
(* The inductive invariant is preserved by every step of the system.       *)
LEMMA NextIInv == IInv /\ [Next]_vars => IInv'
<1> SUFFICES ASSUME IInv, [Next]_vars PROVE IInv'
  BY Zenon
<1>1. CASE UNCHANGED vars
  BY <1>1 DEF vars, confVars, tableVars, lockVars, IInv, TypeOK, TablesOK, RouteSound, LockOK,
     SendSafe, TodoOK, HandsOK, WriterHolds
<1> QED
  BY <1>1, ConfigureIInv, RefreshIInv, CloseIInv, ReadIInv, HandleIInv, StreamIInv, HandlersIInv, Zenon
     DEF Next

(* Every variable of the tunnel stays in its type: in particular the       *)
(* refresher is never further behind than the subscription can hold.       *)
THEOREM TypeCorrect == Spec => []TypeOK
<1>1. IInv => TypeOK
  BY Zenon DEF IInv
<1> QED
  BY <1>1, InitIInv, NextIInv, PTL DEF Spec

(* Whatever the order of refreshes, removals, address changes and the      *)
(* shutdown, an address that HandleReadPackets finds in netIPToPeer leads  *)
(* to the open VpnPeer of the peer that has this address.                  *)
THEOREM RoutesAreSound == Spec => []RouteSound
<1>1. IInv => RouteSound
  BY Zenon DEF IInv
<1> QED
  BY <1>1, InitIInv, NextIInv, PTL DEF Spec

(* StreamHandler and HandleReadPackets never send on a channel that        *)
(* VpnPeer.Close has closed, for any number of peers and packets.          *)
THEOREM NoSendOnClosedChannel == Spec => []SendSafe
<1>1. IInv => SendSafe
  BY Zenon DEF IInv
<1> QED
  BY <1>1, InitIInv, NextIInv, PTL DEF Spec

-----------------------------------------------------------------------------
(* RoutesComplete, where every change of the configuration has a refresh   *)
(* of its own: MaxBehind = 1.                                              *)

(* The tables say of a peer what the configuration says.                   *)
Settled(p) ==
    IF known[p] \in IP THEN peerIDToPeer[p] # NoPeer /\ vp[peerIDToPeer[p]].localIP = known[p]
    ELSE peerIDToPeer[p] = NoPeer

(* A refresh that will still come past the peer: it is due, or waits for   *)
(* the lock, or has not visited the peer, or not pruned it.                *)
Pending(p) ==
    \/ events = 1 \/ rpc = "lock"
    \/ rpc = "visit" /\ (p \in todo \/ known[p] = Unknown)
    \/ rpc = "prune" /\ p \in todo /\ known[p] = Unknown

(* CheckIPUnique keeps the addresses of the configuration apart.           *)
AddressesApart == \A p, q \in PeerID : p # q /\ known[p] \in IP => known[p] # known[q]

(* An address that does not parse is one of the configuration file, and is *)
(* never entered.                                                          *)
UnparsedLeftOut == \A p \in PeerID : known[p] = BadIP => peerIDToPeer[p] = NoPeer

(* At most one peer is not settled, and a refresh of it is on its way, so  *)
(* nobody loses a route to a peer that takes its address over.             *)
RoutesFollow ==
    /\ rpc # "idle" => events = 0
    /\ \A p \in PeerID : peerIDToPeer[p] # NoPeer =>
         netIPToPeer[vp[peerIDToPeer[p]].localIP] = peerIDToPeer[p]
    /\ \A p, q \in PeerID : p # q => Settled(p) \/ Settled(q)
    /\ \A p \in PeerID : Settled(p) \/ Pending(p)

Up == subscribed /\ closePc \in {"open", "cancelled"}
RoutesInv == AddressesApart /\ UnparsedLeftOut /\ (Up => RoutesFollow)

(* Packets do not change where a VpnPeer is.                               *)
LEMMA PacketsLeaveAddresses ==
    ASSUME IInv,
           \/ ReadTUNPackets \/ HandleReadPackets \/ \E p \in PeerID : StreamHandler(p)
           \/ \E v \in VpnPeers : backgroundInboundHandler(v) \/ backgroundOutboundHandler(v)
    PROVE  /\ UNCHANGED <<known, events, subscribed, peerIDToPeer, netIPToPeer, rpc, todo, closePc>>
           /\ \A v \in VpnPeers : vp'[v].localIP = vp[v].localIP
<1> USE DEF confVars, tableVars, lockVars
<1>1. \A v \in VpnPeers : vp[v] \in VpnPeer
  BY Zenon DEF IInv, TypeOK
<1>2. ASSUME vp' = vp PROVE \A v \in VpnPeers : vp'[v].localIP = vp[v].localIP
  BY <1>2, Zenon
<1>3. ASSUME NEW v \in VpnPeers, NEW n, vp' = [vp EXCEPT ![v] = n], n.localIP = vp[v].localIP
      PROVE  \A w \in VpnPeers : vp'[w].localIP = vp[w].localIP
  BY <1>3, Zenon DEF IInv, TypeOK
<1>4. CASE ReadTUNPackets
  BY <1>2, <1>4, ZenonT(60) DEF ReadTUNPackets, TunStop, TunFill, TunRead
<1>5. CASE TunRLock \/ TunScan \/ TunBroadcastDone \/ TunRUnlock
  BY <1>2, <1>5, Zenon DEF TunRLock, TunScan, TunBroadcastDone, TunRUnlock
<1>6. ASSUME NEW v \in VpnPeers, TunSend(v) \/ TunBroadcast(v)
      PROVE  /\ UNCHANGED <<known, events, subscribed, peerIDToPeer, netIPToPeer, rpc, todo, closePc>>
             /\ \A w \in VpnPeers : vp'[w].localIP = vp[w].localIP
  <2>1. vp' = vp \/ \E s : vp' = [vp EXCEPT ![v].outboundCh = s]
    BY <1>6, Zenon DEF TunSend, TunBroadcast
  <2>2. ASSUME NEW s, vp' = [vp EXCEPT ![v].outboundCh = s]
        PROVE  \A w \in VpnPeers : vp'[w].localIP = vp[w].localIP
    <3>1. [vp[v] EXCEPT !.outboundCh = s].localIP = vp[v].localIP
      BY <1>1, ZenonT(60) DEF VpnPeer
    <3> QED BY <1>3, <2>2, <3>1, Zenon
  <2> QED BY <1>2, <1>6, <2>1, <2>2, Zenon DEF TunSend, TunBroadcast
<1>7. ASSUME NEW p \in PeerID, StreamOpen(p) \/ StreamGet(p) \/ StreamEOF(p) \/ StreamReceive(p)
      PROVE  /\ UNCHANGED <<known, events, subscribed, peerIDToPeer, netIPToPeer, rpc, todo, closePc>>
             /\ \A w \in VpnPeers : vp'[w].localIP = vp[w].localIP
  BY <1>2, <1>7, ZenonT(60) DEF StreamOpen, StreamGet, StreamEOF, StreamReceive
<1>8. ASSUME NEW p \in PeerID, StreamSend(p)
      PROVE  /\ UNCHANGED <<known, events, subscribed, peerIDToPeer, netIPToPeer, rpc, todo, closePc>>
             /\ \A w \in VpnPeers : vp'[w].localIP = vp[w].localIP
  <2>1. vp' = vp \/ \E v \in VpnPeers : \E s : vp' = [vp EXCEPT ![v].inboundCh = s]
    <3>1. str[p].to \in VpnPeers \cup {NoPeer}
      BY Zenon DEF IInv, TypeOK, StreamReader
    <3> QED BY <1>8, <3>1, ZenonT(60) DEF StreamSend
  <2>2. ASSUME NEW v \in VpnPeers, NEW s, vp' = [vp EXCEPT ![v].inboundCh = s]
        PROVE  \A w \in VpnPeers : vp'[w].localIP = vp[w].localIP
    <3>1. [vp[v] EXCEPT !.inboundCh = s].localIP = vp[v].localIP
      BY <1>1, Zenon DEF VpnPeer
    <3> QED BY <1>3, <2>2, <3>1, Zenon
  <2> QED BY <1>2, <1>8, <2>1, <2>2, Zenon DEF StreamSend
<1>9. ASSUME NEW v \in VpnPeers, backgroundInboundHandler(v) \/ backgroundOutboundHandler(v)
      PROVE  /\ UNCHANGED <<known, events, subscribed, peerIDToPeer, netIPToPeer, rpc, todo, closePc>>
             /\ \A w \in VpnPeers : vp'[w].localIP = vp[w].localIP
  <2>1. UNCHANGED <<known, events, subscribed, peerIDToPeer, netIPToPeer, rpc, todo, closePc>>
    BY <1>9, Zenon DEF backgroundInboundHandler, backgroundOutboundHandler, InReceive, InProcess,
       InExit, OutReceive, OutProcess, OutExit
  <2> SUFFICES \A w \in VpnPeers : vp'[w].localIP = vp[w].localIP
    BY <2>1, Zenon
  <2>2. CASE InReceive(v)
    <3>1. vp' = [vp EXCEPT ![v] = [vp[v] EXCEPT !.inBatch = Append(vp[v].inBatch, Head(vp[v].inboundCh)), !.inboundCh = Tail(vp[v].inboundCh)]]
      BY <2>2, Zenon DEF InReceive
    <3>2. [vp[v] EXCEPT !.inBatch = Append(vp[v].inBatch, Head(vp[v].inboundCh)), !.inboundCh = Tail(vp[v].inboundCh)].localIP = vp[v].localIP
      BY <1>1, Zenon DEF VpnPeer
    <3> QED BY <1>3, <3>1, <3>2, Zenon
  <2>3. CASE InProcess(v)
    <3>1. vp' = [vp EXCEPT ![v] = [vp[v] EXCEPT !.inBatch = <<>>]]
      BY <2>3, Zenon DEF InProcess
    <3>2. [vp[v] EXCEPT !.inBatch = <<>>].localIP = vp[v].localIP
      BY <1>1, Zenon DEF VpnPeer
    <3> QED BY <1>3, <3>1, <3>2, Zenon
  <2>4. CASE InExit(v)
    <3>1. vp' = [vp EXCEPT ![v] = [vp[v] EXCEPT !.inRun = FALSE]]
      BY <2>4, Zenon DEF InExit
    <3>2. [vp[v] EXCEPT !.inRun = FALSE].localIP = vp[v].localIP
      BY <1>1, Zenon DEF VpnPeer
    <3> QED BY <1>3, <3>1, <3>2, ZenonT(60)
  <2>5. CASE OutReceive(v)
    <3>1. vp' = [vp EXCEPT ![v] = [vp[v] EXCEPT !.outBatch = Append(vp[v].outBatch, Head(vp[v].outboundCh)), !.outboundCh = Tail(vp[v].outboundCh)]]
      BY <2>5, Zenon DEF OutReceive
    <3>2. [vp[v] EXCEPT !.outBatch = Append(vp[v].outBatch, Head(vp[v].outboundCh)), !.outboundCh = Tail(vp[v].outboundCh)].localIP = vp[v].localIP
      BY <1>1, Zenon DEF VpnPeer
    <3> QED BY <1>3, <3>1, <3>2, Zenon
  <2>6. CASE OutProcess(v)
    <3>1. vp' = [vp EXCEPT ![v] = [vp[v] EXCEPT !.outBatch = <<>>]]
      BY <2>6, Zenon DEF OutProcess
    <3>2. [vp[v] EXCEPT !.outBatch = <<>>].localIP = vp[v].localIP
      BY <1>1, Zenon DEF VpnPeer
    <3> QED BY <1>3, <3>1, <3>2, Zenon
  <2>7. CASE OutExit(v)
    <3>1. vp' = [vp EXCEPT ![v] = [vp[v] EXCEPT !.outRun = FALSE]]
      BY <2>7, Zenon DEF OutExit
    <3>2. [vp[v] EXCEPT !.outRun = FALSE].localIP = vp[v].localIP
      BY <1>1, Zenon DEF VpnPeer
    <3> QED BY <1>3, <3>1, <3>2, Zenon
  <2> QED
    BY <1>9, <2>2, <2>3, <2>4, <2>5, <2>6, <2>7, Zenon DEF backgroundInboundHandler, backgroundOutboundHandler
<1> QED
  BY <1>4, <1>5, <1>6, <1>7, <1>8, <1>9, Zenon DEF HandleReadPackets, StreamHandler

(* What of a state the invariant speaks of.                                *)
LEMMA SameRoutes ==
    ASSUME IInv, RoutesInv, UNCHANGED <<known, events, peerIDToPeer, netIPToPeer, rpc, todo>>, Up' => Up,
           \A v \in VpnPeers : vp'[v].localIP = vp[v].localIP
    PROVE  RoutesInv'
<1>1. \A p \in PeerID : peerIDToPeer[p] # NoPeer => vp'[peerIDToPeer[p]].localIP = vp[peerIDToPeer[p]].localIP
  BY Zenon DEF IInv, TypeOK
<1>2. \A p \in PeerID : /\ known'[p] = known[p] /\ peerIDToPeer'[p] = peerIDToPeer[p]
                        /\ Settled(p)' = Settled(p) /\ Pending(p)' = Pending(p)
  BY <1>1, Zenon DEF Settled, Pending
<1> QED
  BY <1>1, <1>2, Zenon DEF RoutesInv, AddressesApart, UnparsedLeftOut, RoutesFollow

(* A change of the configuration: the refresher has caught up, so all are  *)
(* settled, and one peer is not any more.                                  *)
LEMMA ConfigureRoutes == MaxBehind = 1 /\ IInv /\ RoutesInv /\ Configure => RoutesInv'
<1> SUFFICES ASSUME MaxBehind = 1, IInv, RoutesInv, Configure PROVE RoutesInv'
  BY Zenon
<1>1. PICK p \in PeerID : RemovePeer(p) \/ \E ip \in IP : UpsertPeer(p, ip)
  BY Zenon DEF Configure
<1>2. /\ known \in [PeerID -> IP \cup {Unknown, BadIP}] /\ events \in 0..1
      /\ Unknown \notin IP /\ BadIP \notin IP /\ Unknown # BadIP
  BY NilsAreDistinct, Zenon DEF IInv, TypeOK
<1>3. PICK ip \in IP \cup {Unknown} :
        /\ known' = [known EXCEPT ![p] = ip]
        /\ ip \in IP => \A q \in PeerID \ {p} : known[q] # ip
  BY <1>1, <1>2, Zenon DEF RemovePeer, UpsertPeer
<1>4. /\ UNCHANGED <<subscribed, peerIDToPeer, netIPToPeer, vp, rpc, todo, closePc>>
      /\ rpc \notin {"visit", "prune"} /\ Emit
  BY <1>1, Zenon DEF RemovePeer, UpsertPeer, tableVars, lockVars, ConfUnlocked
<1>5. known'[p] = ip /\ \A q \in PeerID : q # p => known'[q] = known[q]
  BY <1>2, <1>3, Zenon
<1>6. AddressesApart' /\ UnparsedLeftOut'
  BY <1>2, <1>3, <1>4, <1>5, Zenon DEF RoutesInv, AddressesApart, UnparsedLeftOut
<1>7. ASSUME Up' PROVE RoutesFollow'
  <2>1. Up /\ subscribed BY <1>4, <1>7, Zenon DEF Up
  <2>2. rpc # "lock" /\ events = 0 /\ events' = 1
    BY <1>2, <1>4, <2>1, SMTT(30) DEF Emit, Behind
  <2>3. rpc = "idle" BY <1>4, <2>2, Zenon DEF IInv, TypeOK
  <2>4. \A q \in PeerID : Settled(q)
    BY <2>1, <2>2, <2>3, SMTT(30) DEF RoutesInv, RoutesFollow, Pending
  <2>5. \A q \in PeerID : q # p => Settled(q)'
    BY <1>4, <1>5, <2>4, Zenon DEF Settled
  <2>6. \A q \in PeerID : Pending(q)'
    BY <2>2, Zenon DEF Pending
  <2> QED
    BY <1>4, <2>1, <2>3, <2>5, <2>6, Zenon DEF RoutesInv, RoutesFollow
<1> QED
  BY <1>6, <1>7, Zenon DEF RoutesInv

(* The peers of the table have addresses of their own.                     *)
LEMMA RoutesApart ==
    ASSUME IInv, RoutesFollow, NEW p \in PeerID, NEW q \in PeerID, p # q,
           peerIDToPeer[p] # NoPeer, peerIDToPeer[q] # NoPeer
    PROVE  /\ peerIDToPeer[p] # peerIDToPeer[q]
           /\ vp[peerIDToPeer[p]].localIP # vp[peerIDToPeer[q]].localIP
<1>1. vp[peerIDToPeer[p]].peerID = p /\ vp[peerIDToPeer[q]].peerID = q
  BY Zenon DEF IInv, TablesOK
<1> QED
  BY <1>1, Zenon DEF RoutesFollow

(* The steps of a refresh that change no table.                            *)
LEMMA RefreshRoutesQuiet ==
    ASSUME MaxBehind = 1, IInv, RoutesInv,
           \/ RefreshCalled \/ RefreshLock \/ RefreshVisited \/ RefreshUnlock
           \/ \E p \in PeerID : RefreshSkip(p)
    PROVE  RoutesInv'
<1> USE NilsAreDistinct DEF confVars, tableVars
<1>1. UNCHANGED <<known, subscribed, peerIDToPeer, netIPToPeer, vp, closePc>>
  BY Zenon DEF RefreshCalled, RefreshLock, RefreshVisited, RefreshUnlock, RefreshSkip, Visit
<1>2. \A q \in PeerID : Settled(q)' = Settled(q)
  BY <1>1, Zenon DEF Settled
<1>3. AddressesApart' /\ UnparsedLeftOut' BY <1>1, Zenon DEF RoutesInv, AddressesApart, UnparsedLeftOut
<1>4. ASSUME Up', rpc' # "idle" => events' = 0,
             Up => \A p \in PeerID : Pending(p) => Settled(p) \/ Pending(p)'
      PROVE  RoutesInv'
  <2>1. Up BY <1>1, <1>4, Zenon DEF Up
  <2>2. \A p \in PeerID : Settled(p)' \/ Pending(p)'
    BY <1>2, <1>4, <2>1, Zenon DEF RoutesInv, RoutesFollow
  <2> QED
    BY <1>1, <1>2, <1>3, <1>4, <2>1, <2>2, Zenon DEF RoutesInv, RoutesFollow
<1>5. CASE ~Up' BY <1>3, <1>5, Zenon DEF RoutesInv
<1>6. known \in [PeerID -> IP \cup {Unknown, BadIP}] /\ events \in 0..1
  BY Zenon DEF IInv, TypeOK
<1>7. CASE RefreshCalled
  <2>1. rpc' = "lock" /\ events' = 0 BY <1>6, <1>7, SMTT(30) DEF RefreshCalled
  <2> QED BY <1>4, <1>5, <2>1, Zenon DEF Pending
<1>8. CASE RefreshLock
  <2>1. rpc = "lock" /\ rpc' = "visit" /\ events' = events /\ todo' = {p \in PeerID : known[p] # Unknown}
    BY <1>8, Zenon DEF RefreshLock
  <2>2. Up => events = 0 BY <2>1, Zenon DEF RoutesInv, RoutesFollow
  <2>3. \A p \in PeerID : Pending(p)' BY <1>1, <2>1, Zenon DEF Pending
  <2> QED BY <1>1, <1>4, <1>5, <2>1, <2>2, <2>3, Zenon DEF Up
<1>9. CASE RefreshVisited
  <2>1. /\ rpc = "visit" /\ todo = {} /\ rpc' = "prune" /\ events' = events
        /\ todo' = {p \in PeerID : peerIDToPeer[p] # NoPeer}
    BY <1>9, Zenon DEF RefreshVisited
  <2>2. Up => events = 0 BY <2>1, Zenon DEF RoutesInv, RoutesFollow
  <2>3. Up => \A p \in PeerID : Pending(p) => Settled(p) \/ Pending(p)'
    <3> SUFFICES ASSUME Up, NEW p \in PeerID, Pending(p), ~Settled(p) PROVE Pending(p)'
      BY Zenon
    <3>1. known[p] = Unknown BY <2>1, <2>2, SMTT(30) DEF Pending
    <3>2. peerIDToPeer[p] # NoPeer BY <3>1, Zenon DEF Settled
    <3> QED BY <1>1, <2>1, <3>1, <3>2, Zenon DEF Pending
  <2> QED BY <1>1, <1>4, <1>5, <2>1, <2>2, <2>3, Zenon DEF Up
<1>10. CASE RefreshUnlock
  <2>1. rpc = "prune" /\ todo = {} /\ rpc' = "idle" /\ events' = events BY <1>10, Zenon DEF RefreshUnlock
  <2>2. Up => events = 0 BY <2>1, Zenon DEF RoutesInv, RoutesFollow
  <2>3. Up => \A p \in PeerID : ~Pending(p) BY <2>1, <2>2 DEF Pending
  <2> QED BY <1>4, <1>5, <2>1, <2>3, Zenon
<1>11. ASSUME NEW p \in PeerID, RefreshSkip(p) PROVE RoutesInv'
  <2>1. /\ rpc = "visit" /\ rpc' = "visit" /\ events' = events /\ todo' = todo \ {p}
        /\ known[p] = BadIP \/ (peerIDToPeer[p] # NoPeer /\ vp[peerIDToPeer[p]].localIP = known[p])
    BY <1>11, Zenon DEF RefreshSkip, Visit
  <2>2. Up => events = 0 BY <2>1, Zenon DEF RoutesInv, RoutesFollow
  <2>3. Settled(p) BY <1>6, <2>1, Zenon DEF Settled, RoutesInv, UnparsedLeftOut, IInv, TablesOK
  <2>4. Up => \A q \in PeerID : Pending(q) => Settled(q) \/ Pending(q)'
    <3> SUFFICES ASSUME Up, NEW q \in PeerID, Pending(q), ~Settled(q) PROVE Pending(q)'
      BY Zenon
    <3>1. q \in todo \/ known[q] = Unknown BY <2>1, <2>2, SMTT(30) DEF Pending
    <3>2. CASE q # p BY <1>1, <2>1, <3>1, <3>2, Zenon DEF Pending
    <3> QED BY <2>3, <3>2, Zenon
  <2> QED BY <1>1, <1>4, <1>5, <2>1, <2>2, <2>4, Zenon DEF Up
<1> QED
  BY <1>7, <1>8, <1>9, <1>10, <1>11, Zenon

(* A peer that moves to its new address, or enters the tables: it is the   *)
(* one that was not settled.                                               *)
LEMMA RefreshRoutesVisit ==
    ASSUME MaxBehind = 1, IInv, RoutesInv, NEW p \in PeerID, RefreshMove(p) \/ RefreshAdd(p)
    PROVE  RoutesInv'
<1> USE NilsAreDistinct DEF confVars, tableVars
<1>1. /\ UNCHANGED <<known, events, subscribed, closePc>> /\ rpc = "visit" /\ rpc' = "visit"
      /\ p \in todo /\ todo' = todo \ {p} /\ known[p] \in IP
  BY Zenon DEF RefreshMove, RefreshAdd, Visit, IInv, TypeOK, TodoOK
<1>2. PICK v \in VpnPeers :
        /\ peerIDToPeer' = [peerIDToPeer EXCEPT ![p] = v]
        /\ vp'[v].localIP = known[p] /\ netIPToPeer'[known[p]] = v
        /\ \A w \in VpnPeers : w # v => vp'[w].localIP = vp[w].localIP
        /\ \/ /\ v = peerIDToPeer[p] /\ vp[v].localIP # known[p]
              /\ \A ip \in IP : ip \notin {known[p], vp[v].localIP} => netIPToPeer'[ip] = netIPToPeer[ip]
           \/ /\ vp[v].status # "running" /\ peerIDToPeer[p] = NoPeer
              /\ \A ip \in IP : ip # known[p] => netIPToPeer'[ip] = netIPToPeer[ip]
  <2>1. ASSUME NEW v \in VpnPeers, NEW n, vp' = [vp EXCEPT ![v] = n], n.localIP = known[p]
        PROVE  vp'[v].localIP = known[p] /\ \A w \in VpnPeers : w # v => vp'[w].localIP = vp[w].localIP
    BY <2>1, Zenon DEF IInv, TypeOK
  <2>2. CASE RefreshMove(p)
    <3> DEFINE v == peerIDToPeer[p]
    <3>1. /\ v \in VpnPeers /\ vp[v].localIP # known[p] /\ vp[v] \in VpnPeer /\ vp[v].localIP \in IP
          /\ peerIDToPeer' = peerIDToPeer /\ netIPToPeer' = Moved(vp[v].localIP, known[p], v)
          /\ vp' = [vp EXCEPT ![v].localIP = known[p]]
      BY <2>2 DEF RefreshMove, IInv, TypeOK, TablesOK
    <3>2. [vp[v] EXCEPT !.localIP = known[p]].localIP = known[p]
      BY <3>1, Zenon DEF VpnPeer
    <3>3. peerIDToPeer' = [peerIDToPeer EXCEPT ![p] = v]
      BY <3>1, Zenon DEF IInv, TypeOK
    <3>4. vp'[v].localIP = known[p] /\ \A w \in VpnPeers : w # v => vp'[w].localIP = vp[w].localIP
      BY <2>1, <3>1, <3>2, ZenonT(60)
    <3>5. /\ netIPToPeer'[known[p]] = v
          /\ \A ip \in IP : ip \notin {known[p], vp[v].localIP} => netIPToPeer'[ip] = netIPToPeer[ip]
      BY <1>1, <3>1, Zenon DEF Moved, IInv, TypeOK
    <3> QED BY <3>1, <3>3, <3>4, <3>5, Zenon
  <2>3. CASE RefreshAdd(p)
    <3>1. PICK v \in VpnPeers :
            /\ Allocatable(v)
            /\ vp' = [vp EXCEPT ![v] = NewVpnPeer(vp[v], p, known[p])]
            /\ peerIDToPeer' = [peerIDToPeer EXCEPT ![p] = v]
            /\ netIPToPeer' = [netIPToPeer EXCEPT ![known[p]] = v]
      BY <2>3, Zenon DEF RefreshAdd
    <3>2. NewVpnPeer(vp[v], p, known[p]).localIP = known[p]
      <4>1. vp[v] \in VpnPeer BY Zenon DEF IInv, TypeOK
      <4> QED BY <1>1, <4>1, Started
    <3>3. vp[v].status # "running" /\ peerIDToPeer[p] = NoPeer
      BY <2>3, <3>1, Zenon DEF RefreshAdd, Allocatable
    <3>4. vp'[v].localIP = known[p] /\ \A w \in VpnPeers : w # v => vp'[w].localIP = vp[w].localIP
      BY <2>1, <3>1, <3>2, ZenonT(60)
    <3>5. /\ netIPToPeer'[known[p]] = v
          /\ \A ip \in IP : ip # known[p] => netIPToPeer'[ip] = netIPToPeer[ip]
      BY <1>1, <3>1, Zenon DEF IInv, TypeOK
    <3> QED BY <3>1, <3>3, <3>4, <3>5, Zenon
  <2> QED BY <2>2, <2>3, Zenon
<1>3. peerIDToPeer'[p] = v /\ \A q \in PeerID : q # p => peerIDToPeer'[q] = peerIDToPeer[q]
  BY <1>2, Zenon DEF IInv, TypeOK
<1>4. AddressesApart' /\ UnparsedLeftOut'
  BY <1>1, <1>3, Zenon DEF RoutesInv, AddressesApart, UnparsedLeftOut
<1>5. ASSUME Up' PROVE RoutesFollow'
  <2>1. Up /\ RoutesFollow BY <1>1, <1>5, Zenon DEF Up, RoutesInv
  <2>2. Settled(p)' BY <1>1, <1>2, <1>3, Zenon DEF Settled
  <2>3. ~Settled(p) BY <1>1, <1>2, Zenon DEF Settled
  <2>4. \A q \in PeerID : q # p => Settled(q) BY <2>1, <2>3, Zenon DEF RoutesFollow
  <2>5. ASSUME NEW q \in PeerID, q # p, peerIDToPeer[q] # NoPeer
        PROVE  /\ vp'[peerIDToPeer[q]].localIP = vp[peerIDToPeer[q]].localIP
               /\ netIPToPeer'[vp[peerIDToPeer[q]].localIP] = peerIDToPeer[q]
               /\ peerIDToPeer'[q] = peerIDToPeer[q]
    <3>1. known[q] \in IP /\ vp[peerIDToPeer[q]].localIP = known[q] /\ known[q] # known[p]
      BY <1>1, <2>4, <2>5, Zenon DEF Settled, RoutesInv, AddressesApart
    <3>2. peerIDToPeer[q] \in VpnPeers /\ vp[peerIDToPeer[q]].status = "running"
      BY <2>5, SMTT(30) DEF IInv, TypeOK, TablesOK
    <3>3. netIPToPeer[known[q]] = peerIDToPeer[q]
      BY <2>1, <2>5, <3>1, Zenon DEF RoutesFollow
    <3>4. CASE v = peerIDToPeer[p] /\ vp[v].localIP # known[p]
               /\ \A ip \in IP : ip \notin {known[p], vp[v].localIP} => netIPToPeer'[ip] = netIPToPeer[ip]
      <4>1. peerIDToPeer[q] # v /\ vp[peerIDToPeer[q]].localIP # vp[v].localIP
        BY <2>1, <2>5, <3>4, RoutesApart, Zenon
      <4> QED BY <1>2, <1>3, <2>5, <3>1, <3>2, <3>3, <3>4, <4>1, Zenon
    <3>5. CASE vp[v].status # "running"
               /\ \A ip \in IP : ip # known[p] => netIPToPeer'[ip] = netIPToPeer[ip]
      BY <1>2, <1>3, <2>5, <3>1, <3>2, <3>3, <3>5, SMTT(30)
    <3> QED BY <1>2, <3>4, <3>5, Zenon
  <2>6. \A q \in PeerID : q # p => Settled(q)'
    BY <1>1, <1>3, <2>4, <2>5, Zenon DEF Settled
  <2>7. \A q \in PeerID : peerIDToPeer'[q] # NoPeer =>
          netIPToPeer'[vp'[peerIDToPeer'[q]].localIP] = peerIDToPeer'[q]
    BY <1>2, <1>3, <2>5, SMTT(30)
  <2>8. events' = 0 BY <1>1, <2>1, Zenon DEF RoutesFollow
  <2> QED BY <2>2, <2>6, <2>7, <2>8, Zenon DEF RoutesFollow
<1> QED
  BY <1>4, <1>5, Zenon DEF RoutesInv

(* A peer that is removed takes only its own route along.                  *)
LEMMA RefreshRoutesPrune ==
    ASSUME MaxBehind = 1, IInv, RoutesInv, NEW p \in PeerID, RefreshPrune(p)
    PROVE  RoutesInv'
<1> USE NilsAreDistinct DEF confVars, tableVars
<1>1. /\ UNCHANGED <<known, events, subscribed, closePc>> /\ rpc = "prune" /\ rpc' = "prune"
      /\ p \in todo /\ todo' = todo \ {p} /\ peerIDToPeer[p] # NoPeer
  BY Zenon DEF RefreshPrune, IInv, TodoOK
<1>2. CASE known[p] # Unknown
  <2>1. UNCHANGED <<peerIDToPeer, netIPToPeer, vp>> BY <1>2, Zenon DEF RefreshPrune
  <2>2. \A q \in PeerID : Settled(q)' = Settled(q) /\ Pending(q)' = Pending(q)
    BY <1>1, <1>2, <2>1, Zenon DEF Settled, Pending
  <2>3. AddressesApart' /\ UnparsedLeftOut'
    BY <1>1, <2>1, Zenon DEF RoutesInv, AddressesApart, UnparsedLeftOut
  <2>4. Up' => RoutesFollow'
    BY <1>1, <2>1, <2>2, Zenon DEF Up, RoutesInv, RoutesFollow
  <2> QED BY <2>3, <2>4, Zenon DEF RoutesInv
<1>3. CASE known[p] = Unknown
  <2> DEFINE v == peerIDToPeer[p]
  <2>1. v \in VpnPeers /\ vp[v] \in VpnPeer /\ vp[v].localIP \in IP
    BY <1>1, SMTT(30) DEF IInv, TypeOK, TablesOK
  <2>2. /\ vp' = [vp EXCEPT ![v] = [@ EXCEPT !.status = "closed", !.inboundCh = <<>>, !.outboundCh = <<>>]]
        /\ peerIDToPeer' = [peerIDToPeer EXCEPT ![p] = NoPeer]
        /\ netIPToPeer' = [netIPToPeer EXCEPT ![vp[v].localIP] = NoPeer]
    BY <1>3, Zenon DEF RefreshPrune, CloseVpnPeer
  <2>3. \A w \in VpnPeers : w # v => vp'[w] = vp[w] BY <2>2, Zenon DEF IInv, TypeOK
  <2>4. peerIDToPeer'[p] = NoPeer /\ \A q \in PeerID : q # p => peerIDToPeer'[q] = peerIDToPeer[q]
    BY <2>2, Zenon DEF IInv, TypeOK
  <2>5. AddressesApart' /\ UnparsedLeftOut'
    BY <1>1, <2>4, Zenon DEF RoutesInv, AddressesApart, UnparsedLeftOut
  <2>6. ASSUME Up' PROVE RoutesFollow'
    <3>1. Up /\ RoutesFollow BY <1>1, <2>6, Zenon DEF Up, RoutesInv
    <3>2. Settled(p)' BY <1>1, <1>3, <2>4, Zenon DEF Settled
    <3>3. ASSUME NEW q \in PeerID, q # p
          PROVE  /\ Settled(q)' = Settled(q) /\ Pending(q)' = Pending(q)
                 /\ peerIDToPeer'[q] # NoPeer =>
                      netIPToPeer'[vp'[peerIDToPeer'[q]].localIP] = peerIDToPeer'[q]
      <4>1. Pending(q)' = Pending(q) BY <1>1, <3>3, Zenon DEF Pending
      <4>2. CASE peerIDToPeer[q] = NoPeer
        BY <1>1, <2>4, <3>3, <4>1, <4>2, Zenon DEF Settled
      <4>3. CASE peerIDToPeer[q] # NoPeer
        <5>1. /\ peerIDToPeer[q] # v /\ vp[peerIDToPeer[q]].localIP # vp[v].localIP
          BY <1>1, <3>1, <3>3, <4>3, RoutesApart, Zenon
        <5>2. peerIDToPeer[q] \in VpnPeers /\ vp[peerIDToPeer[q]].localIP \in IP
              /\ netIPToPeer[vp[peerIDToPeer[q]].localIP] = peerIDToPeer[q]
          BY <3>1, <4>3, SMTT(30) DEF IInv, TypeOK, TablesOK, RoutesFollow
        <5>3. vp'[peerIDToPeer[q]] = vp[peerIDToPeer[q]] BY <2>3, <5>1, <5>2, Zenon
        <5>4. netIPToPeer'[vp[peerIDToPeer[q]].localIP] = peerIDToPeer[q]
          BY <2>1, <2>2, <5>1, <5>2, Zenon DEF IInv, TypeOK
        <5>5. peerIDToPeer'[q] = peerIDToPeer[q] BY <2>4, <3>3, Zenon
        <5>6. Settled(q)' = Settled(q) BY <1>1, <5>3, <5>5, Zenon DEF Settled
        <5> QED BY <4>1, <5>3, <5>4, <5>5, <5>6, Zenon
      <4> QED BY <4>2, <4>3, Zenon
    <3>4. events' = 0 BY <1>1, <3>1, Zenon DEF RoutesFollow
    <3>5. \A q \in PeerID : peerIDToPeer'[q] # NoPeer =>
            netIPToPeer'[vp'[peerIDToPeer'[q]].localIP] = peerIDToPeer'[q]
      BY <2>4, <3>3, Zenon
    <3>6. \A q \in PeerID : Settled(q)' \/ Pending(q)' BY <3>1, <3>2, <3>3, Zenon DEF RoutesFollow
    <3>7. \A q, r \in PeerID : q # r => Settled(q)' \/ Settled(r)'
      BY <3>1, <3>2, <3>3, Zenon DEF RoutesFollow
    <3> QED BY <3>4, <3>5, <3>6, <3>7, Zenon DEF RoutesFollow
  <2> QED BY <2>5, <2>6, Zenon DEF RoutesInv
<1> QED
  BY <1>2, <1>3, Zenon

(* The steps of the shutdown.                                              *)
LEMMA CloseRoutes ==
    ASSUME IInv, RoutesInv, CtxCancel \/ SubscriptionDone \/ Close
    PROVE  RoutesInv'
<1> USE DEF confVars, tableVars, lockVars
<1>1. CASE CtxCancel \/ SubscriptionDone \/ CloseCalled \/ CloseLock \/ CloseUnlock
  <2>1. UNCHANGED <<known, events, peerIDToPeer, netIPToPeer, vp, rpc, todo>>
    BY <1>1, Zenon DEF CtxCancel, SubscriptionDone, CloseCalled, CloseLock, CloseUnlock, CloseStep
  <2>2. Up' => Up
    BY <1>1, Zenon DEF CtxCancel, SubscriptionDone, CloseCalled, CloseLock, CloseUnlock, CloseStep, Up
  <2>3. \A v \in VpnPeers : vp'[v].localIP = vp[v].localIP BY <2>1, Zenon
  <2> QED BY <2>1, <2>2, <2>3, SameRoutes, Zenon
<1>2. ASSUME NEW p \in PeerID, ClosePeer(p) PROVE RoutesInv'
  <2>1. ~Up' /\ known' = known /\ peerIDToPeer' = [peerIDToPeer EXCEPT ![p] = NoPeer]
    BY <1>2, Zenon DEF ClosePeer, CloseVpnPeer, Up
  <2> QED BY <2>1, Zenon DEF RoutesInv, AddressesApart, UnparsedLeftOut, IInv, TypeOK
<1> QED
  BY <1>1, <1>2, Zenon DEF Close

LEMMA NextRoutes == MaxBehind = 1 => (IInv /\ RoutesInv /\ [Next]_vars => RoutesInv')
<1> SUFFICES ASSUME MaxBehind = 1, IInv, RoutesInv, [Next]_vars PROVE RoutesInv'
  BY Zenon
<1>1. CASE UNCHANGED vars
  <2>1. UNCHANGED <<known, events, subscribed, peerIDToPeer, netIPToPeer, vp, rpc, todo, closePc>>
    BY <1>1, Zenon DEF vars, confVars, tableVars, lockVars
  <2>2. (Up' => Up) /\ \A v \in VpnPeers : vp'[v].localIP = vp[v].localIP BY <2>1, Zenon DEF Up
  <2> QED BY <2>1, <2>2, SameRoutes, Zenon
<1>2. CASE RefreshPeersList
  BY <1>2, RefreshRoutesQuiet, RefreshRoutesVisit, RefreshRoutesPrune, Zenon DEF RefreshPeersList
<1>3. CASE \/ ReadTUNPackets \/ HandleReadPackets \/ \E p \in PeerID : StreamHandler(p)
           \/ \E v \in VpnPeers : backgroundInboundHandler(v) \/ backgroundOutboundHandler(v)
  <2>1. /\ UNCHANGED <<known, events, subscribed, peerIDToPeer, netIPToPeer, rpc, todo, closePc>>
        /\ \A v \in VpnPeers : vp'[v].localIP = vp[v].localIP
    BY <1>3, PacketsLeaveAddresses, Zenon
  <2>2. Up' => Up BY <2>1, Zenon DEF Up
  <2> QED BY <2>1, <2>2, SameRoutes, Zenon
<1> QED
  BY <1>1, <1>2, <1>3, ConfigureRoutes, CloseRoutes, Zenon DEF Next

(* However peers come, go and swap addresses: where each change has its    *)
(* refresh before the next one is made, every known peer with a valid      *)
(* address has its route once the refresher has caught up. With a larger   *)
(* MaxBehind a refresh that sees two changes may lose one, which the run   *)
(* tunnel_coalesced shows.                                                 *)
THEOREM RoutesAreComplete == MaxBehind = 1 => (Spec => []RoutesComplete)
<1> SUFFICES ASSUME MaxBehind = 1 PROVE Spec => []RoutesComplete
  BY Zenon
<1>1. Init => IInv /\ RoutesInv
  <2> SUFFICES ASSUME Init PROVE RoutesInv BY InitIInv, Zenon
  <2>1. \A p \in PeerID : known[p] \notin IP /\ peerIDToPeer[p] = NoPeer
    BY NilsAreDistinct, Zenon DEF Init
  <2>2. rpc = "idle" BY Zenon DEF Init
  <2> QED BY <2>1, <2>2, Zenon DEF RoutesInv, AddressesApart, UnparsedLeftOut, RoutesFollow, Settled
<1>2. IInv /\ RoutesInv /\ [Next]_vars => (IInv /\ RoutesInv)'
  BY NextIInv, NextRoutes, Zenon
<1>3. IInv /\ RoutesInv => RoutesComplete
  <2> SUFFICES ASSUME IInv, RoutesInv, rpc = "idle", events = 0, Up, NEW p \in PeerID, known[p] \in IP
               PROVE  netIPToPeer[known[p]] # NoPeer /\ netIPToPeer[known[p]] = peerIDToPeer[p]
    BY Zenon DEF RoutesComplete, Up
  <2>1. Settled(p) BY DEF RoutesInv, RoutesFollow, Pending
  <2> QED BY <2>1, Zenon DEF Settled, RoutesInv, RoutesFollow
<1> QED
  BY <1>1, <1>2, <1>3, PTL DEF Spec

-----------------------------------------------------------------------------
(* SingleOwner: each packet is followed through the holders that a step    *)
(* touches.                                                                *)

(* What holds packets: the pool, the TUN reader, a stream handler, a       *)
(* channel or a batch of an object.                                        *)
InPool   == <<"pool", NoPeer>>
InTun    == <<"tun", NoPeer>>
Streams  == {<<"stream", p>> : p \in PeerID}
Objects  == {<<kind, v>> : kind \in {"inboundCh", "outboundCh", "inBatch", "outBatch"}, v \in VpnPeers}
Holders  == {InPool, InTun} \cup Streams \cup Objects

(* Where in each holder packet pk is.                                      *)
Held(pk) ==
    [h \in Holders |->
        IF h[1] = "pool" THEN 1..pool[pk]
        ELSE IF h[1] = "tun" THEN At(tun.packets, pk)
        ELSE IF h[1] = "stream" THEN IF str[h[2]].packet = pk THEN {1} ELSE {}
        ELSE IF h[1] = "inboundCh" THEN At(vp[h[2]].inboundCh, pk)
        ELSE IF h[1] = "outboundCh" THEN At(vp[h[2]].outboundCh, pk)
        ELSE IF h[1] = "inBatch" THEN At(vp[h[2]].inBatch, pk)
        ELSE At(vp[h[2]].outBatch, pk)]

(* Among the holders of H, one has it, once; or none has it.               *)
One(S) == \E i \in S : S = {i}
Once(F, H)  == \E h \in H : One(F[h]) /\ \A k \in H \ {h} : F[k] = {}
Never(F, H) == \A h \in H : F[h] = {}
Owned(pk) == Once(Held(pk), Holders)

(* The holders are pairwise different.                                     *)
LEMMA HoldersAre ==
    /\ InPool \in Holders /\ InTun \in Holders /\ InPool # InTun
    /\ \A p \in PeerID : /\ <<"stream", p>> \in Holders
                         /\ <<"stream", p>> # InPool /\ <<"stream", p>> # InTun
    /\ \A v \in VpnPeers, kind \in {"inboundCh", "outboundCh", "inBatch", "outBatch"} :
         /\ <<kind, v>> \in Holders /\ <<kind, v>> # InPool /\ <<kind, v>> # InTun
         /\ \A p \in PeerID : <<kind, v>> # <<"stream", p>>
    /\ \A v \in VpnPeers : /\ <<"inboundCh", v>> # <<"outboundCh", v>>
                           /\ <<"inboundCh", v>> # <<"inBatch", v>>
                           /\ <<"outboundCh", v>> # <<"outBatch", v>>
BY DEF Holders, InPool, InTun, Streams, Objects

(* There are no others.                                                    *)
LEMMA HoldersCases ==
    ASSUME NEW h \in Holders
    PROVE  \/ h = InPool \/ h = InTun
           \/ \E p \in PeerID : h = <<"stream", p>>
           \/ \E v \in VpnPeers : \E kind \in {"inboundCh", "outboundCh", "inBatch", "outBatch"} : h = <<kind, v>>
BY SMTT(30) DEF Holders, Streams, Objects

(* What each of them holds, in this state and in the next.                 *)
LEMMA HeldIs ==
    ASSUME NEW pk
    PROVE  /\ Held(pk)[InPool] = 1..pool[pk] /\ Held(pk)[InTun] = At(tun.packets, pk)
           /\ \A p \in PeerID : Held(pk)[<<"stream", p>>] = IF str[p].packet = pk THEN {1} ELSE {}
           /\ \A v \in VpnPeers : /\ Held(pk)[<<"inboundCh", v>>] = At(vp[v].inboundCh, pk)
                                  /\ Held(pk)[<<"outboundCh", v>>] = At(vp[v].outboundCh, pk)
                                  /\ Held(pk)[<<"inBatch", v>>] = At(vp[v].inBatch, pk)
                                  /\ Held(pk)[<<"outBatch", v>>] = At(vp[v].outBatch, pk)
BY HoldersAre, Zenon DEF Held, InPool, InTun

(* The same after a step.                                                  *)
LEMMA HeldNext ==
    ASSUME NEW pk
    PROVE  /\ Held(pk)'[InPool] = 1..pool'[pk] /\ Held(pk)'[InTun] = At(tun'.packets, pk)
           /\ \A p \in PeerID : Held(pk)'[<<"stream", p>>] = IF str'[p].packet = pk THEN {1} ELSE {}
           /\ \A v \in VpnPeers : /\ Held(pk)'[<<"inboundCh", v>>] = At(vp'[v].inboundCh, pk)
                                  /\ Held(pk)'[<<"outboundCh", v>>] = At(vp'[v].outboundCh, pk)
                                  /\ Held(pk)'[<<"inBatch", v>>] = At(vp'[v].inBatch, pk)
                                  /\ Held(pk)'[<<"outBatch", v>>] = At(vp'[v].outBatch, pk)
BY HoldersAre, Zenon DEF Held, InPool, InTun

(* A packet that is owned is in exactly one place.                         *)
LEMMA OwnedOnce ==
    ASSUME NEW pk \in Packets, Owned(pk)
    PROVE  Cardinality(Places(pk)) = 1
<1> DEFINE F == Held(pk)
<1>1. PICK h \in Holders : One(F[h]) /\ \A k \in Holders \ {h} : F[k] = {}
  BY Zenon DEF Owned, Once
<1>2. PICK i : F[h] = {i} BY <1>1, Zenon DEF One
<1>h. /\ F[InPool] = 1..pool[pk] /\ F[InTun] = At(tun.packets, pk)
      /\ \A p \in PeerID : F[<<"stream", p>>] = IF str[p].packet = pk THEN {1} ELSE {}
      /\ \A v \in VpnPeers : /\ F[<<"inboundCh", v>>] = At(vp[v].inboundCh, pk)
                             /\ F[<<"outboundCh", v>>] = At(vp[v].outboundCh, pk)
                             /\ F[<<"inBatch", v>>] = At(vp[v].inBatch, pk)
                             /\ F[<<"outBatch", v>>] = At(vp[v].outBatch, pk)
  BY HeldIs, Zenon
<1> HIDE DEF F
<1>3. ASSUME NEW x PROVE x \in Places(pk) <=> \E k \in Holders : \E j \in F[k] : x = <<k, j>>
  <2>2. ASSUME x \in Places(pk) PROVE \E k \in Holders : \E j \in F[k] : x = <<k, j>>
    <3>1. CASE x \in {InPool} \X (1..pool[pk])
      <4>1. PICK j \in 1..pool[pk] : x = <<InPool, j>> BY <3>1, SMTT(30)
      <4> QED BY <4>1, <1>h, HoldersAre, Zenon
    <3>2. CASE x \in {InTun} \X At(tun.packets, pk)
      <4>1. PICK j \in At(tun.packets, pk) : x = <<InTun, j>> BY <3>2, SMTT(30)
      <4> QED BY <4>1, <1>h, HoldersAre, Zenon
    <3>3. CASE x \in {<<"stream", p>> : p \in {p \in PeerID : str[p].packet = pk}} \X {1}
      <4>1. PICK p \in PeerID : str[p].packet = pk /\ x = <<<<"stream", p>>, 1>> BY <3>3
      <4> QED BY <4>1, <1>h, HoldersAre, Zenon
    <3>4. ASSUME NEW v \in VpnPeers,
                 x \in ({<<"inboundCh", v>>} \X At(vp[v].inboundCh, pk))
                       \cup ({<<"outboundCh", v>>} \X At(vp[v].outboundCh, pk))
                       \cup ({<<"inBatch", v>>} \X At(vp[v].inBatch, pk))
                       \cup ({<<"outBatch", v>>} \X At(vp[v].outBatch, pk))
          PROVE  \E k \in Holders : \E j \in F[k] : x = <<k, j>>
      <4>1. \/ \E j \in At(vp[v].inboundCh, pk) : x = <<<<"inboundCh", v>>, j>>
            \/ \E j \in At(vp[v].outboundCh, pk) : x = <<<<"outboundCh", v>>, j>>
            \/ \E j \in At(vp[v].inBatch, pk) : x = <<<<"inBatch", v>>, j>>
            \/ \E j \in At(vp[v].outBatch, pk) : x = <<<<"outBatch", v>>, j>>
        BY <3>4
      <4>2. <<"inboundCh", v>> \in Holders /\ <<"outboundCh", v>> \in Holders
            /\ <<"inBatch", v>> \in Holders /\ <<"outBatch", v>> \in Holders
        BY HoldersAre, Zenon
      <4> QED BY <4>1, <4>2, <1>h, Zenon
    <3> QED BY <2>2, <3>1, <3>2, <3>3, <3>4, Zenon DEF Places, InPool, InTun
  <2>3. ASSUME NEW k \in Holders, NEW j \in F[k] PROVE <<k, j>> \in Places(pk)
    <3>1. CASE k = InPool BY <2>3, <3>1, <1>h, Zenon DEF Places, InPool
    <3>2. CASE k = InTun BY <2>3, <3>2, <1>h, Zenon DEF Places, InTun
    <3>3. ASSUME NEW p \in PeerID, k = <<"stream", p>> PROVE <<k, j>> \in Places(pk)
      <4>1. F[<<"stream", p>>] = IF str[p].packet = pk THEN {1} ELSE {} BY <1>h, Zenon
      <4>2. j \in IF str[p].packet = pk THEN {1} ELSE {} BY <2>3, <3>3, <4>1, Zenon
      <4> QED BY <3>3, <4>2, Zenon DEF Places
    <3>4. ASSUME NEW v \in VpnPeers, NEW kind \in {"inboundCh", "outboundCh", "inBatch", "outBatch"},
                 k = <<kind, v>>
          PROVE  <<k, j>> \in Places(pk)
      <4>1. CASE kind = "inboundCh"
        <5>1. j \in At(vp[v].inboundCh, pk) /\ k = <<"inboundCh", v>> BY <2>3, <3>4, <4>1, <1>h, Zenon
        <5> QED BY <5>1 DEF Places
      <4>2. CASE kind = "outboundCh"
        <5>1. j \in At(vp[v].outboundCh, pk) /\ k = <<"outboundCh", v>> BY <2>3, <3>4, <4>2, <1>h, Zenon
        <5> QED BY <5>1 DEF Places
      <4>3. CASE kind = "inBatch"
        <5>1. j \in At(vp[v].inBatch, pk) /\ k = <<"inBatch", v>> BY <2>3, <3>4, <4>3, <1>h, Zenon
        <5> QED BY <5>1 DEF Places
      <4>4. CASE kind = "outBatch"
        <5>1. j \in At(vp[v].outBatch, pk) /\ k = <<"outBatch", v>> BY <2>3, <3>4, <4>4, <1>h, Zenon
        <5> QED BY <5>1 DEF Places
      <4> QED BY <4>1, <4>2, <4>3, <4>4, Zenon
    <3> QED BY <3>1, <3>2, <3>3, <3>4, HoldersCases, Zenon
  <2> QED BY <2>2, <2>3, Zenon
<1>4. Places(pk) = {<<h, i>>} BY <1>1, <1>2, <1>3, Zenon
<1> QED BY <1>4, FS_Singleton, Zenon

-----------------------------------------------------------------------------
(* What a step leaves alone, outside the holders of H.                     *)
Same(pk, H) ==
    /\ InPool \in H \/ pool'[pk] = pool[pk]
    /\ InTun \in H \/ tun'.packets = tun.packets
    /\ \A p \in PeerID : <<"stream", p>> \in H \/ str'[p].packet = str[p].packet
    /\ \A v \in VpnPeers : /\ <<"inboundCh", v>> \in H \/ vp'[v].inboundCh = vp[v].inboundCh
                           /\ <<"outboundCh", v>> \in H \/ vp'[v].outboundCh = vp[v].outboundCh
                           /\ <<"inBatch", v>> \in H \/ vp'[v].inBatch = vp[v].inBatch
                           /\ <<"outBatch", v>> \in H \/ vp'[v].outBatch = vp[v].outBatch

(* A packet stays where it is in a holder that is left alone.              *)
LEMMA SameHeld ==
    ASSUME NEW pk, NEW H, Same(pk, H), NEW h \in Holders \ H
    PROVE  Held(pk)'[h] = Held(pk)[h]
<1>1. CASE h = InPool BY <1>1, HeldIs, HeldNext, SMTT(30) DEF Same
<1>2. CASE h = InTun BY <1>2, HeldIs, HeldNext, SMTT(30) DEF Same
<1>3. ASSUME NEW p \in PeerID, h = <<"stream", p>> PROVE Held(pk)'[h] = Held(pk)[h]
  BY <1>3, HeldIs, HeldNext, SMTT(30) DEF Same
<1>4. ASSUME NEW v \in VpnPeers, NEW kind \in {"inboundCh", "outboundCh", "inBatch", "outBatch"},
             h = <<kind, v>>
      PROVE  Held(pk)'[h] = Held(pk)[h]
  <2>1. CASE kind = "inboundCh"
    <3>1. h = <<"inboundCh", v>> BY <1>4, <2>1, Zenon
    <3>2. vp'[v].inboundCh = vp[v].inboundCh BY <3>1, Zenon DEF Same
    <3>3. Held(pk)[<<"inboundCh", v>>] = At(vp[v].inboundCh, pk) BY HeldIs, Zenon
    <3>4. Held(pk)'[<<"inboundCh", v>>] = At(vp'[v].inboundCh, pk) BY HeldNext, Zenon
    <3> QED BY <3>1, <3>2, <3>3, <3>4, Zenon
  <2>2. CASE kind = "outboundCh"
    <3>1. h = <<"outboundCh", v>> BY <1>4, <2>2, Zenon
    <3>2. vp'[v].outboundCh = vp[v].outboundCh BY <3>1, Zenon DEF Same
    <3>3. Held(pk)[<<"outboundCh", v>>] = At(vp[v].outboundCh, pk) BY HeldIs, Zenon
    <3>4. Held(pk)'[<<"outboundCh", v>>] = At(vp'[v].outboundCh, pk) BY HeldNext, Zenon
    <3> QED BY <3>1, <3>2, <3>3, <3>4, Zenon
  <2>3. CASE kind = "inBatch"
    <3>1. h = <<"inBatch", v>> BY <1>4, <2>3, Zenon
    <3>2. vp'[v].inBatch = vp[v].inBatch BY <3>1, Zenon DEF Same
    <3>3. Held(pk)[<<"inBatch", v>>] = At(vp[v].inBatch, pk) BY HeldIs, Zenon
    <3>4. Held(pk)'[<<"inBatch", v>>] = At(vp'[v].inBatch, pk) BY HeldNext, Zenon
    <3> QED BY <3>1, <3>2, <3>3, <3>4, Zenon
  <2>4. CASE kind = "outBatch"
    <3>1. h = <<"outBatch", v>> BY <1>4, <2>4, Zenon
    <3>2. vp'[v].outBatch = vp[v].outBatch BY <3>1, Zenon DEF Same
    <3>3. Held(pk)[<<"outBatch", v>>] = At(vp[v].outBatch, pk) BY HeldIs, Zenon
    <3>4. Held(pk)'[<<"outBatch", v>>] = At(vp'[v].outBatch, pk) BY HeldNext, Zenon
    <3> QED BY <3>1, <3>2, <3>3, <3>4, Zenon
  <2> QED BY <2>1, <2>2, <2>3, <2>4, Zenon
<1> QED BY <1>1, <1>2, <1>3, <1>4, HoldersCases, Zenon

(* It is enough to look at the holders that a step touches.                *)
LEMMA OnceLocal ==
    ASSUME NEW F, NEW G, NEW K, NEW H \in SUBSET K, \A h \in K \ H : G[h] = F[h],
           Once(F, K), Once(F, H) => Once(G, H), Never(F, H) => Never(G, H)
    PROVE  Once(G, K)
<1>1. PICK h \in K : One(F[h]) /\ \A k \in K \ {h} : F[k] = {} BY Zenon DEF Once
<1>2. CASE h \in H
  <2>1. Once(F, H) BY <1>1, <1>2, Zenon DEF Once
  <2>2. PICK g \in H : One(G[g]) /\ \A k \in H \ {g} : G[k] = {} BY <2>1, Zenon DEF Once
  <2>3. ASSUME NEW k \in K \ {g} PROVE G[k] = {} BY <1>1, <1>2, <2>2, Zenon
  <2> QED BY <2>2, <2>3, Zenon DEF Once
<1>3. CASE h \notin H
  <2>1. Never(G, H) BY <1>1, <1>3, Zenon DEF Never
  <2>2. One(G[h]) BY <1>1, <1>3, Zenon
  <2>3. ASSUME NEW k \in K \ {h} PROVE G[k] = {} BY <1>1, <1>3, <2>1, Zenon DEF Never
  <2> QED BY <1>3, <2>2, <2>3, Zenon DEF Once
<1> QED BY <1>2, <1>3, Zenon

(* Sets with one element, and the copies of a packet in the pool.          *)
LEMMA OneSet == /\ \A S : One(S) => S # {}
                /\ \A n \in Nat : /\ 1..n = {} <=> n = 0
                                  /\ One(1..n) <=> n = 1
<1>1. ASSUME NEW n \in Nat, One(1..n) PROVE n = 1
  <2>1. PICK i : 1..n = {i} BY <1>1, Zenon DEF One
  <2>2. n # 0 BY <2>1
  <2>3. 1 \in 1..n /\ n \in 1..n BY <2>2
  <2> QED BY <2>1, <2>3, Zenon
<1>2. 1..1 = {1} OBVIOUS
<1>3. One(1..1) BY <1>2, Zenon DEF One
<1>4. ASSUME NEW n \in Nat PROVE 1..n = {} <=> n = 0
  <2>1. n # 0 => 1 \in 1..n OBVIOUS
  <2> QED BY <2>1
<1> QED BY <1>1, <1>3, <1>4, Zenon DEF One

(* A step that passes packets between two holders.                         *)
LEMMA Passed ==
    ASSUME NEW pk, Owned(pk), NEW X \in Holders, NEW Y \in Holders, X # Y, Same(pk, {X, Y}),
           Held(pk)[X] = {} /\ Held(pk)[Y] = {} => Held(pk)'[X] = {} /\ Held(pk)'[Y] = {},
           One(Held(pk)[X]) /\ Held(pk)[Y] = {} =>
               \/ One(Held(pk)'[X]) /\ Held(pk)'[Y] = {}
               \/ Held(pk)'[X] = {} /\ One(Held(pk)'[Y]),
           Held(pk)[X] = {} /\ One(Held(pk)[Y]) =>
               \/ One(Held(pk)'[X]) /\ Held(pk)'[Y] = {}
               \/ Held(pk)'[X] = {} /\ One(Held(pk)'[Y])
    PROVE  Owned(pk)'
<1> DEFINE F == Held(pk)
           G == Held(pk)'
           H == {X, Y}
<1>1. \A h \in Holders \ H : G[h] = F[h] BY SameHeld, Zenon
<1>2. Once(F, H) => Once(G, H) BY Zenon DEF Once
<1>3. Never(F, H) => Never(G, H) BY Zenon DEF Never
<1>4. Once(F, Holders) BY Zenon DEF Owned
<1>5. H \in SUBSET Holders BY Zenon
<1> HIDE DEF F, G, H
<1>6. Once(G, Holders) BY <1>1, <1>2, <1>3, <1>4, <1>5, OnceLocal, Zenon
<1> QED BY <1>6, Zenon DEF Owned, G

(* GetTempPacket, for a holder that had not got the packet.                *)
LEMMA Taken ==
    ASSUME pool \in [Packets -> Nat], NEW pk \in Packets, Owned(pk), NEW got \in Packets, Get(got),
           NEW X \in Holders, X # InPool, Same(pk, {InPool, X}),
           pk # got => Held(pk)'[X] = Held(pk)[X],
           pk = got /\ Held(pk)[X] = {} => One(Held(pk)'[X])
    PROVE  Owned(pk)'
<1>1. Held(pk)[InPool] = 1..pool[pk] /\ Held(pk)'[InPool] = 1..pool'[pk] BY HeldIs, HeldNext, Zenon
<1>2. CASE pk # got
  <2>1. pool'[pk] = pool[pk] BY <1>2, Zenon DEF Get
  <2> QED BY <1>1, <1>2, <2>1, HoldersAre, Passed, Zenon
<1>3. CASE pk = got
  <2>1. pool[pk] \in Nat /\ pool[pk] # 0 /\ pool'[pk] = pool[pk] - 1 BY <1>3 DEF Get
  <2>2. Held(pk)[InPool] # {} BY <1>1, <2>1, OneSet, Zenon
  <2>3. One(Held(pk)[InPool]) => Held(pk)'[InPool] = {}
    <3> SUFFICES ASSUME One(Held(pk)[InPool]) PROVE Held(pk)'[InPool] = {} BY Zenon
    <3>1. pool[pk] = 1 BY <1>1, <2>1, OneSet, Zenon
    <3>2. pool'[pk] = 0 BY <2>1, <3>1
    <3> QED BY <1>1, <3>2, OneSet, SMTT(30)
  <2>4. ~One({}) BY OneSet, Zenon
  <2> QED BY <1>3, <2>2, <2>3, <2>4, HoldersAre, Passed, Zenon
<1> QED BY <1>2, <1>3, Zenon

(* How often a packet occurs in a sequence that has it once or not at all. *)
LEMMA Counts ==
    ASSUME NEW s, NEW pk
    PROVE  /\ At(s, pk) = {} => Occurrences(s, pk) = 0
           /\ One(At(s, pk)) => Occurrences(s, pk) = 1
<1>1. Occurrences(s, pk) = Cardinality(At(s, pk)) BY Zenon DEF Occurrences, At
<1> QED BY <1>1, FS_EmptySet, FS_Singleton, Zenon DEF One

(* PutTempPacket of some or all packets of one holder.                     *)
LEMMA PutBack ==
    ASSUME pool \in [Packets -> Nat], NEW pk \in Packets, Owned(pk), NEW s,
           pool'[pk] = pool[pk] + Occurrences(s, pk),
           NEW X \in Holders, X # InPool, Same(pk, {InPool, X}),
           Held(pk)[X] = {} => At(s, pk) = {} /\ Held(pk)'[X] = {},
           One(Held(pk)[X]) => \/ One(At(s, pk)) /\ Held(pk)'[X] = {}
                               \/ At(s, pk) = {} /\ One(Held(pk)'[X])
    PROVE  Owned(pk)'
<1>1. Held(pk)[InPool] = 1..pool[pk] /\ Held(pk)'[InPool] = 1..pool'[pk] BY HeldIs, HeldNext, Zenon
<1>2. pool[pk] \in Nat BY Zenon
<1>3. At(s, pk) = {} => Held(pk)'[InPool] = Held(pk)[InPool]
  <2>1. At(s, pk) = {} => pool'[pk] = pool[pk] BY <1>2, Counts, SMTT(30)
  <2> QED BY <1>1, <2>1, Zenon
<1>4. One(At(s, pk)) /\ Held(pk)[InPool] = {} => One(Held(pk)'[InPool])
  <2> SUFFICES ASSUME One(At(s, pk)), Held(pk)[InPool] = {} PROVE One(Held(pk)'[InPool]) BY Zenon
  <2>1. pool[pk] = 0 BY <1>1, <1>2, OneSet, ZenonT(60)
  <2>2. pool'[pk] = 1 BY <2>1, Counts, SMTT(30)
  <2> QED BY <1>1, <2>2, OneSet, SMTT(30)
<1> QED BY <1>3, <1>4, HoldersAre, Passed, Zenon

(* Where a packet is in a sequence to which one is added.                  *)
LEMMA AtAppend ==
    ASSUME NEW s \in Seq(Packets), NEW x, NEW pk
    PROVE  /\ x # pk => At(Append(s, x), pk) = At(s, pk)
           /\ x = pk /\ At(s, pk) = {} => One(At(Append(s, x), pk))
<1>1. DOMAIN Append(s, x) = 1..(Len(s) + 1) /\ DOMAIN s = 1..Len(s) /\ Len(s) \in Nat OBVIOUS
<1>2. \A i \in 1..Len(s) : Append(s, x)[i] = s[i] OBVIOUS
<1>3. Append(s, x)[Len(s) + 1] = x OBVIOUS
<1>4. \A i : i \in 1..(Len(s) + 1) <=> i \in 1..Len(s) \/ i = Len(s) + 1 BY <1>1
<1>5. x # pk => At(Append(s, x), pk) = At(s, pk) BY <1>1, <1>2, <1>3, <1>4, Zenon DEF At
<1>6. x = pk /\ At(s, pk) = {} => At(Append(s, x), pk) = {Len(s) + 1} BY <1>1, <1>2, <1>3, <1>4, Zenon DEF At
<1> QED BY <1>5, <1>6, Zenon DEF One

(* What is left of a sequence whose first packet is taken.                 *)
LEMMA AtTail ==
    ASSUME NEW s \in Seq(Packets), s # <<>>, NEW pk
    PROVE  /\ At(s, pk) = {} => Head(s) # pk /\ At(Tail(s), pk) = {}
           /\ One(At(s, pk)) => \/ Head(s) = pk /\ At(Tail(s), pk) = {}
                                \/ Head(s) # pk /\ One(At(Tail(s), pk))
<1>1. Len(s) \in Nat \ {0} /\ DOMAIN s = 1..Len(s) /\ DOMAIN Tail(s) = 1..(Len(s) - 1) /\ Head(s) = s[1] OBVIOUS
<1>2. \A i \in 1..(Len(s) - 1) : Tail(s)[i] = s[i + 1] OBVIOUS
<1>3. \A i : i \in At(Tail(s), pk) <=> i \in 1..(Len(s) - 1) /\ i + 1 \in At(s, pk) BY <1>1, <1>2 DEF At
<1>4. Head(s) = pk <=> 1 \in At(s, pk) BY <1>1 DEF At
<1>5. At(s, pk) \subseteq 1..Len(s) BY <1>1, Zenon DEF At
<1>6. ASSUME NEW i, At(s, pk) = {i}
      PROVE \/ Head(s) = pk /\ At(Tail(s), pk) = {}
            \/ Head(s) # pk /\ At(Tail(s), pk) = {i - 1}
  <2>1. i \in 1..Len(s) BY <1>5, <1>6, Zenon
  <2>2. CASE i = 1 BY <1>1, <1>3, <1>4, <1>6, <2>2, SMTT(30)
  <2>3. CASE i # 1
    <3>1. i - 1 \in 1..(Len(s) - 1) /\ (i - 1) + 1 = i BY <1>1, <2>1, <2>3
    <3>2. \A j : j \in At(Tail(s), pk) <=> j = i - 1 BY <1>1, <1>3, <1>6, <2>1, <3>1, SMTT(30)
    <3> QED BY <1>4, <1>6, <2>3, <3>2, Zenon
  <2> QED BY <2>2, <2>3, Zenon
<1>7. At(s, pk) = {} => Head(s) # pk /\ At(Tail(s), pk) = {} BY <1>3, <1>4, Zenon
<1> QED BY <1>6, <1>7, Zenon DEF One

(* Nothing is in an empty channel.                                         *)
LEMMA AtEmpty == \A pk : At(<<>>, pk) = {}
BY DEF At

-----------------------------------------------------------------------------
(* The goroutines of a VpnPeer: backgroundInboundHandler takes a packet    *)
(* from its channel.                                                       *)
LEMMA InReceiveOwned ==
    ASSUME IInv, NEW v \in VpnPeers, InReceive(v), NEW pk \in Packets, Owned(pk) PROVE Owned(pk)'
<1> DEFINE X == <<"inboundCh", v>>
           Y == <<"inBatch", v>>
           n == [vp[v] EXCEPT !.inBatch = Append(vp[v].inBatch, Head(vp[v].inboundCh)),
                              !.inboundCh = Tail(vp[v].inboundCh)]
<1>1. vp \in [VpnPeers -> VpnPeer] /\ vp[v] \in VpnPeer BY Zenon DEF IInv, TypeOK
<1>2. vp[v].inboundCh \in Seq(Packets) /\ vp[v].inBatch \in Seq(Packets) BY <1>1, Zenon DEF VpnPeer
<1>3. /\ vp' = [vp EXCEPT ![v] = n] /\ vp[v].inboundCh # <<>>
      /\ pool' = pool /\ tun' = tun /\ str' = str
  BY Zenon DEF InReceive
<1>4. /\ n.inBatch = Append(vp[v].inBatch, Head(vp[v].inboundCh))
      /\ n.inboundCh = Tail(vp[v].inboundCh)
      /\ n.outboundCh = vp[v].outboundCh /\ n.outBatch = vp[v].outBatch
  BY <1>1, Zenon DEF VpnPeer
<1> HIDE DEF n
<1>5. vp'[v] = n /\ \A w \in VpnPeers \ {v} : vp'[w] = vp[w] BY <1>1, <1>3, Zenon
<1>6. /\ X \in Holders /\ Y \in Holders /\ X # Y BY HoldersAre, Zenon
<1>7. Same(pk, {X, Y}) BY <1>3, <1>4, <1>5, Zenon DEF Same
<1>8. /\ Held(pk)[X] = At(vp[v].inboundCh, pk) /\ Held(pk)[Y] = At(vp[v].inBatch, pk) BY HeldIs, Zenon
<1>9. /\ Held(pk)'[X] = At(Tail(vp[v].inboundCh), pk)
      /\ Held(pk)'[Y] = At(Append(vp[v].inBatch, Head(vp[v].inboundCh)), pk)
  <2>1. /\ Held(pk)'[X] = At(vp'[v].inboundCh, pk) /\ Held(pk)'[Y] = At(vp'[v].inBatch, pk) BY HeldNext, Zenon
  <2>2. /\ vp'[v].inboundCh = Tail(vp[v].inboundCh)
        /\ vp'[v].inBatch = Append(vp[v].inBatch, Head(vp[v].inboundCh))
    BY <1>4, <1>5, Zenon
  <2> QED BY <2>1, <2>2, Zenon
<1> HIDE DEF X, Y
<1>10. /\ Held(pk)[X] = {} => Head(vp[v].inboundCh) # pk /\ Held(pk)'[X] = {}
       /\ One(Held(pk)[X]) => \/ Head(vp[v].inboundCh) = pk /\ Held(pk)'[X] = {}
                              \/ Head(vp[v].inboundCh) # pk /\ One(Held(pk)'[X])
  BY <1>2, <1>3, <1>8, <1>9, AtTail, SMTT(30)
<1>11. /\ Head(vp[v].inboundCh) # pk => Held(pk)'[Y] = Held(pk)[Y]
       /\ Head(vp[v].inboundCh) = pk /\ Held(pk)[Y] = {} => One(Held(pk)'[Y])
  BY <1>2, <1>8, <1>9, AtAppend, SMTT(30)
<1> QED BY <1>6, <1>7, <1>10, <1>11, OneSet, Passed, Zenon

(* backgroundOutboundHandler takes a packet from its channel.              *)
LEMMA OutReceiveOwned ==
    ASSUME IInv, NEW v \in VpnPeers, OutReceive(v), NEW pk \in Packets, Owned(pk) PROVE Owned(pk)'
<1> DEFINE X == <<"outboundCh", v>>
           Y == <<"outBatch", v>>
           n == [vp[v] EXCEPT !.outBatch = Append(vp[v].outBatch, Head(vp[v].outboundCh)),
                              !.outboundCh = Tail(vp[v].outboundCh)]
<1>1. vp \in [VpnPeers -> VpnPeer] /\ vp[v] \in VpnPeer BY Zenon DEF IInv, TypeOK
<1>2. vp[v].outboundCh \in Seq(Packets) /\ vp[v].outBatch \in Seq(Packets) BY <1>1, Zenon DEF VpnPeer
<1>3. /\ vp' = [vp EXCEPT ![v] = n] /\ vp[v].outboundCh # <<>>
      /\ pool' = pool /\ tun' = tun /\ str' = str
  BY Zenon DEF OutReceive
<1>4. /\ n.outBatch = Append(vp[v].outBatch, Head(vp[v].outboundCh))
      /\ n.outboundCh = Tail(vp[v].outboundCh)
      /\ n.inboundCh = vp[v].inboundCh /\ n.inBatch = vp[v].inBatch
  BY <1>1, Zenon DEF VpnPeer
<1> HIDE DEF n
<1>5. vp'[v] = n /\ \A w \in VpnPeers \ {v} : vp'[w] = vp[w] BY <1>1, <1>3, Zenon
<1>6. /\ X \in Holders /\ Y \in Holders /\ X # Y BY HoldersAre, Zenon
<1>7. Same(pk, {X, Y}) BY <1>3, <1>4, <1>5, Zenon DEF Same
<1>8. /\ Held(pk)[X] = At(vp[v].outboundCh, pk) /\ Held(pk)[Y] = At(vp[v].outBatch, pk) BY HeldIs, Zenon
<1>9. /\ Held(pk)'[X] = At(Tail(vp[v].outboundCh), pk)
      /\ Held(pk)'[Y] = At(Append(vp[v].outBatch, Head(vp[v].outboundCh)), pk)
  <2>1. /\ Held(pk)'[X] = At(vp'[v].outboundCh, pk) /\ Held(pk)'[Y] = At(vp'[v].outBatch, pk) BY HeldNext, Zenon
  <2>2. /\ vp'[v].outboundCh = Tail(vp[v].outboundCh)
        /\ vp'[v].outBatch = Append(vp[v].outBatch, Head(vp[v].outboundCh))
    BY <1>4, <1>5, Zenon
  <2> QED BY <2>1, <2>2, Zenon
<1> HIDE DEF X, Y
<1>10. /\ Held(pk)[X] = {} => Head(vp[v].outboundCh) # pk /\ Held(pk)'[X] = {}
       /\ One(Held(pk)[X]) => \/ Head(vp[v].outboundCh) = pk /\ Held(pk)'[X] = {}
                              \/ Head(vp[v].outboundCh) # pk /\ One(Held(pk)'[X])
  BY <1>2, <1>3, <1>8, <1>9, AtTail, SMTT(30)
<1>11. /\ Head(vp[v].outboundCh) # pk => Held(pk)'[Y] = Held(pk)[Y]
       /\ Head(vp[v].outboundCh) = pk /\ Held(pk)[Y] = {} => One(Held(pk)'[Y])
  BY <1>2, <1>8, <1>9, AtAppend, SMTT(30)
<1> QED BY <1>6, <1>7, <1>10, <1>11, OneSet, Passed, Zenon

(* When every packet of a batch parses, it is kept as it is.               *)
LEMMA AllKept ==
    ASSUME NEW batch \in Seq(Packets), NEW ok, ok = [i \in DOMAIN batch |-> TRUE], NEW pk \in Packets
    PROVE  At(Filtered(batch, ok), pk) = At(batch, pk) /\ At(Rejected(batch, ok), pk) = {}
<1> DEFINE newLen(i) == Cardinality({j \in 1..i : ok[j]})
<1>1. DOMAIN batch = 1..Len(batch) /\ Len(batch) \in Nat OBVIOUS
<1>2. ASSUME NEW i \in 0..Len(batch) PROVE newLen(i) = i
  <2>1. {j \in 1..i : ok[j]} = 1..i BY <1>1
  <2>2. Cardinality(1..i) = i BY <1>1, FS_Interval
  <2> QED BY <2>1, <2>2, Zenon
<1>3. Len(batch) \in 0..Len(batch) BY <1>1
<1>4. ASSUME NEW i \in DOMAIN batch PROVE Filtered(batch, ok)[i] = batch[i]
  <2>1. i \in 0..Len(batch) /\ i <= Len(batch) BY <1>1
  <2>2. \A j \in DOMAIN batch : newLen(j) = j BY <1>1, <1>2
  <2>3. newLen(Len(batch)) = Len(batch) BY <1>2, <1>3, Zenon
  <2> HIDE DEF newLen
  <2>4. (CHOOSE j \in DOMAIN batch : ok[j] /\ newLen(j) = i) = i BY <2>2, Zenon
  <2>5. Filtered(batch, ok)[i] = IF i <= newLen(Len(batch))
                                 THEN batch[CHOOSE j \in DOMAIN batch : ok[j] /\ newLen(j) = i]
                                 ELSE IF ok[i] THEN batch[i] ELSE NoPacket
    BY Zenon DEF Filtered, newLen
  <2> QED BY <2>1, <2>3, <2>4, <2>5, Zenon
<1>5. DOMAIN Filtered(batch, ok) = DOMAIN batch BY Zenon DEF Filtered
<1>6. At(Filtered(batch, ok), pk) = At(batch, pk) BY <1>4, <1>5, Zenon DEF At
<1>7. At(Rejected(batch, ok), pk) = {} BY NilsAreDistinct, Zenon DEF At, Rejected
<1> QED BY <1>6, <1>7, Zenon

(* backgroundInboundHandler writes its batch and gives every packet back.  *)
LEMMA InProcessOwned ==
    ASSUME IInv, ~Malformed, NEW v \in VpnPeers, InProcess(v), NEW pk \in Packets, Owned(pk)
    PROVE  Owned(pk)'
<1> DEFINE X == <<"inBatch", v>>
           n == [vp[v] EXCEPT !.inBatch = <<>>]
<1>1. vp \in [VpnPeers -> VpnPeer] /\ vp[v] \in VpnPeer /\ pool \in [Packets -> Nat] BY Zenon DEF IInv, TypeOK
<1>2. vp[v].inBatch \in Seq(Packets) BY <1>1, Zenon DEF VpnPeer
<1> DEFINE batch == vp[v].inBatch
           ok == [i \in DOMAIN batch |-> TRUE]
<1>3. /\ vp' = [vp EXCEPT ![v] = n] /\ tun' = tun /\ str' = str
      /\ pool' = PutBoth(Rejected(batch, ok), Filtered(batch, ok))
  BY Zenon DEF InProcess, ParseResults
<1>4. /\ n.inBatch = <<>> /\ n.inboundCh = vp[v].inboundCh
      /\ n.outboundCh = vp[v].outboundCh /\ n.outBatch = vp[v].outBatch
  BY <1>1, Zenon DEF VpnPeer
<1> HIDE DEF n
<1>5. vp'[v] = n /\ \A w \in VpnPeers \ {v} : vp'[w] = vp[w] BY <1>1, <1>3, Zenon
<1>6. X \in Holders /\ X # InPool BY HoldersAre, Zenon
<1>7. Same(pk, {InPool, X}) BY <1>3, <1>4, <1>5, Zenon DEF Same
<1>8. Held(pk)[X] = At(batch, pk) BY HeldIs, Zenon
<1>9. Held(pk)'[X] = {}
  <2>1. Held(pk)'[X] = At(vp'[v].inBatch, pk) BY HeldNext, Zenon
  <2>2. vp'[v].inBatch = <<>> BY <1>4, <1>5, Zenon
  <2> QED BY <2>1, <2>2, AtEmpty, Zenon
<1> HIDE DEF ok, X
<1>10. At(Filtered(batch, ok), pk) = At(batch, pk) /\ At(Rejected(batch, ok), pk) = {}
  BY <1>2, AllKept, Zenon DEF ok
<1>11. pool'[pk] = pool[pk] + Occurrences(Filtered(batch, ok), pk)
  <2>1. pool'[pk] = pool[pk] + Occurrences(Rejected(batch, ok), pk) + Occurrences(Filtered(batch, ok), pk)
    BY <1>3, Zenon DEF PutBoth
  <2>2. Occurrences(Rejected(batch, ok), pk) = 0 BY <1>10, Counts, Zenon
  <2>3. pool[pk] \in Nat BY <1>1, Zenon
  <2> QED BY <2>1, <2>2, <2>3, SMTT(30)
<1> QED BY <1>1, <1>6, <1>7, <1>8, <1>9, <1>10, <1>11, PutBack, Zenon

(* PutTempPacket of a sequence adds what is in it.                         *)
LEMMA PutAllAdds ==
    ASSUME pool \in [Packets -> Nat], NEW s, NEW m \in Nat, DOMAIN s = 1..m, pool' = PutAll(s),
           NEW pk \in Packets
    PROVE  pool'[pk] = pool[pk] + Occurrences(s, pk)
<1>1. pool'[pk] = pool[pk] + Occurrences(s, pk) + Occurrences(<<>>, pk) BY Zenon DEF PutAll, PutBoth
<1>2. Occurrences(<<>>, pk) = 0 BY AtEmpty, Counts, Zenon
<1>3. Occurrences(s, pk) \in Nat /\ pool[pk] \in Nat BY OccurrencesNat, Zenon
<1> QED BY <1>1, <1>2, <1>3, SMTT(30)

(* backgroundOutboundHandler sends its batch and gives every packet back.  *)
LEMMA OutProcessOwned ==
    ASSUME IInv, NEW v \in VpnPeers, OutProcess(v), NEW pk \in Packets, Owned(pk) PROVE Owned(pk)'
<1> DEFINE X == <<"outBatch", v>>
           n == [vp[v] EXCEPT !.outBatch = <<>>]
           batch == vp[v].outBatch
<1>1. vp \in [VpnPeers -> VpnPeer] /\ vp[v] \in VpnPeer /\ pool \in [Packets -> Nat] BY Zenon DEF IInv, TypeOK
<1>2. batch \in Seq(Packets) BY <1>1, Zenon DEF VpnPeer
<1>3. vp' = [vp EXCEPT ![v] = n] /\ tun' = tun /\ str' = str /\ pool' = PutAll(batch) BY Zenon DEF OutProcess
<1>4. /\ n.outBatch = <<>> /\ n.inboundCh = vp[v].inboundCh
      /\ n.outboundCh = vp[v].outboundCh /\ n.inBatch = vp[v].inBatch
  BY <1>1, Zenon DEF VpnPeer
<1> HIDE DEF n
<1>5. vp'[v] = n /\ \A w \in VpnPeers \ {v} : vp'[w] = vp[w] BY <1>1, <1>3, Zenon
<1>6. X \in Holders /\ X # InPool BY HoldersAre, ZenonT(60)
<1>7. Same(pk, {InPool, X}) BY <1>3, <1>4, <1>5, Zenon DEF Same
<1>8. Held(pk)[X] = At(batch, pk) BY HeldIs, Zenon
<1>9. Held(pk)'[X] = {}
  <2>1. Held(pk)'[X] = At(vp'[v].outBatch, pk) BY HeldNext, Zenon
  <2>2. vp'[v].outBatch = <<>> BY <1>4, <1>5, Zenon
  <2> QED BY <2>1, <2>2, AtEmpty, Zenon
<1> HIDE DEF batch, X
<1>10. pool'[pk] = pool[pk] + Occurrences(batch, pk)
  <2>1. DOMAIN batch = 1..Len(batch) /\ Len(batch) \in Nat BY <1>2
  <2> QED BY <1>1, <1>3, <2>1, PutAllAdds, Zenon
<1> QED BY <1>1, <1>6, <1>7, <1>8, <1>9, <1>10, PutBack, Zenon

(* A step that moves no packet.                                            *)
LEMMA Untouched ==
    ASSUME NEW pk, Owned(pk), Same(pk, {}) PROVE Owned(pk)'
<1>1. \A h \in Holders : Held(pk)'[h] = Held(pk)[h] BY SameHeld
<1>2. Once(Held(pk)', Holders) BY <1>1, Zenon DEF Owned, Once
<1> QED BY <1>2, Zenon DEF Owned

(* Every step of both goroutines keeps every packet with one owner.        *)
LEMMA HandlersOwned ==
    ASSUME IInv, ~Malformed, NEW v \in VpnPeers, NEW pk \in Packets, Owned(pk),
           backgroundInboundHandler(v) \/ backgroundOutboundHandler(v)
    PROVE  Owned(pk)'
<1>1. ASSUME InExit(v) \/ OutExit(v) PROVE Owned(pk)'
  <2>1. vp \in [VpnPeers -> VpnPeer] /\ vp[v] \in VpnPeer BY Zenon DEF IInv, TypeOK
  <2>2. pool' = pool /\ tun' = tun /\ str' = str BY <1>1, Zenon DEF InExit, OutExit
  <2>3. \E n : /\ vp' = [vp EXCEPT ![v] = n]
               /\ n.inboundCh = vp[v].inboundCh /\ n.inBatch = vp[v].inBatch
               /\ n.outboundCh = vp[v].outboundCh /\ n.outBatch = vp[v].outBatch
    <3>1. CASE InExit(v)
      <4> WITNESS [vp[v] EXCEPT !.inRun = FALSE]
      <4> QED BY <2>1, <3>1, Zenon DEF InExit, VpnPeer
    <3>2. CASE OutExit(v)
      <4> WITNESS [vp[v] EXCEPT !.outRun = FALSE]
      <4> QED BY <2>1, <3>2, Zenon DEF OutExit, VpnPeer
    <3> QED BY <1>1, <3>1, <3>2, Zenon
  <2>4. Same(pk, {}) BY <2>1, <2>2, <2>3, Zenon DEF Same
  <2> QED BY <2>4, Untouched, Zenon
<1> QED BY <1>1, InReceiveOwned, OutReceiveOwned, InProcessOwned, OutProcessOwned, Zenon
        DEF backgroundInboundHandler, backgroundOutboundHandler

-----------------------------------------------------------------------------
(* The stream handlers.  One that is about to take a packet has none.      *)
EmptyHands == \A p \in PeerID : str[p].pc \in {"idle", "get"} => str[p].packet = NoPacket

(* StreamHandler takes a packet to read into.                              *)
LEMMA StreamGetOwned ==
    ASSUME IInv, EmptyHands, NEW p \in PeerID, StreamGet(p), NEW pk \in Packets, Owned(pk)
    PROVE  Owned(pk)'
<1> DEFINE X == <<"stream", p>>
<1>1. str \in [PeerID -> StreamReader] /\ str[p] \in StreamReader /\ pool \in [Packets -> Nat]
  BY Zenon DEF IInv, TypeOK
<1>2. PICK got \in Packets : Get(got) /\ str' = [str EXCEPT ![p] = [str[p] EXCEPT !.pc = "read", !.packet = got]]
  BY Zenon DEF StreamGet
<1>3. tun' = tun /\ vp' = vp BY Zenon DEF StreamGet, tableVars
<1>4. str'[p].packet = got /\ \A q \in PeerID \ {p} : str'[q] = str[q] BY <1>1, <1>2, Zenon DEF StreamReader
<1>5. X \in Holders /\ X # InPool BY HoldersAre, Zenon
<1>6. Same(pk, {InPool, X}) BY <1>3, <1>4, Zenon DEF Same
<1>7. Held(pk)[X] = {}
  <2>1. Held(pk)[X] = IF str[p].packet = pk THEN {1} ELSE {} BY HeldIs, Zenon
  <2>2. str[p].packet = NoPacket BY Zenon DEF EmptyHands, StreamGet
  <2> QED BY <2>1, <2>2, NilsAreDistinct, Zenon
<1>8. Held(pk)'[X] = IF got = pk THEN {1} ELSE {} BY HeldNext, <1>4, Zenon
<1> HIDE DEF X
<1>9. pk # got => Held(pk)'[X] = Held(pk)[X] BY <1>7, <1>8, Zenon
<1>10. pk = got => One(Held(pk)'[X]) BY <1>8, Zenon DEF One
<1> QED BY <1>1, <1>2, <1>5, <1>6, <1>9, <1>10, Taken, Zenon

(* The packet of stream p goes back to the pool.                           *)
LEMMA StreamPutOwned ==
    ASSUME IInv, NEW p \in PeerID, str[p].packet \in Packets, pool' = PutAll(<<str[p].packet>>),
           str'[p].packet = NoPacket, \A q \in PeerID \ {p} : str'[q].packet = str[q].packet,
           tun' = tun, vp' = vp, NEW pk \in Packets, Owned(pk)
    PROVE  Owned(pk)'
<1> DEFINE X == <<"stream", p>>
           s == <<str[p].packet>>
<1>1. pool \in [Packets -> Nat] BY Zenon DEF IInv, TypeOK
<1>2. DOMAIN s = 1..1 /\ s[1] = str[p].packet OBVIOUS
<1>5. X \in Holders /\ X # InPool BY HoldersAre, Zenon
<1>6. Same(pk, {InPool, X}) BY Zenon DEF Same
<1>7. Held(pk)[X] = IF str[p].packet = pk THEN {1} ELSE {} BY HeldIs, Zenon
<1>8. Held(pk)'[X] = {}
  <2>1. Held(pk)'[X] = IF str'[p].packet = pk THEN {1} ELSE {} BY HeldNext
  <2> QED BY <2>1, NilsAreDistinct, Zenon
<1>p. pool' = PutAll(s) BY Zenon
<1> HIDE DEF X, s
<1>9. pool'[pk] = pool[pk] + Occurrences(s, pk) BY <1>1, <1>2, <1>p, PutAllAdds, ZenonT(60)
<1>10. At(s, pk) = IF str[p].packet = pk THEN {1} ELSE {} BY <1>2 DEF At
<1>11. One({1}) /\ ~One({}) BY OneSet, Zenon DEF One
<1> QED BY <1>1, <1>5, <1>6, <1>7, <1>8, <1>9, <1>10, <1>11, PutBack, SMTT(30)

(* StreamHandler hands its packet to the VpnPeer, or puts it back.         *)
LEMMA StreamSendOwned ==
    ASSUME IInv, NEW p \in PeerID, StreamSend(p), NEW pk \in Packets, Owned(pk) PROVE Owned(pk)'
<1> DEFINE v == str[p].to
           X == <<"stream", p>>
           Y == <<"inboundCh", v>>
           n == [vp[v] EXCEPT !.inboundCh = Append(vp[v].inboundCh, str[p].packet)]
<1>1. str \in [PeerID -> StreamReader] /\ str[p] \in StreamReader /\ vp \in [VpnPeers -> VpnPeer]
  BY Zenon DEF IInv, TypeOK
<1>2. str[p].packet \in Packets
  <2>1. str[p].packet # NoPacket BY Zenon DEF IInv, HandsOK, StreamSend
  <2> QED BY <1>1, <2>1, Zenon DEF StreamReader
<1>3. str'[p].packet = NoPacket /\ (\A q \in PeerID \ {p} : str'[q].packet = str[q].packet) /\ tun' = tun
  BY <1>1, Zenon DEF StreamSend
<1>4. CASE v # NoPeer /\ Len(vp[v].inboundCh) < ChanCap
  <2>1. v \in VpnPeers /\ vp[v] \in VpnPeer BY <1>1, <1>4, Zenon DEF StreamReader
  <2>2. vp[v].inboundCh \in Seq(Packets) BY <2>1, Zenon DEF VpnPeer
  <2>3. vp' = [vp EXCEPT ![v] = n] /\ pool' = pool BY <1>4, Zenon DEF StreamSend
  <2>4. /\ n.inboundCh = Append(vp[v].inboundCh, str[p].packet) /\ n.inBatch = vp[v].inBatch
        /\ n.outboundCh = vp[v].outboundCh /\ n.outBatch = vp[v].outBatch
    BY <2>1, Zenon DEF VpnPeer
  <2> HIDE DEF n, v
  <2>5. vp'[v] = n /\ \A w \in VpnPeers \ {v} : vp'[w] = vp[w] BY <1>1, <2>1, <2>3, Zenon
  <2>6. X \in Holders /\ Y \in Holders /\ X # Y BY <2>1, HoldersAre, Zenon
  <2>7. Same(pk, {X, Y}) BY <1>3, <2>3, <2>4, <2>5, Zenon DEF Same
  <2>8. /\ Held(pk)[X] = (IF str[p].packet = pk THEN {1} ELSE {}) /\ Held(pk)[Y] = At(vp[v].inboundCh, pk)
    BY <2>1, HeldIs, Zenon
  <2>9. Held(pk)'[X] = {}
    <3>1. Held(pk)'[X] = IF str'[p].packet = pk THEN {1} ELSE {} BY HeldNext, Zenon
    <3> QED BY <1>3, <3>1, NilsAreDistinct, Zenon
  <2>10. Held(pk)'[Y] = At(Append(vp[v].inboundCh, str[p].packet), pk)
    <3>1. Held(pk)'[Y] = At(vp'[v].inboundCh, pk) BY <2>1, HeldNext, Zenon
    <3>2. vp'[v].inboundCh = Append(vp[v].inboundCh, str[p].packet) BY <2>4, <2>5, Zenon
    <3> QED BY <3>1, <3>2, Zenon
  <2> HIDE DEF X, Y
  <2>11. One({1}) /\ ~One({}) BY OneSet, Zenon DEF One
  <2>12. /\ str[p].packet # pk => Held(pk)'[Y] = Held(pk)[Y]
         /\ str[p].packet = pk /\ Held(pk)[Y] = {} => One(Held(pk)'[Y])
    BY <2>2, <2>8, <2>10, AtAppend, SMTT(30)
  <2>13. /\ Held(pk)[X] = {} => str[p].packet # pk
         /\ One(Held(pk)[X]) => str[p].packet = pk
    BY <2>8, <2>11, Zenon
  <2> QED BY <2>6, <2>7, <2>9, <2>11, <2>12, <2>13, Passed, Zenon
<1>5. CASE ~(v # NoPeer /\ Len(vp[v].inboundCh) < ChanCap)
  <2>1. pool' = PutAll(<<str[p].packet>>) /\ vp' = vp BY <1>5, Zenon DEF StreamSend
  <2> QED BY <1>2, <1>3, <2>1, StreamPutOwned, Zenon
<1> QED BY <1>4, <1>5, Zenon

(* Every step of StreamHandler.                                            *)
LEMMA StreamOwned ==
    ASSUME IInv, EmptyHands, NEW p \in PeerID, StreamHandler(p), NEW pk \in Packets, Owned(pk)
    PROVE  Owned(pk)'
<1>1. str \in [PeerID -> StreamReader] /\ str[p] \in StreamReader BY Zenon DEF IInv, TypeOK
<1>2. CASE StreamEOF(p)
  <2>1. str[p].packet \in Packets
    <3>1. str[p].packet # NoPacket BY <1>2, Zenon DEF IInv, HandsOK, StreamEOF
    <3> QED BY <1>1, <3>1, Zenon DEF StreamReader
  <2>2. /\ str'[p].packet = NoPacket /\ \A q \in PeerID \ {p} : str'[q].packet = str[q].packet
        /\ tun' = tun /\ vp' = vp /\ pool' = PutAll(<<str[p].packet>>)
    BY <1>1, <1>2, Zenon DEF StreamEOF, StreamReader, tableVars
  <2> QED BY <2>1, <2>2, StreamPutOwned, Zenon
<1>3. CASE StreamOpen(p) \/ StreamReceive(p)
  <2>1. tun' = tun /\ vp' = vp /\ pool' = pool BY <1>3, Zenon DEF StreamOpen, StreamReceive, tableVars
  <2>2. \E n : str' = [str EXCEPT ![p] = n] /\ n.packet = str[p].packet
    <3>1. CASE StreamOpen(p)
      <4> WITNESS [str[p] EXCEPT !.pc = "get"]
      <4> QED BY <1>1, <3>1, Zenon DEF StreamOpen, StreamReader
    <3>2. CASE StreamReceive(p)
      <4> WITNESS [str[p] EXCEPT !.pc = "send", !.to = peerIDToPeer[p]]
      <4> QED BY <1>1, <3>2, Zenon DEF StreamReceive, StreamReader
    <3> QED BY <1>3, <3>1, <3>2, Zenon
  <2>3. Same(pk, {}) BY <1>1, <2>1, <2>2, Zenon DEF Same
  <2> QED BY <2>3, Untouched, Zenon
<1> QED BY <1>2, <1>3, StreamGetOwned, StreamSendOwned, Zenon DEF StreamHandler

-----------------------------------------------------------------------------
(* The TUN reader.                                                         *)
LEMMA TunFillOwned ==
    ASSUME IInv, NEW i \in Slots, TunFill(i), NEW pk \in Packets, Owned(pk) PROVE Owned(pk)'
<1>1. tun \in TunReader /\ tun.packets \in [Slots -> Packets \cup {NoPacket}] /\ pool \in [Packets -> Nat]
  BY Zenon DEF IInv, TypeOK, TunReader
<1>2. PICK got \in Packets : Get(got) /\ tun' = [tun EXCEPT !.packets[i] = got] BY Zenon DEF TunFill
<1>3. str' = str /\ vp' = vp /\ tun.packets[i] = NoPacket BY Zenon DEF TunFill, tableVars
<1>4. tun'.packets = [tun.packets EXCEPT ![i] = got] BY <1>1, <1>2, Zenon DEF TunReader
<1>5. InTun \in Holders /\ InTun # InPool BY HoldersAre, Zenon
<1>6. Same(pk, {InPool, InTun}) BY <1>3, Zenon DEF Same
<1>7. Held(pk)[InTun] = At(tun.packets, pk) /\ Held(pk)'[InTun] = At([tun.packets EXCEPT ![i] = got], pk)
  BY <1>4, HeldIs, HeldNext, Zenon
<1>8. pk # got => Held(pk)'[InTun] = Held(pk)[InTun] BY <1>1, <1>3, <1>7, NilsAreDistinct, Zenon DEF At
<1>9. pk = got /\ Held(pk)[InTun] = {} => Held(pk)'[InTun] = {i} BY <1>1, <1>7, Zenon DEF At
<1>10. pk = got /\ Held(pk)[InTun] = {} => One(Held(pk)'[InTun]) BY <1>9, Zenon DEF One
<1> QED BY <1>1, <1>2, <1>5, <1>6, <1>8, <1>10, Taken, Zenon

(* Packets read from the device that do not parse are put back.            *)
LEMMA TunReadOwned ==
    ASSUME IInv, NEW bad \in SUBSET Slots, NEW dst, TunRead(bad, dst), NEW pk \in Packets, Owned(pk)
    PROVE  Owned(pk)'
<1> DEFINE s == [i \in Slots |-> IF i \in bad THEN tun.packets[i] ELSE NoPacket]
           kept == [i \in Slots |-> IF i \in bad THEN NoPacket ELSE tun.packets[i]]
<1>1. tun \in TunReader /\ tun.packets \in [Slots -> Packets \cup {NoPacket}] /\ pool \in [Packets -> Nat]
  BY Zenon DEF IInv, TypeOK, TunReader
<1>2. /\ pool' = PutAll(s) /\ str' = str /\ vp' = vp
      /\ tun' = [tun EXCEPT !.pc = "lock", !.dst = dst, !.i = 1, !.packets = kept]
  BY Zenon DEF TunRead, tableVars
<1>3. DOMAIN s = 1..TunBatch /\ TunBatch \in Nat BY BoundsAreNat, Zenon DEF Slots
<1>4. /\ \A i : i \in At(s, pk) <=> i \in At(tun.packets, pk) /\ i \in bad
      /\ \A i : i \in At(kept, pk) <=> i \in At(tun.packets, pk) /\ i \notin bad
  BY <1>1, NilsAreDistinct, Zenon DEF At
<1> HIDE DEF s, kept
<1>5. tun'.packets = kept BY <1>1, <1>2, Zenon DEF TunReader
<1>6. InTun \in Holders /\ InTun # InPool BY HoldersAre, Zenon
<1>7. Same(pk, {InPool, InTun}) BY <1>2, Zenon DEF Same
<1>8. Held(pk)[InTun] = At(tun.packets, pk) /\ Held(pk)'[InTun] = At(kept, pk) BY <1>5, HeldIs, HeldNext, Zenon
<1>9. pool'[pk] = pool[pk] + Occurrences(s, pk) BY <1>1, <1>2, <1>3, PutAllAdds, Zenon
<1>10. Held(pk)[InTun] = {} => At(s, pk) = {} /\ Held(pk)'[InTun] = {} BY <1>4, <1>8, Zenon
<1>11. ASSUME One(Held(pk)[InTun])
       PROVE  \/ One(At(s, pk)) /\ Held(pk)'[InTun] = {}
              \/ At(s, pk) = {} /\ One(Held(pk)'[InTun])
  <2>1. PICK i : At(tun.packets, pk) = {i} BY <1>8, <1>11, Zenon DEF One
  <2>2. CASE i \in bad
    <3>1. At(s, pk) = {i} /\ At(kept, pk) = {} BY <1>4, <2>1, <2>2, Zenon
    <3> QED BY <1>8, <3>1, Zenon DEF One
  <2>3. CASE i \notin bad
    <3>1. At(s, pk) = {} /\ At(kept, pk) = {i} BY <1>4, <2>1, <2>3, Zenon
    <3> QED BY <1>8, <3>1, Zenon DEF One
  <2> QED BY <2>2, <2>3, Zenon
<1> QED BY <1>1, <1>6, <1>7, <1>9, <1>10, <1>11, PutBack, Zenon

(* A copy of a broadcast packet goes to one peer.                          *)
LEMMA TunBroadcastOwned ==
    ASSUME IInv, NEW v \in VpnPeers, TunBroadcast(v), NEW pk \in Packets, Owned(pk) PROVE Owned(pk)'
<1> DEFINE X == <<"outboundCh", v>>
<1>1. tun \in TunReader /\ vp \in [VpnPeers -> VpnPeer] /\ vp[v] \in VpnPeer /\ pool \in [Packets -> Nat]
  BY Zenon DEF IInv, TypeOK
<1>2. tun'.packets = tun.packets /\ str' = str BY <1>1, Zenon DEF TunBroadcast, TunReader
<1>3. CASE UNCHANGED <<pool, vp>>
  <2>1. Same(pk, {}) BY <1>2, <1>3, Zenon DEF Same
  <2> QED BY <2>1, Untouched, Zenon
<1>4. ASSUME NEW got \in Packets, Get(got), vp' = [vp EXCEPT ![v].outboundCh = Append(@, got)]
      PROVE  Owned(pk)'
  <2> DEFINE n == [vp[v] EXCEPT !.outboundCh = Append(vp[v].outboundCh, got)]
  <2>1. vp[v].outboundCh \in Seq(Packets) BY <1>1, Zenon DEF VpnPeer
  <2>2. vp' = [vp EXCEPT ![v] = n] BY <1>4, Zenon
  <2>3. /\ n.outboundCh = Append(vp[v].outboundCh, got) /\ n.inBatch = vp[v].inBatch
        /\ n.inboundCh = vp[v].inboundCh /\ n.outBatch = vp[v].outBatch
    BY <1>1, Zenon DEF VpnPeer
  <2> HIDE DEF n
  <2>4. vp'[v] = n /\ \A w \in VpnPeers \ {v} : vp'[w] = vp[w] BY <1>1, <2>2, Zenon
  <2>5. X \in Holders /\ X # InPool BY HoldersAre, Zenon
  <2>6. Same(pk, {InPool, X}) BY <1>2, <2>3, <2>4, Zenon DEF Same
  <2>7. Held(pk)[X] = At(vp[v].outboundCh, pk) BY HeldIs, Zenon
  <2>8. Held(pk)'[X] = At(Append(vp[v].outboundCh, got), pk)
    <3>1. Held(pk)'[X] = At(vp'[v].outboundCh, pk) BY HeldNext, Zenon
    <3>2. vp'[v].outboundCh = Append(vp[v].outboundCh, got) BY <2>3, <2>4, Zenon
    <3> QED BY <3>1, <3>2, Zenon
  <2> HIDE DEF X
  <2>9. /\ pk # got => Held(pk)'[X] = Held(pk)[X]
        /\ pk = got /\ Held(pk)[X] = {} => One(Held(pk)'[X])
    BY <2>1, <2>7, <2>8, AtAppend, SMTT(30)
  <2> QED BY <1>1, <1>4, <2>5, <2>6, <2>9, Taken, Zenon
<1> QED BY <1>3, <1>4, Zenon DEF TunBroadcast

(* The packet of a slot goes to one peer, or stays when its channel is full.*)
LEMMA TunSendOwned ==
    ASSUME IInv, NEW v \in VpnPeers, TunSend(v), NEW pk \in Packets, Owned(pk) PROVE Owned(pk)'
<1> DEFINE X == <<"outboundCh", v>>
           i == tun.i
           x == tun.packets[i]
<1>1. tun \in TunReader /\ vp \in [VpnPeers -> VpnPeer] /\ vp[v] \in VpnPeer BY Zenon DEF IInv, TypeOK
<1>2. tun.packets \in [Slots -> Packets \cup {NoPacket}] /\ i \in Slots
  <2>1. i \in 1..(TunBatch + 1) /\ i <= TunBatch BY <1>1, Zenon DEF IInv, HandsOK, TunSend, TunReader
  <2> QED BY <1>1, <2>1, BoundsAreNat, SMTT(30) DEF Slots, TunReader
<1>3. str' = str /\ pool' = pool BY Zenon DEF TunSend
<1>4. CASE Len(vp[v].outboundCh) < ChanCap
  <2> DEFINE n == [vp[v] EXCEPT !.outboundCh = Append(vp[v].outboundCh, x)]
  <2>1. vp[v].outboundCh \in Seq(Packets) BY <1>1, Zenon DEF VpnPeer
  <2>2. vp' = [vp EXCEPT ![v] = n] BY <1>4, Zenon DEF TunSend
  <2>3. tun'.packets = [tun.packets EXCEPT ![i] = NoPacket] BY <1>1, <1>4, Zenon DEF TunSend, TunReader, HandedOver
  <2>4. /\ n.outboundCh = Append(vp[v].outboundCh, x) /\ n.inBatch = vp[v].inBatch
        /\ n.inboundCh = vp[v].inboundCh /\ n.outBatch = vp[v].outBatch
    BY <1>1, Zenon DEF VpnPeer
  <2> HIDE DEF n
  <2>5. vp'[v] = n /\ \A w \in VpnPeers \ {v} : vp'[w] = vp[w] BY <1>1, <2>2, Zenon
  <2>6. X \in Holders /\ InTun \in Holders /\ X # InTun BY HoldersAre, Zenon
  <2>7. Same(pk, {InTun, X}) BY <1>3, <2>4, <2>5, Zenon DEF Same
  <2>8. Held(pk)[X] = At(vp[v].outboundCh, pk) /\ Held(pk)[InTun] = At(tun.packets, pk) BY HeldIs, Zenon
  <2>9. Held(pk)'[X] = At(Append(vp[v].outboundCh, x), pk)
    <3>1. Held(pk)'[X] = At(vp'[v].outboundCh, pk) BY HeldNext, Zenon
    <3>2. vp'[v].outboundCh = Append(vp[v].outboundCh, x) BY <2>4, <2>5, Zenon
    <3> QED BY <3>1, <3>2, Zenon
  <2>10. Held(pk)'[InTun] = At([tun.packets EXCEPT ![i] = NoPacket], pk) BY <2>3, HeldNext, Zenon
  <2>11. \A j : j \in Held(pk)'[InTun] <=> j \in Held(pk)[InTun] /\ j # i
    BY <1>2, <2>8, <2>10, NilsAreDistinct, Zenon DEF At
  <2>12. x = pk <=> i \in Held(pk)[InTun] BY <1>2, <2>8, Zenon DEF At
  <2> HIDE DEF X, x, i
  <2>13. Held(pk)[InTun] = {} => x # pk /\ Held(pk)'[InTun] = {} BY <2>11, <2>12, Zenon
  <2>14. ASSUME One(Held(pk)[InTun])
         PROVE  \/ x = pk /\ Held(pk)'[InTun] = {}
                \/ x # pk /\ One(Held(pk)'[InTun])
    <3>1. PICK j : Held(pk)[InTun] = {j} BY <2>14, Zenon DEF One
    <3>2. CASE j = i BY <2>11, <2>12, <3>1, <3>2, Zenon
    <3>3. CASE j # i
      <4>1. Held(pk)'[InTun] = {j} BY <2>11, <3>1, <3>3, Zenon
      <4> QED BY <2>12, <3>1, <3>3, <4>1, Zenon DEF One
    <3> QED BY <3>2, <3>3, Zenon
  <2>15. /\ x # pk => Held(pk)'[X] = Held(pk)[X]
         /\ x = pk /\ Held(pk)[X] = {} => One(Held(pk)'[X])
    BY <2>1, <2>8, <2>9, AtAppend, SMTT(30)
  <2> QED BY <2>6, <2>7, <2>13, <2>14, <2>15, OneSet, Passed, Zenon
<1>5. CASE ~(Len(vp[v].outboundCh) < ChanCap)
  <2>1. tun'.packets = tun.packets /\ vp' = vp BY <1>1, <1>5, Zenon DEF TunSend, TunReader
  <2>2. Same(pk, {}) BY <1>3, <2>1, Zenon DEF Same
  <2> QED BY <2>2, Untouched, Zenon
<1> QED BY <1>4, <1>5, Zenon

(* Every step of ReadTUNPackets and HandleReadPackets.                     *)
LEMMA TunOwned ==
    ASSUME IInv, ReadTUNPackets \/ HandleReadPackets, NEW pk \in Packets, Owned(pk) PROVE Owned(pk)'
<1>1. tun \in TunReader BY Zenon DEF IInv, TypeOK
<1>2. CASE TunStop \/ TunRLock \/ TunScan \/ TunBroadcastDone \/ TunRUnlock
  <2>1. vp' = vp /\ pool' = pool /\ str' = str
    BY <1>2, Zenon DEF TunStop, TunRLock, TunScan, TunBroadcastDone, TunRUnlock, tableVars
  <2>2. tun'.packets = tun.packets
    <3>1. CASE TunStop BY <1>1, <3>1, Zenon DEF TunStop, TunReader
    <3>2. CASE TunRLock BY <1>1, <3>2, Zenon DEF TunRLock, TunLoop, TunReader
    <3>3. CASE TunScan BY <1>1, <3>3, Zenon DEF TunScan, TunReader
    <3>4. CASE TunBroadcastDone BY <1>1, <3>4, Zenon DEF TunBroadcastDone, TunReader
    <3>5. CASE TunRUnlock BY <1>1, <3>5, Zenon DEF TunRUnlock, TunLoop, TunReader
    <3> QED BY <1>2, <3>1, <3>2, <3>3, <3>4, <3>5, Zenon
  <2>3. Same(pk, {}) BY <2>1, <2>2, Zenon DEF Same
  <2> QED BY <2>3, Untouched, Zenon
<1> QED BY <1>2, TunFillOwned, TunReadOwned, TunSendOwned, TunBroadcastOwned, Zenon
        DEF ReadTUNPackets, HandleReadPackets

-----------------------------------------------------------------------------
(* VpnPeer.Close: what is left in both channels goes back to the pool.     *)
LEMMA CloseOwned ==
    ASSUME IInv, NEW p \in PeerID, peerIDToPeer[p] # NoPeer, CloseVpnPeer(p), tun' = tun, str' = str,
           NEW pk \in Packets, Owned(pk)
    PROVE  Owned(pk)'
<1> DEFINE v == peerIDToPeer[p]
           X == <<"inboundCh", v>>
           Y == <<"outboundCh", v>>
           H == {InPool, X, Y}
           n == [vp[v] EXCEPT !.status = "closed", !.inboundCh = <<>>, !.outboundCh = <<>>]
           F == Held(pk)
           G == Held(pk)'
<1>1. vp \in [VpnPeers -> VpnPeer] /\ v \in VpnPeers /\ vp[v] \in VpnPeer /\ pool \in [Packets -> Nat]
  BY Zenon DEF IInv, TypeOK
<1>2. vp' = [vp EXCEPT ![v] = n] /\ pool' = PutBoth(vp[v].inboundCh, vp[v].outboundCh) BY Zenon DEF CloseVpnPeer
<1>3. /\ n.outboundCh = <<>> /\ n.inboundCh = <<>>
      /\ n.inBatch = vp[v].inBatch /\ n.outBatch = vp[v].outBatch
  BY <1>1, Zenon DEF VpnPeer
<1> HIDE DEF n, v
<1>4. vp'[v] = n /\ \A w \in VpnPeers \ {v} : vp'[w] = vp[w] BY <1>1, <1>2, Zenon
<1>5. /\ InPool \in Holders /\ X \in Holders /\ Y \in Holders
      /\ X # Y /\ X # InPool /\ Y # InPool
  BY <1>1, HoldersAre, Zenon
<1>6. Same(pk, H) BY <1>3, <1>4, Zenon DEF Same
<1>7. F[X] = At(vp[v].inboundCh, pk) /\ F[Y] = At(vp[v].outboundCh, pk) /\ F[InPool] = 1..pool[pk]
  BY <1>1, HeldIs, Zenon
<1>8. G[X] = {} /\ G[Y] = {} /\ G[InPool] = 1..pool'[pk]
  <2>1. G[X] = At(vp'[v].inboundCh, pk) /\ G[Y] = At(vp'[v].outboundCh, pk) /\ G[InPool] = 1..pool'[pk]
    BY <1>1, HeldNext, Zenon
  <2>2. vp'[v].inboundCh = <<>> /\ vp'[v].outboundCh = <<>> BY <1>3, <1>4, Zenon
  <2> QED BY <2>1, <2>2, AtEmpty, Zenon
<1>9. \A h \in Holders \ H : G[h] = F[h] BY <1>6, SameHeld, Zenon
<1>10. pool[pk] \in Nat BY <1>1, Zenon
<1>11. pool'[pk] = pool[pk] + Occurrences(vp[v].inboundCh, pk) + Occurrences(vp[v].outboundCh, pk)
  BY <1>2, Zenon DEF PutBoth
<1>12. Once(F, Holders) BY Zenon DEF Owned
<1>c. /\ F[X] = {} => Occurrences(vp[v].inboundCh, pk) = 0
      /\ One(F[X]) => Occurrences(vp[v].inboundCh, pk) = 1
      /\ F[Y] = {} => Occurrences(vp[v].outboundCh, pk) = 0
      /\ One(F[Y]) => Occurrences(vp[v].outboundCh, pk) = 1
  BY <1>7, Counts, Zenon
<1> HIDE DEF F, G, X, Y
<1>13. Never(F, H) => Never(G, H)
  <2> SUFFICES ASSUME Never(F, H) PROVE Never(G, H) BY Zenon
  <2>1. F[X] = {} /\ F[Y] = {} /\ F[InPool] = {} BY Zenon DEF Never
  <2>2. pool[pk] = 0 BY <1>7, <1>10, <2>1, OneSet, ZenonT(60)
  <2>3. Occurrences(vp[v].inboundCh, pk) = 0 /\ Occurrences(vp[v].outboundCh, pk) = 0 BY <1>c, <2>1, Zenon
  <2>4. pool'[pk] = 0 BY <1>11, <2>2, <2>3, SMTT(30)
  <2> QED BY <1>8, <2>4, OneSet, SMTT(30) DEF Never
<1>14. Once(F, H) => Once(G, H)
  <2> SUFFICES ASSUME Once(F, H) PROVE Once(G, H) BY Zenon
  <2>1. \/ One(F[X]) /\ F[Y] = {} /\ F[InPool] = {}
        \/ F[X] = {} /\ One(F[Y]) /\ F[InPool] = {}
        \/ F[X] = {} /\ F[Y] = {} /\ One(F[InPool])
    BY <1>5, Zenon DEF Once
  <2>2. pool'[pk] = 1
    <3>1. CASE One(F[X]) /\ F[Y] = {} /\ F[InPool] = {}
      <4>1. pool[pk] = 0 BY <1>7, <1>10, <3>1, OneSet, Zenon
      <4>2. /\ Occurrences(vp[v].inboundCh, pk) = 1
            /\ Occurrences(vp[v].outboundCh, pk) = 0
        BY <1>c, <3>1, Zenon
      <4> QED BY <1>11, <4>1, <4>2, SMTT(30)
    <3>2. CASE F[X] = {} /\ One(F[Y]) /\ F[InPool] = {}
      <4>1. pool[pk] = 0 BY <1>7, <1>10, <3>2, OneSet, Zenon
      <4>2. /\ Occurrences(vp[v].inboundCh, pk) = 0
            /\ Occurrences(vp[v].outboundCh, pk) = 1
        BY <1>c, <3>2, Zenon
      <4> QED BY <1>11, <4>1, <4>2, SMTT(30)
    <3>3. CASE F[X] = {} /\ F[Y] = {} /\ One(F[InPool])
      <4>1. pool[pk] = 1 BY <1>7, <1>10, <3>3, OneSet, Zenon
      <4>2. /\ Occurrences(vp[v].inboundCh, pk) = 0
            /\ Occurrences(vp[v].outboundCh, pk) = 0
        BY <1>c, <3>3, Zenon
      <4> QED BY <1>11, <4>1, <4>2, SMTT(30)
    <3> QED BY <2>1, <3>1, <3>2, <3>3, Zenon
  <2>3. One(G[InPool]) BY <1>8, <2>2, OneSet, Zenon
  <2> QED BY <1>8, <2>3, Zenon DEF Once
<1>15. H \in SUBSET Holders BY <1>5, Zenon
<1> HIDE DEF H
<1>16. Once(G, Holders) BY <1>9, <1>12, <1>13, <1>14, <1>15, OnceLocal, Zenon
<1> QED BY <1>16, Zenon DEF Owned, G

(* Every other step of a refresh or of Application.Close moves none.       *)
LEMMA WritersOwned ==
    ASSUME IInv, RefreshPeersList \/ Close, NEW pk \in Packets, Owned(pk) PROVE Owned(pk)'
<1>1. vp \in [VpnPeers -> VpnPeer] /\ peerIDToPeer \in [PeerID -> VpnPeers \cup {NoPeer}] BY Zenon DEF IInv, TypeOK
<1>2. CASE RefreshCalled \/ RefreshLock \/ RefreshVisited \/ RefreshUnlock
           \/ CloseCalled \/ CloseLock \/ CloseUnlock
  <2>1. vp' = vp /\ pool' = pool /\ tun' = tun /\ str' = str
    BY <1>2, Zenon DEF RefreshCalled, RefreshLock, RefreshVisited, RefreshUnlock, CloseCalled, CloseLock,
                CloseUnlock, CloseStep, tableVars
  <2>2. Same(pk, {}) BY <2>1, Zenon DEF Same
  <2> QED BY <2>2, Untouched, Zenon
<1>3. ASSUME NEW p \in PeerID, RefreshSkip(p) PROVE Owned(pk)'
  <2>1. vp' = vp /\ pool' = pool /\ tun' = tun /\ str' = str BY <1>3, Zenon DEF RefreshSkip, Visit, tableVars
  <2>2. Same(pk, {}) BY <2>1, Zenon DEF Same
  <2> QED BY <2>2, Untouched, Zenon
<1>4. ASSUME NEW p \in PeerID, RefreshMove(p) \/ RefreshAdd(p) PROVE Owned(pk)'
  <2>1. pool' = pool /\ tun' = tun /\ str' = str BY <1>4, Zenon DEF RefreshMove, RefreshAdd, Visit
  <2>2. \E v \in VpnPeers : \E n : /\ vp' = [vp EXCEPT ![v] = n]
                                   /\ n.inboundCh = vp[v].inboundCh /\ n.inBatch = vp[v].inBatch
                                   /\ n.outboundCh = vp[v].outboundCh /\ n.outBatch = vp[v].outBatch
    <3>1. CASE RefreshMove(p)
      <4>1. peerIDToPeer[p] \in VpnPeers BY <1>1, <3>1, Zenon DEF RefreshMove
      <4> WITNESS peerIDToPeer[p] \in VpnPeers
      <4> WITNESS [vp[peerIDToPeer[p]] EXCEPT !.localIP = known[p]]
      <4> QED BY <1>1, <3>1, <4>1, SMTT(30) DEF RefreshMove, VpnPeer
    <3>2. CASE RefreshAdd(p)
      <4>1. PICK v \in VpnPeers : vp' = [vp EXCEPT ![v] = NewVpnPeer(vp[v], p, known[p])]
        BY <3>2, Zenon DEF RefreshAdd
      <4> WITNESS v \in VpnPeers
      <4> WITNESS NewVpnPeer(vp[v], p, known[p])
      <4> QED BY <1>1, <4>1, Zenon DEF NewVpnPeer, VpnPeer
    <3> QED BY <1>4, <3>1, <3>2, Zenon
  <2>3. Same(pk, {}) BY <1>1, <2>1, <2>2, Zenon DEF Same
  <2> QED BY <2>3, Untouched, Zenon
<1>5. ASSUME NEW p \in PeerID, RefreshPrune(p) PROVE Owned(pk)'
  <2>1. CASE known[p] # Unknown
    <3>1. vp' = vp /\ pool' = pool /\ tun' = tun /\ str' = str BY <1>5, <2>1, Zenon DEF RefreshPrune, tableVars
    <3>2. Same(pk, {}) BY <3>1, Zenon DEF Same
    <3> QED BY <3>2, Untouched, Zenon
  <2>2. CASE known[p] = Unknown
    <3>1. CloseVpnPeer(p) /\ tun' = tun /\ str' = str BY <1>5, <2>2, Zenon DEF RefreshPrune
    <3>2. peerIDToPeer[p] # NoPeer BY <1>5, Zenon DEF RefreshPrune, IInv, TodoOK
    <3> QED BY <3>1, <3>2, CloseOwned, Zenon
  <2> QED BY <2>1, <2>2, Zenon
<1>6. ASSUME NEW p \in PeerID, ClosePeer(p) PROVE Owned(pk)'
  <2>1. CloseVpnPeer(p) /\ tun' = tun /\ str' = str /\ peerIDToPeer[p] # NoPeer BY <1>6, Zenon DEF ClosePeer
  <2> QED BY <2>1, CloseOwned, Zenon
<1> QED BY <1>2, <1>3, <1>4, <1>5, <1>6, Zenon DEF RefreshPeersList, Close

-----------------------------------------------------------------------------
(* Every packet has an owner, and a stream handler between two packets has *)
(* none in hand.                                                           *)
OwnersInv == IInv /\ EmptyHands /\ \A pk \in Packets : Owned(pk)

(* At first all packets are in the pool.                                   *)
LEMMA InitOwners == Init => OwnersInv
<1> SUFFICES ASSUME Init PROVE OwnersInv BY Zenon
<1>1. IInv BY InitIInv, Zenon
<1>2. EmptyHands BY Zenon DEF Init, EmptyHands
<1>3. ASSUME NEW pk \in Packets PROVE Owned(pk)
  <2> DEFINE F == Held(pk)
  <2>1. F[InPool] = 1..1 BY HeldIs, Zenon DEF Init
  <2>2. ASSUME NEW h \in Holders \ {InPool} PROVE F[h] = {}
    <3>1. CASE h = InTun
      <4>1. F[h] = At(tun.packets, pk) BY <3>1, HeldIs, Zenon
      <4>2. tun.packets = [i \in Slots |-> NoPacket] BY Zenon DEF Init
      <4> QED BY <4>1, <4>2, NilsAreDistinct, Zenon DEF At
    <3>2. ASSUME NEW p \in PeerID, h = <<"stream", p>> PROVE F[h] = {}
      <4>1. F[<<"stream", p>>] = IF str[p].packet = pk THEN {1} ELSE {} BY HeldIs, Zenon
      <4>2. str[p].packet = NoPacket BY Zenon DEF Init
      <4> QED BY <3>2, <4>1, <4>2, NilsAreDistinct, Zenon
    <3>3. ASSUME NEW v \in VpnPeers, NEW kind \in {"inboundCh", "outboundCh", "inBatch", "outBatch"},
                 h = <<kind, v>>
          PROVE  F[h] = {}
      <4>1. /\ vp[v].inboundCh = <<>> /\ vp[v].outboundCh = <<>>
            /\ vp[v].inBatch = <<>> /\ vp[v].outBatch = <<>>
        BY Zenon DEF Init
      <4>2. /\ F[<<"inboundCh", v>>] = At(vp[v].inboundCh, pk)
            /\ F[<<"outboundCh", v>>] = At(vp[v].outboundCh, pk)
            /\ F[<<"inBatch", v>>] = At(vp[v].inBatch, pk) /\ F[<<"outBatch", v>>] = At(vp[v].outBatch, pk)
        BY HeldIs, Zenon
      <4>3. /\ F[<<"inboundCh", v>>] = {} /\ F[<<"outboundCh", v>>] = {}
            /\ F[<<"inBatch", v>>] = {} /\ F[<<"outBatch", v>>] = {}
        BY <4>1, <4>2, AtEmpty, Zenon
      <4> QED BY <3>3, <4>3, Zenon
    <3> QED BY <2>2, <3>1, <3>2, <3>3, HoldersCases, Zenon
  <2> HIDE DEF F
  <2>3. One(F[InPool]) BY <2>1, OneSet, Zenon
  <2>4. Once(F, Holders) BY <2>2, <2>3, HoldersAre, Zenon DEF Once
  <2> QED BY <2>4, Zenon DEF Owned, F
<1> QED BY <1>1, <1>2, <1>3, Zenon DEF OwnersInv

(* If every packet parses, every step keeps each packet with one owner.    *)
LEMMA NextOwners == ~Malformed => (OwnersInv /\ [Next]_vars => OwnersInv')
<1> SUFFICES ASSUME ~Malformed, OwnersInv, [Next]_vars PROVE OwnersInv' BY Zenon
<1>0. IInv /\ EmptyHands BY Zenon DEF OwnersInv
<1>1. IInv' BY <1>0, NextIInv, Zenon
<1>2. EmptyHands'
  <2>1. CASE str' = str BY <1>0, <2>1, Zenon DEF EmptyHands
  <2>2. ASSUME NEW p \in PeerID, StreamHandler(p) PROVE EmptyHands'
    <3>1. str \in [PeerID -> StreamReader] /\ str[p] \in StreamReader BY <1>0, Zenon DEF IInv, TypeOK
    <3>2. \A q \in PeerID \ {p} : str'[q] = str[q]
      BY <2>2, <3>1, Zenon DEF StreamHandler, StreamOpen, StreamGet, StreamEOF, StreamReceive, StreamSend
    <3>3. str'[p].pc \in {"idle", "get"} => str'[p].packet = NoPacket
      <4>1. CASE StreamOpen(p) BY <1>0, <3>1, <4>1, Zenon DEF StreamOpen, StreamReader, EmptyHands
      <4>2. CASE StreamGet(p) BY <3>1, <4>2 DEF StreamGet, StreamReader
      <4>3. CASE StreamEOF(p) BY <3>1, <4>3, Zenon DEF StreamEOF, StreamReader
      <4>4. CASE StreamReceive(p) BY <3>1, <4>4, Zenon DEF StreamReceive, StreamReader
      <4>5. CASE StreamSend(p) BY <3>1, <4>5, Zenon DEF StreamSend, StreamReader
      <4> QED BY <2>2, <4>1, <4>2, <4>3, <4>4, <4>5, Zenon DEF StreamHandler
    <3> QED BY <1>0, <3>2, <3>3, Zenon DEF EmptyHands
  <2>3. ASSUME NEW v \in VpnPeers, backgroundInboundHandler(v) \/ backgroundOutboundHandler(v)
        PROVE  str' = str
    BY <2>3, Zenon DEF backgroundInboundHandler, backgroundOutboundHandler, InReceive, InProcess, InExit,
                OutReceive, OutProcess, OutExit
  <2>4. ASSUME ReadTUNPackets \/ HandleReadPackets PROVE str' = str
    BY <2>4, Zenon DEF ReadTUNPackets, HandleReadPackets, TunStop, TunFill, TunRead, TunRLock, TunScan,
                TunBroadcastDone, TunRUnlock, TunSend, TunBroadcast
  <2>5. ASSUME RefreshPeersList PROVE str' = str
    BY <2>5, ZenonT(60) DEF RefreshPeersList, RefreshCalled, RefreshLock, RefreshVisited, RefreshUnlock, RefreshSkip,
                RefreshMove, RefreshAdd, RefreshPrune, Visit
  <2>6. ASSUME Configure \/ CtxCancel \/ SubscriptionDone \/ Close PROVE str' = str
    BY <2>6, Zenon DEF Configure, UpsertPeer, RemovePeer, CtxCancel, SubscriptionDone, Close, CloseCalled,
                CloseLock, CloseUnlock, CloseStep, ClosePeer
  <2>7. ASSUME UNCHANGED vars PROVE str' = str BY <2>7, Zenon DEF vars
  <2> QED BY <2>1, <2>2, <2>3, <2>4, <2>5, <2>6, <2>7, Zenon DEF Next
<1>3. ASSUME NEW pk \in Packets PROVE Owned(pk)'
  <2>0. Owned(pk) BY Zenon DEF OwnersInv
  <2>1. CASE Configure \/ CtxCancel \/ SubscriptionDone \/ UNCHANGED vars
    <3>1. vp' = vp /\ pool' = pool /\ tun' = tun /\ str' = str
      BY <2>1, Zenon DEF Configure, UpsertPeer, RemovePeer, CtxCancel, SubscriptionDone, CloseStep, tableVars, vars
    <3>2. Same(pk, {}) BY <3>1, Zenon DEF Same
    <3> QED BY <2>0, <3>2, Untouched, Zenon
  <2> QED BY <1>0, <2>0, <2>1, WritersOwned, TunOwned, StreamOwned, HandlersOwned, Zenon DEF Next
<1> QED BY <1>1, <1>2, <1>3, Zenon DEF OwnersInv

(* A packet object is never in two hands, never put back twice and never   *)
(* lost, for any number of packets, peers and objects, any capacity of the *)
(* channels and any batch size, as long as the packets of remote peers     *)
(* parse; backgroundInboundHandler gives back some of the others twice.    *)
THEOREM PacketsHaveOneOwner == ~Malformed => (Spec => []SingleOwner)
<1> SUFFICES ASSUME ~Malformed PROVE Spec => []SingleOwner BY Zenon
<1>1. OwnersInv => SingleOwner BY OwnedOnce, Zenon DEF OwnersInv, SingleOwner
<1>2. OwnersInv /\ [Next]_vars => OwnersInv' BY NextOwners, Zenon
<1> QED BY <1>1, <1>2, InitOwners, PTL DEF Spec
=============================================================================
