-------------------------- MODULE AuthStatusProofs --------------------------
(***************************************************************************)
(* Consent, for any number of nodes, goroutines, operations and faults: no *)
(* peer is confirmed that has not added this node, and no exit node in use *)
(* that has not allowed it.  The invariant follows consent through         *)
(* everything that carries it: the peers, the requests, the copies that    *)
(* goroutines hold, and the messages between them.  It takes what it       *)
(* depends on as parameters: A for added, L for allowedOnce, B for blocked.*)
(***************************************************************************)
EXTENDS AuthStatus, TLAPS

\* What n may record of m.
HeldButWe(n, m, kp, A, L) ==
    kp # Unknown => /\ <<n, m>> \in A
                    /\ kp.confirmed => <<m, n>> \in A
                    /\ kp.allowed => <<m, n>> \in L
Held(n, m, kp, A, L) ==
    HeldButWe(n, m, kp, A, L) /\ (kp # Unknown => (kp.we => <<n, m>> \in L))

\* The copies: a setting counts as given once it is written.
CopiesOK(r, A, L) ==
    /\ HeldButWe(r.n, r.m, r.copy, A, L)
    /\ r.pc # "write" => Held(r.n, r.m, r.copy, A, L)
    /\ Held(r.n, r.m, r.kp, A, L) /\ Held(r.m, r.n, r.skp, A, L)

\* The goroutine at n.
ClientOK(r, A, L, B) ==
    /\ r.confirmed => <<r.m, r.n>> \in A
    /\ r.pc \in {"write", "upsert", "fresh", "auth", "authOpen", "authWait", "authGet", "authPut"}
           => <<r.n, r.m>> \in A
    /\ r.pc \in {"dial", "open"} => <<r.n, r.m>> \in A \/ r.m \in B[r.n]
    /\ r.pc = "choose" => <<r.m, r.n>> \in L

\* The handler at m, and what it was told.
ServerOK(r, A, L) ==
    /\ r.spc \in {"auth", "judged"} => <<r.n, r.m>> \in A /\ r.pc \in {"authWait", "end"}
    /\ r.spc \in {"status", "known", "get", "put", "use"}
           => /\ r.info = "declined" \/ <<r.n, r.m>> \in A
              /\ r.pc \in {"wait", "get", "put", "use", "end"}
    /\ r.spc = "known" => r.sBlocked \/ r.skp # Unknown
    /\ r.info = "allow" => <<r.n, r.m>> \in L

\* What n was answered.
AnswerOK(r, A, L) ==
    /\ r.spc = "status" => r.answer \in {"none", "broken"}
    /\ r.answer = "allow" => <<r.m, r.n>> \in L
    /\ r.pc = "wait" => r.answer \in {"none", "broken", "declined"} \/ <<r.m, r.n>> \in A
    /\ r.pc \in {"get", "put", "use"} => r.answer = "declined" \/ <<r.m, r.n>> \in A
    /\ r.answer # "none"
           => r.pc \in {"authWait", "authGet", "authPut", "wait", "get", "put", "use", "end"}

SlotOK(r, A, L, B) ==
    CopiesOK(r, A, L) /\ ClientOK(r, A, L, B) /\ ServerOK(r, A, L) /\ AnswerOK(r, A, L)

Typed ==
    /\ peers \in [Nodes -> [Nodes -> MaybePeer]] /\ blocked \in [Nodes -> SUBSET Nodes]
    /\ using \in [Nodes -> Nodes \cup {Nobody}] /\ saved \in [Nodes -> Nodes \cup {Nobody}]
    /\ ingoing \in [Nodes -> SUBSET Nodes] /\ outgoing \in [Nodes -> SUBSET Nodes]
    /\ g \in [Slots -> Goroutine]

PeersOK == \A n, m \in Nodes : Held(n, m, peers[n][m], added, allowedOnce)

AuthsOK ==
    \A n \in Nodes : /\ \A m \in ingoing[n] : <<m, n>> \in added
                     /\ \A m \in outgoing[n] : <<n, m>> \in added

ProxyOK ==
    \A n \in Nodes : /\ using[n] # Nobody => <<using[n], n>> \in allowedOnce
                     /\ saved[n] # Nobody => <<saved[n], n>> \in allowedOnce

SlotsOK == \A i \in Slots : SlotOK(g[i], added, allowedOnce, blocked)

ConsentInv == Typed /\ PeersOK /\ AuthsOK /\ ProxyOK /\ SlotsOK

-----------------------------------------------------------------------------
\* What a step may do to the consents and the blocked peers: nothing is
\* forgotten, and who unblocks a peer has added it.
Grows(A, L, B, A2, L2, B2) ==
    /\ A \subseteq A2 /\ L \subseteq L2
    /\ \A n, m \in Nodes : m \in B[n] => m \in B2[n] \/ <<n, m>> \in A2

\* A slot that is left alone stays in order when consents are added.
LEMMA SlotGrows ==
    ASSUME NEW A, NEW L, NEW B, NEW A2, NEW L2, NEW B2, Grows(A, L, B, A2, L2, B2),
           NEW r \in Goroutine, SlotOK(r, A, L, B)
    PROVE  SlotOK(r, A2, L2, B2)
<1>0. r.n \in Nodes /\ r.m \in Nodes BY Zenon DEF Goroutine
<1>1. CopiesOK(r, A2, L2) BY Zenon DEF SlotOK, CopiesOK, Held, HeldButWe, Grows
<1>2. ClientOK(r, A2, L2, B2) BY <1>0, Zenon DEF SlotOK, ClientOK, Grows
<1>3. ServerOK(r, A2, L2) BY Zenon DEF SlotOK, ServerOK, Grows
<1>4. AnswerOK(r, A2, L2) BY Zenon DEF SlotOK, AnswerOK, Grows
<1> QED BY <1>1, <1>2, <1>3, <1>4, Zenon DEF SlotOK

\* The same for what is recorded of a peer.
LEMMA HeldGrows ==
    ASSUME NEW A, NEW L, NEW A2, NEW L2, A \subseteq A2, L \subseteq L2,
           NEW n, NEW m, NEW kp, Held(n, m, kp, A, L)
    PROVE  Held(n, m, kp, A2, L2)
BY Zenon DEF Held, HeldButWe

\* A goroutine that has just been started is typed, with nothing in hand.
LEMMA RunTyped ==
    ASSUME NEW n \in Nodes, NEW m \in Nodes,
           NEW pc \in {"free", "add", "block", "write", "choose", "save", "auth", "dial",
                       "fresh", "end"}
    PROVE  Run(pc, n, m) \in Goroutine
BY Zenon DEF Run, Goroutine, MaybePeer, Answers

\* It is in order when its first step is justified.
LEMMA RunOK ==
    ASSUME NEW A, NEW L, NEW B, NEW n, NEW m, NEW pc,
           pc \in {"free", "add", "block", "save", "end", "choose", "auth", "fresh", "dial"},
           pc = "choose" => <<m, n>> \in L,
           pc \in {"auth", "fresh", "dial"} => <<n, m>> \in A
    PROVE  SlotOK(Run(pc, n, m), A, L, B)
BY Zenon DEF SlotOK, CopiesOK, ClientOK, ServerOK, AnswerOK, Held, HeldButWe, Run

\* A free slot is in order.
LEMMA FreeOK ==
    ASSUME NEW A, NEW L, NEW B
    PROVE  Free \in Goroutine /\ SlotOK(Free, A, L, B)
<1> DEFINE n == CHOOSE n \in Nodes : TRUE
<1>1. n \in Nodes BY AuthConstants, Zenon
<1>2. Free = Run("free", n, n) BY Zenon DEF Free
<1> HIDE DEF n
<1> QED BY <1>1, <1>2, RunTyped, RunOK, Zenon

-----------------------------------------------------------------------------
\* One slot is set and the others are left alone.
LEMMA SlotSet ==
    ASSUME Typed, SlotsOK, NEW i \in Slots, NEW r \in Goroutine, g' = [g EXCEPT ![i] = r],
           Grows(added, allowedOnce, blocked, added', allowedOnce', blocked'),
           SlotOK(r, added', allowedOnce', blocked')
    PROVE  g' \in [Slots -> Goroutine] /\ SlotsOK'
<1>1. g \in [Slots -> Goroutine] BY Zenon DEF Typed
<1>2. ASSUME NEW j \in Slots PROVE SlotOK(g'[j], added', allowedOnce', blocked')
  <2>1. g[j] \in Goroutine /\ SlotOK(g[j], added, allowedOnce, blocked) BY <1>1, Zenon DEF SlotsOK
  <2>2. SlotOK(g[j], added', allowedOnce', blocked') BY <2>1, SlotGrows, Zenon
  <2> QED BY <1>1, <2>2, Zenon
<1> QED BY <1>1, <1>2, Zenon DEF SlotsOK

\* A goroutine goes on, or its slot is free again.
LEMMA Continues ==
    ASSUME Typed, SlotsOK, NEW i \in Slots, NEW r \in Goroutine, Continue(i, r),
           Grows(added, allowedOnce, blocked, added', allowedOnce', blocked'),
           SlotOK(r, added', allowedOnce', blocked')
    PROVE  g' \in [Slots -> Goroutine] /\ SlotsOK'
<1> DEFINE s == IF r.pc = "end" /\ r.spc = "none" THEN Free ELSE r
<1>1. s \in Goroutine /\ SlotOK(s, added', allowedOnce', blocked') BY FreeOK, Zenon
<1>2. g' = [g EXCEPT ![i] = s] BY Zenon DEF Continue
<1> HIDE DEF s
<1> QED BY <1>1, <1>2, SlotSet, Zenon

\* A step that changes one slot and no configuration, requests or consents.
LEMMA OnlySlot ==
    ASSUME ConsentInv, NEW i \in Slots, NEW r \in Goroutine,
           Continue(i, r) \/ g' = [g EXCEPT ![i] = r],
           UNCHANGED <<confVars, authVars, history>>, SlotOK(r, added, allowedOnce, blocked)
    PROVE  ConsentInv'
<1>0. UNCHANGED <<peers, blocked, using, saved, ingoing, outgoing, added, allowedOnce>>
  BY Zenon DEF confVars, authVars, history
<1>1. Grows(added, allowedOnce, blocked, added', allowedOnce', blocked') BY <1>0, Zenon DEF Grows
<1>2. SlotOK(r, added', allowedOnce', blocked') BY <1>0, Zenon
<1>3. g' \in [Slots -> Goroutine] /\ SlotsOK'
  BY <1>1, <1>2, SlotSet, Continues, Zenon DEF ConsentInv
<1> QED BY <1>0, <1>3, Zenon DEF ConsentInv, Typed, PeersOK, AuthsOK, ProxyOK

\* A goroutine is started, and nothing else happens.
LEMMA OnlyGo ==
    ASSUME ConsentInv, NEW r \in Goroutine, Go(r), UNCHANGED <<confVars, authVars, history>>,
           SlotOK(r, added, allowedOnce, blocked)
    PROVE  ConsentInv'
<1>1. PICK i \in Goroutines : g' = [g EXCEPT ![i] = r] BY Zenon DEF Go
<1>2. i \in Slots BY Zenon DEF Slots
<1> QED BY <1>1, <1>2, OnlySlot, Zenon

\* UpsertPeer of a copy that may be held.
LEMMA Upserts ==
    ASSUME ConsentInv, NEW n \in Nodes, NEW m \in Nodes, NEW kp \in MaybePeer,
           UpsertPeer(n, m, kp), UNCHANGED <<authVars, added>>, allowedOnce \subseteq allowedOnce',
           Held(n, m, kp, added', allowedOnce'),
           NEW i \in Slots, NEW r \in Goroutine, Continue(i, r),
           SlotOK(r, added, allowedOnce', blocked)
    PROVE  ConsentInv'
<1>0. UNCHANGED <<blocked, using, ingoing, outgoing, added>> BY Zenon DEF UpsertPeer, authVars
<1>1. Grows(added, allowedOnce, blocked, added', allowedOnce', blocked') BY <1>0, Zenon DEF Grows
<1>2. SlotOK(r, added', allowedOnce', blocked') BY <1>0, Zenon
<1>3. g' \in [Slots -> Goroutine] /\ SlotsOK' BY <1>1, <1>2, Continues, Zenon DEF ConsentInv
<1>4. peers' \in [Nodes -> [Nodes -> MaybePeer]]
  <2>1. peers \in [Nodes -> [Nodes -> MaybePeer]] BY Zenon DEF ConsentInv, Typed
  <2>2. peers' = peers \/ peers' = [peers EXCEPT ![n] = [peers[n] EXCEPT ![m] = kp]]
    BY <2>1, Zenon DEF UpsertPeer
  <2>3. [peers[n] EXCEPT ![m] = kp] \in [Nodes -> MaybePeer] BY <2>1, Zenon
  <2> QED BY <2>1, <2>2, <2>3, Zenon
<1>5. PeersOK'
  <2> SUFFICES ASSUME NEW x \in Nodes, NEW y \in Nodes
               PROVE  Held(x, y, peers'[x][y], added', allowedOnce')
    BY Zenon DEF PeersOK
  <2>1. Held(x, y, peers[x][y], added, allowedOnce) BY Zenon DEF ConsentInv, PeersOK
  <2>2. Held(x, y, peers[x][y], added', allowedOnce') BY <2>1, <1>0, HeldGrows, Zenon
  <2>3. peers'[x][y] = peers[x][y] \/ (x = n /\ y = m /\ peers'[x][y] = kp)
    BY DEF ConsentInv, Typed, UpsertPeer
  <2> QED BY <2>2, <2>3, Zenon
<1>6. saved' \in [Nodes -> Nodes \cup {Nobody}] /\ ProxyOK'
  BY <1>0, ZenonT(60) DEF ConsentInv, Typed, ProxyOK, UpsertPeer, Save
<1> QED BY <1>0, <1>3, <1>4, <1>5, <1>6, Zenon DEF ConsentInv, Typed, AuthsOK

-----------------------------------------------------------------------------
\* The steps of a goroutine that only move its program counter.
Moved(r, pc, A, L, B) ==
    \/ r.pc = "add" /\ pc \in {"unblock", "end"}
    \/ r.pc = "unblock" /\ pc = "upsert" /\ <<r.n, r.m>> \in A
    \/ r.pc = "block" /\ pc = "dial" /\ r.m \in B[r.n]
    \/ r.pc = "write" /\ pc = "dial" /\ (r.copy.we => <<r.n, r.m>> \in L)
    \/ r.pc = "choose" /\ pc = "save"
    \/ r.pc = "save" /\ pc = "end"
    \/ r.pc = "auth" /\ pc = "authOpen"
    \/ r.pc = "authWait" /\ pc = "authGet" /\ r.spc = "none"
    \/ r.pc = "dial" /\ pc = "open"
    \/ r.pc = "open" /\ pc = "end"
    \/ r.pc = "wait" /\ pc = "end"
    \/ r.pc = "wait" /\ pc = "get" /\ r.answer \notin {"none", "broken"}
    \/ r.pc = "put" /\ pc = "use"
    \/ r.pc = "use" /\ pc = "end"

\* They keep a goroutine in order.
LEMMA MovedOK ==
    ASSUME NEW A, NEW L, NEW B, NEW r \in Goroutine, SlotOK(r, A, L, B),
           NEW pc, Moved(r, pc, A, L, B)
    PROVE  [r EXCEPT !.pc = pc] \in Goroutine /\ SlotOK([r EXCEPT !.pc = pc], A, L, B)
<1> DEFINE s == [r EXCEPT !.pc = pc]
<1>1. s \in Goroutine BY Zenon DEF Moved, Goroutine
<1>2. /\ s.pc = pc /\ s.spc = r.spc /\ s.n = r.n /\ s.m = r.m /\ s.confirmed = r.confirmed
      /\ s.copy = r.copy /\ s.kp = r.kp /\ s.skp = r.skp /\ s.sBlocked = r.sBlocked
      /\ s.info = r.info /\ s.answer = r.answer
  BY Zenon DEF Goroutine
<1> HIDE DEF s
<1>3. CopiesOK(s, A, L) BY <1>2, Zenon DEF SlotOK, CopiesOK, Held, HeldButWe, Moved
<1>4. ClientOK(s, A, L, B) BY <1>2, ZenonT(60) DEF SlotOK, ClientOK, CopiesOK, HeldButWe, Moved
<1>5. ServerOK(s, A, L) BY <1>2, Zenon DEF SlotOK, ServerOK, Moved
<1>6. AnswerOK(s, A, L) BY <1>2, Zenon DEF SlotOK, AnswerOK, Moved
<1> QED BY <1>1, <1>3, <1>4, <1>5, <1>6, Zenon DEF SlotOK, s

\* After SendAuthRequest the goroutine goes on in order.
LEMMA AuthDoneOK ==
    ASSUME NEW A, NEW L, NEW B, NEW r \in Goroutine, SlotOK(r, A, L, B),
           r.pc \in {"authOpen", "authWait", "authGet", "authPut"}
    PROVE  AuthDone(r) \in Goroutine /\ SlotOK(AuthDone(r), A, L, B)
<1>1. r.then = "none" \/ r.then = "fresh" \/ r.then = "copy" BY Zenon DEF Goroutine
<1>2. PICK pc \in {"end", "fresh", "dial"} : AuthDone(r) = [Run(pc, r.n, r.m) EXCEPT !.copy = r.copy]
  BY <1>1, Zenon DEF AuthDone
<1>3. [Run(pc, r.n, r.m) EXCEPT !.copy = r.copy] \in Goroutine
  BY ZenonT(60) DEF Run, Goroutine, Answers, MaybePeer
<1>4. SlotOK([Run(pc, r.n, r.m) EXCEPT !.copy = r.copy], A, L, B)
  BY DEF Run, SlotOK, CopiesOK, ClientOK, ServerOK, AnswerOK, Held, HeldButWe
<1> QED BY <1>2, <1>3, <1>4, Zenon

\* What holds of the goroutine of a slot.
LEMMA SlotFacts ==
    ASSUME ConsentInv, NEW i \in Slots
    PROVE  /\ g[i] \in Goroutine /\ g[i].n \in Nodes /\ g[i].m \in Nodes
           /\ SlotOK(g[i], added, allowedOnce, blocked)
BY Zenon DEF ConsentInv, Typed, SlotsOK, Goroutine

\* What holds of the peers.
LEMMA PeerFacts ==
    ASSUME ConsentInv, NEW n \in Nodes, NEW m \in Nodes
    PROVE  peers[n][m] \in MaybePeer /\ Held(n, m, peers[n][m], added, allowedOnce)
BY Zenon DEF ConsentInv, Typed, PeersOK

-----------------------------------------------------------------------------
\* The API of a node, its tickers and connection events.
LEMMA ApiKeeps ==
    ASSUME ConsentInv, NEW n \in Nodes, NEW m \in Nodes,
           \/ SendFriendRequest(n, m) \/ AcceptFriend(n, m)
           \/ \E allow \in BOOLEAN : UpdatePeerSettings(n, m, allow)
           \/ UpdateProxySettings(n, m)
    PROVE  ConsentInv'
<1> DEFINE kp == peers[n][m]
<1>0. kp \in MaybePeer /\ Held(n, m, kp, added, allowedOnce) BY PeerFacts, Zenon
<1>1. CASE SendFriendRequest(n, m)
  BY <1>1, RunTyped, RunOK, OnlyGo, Zenon DEF SendFriendRequest, User, confVars, authVars, history
<1>2. CASE AcceptFriend(n, m)
  <2> DEFINE r == [Run("add", n, m) EXCEPT !.confirmed = TRUE]
  <2>1. <<m, n>> \in added BY <1>2, Zenon DEF ConsentInv, AuthsOK, AcceptFriend
  <2>2. r \in Goroutine BY Zenon DEF Run, Goroutine, Answers, MaybePeer
  <2>3. SlotOK(r, added, allowedOnce, blocked)
    BY <2>1, Zenon DEF Run, SlotOK, CopiesOK, ClientOK, ServerOK, AnswerOK, Held, HeldButWe
  <2>4. /\ Go(r) \/ Go(Run("block", n, m))
        /\ UNCHANGED <<confVars, authVars, history>>
    BY <1>2, Zenon DEF AcceptFriend, User
  <2> HIDE DEF r
  <2> QED BY <2>2, <2>3, <2>4, RunTyped, RunOK, OnlyGo, Zenon
<1>3. CASE \E allow \in BOOLEAN : UpdatePeerSettings(n, m, allow)
  <2>1. PICK allow \in BOOLEAN : UpdatePeerSettings(n, m, allow) BY <1>3, Zenon
  <2> DEFINE new == [kp EXCEPT !.we = allow]
             r == [Run("write", n, m) EXCEPT !.copy = new]
  <2>2. kp \in KnownPeer /\ kp # Unknown BY <1>0, <2>1, Zenon DEF MaybePeer, UpdatePeerSettings
  <2>3. new \in KnownPeer /\ new.confirmed = kp.confirmed /\ new.allowed = kp.allowed
    BY <2>2, Zenon DEF KnownPeer
  <2>4. <<n, m>> \in added /\ HeldButWe(n, m, new, added, allowedOnce)
    BY <1>0, <2>2, <2>3, Zenon DEF Held, HeldButWe
  <2>5. Go(r) /\ UNCHANGED <<confVars, authVars, history>> BY <2>1, Zenon DEF UpdatePeerSettings, User
  <2> HIDE DEF new
  <2>6. r \in Goroutine BY <2>3, Zenon DEF Run, Goroutine, Answers, MaybePeer
  <2>7. SlotOK(r, added, allowedOnce, blocked)
    BY <2>4, Zenon DEF Run, SlotOK, CopiesOK, ClientOK, ServerOK, AnswerOK, Held, HeldButWe
  <2> HIDE DEF r
  <2> QED BY <2>5, <2>6, <2>7, OnlyGo, Zenon
<1>4. CASE UpdateProxySettings(n, m)
  <2>1. <<m, n>> \in allowedOnce BY <1>0, <1>4, Zenon DEF Held, HeldButWe, UpdateProxySettings
  <2> QED BY <2>1, <1>4, RunTyped, RunOK, OnlyGo, Zenon DEF UpdateProxySettings, User
<1> QED BY <1>1, <1>2, <1>3, <1>4, Zenon

\* RemovePeer takes a peer out of the configuration.
LEMMA RemoveKeeps ==
    ASSUME ConsentInv, NEW n \in Nodes, NEW m \in Nodes, RemovePeer(n, m)
    PROVE  ConsentInv'
<1>0. UNCHANGED <<blocked, using, ingoing, outgoing, added, allowedOnce>>
  BY Zenon DEF RemovePeer, User, authVars, history
<1>1. PICK i \in Slots : g' = [g EXCEPT ![i] = Run("block", n, m)] BY Zenon DEF RemovePeer, Go, Slots
<1>2. Grows(added, allowedOnce, blocked, added', allowedOnce', blocked') BY <1>0, Zenon DEF Grows
<1>3. Run("block", n, m) \in Goroutine /\ SlotOK(Run("block", n, m), added', allowedOnce', blocked')
  BY RunTyped, RunOK, Zenon
<1>4. g' \in [Slots -> Goroutine] /\ SlotsOK' BY <1>1, <1>2, <1>3, SlotSet, Zenon DEF ConsentInv
<1>5. peers' \in [Nodes -> [Nodes -> MaybePeer]]
  <2>1. peers \in [Nodes -> [Nodes -> MaybePeer]] BY Zenon DEF ConsentInv, Typed
  <2>2. peers' = [peers EXCEPT ![n] = [peers[n] EXCEPT ![m] = Unknown]] BY <2>1, Zenon DEF RemovePeer
  <2>3. [peers[n] EXCEPT ![m] = Unknown] \in [Nodes -> MaybePeer] BY <2>1, Zenon DEF MaybePeer
  <2> QED BY <2>1, <2>2, <2>3, Zenon
<1>6. PeersOK'
  <2> SUFFICES ASSUME NEW x \in Nodes, NEW y \in Nodes
               PROVE  Held(x, y, peers'[x][y], added, allowedOnce)
    BY <1>0, Zenon DEF PeersOK
  <2>1. peers'[x][y] = peers[x][y] \/ peers'[x][y] = Unknown
    BY Zenon DEF ConsentInv, Typed, RemovePeer
  <2> QED BY <2>1, PeerFacts, Zenon DEF Held, HeldButWe
<1>7. saved' \in [Nodes -> Nodes \cup {Nobody}] /\ ProxyOK'
  BY <1>0, Zenon DEF ConsentInv, Typed, ProxyOK, RemovePeer, Save
<1> QED BY <1>0, <1>4, <1>5, <1>6, <1>7, Zenon DEF ConsentInv, Typed, AuthsOK

\* ClearProxySettings uses no exit node.
LEMMA ClearKeeps ==
    ASSUME ConsentInv, NEW n \in Nodes, ClearProxySettings(n)
    PROVE  ConsentInv'
<1>0. UNCHANGED <<peers, blocked, saved, ingoing, outgoing, added, allowedOnce>>
  BY Zenon DEF ClearProxySettings, User, authVars, history
<1>1. PICK i \in Slots : g' = [g EXCEPT ![i] = Run("save", n, n)] BY Zenon DEF ClearProxySettings, Go, Slots
<1>2. Grows(added, allowedOnce, blocked, added', allowedOnce', blocked') BY <1>0, Zenon DEF Grows
<1>3. Run("save", n, n) \in Goroutine /\ SlotOK(Run("save", n, n), added', allowedOnce', blocked')
  BY RunTyped, RunOK, Zenon
<1>4. g' \in [Slots -> Goroutine] /\ SlotsOK' BY <1>1, <1>2, <1>3, SlotSet, Zenon DEF ConsentInv
<1>5. using' \in [Nodes -> Nodes \cup {Nobody}] /\ ProxyOK'
  BY <1>0, Zenon DEF ConsentInv, Typed, ProxyOK, ClearProxySettings
<1> QED BY <1>0, <1>4, <1>5, Zenon DEF ConsentInv, Typed, AuthsOK, PeersOK

\* A goroutine cut off by a restart of n, at either end, is in order.
LEMMA SurvivorOK ==
    ASSUME NEW A, NEW L, NEW B, NEW r \in Goroutine, SlotOK(r, A, L, B), NEW n
    PROVE  Survivor(r, n) \in Goroutine /\ SlotOK(Survivor(r, n), A, L, B)
<1> DEFINE pc  == IF r.n = n \/ r.pc = "free" THEN "end" ELSE r.pc
           spc == IF r.m = n THEN "none" ELSE r.spc
           answer == IF r.m = n /\ r.spc # "none" /\ r.answer = "none" THEN "broken" ELSE r.answer
           s == [r EXCEPT !.pc = pc, !.spc = spc, !.answer = answer]
<1>1. Survivor(r, n) = IF pc = "end" /\ spc = "none" THEN Free ELSE s BY Zenon DEF Survivor
<1>2. s \in Goroutine
  <2>1. pc \in {"end", r.pc} /\ spc \in {"none", r.spc} /\ answer \in {"broken", r.answer} BY Zenon
  <2>2. r.answer \in Answers /\ "broken" \in Answers BY Zenon DEF Goroutine, Answers
  <2>3. answer \in Answers BY <2>1, <2>2, Zenon
  <2> HIDE DEF pc, spc, answer
  <2> QED BY <2>1, <2>3, ZenonT(60) DEF Goroutine
<1>3. /\ s.pc = pc /\ s.spc = spc /\ s.n = r.n /\ s.m = r.m /\ s.confirmed = r.confirmed
      /\ s.copy = r.copy /\ s.kp = r.kp /\ s.skp = r.skp /\ s.sBlocked = r.sBlocked
      /\ s.info = r.info /\ s.answer = answer
  BY Zenon DEF Goroutine
<1>4. /\ pc \in {"end", r.pc} /\ spc \in {"none", r.spc}
      /\ answer = r.answer \/ (answer = "broken" /\ spc = "none" /\ r.spc # "none" /\ r.answer = "none")
  BY Zenon
<1>5. r.spc \in {"none", "auth", "judged", "status", "known", "get", "put", "use"} BY Zenon DEF Goroutine
<1>6. r.pc = "write" => r.spc = "none" BY <1>5, Zenon DEF SlotOK, ServerOK
<1> HIDE DEF pc, spc, answer, s
<1>7. CASE pc = "end" /\ spc = "none" BY <1>1, <1>7, FreeOK, Zenon
<1>8. CASE ~(pc = "end" /\ spc = "none")
  <2>0. pc = r.pc \/ (pc = "end" /\ r.pc # "write") BY <1>4, <1>6, <1>8, Zenon
  <2>1. CopiesOK(s, A, L) BY <1>3, <2>0, Zenon DEF SlotOK, CopiesOK
  <2>2. ClientOK(s, A, L, B) BY <1>3, <2>0, Zenon DEF SlotOK, ClientOK
  <2>3. ServerOK(s, A, L) BY <1>3, <1>4, <2>0, Zenon DEF SlotOK, ServerOK
  <2>4. AnswerOK(s, A, L) BY <1>3, <1>4, <1>5, <2>0, Zenon DEF SlotOK, AnswerOK, ServerOK
  <2> QED BY <1>1, <1>2, <1>8, <2>1, <2>2, <2>3, <2>4, Zenon DEF SlotOK
<1> QED BY <1>7, <1>8, Zenon

\* A restart loses the requests received and restores those sent.
LEMMA RestartKeeps ==
    ASSUME ConsentInv, NEW n \in Nodes, Restart(n)
    PROVE  ConsentInv'
<1>0. UNCHANGED <<peers, blocked, saved, added, allowedOnce>> BY Zenon DEF Restart, User, history
<1>1. g' \in [Slots -> Goroutine] /\ SlotsOK'
  <2>1. ASSUME NEW i \in Slots
        PROVE  Survivor(g[i], n) \in Goroutine /\ SlotOK(Survivor(g[i], n), added, allowedOnce, blocked)
    BY SlotFacts, SurvivorOK, Zenon
  <2>2. g' = [i \in Slots |-> Survivor(g[i], n)] BY Zenon DEF Restart
  <2> QED BY <1>0, <2>1, <2>2, Zenon DEF SlotsOK
<1>2. using' \in [Nodes -> Nodes \cup {Nobody}] /\ ProxyOK'
  BY <1>0, Zenon DEF ConsentInv, Typed, ProxyOK, Restart
<1>3. /\ ingoing' \in [Nodes -> SUBSET Nodes] /\ outgoing' \in [Nodes -> SUBSET Nodes]
      /\ AuthsOK'
  <2>1. \A m \in restoreOutgoingAuths(n) : m \in Nodes /\ <<n, m>> \in added
    BY PeerFacts, Zenon DEF restoreOutgoingAuths, Held, HeldButWe
  <2> QED BY <1>0, <2>1, Zenon DEF ConsentInv, Typed, AuthsOK, Restart
<1> QED BY <1>0, <1>1, <1>2, <1>3, Zenon DEF ConsentInv, Typed, PeersOK

\* Tickers and connection events start exchanges with peers this node added.
LEMMA EventsKeep ==
    ASSUME ConsentInv, NEW n \in Nodes, NEW m \in Nodes,
           \/ BackgroundRetryAuthRequests(n, m) \/ onPeerConnected(n, m)
           \/ BackgroundExchangeStatusInfo(n, m)
    PROVE  ConsentInv'
<1> DEFINE kp == peers[n][m]
           dial == [Run("dial", n, m) EXCEPT !.copy = kp]
<1>0. kp \in MaybePeer /\ Held(n, m, kp, added, allowedOnce) BY PeerFacts
<1>1. kp # Unknown => /\ dial \in Goroutine
                      /\ SlotOK(dial, added, allowedOnce, blocked)
  <2>1. dial \in Goroutine BY <1>0, Zenon DEF Run, Goroutine, Answers, MaybePeer
  <2>2. kp # Unknown => SlotOK(dial, added, allowedOnce, blocked)
    BY <1>0, Zenon DEF Run, SlotOK, CopiesOK, ClientOK, ServerOK, AnswerOK, Held, HeldButWe
  <2> QED BY <2>1, <2>2, Zenon
<1>2. m \in outgoing[n] => <<n, m>> \in added BY Zenon DEF ConsentInv, AuthsOK
<1>3. ASSUME NEW t, NEW r \in Goroutine, Tick(t, r), SlotOK(r, added, allowedOnce, blocked)
      PROVE  ConsentInv'
  <2>1. t \in Slots BY <1>3, Zenon DEF Tick, Slots
  <2> QED BY <1>3, <2>1, OnlySlot, Zenon DEF Tick
<1>4. CASE BackgroundRetryAuthRequests(n, m)
  BY <1>2, <1>3, <1>4, RunTyped, RunOK, ZenonT(60) DEF BackgroundRetryAuthRequests
<1>5. CASE BackgroundExchangeStatusInfo(n, m)
  <2>1. kp # Unknown /\ Tick(<<n, "status">>, dial) BY <1>5, Zenon DEF BackgroundExchangeStatusInfo
  <2> HIDE DEF dial
  <2> QED BY <1>1, <1>3, <2>1, Zenon
<1>6. CASE onPeerConnected(n, m)
  <2> DEFINE then == IF kp # Unknown THEN "copy" ELSE "none"
             r == [Run("auth", n, m) EXCEPT !.copy = kp, !.then = then]
             s == [r EXCEPT !.pc = "dial", !.then = "none"]
  <2>1. r \in Goroutine BY <1>0, Zenon DEF Run, Goroutine, Answers, MaybePeer
  <2>2. m \in outgoing[n] => SlotOK(r, added, allowedOnce, blocked)
    BY <1>0, <1>2 DEF Run, SlotOK, CopiesOK, ClientOK, ServerOK, AnswerOK, Held, HeldButWe
  <2>3. s \in Goroutine BY <2>1, ZenonT(120) DEF Goroutine
  <2>4. kp # Unknown => SlotOK(s, added, allowedOnce, blocked)
    BY <1>0 DEF Run, SlotOK, CopiesOK, ClientOK, ServerOK, AnswerOK, Held, HeldButWe
  <2>5. /\ (m \in outgoing[n] /\ Go(r)) \/ (kp # Unknown /\ Go(s))
        /\ UNCHANGED <<confVars, authVars, history>>
    BY <1>6 DEF onPeerConnected, User
  <2> HIDE DEF r, s
  <2> QED BY <2>1, <2>2, <2>3, <2>4, <2>5, OnlyGo, Zenon
<1> QED BY <1>4, <1>5, <1>6, Zenon

-----------------------------------------------------------------------------
\* AddPeer: the consent is recorded before anything that depends on it.
LEMMA AddPeerKeeps ==
    ASSUME ConsentInv, NEW i \in Slots, AddPeer(i)
    PROVE  ConsentInv'
<1> DEFINE r == g[i]
<1>0. /\ r \in Goroutine /\ r.n \in Nodes /\ r.m \in Nodes
      /\ SlotOK(r, added, allowedOnce, blocked)
  BY SlotFacts
<1>1. CASE AddCheck(i)
  <2>1. PICK pc \in {"unblock", "end"} : Continue(i, [r EXCEPT !.pc = pc]) BY <1>1 DEF AddCheck
  <2>2. Moved(r, pc, added, allowedOnce, blocked) BY <1>1 DEF AddCheck, Moved
  <2>3. UNCHANGED <<confVars, authVars, history>> BY <1>1 DEF AddCheck
  <2> QED BY <1>0, <2>1, <2>2, <2>3, MovedOK, OnlySlot
<1>2. CASE AddUnblock(i)
  <2>1. UNCHANGED <<peers, using, ingoing, outgoing, allowedOnce>> /\ added' = added \cup {<<r.n, r.m>>}
    BY <1>2 DEF AddUnblock, authVars
  <2>2. blocked' \in [Nodes -> SUBSET Nodes]
    BY <1>0, <1>2 DEF AddUnblock, ConsentInv, Typed
  <2>3. Grows(added, allowedOnce, blocked, added', allowedOnce', blocked')
    BY <1>0, <1>2, <2>1 DEF AddUnblock, ConsentInv, Typed, Grows
  <2>4. SlotOK(r, added', allowedOnce', blocked') BY <1>0, <2>3, SlotGrows
  <2>5. Moved(r, "upsert", added', allowedOnce', blocked') BY <1>2, <2>1 DEF AddUnblock, Moved
  <2>6. Continue(i, [r EXCEPT !.pc = "upsert"]) BY <1>2 DEF AddUnblock
  <2>7. g' \in [Slots -> Goroutine] /\ SlotsOK'
    BY <1>0, <2>3, <2>4, <2>5, <2>6, MovedOK, Continues DEF ConsentInv
  <2>8. PeersOK' BY <2>1, Zenon DEF ConsentInv, PeersOK, Held, HeldButWe
  <2>9. AuthsOK' BY <2>1, Zenon DEF ConsentInv, AuthsOK
  <2>10. saved' \in [Nodes -> Nodes \cup {Nobody}] /\ ProxyOK'
    BY <1>0, <1>2, <2>1, ZenonT(60) DEF AddUnblock, Save, ConsentInv, Typed, ProxyOK
  <2> QED BY <2>1, <2>2, <2>7, <2>8, <2>9, <2>10, Zenon DEF ConsentInv, Typed
<1>3. CASE AddUpsert(i)
  <2> DEFINE pc == IF r.confirmed THEN "fresh" ELSE "auth"
             s == [r EXCEPT !.pc = pc, !.then = "fresh"]
             kp == NewPeer(r.confirmed)
  <2>1. r.pc = "upsert" /\ UpsertPeer(r.n, r.m, kp) /\ Continue(i, s)
        /\ UNCHANGED <<authVars, added, allowedOnce>>
    BY <1>3 DEF AddUpsert, history
  <2>2. kp \in MaybePeer BY <1>0 DEF Goroutine, NewPeer, MaybePeer, KnownPeer
  <2>3. Held(r.n, r.m, kp, added, allowedOnce)
    BY <1>0, <2>1 DEF SlotOK, ClientOK, Held, HeldButWe, NewPeer
  <2>4. pc \in {"fresh", "auth"} OBVIOUS
  <2> HIDE DEF pc
  <2>5. s \in Goroutine BY <1>0, <2>4, ZenonT(60) DEF Goroutine
  <2>6. /\ s.pc = pc /\ s.spc = r.spc /\ s.n = r.n /\ s.m = r.m /\ s.confirmed = r.confirmed
        /\ s.copy = r.copy /\ s.kp = r.kp /\ s.skp = r.skp /\ s.sBlocked = r.sBlocked
        /\ s.info = r.info /\ s.answer = r.answer
    BY <1>0 DEF Goroutine
  <2> HIDE DEF s, kp
  <2>7. SlotOK(s, added, allowedOnce, blocked)
    BY <1>0, <2>1, <2>4, <2>6, Zenon DEF SlotOK, CopiesOK, ClientOK, ServerOK, AnswerOK
  <2> QED BY <1>0, <2>1, <2>2, <2>3, <2>5, <2>7, Upserts, Zenon
<1>4. CASE AddFresh(i)
  <2> DEFINE kp == peers[r.n][r.m]
             s == [Run("dial", r.n, r.m) EXCEPT !.copy = kp]
  <2>1. r.pc = "fresh" /\ Continue(i, s) /\ UNCHANGED <<confVars, authVars, history>>
    BY <1>4 DEF AddFresh
  <2>2. kp \in MaybePeer /\ Held(r.n, r.m, kp, added, allowedOnce) BY <1>0, PeerFacts
  <2>3. <<r.n, r.m>> \in added BY <1>0, <2>1 DEF SlotOK, ClientOK
  <2> HIDE DEF kp
  <2>4. s \in Goroutine BY <1>0, <2>2, ZenonT(60) DEF Run, Goroutine, Answers, MaybePeer
  <2>5. SlotOK(s, added, allowedOnce, blocked)
    BY <2>2, <2>3 DEF Run, SlotOK, CopiesOK, ClientOK, ServerOK, AnswerOK, Held, HeldButWe
  <2> HIDE DEF s
  <2> QED BY <2>1, <2>4, <2>5, OnlySlot
<1> QED BY <1>1, <1>2, <1>3, <1>4, Zenon DEF AddPeer

\* BlockPeer, the writing of settings and the choice of an exit node.
LEMMA SettingsKeep ==
    ASSUME ConsentInv, NEW i \in Slots,
           BlockPeer(i) \/ SettingsWrite(i) \/ SetProxyPeerID(i) \/ ProxySave(i)
    PROVE  ConsentInv'
<1> DEFINE r == g[i]
<1>0. /\ r \in Goroutine /\ r.n \in Nodes /\ r.m \in Nodes
      /\ SlotOK(r, added, allowedOnce, blocked)
  BY SlotFacts, SMTT(30)
<1>1. CASE BlockPeer(i)
  <2>1. UNCHANGED <<peers, using, ingoing, outgoing, added, allowedOnce>>
    BY <1>1 DEF BlockPeer, authVars, history
  <2>2. blocked' \in [Nodes -> SUBSET Nodes] /\ r.m \in blocked'[r.n]
    BY <1>0, <1>1 DEF BlockPeer, ConsentInv, Typed
  <2>3. Grows(added, allowedOnce, blocked, added', allowedOnce', blocked')
    BY <1>0, <1>1, <2>1 DEF BlockPeer, ConsentInv, Typed, Grows
  <2>4. SlotOK(r, added', allowedOnce', blocked') BY <1>0, <2>3, SlotGrows
  <2>5. Moved(r, "dial", added', allowedOnce', blocked') BY <1>1, <2>2 DEF BlockPeer, Moved
  <2>6. Continue(i, [r EXCEPT !.pc = "dial"]) BY <1>1 DEF BlockPeer
  <2>7. g' \in [Slots -> Goroutine] /\ SlotsOK'
    BY <1>0, <2>3, <2>4, <2>5, <2>6, MovedOK, Continues, Zenon DEF ConsentInv
  <2>8. saved' \in [Nodes -> Nodes \cup {Nobody}] /\ ProxyOK'
    BY <1>0, <1>1, <2>1, Zenon DEF BlockPeer, Save, ConsentInv, Typed, ProxyOK
  <2> QED BY <2>1, <2>2, <2>7, <2>8, Zenon DEF ConsentInv, Typed, PeersOK, AuthsOK
<1>2. CASE SettingsWrite(i)
  <2>1. /\ r.pc = "write" /\ UpsertPeer(r.n, r.m, r.copy) /\ Continue(i, [r EXCEPT !.pc = "dial"])
        /\ UNCHANGED <<authVars, added>> /\ allowedOnce \subseteq allowedOnce'
        /\ r.copy.we => <<r.n, r.m>> \in allowedOnce'
    BY <1>2 DEF SettingsWrite
  <2>2. Grows(added, allowedOnce, blocked, added, allowedOnce', blocked) BY <2>1 DEF Grows
  <2>3. SlotOK(r, added, allowedOnce', blocked) BY <1>0, <2>2, SlotGrows
  <2>4. Moved(r, "dial", added, allowedOnce', blocked) BY <2>1 DEF Moved
  <2>5. r.copy \in MaybePeer BY <1>0 DEF Goroutine
  <2>6. Held(r.n, r.m, r.copy, added', allowedOnce')
    BY <2>1, <2>3 DEF SlotOK, CopiesOK, Held, HeldButWe
  <2> QED BY <1>0, <2>1, <2>3, <2>4, <2>5, <2>6, MovedOK, Upserts, SMTT(30)
<1>3. CASE SetProxyPeerID(i)
  <2>1. /\ r.pc = "choose" /\ Continue(i, [r EXCEPT !.pc = "save"])
        /\ UNCHANGED <<peers, blocked, saved, ingoing, outgoing, added, allowedOnce>>
    BY <1>3 DEF SetProxyPeerID, authVars, history
  <2>2. Grows(added, allowedOnce, blocked, added', allowedOnce', blocked') BY <2>1 DEF Grows
  <2>3. Moved(r, "save", added', allowedOnce', blocked') BY <2>1 DEF Moved
  <2>4. g' \in [Slots -> Goroutine] /\ SlotsOK'
    BY <1>0, <2>1, <2>2, <2>3, MovedOK, Continues DEF ConsentInv
  <2>5. <<r.m, r.n>> \in allowedOnce BY <1>0, <2>1 DEF SlotOK, ClientOK
  <2>6. using' \in [Nodes -> Nodes \cup {Nobody}] /\ ProxyOK'
    BY <1>0, <1>3, <2>1, <2>5, Zenon DEF SetProxyPeerID, ConsentInv, Typed, ProxyOK
  <2> QED BY <2>1, <2>4, <2>6 DEF ConsentInv, Typed, PeersOK, AuthsOK
<1>4. CASE ProxySave(i)
  <2>1. /\ r.pc = "save" /\ Continue(i, [r EXCEPT !.pc = "end"])
        /\ UNCHANGED <<peers, blocked, using, ingoing, outgoing, added, allowedOnce>>
    BY <1>4 DEF ProxySave, authVars, history
  <2>2. Grows(added, allowedOnce, blocked, added', allowedOnce', blocked') BY <2>1 DEF Grows
  <2>3. Moved(r, "end", added', allowedOnce', blocked') BY <2>1 DEF Moved
  <2>4. g' \in [Slots -> Goroutine] /\ SlotsOK'
    BY <1>0, <2>1, <2>2, <2>3, MovedOK, Continues DEF ConsentInv
  <2>5. saved' \in [Nodes -> Nodes \cup {Nobody}] /\ ProxyOK'
    BY <1>0, <1>4, <2>1, Zenon DEF ProxySave, Save, ConsentInv, Typed, ProxyOK
  <2> QED BY <2>1, <2>4, <2>5 DEF ConsentInv, Typed, PeersOK, AuthsOK
<1> QED BY <1>1, <1>2, <1>3, <1>4, Zenon

-----------------------------------------------------------------------------
\* A step that changes one slot and the requests.
LEMMA Requests ==
    ASSUME ConsentInv, NEW i \in Slots, NEW r \in Goroutine, Continue(i, r),
           UNCHANGED <<confVars, history>>, SlotOK(r, added, allowedOnce, blocked),
           ingoing' \in [Nodes -> SUBSET Nodes], outgoing' \in [Nodes -> SUBSET Nodes], AuthsOK'
    PROVE  ConsentInv'
<1>0. UNCHANGED <<peers, blocked, using, saved, added, allowedOnce>> BY DEF confVars, history
<1>1. Grows(added, allowedOnce, blocked, added', allowedOnce', blocked') BY <1>0 DEF Grows
<1>2. SlotOK(r, added', allowedOnce', blocked') BY <1>0
<1>3. g' \in [Slots -> Goroutine] /\ SlotsOK' BY <1>1, <1>2, Continues DEF ConsentInv
<1> QED BY <1>0, <1>3 DEF ConsentInv, Typed, PeersOK, ProxyOK

\* SendAuthRequest only runs for peers this node has added.
LEMMA SendAuthRequestKeeps ==
    ASSUME ConsentInv, NEW i \in Slots, SendAuthRequest(i)
    PROVE  ConsentInv'
<1> DEFINE r == g[i]
<1>0. /\ r \in Goroutine /\ r.n \in Nodes /\ r.m \in Nodes
      /\ SlotOK(r, added, allowedOnce, blocked)
  BY SlotFacts
<1>1. CASE AuthStart(i)
  <2>1. /\ r.pc = "auth" /\ Continue(i, [r EXCEPT !.pc = "authOpen"])
        /\ UNCHANGED <<confVars, ingoing, history>>
        /\ outgoing' = [outgoing EXCEPT ![r.n] = @ \cup {r.m}]
    BY <1>1 DEF AuthStart
  <2>2. Moved(r, "authOpen", added, allowedOnce, blocked) BY <2>1 DEF Moved
  <2>3. <<r.n, r.m>> \in added BY <1>0, <2>1 DEF SlotOK, ClientOK
  <2>4. /\ ingoing' \in [Nodes -> SUBSET Nodes] /\ outgoing' \in [Nodes -> SUBSET Nodes]
        /\ AuthsOK'
    BY <1>0, <2>1, <2>3, ZenonT(60) DEF ConsentInv, Typed, AuthsOK, history
  <2> QED BY <1>0, <2>1, <2>2, <2>4, MovedOK, Requests
<1>2. CASE AuthOpen(i)
  <2> DEFINE s == [r EXCEPT !.pc = "authWait", !.spc = "auth"]
  <2>1. /\ r.pc = "authOpen" /\ UNCHANGED <<confVars, authVars, history>>
        /\ Continue(i, AuthDone(r)) \/ Continue(i, s)
    BY <1>2 DEF AuthOpen
  <2>2. AuthDone(r) \in Goroutine /\ SlotOK(AuthDone(r), added, allowedOnce, blocked)
    BY <1>0, <2>1, AuthDoneOK
  <2>3. s \in Goroutine BY <1>0, ZenonT(60) DEF Goroutine
  <2>4. /\ s.pc = "authWait" /\ s.spc = "auth" /\ s.n = r.n /\ s.m = r.m
        /\ s.confirmed = r.confirmed /\ s.copy = r.copy /\ s.kp = r.kp /\ s.skp = r.skp
        /\ s.sBlocked = r.sBlocked /\ s.info = r.info /\ s.answer = r.answer
    BY <1>0 DEF Goroutine
  <2> HIDE DEF s
  <2>5. SlotOK(s, added, allowedOnce, blocked)
    BY <1>0, <2>1, <2>4, ZenonT(60) DEF SlotOK, CopiesOK, ClientOK, ServerOK, AnswerOK
  <2> QED BY <2>1, <2>2, <2>3, <2>5, OnlySlot
<1>3. CASE AuthResponse(i)
  <2> DEFINE s == IF r.answer = "declined" THEN [r EXCEPT !.pc = "authGet"] ELSE AuthDone(r)
  <2>1. /\ r.pc = "authWait" /\ r.spc = "none" /\ Continue(i, s)
        /\ UNCHANGED <<confVars, ingoing, history>>
        /\ outgoing' = [outgoing EXCEPT ![r.n] =
                            IF r.answer \in {"known", "declined"} THEN @ \ {r.m} ELSE @]
    BY <1>3 DEF AuthResponse
  <2>2. Moved(r, "authGet", added, allowedOnce, blocked) BY <2>1 DEF Moved
  <2>3. s \in Goroutine /\ SlotOK(s, added, allowedOnce, blocked)
    BY <1>0, <2>1, <2>2, MovedOK, AuthDoneOK
  <2>4. /\ ingoing' \in [Nodes -> SUBSET Nodes] /\ outgoing' \in [Nodes -> SUBSET Nodes]
        /\ AuthsOK'
    BY <1>0, <2>1 DEF ConsentInv, Typed, AuthsOK, history
  <2> HIDE DEF s
  <2> QED BY <2>1, <2>3, <2>4, Requests, Zenon
<1>4. CASE AuthDeclined(i)
  <2> DEFINE kp == peers[r.n][r.m]
             new == [kp EXCEPT !.declined = TRUE]
             s == [r EXCEPT !.pc = "authPut", !.kp = new]
  <2>1. /\ r.pc = "authGet" /\ UNCHANGED <<confVars, authVars, history>>
        /\ Continue(i, IF kp = Unknown THEN AuthDone(r) ELSE s)
    BY <1>4, SMTT(30) DEF AuthDeclined
  <2>2. AuthDone(r) \in Goroutine /\ SlotOK(AuthDone(r), added, allowedOnce, blocked)
    BY <1>0, <2>1, AuthDoneOK
  <2>3. CASE kp = Unknown BY <2>1, <2>2, <2>3, OnlySlot, SMTT(30)
  <2>4. CASE kp # Unknown
    <3>1. kp \in KnownPeer /\ Held(r.n, r.m, kp, added, allowedOnce)
      BY <1>0, <2>4, PeerFacts, SMTT(30) DEF MaybePeer
    <3>2. /\ new \in KnownPeer /\ new.confirmed = kp.confirmed /\ new.we = kp.we
          /\ new.allowed = kp.allowed
      BY <3>1, ZenonT(60) DEF KnownPeer
    <3>3. Held(r.n, r.m, new, added, allowedOnce) BY <2>4, <3>1, <3>2, Zenon DEF Held, HeldButWe
    <3> HIDE DEF new
    <3>4. s \in Goroutine BY <1>0, <3>2, ZenonT(60) DEF Goroutine, MaybePeer
    <3>5. /\ s.pc = "authPut" /\ s.spc = r.spc /\ s.n = r.n /\ s.m = r.m
          /\ s.confirmed = r.confirmed /\ s.copy = r.copy /\ s.kp = new /\ s.skp = r.skp
          /\ s.sBlocked = r.sBlocked /\ s.info = r.info /\ s.answer = r.answer
      BY <1>0 DEF Goroutine
    <3> HIDE DEF s, kp
    <3>6. SlotOK(s, added, allowedOnce, blocked)
      BY <1>0, <2>1, <3>3, <3>5, Zenon DEF SlotOK, CopiesOK, ClientOK, ServerOK, AnswerOK
    <3> QED BY <2>1, <2>4, <3>4, <3>6, OnlySlot, SMTT(30)
  <2> QED BY <2>3, <2>4, SMTT(30)
<1>5. CASE AuthUpsert(i)
  <2>1. /\ r.pc = "authPut" /\ UpsertPeer(r.n, r.m, r.kp) /\ Continue(i, AuthDone(r))
        /\ UNCHANGED <<authVars, added, allowedOnce>>
    BY <1>5, SMTT(30) DEF AuthUpsert, history
  <2>2. AuthDone(r) \in Goroutine /\ SlotOK(AuthDone(r), added, allowedOnce, blocked)
    BY <1>0, <2>1, AuthDoneOK, SMTT(30)
  <2>3. r.kp \in MaybePeer /\ Held(r.n, r.m, r.kp, added, allowedOnce)
    BY <1>0 DEF Goroutine, SlotOK, CopiesOK
  <2> QED BY <1>0, <2>1, <2>2, <2>3, Upserts, ZenonT(60)
<1> QED BY <1>1, <1>2, <1>3, <1>4, <1>5 DEF SendAuthRequest

\* AuthStreamHandler: a request that is kept, or accepted, was sent by a peer
\* that has added this node.
LEMMA AuthStreamHandlerKeeps ==
    ASSUME ConsentInv, NEW i \in Slots, AuthStreamHandler(i)
    PROVE  ConsentInv'
<1> DEFINE r == g[i]
<1>0. /\ r \in Goroutine /\ r.n \in Nodes /\ r.m \in Nodes
      /\ SlotOK(r, added, allowedOnce, blocked)
  BY SlotFacts
<1>1. CASE AuthReceive(i)
  <2> DEFINE skp == peers[r.m][r.n]
             blk == r.n \in blocked[r.m]
             s == [r EXCEPT !.spc = "judged", !.skp = skp, !.sBlocked = blk]
  <2>1. r.spc = "auth" /\ Continue(i, s) /\ UNCHANGED <<confVars, authVars, history>>
    BY <1>1, SMTT(30) DEF AuthReceive
  <2>2. /\ skp \in MaybePeer /\ Held(r.m, r.n, skp, added, allowedOnce)
        /\ blk \in BOOLEAN
    BY <1>0, PeerFacts
  <2> HIDE DEF skp, blk
  <2>3. s \in Goroutine BY <1>0, <2>2, ZenonT(60) DEF Goroutine
  <2>4. /\ s.pc = r.pc /\ s.spc = "judged" /\ s.n = r.n /\ s.m = r.m
        /\ s.confirmed = r.confirmed /\ s.copy = r.copy /\ s.kp = r.kp /\ s.skp = skp
        /\ s.info = r.info /\ s.answer = r.answer
    BY <1>0 DEF Goroutine
  <2> HIDE DEF s
  <2>5. SlotOK(s, added, allowedOnce, blocked)
    BY <1>0, <2>1, <2>2, <2>4, Zenon DEF SlotOK, CopiesOK, ClientOK, ServerOK, AnswerOK
  <2> QED BY <2>1, <2>3, <2>5, OnlySlot
<1>2. CASE AuthAnswer(i)
  <2> DEFINE new == r.skp = Unknown /\ ~r.sBlocked
             ans == Reply(r, CASE r.sBlocked -> "declined" [] new -> "pending" [] OTHER -> "known")
             s == [r EXCEPT !.spc = "none", !.skp = Unknown, !.sBlocked = FALSE, !.answer = ans]
             add == [Run("add", r.m, r.n) EXCEPT !.confirmed = TRUE]
  <2>1. /\ r.spc = "judged" /\ UNCHANGED <<confVars, outgoing, history>>
        /\ IF new /\ r.m \in AutoAccept
           THEN /\ \E j \in Goroutines : g' = [g EXCEPT ![i] = s, ![j] = add]
                /\ UNCHANGED ingoing
           ELSE /\ Continue(i, s)
                /\ ingoing' = [ingoing EXCEPT ![r.m] = IF new THEN @ \cup {r.n} ELSE @]
    BY <1>2, SMTT(30) DEF AuthAnswer
  <2>2. <<r.n, r.m>> \in added /\ r.pc \in {"authWait", "end"} BY <1>0, <2>1 DEF SlotOK, ServerOK
  <2>3. ans \in {"broken", "declined", "pending", "known"} BY DEF Reply
  <2> HIDE DEF ans
  <2>4. s \in Goroutine
    <3>1. ans \in Answers /\ Unknown \in MaybePeer BY <2>3 DEF Answers, MaybePeer
    <3> QED BY <1>0, <3>1, Zenon DEF Goroutine
  <2>5. /\ s.pc = r.pc /\ s.spc = "none" /\ s.n = r.n /\ s.m = r.m
        /\ s.confirmed = r.confirmed /\ s.copy = r.copy /\ s.kp = r.kp /\ s.skp = Unknown
        /\ s.info = r.info /\ s.answer = ans
    BY <1>0 DEF Goroutine
  <2> HIDE DEF s, new
  <2>6. SlotOK(s, added, allowedOnce, blocked)
    BY <1>0, <2>2, <2>3, <2>5, ZenonT(60) DEF SlotOK, CopiesOK, ClientOK, ServerOK, AnswerOK, Held, HeldButWe
  <2>7. add \in Goroutine BY <1>0, ZenonT(60) DEF Run, Goroutine, Answers, MaybePeer
  <2>8. SlotOK(add, added, allowedOnce, blocked)
    BY <2>2 DEF Run, SlotOK, CopiesOK, ClientOK, ServerOK, AnswerOK, Held, HeldButWe
  <2> HIDE DEF add
  <2>9. CASE new /\ r.m \in AutoAccept
    <3>1. PICK j \in Goroutines : g' = [g EXCEPT ![i] = s, ![j] = add] BY <2>1, <2>9
    <3>2. j \in Slots BY DEF Slots
    <3>3. g \in [Slots -> Goroutine] BY DEF ConsentInv, Typed
    <3>4. \A k \in Slots : g'[k] \in {g[k], s, add} BY <3>1, <3>2, <3>3
    <3>5. g' \in [Slots -> Goroutine] BY <2>4, <2>7, <3>1, <3>2, <3>3, SMTT(30)
    <3>6. UNCHANGED <<peers, blocked, using, saved, ingoing, outgoing, added, allowedOnce>>
      BY <2>1, <2>9, SMTT(30) DEF confVars, history
    <3>7. SlotsOK' BY <2>6, <2>8, <3>4, <3>6, SMTT(30) DEF ConsentInv, SlotsOK
    <3> QED BY <3>5, <3>6, <3>7, SMTT(30) DEF ConsentInv, Typed, PeersOK, AuthsOK, ProxyOK
  <2>10. CASE ~(new /\ r.m \in AutoAccept)
    <3> DEFINE kept == IF new THEN ingoing[r.m] \cup {r.n} ELSE ingoing[r.m]
    <3>1. ingoing' = [ingoing EXCEPT ![r.m] = kept] /\ Continue(i, s)
      BY <2>1, <2>10, SMTT(30)
    <3>2. ingoing \in [Nodes -> SUBSET Nodes] /\ outgoing' \in [Nodes -> SUBSET Nodes]
      BY <2>1, SMTT(30) DEF ConsentInv, Typed
    <3>3. kept \subseteq Nodes /\ \A m \in kept : <<m, r.m>> \in added
      BY <1>0, <2>2, <3>2, SMTT(30) DEF ConsentInv, AuthsOK
    <3> HIDE DEF kept
    <3>4. ingoing' \in [Nodes -> SUBSET Nodes] BY <1>0, <3>1, <3>2, <3>3, SMTT(30)
    <3>5. AuthsOK' BY <1>0, <2>1, <3>1, <3>2, <3>3 DEF ConsentInv, AuthsOK, history
    <3> QED BY <2>1, <2>4, <2>6, <3>1, <3>2, <3>4, <3>5, Requests, SMTT(30)
  <2> QED BY <2>9, <2>10
<1> QED BY <1>1, <1>2 DEF AuthStreamHandler

\* A broken stream gives no consent.
LEMMA StreamBreaksKeeps ==
    ASSUME ConsentInv, NEW i \in Slots, StreamBreaks(i)
    PROVE  ConsentInv'
<1> DEFINE r == g[i]
           lost == [r EXCEPT !.answer = "broken", !.spc = "none", !.skp = Unknown, !.sBlocked = FALSE]
           mute == [r EXCEPT !.answer = "broken"]
<1>0. r \in Goroutine /\ SlotOK(r, added, allowedOnce, blocked) BY SlotFacts
<1>1. /\ r.pc \in {"authWait", "wait"} /\ UNCHANGED <<confVars, authVars, history>>
      /\ Continue(i, lost) \/ Continue(i, mute)
  BY DEF StreamBreaks
<1>2. lost \in Goroutine /\ mute \in Goroutine
  <2>1. "broken" \in Answers /\ Unknown \in MaybePeer BY DEF Answers, MaybePeer
  <2> QED BY <1>0, <2>1, ZenonT(60) DEF Goroutine
<1>3. ASSUME NEW s \in {lost, mute} PROVE SlotOK(s, added, allowedOnce, blocked)
  <2>1. /\ s.pc = r.pc /\ s.n = r.n /\ s.m = r.m /\ s.confirmed = r.confirmed
        /\ s.copy = r.copy /\ s.kp = r.kp /\ s.info = r.info /\ s.answer = "broken"
        /\ \/ s.spc = "none" /\ s.skp = Unknown
           \/ s.spc = r.spc /\ s.skp = r.skp /\ s.sBlocked = r.sBlocked
    BY <1>0, ZenonT(60) DEF Goroutine
  <2> QED BY <1>0, <1>1, <2>1
          DEF SlotOK, CopiesOK, ClientOK, ServerOK, AnswerOK, Held, HeldButWe
<1> HIDE DEF lost, mute
<1> QED BY <1>1, <1>2, <1>3, OnlySlot, SMTT(30)

-----------------------------------------------------------------------------
\* processPeerStatusInfo makes of a copy one that may be held, if the message
\* is from a peer that consents to what it says.
LEMMA ProcessedOK ==
    ASSUME NEW A, NEW L, NEW n, NEW m, NEW kp \in MaybePeer, Held(n, m, kp, A, L),
           NEW info, info = "declined" \/ <<m, n>> \in A, info = "allow" => <<m, n>> \in L
    PROVE  Processed(kp, info) \in MaybePeer /\ Held(n, m, Processed(kp, info), A, L)
<1>1. CASE kp = Unknown BY <1>1 DEF Processed, MaybePeer, Held, HeldButWe
<1>2. CASE kp # Unknown /\ info = "declined"
  <2> DEFINE new == [kp EXCEPT !.declined = TRUE]
  <2>1. kp \in KnownPeer /\ Processed(kp, info) = new BY <1>2 DEF MaybePeer, Processed
  <2>2. /\ new \in KnownPeer /\ new.confirmed = kp.confirmed /\ new.we = kp.we
        /\ new.allowed = kp.allowed
    BY <2>1, Zenon DEF KnownPeer
  <2> HIDE DEF new
  <2> QED BY <1>2, <2>1, <2>2 DEF MaybePeer, Held, HeldButWe
<1>3. CASE kp # Unknown /\ info # "declined"
  <2> DEFINE allow == info = "allow"
             new == [kp EXCEPT !.confirmed = TRUE, !.declined = FALSE, !.allowed = allow]
  <2>1. kp \in KnownPeer /\ Processed(kp, info) = new BY <1>3 DEF MaybePeer, Processed
  <2>2. allow \in BOOLEAN /\ (allow => <<m, n>> \in L) OBVIOUS
  <2> HIDE DEF allow
  <2>3. /\ new \in KnownPeer /\ new.we = kp.we /\ new.allowed = allow
    BY <2>1, <2>2, ZenonT(60) DEF KnownPeer
  <2> HIDE DEF new
  <2> QED BY <1>3, <2>1, <2>2, <2>3 DEF MaybePeer, Held, HeldButWe
<1> QED BY <1>1, <1>2, <1>3

\* The exit node it chooses has allowed it.
LEMMA Chooses ==
    ASSUME ConsentInv, NEW n \in Nodes, NEW m \in Nodes, NEW kp, NEW info,
           using' = [using EXCEPT ![n] = Chosen(n, m, kp, info)],
           info = "allow" => <<m, n>> \in allowedOnce,
           UNCHANGED <<peers, blocked, saved, authVars, history>>,
           NEW i \in Slots, NEW r \in Goroutine, Continue(i, r),
           SlotOK(r, added, allowedOnce, blocked)
    PROVE  ConsentInv'
<1>0. UNCHANGED <<peers, blocked, saved, ingoing, outgoing, added, allowedOnce>>
  BY SMTT(30) DEF authVars, history
<1>1. Grows(added, allowedOnce, blocked, added', allowedOnce', blocked') BY <1>0 DEF Grows
<1>2. SlotOK(r, added', allowedOnce', blocked') BY <1>0
<1>3. g' \in [Slots -> Goroutine] /\ SlotsOK' BY <1>1, <1>2, Continues DEF ConsentInv
<1>4. \/ Chosen(n, m, kp, info) = m /\ info = "allow"
      \/ Chosen(n, m, kp, info) \in {Nobody, using[n]}
  BY DEF Chosen
<1>5. using' \in [Nodes -> Nodes \cup {Nobody}] BY <1>4 DEF ConsentInv, Typed
<1>6. ProxyOK' BY <1>0, <1>4, ZenonT(60) DEF ConsentInv, Typed, ProxyOK
<1> QED BY <1>0, <1>3, <1>5, <1>6 DEF ConsentInv, Typed, PeersOK, AuthsOK

\* What createPeerInfo says of a peer that is blocked, allowed or neither.
LEMMA InfoOK ==
    ASSUME NEW A, NEW L, NEW n, NEW m, NEW kp, Held(n, m, kp, A, L),
           NEW declined \in BOOLEAN, declined \/ <<n, m>> \in A
    PROVE  /\ createPeerInfo(kp, declined) \in {"declined", "allow", "deny"}
           /\ createPeerInfo(kp, declined) = "declined" \/ <<n, m>> \in A
           /\ createPeerInfo(kp, declined) = "allow" => <<n, m>> \in L
BY Zenon DEF createPeerInfo, Held, HeldButWe

\* ExchangeNewStatusInfo: what n tells m, and what it makes of the answer.
LEMMA ExchangeKeeps ==
    ASSUME ConsentInv, NEW i \in Slots, ExchangeNewStatusInfo(i)
    PROVE  ConsentInv'
<1> DEFINE r == g[i]
<1>0. /\ r \in Goroutine /\ r.n \in Nodes /\ r.m \in Nodes
      /\ SlotOK(r, added, allowedOnce, blocked)
  BY SlotFacts, Zenon
<1>1. CASE StatusStart(i)
  <2>1. /\ r.pc = "dial" /\ Continue(i, [r EXCEPT !.pc = "open"])
        /\ UNCHANGED <<confVars, outgoing, history>>
        /\ ingoing' = [ingoing EXCEPT ![r.n] = @ \ {r.m}]
    BY <1>1, Zenon DEF StatusStart
  <2>2. Moved(r, "open", added, allowedOnce, blocked) BY <2>1, Zenon DEF Moved
  <2>3. /\ ingoing' \in [Nodes -> SUBSET Nodes] /\ outgoing' \in [Nodes -> SUBSET Nodes]
        /\ AuthsOK'
    BY <1>0, <2>1, Zenon DEF ConsentInv, Typed, AuthsOK, history
  <2> QED BY <1>0, <2>1, <2>2, <2>3, MovedOK, Requests, Zenon
<1>2. CASE StatusOpen(i)
  <2> DEFINE isBlocked == r.m \in blocked[r.n]
             info == createPeerInfo(r.copy, isBlocked)
             s == [r EXCEPT !.pc = "wait", !.spc = "status", !.isBlocked = isBlocked,
                            !.copy = Unknown, !.info = info]
  <2>1. /\ r.pc = "open" /\ UNCHANGED <<confVars, authVars, history>>
        /\ Continue(i, [r EXCEPT !.pc = "end"]) \/ Continue(i, s)
    BY <1>2, Zenon DEF StatusOpen
  <2>2. Moved(r, "end", added, allowedOnce, blocked) BY <2>1, Zenon DEF Moved
  <2>3. isBlocked \in BOOLEAN /\ (isBlocked \/ <<r.n, r.m>> \in added)
    BY <1>0, <2>1, SMTT(30) DEF SlotOK, ClientOK
  <2>4. Held(r.n, r.m, r.copy, added, allowedOnce) BY <1>0, <2>1, Zenon DEF SlotOK, CopiesOK
  <2> HIDE DEF isBlocked
  <2>5. /\ info \in {"declined", "allow", "deny"}
        /\ info = "declined" \/ <<r.n, r.m>> \in added
        /\ info = "allow" => <<r.n, r.m>> \in allowedOnce
    BY <2>3, <2>4, InfoOK, ZenonT(60)
  <2> HIDE DEF info
  <2>6. s \in Goroutine
    <3>1. info \in Answers /\ Unknown \in MaybePeer BY <2>5, Zenon DEF Answers, MaybePeer
    <3> QED BY <1>0, <2>3, <3>1, ZenonT(60) DEF Goroutine
  <2>7. /\ s.pc = "wait" /\ s.spc = "status" /\ s.n = r.n /\ s.m = r.m
        /\ s.confirmed = r.confirmed /\ s.copy = Unknown /\ s.kp = r.kp /\ s.skp = r.skp
        /\ s.info = info /\ s.answer = r.answer
    BY <1>0, Zenon DEF Goroutine
  <2> HIDE DEF s
  <2>8. SlotOK(s, added, allowedOnce, blocked)
    BY <1>0, <2>1, <2>5, <2>7
       DEF SlotOK, CopiesOK, ClientOK, ServerOK, AnswerOK, Held, HeldButWe
  <2> QED BY <1>0, <2>1, <2>2, <2>6, <2>8, MovedOK, OnlySlot, Zenon
<1>3. CASE ExchangeAnswered(i)
  <2> DEFINE pc == IF r.answer = "broken" \/ r.isBlocked THEN "end" ELSE "get"
  <2>1. /\ r.pc = "wait" /\ r.answer # "none" /\ Continue(i, [r EXCEPT !.pc = pc])
        /\ UNCHANGED <<confVars, authVars, history>>
    BY <1>3, Zenon DEF ExchangeAnswered
  <2>2. Moved(r, pc, added, allowedOnce, blocked) BY <2>1, Zenon DEF Moved
  <2> HIDE DEF pc
  <2> QED BY <1>0, <2>1, <2>2, MovedOK, OnlySlot, Zenon
<1>4. CASE ExchangeGet(i)
  <2> DEFINE kp == peers[r.n][r.m]
             s == [r EXCEPT !.pc = "put", !.kp = kp]
  <2>1. r.pc = "get" /\ Continue(i, s) /\ UNCHANGED <<confVars, authVars, history>>
    BY <1>4, Zenon DEF ExchangeGet
  <2>2. kp \in MaybePeer /\ Held(r.n, r.m, kp, added, allowedOnce) BY <1>0, PeerFacts, Zenon
  <2> HIDE DEF kp
  <2>3. s \in Goroutine BY <1>0, <2>2, ZenonT(60) DEF Goroutine
  <2>4. /\ s.pc = "put" /\ s.spc = r.spc /\ s.n = r.n /\ s.m = r.m
        /\ s.confirmed = r.confirmed /\ s.copy = r.copy /\ s.kp = kp /\ s.skp = r.skp
        /\ s.sBlocked = r.sBlocked /\ s.info = r.info /\ s.answer = r.answer
    BY <1>0, Zenon DEF Goroutine
  <2> HIDE DEF s
  <2>5. SlotOK(s, added, allowedOnce, blocked)
    BY <1>0, <2>1, <2>2, <2>4, ZenonT(60) DEF SlotOK, CopiesOK, ClientOK, ServerOK, AnswerOK
  <2> QED BY <2>1, <2>3, <2>5, OnlySlot, Zenon
<1>5. CASE ExchangeUpsert(i)
  <2>1. /\ r.pc = "put" /\ UpsertPeer(r.n, r.m, Processed(r.kp, r.answer))
        /\ Continue(i, [r EXCEPT !.pc = "use"]) /\ UNCHANGED <<authVars, added, allowedOnce>>
    BY <1>5, Zenon DEF ExchangeUpsert, history
  <2>2. Moved(r, "use", added, allowedOnce, blocked) BY <2>1, Zenon DEF Moved
  <2>3. /\ r.kp \in MaybePeer /\ Held(r.n, r.m, r.kp, added, allowedOnce)
        /\ r.answer = "declined" \/ <<r.m, r.n>> \in added
        /\ r.answer = "allow" => <<r.m, r.n>> \in allowedOnce
    BY <1>0, <2>1, Zenon DEF Goroutine, SlotOK, CopiesOK, AnswerOK
  <2>4. /\ Processed(r.kp, r.answer) \in MaybePeer
        /\ Held(r.n, r.m, Processed(r.kp, r.answer), added, allowedOnce)
    BY <2>3, ProcessedOK, Zenon
  <2> QED BY <1>0, <2>1, <2>2, <2>4, MovedOK, Upserts, Zenon
<1>6. CASE ExchangeUse(i)
  <2>1. /\ r.pc = "use" /\ Continue(i, [r EXCEPT !.pc = "end"])
        /\ using' = [using EXCEPT ![r.n] = Chosen(r.n, r.m, r.kp, r.answer)]
        /\ UNCHANGED <<peers, blocked, saved, authVars, history>>
    BY <1>6, Zenon DEF ExchangeUse
  <2>2. Moved(r, "end", added, allowedOnce, blocked) BY <2>1, Zenon DEF Moved
  <2>3. r.answer = "allow" => <<r.m, r.n>> \in allowedOnce BY <1>0, Zenon DEF SlotOK, AnswerOK
  <2> QED BY <1>0, <2>1, <2>2, <2>3, MovedOK, Chooses, ZenonT(60)
<1> QED BY <1>1, <1>2, <1>3, <1>4, <1>5, <1>6, Zenon DEF ExchangeNewStatusInfo

\* StatusStreamHandler: the strangers are turned away, so every answer and
\* every write is about a peer this node knows or has blocked.
LEMMA StatusStreamHandlerKeeps ==
    ASSUME ConsentInv, NEW i \in Slots, StatusStreamHandler(i)
    PROVE  ConsentInv'
<1> DEFINE r == g[i]
<1>0. /\ r \in Goroutine /\ r.n \in Nodes /\ r.m \in Nodes
      /\ SlotOK(r, added, allowedOnce, blocked)
  BY SlotFacts, Zenon
<1> DEFINE skp == peers[r.m][r.n]
<1>1. skp \in MaybePeer /\ Held(r.m, r.n, skp, added, allowedOnce) BY <1>0, PeerFacts, Zenon
<1>2. CASE StatusAccept(i)
  <2> DEFINE blk == r.n \in blocked[r.m]
             away == [r EXCEPT !.spc = "none", !.answer = "broken"]
             s == [r EXCEPT !.spc = "known", !.skp = skp, !.sBlocked = blk]
  <2>1. /\ r.spc = "status" /\ UNCHANGED <<confVars, authVars, history>>
        /\ \/ Continue(i, away)
           \/ Continue(i, s) /\ (blk \/ skp # Unknown)
    BY <1>2, Zenon DEF StatusAccept, TurnedAway
  <2>2. blk \in BOOLEAN OBVIOUS
  <2> HIDE DEF skp, blk
  <2>3. away \in Goroutine /\ s \in Goroutine
    <3>1. "broken" \in Answers BY Zenon DEF Answers
    <3> QED BY <1>0, <1>1, <2>2, <3>1, ZenonT(60) DEF Goroutine
  <2>4. /\ away.pc = r.pc /\ away.spc = "none" /\ away.n = r.n /\ away.m = r.m
        /\ away.confirmed = r.confirmed /\ away.copy = r.copy /\ away.kp = r.kp
        /\ away.skp = r.skp /\ away.info = r.info /\ away.answer = "broken"
    BY <1>0, Zenon DEF Goroutine
  <2>5. /\ s.pc = r.pc /\ s.spc = "known" /\ s.n = r.n /\ s.m = r.m
        /\ s.confirmed = r.confirmed /\ s.copy = r.copy /\ s.kp = r.kp /\ s.skp = skp
        /\ s.sBlocked = blk /\ s.info = r.info /\ s.answer = r.answer
    BY <1>0, Zenon DEF Goroutine
  <2> HIDE DEF away, s
  <2>6. SlotOK(away, added, allowedOnce, blocked)
    BY <1>0, <2>1, <2>4, ZenonT(60) DEF SlotOK, CopiesOK, ClientOK, ServerOK, AnswerOK
  <2>7. (blk \/ skp # Unknown) => SlotOK(s, added, allowedOnce, blocked)
    BY <1>0, <1>1, <2>1, <2>5, ZenonT(60) DEF SlotOK, CopiesOK, ClientOK, ServerOK, AnswerOK
  <2> QED BY <2>1, <2>3, <2>6, <2>7, OnlySlot, Zenon
<1>3. CASE StatusAnswer(i)
  <2> DEFINE spc == IF r.sBlocked THEN "none" ELSE "get"
             said == createPeerInfo(r.skp, r.sBlocked)
             ans == Reply(r, said)
             s == [r EXCEPT !.spc = spc, !.skp = Unknown, !.sBlocked = FALSE, !.answer = ans]
  <2>1. /\ r.spc = "known" /\ Continue(i, s) /\ UNCHANGED <<confVars, ingoing, history>>
        /\ outgoing' = [outgoing EXCEPT ![r.m] = @ \ {r.n}]
    BY <1>3, Zenon DEF StatusAnswer
  <2>2. /\ Held(r.m, r.n, r.skp, added, allowedOnce) /\ r.sBlocked \in BOOLEAN
        /\ r.sBlocked \/ <<r.m, r.n>> \in added
    BY <1>0, <2>1, Zenon DEF Goroutine, SlotOK, CopiesOK, ServerOK, Held, HeldButWe
  <2>3. /\ said \in {"declined", "allow", "deny"}
        /\ said = "declined" \/ <<r.m, r.n>> \in added
        /\ said = "allow" => <<r.m, r.n>> \in allowedOnce
    BY <2>2, InfoOK, ZenonT(120)
  <2> HIDE DEF said
  <2>4. ans = said \/ (ans = "broken" /\ r.answer = "broken") BY Zenon DEF Reply
  <2>5. spc \in {"none", "get"} BY Zenon
  <2> HIDE DEF ans, spc
  <2>6. s \in Goroutine
    <3>1. ans \in Answers /\ Unknown \in MaybePeer BY <2>3, <2>4, Zenon DEF Answers, MaybePeer
    <3> QED BY <1>0, <2>5, <3>1, Zenon DEF Goroutine
  <2>7. /\ s.pc = r.pc /\ s.spc = spc /\ s.n = r.n /\ s.m = r.m
        /\ s.confirmed = r.confirmed /\ s.copy = r.copy /\ s.kp = r.kp /\ s.skp = Unknown
        /\ s.info = r.info /\ s.answer = ans
    BY <1>0, Zenon DEF Goroutine
  <2> HIDE DEF s
  <2>8. SlotOK(s, added, allowedOnce, blocked)
    <3>1. CopiesOK(s, added, allowedOnce) BY <1>0, <2>7, ZenonT(60) DEF SlotOK, CopiesOK, Held, HeldButWe
    <3>2. ClientOK(s, added, allowedOnce, blocked) BY <1>0, <2>7, Zenon DEF SlotOK, ClientOK
    <3>3. ServerOK(s, added, allowedOnce) BY <1>0, <2>1, <2>5, <2>7, ZenonT(60) DEF SlotOK, ServerOK
    <3>4. AnswerOK(s, added, allowedOnce)
      BY <1>0, <2>1, <2>3, <2>4, <2>5, <2>7, ZenonT(60) DEF SlotOK, AnswerOK, ServerOK
    <3> QED BY <3>1, <3>2, <3>3, <3>4, Zenon DEF SlotOK
  <2>9. /\ ingoing' \in [Nodes -> SUBSET Nodes] /\ outgoing' \in [Nodes -> SUBSET Nodes]
        /\ AuthsOK'
    BY <1>0, <2>1, ZenonT(60) DEF ConsentInv, Typed, AuthsOK, history
  <2> QED BY <2>1, <2>6, <2>8, <2>9, Requests, Zenon
<1>4. CASE StatusGet(i)
  <2> DEFINE s == [r EXCEPT !.spc = "put", !.skp = skp]
  <2>1. r.spc = "get" /\ Continue(i, s) /\ UNCHANGED <<confVars, authVars, history>>
    BY <1>4, Zenon DEF StatusGet
  <2> HIDE DEF skp
  <2>2. s \in Goroutine BY <1>0, <1>1, ZenonT(60) DEF Goroutine
  <2>3. /\ s.pc = r.pc /\ s.spc = "put" /\ s.n = r.n /\ s.m = r.m
        /\ s.confirmed = r.confirmed /\ s.copy = r.copy /\ s.kp = r.kp /\ s.skp = skp
        /\ s.info = r.info /\ s.answer = r.answer
    BY <1>0, Zenon DEF Goroutine
  <2> HIDE DEF s
  <2>4. SlotOK(s, added, allowedOnce, blocked)
    BY <1>0, <1>1, <2>1, <2>3, ZenonT(60) DEF SlotOK, CopiesOK, ClientOK, ServerOK, AnswerOK
  <2> QED BY <2>1, <2>2, <2>4, OnlySlot, Zenon
<1>5. CASE StatusUpsert(i)
  <2> DEFINE s == [r EXCEPT !.spc = "use"]
  <2>1. /\ r.spc = "put" /\ UpsertPeer(r.m, r.n, Processed(r.skp, r.info)) /\ Continue(i, s)
        /\ UNCHANGED <<authVars, added, allowedOnce>>
    BY <1>5, Zenon DEF StatusUpsert, history
  <2>2. /\ r.skp \in MaybePeer /\ Held(r.m, r.n, r.skp, added, allowedOnce)
        /\ r.info = "declined" \/ <<r.n, r.m>> \in added
        /\ r.info = "allow" => <<r.n, r.m>> \in allowedOnce
    BY <1>0, <2>1, Zenon DEF Goroutine, SlotOK, CopiesOK, ServerOK
  <2>3. /\ Processed(r.skp, r.info) \in MaybePeer
        /\ Held(r.m, r.n, Processed(r.skp, r.info), added, allowedOnce)
    BY <2>2, ProcessedOK, Zenon
  <2>4. s \in Goroutine BY <1>0, Zenon DEF Goroutine
  <2>5. /\ s.pc = r.pc /\ s.spc = "use" /\ s.n = r.n /\ s.m = r.m
        /\ s.confirmed = r.confirmed /\ s.copy = r.copy /\ s.kp = r.kp /\ s.skp = r.skp
        /\ s.info = r.info /\ s.answer = r.answer
    BY <1>0, Zenon DEF Goroutine
  <2> HIDE DEF s
  <2>6. SlotOK(s, added, allowedOnce, blocked)
    BY <1>0, <2>1, <2>5, ZenonT(60) DEF SlotOK, CopiesOK, ClientOK, ServerOK, AnswerOK
  <2> QED BY <1>0, <2>1, <2>3, <2>4, <2>6, Upserts, Zenon
<1>6. CASE StatusUse(i)
  <2> DEFINE s == [r EXCEPT !.spc = "none", !.skp = Unknown]
  <2>1. /\ r.spc = "use" /\ Continue(i, s)
        /\ using' = [using EXCEPT ![r.m] = Chosen(r.m, r.n, r.skp, r.info)]
        /\ UNCHANGED <<peers, blocked, saved, authVars, history>>
    BY <1>6, Zenon DEF StatusUse
  <2>2. r.info = "allow" => <<r.n, r.m>> \in allowedOnce BY <1>0, Zenon DEF SlotOK, ServerOK
  <2>3. s \in Goroutine BY <1>0, Zenon DEF Goroutine, MaybePeer
  <2>4. /\ s.pc = r.pc /\ s.spc = "none" /\ s.n = r.n /\ s.m = r.m
        /\ s.confirmed = r.confirmed /\ s.copy = r.copy /\ s.kp = r.kp /\ s.skp = Unknown
        /\ s.info = r.info /\ s.answer = r.answer
    BY <1>0, Zenon DEF Goroutine
  <2> HIDE DEF s
  <2>5. SlotOK(s, added, allowedOnce, blocked)
    BY <1>0, <2>4, ZenonT(120) DEF SlotOK, CopiesOK, ClientOK, ServerOK, AnswerOK, Held, HeldButWe
  <2> QED BY <1>0, <2>1, <2>2, <2>3, <2>5, Chooses, Zenon
<1> QED BY <1>2, <1>3, <1>4, <1>5, <1>6, Zenon DEF StatusStreamHandler

-----------------------------------------------------------------------------
\* At the start nothing is recorded.
LEMMA ConsentInit == Init => ConsentInv
<1> SUFFICES ASSUME Init PROVE ConsentInv BY Zenon
<1>1. Typed BY FreeOK, Zenon DEF Init, Typed, MaybePeer
<1>2. PeersOK /\ AuthsOK /\ ProxyOK BY Zenon DEF Init, PeersOK, AuthsOK, ProxyOK, Held, HeldButWe
<1>3. SlotsOK BY FreeOK, Zenon DEF Init, SlotsOK
<1> QED BY <1>1, <1>2, <1>3, Zenon DEF ConsentInv

\* Every step keeps the invariant.
LEMMA ConsentStep == ConsentInv /\ [Next]_vars => ConsentInv'
<1> SUFFICES ASSUME ConsentInv, [Next]_vars PROVE ConsentInv' BY Zenon
<1>1. CASE Api
  BY <1>1, ApiKeeps, RemoveKeeps, ClearKeeps, RestartKeeps, Zenon DEF Api
<1>2. CASE \E n, m \in Nodes : \/ BackgroundRetryAuthRequests(n, m) \/ onPeerConnected(n, m)
                               \/ BackgroundExchangeStatusInfo(n, m)
  BY <1>2, EventsKeep, Zenon
<1>3. ASSUME NEW i \in Slots, Client(i) PROVE ConsentInv'
  BY <1>3, AddPeerKeeps, SettingsKeep, SendAuthRequestKeeps, ExchangeKeeps, Zenon DEF Client
<1>4. ASSUME NEW i \in Slots, Server(i) PROVE ConsentInv'
  BY <1>4, AuthStreamHandlerKeeps, StatusStreamHandlerKeeps, Zenon DEF Server
<1>5. ASSUME NEW i \in Slots, StreamBreaks(i) PROVE ConsentInv'
  BY <1>5, StreamBreaksKeeps, Zenon
<1>6. CASE UNCHANGED vars
  BY <1>6, Zenon DEF vars, confVars, authVars, history, ConsentInv, Typed, PeersOK, AuthsOK, ProxyOK, SlotsOK
<1> QED BY <1>1, <1>2, <1>3, <1>4, <1>5, <1>6, Zenon DEF Next

\* Whatever is lost, late or restarted, no peer is ever recorded as confirmed
\* (by processPeerStatusInfo or by AddPeer) that has not added this node.
THEOREM ConfirmationNeedsConsent == Spec => []ConfirmedConsented
<1>1. ConsentInv => ConfirmedConsented
  BY Zenon DEF ConsentInv, PeersOK, Held, HeldButWe, ConfirmedConsented
<1> QED BY <1>1, ConsentInit, ConsentStep, PTL DEF Spec

\* The SOCKS5 proxy never points to a peer that has not allowed it.
THEOREM ExitNeedsConsent == Spec => []ExitConsented
<1>1. ConsentInv => ExitConsented BY Zenon DEF ConsentInv, ProxyOK, ExitConsented
<1> QED BY <1>1, ConsentInit, ConsentStep, PTL DEF Spec
-----------------------------------------------------------------------------
\* A goroutine that is about to add a peer does not add its own node.
Stranger(r) == r.pc \in {"add", "unblock"} => r.n # r.m

\* Nobody has added itself, nor is about to.
NotSelf ==
    /\ \A n \in Nodes : <<n, n>> \notin added
    /\ \A i \in Slots : Stranger(g[i])

Counted ==
    /\ ghost \in SUBSET Nodes /\ ops \in 0..MaxOps /\ faults \in 0..MaxFaults
    /\ added \in SUBSET (Nodes \X Nodes) /\ allowedOnce \in SUBSET (Nodes \X Nodes)

TypeInv == ConsentInv /\ NotSelf /\ Counted

\* With the consents, this is what TypeOK says.
LEMMA TypeInvOK == TypeInv => TypeOK
<1> SUFFICES ASSUME TypeInv PROVE TypeOK BY Zenon
<1>1. \A n \in Nodes : peers[n][n] = Unknown
  BY Zenon DEF TypeInv, ConsentInv, PeersOK, Held, HeldButWe, NotSelf
<1> QED BY <1>1, Zenon DEF TypeInv, ConsentInv, Typed, Counted, TypeOK

\* One slot goes on, and the others are left alone.
LEMMA StrangerSet ==
    ASSUME ConsentInv, NotSelf, NEW i \in Slots, NEW r, Stranger(r),
           g' = [g EXCEPT ![i] = r] \/ Continue(i, r), \A n \in Nodes : <<n, n>> \notin added'
    PROVE  NotSelf'
<1>1. g \in [Slots -> Goroutine] BY Zenon DEF ConsentInv, Typed
<1>2. Stranger(Free) BY Zenon DEF Stranger, Free, Run
<1>3. PICK s : g' = [g EXCEPT ![i] = s] /\ Stranger(s) BY <1>2, Zenon DEF Continue
<1>4. ASSUME NEW j \in Slots PROVE Stranger(g'[j]) BY <1>1, <1>3, <1>4, Zenon DEF NotSelf
<1> QED BY <1>4, Zenon DEF NotSelf

\* The same when nothing is added.
LEMMA StrangerMoves ==
    ASSUME ConsentInv, NotSelf, NEW i \in Slots, NEW r, Stranger(r), UNCHANGED added,
           g' = [g EXCEPT ![i] = r] \/ Continue(i, r)
    PROVE  NotSelf'
<1>1. \A n \in Nodes : <<n, n>> \notin added' BY Zenon DEF NotSelf
<1> QED BY <1>1, StrangerSet, Zenon

\* A goroutine is started and nothing is added.
LEMMA StrangerStarts ==
    ASSUME ConsentInv, NotSelf, NEW r, Stranger(r), UNCHANGED added, Go(r)
    PROVE  NotSelf'
<1>1. PICK i \in Goroutines : g' = [g EXCEPT ![i] = r] BY Zenon DEF Go
<1>2. i \in Slots BY Zenon DEF Slots
<1> QED BY <1>1, <1>2, StrangerMoves, Zenon

\* A goroutine started by Run, with other fields than its program counter set.
LEMMA StrangerRuns ==
    ASSUME NEW pc, NEW n, NEW m, pc \in {"add", "unblock"} => n # m
    PROVE  /\ Stranger(Run(pc, n, m)) /\ \A c : Stranger([Run(pc, n, m) EXCEPT !.confirmed = c])
           /\ \A kp : Stranger([Run(pc, n, m) EXCEPT !.copy = kp])
           /\ \A kp, t : Stranger([Run(pc, n, m) EXCEPT !.copy = kp, !.then = t])
BY Zenon DEF Stranger, Run

\* AuthDone does not go on with adding.
LEMMA StrangerDone ==
    ASSUME NEW r \in Goroutine
    PROVE  Stranger(AuthDone(r))
<1>1. r.then = "none" \/ r.then = "fresh" \/ r.then = "copy" BY Zenon DEF Goroutine
<1>2. PICK pc \in {"end", "fresh", "dial"} : AuthDone(r) = [Run(pc, r.n, r.m) EXCEPT !.copy = r.copy]
  BY <1>1, Zenon DEF AuthDone
<1>3. Stranger([Run(pc, r.n, r.m) EXCEPT !.copy = r.copy]) BY Zenon DEF Stranger, Run
<1> QED BY <1>2, <1>3, Zenon

\* The API and the events keep it: SendFriendRequest and AcceptFriend refuse
\* the ID of the node itself, and nothing else starts with AddPeer.
LEMMA StrangerApi ==
    ASSUME TypeInv, NEW n \in Nodes, NEW m \in Nodes,
           \/ SendFriendRequest(n, m) \/ AcceptFriend(n, m) \/ RemovePeer(n, m)
           \/ \E allow \in BOOLEAN : UpdatePeerSettings(n, m, allow)
           \/ UpdateProxySettings(n, m) \/ ClearProxySettings(n) \/ Restart(n)
           \/ BackgroundRetryAuthRequests(n, m) \/ onPeerConnected(n, m)
           \/ BackgroundExchangeStatusInfo(n, m)
    PROVE  NotSelf'
<1>0. ConsentInv /\ NotSelf BY Zenon DEF TypeInv
<1>1. UNCHANGED added
  BY Zenon DEF SendFriendRequest, AcceptFriend, RemovePeer, UpdatePeerSettings, UpdateProxySettings,
         ClearProxySettings, Restart, BackgroundRetryAuthRequests, onPeerConnected,
         BackgroundExchangeStatusInfo, Tick, User, history
<1>2. CASE SendFriendRequest(n, m)
  BY <1>0, <1>1, <1>2, StrangerRuns, StrangerStarts, Zenon DEF SendFriendRequest
<1>3. CASE AcceptFriend(n, m)
  BY <1>0, <1>1, <1>3, StrangerRuns, StrangerStarts, Zenon DEF AcceptFriend
<1>4. CASE RemovePeer(n, m) \/ UpdateProxySettings(n, m) \/ ClearProxySettings(n)
  <2>1. PICK pc \in {"block", "choose", "save"}, k \in {n, m} : Go(Run(pc, n, k))
    BY <1>4, Zenon DEF RemovePeer, UpdateProxySettings, ClearProxySettings
  <2> QED BY <1>0, <1>1, <2>1, StrangerRuns, StrangerStarts, Zenon
<1>5. CASE \E allow \in BOOLEAN : UpdatePeerSettings(n, m, allow)
  <2>1. PICK kp : Go([Run("write", n, m) EXCEPT !.copy = kp]) BY <1>5, Zenon DEF UpdatePeerSettings
  <2>2. Stranger([Run("write", n, m) EXCEPT !.copy = kp]) BY StrangerRuns, Zenon
  <2> QED BY <1>0, <1>1, <2>1, <2>2, StrangerStarts, Zenon
<1>6. CASE Restart(n)
  <2>1. ASSUME NEW j \in Slots PROVE Stranger(g'[j])
    <3>1. g'[j] = Survivor(g[j], n) BY <1>6, Zenon DEF Restart
    <3>2. g[j] \in Goroutine /\ Stranger(g[j]) BY <1>0, Zenon DEF ConsentInv, Typed, NotSelf
    <3> QED BY <3>1, <3>2 DEF Survivor, Stranger, Goroutine, Free, Run
  <2> QED BY <1>0, <1>1, <2>1, Zenon DEF NotSelf
<1>7. CASE BackgroundRetryAuthRequests(n, m)
  <2>1. <<n, "retry">> \in Slots BY <1>7, Zenon DEF BackgroundRetryAuthRequests, Tick, Slots
  <2>2. g' = [g EXCEPT ![<<n, "retry">>] = Run("auth", n, m)]
    BY <1>7, Zenon DEF BackgroundRetryAuthRequests, Tick
  <2>3. Stranger(Run("auth", n, m)) BY StrangerRuns, Zenon
  <2> QED BY <1>0, <1>1, <2>1, <2>2, <2>3, StrangerMoves, ZenonT(60)
<1>8. CASE BackgroundExchangeStatusInfo(n, m)
  <2> DEFINE r == [Run("dial", n, m) EXCEPT !.copy = peers[n][m]]
  <2>1. <<n, "status">> \in Slots BY <1>8, Zenon DEF BackgroundExchangeStatusInfo, Tick, Slots
  <2>2. g' = [g EXCEPT ![<<n, "status">>] = r] BY <1>8, Zenon DEF BackgroundExchangeStatusInfo, Tick
  <2>3. Stranger(r) BY StrangerRuns, Zenon
  <2> HIDE DEF r
  <2> QED BY <1>0, <1>1, <2>1, <2>2, <2>3, StrangerMoves, Zenon
<1>9. CASE onPeerConnected(n, m)
  <2> DEFINE then == IF peers[n][m] # Unknown THEN "copy" ELSE "none"
             r == [Run("auth", n, m) EXCEPT !.copy = peers[n][m], !.then = then]
             s == [r EXCEPT !.pc = "dial", !.then = "none"]
  <2>1. Go(r) \/ Go(s) BY <1>9, Zenon DEF onPeerConnected
  <2>2. Stranger(r) BY StrangerRuns, Zenon
  <2>3. Stranger(s) BY Zenon DEF Stranger, Run
  <2> HIDE DEF r, s
  <2> QED BY <1>0, <1>1, <2>1, <2>2, <2>3, StrangerStarts, Zenon
<1> QED BY <1>2, <1>3, <1>4, <1>5, <1>6, <1>7, <1>8, <1>9, Zenon

\* AddPeer keeps it: only AddUnblock adds, and it adds a stranger.
LEMMA StrangerAdds ==
    ASSUME TypeInv, NEW i \in Slots, AddPeer(i)
    PROVE  NotSelf' /\ added' \in SUBSET (Nodes \X Nodes)
<1> DEFINE r == g[i]
<1>0. ConsentInv /\ NotSelf /\ added \in SUBSET (Nodes \X Nodes) BY Zenon DEF TypeInv, Counted
<1>1. r \in Goroutine /\ r.n \in Nodes /\ r.m \in Nodes /\ Stranger(r) BY <1>0, SlotFacts, Zenon DEF NotSelf
<1>2. CASE AddCheck(i)
  <2>1. PICK pc \in {"unblock", "end"} : Continue(i, [r EXCEPT !.pc = pc]) BY <1>2, Zenon DEF AddCheck
  <2>2. Stranger([r EXCEPT !.pc = pc]) BY <1>1, <1>2, Zenon DEF AddCheck, Stranger, Goroutine
  <2>3. UNCHANGED added BY <1>2, Zenon DEF AddCheck, history
  <2> QED BY <1>0, <2>1, <2>2, <2>3, StrangerMoves, Zenon
<1>3. CASE AddUnblock(i)
  <2>1. r.n # r.m /\ added' = added \cup {<<r.n, r.m>>} /\ Continue(i, [r EXCEPT !.pc = "upsert"])
    BY <1>1, <1>3, Zenon DEF AddUnblock, Stranger
  <2>2. Stranger([r EXCEPT !.pc = "upsert"]) BY <1>1, Zenon DEF Stranger, Goroutine
  <2>3. \A n \in Nodes : <<n, n>> \notin added' BY <1>0, <2>1, Zenon DEF NotSelf
  <2>4. added' \in SUBSET (Nodes \X Nodes) BY <1>0, <1>1, <2>1
  <2> QED BY <1>0, <2>1, <2>2, <2>3, <2>4, StrangerSet, Zenon
<1>4. CASE AddUpsert(i)
  <2> DEFINE pc == IF r.confirmed THEN "fresh" ELSE "auth"
             s == [r EXCEPT !.pc = pc, !.then = "fresh"]
  <2>1. Continue(i, s) /\ UNCHANGED added BY <1>4, Zenon DEF AddUpsert, history
  <2>2. Stranger(s) BY <1>1, Zenon DEF Stranger, Goroutine
  <2> HIDE DEF s
  <2> QED BY <1>0, <2>1, <2>2, StrangerMoves, Zenon
<1>5. CASE AddFresh(i)
  <2> DEFINE s == [Run("dial", r.n, r.m) EXCEPT !.copy = peers[r.n][r.m]]
  <2>1. Continue(i, s) /\ UNCHANGED added BY <1>5, Zenon DEF AddFresh, history
  <2>2. Stranger(s) BY Zenon DEF Stranger, Run
  <2> HIDE DEF s
  <2> QED BY <1>0, <2>1, <2>2, StrangerMoves, Zenon
<1> QED BY <1>2, <1>3, <1>4, <1>5, Zenon DEF AddPeer

\* The other steps of a goroutine do not lead to adding.
LEMMA StrangerGoesOn ==
    ASSUME TypeInv, NEW i \in Slots,
           \/ BlockPeer(i) \/ SettingsWrite(i) \/ SetProxyPeerID(i) \/ ProxySave(i)
           \/ SendAuthRequest(i) \/ ExchangeNewStatusInfo(i)
    PROVE  NotSelf' /\ UNCHANGED added
<1> DEFINE r == g[i]
<1>0. ConsentInv /\ NotSelf BY Zenon DEF TypeInv
<1>1. r \in Goroutine BY <1>0, SlotFacts, Zenon
<1>2. UNCHANGED added
  BY Zenon DEF BlockPeer, SettingsWrite, SetProxyPeerID, ProxySave, SendAuthRequest, AuthStart, AuthOpen,
         AuthResponse, AuthDeclined, AuthUpsert, ExchangeNewStatusInfo, StatusStart, StatusOpen,
         ExchangeAnswered, ExchangeGet, ExchangeUpsert, ExchangeUse, history
<1>3. ASSUME NEW pc \in {"dial", "save", "end", "authOpen", "authGet", "open", "get", "use"}
      PROVE  Stranger([r EXCEPT !.pc = pc])
  BY <1>1, Zenon DEF Stranger, Goroutine
<1>4. Stranger(AuthDone(r)) BY <1>1, StrangerDone, Zenon
<1>5. CASE BlockPeer(i) \/ SettingsWrite(i) \/ SetProxyPeerID(i) \/ ProxySave(i)
  <2>1. PICK pc \in {"dial", "save", "end"} : Continue(i, [r EXCEPT !.pc = pc])
    BY <1>5, Zenon DEF BlockPeer, SettingsWrite, SetProxyPeerID, ProxySave
  <2> QED BY <1>0, <1>2, <1>3, <2>1, StrangerMoves, Zenon
<1>6. CASE AuthStart(i) \/ StatusStart(i) \/ ExchangeAnswered(i) \/ ExchangeUpsert(i) \/ ExchangeUse(i)
  <2>1. PICK pc \in {"authOpen", "open", "end", "get", "use"} : Continue(i, [r EXCEPT !.pc = pc])
    BY <1>6, Zenon DEF AuthStart, StatusStart, ExchangeAnswered, ExchangeUpsert, ExchangeUse
  <2> QED BY <1>0, <1>2, <1>3, <2>1, StrangerMoves, Zenon
<1>7. CASE AuthOpen(i)
  <2> DEFINE s == [r EXCEPT !.pc = "authWait", !.spc = "auth"]
             done == AuthDone(r)
  <2>1. Continue(i, done) \/ Continue(i, s) BY <1>7, Zenon DEF AuthOpen
  <2>2. Stranger(s) BY <1>1, Zenon DEF Stranger, Goroutine
  <2> HIDE DEF s
  <2> QED BY <1>0, <1>2, <1>4, <2>1, <2>2, StrangerMoves, Zenon
<1>8. CASE AuthResponse(i)
  <2> DEFINE s == IF r.answer = "declined" THEN [r EXCEPT !.pc = "authGet"] ELSE AuthDone(r)
  <2>1. Continue(i, s) BY <1>8, Zenon DEF AuthResponse
  <2>2. Stranger(s) BY <1>3, <1>4, Zenon
  <2> HIDE DEF s
  <2> QED BY <1>0, <1>2, <2>1, <2>2, StrangerMoves, Zenon
<1>9. CASE AuthDeclined(i)
  <2> DEFINE kp == [peers[r.n][r.m] EXCEPT !.declined = TRUE]
             t == [r EXCEPT !.pc = "authPut", !.kp = kp]
             s == IF peers[r.n][r.m] = Unknown THEN AuthDone(r) ELSE t
  <2>1. Continue(i, s) BY <1>9, Zenon DEF AuthDeclined
  <2>2. Stranger(t) BY <1>1, Zenon DEF Stranger, Goroutine
  <2> HIDE DEF t
  <2>3. Stranger(s) BY <1>4, <2>2, Zenon
  <2> HIDE DEF s
  <2> QED BY <1>0, <1>2, <2>1, <2>3, StrangerMoves, Zenon
<1>10. CASE AuthUpsert(i) BY <1>0, <1>2, <1>4, <1>10, StrangerMoves, Zenon DEF AuthUpsert
<1>11. CASE StatusOpen(i)
  <2> DEFINE isBlocked == r.m \in blocked[r.n]
             s == [r EXCEPT !.pc = "wait", !.spc = "status", !.isBlocked = isBlocked,
                            !.copy = Unknown, !.info = createPeerInfo(r.copy, isBlocked)]
             t == [r EXCEPT !.pc = "end"]
  <2>1. Continue(i, s) \/ Continue(i, t) BY <1>11, Zenon DEF StatusOpen
  <2>2. Stranger(s) /\ Stranger(t) BY <1>1, Zenon DEF Stranger, Goroutine
  <2> HIDE DEF s, t
  <2> QED BY <1>0, <1>2, <2>1, <2>2, StrangerMoves, Zenon
<1>12. CASE ExchangeGet(i)
  <2> DEFINE s == [r EXCEPT !.pc = "put", !.kp = peers[r.n][r.m]]
  <2>1. Continue(i, s) BY <1>12, Zenon DEF ExchangeGet
  <2>2. Stranger(s) BY <1>1, Zenon DEF Stranger, Goroutine
  <2> HIDE DEF s
  <2> QED BY <1>0, <1>2, <2>1, <2>2, StrangerMoves, Zenon
<1> QED BY <1>2, <1>5, <1>6, <1>7, <1>8, <1>9, <1>10, <1>11, <1>12, Zenon
        DEF SendAuthRequest, ExchangeNewStatusInfo

\* A goroutine whose handler takes a step stays where it is.
LEMMA StrangerStays ==
    ASSUME ConsentInv, NotSelf, NEW i \in Slots, NEW s, UNCHANGED added, Continue(i, s),
           s.pc = g[i].pc, s.n = g[i].n, s.m = g[i].m
    PROVE  NotSelf'
<1>1. Stranger(s) BY Zenon DEF Stranger, NotSelf
<1> QED BY <1>1, StrangerMoves, Zenon

\* Neither do those of the handlers, but for the request accepted at once: who
\* sent it has added this node, and is another one.
LEMMA StrangerServes ==
    ASSUME TypeInv, NEW i \in Slots, Server(i) \/ StreamBreaks(i)
    PROVE  NotSelf' /\ UNCHANGED added
<1> DEFINE r == g[i]
<1>0. ConsentInv /\ NotSelf BY Zenon DEF TypeInv
<1>1. r \in Goroutine /\ r.n \in Nodes /\ r.m \in Nodes /\ Stranger(r) BY <1>0, SlotFacts, Zenon DEF NotSelf
<1>2. UNCHANGED added
  BY Zenon DEF Server, StreamBreaks, AuthStreamHandler, StatusStreamHandler, AuthReceive, AuthAnswer,
         StatusAccept, StatusAnswer, StatusGet, StatusUpsert, StatusUse, history
<1>3. CASE StreamBreaks(i)
  <2> DEFINE s == [r EXCEPT !.answer = "broken", !.spc = "none", !.skp = Unknown, !.sBlocked = FALSE]
             t == [r EXCEPT !.answer = "broken"]
  <2>1. Continue(i, s) \/ Continue(i, t) BY <1>3, Zenon DEF StreamBreaks
  <2>2. s.pc = r.pc /\ s.n = r.n /\ s.m = r.m /\ t.pc = r.pc /\ t.n = r.n /\ t.m = r.m
    BY <1>1, Zenon DEF Goroutine
  <2> HIDE DEF s, t
  <2> QED BY <1>0, <1>2, <2>1, <2>2, StrangerStays, Zenon
<1>4. CASE AuthReceive(i)
  <2> DEFINE s == [r EXCEPT !.spc = "judged", !.skp = peers[r.m][r.n], !.sBlocked = r.n \in blocked[r.m]]
  <2>1. Continue(i, s) BY <1>4, Zenon DEF AuthReceive
  <2>2. s.pc = r.pc /\ s.n = r.n /\ s.m = r.m BY <1>1, Zenon DEF Goroutine
  <2> HIDE DEF s
  <2> QED BY <1>0, <1>2, <2>1, <2>2, StrangerStays, Zenon
<1>5. CASE AuthAnswer(i)
  <2> DEFINE new == r.skp = Unknown /\ ~r.sBlocked
             answer == Reply(r, CASE r.sBlocked -> "declined" [] new -> "pending" [] OTHER -> "known")
             s == [r EXCEPT !.spc = "none", !.skp = Unknown, !.sBlocked = FALSE, !.answer = answer]
             add == [Run("add", r.m, r.n) EXCEPT !.confirmed = TRUE]
  <2>1. \/ Continue(i, s)
        \/ \E j \in Goroutines : g' = [g EXCEPT ![i] = s, ![j] = add]
    BY <1>5, Zenon DEF AuthAnswer
  <2>2. r.n # r.m
    <3>1. <<r.n, r.m>> \in added BY <1>0, <1>5, SlotFacts, Zenon DEF AuthAnswer, SlotOK, ServerOK
    <3> QED BY <1>0, <1>1, <3>1, Zenon DEF NotSelf
  <2> HIDE DEF answer
  <2>3. s.pc = r.pc /\ s.n = r.n /\ s.m = r.m BY <1>1, Zenon DEF Goroutine
  <2>4. Stranger(add) BY <2>2, StrangerRuns, Zenon
  <2> HIDE DEF s, add
  <2>5. CASE Continue(i, s) BY <1>0, <1>2, <2>3, <2>5, StrangerStays, Zenon
  <2>6. CASE \E j \in Goroutines : g' = [g EXCEPT ![i] = s, ![j] = add]
    <3>1. PICK j \in Goroutines : g' = [g EXCEPT ![i] = s, ![j] = add] BY <2>6, Zenon
    <3>2. Stranger(s) BY <1>1, <2>3, Zenon DEF Stranger
    <3>3. g \in [Slots -> Goroutine] BY <1>0, Zenon DEF ConsentInv, Typed
    <3>4. ASSUME NEW k \in Slots PROVE Stranger(g'[k])
      <4>1. g'[k] = g[k] \/ g'[k] = s \/ g'[k] = add BY <3>1, <3>3, Zenon
      <4>2. Stranger(g[k]) BY <1>0, Zenon DEF NotSelf
      <4> QED BY <2>4, <3>2, <4>1, <4>2, Zenon
    <3> QED BY <1>0, <1>2, <3>4, Zenon DEF NotSelf
  <2> QED BY <2>1, <2>5, <2>6, Zenon
<1>6. CASE StatusAccept(i)
  <2> DEFINE skp == peers[r.m][r.n]
             sBlocked == r.n \in blocked[r.m]
             s == [r EXCEPT !.spc = "none", !.answer = "broken"]
             t == [r EXCEPT !.spc = "known", !.skp = skp, !.sBlocked = sBlocked]
             next == IF TurnedAway(skp, sBlocked) THEN s ELSE t
  <2>1. Continue(i, next) BY <1>6, Zenon DEF StatusAccept
  <2>2. s.pc = r.pc /\ s.n = r.n /\ s.m = r.m /\ t.pc = r.pc /\ t.n = r.n /\ t.m = r.m
    BY <1>1, Zenon DEF Goroutine
  <2> HIDE DEF s, t
  <2>3. next.pc = r.pc /\ next.n = r.n /\ next.m = r.m BY <2>2, Zenon
  <2> HIDE DEF next
  <2> QED BY <1>0, <1>2, <2>1, <2>3, StrangerStays, Zenon
<1>7. CASE StatusAnswer(i)
  <2> DEFINE spc == IF r.sBlocked THEN "none" ELSE "get"
             answer == Reply(r, createPeerInfo(r.skp, r.sBlocked))
             s == [r EXCEPT !.spc = spc, !.skp = Unknown, !.sBlocked = FALSE, !.answer = answer]
  <2>1. Continue(i, s) BY <1>7, Zenon DEF StatusAnswer
  <2> HIDE DEF spc, answer
  <2>2. s.pc = r.pc /\ s.n = r.n /\ s.m = r.m BY <1>1, Zenon DEF Goroutine
  <2> HIDE DEF s
  <2> QED BY <1>0, <1>2, <2>1, <2>2, StrangerStays, Zenon
<1>8. CASE StatusGet(i)
  <2> DEFINE s == [r EXCEPT !.spc = "put", !.skp = peers[r.m][r.n]]
  <2>1. Continue(i, s) BY <1>8, Zenon DEF StatusGet
  <2>2. s.pc = r.pc /\ s.n = r.n /\ s.m = r.m BY <1>1, Zenon DEF Goroutine
  <2> HIDE DEF s
  <2> QED BY <1>0, <1>2, <2>1, <2>2, StrangerStays, Zenon
<1>9. CASE StatusUpsert(i) \/ StatusUse(i)
  <2> DEFINE s == [r EXCEPT !.spc = "use"]
             t == [r EXCEPT !.spc = "none", !.skp = Unknown]
  <2>1. Continue(i, s) \/ Continue(i, t) BY <1>9, Zenon DEF StatusUpsert, StatusUse
  <2>2. s.pc = r.pc /\ s.n = r.n /\ s.m = r.m /\ t.pc = r.pc /\ t.n = r.n /\ t.m = r.m
    BY <1>1, Zenon DEF Goroutine
  <2> HIDE DEF s, t
  <2> QED BY <1>0, <1>2, <2>1, <2>2, StrangerStays, Zenon
<1> QED BY <1>2, <1>3, <1>4, <1>5, <1>6, <1>7, <1>8, <1>9, Zenon
        DEF Server, AuthStreamHandler, StatusStreamHandler

\* The rest of the types, but for added.
LEMMA CountedStep ==
    ASSUME TypeInv, Next, added' \in SUBSET (Nodes \X Nodes)
    PROVE  Counted'
<1>0. Counted /\ MaxOps \in Nat /\ MaxFaults \in Nat BY AuthConstants, Zenon DEF TypeInv
<1>1. ASSUME NEW n, UNCHANGED history \/ UNCHANGED allowedOnce \/ (\E op : User(n, op)), UNCHANGED ghost,
             UNCHANGED ops \/ (\E op : User(n, op)), UNCHANGED faults \/ Fault \/ (\E op : User(n, op))
      PROVE  Counted'
  <2>1. UNCHANGED allowedOnce BY <1>1, Zenon DEF User, history
  <2>2. UNCHANGED ops \/ (ops > 0 /\ ops' = ops - 1) BY <1>1, Zenon DEF User
  <2>3. UNCHANGED faults \/ (faults > 0 /\ faults' = faults - 1) BY <1>1, Zenon DEF User, Fault
  <2>4. ops' \in 0..MaxOps BY <1>0, <2>2 DEF Counted
  <2>5. faults' \in 0..MaxFaults BY <1>0, <2>3 DEF Counted
  <2> QED BY <1>0, <1>1, <2>1, <2>4, <2>5, Zenon DEF Counted
<1>2. ASSUME NEW n \in Nodes, NEW m, NEW kp, UpsertPeer(n, m, kp), UNCHANGED <<ops, faults>>,
             allowedOnce' \in SUBSET (Nodes \X Nodes)
      PROVE  Counted'
  BY <1>0, <1>2, Zenon DEF UpsertPeer, Counted
<1>3. CASE Api
  BY <1>1, <1>3, ZenonT(60) DEF Api, SendFriendRequest, AcceptFriend, RemovePeer, UpdatePeerSettings,
     UpdateProxySettings, ClearProxySettings, Restart, confVars
<1>4. CASE \E n, m \in Nodes : \/ BackgroundRetryAuthRequests(n, m) \/ onPeerConnected(n, m)
                               \/ BackgroundExchangeStatusInfo(n, m)
  BY <1>1, <1>4 DEF BackgroundRetryAuthRequests, onPeerConnected, BackgroundExchangeStatusInfo, Tick, confVars
<1>5. ASSUME NEW i \in Slots, Client(i) \/ Server(i) \/ StreamBreaks(i) PROVE Counted'
  <2>0. g[i].n \in Nodes /\ g[i].m \in Nodes /\ allowedOnce \in SUBSET (Nodes \X Nodes)
    BY <1>0, SlotFacts, Zenon DEF TypeInv, Counted
  <2>1. CASE AddPeer(i)
    BY <1>1, <1>2, <2>0, <2>1, Zenon DEF AddPeer, AddCheck, AddUnblock, AddUpsert, AddFresh, confVars, history
  <2>2. CASE BlockPeer(i) \/ SettingsWrite(i) \/ SetProxyPeerID(i) \/ ProxySave(i)
    BY <1>1, <1>2, <2>0, <2>2, SMTT(30) DEF BlockPeer, SettingsWrite, SetProxyPeerID, ProxySave, history
  <2>3. CASE SendAuthRequest(i)
    BY <1>1, <1>2, <2>0, <2>3, Zenon DEF SendAuthRequest, AuthStart, AuthOpen, AuthResponse, AuthDeclined,
       AuthUpsert, confVars, history
  <2>4. CASE ExchangeNewStatusInfo(i)
    BY <1>1, <1>2, <2>0, <2>4, Zenon DEF ExchangeNewStatusInfo, StatusStart, StatusOpen, ExchangeAnswered,
       ExchangeGet, ExchangeUpsert, ExchangeUse, confVars, history
  <2>5. CASE AuthStreamHandler(i) \/ StreamBreaks(i)
    BY <1>1, <2>5, Zenon DEF AuthStreamHandler, AuthReceive, AuthAnswer, StreamBreaks, confVars
  <2>6. CASE StatusStreamHandler(i)
    BY <1>1, <1>2, <2>0, <2>6, Zenon DEF StatusStreamHandler, StatusAccept, StatusAnswer, StatusGet,
       StatusUpsert, StatusUse, confVars, history
  <2> QED BY <1>5, <2>1, <2>2, <2>3, <2>4, <2>5, <2>6, Zenon DEF Client, Server
<1> QED BY <1>3, <1>4, <1>5, Zenon DEF Next

\* The variables stay in their ranges, and a node never knows itself: however
\* requests, answers and restarts interleave, AddPeer never records the node
\* it runs on.  Only the API refuses that ID; a request that is accepted at
\* once, a retry or a status exchange does not look.
THEOREM NobodyKnowsItself == Spec => []TypeOK
<1>1. Init => TypeInv
  <2>1. Init => NotSelf BY DEF Init, NotSelf, Stranger, Free, Run
  <2>2. Init => Counted BY AuthConstants DEF Init, Counted
  <2> QED BY <2>1, <2>2, ConsentInit, Zenon DEF TypeInv
<1>2. TypeInv /\ [Next]_vars => TypeInv'
  <2> SUFFICES ASSUME TypeInv, [Next]_vars PROVE TypeInv' BY Zenon
  <2>1. ConsentInv' BY ConsentStep, Zenon DEF TypeInv
  <2>2. CASE UNCHANGED vars
    BY <2>1, <2>2, Zenon DEF vars, confVars, authVars, history, TypeInv, NotSelf, Counted
  <2>3. CASE Next
    <3>1. NotSelf' /\ added' \in SUBSET (Nodes \X Nodes)
      <4>1. added \in SUBSET (Nodes \X Nodes) BY Zenon DEF TypeInv, Counted
      <4>2. CASE \E i \in Slots : Client(i) \/ Server(i) \/ StreamBreaks(i)
        BY <4>1, <4>2, StrangerAdds, StrangerGoesOn, StrangerServes, Zenon DEF Client
      <4>3. CASE Api
        <5>1. UNCHANGED added
          BY <4>3, ZenonT(60) DEF Api, SendFriendRequest, AcceptFriend, RemovePeer, UpdatePeerSettings,
             UpdateProxySettings, ClearProxySettings, Restart, User, history
        <5>2. NotSelf' BY <4>3, StrangerApi, Zenon DEF Api
        <5> QED BY <4>1, <5>1, <5>2, Zenon
      <4>4. CASE \E n, m \in Nodes : \/ BackgroundRetryAuthRequests(n, m) \/ onPeerConnected(n, m)
                                     \/ BackgroundExchangeStatusInfo(n, m)
        <5>1. UNCHANGED added
          BY <4>4 DEF BackgroundRetryAuthRequests, onPeerConnected, BackgroundExchangeStatusInfo,
             Tick, User, history
        <5>2. NotSelf' BY <4>4, StrangerApi, Zenon
        <5> QED BY <4>1, <5>1, <5>2, Zenon
      <4> QED BY <2>3, <4>2, <4>3, <4>4, Zenon DEF Next
    <3> QED BY <2>1, <2>3, <3>1, CountedStep, Zenon DEF TypeInv
  <2> QED BY <2>2, <2>3, Zenon
<1> QED BY <1>1, <1>2, TypeInvOK, PTL DEF Spec
=============================================================================
