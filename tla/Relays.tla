------------------------------- MODULE Relays -------------------------------
(* Which relays the node uses: the peer source of libp2p's autorelay and   *)
(* the dial ranker (src/p2p/p2p.go). Both go by the latency of the relays, *)
(* which changes under them with every ping.                               *)
(* External: the Peerstore and the connections.                            *)
EXTENDS Integers, Sequences, FiniteSets, FiniteSetsExt, SequencesExt

CONSTANTS
  Relay,       \* p.bootstrapPeers
  MaxLatency,  \* bound of a latency, 0 is "not known"
  IntWidth,    \* bits of int: 32 in the builds for 386, arm and mips
  MaxAddrs,    \* bound of a list of addresses to dial
  Direct       \* an address without a relay

ASSUME RelayAssumption == IsFiniteSet(Relay) /\ MaxLatency \in Nat /\ MaxAddrs \in Nat

VARIABLES
  hostSet,       \* p.host # nil
  connected,     \* the relays with a connection
  latency,       \* LatencyEWMA
  lastAddrInfos, \* what the peer source has not handed out yet
  round,         \* history: handed out since the candidates were last taken
  asked          \* history: the latencies when they were, and those known

relayVars == <<hostSet, connected, latency, lastAddrInfos, round, asked>>

relayInit ==
  /\ hostSet = FALSE
  /\ connected = {}
  /\ latency = [r \in Relay |-> 0]
  /\ lastAddrInfos = <<>> /\ round = <<>>
  /\ asked = [latency |-> latency, usable |-> {}, sorted |-> FALSE]

HostStarted ==
  /\ ~hostSet /\ hostSet' = TRUE
  /\ UNCHANGED <<connected, latency, lastAddrInfos, round, asked>>

\* connectToKnownPeers connects a bootstrap peer and pings it; the connection
\* may end at any time.
Connected(r) ==
  /\ hostSet /\ r \notin connected
  /\ connected' = connected \cup {r}
  /\ UNCHANGED <<hostSet, latency, lastAddrInfos, round, asked>>

Disconnected(r) ==
  /\ r \in connected
  /\ connected' = connected \ {r}
  /\ UNCHANGED <<hostSet, latency, lastAddrInfos, round, asked>>

pingPeer(r) ==
  /\ r \in connected
  /\ \E l \in 1 .. MaxLatency : latency' = [latency EXCEPT ![r] = l]
  /\ UNCHANGED <<hostSet, connected, lastAddrInfos, round, asked>>

-----------------------------------------------------------------------------
(* getAutoRelayPeerSource.                                                 *)

Usable == IF hostSet THEN {r \in connected : latency[r] # 0} ELSE Relay

\* int(a - b): the bits of a difference of durations that fit into an int.
toInt(d) ==
  LET low == d % 2^IntWidth
  IN  IF low >= 2^(IntWidth - 1) THEN low - 2^IntWidth ELSE low

Fits(S) == \A a, b \in S : toInt(latency[a] - latency[b]) = latency[a] - latency[b]

\* SortFunc is not stable, and promises nothing when the comparison is not an
\* order; before the host exists the list is not sorted.
Orders_Unsorted(S) == SetToSeqs(S)

Orders(S) ==
  {s \in SetToSeqs(S) :
     hostSet /\ Fits(S) => \A i, j \in DOMAIN s : i < j => toInt(latency[s[i]] - latency[s[j]]) <= 0}

Serve(infos, numPeers) ==
  LET n == Min({numPeers, Len(infos)}) IN
  /\ lastAddrInfos' = SubSeq(infos, n + 1, Len(infos))
  /\ round' = IF lastAddrInfos = <<>> THEN SubSeq(infos, 1, n) ELSE round \o SubSeq(infos, 1, n)

getAutoRelayPeerSource_Again(numPeers) ==
  LET n == Min({numPeers, Len(lastAddrInfos)}) IN
  /\ \/ /\ lastAddrInfos = <<>>
        /\ \E infos \in Orders(Usable) : Serve(infos, numPeers)
        /\ asked' = [latency |-> latency, usable |-> Usable, sorted |-> hostSet /\ Fits(Usable)]
     \/ /\ lastAddrInfos # <<>>
        /\ round' = round \o SubSeq(lastAddrInfos, 1, n)
        /\ UNCHANGED <<lastAddrInfos, asked>>
  /\ UNCHANGED <<hostSet, connected, latency>>

getAutoRelayPeerSource(numPeers) ==
  /\ \/ /\ lastAddrInfos = <<>>
        /\ \E infos \in Orders(Usable) : Serve(infos, numPeers)
        /\ asked' = [latency |-> latency, usable |-> Usable, sorted |-> hostSet /\ Fits(Usable)]
     \/ /\ lastAddrInfos # <<>>
        /\ Serve(lastAddrInfos, numPeers)
        /\ UNCHANGED asked
  /\ UNCHANGED <<hostSet, connected, latency>>

relayNext ==
  \/ HostStarted
  \/ \E r \in Relay : Connected(r) \/ Disconnected(r) \/ pingPeer(r)
  \/ \E n \in 1 .. Cardinality(Relay) : getAutoRelayPeerSource(n)

relaySpec == relayInit /\ [][relayNext]_relayVars

-----------------------------------------------------------------------------
(* getDialRanker: what is added to the default delay of each address.      *)

closestRelay_Unmeasured(addrs) ==
  FoldLeft(LAMBDA best, r : IF r # Direct /\ (best = Direct \/ latency[r] < latency[best])
                            THEN r ELSE best,
           Direct, addrs)

\* The first relay of the list with the least latency known, Direct if none.
closestRelay(addrs) ==
  FoldLeft(LAMBDA best, r : IF r # Direct /\ latency[r] # 0
                               /\ (best = Direct \/ latency[r] < latency[best])
                            THEN r ELSE best,
           Direct, addrs)

getDialRanker(addrs) ==
  LET closest == closestRelay(addrs)
  IN  [i \in DOMAIN addrs |->
         IF addrs[i] # Direct /\ closest # Direct /\ addrs[i] # closest THEN 1 ELSE 0]

-----------------------------------------------------------------------------
(* Properties.                                                             *)

\* Until every relay that was usable when the source was asked for the first
\* of them has been handed out, none is handed out twice, and they come by the
\* latency of that moment (unless a difference of two does not fit an int).
\* Nothing is handed out only when there was nothing usable.
RelaysOffered ==
  /\ IsInjective(round \o lastAddrInfos)
  /\ ToSet(round \o lastAddrInfos) = asked.usable
  /\ asked.usable # {} => round # <<>>
  /\ asked.sorted => \A i, j \in DOMAIN round :
                       i < j => asked.latency[round[i]] <= asked.latency[round[j]]

\* Among the addresses of a peer only relays that are not the closest measured
\* one wait: a direct address and a relay at least as near as every other
\* never do, and when no relay is measured nobody does.
ClosestNotDelayed ==
  \A addrs \in BoundedSeq(Relay \cup {Direct}, MaxAddrs) :
    LET delay    == getDialRanker(addrs)
        measured == {r \in ToSet(addrs) \ {Direct} : latency[r] # 0}
        waiting  == {addrs[i] : i \in {i \in DOMAIN addrs : delay[i] > 0}}
    IN  /\ Direct \notin waiting
        /\ measured = {} => waiting = {}
        /\ measured # {} => \E r \in measured \ waiting :
             /\ \A q \in measured : latency[r] <= latency[q]
             /\ waiting = ToSet(addrs) \ {Direct, r}
=============================================================================
