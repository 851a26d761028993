------------------------------ MODULE Registry ------------------------------
(* The names and the addresses of the known peers: how the configuration   *)
(* picks them (src/config/network_addr.go, genUniqPeerAlias), repairs them *)
(* when it is loaded (setDefaults), and how the handlers that add, change, *)
(* remove and refresh a peer keep them apart. Every step of a handler is   *)
(* one section under conf's lock; between two of them other handlers run.  *)
(* The blocked list, the consent flags and the messages of the same        *)
(* handlers are in AuthStatus, the lock itself and the file in ConfStore.  *)
EXTENDS Integers, Sequences, FiniteSets, FiniteSetsExt, Functions

CONSTANTS
  PeerID,       \* the peers that may become known
  Goroutines,   \* concurrent handlers
  Name,         \* the name each peer reports, "" when it has none
  Alias,        \* the aliases a user types
  UserIP,       \* the addresses a user types
  FileIP,       \* the addresses in the file of the first start
  LocalIP,      \* our address in the VPN
  FirstIP, LastIP,  \* the subnet of conf.VPNConfig.IPNet
  Width,        \* bits of an address, 32 in the code
  MaxCalls,     \* bound: handlers started
  MaxRequests   \* bound: pending invitations listed by GetAuthRequests

ASSUME SubnetAssumption ==
  /\ 2^Width \in Nat
  /\ {LocalIP, FirstIP, LastIP} \cup UserIP \cup FileIP \subseteq 0 .. 2^Width - 1
  /\ FirstIP <= LocalIP /\ LocalIP <= LastIP

\* The pending invitations are fewer than the addresses outside the subnet.
ASSUME RequestsAssumption == MaxRequests \in Nat /\ LastIP + MaxRequests < 2^Width + FirstIP

ASSUME PeerAssumption ==
  IsFiniteSet(PeerID) /\ "" \notin PeerID /\ Name \in [PeerID -> STRING]

NoAddr  == -1                          \* IPAddr == ""
NoAlias == <<>>                        \* Alias == ""
Subnet  == FirstIP .. LastIP

(* An alias is the text a user typed, or another alias with "_0", "_1"...  *)
(* after it: the sequence of its parts.                                    *)
DefaultPeerAlias == <<"peer">>

\* A user types a text, which may end in such numbers too.
ASSUME AliasAssumption ==
  \A a \in Alias : /\ Len(a) \in Nat \ {0} /\ a = [i \in 1 .. Len(a) |-> a[i]]
                   /\ a[1] \in STRING /\ \A i \in 2 .. Len(a) : a[i] \in Nat

VARIABLES
  known,     \* conf.KnownPeers: a function on a set of peers
  todo,      \* the peers the loop of setDefaults has not come to yet
  uniq,      \* its uniqAliases, given up after the loop
  th,        \* what each handler is doing
  calls,     \* handlers started
  overtaken  \* history: peers written by a call that another write overtook

vars == <<known, todo, uniq, th, calls, overtaken>>

Idle == [pc |-> "idle", peer |-> "", alias |-> NoAlias, ip |-> NoAddr, stale |-> FALSE]
Aliases == {known[p].alias : p \in DOMAIN known}

-----------------------------------------------------------------------------
(* Addresses.                                                              *)

incrementIPAddr(ip) == (ip + 1) % 2^Width

GenerateNextIpAddrExcept_Once(except) ==
  incrementIPAddr(Max({LocalIP} \cup ({known[p].ip : p \in DOMAIN known} \cap Subnet)))

\* The first address after the largest one in use that except does not hold.
\* Addresses outside the subnet are not looked at, its end is not either.
GenerateNextIpAddrExcept(except) ==
  LET inUse == {LocalIP} \cup ({known[p].ip : p \in DOMAIN known} \cap Subnet)
      after[n \in 0 .. Cardinality(except)] ==
        incrementIPAddr(IF n = 0 THEN Max(inUse) ELSE after[n - 1])
  IN  after[Min({n \in DOMAIN after : after[n] \notin except})]

GenerateNextIpAddr == GenerateNextIpAddrExcept({})

CheckIPUnique_SubnetOnly(ip, exceptPeerID) == ip \in Subnet

CheckIPUnique(ip, exceptPeerID) ==
  /\ ip \in Subnet
  /\ \A p \in DOMAIN known \ {exceptPeerID} : known[p].ip # ip

\* The addresses GetAuthRequests proposes for n pending invitations.
SuggestedIPs(n) ==
  LET ips[i \in 0 .. n] == IF i = 0 THEN <<>>
                           ELSE Append(ips[i - 1], GenerateNextIpAddrExcept(Range(ips[i - 1])))
  IN  ips[n]

-----------------------------------------------------------------------------
(* Aliases.                                                                *)

IsUniqPeerAlias(excludePeerID, alias) ==
  \A p \in DOMAIN known \ {excludePeerID} : known[p].alias # alias

genUniqPeerAlias_FirstSuffix(name, alias, taken) ==
  LET base == IF alias # NoAlias THEN alias
              ELSE IF name = "" THEN DefaultPeerAlias ELSE <<name>>
  IN  IF base \in taken THEN Append(base, 0) ELSE base

genUniqPeerAlias(name, alias, taken) ==
  LET base == IF alias # NoAlias THEN alias
              ELSE IF name = "" THEN DefaultPeerAlias ELSE <<name>>
      free == {i \in 0 .. Cardinality(taken) : Append(base, i) \notin taken}
  IN  IF base \in taken THEN Append(base, Min(free)) ELSE base

GenUniqPeerAlias(name, alias) == genUniqPeerAlias(name, alias, Aliases)
-----------------------------------------------------------------------------
(* Loading a configuration.                                                *)

setDefaults_AllTaken(p) ==
  LET alias == genUniqPeerAlias(Name[p], known[p].alias, Aliases)
      ip    == IF known[p].ip = NoAddr THEN GenerateNextIpAddr ELSE known[p].ip
  IN  /\ known' = [known EXCEPT ![p] = [alias |-> alias, ip |-> ip]]
      /\ uniq' = IF todo = {p} THEN {} ELSE uniq \cup {alias}
      /\ todo' = todo \ {p}
      /\ UNCHANGED <<th, calls, overtaken>>

\* One turn of the loop over the known peers, in the order of a Go map.
setDefaults(p) ==
  LET alias == genUniqPeerAlias(Name[p], known[p].alias, uniq)
      ip    == IF known[p].ip = NoAddr THEN GenerateNextIpAddr ELSE known[p].ip
  IN  /\ known' = [known EXCEPT ![p] = [alias |-> alias, ip |-> ip]]
      /\ uniq' = IF todo = {p} THEN {} ELSE uniq \cup {alias}
      /\ todo' = todo \ {p}
      /\ UNCHANGED <<th, calls, overtaken>>

\* The process ends and starts again: the file holds what known holds.
Restart ==
  /\ todo = {} /\ calls < MaxCalls
  /\ calls' = calls + 1
  /\ todo' = DOMAIN known
  /\ uniq' = {}
  /\ th' = [g \in Goroutines |-> Idle]
  /\ UNCHANGED <<known, overtaken>>

-----------------------------------------------------------------------------
(* The handlers.                                                           *)

Begin(g, pc, p, alias, ip) ==
  /\ todo = {} /\ calls < MaxCalls /\ th[g].pc = "idle"
  /\ calls' = calls + 1
  /\ th' = [th EXCEPT ![g] = [pc |-> pc, peer |-> p, alias |-> alias, ip |-> ip, stale |-> FALSE]]
  /\ UNCHANGED <<known, todo, uniq, overtaken>>

Goto(g, pc) ==
  /\ th' = [th EXCEPT ![g] = IF pc = "idle" THEN Idle ELSE [@ EXCEPT !.pc = pc]]
  /\ UNCHANGED <<known, todo, uniq, calls, overtaken>>

\* conf.KnownPeers[p] = rec, the last section of the handler of g; whatever
\* the other handlers have read or checked before is now out of date.
UpsertPeer(g, rec) ==
  LET p == th[g].peer IN
  /\ known' = [q \in DOMAIN known \cup {p} |-> IF q = p THEN rec ELSE known[q]]
  /\ overtaken' = IF th[g].stale THEN overtaken \cup {p} ELSE overtaken
  /\ th' = [h \in Goroutines |-> IF h = g \/ th[h].pc = "idle" THEN Idle
                                 ELSE [th[h] EXCEPT !.stale = TRUE]]
  /\ UNCHANGED <<todo, uniq, calls>>

\* SendFriendRequest and AcceptFriend, with the alias and address of the form.
\* AddPeer returns at once when the peer is known.
InvitePeer(g, p, alias, ip) == p \notin DOMAIN known /\ Begin(g, "alias", p, alias, ip)

\* AuthStreamHandler with AutoAcceptAuthRequests: the sender is not known ...
AuthStreamHandler(g, p) == p \notin DOMAIN known /\ Begin(g, "auto", p, NoAlias, NoAddr)

\* ... and after the answer it is added under an alias made from its name.
AutoAccept(g) ==
  /\ th[g].pc = "auto"
  /\ th' = [th EXCEPT ![g].alias = GenUniqPeerAlias(Name[th[g].peer], NoAlias), ![g].pc = "get"]
  /\ UNCHANGED <<known, todo, uniq, calls, overtaken>>

AddGet(g) ==
  /\ th[g].pc = "get"
  /\ Goto(g, IF th[g].peer \in DOMAIN known THEN "idle" ELSE "alias")

AddAlias(g) ==
  /\ th[g].pc = "alias"
  /\ Goto(g, IF IsUniqPeerAlias("", th[g].alias) THEN "ip" ELSE "idle")

AddIP(g) ==
  /\ th[g].pc = "ip"
  /\ \/ /\ th[g].ip = NoAddr
        /\ th' = [th EXCEPT ![g].ip = GenerateNextIpAddr, ![g].pc = "upsert"]
        /\ UNCHANGED <<known, todo, uniq, calls, overtaken>>
     \/ /\ th[g].ip # NoAddr
        /\ Goto(g, IF CheckIPUnique(th[g].ip, th[g].peer) THEN "upsert" ELSE "idle")

AddUpsert(g) ==
  /\ th[g].pc = "upsert"
  /\ UpsertPeer(g, [alias |-> th[g].alias, ip |-> th[g].ip])

\* UpdatePeerSettings: GetPeer, the alias, then the address and the write.
UpdatePeerSettings(g, p, alias, ip) == p \in DOMAIN known /\ Begin(g, "setAlias", p, alias, ip)

SetAlias(g) ==
  /\ th[g].pc = "setAlias"
  /\ Goto(g, IF IsUniqPeerAlias(th[g].peer, th[g].alias) THEN "set" ELSE "idle")

SetWrite(g) ==
  /\ th[g].pc = "set"
  /\ IF CheckIPUnique(th[g].ip, th[g].peer)
     THEN UpsertPeer(g, [alias |-> th[g].alias, ip |-> th[g].ip])
     ELSE Goto(g, "idle")

\* A status exchange reads the peer, waits for the other side, and writes the
\* whole record back (processPeerStatusInfo).
StatusRead(g, p) == p \in DOMAIN known /\ Begin(g, "status", p, known[p].alias, known[p].ip)

processPeerStatusInfo(g) ==
  /\ th[g].pc = "status"
  /\ UpsertPeer(g, [alias |-> IF th[g].alias = NoAlias THEN GenUniqPeerAlias(Name[th[g].peer], NoAlias)
                              ELSE th[g].alias,
                    ip |-> th[g].ip])

RemovePeer(p) ==
  /\ todo = {} /\ calls < MaxCalls /\ p \in DOMAIN known
  /\ calls' = calls + 1
  /\ known' = [q \in DOMAIN known \ {p} |-> known[q]]
  /\ overtaken' = overtaken \ {p}
  /\ th' = [h \in Goroutines |-> IF th[h].pc = "idle" THEN Idle ELSE [th[h] EXCEPT !.stale = TRUE]]
  /\ UNCHANGED <<todo, uniq>>

-----------------------------------------------------------------------------
\* A file of an earlier version, or one edited by hand: entries may lack an
\* alias or an address and may repeat an alias.
Init ==
  /\ known \in UNION {[S -> [alias : Alias \cup {NoAlias}, ip : FileIP \cup {NoAddr}]] : S \in SUBSET PeerID}
  /\ \A p, q \in DOMAIN known : p # q /\ known[p].ip = known[q].ip => known[p].ip = NoAddr
  /\ todo = DOMAIN known
  /\ uniq = {}
  /\ th = [g \in Goroutines |-> Idle]
  /\ calls = 0
  /\ overtaken = {}

Start(g) ==
  \E p \in PeerID :
    \/ \E alias \in Alias : \/ \E ip \in UserIP \cup {NoAddr} : InvitePeer(g, p, alias, ip)
                            \/ \E ip \in UserIP : UpdatePeerSettings(g, p, alias, ip)
    \/ AuthStreamHandler(g, p)
    \/ StatusRead(g, p)

Continue(g) ==
  \/ AutoAccept(g) \/ AddGet(g) \/ AddAlias(g) \/ AddIP(g) \/ AddUpsert(g)
  \/ SetAlias(g) \/ SetWrite(g) \/ processPeerStatusInfo(g)

Next ==
  \/ \E p \in todo : setDefaults(p)
  \/ \E g \in Goroutines : Start(g) \/ Continue(g)
  \/ \E p \in PeerID : RemovePeer(p)
  \/ Restart

Spec == Init /\ [][Next]_vars

-----------------------------------------------------------------------------
(* Properties.                                                             *)

\* Once loaded every known peer has an alias, and two have the same one only
\* if one of them was written by a call that another write overtook between
\* its check and its own write. A restart takes even that away: whatever the
\* file repeats setDefaults repairs, in whatever order the map is walked.
AliasesUnique ==
  \A p \in DOMAIN known \ todo :
    /\ known[p].alias # NoAlias
    /\ \A q \in DOMAIN known \ todo :
         p # q /\ known[p].alias = known[q].alias => todo = {} /\ {p, q} \cap overtaken # {}

\* Once loaded every known peer has an address, that of the file or one of the
\* subnet or at most one past it, although GenerateNextIpAddrExcept does not look
\* where the subnet ends; two have the same address only if one of them was
\* written by an overtaken call, or the subnet was used up to its end.
AddressesUnique ==
  LET end == incrementIPAddr(LastIP) IN
  \A p \in DOMAIN known \ todo :
    /\ known[p].ip \in Subnet \cup {end} \cup FileIP
    /\ \A q \in DOMAIN known \ todo :
         p # q /\ known[p].ip = known[q].ip => {p, q} \cap overtaken # {} \/ known[p].ip = end

\* The addresses GetAuthRequests proposes are distinct, and CheckIPUnique
\* accepts those that are still in the subnet.
SuggestionsUsable ==
  \A n \in 0 .. MaxRequests :
    LET ips == SuggestedIPs(n) IN
    /\ IsInjective(ips)
    /\ \A i \in 1 .. n : ips[i] \in Subnet => CheckIPUnique(ips[i], "")

\* Loading a configuration that is in order changes nothing in it, whatever
\* the order of the map.
LoadStable ==
  [][ /\ todo # {}
      /\ \A p \in DOMAIN known : known[p].alias # NoAlias /\ known[p].ip # NoAddr
      /\ \A p, q \in DOMAIN known : p # q => known[p].alias # known[q].alias
      => UNCHANGED known ]_vars
=============================================================================
