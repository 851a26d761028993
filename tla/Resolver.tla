------------------------------ MODULE Resolver ------------------------------
(* The answers of the DNS server (src/awldns/awldns.go) while its names are *)
(* replaced: DNSNamesMapping collects them from the known peers, the loop   *)
(* of ReceiveConfiguration builds both directions in the order of a Go map, *)
(* and the whole is stored at once. Handlers load what is stored and answer *)
(* from it alone, so an answer is a function of the stored configuration.   *)
(* External: the upstream server and github.com/miekg/dns.                  *)
EXTENDS Naturals

CONSTANTS
  KnownID,     \* ids of peers
  DomainName,  \* the domain names a peer may have
  IPAddr,      \* addresses of peers
  Admin,       \* config.AdminHttpServerDomainName
  AdminIP,     \* config.AdminHttpServerIP, outside the subnet of the peers
  Lower,       \* strings.ToLower on ids and domain names
  Length       \* len of a name in lower case

NoName == ""

\* A valid domain name is in lower case (IsValidDomainName), and so is the name
\* of the admin page, which is no id.
ASSUME ResolverAssumption ==
  /\ KnownID \cup DomainName \cup {Admin} \subseteq DOMAIN Lower
  /\ \A n \in DOMAIN Lower : /\ Lower[n] \in DOMAIN Lower \ {NoName}
                             /\ Lower[Lower[n]] = Lower[n] /\ Length[Lower[n]] \in Nat
  /\ \A n \in DomainName \cup {Admin} : Lower[n] = n
  /\ \A p \in KnownID : Lower[p] # Admin
  /\ AdminIP \notin IPAddr

VARIABLES
  peers,     \* the known peers: [ip, domain] by id
  mapping,   \* namesMapping of the running ReceiveConfiguration
  left,      \* the keys its loop has not come to
  building,  \* its directMapping and reverseMapping
  cfg,       \* r.cfg
  served     \* history: the peers that cfg was made from

resolverVars == <<peers, mapping, left, building, cfg, served>>

NoNames == [direct |-> <<>>, reverse |-> <<>>, upstream |-> FALSE]

PeerMaps == UNION {[S -> [ip : IPAddr, domain : DomainName \cup {NoName}]] : S \in SUBSET KnownID}

\* CheckIPUnique keeps the addresses apart; nothing does that for the names.
Apart(f) == \A p, q \in DOMAIN f : p # q => f[p].ip # f[q].ip

resolverInit ==
  /\ peers = <<>> /\ served = <<>>
  /\ mapping = <<>> /\ left = {}
  /\ building = NoNames /\ cfg = NoNames

-----------------------------------------------------------------------------
(* The names.                                                              *)

Put(f, k, v) == [x \in DOMAIN f \cup {k} |-> IF x = k THEN v ELSE f[x]]

Named(f, key) == {p \in DOMAIN f : key = p \/ (key # NoName /\ key = f[p].domain)}

\* Of the peers with the same domain name the last one of the map wins.
DNSNamesMapping ==
  LET keys == DOMAIN peers \cup ({peers[p].domain : p \in DOMAIN peers} \ {NoName})
  IN  {m \in [keys -> IPAddr] : \A k \in keys : \E p \in Named(peers, k) : m[k] = peers[p].ip}

\* The peers change, and refreshDNSConfig is called. A peer that has the name
\* of the admin page gives way to it.
refreshDNSConfig ==
  /\ left = {} /\ building = NoNames
  /\ \E f \in PeerMaps : Apart(f) /\ peers' = f
  /\ \E m \in DNSNamesMapping' : mapping' = Put(m, Admin, AdminIP)
  /\ left' = DOMAIN mapping'
  /\ building' = [NoNames EXCEPT !.upstream = TRUE]
  /\ UNCHANGED <<cfg, served>>

Visit_InPlace(key) ==
  LET name  == Lower[key]
      ip    == mapping[key]
      old   == cfg.reverse
      newer == ip \in DOMAIN old => Length[name] < Length[old[ip]]
      next  == [direct   |-> Put(cfg.direct, name, ip),
                reverse  |-> IF newer THEN Put(old, ip, name) ELSE old,
                upstream |-> TRUE]
  IN  /\ key \in left /\ left' = left \ {key}
      /\ building' = next /\ cfg' = next
      /\ UNCHANGED <<peers, mapping, served>>

Visit_Longest(key) ==
  LET name  == Lower[key]
      ip    == mapping[key]
      old   == building.reverse
      newer == ip \in DOMAIN old => Length[name] > Length[old[ip]]
  IN  /\ key \in left /\ left' = left \ {key}
      /\ building' = [direct   |-> Put(building.direct, name, ip),
                      reverse  |-> IF newer THEN Put(old, ip, name) ELSE old,
                      upstream |-> TRUE]
      /\ UNCHANGED <<peers, mapping, cfg, served>>

\* One turn of the loop of ReceiveConfiguration.
Visit(key) ==
  LET name  == Lower[key]
      ip    == mapping[key]
      old   == building.reverse
      newer == ip \in DOMAIN old => Length[name] < Length[old[ip]]
  IN  /\ key \in left /\ left' = left \ {key}
      /\ building' = [direct   |-> Put(building.direct, name, ip),
                      reverse  |-> IF newer THEN Put(old, ip, name) ELSE old,
                      upstream |-> TRUE]
      /\ UNCHANGED <<peers, mapping, cfg, served>>

ReceiveConfiguration ==
  /\ building # NoNames /\ left = {}
  /\ cfg' = building /\ served' = peers
  /\ building' = NoNames /\ mapping' = <<>>
  /\ UNCHANGED <<peers, left>>

resolverNext == refreshDNSConfig \/ (\E key \in left : Visit(key)) \/ ReceiveConfiguration

resolverSpec == resolverInit /\ [][resolverNext]_resolverVars

-----------------------------------------------------------------------------
(* The handlers. A question is a name in any case and a type; an answer a  *)
(* code and the addresses or names in it.                                  *)

Reply(rcode, answer) == [rcode |-> rcode, answer |-> answer]

\* One answer to each question for an address, in their order.
dnsLocalDomainHandler(questions) ==
  LET asked    == {i \in DOMAIN questions : questions[i].type \in {"A", "AAAA", "ANY"}}
      Name(i)  == Lower[questions[i].name]
      Found(i) == Name(i) \in DOMAIN cfg.direct
  IN  Reply(IF \A i \in asked : Found(i) THEN "success" ELSE "nxdomain",
            [i \in asked |-> IF Found(i) THEN cfg.direct[Name(i)] ELSE "none"])

\* The upstream server answers or does not; before the first configuration
\* there is none.
dnsProxyHandler ==
  {Reply("servfail", <<>>)} \cup (IF cfg.upstream THEN {Reply("upstream", <<>>)} ELSE {})

ptrv4Handler(ip) ==
  IF ip \in DOMAIN cfg.reverse THEN {Reply("success", <<cfg.reverse[ip]>>)} ELSE dnsProxyHandler

-----------------------------------------------------------------------------
(* Properties.                                                             *)

\* While names are replaced, and in whatever order, the answers are those of
\* the peers of one configuration: an id or a domain name, in upper or lower
\* case, has the address of a peer that bears it, the name of the admin page
\* always its own, and a name of nobody does not exist.
NamesResolve ==
  \A n \in DOMAIN Lower, t \in {"A", "MX"} :
    LET bearers == {p \in DOMAIN served : Lower[n] \in {Lower[p], served[p].domain}}
        ips     == IF Lower[n] = Admin THEN {AdminIP} ELSE {served[p].ip : p \in bearers}
        reply   == dnsLocalDomainHandler(<<[name |-> n, type |-> t]>>)
    IN  /\ t = "MX" => reply.rcode = "success" /\ DOMAIN reply.answer = {}
        /\ t = "A" /\ ips = {} => reply.rcode = "nxdomain"
        /\ t = "A" /\ ips # {} /\ cfg.upstream =>
             reply.rcode = "success" /\ reply.answer[1] \in ips

\* A peer took the id of another, in lower case, as its domain name, or has one
\* that differs in nothing but case: the two names are one key of
\* directMapping, and the order of the map decides.
Impersonated(f) ==
  \E p, q \in DOMAIN f : p # q /\ Lower[q] \in {f[p].domain, Lower[p]}

\* The name an address has leads back to that address, and no name that does
\* is shorter; the address of a peer is never asked of the upstream server.
PtrRoundTrip ==
  ~Impersonated(served) =>
    \A p \in DOMAIN served : \A reply \in ptrv4Handler(served[p].ip) :
      LET name == reply.answer[1] IN
      /\ reply.rcode = "success"
      /\ dnsLocalDomainHandler(<<[name |-> name, type |-> "A"]>>).answer[1] = served[p].ip
      /\ \A n \in DOMAIN cfg.direct : cfg.direct[n] = served[p].ip => Length[name] <= Length[n]
=============================================================================
