--------------------------- MODULE RegistryProofs ---------------------------
(* Proofs about Registry: for any set of peers, any number of handlers and *)
(* of calls, and any subnet, names and addresses are unique as far as      *)
(* AliasesUnique and AddressesUnique say, and loading changes nothing that *)
(* is in order.                                                            *)
EXTENDS Registry, WellFoundedInduction, FiniteSetTheorems, SequenceTheorems, TLAPS

-----------------------------------------------------------------------------
(* The inductive invariant.                                                *)

Part == {"peer"} \cup STRING \cup Nat
Peer == [alias : Seq(Part), ip : Int]
Call == [pc : {"idle", "auto", "get", "alias", "ip", "upsert", "setAlias", "set", "status"},
         peer : PeerID \cup {""}, alias : Seq(Part), ip : Int, stale : BOOLEAN]

Typed ==
  /\ DOMAIN known \subseteq PeerID /\ known \in [DOMAIN known -> Peer]
  /\ todo \subseteq DOMAIN known
  /\ th \in [Goroutines -> Call]

\* While the configuration is loaded no handler runs, and uniq holds the names
\* of the peers that are done.
Loading ==
  todo # {} => /\ uniq = {known[p].alias : p \in DOMAIN known \ todo}
               /\ \A g \in Goroutines : th[g] = Idle

\* The first address after the subnet, and those a peer may have.
End  == incrementIPAddr(LastIP)
Good == Subnet \cup {End} \cup FileIP

\* Also the peers that are not loaded yet have addresses of their own, or none.
Addressed ==
  /\ \A p \in DOMAIN known : known[p].ip \in Good \/ (p \in todo /\ known[p].ip = NoAddr)
  /\ \A p, q \in DOMAIN known :
       p # q /\ known[p].ip = known[q].ip =>
         {p, q} \cap overtaken # {} \/ known[p].ip \in {End, NoAddr}

\* What a handler has read or checked is still so unless another write overtook it.
Current(t) ==
  /\ t.pc \in {"ip", "upsert", "set"} => \A q \in DOMAIN known \ {t.peer} : known[q].alias # t.alias
  /\ t.pc = "upsert" => \A q \in DOMAIN known \ {t.peer} : known[q].ip = t.ip => t.ip = End
  /\ t.pc = "status" => t.peer \in DOMAIN known /\ known[t.peer] = [alias |-> t.alias, ip |-> t.ip]

Handling(t) ==
  t.pc # "idle" =>
    /\ t.peer \in PeerID
    /\ t.pc # "auto" => t.alias # NoAlias
    /\ t.pc \in {"upsert", "status"} => t.ip \in Good
    /\ ~t.stale => Current(t)

Handlers == \A g \in Goroutines : Handling(th[g])

Inv == Typed /\ Loading /\ AliasesUnique /\ Addressed /\ Handlers

-----------------------------------------------------------------------------
(* Numbers.                                                                *)

\* A set of natural numbers that is not empty has a least element.
LEMMA Least ==
  ASSUME NEW S, S \subseteq Nat, S # {}
  PROVE  Min(S) \in S /\ \A y \in S : Min(S) <= y
<1>1. \E x \in S : \A y \in S : ~(<<y, x>> \in OpToRel(<, Nat))
  BY NatLessThanWellFounded, WFMin, Zenon
<1>2. ASSUME NEW x \in Nat, NEW y \in Nat PROVE <<y, x>> \in OpToRel(<, Nat) <=> y < x
  <2>1. OpToRel(<, Nat) = {s \in Nat \X Nat : s[1] < s[2]}
    BY Zenon DEF OpToRel
  <2> QED
    BY <2>1, Zenon
<1>3. \A x, y \in Nat : ~(y < x) => x <= y
  OBVIOUS
<1>4. \E x \in S : \A y \in S : x <= y
  BY <1>1, <1>2, <1>3, Zenon
<1> QED
  BY <1>4, Zenon DEF Min

\* A set of integers with a bound, not empty, has a greatest element.
LEMMA Greatest ==
  ASSUME NEW a \in Int, NEW b \in Int, NEW S, S \subseteq a .. b, S # {}
  PROVE  Max(S) \in S /\ \A y \in S : Max(S) >= y
<1> DEFINE D == {b - x : x \in S}
<1>1. D \subseteq Nat /\ D # {}
  <2>1. \A x \in S : b - x \in Nat
    OBVIOUS
  <2>2. \E x \in S : b - x \in D
    BY Zenon
  <2> QED
    BY <2>1, <2>2, Zenon
<1>2. Min(D) \in D /\ \A y \in D : Min(D) <= y
  BY <1>1, Least, Zenon
<1>3. PICK x \in S : Min(D) = b - x
  BY <1>2, Zenon
<1>4. ASSUME NEW y \in S PROVE x >= y
  <2>1. b - y \in D /\ y \in Int /\ x \in Int
    BY <1>4
  <2>2. b - x <= b - y
    BY <1>2, <1>3, <2>1, Zenon
  <2> QED
    BY <2>1, <2>2
<1> QED
  BY <1>3, <1>4, Zenon DEF Max

\* incrementIPAddr adds one, except to the last address there is.
LEMMA Increment ==
  ASSUME NEW ip \in 0 .. 2^Width - 1
  PROVE  /\ incrementIPAddr(ip) = IF ip = 2^Width - 1 THEN 0 ELSE ip + 1
         /\ incrementIPAddr(ip) \in Nat
<1>0. 2^Width \in Nat
  BY SubnetAssumption, Zenon
<1> DEFINE m == 2^Width
<1>1. \A a, n \in Nat : n > 0 /\ a < n => a % n = a
  OBVIOUS
<1>2. \A n \in Nat : n > 0 => n % n = 0
  OBVIOUS
<1> HIDE DEF m
<1> QED
  BY <1>0, <1>1, <1>2 DEF incrementIPAddr, m

\* The addresses.
LEMMA Addresses ==
  /\ FirstIP \in Nat /\ LastIP \in Nat /\ LocalIP \in Subnet /\ Subnet \subseteq 0 .. 2^Width - 1
  /\ FileIP \subseteq Nat /\ UserIP \subseteq Nat /\ End \in Nat /\ Good \subseteq Nat /\ NoAddr \notin Good
<1>1. /\ 2^Width \in Nat /\ FirstIP \in 0 .. 2^Width - 1 /\ LastIP \in 0 .. 2^Width - 1 /\ LocalIP \in 0 .. 2^Width - 1
      /\ UserIP \subseteq 0 .. 2^Width - 1 /\ FileIP \subseteq 0 .. 2^Width - 1 /\ FirstIP <= LocalIP /\ LocalIP <= LastIP
  BY SubnetAssumption, Zenon
<1>2. End \in Nat
  BY <1>1, Increment, Zenon DEF End
<1>3. /\ FirstIP \in Nat /\ LastIP \in Nat /\ LocalIP \in Subnet /\ Subnet \subseteq 0 .. 2^Width - 1
      /\ FileIP \subseteq Nat /\ UserIP \subseteq Nat /\ Subnet \subseteq Nat
  BY <1>1 DEF Subnet
<1>4. Good \subseteq Nat
  BY <1>2, <1>3, Zenon DEF Good
<1> QED
  BY <1>2, <1>3, <1>4 DEF NoAddr

\* The addresses GenerateNextIpAddrExcept looks at, the largest of them, and the
\* k-th address after that, round the end of all addresses.
InUse      == {LocalIP} \cup ({known[p].ip : p \in DOMAIN known} \cap Subnet)
Largest    == Max(InUse)
Wrapped(k) == IF Largest + k < 2^Width THEN Largest + k ELSE Largest + k - 2^Width

\* The largest address in use is one of the subnet.
LEMMA LargestInUse ==
  ASSUME Typed
  PROVE  /\ Largest \in Subnet /\ Largest \in 0 .. 2^Width - 1
         /\ \A q \in DOMAIN known : known[q].ip \in Subnet => Largest >= known[q].ip
<1>1. LocalIP \in Subnet
  BY Addresses, Zenon
<1>2. InUse \subseteq Subnet /\ InUse # {}
  BY <1>1, Zenon DEF InUse
<1>3. FirstIP \in Int /\ LastIP \in Int /\ InUse \subseteq FirstIP .. LastIP
  BY <1>2, Addresses DEF Subnet
<1>4. Largest \in InUse /\ \A y \in InUse : Largest >= y
  BY <1>2, <1>3, Greatest, Zenon DEF Largest
<1>5. \A q \in DOMAIN known : known[q].ip \in Subnet => known[q].ip \in InUse
  BY Zenon DEF InUse
<1>6. Subnet \subseteq 0 .. 2^Width - 1
  BY Addresses, Zenon
<1> QED
  BY <1>2, <1>4, <1>5, <1>6, Zenon

\* incrementIPAddr goes from one of these addresses to the next, and they do not
\* repeat before all addresses are used.
LEMMA Round ==
  ASSUME Typed
  PROVE  /\ \A k \in 0 .. 2^Width - 1 : incrementIPAddr(Wrapped(k)) = Wrapped(k + 1)
         /\ Wrapped(0) = Largest
         /\ \A k \in 0 .. 2^Width : Wrapped(k) \in Nat
         /\ \A j, k \in 1 .. 2^Width : Wrapped(j) = Wrapped(k) => j = k
<1> DEFINE M == 2^Width
<1>1. Largest \in 0 .. M - 1 /\ M \in Nat
  BY LargestInUse, SubnetAssumption, Zenon
<1>2. \A ip \in 0 .. M - 1 : incrementIPAddr(ip) = IF ip = M - 1 THEN 0 ELSE ip + 1
  BY Increment, Zenon
<1>3. \A k : Wrapped(k) = IF Largest + k < M THEN Largest + k ELSE Largest + k - M
  BY Zenon DEF Wrapped
<1> HIDE DEF M
<1>4. ASSUME NEW k \in 0 .. M - 1 PROVE incrementIPAddr(Wrapped(k)) = Wrapped(k + 1)
  <2>1. Wrapped(k) \in 0 .. M - 1
    BY <1>1, <1>3
  <2>2. incrementIPAddr(Wrapped(k)) = IF Wrapped(k) = M - 1 THEN 0 ELSE Wrapped(k) + 1
    BY <1>2, <2>1, Zenon
  <2> QED
    BY <1>1, <1>3, <2>2, SMTT(30)
<1>5. Wrapped(0) = Largest /\ \A k \in 0 .. M : Wrapped(k) \in Nat
  BY <1>1, <1>3, SMTT(30)
<1>6. \A j, k \in 1 .. M : Wrapped(j) = Wrapped(k) => j = k
  BY <1>1, <1>3
<1> QED
  BY <1>4, <1>5, <1>6, Zenon DEF M

\* When the next c addresses are excepted, GenerateNextIpAddrExcept finds the one
\* after them.
LEMMA NextFree ==
  ASSUME Typed, NEW c \in 0 .. 2^Width - 1
  PROVE  GenerateNextIpAddrExcept({Wrapped(k) : k \in 1 .. c}) = Wrapped(c + 1)
<1> DEFINE except == {Wrapped(k) : k \in 1 .. c}
           Rec(h) == h = [n \in 0 .. Cardinality(except) |-> incrementIPAddr(IF n = 0 THEN Largest ELSE h[n - 1])]
           after  == CHOOSE h : Rec(h)
           first  == {n \in DOMAIN after : after[n] \notin except}
           f      == [n \in 0 .. c |-> Wrapped(n + 1)]
<1>1. GenerateNextIpAddrExcept(except) = after[Min(first)]
  BY Zenon DEF GenerateNextIpAddrExcept, InUse, Largest
<1>2. /\ 2^Width \in Nat /\ c \in Nat /\ Wrapped(0) = Largest
      /\ \A k \in 0 .. c : incrementIPAddr(Wrapped(k)) = Wrapped(k + 1)
      /\ \A j, k \in 1 .. c + 1 : Wrapped(j) = Wrapped(k) => j = k
  <2>1. 2^Width \in Nat
    BY SubnetAssumption, Zenon
  <2>2. 0 .. c \subseteq 0 .. 2^Width - 1 /\ 1 .. c + 1 \subseteq 1 .. 2^Width
    BY <2>1
  <2> QED
    BY <2>1, <2>2, Round, SMTT(30)
<1>3. Cardinality(except) = c
  <2> DEFINE b == [k \in 1 .. c |-> Wrapped(k)]
  <2>1. b \in Bijection(1 .. c, except)
    <3>1. b \in [1 .. c -> except] /\ \A x \in except : \E k \in 1 .. c : b[k] = x
      BY Zenon
    <3>2. \A j, k \in 1 .. c : b[j] = b[k] => j = k
      BY <1>2
    <3> QED
      BY <3>1, <3>2, Zenon DEF Bijection, Injection, Surjection, IsInjective
  <2>2. IsFiniteSet(1 .. c) /\ Cardinality(1 .. c) = c
    BY <1>2, FS_Interval
  <2> HIDE DEF b, except
  <2> QED
    BY <2>1, <2>2, FS_Bijection, Zenon DEF ExistsBijection
<1>4. Rec(f)
  <2>1. \A n \in 0 .. c : f[n] = incrementIPAddr(IF n = 0 THEN Largest ELSE f[n - 1])
    BY <1>2
  <2> HIDE DEF except
  <2> QED
    BY <1>3, <2>1, Zenon
<1>5. Rec(after)
  BY <1>4, Zenon
<1> HIDE DEF except
<1>6. DOMAIN after = 0 .. c /\ \A n \in 0 .. c : after[n] = incrementIPAddr(IF n = 0 THEN Largest ELSE after[n - 1])
  BY <1>3, <1>5, Zenon
<1> HIDE DEF after
<1>7. \A n \in 0 .. c : after[n] = Wrapped(n + 1)
  <2> DEFINE S == {n \in 0 .. c : after[n] # Wrapped(n + 1)}
  <2> SUFFICES ASSUME S # {} PROVE FALSE
    BY Zenon
  <2>1. S \subseteq Nat
    BY <1>2
  <2> DEFINE l == Min(S)
  <2> HIDE DEF S
  <2>2. l \in S /\ \A y \in S : l <= y
    BY <2>1, Least, Zenon
  <2> HIDE DEF l
  <2>3. l \in 0 .. c /\ after[l] # Wrapped(l + 1) /\ (l = 0 \/ after[l - 1] = Wrapped(l))
    <3>1. l \in 0 .. c /\ after[l] # Wrapped(l + 1)
      BY <2>2, Zenon DEF S
    <3>2. l # 0 => l - 1 \in 0 .. c /\ l - 1 \notin S /\ l - 1 + 1 = l
      BY <1>2, <2>1, <2>2, <3>1
    <3> QED
      BY <3>1, <3>2, Zenon DEF S
  <2> QED
    BY <1>2, <1>6, <2>3, Zenon
<1>8. first = {c}
  <2>1. c \in first
    <3>1. Wrapped(c + 1) \notin except
      BY <1>2 DEF except
    <3> QED
      BY <1>2, <1>6, <1>7, <3>1
  <2>2. ASSUME NEW n \in first PROVE n = c
    <3>1. n \in 0 .. c /\ after[n] = Wrapped(n + 1) /\ Wrapped(n + 1) \notin except
      BY <1>6, <1>7, Zenon
    <3>2. n + 1 \notin 1 .. c
      BY <3>1, Zenon DEF except
    <3> QED
      BY <1>2, <3>1, <3>2
  <2> QED
    BY <2>1, <2>2, Zenon
<1> HIDE DEF first
<1>9. Min(first) = c
  BY <1>2, <1>8, Least, SMTT(30)
<1> QED
  BY <1>1, <1>2, <1>6, <1>7, <1>9, SMTT(30) DEF except

\* GenerateNextIpAddr is the address after the largest one in use, so nobody has
\* it unless the subnet is used up to its end.
LEMMA NextIP ==
  ASSUME Typed
  PROVE  /\ GenerateNextIpAddr \in Good
         /\ \A q \in DOMAIN known : known[q].ip = GenerateNextIpAddr => GenerateNextIpAddr = End
<1> DEFINE m == Largest
<1>1. m \in Subnet /\ m \in 0 .. 2^Width - 1 /\ \A q \in DOMAIN known : known[q].ip \in Subnet => m >= known[q].ip
  BY LargestInUse, Zenon
<1>2. GenerateNextIpAddr = incrementIPAddr(m)
  <2>1. 0 \in 0 .. 2^Width - 1 /\ 0 + 1 = 1 /\ {Wrapped(k) : k \in 1 .. 0} = {}
    BY <1>1, SubnetAssumption
  <2>2. GenerateNextIpAddr = Wrapped(1)
    BY <2>1, NextFree, Zenon DEF GenerateNextIpAddr
  <2> QED
    BY <2>1, <2>2, Round, Zenon
<1> HIDE DEF m
<1>3. CASE m = LastIP
  BY <1>2, <1>3, Addresses, Zenon DEF End, Good
<1>4. CASE m # LastIP
  <2>1. GenerateNextIpAddr = m + 1 /\ m + 1 \in Subnet /\ m \in Nat
    <3>1. m < LastIP /\ m >= FirstIP /\ LastIP \in 0 .. 2^Width - 1
      BY <1>1, <1>4, Addresses, SubnetAssumption, SMTT(30) DEF Subnet
    <3>2. incrementIPAddr(m) = IF m = 2^Width - 1 THEN 0 ELSE m + 1
      BY <1>1, Increment, Zenon
    <3>3. m # 2^Width - 1 /\ m + 1 \in Subnet /\ m \in Nat
      BY <1>1, <3>1, Addresses, SubnetAssumption, SMTT(30) DEF Subnet
    <3> QED
      BY <1>2, <3>2, <3>3, Zenon
  <2>2. ASSUME NEW q \in DOMAIN known, known[q].ip = m + 1 PROVE FALSE
    BY <1>1, <2>1, <2>2
  <2> QED
    BY <2>1, <2>2, Zenon DEF Good
<1> QED
  BY <1>3, <1>4, Zenon

\* The n addresses SuggestedIPs lists are those after the largest one in use.
LEMMA Suggested ==
  ASSUME Typed, NEW n \in 0 .. MaxRequests
  PROVE  SuggestedIPs(n) = [k \in 1 .. n |-> Wrapped(k)]
<1> DEFINE Rec(h) == h = [i \in 0 .. n |-> IF i = 0 THEN <<>>
                                           ELSE Append(h[i - 1], GenerateNextIpAddrExcept(Range(h[i - 1])))]
           ips    == CHOOSE h : Rec(h)
           s(i)   == [k \in 1 .. i |-> Wrapped(k)]
           f      == [i \in 0 .. n |-> s(i)]
<1>1. SuggestedIPs(n) = ips[n]
  BY Zenon DEF SuggestedIPs
<1>2. n \in Nat /\ 2^Width \in Nat /\ n < 2^Width
  BY RequestsAssumption, SubnetAssumption, SMTT(30)
<1>3. s(0) = <<>>
  OBVIOUS
<1>4. ASSUME NEW i \in 1 .. n
      PROVE  Append(s(i - 1), GenerateNextIpAddrExcept(Range(s(i - 1)))) = s(i)
  <2> DEFINE r == s(i - 1)
  <2>1. i - 1 \in 0 .. 2^Width - 1 /\ i - 1 \in Nat /\ i - 1 + 1 = i /\ i \in Nat /\ 1 .. i \subseteq 0 .. 2^Width
    BY <1>2, SMTT(30)
  <2>2. GenerateNextIpAddrExcept(Range(r)) = Wrapped(i)
    <3>1. Range(r) = {Wrapped(k) : k \in 1 .. i - 1}
      BY Zenon DEF Range
    <3> QED
      BY <2>1, <3>1, NextFree, Zenon
  <2>3. \A k \in 1 .. i : Wrapped(k) \in Nat
    BY <2>1, Round, Zenon
  <2>4. 1 .. i - 1 \subseteq 1 .. i /\ i \in 1 .. i
    BY <2>1
  <2>5. r \in Seq(Nat) /\ Len(r) = i - 1 /\ s(i) \in Seq(Nat) /\ Len(s(i)) = i /\ Wrapped(i) \in Nat
    BY <2>1, <2>3, <2>4
  <2>6. /\ \A k \in 1 .. i - 1 : r[k] = Wrapped(k)
        /\ \A k \in 1 .. i : s(i)[k] = Wrapped(k)
    BY Zenon
  <2> DEFINE u == s(i)
  <2> HIDE DEF r, u
  <2>7. Append(r, Wrapped(i)) = u
    <3>1. /\ Append(r, Wrapped(i)) \in Seq(Nat) /\ Len(Append(r, Wrapped(i))) = i
          /\ \A k \in 1 .. i - 1 : Append(r, Wrapped(i))[k] = r[k]
          /\ Append(r, Wrapped(i))[i] = Wrapped(i)
      BY <2>1, <2>5, AppendProperties
    <3>2. u \in Seq(Nat) /\ Len(u) = i /\ \A k \in 1 .. i : u[k] = Wrapped(k)
      BY <2>5, <2>6, Zenon DEF u
    <3>3. \A k \in 1 .. i : Append(r, Wrapped(i))[k] = u[k]
      <4>1. \A k \in 1 .. i : k = i \/ k \in 1 .. i - 1
        BY <2>1
      <4>2. i \in 1 .. i
        BY <2>1
      <4> QED
        BY <2>6, <3>1, <3>2, <4>1, <4>2, Zenon
    <3> QED
      BY <3>1, <3>2, <3>3, SeqEqual, Zenon
  <2> QED
    BY <2>2, <2>7, Zenon DEF r, u
<1> HIDE DEF s
<1>5. Rec(f)
  <2>1. \A i \in 0 .. n : i # 0 => i \in 1 .. n /\ i - 1 \in 0 .. n
    BY <1>2
  <2>2. \A i \in 0 .. n : f[i] = s(i)
    BY Zenon
  <2>3. \A i \in 0 .. n : f[i] = IF i = 0 THEN <<>> ELSE Append(f[i - 1], GenerateNextIpAddrExcept(Range(f[i - 1])))
    BY <1>3, <1>4, <2>1, <2>2, Zenon
  <2>4. f = [i \in 0 .. n |-> f[i]]
    BY Zenon
  <2> HIDE DEF f
  <2> QED
    BY <2>3, <2>4, Zenon
<1>6. Rec(ips)
  BY <1>5, Zenon
<1> HIDE DEF ips
<1>7. \A i \in 0 .. n : ips[i] = IF i = 0 THEN <<>> ELSE Append(ips[i - 1], GenerateNextIpAddrExcept(Range(ips[i - 1])))
  BY <1>6, Zenon
<1>8. \A i \in 0 .. n : ips[i] = s(i)
  <2> DEFINE S == {i \in 0 .. n : ips[i] # s(i)}
  <2> SUFFICES ASSUME S # {} PROVE FALSE
    BY Zenon
  <2>1. S \subseteq Nat
    BY <1>2
  <2> DEFINE l == Min(S)
  <2> HIDE DEF S
  <2>2. l \in S /\ \A y \in S : l <= y
    BY <2>1, Least, Zenon
  <2> HIDE DEF l
  <2>3. l \in 0 .. n /\ ips[l] # s(l)
    BY <2>2, Zenon DEF S
  <2>4. l # 0 => l \in 1 .. n /\ l - 1 \in 0 .. n /\ l - 1 \notin S
    BY <1>2, <2>1, <2>2, <2>3, SMTT(30)
  <2>5. l # 0 => ips[l - 1] = s(l - 1)
    BY <2>4, Zenon DEF S
  <2> QED
    BY <1>3, <1>4, <1>7, <2>3, <2>4, <2>5, Zenon
<1>9. n \in 0 .. n
  BY <1>2
<1> QED
  BY <1>1, <1>8, <1>9, Zenon DEF s

-----------------------------------------------------------------------------
(* Aliases.                                                                *)

\* genUniqPeerAlias finds a name that is not taken: of one more numbers than there
\* are names one is free. A name that is free is kept.
LEMMA FreshAlias ==
  ASSUME NEW name \in STRING, NEW alias \in Seq(Part), NEW taken, IsFiniteSet(taken)
  PROVE  /\ genUniqPeerAlias(name, alias, taken) \in Seq(Part) \ {NoAlias}
         /\ genUniqPeerAlias(name, alias, taken) \notin taken
         /\ alias # NoAlias /\ alias \notin taken => genUniqPeerAlias(name, alias, taken) = alias
<1> DEFINE base == IF alias # NoAlias THEN alias ELSE IF name = "" THEN DefaultPeerAlias ELSE <<name>>
           n    == Cardinality(taken)
           free == {i \in 0 .. n : Append(base, i) \notin taken}
<1>1. base \in Seq(Part) /\ base # NoAlias
  <2>0. \A s \in Part : <<s>> \in Seq(Part) /\ <<s>> # <<>>
    OBVIOUS
  <2>1. \A s \in STRING : <<s>> \in Seq(Part) /\ <<s>> # <<>>
    BY <2>0, Zenon DEF Part
  <2>2. DefaultPeerAlias \in Seq(Part) /\ DefaultPeerAlias # NoAlias
    <3>1. "peer" \in Part
      BY Zenon DEF Part
    <3> QED
      BY <2>0, <3>1, Zenon DEF DefaultPeerAlias, NoAlias
  <2> QED
    BY <2>1, <2>2, Zenon DEF NoAlias
<1>2. genUniqPeerAlias(name, alias, taken) = IF base \in taken THEN Append(base, Min(free)) ELSE base
  BY Zenon DEF genUniqPeerAlias
<1>3. alias # NoAlias => base = alias
  BY Zenon
<1> HIDE DEF base
<1>4. n \in Nat /\ IsFiniteSet(0 .. n) /\ Cardinality(0 .. n) = n + 1
  BY FS_CardinalityType, FS_Interval
<1>5. ASSUME NEW i \in Nat PROVE Append(base, i) \in Seq(Part) \ {NoAlias} /\ Append(base, i)[Len(base) + 1] = i
  BY <1>1 DEF Part, NoAlias
<1> HIDE DEF n
<1>6. free # {}
  <2> SUFFICES ASSUME free = {} PROVE FALSE
    BY Zenon
  <2> DEFINE f == [i \in 0 .. n |-> Append(base, i)]
  <2>0. \A i \in 0 .. n : Append(base, i) \in taken
    BY Zenon
  <2>1. f \in [0 .. n -> taken]
    BY <2>0, Zenon
  <2>2. n < n + 1
    BY <1>4
  <2>3. \E x, y \in 0 .. n : x # y /\ f[x] = f[y]
    <3>1. Cardinality(taken) < Cardinality(0 .. n)
      BY <1>4, <2>2, Zenon DEF n
    <3> HIDE DEF f
    <3> QED
      BY <1>4, <2>1, <3>1, FS_PigeonHole, SMTT(30)
  <2>4. PICK x \in 0 .. n, y \in 0 .. n : x # y /\ Append(base, x) = Append(base, y)
    BY <2>3, Zenon
  <2>5. x \in Nat /\ y \in Nat
    BY <1>4
  <2> QED
    BY <1>5, <2>4, <2>5, Zenon
<1>7. Min(free) \in free /\ Min(free) \in Nat
  <2>1. free \subseteq Nat
    BY <1>4
  <2> QED
    BY <1>6, <2>1, Least, Zenon
<1>8. Append(base, Min(free)) \notin taken /\ Append(base, Min(free)) \in Seq(Part) \ {NoAlias}
  BY <1>5, <1>7, Zenon
<1> QED
  BY <1>1, <1>2, <1>3, <1>8, Zenon

\* What a user types is an alias.
LEMMA TypedAlias ==
  ASSUME NEW a \in Alias
  PROVE  a \in Seq(Part) \ {NoAlias}
<1>1. /\ Len(a) \in Nat \ {0} /\ a = [i \in 1 .. Len(a) |-> a[i]]
      /\ a[1] \in STRING /\ \A i \in 2 .. Len(a) : a[i] \in Nat
  BY AliasAssumption, Zenon
<1>2. \A i \in 1 .. Len(a) : a[i] \in Part
  BY <1>1 DEF Part
<1>3. a \in Seq(Part)
  BY <1>1, <1>2
<1> QED
  BY <1>1, <1>3 DEF NoAlias

\* The names that are taken are finitely many.
LEMMA FewNames ==
  ASSUME Typed, NEW S \in SUBSET DOMAIN known
  PROVE  IsFiniteSet({known[p].alias : p \in S})
<1>1. IsFiniteSet(S)
  BY FS_Subset, PeerAssumption, Zenon DEF Typed
<1> DEFINE f == [p \in S |-> known[p].alias]
           T == {known[p].alias : p \in S}
<1>2. f \in Surjection(S, T)
  BY Zenon DEF Surjection
<1> HIDE DEF f
<1> QED
  BY <1>1, <1>2, FS_Surjection, Zenon

-----------------------------------------------------------------------------
(* The invariant is inductive: one lemma per kind of step.                 *)

\* A handler that has not started.
LEMMA IdleCall == Idle \in Call /\ Idle.pc = "idle" /\ Handling(Idle)
<1>1. NoAlias \in Seq(Part) /\ NoAddr \in Int
  BY DEF NoAlias, NoAddr
<1> QED
  BY <1>1, Zenon DEF Idle, Call, Handling

\* Whatever the file holds, the invariant holds before it is loaded.
LEMMA InitInv == Init => Inv
<1> SUFFICES ASSUME Init PROVE Inv
  BY Zenon
<1>1. PICK S \in SUBSET PeerID : known \in [S -> [alias : Alias \cup {NoAlias}, ip : FileIP \cup {NoAddr}]]
  BY Zenon DEF Init
<1>2. DOMAIN known = S /\ \A p \in S : known[p] \in [alias : Alias \cup {NoAlias}, ip : FileIP \cup {NoAddr}]
  BY <1>1, Zenon
<1>3. [alias : Alias \cup {NoAlias}, ip : FileIP \cup {NoAddr}] \subseteq Peer
  <2>1. Alias \cup {NoAlias} \subseteq Seq(Part)
    <3>1. NoAlias \in Seq(Part)
      BY DEF NoAlias
    <3> QED
      BY <3>1, TypedAlias, Zenon
  <2>2. FileIP \cup {NoAddr} \subseteq Int
    <3>1. FileIP \subseteq Nat
      BY Addresses, Zenon
    <3> QED
      BY <3>1 DEF NoAddr
  <2> QED
    BY <2>1, <2>2, Zenon DEF Peer
<1>4. todo = S /\ uniq = {} /\ th = [g \in Goroutines |-> Idle]
  BY <1>2, Zenon DEF Init
<1>5. Typed
  BY <1>1, <1>2, <1>3, <1>4, IdleCall, Zenon DEF Typed
<1>6. Loading
  BY <1>2, <1>4, Zenon DEF Loading
<1>7. AliasesUnique
  BY <1>2, <1>4, Zenon DEF AliasesUnique
<1>8. Addressed
  <2>1. \A p \in S : known[p].ip \in FileIP \cup {NoAddr}
    BY <1>2, Zenon
  <2>2. \A p, q \in DOMAIN known : p # q /\ known[p].ip = known[q].ip => known[p].ip = NoAddr
    BY Zenon DEF Init
  <2> QED
    BY <1>2, <1>4, <2>1, <2>2, Zenon DEF Addressed, Good
<1>9. Handlers
  BY <1>4, IdleCall, Zenon DEF Handlers
<1> QED
  BY <1>5, <1>6, <1>7, <1>8, <1>9, Zenon DEF Inv

\* The known peers after one of them was written.
LEMMA Written ==
  ASSUME Typed, NEW p \in PeerID, NEW a \in Seq(Part), NEW i \in Int,
         known' = [q \in DOMAIN known \cup {p} |-> IF q = p THEN [alias |-> a, ip |-> i] ELSE known[q]]
  PROVE  /\ DOMAIN known' = DOMAIN known \cup {p} /\ DOMAIN known' \subseteq PeerID
         /\ known' \in [DOMAIN known' -> Peer]
         /\ known'[p] = [alias |-> a, ip |-> i] /\ known'[p].alias = a /\ known'[p].ip = i
         /\ \A q \in DOMAIN known \ {p} : known'[q] = known[q]
<1>1. [alias |-> a, ip |-> i] \in Peer
  BY Zenon DEF Peer
<1> DEFINE rec == [alias |-> a, ip |-> i]
<1>2. rec.alias = a /\ rec.ip = i
  BY Zenon
<1> HIDE DEF rec
<1>3. known' = [q \in DOMAIN known \cup {p} |-> IF q = p THEN rec ELSE known[q]] /\ rec \in Peer
  BY <1>1, Zenon DEF rec
<1>4. /\ DOMAIN known' = DOMAIN known \cup {p} /\ DOMAIN known' \subseteq PeerID
      /\ known' \in [DOMAIN known' -> Peer] /\ known'[p] = rec
      /\ \A q \in DOMAIN known \ {p} : known'[q] = known[q]
  BY <1>3, Zenon DEF Typed
<1> QED
  BY <1>2, <1>4, Zenon DEF rec

\* Addresses stay apart when a peer is written with one that nobody else has.
LEMMA AddressWritten ==
  ASSUME Inv, NEW p \in PeerID, NEW i \in Good, p \notin todo', overtaken \subseteq overtaken',
         \A q \in DOMAIN known \ {p} : q \in todo => q \in todo',
         DOMAIN known' = DOMAIN known \cup {p}, known'[p].ip = i,
         \A q \in DOMAIN known \ {p} : known'[q] = known[q],
         \A q \in DOMAIN known \ {p} : known[q].ip = i => i = End \/ {p, q} \cap overtaken' # {}
  PROVE  Addressed'
<1>1. \A q \in DOMAIN known' : known'[q].ip \in Good \/ (q \in todo' /\ known'[q].ip = NoAddr)
  BY Zenon DEF Inv, Addressed
<1>2. ASSUME NEW q \in DOMAIN known', NEW r \in DOMAIN known', q # r, known'[q].ip = known'[r].ip
      PROVE  {q, r} \cap overtaken' # {} \/ known'[q].ip \in {End, NoAddr}
  <2>1. CASE q = p
    BY <1>2, <2>1, Zenon
  <2>2. CASE r = p
    BY <1>2, <2>2, SMTT(30)
  <2>3. CASE q # p /\ r # p
    <3>1. {q, r} \cap overtaken # {} \/ known[q].ip \in {End, NoAddr}
      BY <1>2, <2>3, Zenon DEF Inv, Addressed
    <3> QED
      BY <1>2, <2>3, <3>1, Zenon
  <2> QED
    BY <2>1, <2>2, <2>3, Zenon
<1> QED
  BY <1>1, <1>2, Zenon DEF Addressed, Good, End

\* One turn of the loop of setDefaults: the name it gives is not taken, and
\* neither is the address.
LEMMA LoadStep ==
  ASSUME Inv, NEW p \in todo, setDefaults(p)
  PROVE  Inv'
<1> USE DEF Inv
<1> DEFINE a == genUniqPeerAlias(Name[p], known[p].alias, uniq)
           i == IF known[p].ip = NoAddr THEN GenerateNextIpAddr ELSE known[p].ip
<1>1. /\ known' = [known EXCEPT ![p] = [alias |-> a, ip |-> i]]
      /\ uniq' = IF todo = {p} THEN {} ELSE uniq \cup {a}
      /\ todo' = todo \ {p} /\ UNCHANGED <<th, calls, overtaken>>
  BY Zenon DEF setDefaults
<1>2. p \in DOMAIN known /\ p \in PeerID /\ known[p].alias \in Seq(Part) /\ known[p].ip \in Int
  BY Zenon DEF Typed, Peer
<1>3. uniq = {known[q].alias : q \in DOMAIN known \ todo} /\ \A g \in Goroutines : th[g] = Idle
  BY Zenon DEF Loading
<1>4. a \in Seq(Part) \ {NoAlias} /\ a \notin uniq
  <2>1. IsFiniteSet(uniq)
    BY <1>3, FewNames, Zenon
  <2>2. Name[p] \in STRING
    BY <1>2, PeerAssumption, Zenon
  <2> QED
    BY <1>2, <2>1, <2>2, FreshAlias, ZenonT(60)
<1>5. i \in Good /\ \A q \in DOMAIN known \ {p} : known[q].ip = i => i = End \/ {p, q} \cap overtaken # {}
  <2>1. CASE known[p].ip = NoAddr
    BY <2>1, NextIP, Zenon
  <2>2. CASE known[p].ip # NoAddr
    BY <1>2, <2>2, Zenon DEF Addressed
  <2> QED
    BY <2>1, <2>2, Zenon
<1> HIDE DEF a, i
<1>6. i \in Int
  BY <1>5, Addresses, SMTT(30)
<1>7. known' = [q \in DOMAIN known \cup {p} |-> IF q = p THEN [alias |-> a, ip |-> i] ELSE known[q]]
  BY <1>1, <1>2, ZenonT(60) DEF Typed
<1>8. /\ DOMAIN known' = DOMAIN known /\ DOMAIN known' \subseteq PeerID
      /\ known' \in [DOMAIN known' -> Peer] /\ known'[p].alias = a /\ known'[p].ip = i
      /\ \A q \in DOMAIN known \ {p} : known'[q] = known[q]
  <2>1. Typed /\ a \in Seq(Part)
    BY <1>4, Zenon
  <2>2. /\ DOMAIN known' = DOMAIN known \cup {p} /\ DOMAIN known' \subseteq PeerID
        /\ known' \in [DOMAIN known' -> Peer] /\ known'[p].alias = a /\ known'[p].ip = i
        /\ \A q \in DOMAIN known \ {p} : known'[q] = known[q]
    BY <1>2, <1>6, <1>7, <2>1, Written, ZenonT(60)
  <2>3. DOMAIN known \cup {p} = DOMAIN known
    BY <1>2, Zenon
  <2> QED
    BY <2>2, <2>3, Zenon
<1>9. Typed'
  BY <1>1, <1>8, Zenon DEF Typed
<1>10. DOMAIN known' \ todo' = (DOMAIN known \ todo) \cup {p}
  BY <1>1, <1>2, <1>8, Zenon
<1>11. Loading'
  <2> SUFFICES ASSUME todo' # {} PROVE uniq' = {known'[q].alias : q \in DOMAIN known' \ todo'}
    BY <1>1, <1>3, Zenon DEF Loading
  <2>1. uniq' = uniq \cup {a}
    BY <1>1, Zenon
  <2>2. \A q \in DOMAIN known \ todo : known'[q].alias = known[q].alias
    BY <1>8, Zenon
  <2> QED
    BY <1>3, <1>8, <1>10, <2>1, <2>2, SMTT(30)
<1>12. AliasesUnique'
  <2>1. \A q \in DOMAIN known \ todo : known'[q].alias = known[q].alias /\ known[q].alias # a /\ q # p
    BY <1>3, <1>4, <1>8, Zenon
  <2>2. \A q, r \in DOMAIN known \ todo : q # r => known[q].alias # known[r].alias
    BY Zenon DEF AliasesUnique
  <2>3. \A q \in DOMAIN known \ todo : known[q].alias # NoAlias
    BY Zenon DEF AliasesUnique
  <2>4. ASSUME NEW q \in DOMAIN known' \ todo', NEW r \in DOMAIN known' \ todo', q # r
        PROVE  known'[q].alias # known'[r].alias
    BY <1>8, <1>10, <2>1, <2>2, <2>4, Zenon
  <2>5. \A q \in DOMAIN known' \ todo' : known'[q].alias # NoAlias
    BY <1>4, <1>8, <1>10, <2>1, <2>3, Zenon
  <2> QED
    BY <2>4, <2>5, Zenon DEF AliasesUnique, NoAlias
<1>13. Addressed'
  <2>1. p \notin todo' /\ DOMAIN known' = DOMAIN known \cup {p} /\ overtaken' = overtaken
    BY <1>1, <1>2, <1>8, Zenon
  <2> QED
    BY <1>1, <1>2, <1>5, <1>8, <2>1, AddressWritten, SMTT(30)
<1>14. Handlers'
  BY <1>1, <1>3, IdleCall, Zenon DEF Handlers, Handling
<1> QED
  BY <1>9, <1>11, <1>12, <1>13, <1>14, Zenon

\* The process starts again.
LEMMA RestartStep ==
  ASSUME Inv, Restart
  PROVE  Inv'
<1> USE DEF Inv
<1>1. /\ todo = {} /\ todo' = DOMAIN known /\ uniq' = {} /\ th' = [g \in Goroutines |-> Idle]
      /\ known' = known /\ overtaken' = overtaken
  BY Zenon DEF Restart
<1>2. \A g \in Goroutines : th'[g] = Idle
  BY <1>1, Zenon
<1>3. Typed'
  BY <1>1, IdleCall, Zenon DEF Typed
<1>4. DOMAIN known' \ todo' = {}
  BY <1>1, Zenon
<1>5. Loading' /\ AliasesUnique'
  BY <1>1, <1>2, <1>4, Zenon DEF Loading, AliasesUnique
<1>6. Addressed'
  BY <1>1, Zenon DEF Addressed, Good, End
<1>7. Handlers'
  BY <1>2, IdleCall, Zenon DEF Handlers, Handling
<1> QED
  BY <1>3, <1>5, <1>6, <1>7, Zenon

\* A step of one handler that writes nothing.
LEMMA ThreadStep ==
  ASSUME Inv, todo = {}, UNCHANGED <<known, todo, uniq, overtaken>>,
         NEW g \in Goroutines, NEW t \in Call, th' = [th EXCEPT ![g] = t], Handling(t)
  PROVE  Inv'
<1> USE DEF Inv
<1>1. Typed'
  BY Zenon DEF Typed
<1>2. Loading' /\ AliasesUnique'
  BY DEF Loading, AliasesUnique
<1>3. Addressed'
  BY Zenon DEF Addressed, Good, End
<1>4. Handlers'
  <2> SUFFICES ASSUME NEW h \in Goroutines PROVE Handling(th[h])'
    BY Zenon DEF Handlers
  <2>1. th'[h] = IF h = g THEN t ELSE th[h]
    BY Zenon DEF Typed
  <2>2. Handling(th'[h])
    BY <2>1, Zenon DEF Handlers
  <2> QED
    BY <2>2, Zenon DEF Handling, Current, Good, End
<1> QED
  BY <1>1, <1>2, <1>3, <1>4, Zenon

\* When a peer is written or removed every other handler becomes stale.
LEMMA Overtaking ==
  ASSUME Inv, NEW S \in SUBSET Goroutines,
         th' = [h \in Goroutines |-> IF h \in S \/ th[h].pc = "idle" THEN Idle
                                     ELSE [th[h] EXCEPT !.stale = TRUE]]
  PROVE  th' \in [Goroutines -> Call] /\ Handlers'
<1> USE DEF Inv
<1>1. ASSUME NEW h \in Goroutines
      PROVE  th'[h] \in Call /\ Handling(th[h])'
  <2>0. th'[h] = IF h \in S \/ th[h].pc = "idle" THEN Idle ELSE [th[h] EXCEPT !.stale = TRUE]
    BY Zenon
  <2>1. CASE h \in S \/ th[h].pc = "idle"
    BY <2>0, <2>1, IdleCall, Zenon DEF Handling
  <2>2. CASE ~(h \in S \/ th[h].pc = "idle")
    <3> DEFINE t == [th[h] EXCEPT !.stale = TRUE]
    <3>1. th[h] \in Call
      BY Zenon DEF Typed
    <3>2. /\ t \in Call /\ t.pc = th[h].pc /\ t.peer = th[h].peer /\ t.alias = th[h].alias
          /\ t.ip = th[h].ip /\ t.stale
      BY <3>1, Zenon DEF Call
    <3>3. th'[h] = t
      BY <2>0, <2>2, Zenon
    <3> HIDE DEF t
    <3>4. Handling(th[h])
      BY Zenon DEF Handlers
    <3> QED
      BY <2>2, <3>2, <3>3, <3>4, Zenon DEF Handling, Good, End
  <2> QED
    BY <2>1, <2>2, Zenon
<1> QED
  BY <1>1, Zenon DEF Handlers

\* A handler writes its peer. Nobody else has its name or its address, or it
\* writes what is there already, or the peer counts as overtaken from now on.
LEMMA UpsertStep ==
  ASSUME Inv, todo = {}, NEW g \in Goroutines, th[g].pc # "idle",
         NEW a \in Seq(Part), NEW i \in Good, a # NoAlias,
         UpsertPeer(g, [alias |-> a, ip |-> i]),
         ~th[g].stale =>
           \/ \A q \in DOMAIN known \ {th[g].peer} : known[q].alias # a /\ (known[q].ip = i => i = End)
           \/ th[g].peer \in DOMAIN known /\ known[th[g].peer].alias = a /\ known[th[g].peer].ip = i
  PROVE  Inv'
<1> USE DEF Inv
<1> DEFINE p == th[g].peer
<1>1. /\ known' = [q \in DOMAIN known \cup {p} |-> IF q = p THEN [alias |-> a, ip |-> i] ELSE known[q]]
      /\ overtaken' = IF th[g].stale THEN overtaken \cup {p} ELSE overtaken
      /\ th' = [h \in Goroutines |-> IF h = g \/ th[h].pc = "idle" THEN Idle
                                     ELSE [th[h] EXCEPT !.stale = TRUE]]
      /\ todo' = todo /\ uniq' = uniq
  BY Zenon DEF UpsertPeer
<1>2. p \in PeerID /\ th[g].stale \in BOOLEAN
  BY Zenon DEF Handlers, Handling, Typed, Call
<1>3. \A q \in DOMAIN known \ {p} :
        /\ known[q].alias = a => {p, q} \cap overtaken' # {}
        /\ known[q].ip = i => i = End \/ {p, q} \cap overtaken' # {}
  <2> SUFFICES ASSUME NEW q \in DOMAIN known \ {p}
               PROVE  /\ known[q].alias = a => {p, q} \cap overtaken' # {}
                      /\ known[q].ip = i => i = End \/ {p, q} \cap overtaken' # {}
    BY Zenon
  <2>1. CASE th[g].stale
    BY <1>1, <2>1, Zenon
  <2>2. CASE ~th[g].stale /\ known[q].alias # a /\ (known[q].ip = i => i = End)
    BY <2>2, Zenon
  <2>3. CASE ~th[g].stale /\ p \in DOMAIN known /\ known[p].alias = a /\ known[p].ip = i
    <3>1. known[q].alias = a => {p, q} \cap overtaken # {}
      BY <2>3, Zenon DEF AliasesUnique
    <3>2. known[q].ip = i => i \in {End, NoAddr} \/ {p, q} \cap overtaken # {}
      BY <2>3, Zenon DEF Addressed
    <3>3. i # NoAddr
      BY Addresses, Zenon
    <3> QED
      BY <1>1, <2>3, <3>1, <3>2, <3>3, Zenon
  <2> QED
    BY <2>1, <2>2, <2>3, Zenon
<1>4. i \in Int
  BY Addresses
<1> HIDE DEF p
<1>5. /\ DOMAIN known' = DOMAIN known \cup {p} /\ DOMAIN known' \subseteq PeerID
      /\ known' \in [DOMAIN known' -> Peer] /\ known'[p].alias = a /\ known'[p].ip = i
      /\ \A q \in DOMAIN known \ {p} : known'[q] = known[q]
  BY <1>1, <1>2, <1>4, Written, ZenonT(60)
<1>6. th' \in [Goroutines -> Call] /\ Handlers'
  <2>1. th' = [h \in Goroutines |-> IF h \in {g} \/ th[h].pc = "idle" THEN Idle
                                     ELSE [th[h] EXCEPT !.stale = TRUE]]
    BY <1>1, Zenon
  <2> QED
    BY <2>1, Overtaking, Zenon
<1>7. Typed' /\ Loading'
  BY <1>1, <1>5, <1>6, Zenon DEF Typed, Loading
<1>8. AliasesUnique'
  <2>1. \A q \in DOMAIN known' : known'[q].alias # NoAlias
    BY <1>5, Zenon DEF AliasesUnique
  <2>2. ASSUME NEW q \in DOMAIN known', NEW r \in DOMAIN known', q # r, known'[q].alias = known'[r].alias
        PROVE  {q, r} \cap overtaken' # {}
    <3>1. CASE q = p
      BY <1>3, <1>5, <2>2, <3>1, Zenon
    <3>2. CASE r = p
      BY <1>3, <1>5, <2>2, <3>2, SMTT(30)
    <3>3. CASE q # p /\ r # p
      <4>1. q \in DOMAIN known /\ r \in DOMAIN known /\ known[q].alias = known[r].alias
        BY <1>5, <2>2, <3>3, Zenon
      <4>2. {q, r} \cap overtaken # {}
        BY <2>2, <4>1, Zenon DEF AliasesUnique
      <4> QED
        BY <1>1, <4>2, Zenon
    <3> QED
      BY <3>1, <3>2, <3>3, Zenon
  <2>3. todo' = {}
    BY <1>1, Zenon
  <2> QED
    BY <2>1, <2>2, <2>3, Zenon DEF AliasesUnique, NoAlias
<1>9. Addressed'
  <2>1. p \notin todo' /\ overtaken \subseteq overtaken' /\ \A q \in DOMAIN known \ {p} : q \in todo => q \in todo'
    BY <1>1, Zenon
  <2> QED
    BY <1>2, <1>3, <1>5, <2>1, AddressWritten, Zenon
<1> QED
  BY <1>6, <1>7, <1>8, <1>9, Zenon

\* A peer is removed.
LEMMA RemoveStep ==
  ASSUME Inv, NEW p \in PeerID, RemovePeer(p)
  PROVE  Inv'
<1> USE DEF Inv
<1>1. /\ todo = {} /\ p \in DOMAIN known /\ known' = [q \in DOMAIN known \ {p} |-> known[q]]
      /\ overtaken' = overtaken \ {p} /\ todo' = todo /\ uniq' = uniq
      /\ th' = [h \in Goroutines |-> IF th[h].pc = "idle" THEN Idle ELSE [th[h] EXCEPT !.stale = TRUE]]
  BY Zenon DEF RemovePeer
<1>2. DOMAIN known' = DOMAIN known \ {p} /\ \A q \in DOMAIN known \ {p} : known'[q] = known[q]
  BY <1>1, Zenon
<1>3. th' \in [Goroutines -> Call] /\ Handlers'
  <2> DEFINE S == {}
  <2>1. th' = [h \in Goroutines |-> IF h \in S \/ th[h].pc = "idle" THEN Idle
                                     ELSE [th[h] EXCEPT !.stale = TRUE]]
    BY <1>1, Zenon
  <2>2. S \in SUBSET Goroutines
    BY Zenon
  <2> HIDE DEF S
  <2> QED
    BY <2>1, <2>2, Overtaking, Zenon
<1>4. Typed' /\ Loading'
  BY <1>1, <1>2, <1>3, Zenon DEF Typed, Loading
<1>5. AliasesUnique'
  BY <1>1, <1>2, SMTT(30) DEF AliasesUnique, NoAlias
<1>6. Addressed'
  <2>1. \A q \in DOMAIN known' : known'[q].ip \in Good
    BY <1>1, <1>2, Zenon DEF Addressed
  <2>2. \A q, r \in DOMAIN known' :
          q # r /\ known'[q].ip = known'[r].ip => {q, r} \cap overtaken' # {} \/ known'[q].ip \in {End, NoAddr}
    <3> SUFFICES ASSUME NEW q \in DOMAIN known', NEW r \in DOMAIN known', q # r, known'[q].ip = known'[r].ip
                 PROVE  {q, r} \cap overtaken' # {} \/ known'[q].ip \in {End, NoAddr}
      BY Zenon
    <3>1. /\ q \in DOMAIN known /\ r \in DOMAIN known /\ known[q].ip = known[r].ip /\ known'[q].ip = known[q].ip
          /\ q # p /\ r # p
      BY <1>2, Zenon
    <3>2. {q, r} \cap overtaken # {} \/ known[q].ip \in {End, NoAddr}
      BY <3>1, Zenon DEF Addressed
    <3> QED
      BY <1>1, <3>1, <3>2, Zenon
  <2> QED
    BY <2>1, <2>2, Zenon DEF Addressed, Good, End
<1> QED
  BY <1>3, <1>4, <1>5, <1>6, Zenon

\* A handler begins.
LEMMA StartStep ==
  ASSUME Inv, NEW g \in Goroutines, Start(g)
  PROVE  Inv'
<1> USE DEF Inv
<1>1. ASSUME NEW pc \in {"alias", "setAlias", "auto", "status"}, NEW p \in PeerID,
             NEW a \in Seq(Part), NEW i \in Int, Begin(g, pc, p, a, i),
             pc # "auto" => a # NoAlias,
             pc = "status" => p \in DOMAIN known /\ known[p] = [alias |-> a, ip |-> i] /\ i \in Good
      PROVE  Inv'
  <2> DEFINE t == [pc |-> pc, peer |-> p, alias |-> a, ip |-> i, stale |-> FALSE]
  <2>1. /\ t \in Call /\ t.pc = pc /\ t.peer = p /\ t.alias = a /\ t.ip = i
    BY <1>1, Zenon DEF Call
  <2>2. todo = {} /\ th' = [th EXCEPT ![g] = t] /\ UNCHANGED <<known, todo, uniq, overtaken>>
    BY <1>1, Zenon DEF Begin
  <2> HIDE DEF t
  <2>3. Handling(t)
    BY <1>1, <2>1, Zenon DEF Handling, Current
  <2> QED
    BY <2>1, <2>2, <2>3, ThreadStep, Zenon
<1>2. PICK p \in PeerID :
        \/ \E a \in Alias : \/ \E i \in UserIP \cup {NoAddr} : InvitePeer(g, p, a, i)
                            \/ \E i \in UserIP : UpdatePeerSettings(g, p, a, i)
        \/ AuthStreamHandler(g, p)
        \/ StatusRead(g, p)
  BY Zenon DEF Start
<1>3. Alias \subseteq Seq(Part) \ {NoAlias} /\ NoAlias \in Seq(Part) /\ UserIP \cup {NoAddr} \subseteq Int
  <2>1. UserIP \cup {NoAddr} \subseteq Int
    BY SubnetAssumption DEF NoAddr
  <2>2. NoAlias \in Seq(Part)
    BY DEF NoAlias
  <2>3. \A a \in Alias : a \in Seq(Part) /\ a # NoAlias
    BY TypedAlias, Zenon
  <2> QED
    BY <2>1, <2>2, <2>3, Zenon
<1>4. ASSUME NEW a \in Alias, NEW i \in UserIP \cup {NoAddr}, InvitePeer(g, p, a, i)
      PROVE  Inv'
  BY <1>1, <1>3, <1>4, Zenon DEF InvitePeer
<1>5. ASSUME NEW a \in Alias, NEW i \in UserIP, UpdatePeerSettings(g, p, a, i)
      PROVE  Inv'
  BY <1>1, <1>3, <1>5, Zenon DEF UpdatePeerSettings
<1>6. CASE AuthStreamHandler(g, p)
  <2>1. Begin(g, "auto", p, NoAlias, NoAddr)
    BY <1>6, Zenon DEF AuthStreamHandler
  <2> QED
    BY <1>1, <1>3, <2>1, Zenon
<1>7. CASE StatusRead(g, p)
  <2>1. p \in DOMAIN known /\ todo = {} /\ Begin(g, "status", p, known[p].alias, known[p].ip)
    BY <1>7, Zenon DEF StatusRead, Begin
  <2>2. /\ known[p].alias \in Seq(Part) /\ known[p].ip \in Int
        /\ known[p] = [alias |-> known[p].alias, ip |-> known[p].ip]
    BY <2>1, Zenon DEF Typed, Peer
  <2>3. known[p].alias # NoAlias /\ known[p].ip \in Good
    BY <2>1, Zenon DEF AliasesUnique, Addressed
  <2> QED
    BY <1>1, <2>1, <2>2, <2>3, Zenon
<1> QED
  BY <1>2, <1>4, <1>5, <1>6, <1>7, Zenon

\* A handler that is under way goes on: the configuration is loaded, and what
\* the handler found out it knows.
LEMMA UnderWay ==
  ASSUME Inv, NEW g \in Goroutines, th[g].pc # "idle"
  PROVE  /\ todo = {} /\ th[g] \in Call /\ Handling(th[g]) /\ th[g].peer \in PeerID
         /\ th[g].pc # "auto" => th[g].alias \in Seq(Part) \ {NoAlias}
<1>1. th[g] # Idle
  <2>1. Idle.pc = "idle"
    BY Zenon DEF Idle
  <2> QED
    BY <2>1, Zenon
<1>2. th[g] \in Call /\ Handling(th[g])
  BY Zenon DEF Inv, Typed, Handlers
<1> QED
  BY <1>1, <1>2, Zenon DEF Inv, Loading, Handling, Call

\* A step to another line of the handler, or to its end.
LEMMA GotoStep ==
  ASSUME Inv, NEW g \in Goroutines, th[g].pc # "idle", NEW pc \in {"idle", "alias", "ip", "upsert", "set"},
         Goto(g, pc), pc # "idle" => th[g].pc # "auto",
         pc = "upsert" => th[g].ip \in Good,
         pc \in {"ip", "upsert", "set"} /\ ~th[g].stale =>
           \A q \in DOMAIN known \ {th[g].peer} : known[q].alias # th[g].alias,
         pc = "upsert" /\ ~th[g].stale =>
           \A q \in DOMAIN known \ {th[g].peer} : known[q].ip = th[g].ip => th[g].ip = End
  PROVE  Inv'
<1> DEFINE t == IF pc = "idle" THEN Idle ELSE [th[g] EXCEPT !.pc = pc]
<1>1. /\ todo = {} /\ th[g] \in Call /\ th[g].peer \in PeerID
      /\ th[g].pc # "auto" => th[g].alias \in Seq(Part) \ {NoAlias}
  BY UnderWay, Zenon
<1>2. th' = [th EXCEPT ![g] = t] /\ UNCHANGED <<known, todo, uniq, overtaken>>
  BY Zenon DEF Goto
<1>3. CASE pc = "idle"
  <2>1. t = Idle
    BY <1>3, Zenon
  <2> HIDE DEF t
  <2>2. t \in Call /\ Handling(t)
    BY <2>1, IdleCall, Zenon DEF Handling
  <2> QED
    BY <1>1, <1>2, <2>2, ThreadStep, Zenon
<1>4. CASE pc # "idle"
  <2>1. /\ t \in Call /\ t.pc = pc /\ t.peer = th[g].peer /\ t.alias = th[g].alias
        /\ t.ip = th[g].ip /\ t.stale = th[g].stale
    BY <1>1, <1>4, Zenon DEF Call
  <2> HIDE DEF t
  <2>2. Handling(t)
    BY <1>1, <1>4, <2>1, Zenon DEF Handling, Current
  <2> QED
    BY <1>1, <1>2, <2>1, <2>2, ThreadStep, ZenonT(60)
<1> QED
  BY <1>3, <1>4, Zenon

\* Every step of a handler that is under way.
LEMMA ContinueStep ==
  ASSUME Inv, NEW g \in Goroutines, Continue(g)
  PROVE  Inv'
<1> DEFINE t == th[g]
<1>1. CASE AutoAccept(g)
  <2>1. t.pc = "auto"
    BY <1>1, Zenon DEF AutoAccept
  <2>2. todo = {} /\ t \in Call /\ t.peer \in PeerID
    BY <2>1, UnderWay, Zenon
  <2> DEFINE a == GenUniqPeerAlias(Name[t.peer], NoAlias)
             u == [t EXCEPT !.alias = a, !.pc = "get"]
  <2>3. th' = [th EXCEPT ![g] = u] /\ UNCHANGED <<known, todo, uniq, overtaken>>
    BY <1>1, <2>2, Zenon DEF AutoAccept, Inv, Typed
  <2>4. a \in Seq(Part) \ {NoAlias}
    <3>1. IsFiniteSet(Aliases)
      BY FewNames, Zenon DEF Aliases, Inv
    <3>2. NoAlias \in Seq(Part)
      BY DEF NoAlias
    <3>3. Name[t.peer] \in STRING
      BY <2>2, PeerAssumption, Zenon
    <3> QED
      BY <3>1, <3>2, <3>3, FreshAlias, Zenon DEF GenUniqPeerAlias
  <2> HIDE DEF a
  <2>5. u \in Call /\ u.pc = "get" /\ u.peer = t.peer /\ u.alias = a
    BY <2>2, <2>4, Zenon DEF Call
  <2> HIDE DEF u, t
  <2>6. Handling(u)
    BY <2>2, <2>4, <2>5, Zenon DEF Handling, Current
  <2> QED
    BY <2>2, <2>3, <2>5, <2>6, ThreadStep, Zenon
<1>2. CASE AddGet(g)
  <2>1. th[g].pc = "get" /\ (Goto(g, "idle") \/ Goto(g, "alias"))
    BY <1>2, Zenon DEF AddGet
  <2> QED
    BY <2>1, GotoStep, Zenon
<1>3. CASE AddAlias(g)
  <2>1. th[g].pc = "alias" /\ (Goto(g, "idle") \/ (IsUniqPeerAlias("", th[g].alias) /\ Goto(g, "ip")))
    BY <1>3, Zenon DEF AddAlias
  <2>2. "" \notin DOMAIN known
    BY PeerAssumption, Zenon DEF Inv, Typed
  <2> QED
    BY <2>1, <2>2, GotoStep, Zenon DEF IsUniqPeerAlias
<1>4. CASE SetAlias(g)
  <2>1. th[g].pc = "setAlias" /\ (Goto(g, "idle") \/ (IsUniqPeerAlias(th[g].peer, th[g].alias) /\ Goto(g, "set")))
    BY <1>4, Zenon DEF SetAlias
  <2> QED
    BY <2>1, GotoStep, Zenon DEF IsUniqPeerAlias
<1>5. CASE AddIP(g)
  <2>1. t.pc = "ip"
    BY <1>5, Zenon DEF AddIP
  <2>2. /\ todo = {} /\ t \in Call /\ t.peer \in PeerID /\ t.alias # NoAlias
        /\ ~t.stale => \A q \in DOMAIN known \ {t.peer} : known[q].alias # t.alias
    BY <2>1, UnderWay, Zenon DEF Handling, Current
  <2>3. CASE t.ip = NoAddr
    <3> DEFINE i == GenerateNextIpAddr
               u == [t EXCEPT !.ip = i, !.pc = "upsert"]
    <3>1. th' = [th EXCEPT ![g] = u] /\ UNCHANGED <<known, todo, uniq, overtaken>>
      BY <1>5, <2>2, <2>3, Zenon DEF AddIP, Inv, Typed
    <3>2. i \in Good /\ i \in Int /\ \A q \in DOMAIN known : known[q].ip = i => i = End
      <4>1. Typed
        BY Zenon DEF Inv
      <4>2. i \in Good /\ \A q \in DOMAIN known : known[q].ip = i => i = End
        BY <4>1, NextIP, Zenon
      <4>3. Good \subseteq Int
        BY Addresses
      <4> QED
        BY <4>2, <4>3, Zenon
    <3> HIDE DEF i
    <3>3. u \in Call /\ u.pc = "upsert" /\ u.peer = t.peer /\ u.alias = t.alias /\ u.ip = i /\ u.stale = t.stale
      BY <2>2, <3>2, Zenon DEF Call
    <3> HIDE DEF u, t
    <3>4. Handling(u)
      BY <2>2, <3>2, <3>3, Zenon DEF Handling, Current
    <3> QED
      BY <2>2, <3>1, <3>3, <3>4, ThreadStep, Zenon
  <2>4. CASE t.ip # NoAddr
    <3>1. Goto(g, "idle") \/ (CheckIPUnique(t.ip, t.peer) /\ Goto(g, "upsert"))
      BY <1>5, <2>4, Zenon DEF AddIP
    <3>2. CASE Goto(g, "idle")
      BY <2>1, <3>2, GotoStep, Zenon
    <3>3. CASE CheckIPUnique(t.ip, t.peer) /\ Goto(g, "upsert")
      <4>1. t.ip \in Good /\ \A q \in DOMAIN known \ {t.peer} : known[q].ip # t.ip
        BY <3>3, Zenon DEF CheckIPUnique, Good
      <4> QED
        BY <2>1, <2>2, <3>3, <4>1, GotoStep, Zenon
    <3> QED
      BY <3>1, <3>2, <3>3, Zenon
  <2> QED
    BY <2>3, <2>4, Zenon
<1>6. CASE AddUpsert(g)
  <2>1. t.pc = "upsert" /\ UpsertPeer(g, [alias |-> t.alias, ip |-> t.ip])
    BY <1>6, Zenon DEF AddUpsert
  <2>2. /\ todo = {} /\ t.alias \in Seq(Part) /\ t.alias # NoAlias /\ t.ip \in Good
        /\ ~t.stale => \A q \in DOMAIN known \ {t.peer} : known[q].alias # t.alias /\ (known[q].ip = t.ip => t.ip = End)
    BY <2>1, UnderWay, Zenon DEF Handling, Current
  <2> QED
    BY <2>1, <2>2, UpsertStep, Zenon
<1>7. CASE SetWrite(g)
  <2>1. t.pc = "set"
    BY <1>7, Zenon DEF SetWrite
  <2>2. /\ todo = {} /\ t.alias \in Seq(Part) /\ t.alias # NoAlias
        /\ ~t.stale => \A q \in DOMAIN known \ {t.peer} : known[q].alias # t.alias
    BY <2>1, UnderWay, Zenon DEF Handling, Current
  <2>3. CASE ~CheckIPUnique(t.ip, t.peer)
    BY <1>7, <2>1, <2>3, GotoStep, Zenon DEF SetWrite
  <2>4. CASE CheckIPUnique(t.ip, t.peer)
    <3>1. t.ip \in Good /\ \A q \in DOMAIN known \ {t.peer} : known[q].ip # t.ip
      BY <2>4, Zenon DEF CheckIPUnique, Good
    <3>2. UpsertPeer(g, [alias |-> t.alias, ip |-> t.ip])
      BY <1>7, <2>4, Zenon DEF SetWrite
    <3> QED
      BY <2>1, <2>2, <3>1, <3>2, UpsertStep, Zenon
  <2> QED
    BY <2>3, <2>4, Zenon
<1>8. CASE processPeerStatusInfo(g)
  <2>1. t.pc = "status"
    BY <1>8, Zenon DEF processPeerStatusInfo
  <2>2. /\ todo = {} /\ t.alias \in Seq(Part) /\ t.alias # NoAlias /\ t.ip \in Good
        /\ ~t.stale => t.peer \in DOMAIN known /\ known[t.peer].alias = t.alias /\ known[t.peer].ip = t.ip
    <3>1. todo = {} /\ t.alias \in Seq(Part) /\ t.alias # NoAlias /\ Handling(t)
      BY <2>1, UnderWay, Zenon
    <3>2. t.ip \in Good /\ (~t.stale => t.peer \in DOMAIN known /\ known[t.peer] = [alias |-> t.alias, ip |-> t.ip])
      BY <2>1, <3>1, Zenon DEF Handling, Current
    <3> HIDE DEF t
    <3> QED
      BY <3>1, <3>2
  <2>3. UpsertPeer(g, [alias |-> t.alias, ip |-> t.ip])
    BY <1>8, <2>2, Zenon DEF processPeerStatusInfo
  <2> QED
    BY <2>1, <2>2, <2>3, UpsertStep, Zenon
<1> QED
  BY <1>1, <1>2, <1>3, <1>4, <1>5, <1>6, <1>7, <1>8, Zenon DEF Continue

-----------------------------------------------------------------------------
(* The theorems.                                                           *)

\* Every step keeps the invariant.
LEMMA NextInv == Inv /\ [Next]_vars => Inv'
<1> SUFFICES ASSUME Inv, [Next]_vars PROVE Inv'
  BY Zenon
<1>1. CASE UNCHANGED vars
  <2>1. UNCHANGED <<known, todo, uniq, th, overtaken>>
    BY <1>1, Zenon DEF vars
  <2>2. Typed' /\ Loading' /\ AliasesUnique'
    BY <2>1 DEF Inv, Typed, Loading, AliasesUnique
  <2>3. Addressed'
    BY <2>1, Zenon DEF Inv, Addressed, Good, End
  <2>4. Handlers'
    BY <2>1, Zenon DEF Inv, Handlers, Handling, Current, Good, End
  <2> QED
    BY <2>2, <2>3, <2>4, Zenon DEF Inv
<1>2. CASE \E p \in todo : setDefaults(p)
  BY <1>2, LoadStep, Zenon
<1>3. CASE \E g \in Goroutines : Start(g) \/ Continue(g)
  BY <1>3, StartStep, ContinueStep, Zenon
<1>4. CASE \E p \in PeerID : RemovePeer(p)
  BY <1>4, RemoveStep, Zenon
<1>5. CASE Restart
  BY <1>5, RestartStep, Zenon
<1> QED
  BY <1>1, <1>2, <1>3, <1>4, <1>5, Zenon DEF Next

\* The invariant holds in every state.
LEMMA RegistryInv == Spec => []Inv
BY InitInv, NextInv, PTL DEF Spec

\* For any peers, handlers and calls: once loaded every known peer has an
\* alias, and two have the same one only if one of them was written by a call
\* that another write overtook; genUniqPeerAlias repairs the file at a restart.
THEOREM NamesAreUnique == Spec => []AliasesUnique
<1>1. Inv => AliasesUnique
  BY Zenon DEF Inv
<1> QED
  BY <1>1, RegistryInv, PTL

\* For any subnet, and whatever was added, changed, removed and reloaded before:
\* every known peer has an address of the subnet, the one after it or that of
\* the file, and two have the same one only if one was written by an overtaken
\* call or it is the one after the subnet.
THEOREM AddressesAreUnique == Spec => []AddressesUnique
<1>1. Inv => AddressesUnique
  <2> SUFFICES ASSUME Inv, NEW p \in DOMAIN known \ todo
               PROVE  /\ known[p].ip \in Good
                      /\ \A q \in DOMAIN known \ todo :
                           p # q /\ known[p].ip = known[q].ip => {p, q} \cap overtaken # {} \/ known[p].ip = End
    BY Zenon DEF AddressesUnique, Good, End
  <2>1. known[p].ip \in Good
    BY Zenon DEF Inv, Addressed
  <2>2. known[p].ip # NoAddr
    BY <2>1, Addresses, Zenon
  <2> QED
    BY <2>1, <2>2, Zenon DEF Inv, Addressed
<1> QED
  BY <1>1, RegistryInv, PTL

\* However many invitations are pending, GetAuthRequests proposes an address of
\* its own to each, and CheckIPUnique accepts every one that is in the subnet.
THEOREM SuggestionsAreUsable == Spec => []SuggestionsUsable
<1>1. ASSUME Typed, NEW n \in 0 .. MaxRequests
      PROVE  /\ IsInjective(SuggestedIPs(n))
             /\ \A i \in 1 .. n : SuggestedIPs(n)[i] \in Subnet => CheckIPUnique(SuggestedIPs(n)[i], "")
  <2> DEFINE ips == SuggestedIPs(n)
  <2>1. DOMAIN ips = 1 .. n /\ \A k \in 1 .. n : ips[k] = Wrapped(k)
    BY <1>1, Suggested, Zenon
  <2>2. 1 .. n \subseteq 1 .. 2^Width
    BY RequestsAssumption, SubnetAssumption
  <2>3. IsInjective(ips)
    BY <1>1, <2>1, <2>2, Round, SMTT(30) DEF IsInjective
  <2>4. ASSUME NEW i \in 1 .. n, Wrapped(i) \in Subnet
        PROVE  \A q \in DOMAIN known : known[q].ip # Wrapped(i)
    <3>1. Largest \in Subnet /\ \A q \in DOMAIN known : known[q].ip \in Subnet => Largest >= known[q].ip
      BY <1>1, LargestInUse, Zenon
    <3>2. FirstIP \in Nat /\ LastIP \in Nat /\ 2^Width \in Nat /\ LastIP + n < 2^Width + FirstIP
      BY Addresses, RequestsAssumption, SubnetAssumption, SMTT(30)
    <3>3. Wrapped(i) > Largest
      BY <2>4, <3>1, <3>2, SMTT(30) DEF Wrapped, Subnet
    <3>4. Largest \in Int /\ Wrapped(i) \in Int
      BY <2>4, <3>1, <3>2 DEF Subnet
    <3> QED
      BY <2>4, <3>1, <3>3, <3>4, SMTT(30)
  <2> QED
    BY <2>1, <2>3, <2>4, Zenon DEF CheckIPUnique
<1>2. Inv => SuggestionsUsable
  BY <1>1, Zenon DEF Inv, SuggestionsUsable
<1> QED
  BY <1>2, RegistryInv, PTL

\* setDefaults leaves a configuration that is in order as it is, in whatever
\* order it comes to the peers.
THEOREM LoadingIsStable == Spec => LoadStable
<1>1. ASSUME Inv, [Next]_vars, todo # {},
             \A p \in DOMAIN known : known[p].alias # NoAlias /\ known[p].ip # NoAddr,
             \A p, q \in DOMAIN known : p # q => known[p].alias # known[q].alias
      PROVE  known' = known
  <2>1. CASE UNCHANGED vars
    BY <2>1, Zenon DEF vars
  <2>2. ASSUME NEW p \in todo, setDefaults(p)
        PROVE  known' = known
    <3>1. p \in DOMAIN known /\ known[p] \in Peer /\ p \in PeerID /\ known \in [DOMAIN known -> Peer]
      BY <1>1, Zenon DEF Inv, Typed
    <3>2. known[p].alias \in Seq(Part) /\ known[p] = [alias |-> known[p].alias, ip |-> known[p].ip]
      BY <3>1, Zenon DEF Peer
    <3>3. uniq = {known[q].alias : q \in DOMAIN known \ todo}
      BY <1>1, Zenon DEF Inv, Loading
    <3>4. known[p].alias \notin uniq /\ IsFiniteSet(uniq)
      <4>1. Typed
        BY <1>1, Zenon DEF Inv
      <4>2. IsFiniteSet(uniq)
        BY <3>3, <4>1, FewNames, Zenon
      <4> QED
        BY <1>1, <3>1, <3>3, <4>2, Zenon
    <3>5. Name[p] \in STRING
      BY <3>1, PeerAssumption, Zenon
    <3>6. genUniqPeerAlias(Name[p], known[p].alias, uniq) = known[p].alias
      BY <1>1, <3>1, <3>2, <3>4, <3>5, FreshAlias, SMTT(30)
    <3>7. known' = [known EXCEPT ![p] = [alias |-> known[p].alias, ip |-> known[p].ip]]
      BY <1>1, <2>2, <3>1, <3>6, Zenon DEF setDefaults
    <3>8. known' = [known EXCEPT ![p] = known[p]]
      BY <3>2, <3>7, Zenon
    <3> QED
      BY <3>1, <3>8, Zenon
  <2>3. ASSUME NEW g \in Goroutines, Start(g)
        PROVE  FALSE
    BY <1>1, <2>3, Zenon DEF Start, InvitePeer, UpdatePeerSettings, AuthStreamHandler, StatusRead, Begin
  <2>4. ASSUME NEW g \in Goroutines, Continue(g)
        PROVE  FALSE
    <3>1. th[g].pc # "idle"
      BY <2>4, Zenon DEF Continue, AutoAccept, AddGet, AddAlias, AddIP, AddUpsert, SetAlias, SetWrite, processPeerStatusInfo
    <3> QED
      BY <1>1, <3>1, UnderWay, Zenon
  <2>5. ~Restart /\ \A p \in PeerID : ~RemovePeer(p)
    BY <1>1, Zenon DEF Restart, RemovePeer
  <2> QED
    BY <1>1, <2>1, <2>2, <2>3, <2>4, <2>5, Zenon DEF Next
<1>2. Inv /\ [Next]_vars =>
        [ /\ todo # {}
          /\ \A p \in DOMAIN known : known[p].alias # NoAlias /\ known[p].ip # NoAddr
          /\ \A p, q \in DOMAIN known : p # q => known[p].alias # known[q].alias
          => UNCHANGED known ]_vars
  BY <1>1, Zenon
<1> QED
  BY <1>2, RegistryInv, PTL DEF Spec, LoadStable
=============================================================================
