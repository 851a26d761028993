-------------------------- MODULE ConfStoreProofs --------------------------
(* Proofs about ConfStore: for any goroutines, calls, restarts, failed     *)
(* writes and interleavings, the file follows the configuration in memory, *)
(* and what a call that returned has changed is kept.                      *)
EXTENDS ConfStore, TLAPS

-----------------------------------------------------------------------------
(* The steps that are left of each call.                                   *)

\* UpsertPeer and RemovePeer, UpdatePeerSettings.
P1 == <<"Lock", "write", "Unlock", "emit">>
P2 == <<"write", "Unlock", "emit">>
P3 == <<"emit">>
Q1 == <<"Lock", "write", "emit", "Unlock">>
Q2 == <<"write", "emit", "Unlock">>
Q3 == <<"emit", "Unlock">>

\* UpsertBlockedPeer, SetProxyPeerID.
B1 == <<"Lock", "write", "Unlock">>
B2 == <<"write", "Unlock">>
X1 == <<"Lock", "Unlock", "RLock", "write", "RUnlock">>
X2 == <<"RLock", "write", "RUnlock">>
X3 == <<"write", "RUnlock">>

\* Application.Init.
I1 == <<"Lock", "write", "Unlock", "apply", "serve", "subscribeTunnel",
        "read", "store", "subscribeDNS", "upstream", "read", "store">>
I2 == <<"write", "Unlock", "apply", "serve", "subscribeTunnel",
        "read", "store", "subscribeDNS", "upstream", "read", "store">>
I3 == <<"apply", "serve", "subscribeTunnel", "read", "store", "subscribeDNS", "upstream", "read", "store">>
I4 == <<"serve", "subscribeTunnel", "read", "store", "subscribeDNS", "upstream", "read", "store">>
I5 == <<"subscribeTunnel", "read", "store", "subscribeDNS", "upstream", "read", "store">>
I6 == <<"read", "store", "subscribeDNS", "upstream", "read", "store">>
I7 == <<"store", "subscribeDNS", "upstream", "read", "store">>
I8 == <<"subscribeDNS", "upstream", "read", "store">>
I9 == <<"upstream", "read", "store">>

\* Application.Close.
C1 == <<"RLock", "write", "RUnlock", "cancel", "RLock", "write", "RUnlock", "exit">>
C2 == <<"write", "RUnlock", "cancel", "RLock", "write", "RUnlock", "exit">>
C3 == <<"cancel", "RLock", "write", "RUnlock", "exit">>
C4 == <<"RLock", "write", "RUnlock", "exit">>
C5 == <<"write", "RUnlock", "exit">>
C6 == <<"exit">>

\* A refresh of the tunnel, one of the resolver, and an import.
R1 == <<"apply">>
R2 == <<"read", "store">>
R3 == <<"store">>
M1 == <<"write">>

PeersTodo == {P1, P2, P3, Q1, Q2, Q3}
OtherTodo == {B1, B2, X1, X2, X3}
InitTodo  == {I1, I2, I3, I4, I5, I6, I7, I8, I9, R2, R3}
CloseTodo == {C1, C2, C3, C4, C5, C6}

-----------------------------------------------------------------------------
(* The inductive invariant.                                                *)

Conf    == [id : Nat, peers : SUBSET Nat, other : SUBSET Nat]
Names   == [peers : SUBSET Nat, up : {"default", SystemDNS}]
CallSet == {"none", "peers", "other", "Init", "Close", "ImportConfig", "refresh"}
Todos   == {<<>>, R1, M1} \cup PeersTodo \cup OtherTodo \cup InitTodo \cup CloseTodo
Thread  == [call : CallSet, n : Nat, todo : Todos, data : Conf \cup Names]

\* What each goroutine may run.
Form(t, r) ==
  \/ r = Idle
  \/ t \in Workers /\ r.call = "peers" /\ r.todo \in PeersTodo
  \/ t \in Workers /\ r.call = "other" /\ r.todo \in OtherTodo
  \/ t = "app" /\ r.call = "Init" /\ r.todo \in InitTodo /\ r.n # NoId
  \/ t = "app" /\ r.call = "Close" /\ r.todo \in CloseTodo
  \/ t = "app" /\ r.call = "ImportConfig" /\ r.todo = M1 /\ r.data = [Empty EXCEPT !.id = Imported]
  \/ t \in Subs /\ r.call = "refresh" /\ r.todo \in {R1, R2, R3}

Typed ==
  /\ file \in {Absent, Torn} \cup {Whole(c) : c \in Conf}
  /\ mem \in Conf /\ kept \in Conf
  /\ running \in BOOLEAN /\ failed \in BOOLEAN
  /\ lock \in [writer : Threads \cup {Nobody}, readers : SUBSET Threads]
  /\ thread \in [Threads -> Thread] /\ \A t \in Threads : Form(t, thread[t])
  /\ sub \in [Subs -> [active : BOOLEAN, events : Nat]]
  /\ upstream \in {"default", SystemDNS}
  /\ ops \in Nat /\ starts \in Nat

\* The goroutines that hold the lock.
Writes(r) == \/ r.call = "peers" /\ r.todo \in {P2, Q2, Q3}
             \/ r.call = "other" /\ r.todo = B2
             \/ r.call = "Init" /\ r.todo = I2
Reads(r)  == \/ r.call = "other" /\ r.todo = X3
             \/ r.call = "Close" /\ r.todo \in {C2, C5}

Locked ==
  /\ \A t \in Threads : (lock.writer = t <=> Writes(thread[t])) /\ (t \in lock.readers <=> Reads(thread[t]))
  /\ lock.writer # Nobody => lock.readers = {}

\* Without a process nothing runs but an import.
Process ==
  IF running THEN \A t \in Threads : thread[t].call # "ImportConfig"
  ELSE /\ \A t \in Threads : thread[t] = Idle \/ (thread[t].call = "ImportConfig" /\ file = Torn)
       /\ \A s \in Subs : sub[s].events = 0

Writing(r) == r.todo # <<>> /\ Head(r.todo) = "write"

\* Whoever is about to write the file writes what is in memory, and the file is
\* empty, or another reader has written the same.
Opening(r, m, f) == Writing(r) /\ r.call # "ImportConfig" => r.data = m /\ f \in {Torn, Whole(m)}

\* The changes of a call are in memory once it has had the lock, and in the file
\* once it has saved.
Made(r, m, f, k) ==
  /\ r.call = "peers" /\ r.todo \notin {P1, Q1} => r.n \in m.peers
  /\ r.call = "peers" /\ r.todo \in {P3, Q3} => f = Torn \/ r.n \in f.conf.peers
  /\ r.call = "other" /\ r.todo \notin {B1, X1} => r.n \in m.other
  /\ r.call = "Init" /\ r.todo # I1 => m.id # NoId
  /\ r.call = "Init" /\ r.todo \notin {I1, I2} => k.id # NoId

Goroutines == \A t \in Threads : Opening(thread[t], mem, file) /\ Made(thread[t], mem, file, kept)

Within(k, conf) ==
  k.id \in {NoId, conf.id} /\ k.peers \subseteq conf.peers /\ k.other \subseteq conf.other

Kept == (running => Within(kept, mem)) /\ (file = Torn \/ Within(kept, file.conf))

Inv == Typed /\ Locked /\ Process /\ Goroutines /\ Kept /\ FileIsCurrent

-----------------------------------------------------------------------------
(* Sequences of steps.                                                     *)

\* A sequence that has the elements of two others is their concatenation.
LEMMA Concatenated ==
  ASSUME NEW S, NEW s \in Seq(S), NEW t \in Seq(S), NEW u \in Seq(S),
         NEW m \in Nat, NEW n \in Nat, Len(s) = m, Len(t) = n, Len(u) = m + n,
         \A i \in 1 .. m : u[i] = s[i], \A i \in 1 .. n : u[m + i] = t[i]
  PROVE  s \o t = u
<1> DEFINE c == s \o t
<1>1. c \in Seq(S) /\ Len(c) = m + n
  BY SMTT(30)
<1>2. \A i \in 1 .. m + n : (i <= m => c[i] = s[i]) /\ (~(i <= m) => c[i] = t[i - m])
  BY SMTT(30)
<1>3. \A i \in 1 .. m + n : c[i] = u[i]
  <2> SUFFICES ASSUME NEW i \in 1 .. m + n PROVE c[i] = u[i]
    BY Zenon
  <2> HIDE DEF c
  <2>1. CASE i <= m
    BY <1>2, <2>1
  <2>2. CASE ~(i <= m)
    <3>1. i - m \in 1 .. n /\ m + (i - m) = i
      BY <2>2
    <3>2. u[m + (i - m)] = t[i - m]
      BY <3>1, Zenon
    <3> QED
      BY <1>2, <2>2, <3>1, <3>2, Zenon
  <2> QED
    BY <2>1, <2>2, Zenon
<1> HIDE DEF c
<1>4. c = u
  BY <1>1, <1>3, SMTT(30)
<1> QED
  BY <1>4, Zenon DEF c

\* The steps there are.
StepNames == {"Lock", "write", "Unlock", "RLock", "RUnlock", "emit", "apply", "serve", "subscribeTunnel",
              "read", "store", "subscribeDNS", "upstream", "cancel", "exit"}

\* The programs of the calls, step by step.
LEMMA ProgramSteps ==
  /\ UpsertPeer = P1 /\ RemovePeer = P1 /\ UpdatePeerSettings = Q1
  /\ UpsertBlockedPeer = B1 /\ SetProxyPeerID = X1
  /\ AppInit = I1 /\ AppClose = C1
  /\ RefreshPeersList = R1 /\ refreshDNSConfig = R2 /\ save = M1
<1>1. <<"Lock">> \o <<"write">>
       = <<"Lock", "write">>
  <2> DEFINE s == <<"Lock">>
             t == <<"write">>
             u == <<"Lock", "write">>
             m == 1
             n == 1
  <2>1. s \in Seq(StepNames) /\ t \in Seq(StepNames) /\ u \in Seq(StepNames)
    BY DEF StepNames
  <2>2. Len(s) = m /\ Len(t) = n /\ Len(u) = m + n /\ m \in Nat /\ n \in Nat
    OBVIOUS
  <2>3. (\A i \in 1 .. m : u[i] = s[i]) /\ \A i \in 1 .. n : u[m + i] = t[i]
    OBVIOUS
  <2> HIDE DEF s, t, u, m, n
  <2>4. s \o t = u
    BY <2>1, <2>2, <2>3, Concatenated, ZenonT(60)
  <2> QED
    BY <2>4, Zenon DEF s, t, u
<1>2. <<"RLock">> \o <<"write">>
       = <<"RLock", "write">>
  <2> DEFINE s == <<"RLock">>
             t == <<"write">>
             u == <<"RLock", "write">>
             m == 1
             n == 1
  <2>1. s \in Seq(StepNames) /\ t \in Seq(StepNames) /\ u \in Seq(StepNames)
    BY DEF StepNames
  <2>2. Len(s) = m /\ Len(t) = n /\ Len(u) = m + n /\ m \in Nat /\ n \in Nat
    OBVIOUS
  <2>3. (\A i \in 1 .. m : u[i] = s[i]) /\ \A i \in 1 .. n : u[m + i] = t[i]
    OBVIOUS
  <2> HIDE DEF s, t, u, m, n
  <2>4. s \o t = u
    BY <2>1, <2>2, <2>3, Concatenated, ZenonT(60)
  <2> QED
    BY <2>4, Zenon DEF s, t, u
<1>3. <<"Lock", "write">> \o <<"Unlock", "emit">>
       = <<"Lock", "write", "Unlock", "emit">>
  <2> DEFINE s == <<"Lock", "write">>
             t == <<"Unlock", "emit">>
             u == <<"Lock", "write", "Unlock", "emit">>
             m == 2
             n == 2
  <2>1. s \in Seq(StepNames) /\ t \in Seq(StepNames) /\ u \in Seq(StepNames)
    BY DEF StepNames
  <2>2. Len(s) = m /\ Len(t) = n /\ Len(u) = m + n /\ m \in Nat /\ n \in Nat
    OBVIOUS
  <2>3. (\A i \in 1 .. m : u[i] = s[i]) /\ \A i \in 1 .. n : u[m + i] = t[i]
    OBVIOUS
  <2> HIDE DEF s, t, u, m, n
  <2>4. s \o t = u
    BY <2>1, <2>2, <2>3, Concatenated, Zenon
  <2> QED
    BY <2>4, Zenon DEF s, t, u
<1>4. <<"Lock", "write">> \o <<"emit", "Unlock">>
       = <<"Lock", "write", "emit", "Unlock">>
  <2> DEFINE s == <<"Lock", "write">>
             t == <<"emit", "Unlock">>
             u == <<"Lock", "write", "emit", "Unlock">>
             m == 2
             n == 2
  <2>1. s \in Seq(StepNames) /\ t \in Seq(StepNames) /\ u \in Seq(StepNames)
    BY DEF StepNames
  <2>2. Len(s) = m /\ Len(t) = n /\ Len(u) = m + n /\ m \in Nat /\ n \in Nat
    OBVIOUS
  <2>3. (\A i \in 1 .. m : u[i] = s[i]) /\ \A i \in 1 .. n : u[m + i] = t[i]
    OBVIOUS
  <2> HIDE DEF s, t, u, m, n
  <2>4. s \o t = u
    BY <2>1, <2>2, <2>3, Concatenated, Zenon
  <2> QED
    BY <2>4, Zenon DEF s, t, u
<1>5. <<"Lock", "write">> \o <<"Unlock">>
       = <<"Lock", "write", "Unlock">>
  <2> DEFINE s == <<"Lock", "write">>
             t == <<"Unlock">>
             u == <<"Lock", "write", "Unlock">>
             m == 2
             n == 1
  <2>1. s \in Seq(StepNames) /\ t \in Seq(StepNames) /\ u \in Seq(StepNames)
    BY DEF StepNames
  <2>2. Len(s) = m /\ Len(t) = n /\ Len(u) = m + n /\ m \in Nat /\ n \in Nat
    OBVIOUS
  <2>3. (\A i \in 1 .. m : u[i] = s[i]) /\ \A i \in 1 .. n : u[m + i] = t[i]
    OBVIOUS
  <2> HIDE DEF s, t, u, m, n
  <2>4. s \o t = u
    BY <2>1, <2>2, <2>3, Concatenated, Zenon
  <2> QED
    BY <2>4, Zenon DEF s, t, u
<1>6. <<"RLock", "write">> \o <<"RUnlock">>
       = <<"RLock", "write", "RUnlock">>
  <2> DEFINE s == <<"RLock", "write">>
             t == <<"RUnlock">>
             u == <<"RLock", "write", "RUnlock">>
             m == 2
             n == 1
  <2>1. s \in Seq(StepNames) /\ t \in Seq(StepNames) /\ u \in Seq(StepNames)
    BY DEF StepNames
  <2>2. Len(s) = m /\ Len(t) = n /\ Len(u) = m + n /\ m \in Nat /\ n \in Nat
    OBVIOUS
  <2>3. (\A i \in 1 .. m : u[i] = s[i]) /\ \A i \in 1 .. n : u[m + i] = t[i]
    OBVIOUS
  <2> HIDE DEF s, t, u, m, n
  <2>4. s \o t = u
    BY <2>1, <2>2, <2>3, Concatenated, Zenon
  <2> QED
    BY <2>4, Zenon DEF s, t, u
<1>7. <<"Lock", "Unlock">> \o <<"RLock", "write", "RUnlock">>
       = <<"Lock", "Unlock", "RLock", "write", "RUnlock">>
  <2> DEFINE s == <<"Lock", "Unlock">>
             t == <<"RLock", "write", "RUnlock">>
             u == <<"Lock", "Unlock", "RLock", "write", "RUnlock">>
             m == 2
             n == 3
  <2>1. s \in Seq(StepNames) /\ t \in Seq(StepNames) /\ u \in Seq(StepNames)
    BY DEF StepNames
  <2>2. Len(s) = m /\ Len(t) = n /\ Len(u) = m + n /\ m \in Nat /\ n \in Nat
    OBVIOUS
  <2>3. (\A i \in 1 .. m : u[i] = s[i]) /\ \A i \in 1 .. n : u[m + i] = t[i]
    OBVIOUS
  <2> HIDE DEF s, t, u, m, n
  <2>4. s \o t = u
    BY <2>1, <2>2, <2>3, Concatenated, Zenon
  <2> QED
    BY <2>4, Zenon DEF s, t, u
<1>8. <<"read", "store">> \o <<"subscribeDNS", "upstream">>
       = <<"read", "store", "subscribeDNS", "upstream">>
  <2> DEFINE s == <<"read", "store">>
             t == <<"subscribeDNS", "upstream">>
             u == <<"read", "store", "subscribeDNS", "upstream">>
             m == 2
             n == 2
  <2>1. s \in Seq(StepNames) /\ t \in Seq(StepNames) /\ u \in Seq(StepNames)
    BY DEF StepNames
  <2>2. Len(s) = m /\ Len(t) = n /\ Len(u) = m + n /\ m \in Nat /\ n \in Nat
    OBVIOUS
  <2>3. (\A i \in 1 .. m : u[i] = s[i]) /\ \A i \in 1 .. n : u[m + i] = t[i]
    OBVIOUS
  <2> HIDE DEF s, t, u, m, n
  <2>4. s \o t = u
    BY <2>1, <2>2, <2>3, Concatenated, ZenonT(60)
  <2> QED
    BY <2>4, Zenon DEF s, t, u
<1>9. <<"read", "store", "subscribeDNS", "upstream">> \o <<"read", "store">>
       = <<"read", "store", "subscribeDNS", "upstream", "read", "store">>
  <2> DEFINE s == <<"read", "store", "subscribeDNS", "upstream">>
             t == <<"read", "store">>
             u == <<"read", "store", "subscribeDNS", "upstream", "read", "store">>
             m == 4
             n == 2
  <2>1. s \in Seq(StepNames) /\ t \in Seq(StepNames) /\ u \in Seq(StepNames)
    BY DEF StepNames
  <2>2. Len(s) = m /\ Len(t) = n /\ Len(u) = m + n /\ m \in Nat /\ n \in Nat
    OBVIOUS
  <2>3. (\A i \in 1 .. m : u[i] = s[i]) /\ \A i \in 1 .. n : u[m + i] = t[i]
    OBVIOUS
  <2> HIDE DEF s, t, u, m, n
  <2>4. s \o t = u
    BY <2>1, <2>2, <2>3, Concatenated, ZenonT(60)
  <2> QED
    BY <2>4, Zenon DEF s, t, u
<1>10. <<"Lock", "write", "Unlock">> \o <<"apply">>
       = <<"Lock", "write", "Unlock", "apply">>
  <2> DEFINE s == <<"Lock", "write", "Unlock">>
             t == <<"apply">>
             u == <<"Lock", "write", "Unlock", "apply">>
             m == 3
             n == 1
  <2>1. s \in Seq(StepNames) /\ t \in Seq(StepNames) /\ u \in Seq(StepNames)
    BY DEF StepNames
  <2>2. Len(s) = m /\ Len(t) = n /\ Len(u) = m + n /\ m \in Nat /\ n \in Nat
    OBVIOUS
  <2>3. (\A i \in 1 .. m : u[i] = s[i]) /\ \A i \in 1 .. n : u[m + i] = t[i]
    OBVIOUS
  <2> HIDE DEF s, t, u, m, n
  <2>4. s \o t = u
    BY <2>1, <2>2, <2>3, Concatenated, Zenon
  <2> QED
    BY <2>4, Zenon DEF s, t, u
<1>11. <<"Lock", "write", "Unlock", "apply">> \o <<"serve", "subscribeTunnel">>
       = <<"Lock", "write", "Unlock", "apply", "serve", "subscribeTunnel">>
  <2> DEFINE s == <<"Lock", "write", "Unlock", "apply">>
             t == <<"serve", "subscribeTunnel">>
             u == <<"Lock", "write", "Unlock", "apply", "serve", "subscribeTunnel">>
             m == 4
             n == 2
  <2>1. s \in Seq(StepNames) /\ t \in Seq(StepNames) /\ u \in Seq(StepNames)
    BY DEF StepNames
  <2>2. Len(s) = m /\ Len(t) = n /\ Len(u) = m + n /\ m \in Nat /\ n \in Nat
    OBVIOUS
  <2>3. (\A i \in 1 .. m : u[i] = s[i]) /\ \A i \in 1 .. n : u[m + i] = t[i]
    OBVIOUS
  <2> HIDE DEF s, t, u, m, n
  <2>4. s \o t = u
    BY <2>1, <2>2, <2>3, Concatenated, Zenon
  <2> QED
    BY <2>4, Zenon DEF s, t, u
<1>12. <<"Lock", "write", "Unlock", "apply", "serve", "subscribeTunnel">> \o <<"read", "store", "subscribeDNS", "upstream", "read", "store">>
       = <<"Lock", "write", "Unlock", "apply", "serve", "subscribeTunnel", "read", "store", "subscribeDNS", "upstream", "read", "store">>
  <2> DEFINE s == <<"Lock", "write", "Unlock", "apply", "serve", "subscribeTunnel">>
             t == <<"read", "store", "subscribeDNS", "upstream", "read", "store">>
             u == <<"Lock", "write", "Unlock", "apply", "serve", "subscribeTunnel", "read", "store", "subscribeDNS", "upstream", "read", "store">>
             m == 6
             n == 6
  <2>1. s \in Seq(StepNames) /\ t \in Seq(StepNames) /\ u \in Seq(StepNames)
    BY DEF StepNames
  <2>2. Len(s) = m /\ Len(t) = n /\ Len(u) = m + n /\ m \in Nat /\ n \in Nat
    OBVIOUS
  <2>3. (\A i \in 1 .. m : u[i] = s[i]) /\ \A i \in 1 .. n : u[m + i] = t[i]
    OBVIOUS
  <2> HIDE DEF s, t, u, m, n
  <2>4. s \o t = u
    BY <2>1, <2>2, <2>3, Concatenated, Zenon
  <2> QED
    BY <2>4, Zenon DEF s, t, u
<1>13. <<"RLock", "write", "RUnlock">> \o <<"cancel">>
       = <<"RLock", "write", "RUnlock", "cancel">>
  <2> DEFINE s == <<"RLock", "write", "RUnlock">>
             t == <<"cancel">>
             u == <<"RLock", "write", "RUnlock", "cancel">>
             m == 3
             n == 1
  <2>1. s \in Seq(StepNames) /\ t \in Seq(StepNames) /\ u \in Seq(StepNames)
    BY DEF StepNames
  <2>2. Len(s) = m /\ Len(t) = n /\ Len(u) = m + n /\ m \in Nat /\ n \in Nat
    OBVIOUS
  <2>3. (\A i \in 1 .. m : u[i] = s[i]) /\ \A i \in 1 .. n : u[m + i] = t[i]
    OBVIOUS
  <2> HIDE DEF s, t, u, m, n
  <2>4. s \o t = u
    BY <2>1, <2>2, <2>3, Concatenated, Zenon
  <2> QED
    BY <2>4, Zenon DEF s, t, u
<1>14. <<"RLock", "write", "RUnlock", "cancel">> \o <<"RLock", "write", "RUnlock">>
       = <<"RLock", "write", "RUnlock", "cancel", "RLock", "write", "RUnlock">>
  <2> DEFINE s == <<"RLock", "write", "RUnlock", "cancel">>
             t == <<"RLock", "write", "RUnlock">>
             u == <<"RLock", "write", "RUnlock", "cancel", "RLock", "write", "RUnlock">>
             m == 4
             n == 3
  <2>1. s \in Seq(StepNames) /\ t \in Seq(StepNames) /\ u \in Seq(StepNames)
    BY DEF StepNames
  <2>2. Len(s) = m /\ Len(t) = n /\ Len(u) = m + n /\ m \in Nat /\ n \in Nat
    OBVIOUS
  <2>3. (\A i \in 1 .. m : u[i] = s[i]) /\ \A i \in 1 .. n : u[m + i] = t[i]
    OBVIOUS
  <2> HIDE DEF s, t, u, m, n
  <2>4. s \o t = u
    BY <2>1, <2>2, <2>3, Concatenated, Zenon
  <2> QED
    BY <2>4, Zenon DEF s, t, u
<1>15. <<"RLock", "write", "RUnlock", "cancel", "RLock", "write", "RUnlock">> \o <<"exit">>
       = <<"RLock", "write", "RUnlock", "cancel", "RLock", "write", "RUnlock", "exit">>
  <2> DEFINE s == <<"RLock", "write", "RUnlock", "cancel", "RLock", "write", "RUnlock">>
             t == <<"exit">>
             u == <<"RLock", "write", "RUnlock", "cancel", "RLock", "write", "RUnlock", "exit">>
             m == 7
             n == 1
  <2>1. s \in Seq(StepNames) /\ t \in Seq(StepNames) /\ u \in Seq(StepNames)
    BY DEF StepNames
  <2>2. Len(s) = m /\ Len(t) = n /\ Len(u) = m + n /\ m \in Nat /\ n \in Nat
    OBVIOUS
  <2>3. (\A i \in 1 .. m : u[i] = s[i]) /\ \A i \in 1 .. n : u[m + i] = t[i]
    OBVIOUS
  <2> HIDE DEF s, t, u, m, n
  <2>4. s \o t = u
    BY <2>1, <2>2, <2>3, Concatenated, Zenon
  <2> QED
    BY <2>4, Zenon DEF s, t, u
<1>16. UpsertPeer = P1 /\ RemovePeer = P1 /\ UpdatePeerSettings = Q1 /\ UpsertBlockedPeer = B1
  BY <1>1, <1>3, <1>4, <1>5, Zenon DEF UpsertPeer, RemovePeer, UpdatePeerSettings, UpsertBlockedPeer, save, P1, Q1, B1
<1>17. Save = X2
  BY <1>2, <1>6, Zenon DEF Save, save, X2
<1>18. SetProxyPeerID = X1
  BY <1>7, <1>17, Zenon DEF SetProxyPeerID, X1, X2
<1>19. SetIdentity = B1 /\ initDNS = I6
  BY <1>1, <1>5, <1>8, <1>9, Zenon DEF SetIdentity, initDNS, refreshDNSConfig, save, B1, I6
<1>20. AppInit = I1
  BY <1>10, <1>11, <1>12, <1>19, Zenon DEF AppInit, RefreshPeersList, B1, I1, I6
<1>21. AppClose = C1
  BY <1>13, <1>14, <1>15, <1>17, Zenon DEF AppClose, C1, X2
<1> QED
  BY <1>16, <1>18, <1>20, <1>21, Zenon DEF RefreshPeersList, refreshDNSConfig, save, R1, R2, M1

-----------------------------------------------------------------------------
(* One step of a goroutine.                                                *)

\* Whether the lock is released with the first step, and what is left then.
Releases(todo) == Tail(todo) # <<>> /\ Head(Tail(todo)) \in {"Unlock", "RUnlock"}
Rest(todo)     == IF Releases(todo) THEN Tail(Tail(todo)) ELSE Tail(todo)

After(r, data) ==
  IF Rest(r.todo) = <<>> THEN Idle
  ELSE [r EXCEPT !.todo = Rest(r.todo), !.data = IF Head(Rest(r.todo)) \in {"write", "store"} THEN data ELSE Empty]

\* The steps of a change of the known peers.
LEMMA PeersTable ==
  /\ P1 # <<>> /\ Head(P1) = "Lock" /\ ~Releases(P1) /\ Rest(P1) = P2
  /\ P2 # <<>> /\ Head(P2) = "write" /\ Releases(P2) /\ Rest(P2) = P3
  /\ P3 # <<>> /\ Head(P3) = "emit" /\ ~Releases(P3) /\ Rest(P3) = <<>>
  /\ Q1 # <<>> /\ Head(Q1) = "Lock" /\ ~Releases(Q1) /\ Rest(Q1) = Q2
  /\ Q2 # <<>> /\ Head(Q2) = "write" /\ ~Releases(Q2) /\ Rest(Q2) = Q3
  /\ Q3 # <<>> /\ Head(Q3) = "emit" /\ Releases(Q3) /\ Rest(Q3) = <<>>
<1>1. P1 # <<>> /\ Head(P1) = "Lock" /\ ~Releases(P1) /\ Rest(P1) = P2
  BY DEF Releases, Rest, P1, P2
<1>2. P2 # <<>> /\ Head(P2) = "write" /\ Releases(P2) /\ Rest(P2) = P3
  BY DEF Releases, Rest, P2, P3
<1>3. P3 # <<>> /\ Head(P3) = "emit" /\ ~Releases(P3) /\ Rest(P3) = <<>>
  BY DEF Releases, Rest, P3
<1>4. Q1 # <<>> /\ Head(Q1) = "Lock" /\ ~Releases(Q1) /\ Rest(Q1) = Q2
  BY DEF Releases, Rest, Q1, Q2
<1>5. Q2 # <<>> /\ Head(Q2) = "write" /\ ~Releases(Q2) /\ Rest(Q2) = Q3
  BY DEF Releases, Rest, Q2, Q3
<1>6. Q3 # <<>> /\ Head(Q3) = "emit" /\ Releases(Q3) /\ Rest(Q3) = <<>>
  BY DEF Releases, Rest, Q3
<1> QED
  BY <1>1, <1>2, <1>3, <1>4, <1>5, <1>6, Zenon

\* The steps of the other changes.
LEMMA OtherTable ==
  /\ B1 # <<>> /\ Head(B1) = "Lock" /\ ~Releases(B1) /\ Rest(B1) = B2
  /\ B2 # <<>> /\ Head(B2) = "write" /\ Releases(B2) /\ Rest(B2) = <<>>
  /\ X1 # <<>> /\ Head(X1) = "Lock" /\ Releases(X1) /\ Rest(X1) = X2
  /\ X2 # <<>> /\ Head(X2) = "RLock" /\ ~Releases(X2) /\ Rest(X2) = X3
  /\ X3 # <<>> /\ Head(X3) = "write" /\ Releases(X3) /\ Rest(X3) = <<>>
<1>1. B1 # <<>> /\ Head(B1) = "Lock" /\ ~Releases(B1) /\ Rest(B1) = B2
  BY DEF Releases, Rest, B1, B2
<1>2. B2 # <<>> /\ Head(B2) = "write" /\ Releases(B2) /\ Rest(B2) = <<>>
  BY DEF Releases, Rest, B2
<1>3. X1 # <<>> /\ Head(X1) = "Lock" /\ Releases(X1) /\ Rest(X1) = X2
  BY DEF Releases, Rest, X1, X2
<1>4. X2 # <<>> /\ Head(X2) = "RLock" /\ ~Releases(X2) /\ Rest(X2) = X3
  BY DEF Releases, Rest, X2, X3
<1>5. X3 # <<>> /\ Head(X3) = "write" /\ Releases(X3) /\ Rest(X3) = <<>>
  BY DEF Releases, Rest, X3
<1> QED
  BY <1>1, <1>2, <1>3, <1>4, <1>5, Zenon

\* The steps of Application.Init.
LEMMA InitTable ==
  /\ I1 # <<>> /\ Head(I1) = "Lock" /\ ~Releases(I1) /\ Rest(I1) = I2
  /\ I2 # <<>> /\ Head(I2) = "write" /\ Releases(I2) /\ Rest(I2) = I3
  /\ I3 # <<>> /\ Head(I3) = "apply" /\ ~Releases(I3) /\ Rest(I3) = I4
  /\ I4 # <<>> /\ Head(I4) = "serve" /\ ~Releases(I4) /\ Rest(I4) = I5
  /\ I5 # <<>> /\ Head(I5) = "subscribeTunnel" /\ ~Releases(I5) /\ Rest(I5) = I6
  /\ I6 # <<>> /\ Head(I6) = "read" /\ ~Releases(I6) /\ Rest(I6) = I7
  /\ I7 # <<>> /\ Head(I7) = "store" /\ ~Releases(I7) /\ Rest(I7) = I8
  /\ I8 # <<>> /\ Head(I8) = "subscribeDNS" /\ ~Releases(I8) /\ Rest(I8) = I9
  /\ I9 # <<>> /\ Head(I9) = "upstream" /\ ~Releases(I9) /\ Rest(I9) = R2
<1>1. I1 # <<>> /\ Head(I1) = "Lock" /\ ~Releases(I1) /\ Rest(I1) = I2
  BY DEF Releases, Rest, I1, I2
<1>2. I2 # <<>> /\ Head(I2) = "write" /\ Releases(I2) /\ Rest(I2) = I3
  BY DEF Releases, Rest, I2, I3
<1>3. I3 # <<>> /\ Head(I3) = "apply" /\ ~Releases(I3) /\ Rest(I3) = I4
  BY DEF Releases, Rest, I3, I4
<1>4. I4 # <<>> /\ Head(I4) = "serve" /\ ~Releases(I4) /\ Rest(I4) = I5
  BY DEF Releases, Rest, I4, I5
<1>5. I5 # <<>> /\ Head(I5) = "subscribeTunnel" /\ ~Releases(I5) /\ Rest(I5) = I6
  BY DEF Releases, Rest, I5, I6
<1>6. I6 # <<>> /\ Head(I6) = "read" /\ ~Releases(I6) /\ Rest(I6) = I7
  BY DEF Releases, Rest, I6, I7
<1>7. I7 # <<>> /\ Head(I7) = "store" /\ ~Releases(I7) /\ Rest(I7) = I8
  BY DEF Releases, Rest, I7, I8
<1>8. I8 # <<>> /\ Head(I8) = "subscribeDNS" /\ ~Releases(I8) /\ Rest(I8) = I9
  BY DEF Releases, Rest, I8, I9
<1>9. I9 # <<>> /\ Head(I9) = "upstream" /\ ~Releases(I9) /\ Rest(I9) = R2
  BY DEF Releases, Rest, I9, R2
<1> QED
  BY <1>1, <1>2, <1>3, <1>4, <1>5, <1>6, <1>7, <1>8, <1>9, Zenon

\* The steps of Application.Close.
LEMMA CloseTable ==
  /\ C1 # <<>> /\ Head(C1) = "RLock" /\ ~Releases(C1) /\ Rest(C1) = C2
  /\ C2 # <<>> /\ Head(C2) = "write" /\ Releases(C2) /\ Rest(C2) = C3
  /\ C3 # <<>> /\ Head(C3) = "cancel" /\ ~Releases(C3) /\ Rest(C3) = C4
  /\ C4 # <<>> /\ Head(C4) = "RLock" /\ ~Releases(C4) /\ Rest(C4) = C5
  /\ C5 # <<>> /\ Head(C5) = "write" /\ Releases(C5) /\ Rest(C5) = C6
  /\ C6 # <<>> /\ Head(C6) = "exit"
<1>1. C1 # <<>> /\ Head(C1) = "RLock" /\ ~Releases(C1) /\ Rest(C1) = C2
  BY DEF Releases, Rest, C1, C2
<1>2. C2 # <<>> /\ Head(C2) = "write" /\ Releases(C2) /\ Rest(C2) = C3
  BY DEF Releases, Rest, C2, C3
<1>3. C3 # <<>> /\ Head(C3) = "cancel" /\ ~Releases(C3) /\ Rest(C3) = C4
  BY DEF Releases, Rest, C3, C4
<1>4. C4 # <<>> /\ Head(C4) = "RLock" /\ ~Releases(C4) /\ Rest(C4) = C5
  BY DEF Releases, Rest, C4, C5
<1>5. C5 # <<>> /\ Head(C5) = "write" /\ Releases(C5) /\ Rest(C5) = C6
  BY DEF Releases, Rest, C5, C6
<1>6. C6 # <<>> /\ Head(C6) = "exit"
  BY DEF C6
<1> QED
  BY <1>1, <1>2, <1>3, <1>4, <1>5, <1>6, Zenon

\* The steps of a refresh and of an import.
LEMMA RefreshTable ==
  /\ R1 # <<>> /\ Head(R1) = "apply" /\ ~Releases(R1) /\ Rest(R1) = <<>>
  /\ R2 # <<>> /\ Head(R2) = "read" /\ ~Releases(R2) /\ Rest(R2) = R3
  /\ R3 # <<>> /\ Head(R3) = "store" /\ ~Releases(R3) /\ Rest(R3) = <<>>
  /\ M1 # <<>> /\ Head(M1) = "write" /\ ~Releases(M1) /\ Rest(M1) = <<>>
<1>1. R1 # <<>> /\ Head(R1) = "apply" /\ ~Releases(R1) /\ Rest(R1) = <<>>
  BY DEF Releases, Rest, R1
<1>2. R2 # <<>> /\ Head(R2) = "read" /\ ~Releases(R2) /\ Rest(R2) = R3
  BY DEF Releases, Rest, R2, R3
<1>3. R3 # <<>> /\ Head(R3) = "store" /\ ~Releases(R3) /\ Rest(R3) = <<>>
  BY DEF Releases, Rest, R3
<1>4. M1 # <<>> /\ Head(M1) = "write" /\ ~Releases(M1) /\ Rest(M1) = <<>>
  BY DEF Releases, Rest, M1
<1> QED
  BY <1>1, <1>2, <1>3, <1>4, Zenon

\* A step that is at the lock, and what follows it.
LEMMA AtLock ==
  ASSUME NEW t, NEW r \in Thread, Form(t, r), r.todo # <<>>, Head(r.todo) = "Lock"
  PROVE  \/ /\ t \in Workers /\ r.call = "peers" /\ r.todo \in {P1, Q1} /\ ~Releases(r.todo)
            /\ Rest(r.todo) \in {P2, Q2}
         \/ t \in Workers /\ r.call = "other" /\ r.todo = B1 /\ ~Releases(r.todo) /\ Rest(r.todo) = B2
         \/ t \in Workers /\ r.call = "other" /\ r.todo = X1 /\ Releases(r.todo) /\ Rest(r.todo) = X2
         \/ t = "app" /\ r.call = "Init" /\ r.todo = I1 /\ ~Releases(r.todo) /\ Rest(r.todo) = I2 /\ r.n # NoId
<1>1. CASE r = Idle
  BY <1>1, Zenon DEF Idle
<1>2. CASE t \in Workers /\ r.call = "peers" /\ r.todo \in PeersTodo
  BY <1>2, PeersTable, Zenon DEF PeersTodo
<1>3. CASE t \in Workers /\ r.call = "other" /\ r.todo \in OtherTodo
  BY <1>3, OtherTable, Zenon DEF OtherTodo
<1>4. CASE t = "app" /\ r.call = "Init" /\ r.todo \in InitTodo /\ r.n # NoId
  BY <1>4, InitTable, RefreshTable DEF InitTodo
<1>5. CASE t = "app" /\ r.call = "Close" /\ r.todo \in CloseTodo
  BY <1>5, CloseTable, Zenon DEF CloseTodo
<1>6. CASE r.todo \in {M1, R1, R2, R3}
  BY <1>6, RefreshTable, Zenon
<1> QED
  BY <1>1, <1>2, <1>3, <1>4, <1>5, <1>6, Zenon DEF Form

\* The same at the lock for reading, ...
LEMMA AtRLock ==
  ASSUME NEW t, NEW r \in Thread, Form(t, r), r.todo # <<>>, Head(r.todo) = "RLock"
  PROVE  /\ ~Releases(r.todo)
         /\ \/ t \in Workers /\ r.call = "other" /\ r.todo = X2 /\ Rest(r.todo) = X3
            \/ t = "app" /\ r.call = "Close" /\ r.todo = C1 /\ Rest(r.todo) = C2
            \/ t = "app" /\ r.call = "Close" /\ r.todo = C4 /\ Rest(r.todo) = C5
<1>1. CASE r = Idle
  BY <1>1, Zenon DEF Idle
<1>2. CASE t \in Workers /\ r.call = "peers" /\ r.todo \in PeersTodo
  BY <1>2, PeersTable, Zenon DEF PeersTodo
<1>3. CASE t \in Workers /\ r.call = "other" /\ r.todo \in OtherTodo
  BY <1>3, OtherTable, Zenon DEF OtherTodo
<1>4. CASE t = "app" /\ r.call = "Init" /\ r.todo \in InitTodo
  BY <1>4, InitTable, RefreshTable DEF InitTodo
<1>5. CASE t = "app" /\ r.call = "Close" /\ r.todo \in CloseTodo
  BY <1>5, CloseTable, Zenon DEF CloseTodo
<1>6. CASE r.todo \in {M1, R1, R2, R3}
  BY <1>6, RefreshTable, Zenon
<1> QED
  BY <1>1, <1>2, <1>3, <1>4, <1>5, <1>6, Zenon DEF Form

\* ... at the write of the file, ...
LEMMA AtWrite ==
  ASSUME NEW t, NEW r \in Thread, Form(t, r), r.todo # <<>>, Head(r.todo) = "write"
  PROVE  \/ t \in Workers /\ r.call = "peers" /\ r.todo = P2 /\ Releases(r.todo) /\ Rest(r.todo) = P3
         \/ t \in Workers /\ r.call = "peers" /\ r.todo = Q2 /\ ~Releases(r.todo) /\ Rest(r.todo) = Q3
         \/ t \in Workers /\ r.call = "other" /\ r.todo \in {B2, X3} /\ Releases(r.todo) /\ Rest(r.todo) = <<>>
         \/ t = "app" /\ r.call = "Init" /\ r.todo = I2 /\ Releases(r.todo) /\ Rest(r.todo) = I3 /\ r.n # NoId
         \/ t = "app" /\ r.call = "Close" /\ r.todo = C2 /\ Releases(r.todo) /\ Rest(r.todo) = C3
         \/ t = "app" /\ r.call = "Close" /\ r.todo = C5 /\ Releases(r.todo) /\ Rest(r.todo) = C6
         \/ /\ t = "app" /\ r.call = "ImportConfig" /\ r.todo = M1 /\ ~Releases(r.todo) /\ Rest(r.todo) = <<>>
            /\ r.data = [Empty EXCEPT !.id = Imported]
<1>1. CASE r = Idle
  BY <1>1, Zenon DEF Idle
<1>2. CASE t \in Workers /\ r.call = "peers" /\ r.todo \in PeersTodo
  BY <1>2, PeersTable, Zenon DEF PeersTodo
<1>3. CASE t \in Workers /\ r.call = "other" /\ r.todo \in OtherTodo
  BY <1>3, OtherTable, Zenon DEF OtherTodo
<1>4. CASE t = "app" /\ r.call = "Init" /\ r.todo \in InitTodo /\ r.n # NoId
  BY <1>4, InitTable, RefreshTable DEF InitTodo
<1>5. CASE t = "app" /\ r.call = "Close" /\ r.todo \in CloseTodo
  BY <1>5, CloseTable, Zenon DEF CloseTodo
<1>6. CASE t = "app" /\ r.call = "ImportConfig" /\ r.todo = M1 /\ r.data = [Empty EXCEPT !.id = Imported]
  BY <1>6, RefreshTable, Zenon
<1>7. CASE r.todo \in {R1, R2, R3}
  BY <1>7, RefreshTable, Zenon
<1> QED
  BY <1>1, <1>2, <1>3, <1>4, <1>5, <1>6, <1>7, Zenon DEF Form

\* ... at the emission of the event, ...
LEMMA AtEmit ==
  ASSUME NEW t, NEW r \in Thread, Form(t, r), r.todo # <<>>, Head(r.todo) = "emit"
  PROVE  /\ t \in Workers /\ r.call = "peers" /\ Rest(r.todo) = <<>>
         /\ (r.todo = P3 /\ ~Releases(r.todo)) \/ (r.todo = Q3 /\ Releases(r.todo))
<1>1. CASE r = Idle
  BY <1>1, Zenon DEF Idle
<1>2. CASE t \in Workers /\ r.call = "peers" /\ r.todo \in PeersTodo
  BY <1>2, PeersTable, Zenon DEF PeersTodo
<1>3. CASE t \in Workers /\ r.call = "other" /\ r.todo \in OtherTodo
  BY <1>3, OtherTable, Zenon DEF OtherTodo
<1>4. CASE t = "app" /\ r.call = "Init" /\ r.todo \in InitTodo
  BY <1>4, InitTable, RefreshTable DEF InitTodo
<1>5. CASE t = "app" /\ r.call = "Close" /\ r.todo \in CloseTodo
  BY <1>5, CloseTable, Zenon DEF CloseTodo
<1>6. CASE r.todo \in {M1, R1, R2, R3}
  BY <1>6, RefreshTable, Zenon
<1> QED
  BY <1>1, <1>2, <1>3, <1>4, <1>5, <1>6, Zenon DEF Form

\* ... and at any other step but the exit: the lock is not touched.
LEMMA AtOther ==
  ASSUME NEW t, NEW r \in Thread, Form(t, r), r.todo # <<>>,
         Head(r.todo) \notin {"Lock", "RLock", "write", "emit", "exit"}
  PROVE  /\ ~Releases(r.todo)
         /\ \/ /\ t = "app" /\ r.call = "Init" /\ r.todo \in InitTodo \ {I1, I2} /\ r.n # NoId
               /\ Rest(r.todo) \in {<<>>, I4, I5, I6, I7, I8, I9, R2, R3}
            \/ t = "app" /\ r.call = "Close" /\ r.todo = C3 /\ Rest(r.todo) = C4
            \/ t \in Subs /\ r.call = "refresh" /\ r.todo \in {R1, R2, R3} /\ Rest(r.todo) \in {<<>>, R3}
<1>1. CASE r = Idle
  BY <1>1, Zenon DEF Idle
<1>2. CASE t \in Workers /\ r.call = "peers" /\ r.todo \in PeersTodo
  BY <1>2, PeersTable, Zenon DEF PeersTodo
<1>3. CASE t \in Workers /\ r.call = "other" /\ r.todo \in OtherTodo
  BY <1>3, OtherTable, Zenon DEF OtherTodo
<1>4. CASE t = "app" /\ r.call = "Init" /\ r.todo \in InitTodo /\ r.n # NoId
  BY <1>4, InitTable, RefreshTable DEF InitTodo
<1>5. CASE t = "app" /\ r.call = "Close" /\ r.todo \in CloseTodo
  BY <1>5, CloseTable, Zenon DEF CloseTodo
<1>6. CASE r.todo = M1
  BY <1>6, RefreshTable, Zenon
<1>7. CASE t \in Subs /\ r.call = "refresh" /\ r.todo \in {R1, R2, R3}
  BY <1>7, RefreshTable, Zenon
<1> QED
  BY <1>1, <1>2, <1>3, <1>4, <1>5, <1>6, <1>7, Zenon DEF Form

\* What the tables do not tell apart, and which step comes second.
LEMMA Distinct ==
  /\ P3 # Q3 /\ B2 # X3
  /\ Tail(P1)[1] = "write" /\ Tail(Q1)[1] = "write" /\ Tail(B1)[1] = "write" /\ Tail(I1)[1] = "write"
  /\ Tail(X1)[1] # "write" /\ Tail(X2)[1] = "write" /\ Tail(C1)[1] = "write" /\ Tail(C4)[1] = "write"
  /\ \E i \in DOMAIN X2 : X2[i] = "write"
<1>1. P3 # Q3 /\ B2 # X3
  BY Zenon DEF P3, Q3, B2, X3
<1>2. Tail(P1)[1] = "write" /\ Tail(Q1)[1] = "write" /\ Tail(B1)[1] = "write"
  BY DEF P1, Q1, B1
<1>3. Tail(I1)[1] = "write"
  BY DEF I1
<1>4. Tail(X1)[1] # "write" /\ Tail(X2)[1] = "write"
  BY DEF X1, X2
<1>5. Tail(C1)[1] = "write" /\ Tail(C4)[1] = "write"
  BY DEF C1, C4
<1>6. 2 \in DOMAIN X2 /\ X2[2] = "write"
  BY DEF X2
<1> QED
  BY <1>1, <1>2, <1>3, <1>4, <1>5, <1>6, Zenon

\* An idle goroutine.
LEMMA IdleFacts ==
  Idle \in Thread /\ Idle.call = "none" /\ Idle.todo = <<>> /\ Idle.n = 0 /\ (\A t : Form(t, Idle))
<1>1. Empty \in Conf
  BY Zenon DEF Empty, Conf, NoId
<1> QED
  BY <1>1, Zenon DEF Idle, Thread, CallSet, Todos, Form

\* An idle goroutine, and it alone, has nothing to do.
LEMMA IdleIs ==
  ASSUME NEW t, NEW r \in Thread, Form(t, r)
  PROVE  r.todo = <<>> <=> r = Idle
<1>1. ASSUME r # Idle PROVE r.todo # <<>>
  <2>1. <<>> \notin PeersTodo
    BY PeersTable, Zenon DEF PeersTodo
  <2>2. <<>> \notin OtherTodo
    BY OtherTable, Zenon DEF OtherTodo
  <2>3. <<>> \notin InitTodo
    BY InitTable, RefreshTable, Zenon DEF InitTodo
  <2>4. <<>> \notin CloseTodo
    BY CloseTable, Zenon DEF CloseTodo
  <2>5. <<>> # M1 /\ <<>> \notin {R1, R2, R3}
    BY RefreshTable, Zenon
  <2> QED
    BY <1>1, <2>1, <2>2, <2>3, <2>4, <2>5, Zenon DEF Form
<1> QED
  BY <1>1, IdleFacts, Zenon

\* A goroutine after a step.
LEMMA AfterFacts ==
  ASSUME NEW r \in Thread, NEW data \in Conf \cup Names, Rest(r.todo) \in Todos
  PROVE  /\ After(r, data) \in Thread
         /\ Rest(r.todo) = <<>> => After(r, data) = Idle
         /\ Rest(r.todo) # <<>> => /\ After(r, data).call = r.call /\ After(r, data).n = r.n
                                   /\ After(r, data).todo = Rest(r.todo)
                                   /\ Head(Rest(r.todo)) = "write" => After(r, data).data = data
<1> DEFINE todo == Rest(r.todo)
           d == IF Head(todo) \in {"write", "store"} THEN data ELSE Empty
           new == [r EXCEPT !.todo = todo, !.data = d]
<1>1. d \in Conf \cup Names
  BY Zenon DEF Empty, Conf, NoId
<1>2. Head(todo) = "write" => d = data
  BY Zenon
<1>3. After(r, data) = IF todo = <<>> THEN Idle ELSE new
  BY Zenon DEF After
<1>4. todo \in Todos
  BY Zenon
<1> HIDE DEF todo, d
<1>5. new \in Thread /\ new.call = r.call /\ new.n = r.n /\ new.todo = todo /\ new.data = d
  BY <1>1, <1>4, Zenon DEF Thread
<1> HIDE DEF new
<1>6. After(r, data) \in Thread /\ (todo = <<>> => After(r, data) = Idle)
  BY <1>3, <1>5, IdleFacts, Zenon
<1>7. todo # <<>> => After(r, data) = new
  BY <1>3, Zenon
<1> QED
  BY <1>2, <1>5, <1>6, <1>7, Zenon DEF todo

\* What Done assigns.
LEMMA DoneIs ==
  ASSUME NEW t, NEW data, NEW held, Done(t, data, held)
  PROVE  /\ thread' = [thread EXCEPT ![t] = After(thread[t], data)]
         /\ lock' = IF Releases(thread[t].todo) THEN Released(held, t) ELSE held
         /\ thread[t].call = "ImportConfig" => kept' = data
         /\ thread[t].call = "Init" /\ At(t, "write") => kept' = [kept EXCEPT !.id = data.id]
         /\ thread[t].call # "ImportConfig" /\ ~(thread[t].call = "Init" /\ At(t, "write")) =>
              kept' = IF Rest(thread[t].todo) = <<>> THEN Changed(kept, t) ELSE kept
<1>1. thread' = [thread EXCEPT ![t] = After(thread[t], data)]
  BY Zenon DEF Done, After, Releases, Rest
<1>2. lock' = IF Releases(thread[t].todo) THEN Released(held, t) ELSE held
  BY Zenon DEF Done, After, Releases, Rest
<1>3. kept' = IF thread[t].call = "ImportConfig" THEN data
              ELSE IF At(t, "write") /\ thread[t].call = "Init" THEN [kept EXCEPT !.id = data.id]
              ELSE IF Rest(thread[t].todo) = <<>> THEN Changed(kept, t) ELSE kept
  BY Zenon DEF Done, Rest, Releases
<1> QED
  BY <1>1, <1>2, <1>3, Zenon

\* Whoever is about to write the file holds the lock.
LEMMA Holding ==
  ASSUME NEW t, NEW r \in Thread, Form(t, r), Writing(r), r.call # "ImportConfig"
  PROVE  Writes(r) \/ Reads(r)
BY AtWrite, Zenon DEF Writing, Writes, Reads

\* A goroutine that takes the lock.
LEMMA LockMoves ==
  ASSUME NEW t, NEW r \in Thread, Form(t, r), r.todo # <<>>, Head(r.todo) = "Lock", NEW data \in Conf
  PROVE  /\ After(r, data) \in Thread /\ Form(t, After(r, data))
         /\ After(r, data).call = r.call /\ After(r, data).n = r.n
         /\ r.call \in {"peers", "other", "Init"} /\ Rest(r.todo) # <<>>
         /\ r.call = "peers" => After(r, data).todo \in {P2, Q2}
         /\ r.call = "Init" => After(r, data).todo = I2 /\ r.n # NoId
         /\ r.call = "other" => After(r, data).todo \in {B2, X2}
         /\ ~Reads(After(r, data)) /\ (Writes(After(r, data)) <=> ~Releases(r.todo))
         /\ Writing(After(r, data)) => After(r, data).data = data /\ Tail(r.todo)[1] = "write"
         /\ ~Writing(After(r, data)) => /\ After(r, data).call = "other" /\ After(r, data).todo = X2
                                        /\ Tail(r.todo)[1] # "write"
<1> DEFINE new == After(r, data)
<1>0. P2 # <<>> /\ Q2 # <<>> /\ B2 # <<>> /\ X2 # <<>> /\ I2 # <<>>
  BY PeersTable, OtherTable, InitTable, Zenon
<1>1. P2 \in Todos /\ Q2 \in Todos /\ B2 \in Todos /\ X2 \in Todos /\ I2 \in Todos
  BY Zenon DEF Todos, PeersTodo, OtherTodo, InitTodo
<1>2. Rest(r.todo) \in Todos /\ Rest(r.todo) # <<>>
  BY <1>0, <1>1, AtLock, Zenon
<1>3. new \in Thread /\ new.call = r.call /\ new.n = r.n /\ new.todo = Rest(r.todo)
      /\ (Head(Rest(r.todo)) = "write" => new.data = data)
  BY <1>2, AfterFacts, Zenon
<1> HIDE DEF new
<1>4. CASE t \in Workers /\ r.call = "peers" /\ r.todo \in {P1, Q1} /\ ~Releases(r.todo) /\ Rest(r.todo) \in {P2, Q2}
  <2>1. Form(t, new)
    BY <1>3, <1>4, Zenon DEF Form, PeersTodo
  <2>2. Writes(new) /\ ~Reads(new)
    BY <1>3, <1>4, Zenon DEF Writes, Reads
  <2>3. Head(new.todo) = "write" /\ Writing(new) /\ Tail(r.todo)[1] = "write"
    BY <1>0, <1>3, <1>4, PeersTable, Distinct, ZenonT(60) DEF Writing
  <2> QED
    BY <1>2, <1>3, <1>4, <2>1, <2>2, <2>3, Zenon DEF new
<1>5. CASE t \in Workers /\ r.call = "other" /\ r.todo = B1 /\ ~Releases(r.todo) /\ Rest(r.todo) = B2
  <2>1. Form(t, new)
    BY <1>3, <1>5, Zenon DEF Form, OtherTodo
  <2>2. Writes(new) /\ ~Reads(new)
    BY <1>3, <1>5, Distinct, Zenon DEF Writes, Reads
  <2>3. Head(new.todo) = "write" /\ Writing(new) /\ Tail(r.todo)[1] = "write"
    BY <1>0, <1>3, <1>5, OtherTable, Distinct, ZenonT(60) DEF Writing
  <2> QED
    BY <1>2, <1>3, <1>5, <2>1, <2>2, <2>3, Zenon DEF new
<1>6. CASE t \in Workers /\ r.call = "other" /\ r.todo = X1 /\ Releases(r.todo) /\ Rest(r.todo) = X2
  <2>1. Form(t, new)
    BY <1>3, <1>6, Zenon DEF Form, OtherTodo
  <2>2. ~Writes(new) /\ ~Reads(new)
    BY <1>3, <1>6, OtherTable, Zenon DEF Writes, Reads
  <2>3. ~Writing(new) /\ Tail(r.todo)[1] # "write"
    BY <1>0, <1>3, <1>6, OtherTable, Distinct, Zenon DEF Writing
  <2> QED
    BY <1>2, <1>3, <1>6, <2>1, <2>2, <2>3, Zenon DEF new
<1>7. CASE t = "app" /\ r.call = "Init" /\ r.todo = I1 /\ ~Releases(r.todo) /\ Rest(r.todo) = I2 /\ r.n # NoId
  <2>1. Form(t, new)
    BY <1>3, <1>7, Zenon DEF Form, InitTodo
  <2>2. Writes(new) /\ ~Reads(new)
    BY <1>3, <1>7, Zenon DEF Writes, Reads
  <2>3. Head(new.todo) = "write" /\ Writing(new) /\ Tail(r.todo)[1] = "write"
    BY <1>0, <1>3, <1>7, InitTable, Distinct, ZenonT(60) DEF Writing
  <2> QED
    BY <1>2, <1>3, <1>7, <2>1, <2>2, <2>3, Zenon DEF new
<1> QED
  BY <1>4, <1>5, <1>6, <1>7, AtLock, Zenon

\* A goroutine that takes the lock for reading.
LEMMA RLockMoves ==
  ASSUME NEW t, NEW r \in Thread, Form(t, r), r.todo # <<>>, Head(r.todo) = "RLock", NEW data \in Conf
  PROVE  /\ After(r, data) \in Thread /\ Form(t, After(r, data))
         /\ After(r, data).call = r.call /\ After(r, data).n = r.n /\ r.call \in {"other", "Close"}
         /\ Rest(r.todo) # <<>> /\ ~Releases(r.todo)
         /\ r.call = "other" => r.todo = X2 /\ After(r, data).todo = X3
         /\ ~Writes(r) /\ ~Writes(After(r, data)) /\ Reads(After(r, data))
         /\ Writing(After(r, data)) /\ After(r, data).data = data /\ Tail(r.todo)[1] = "write"
<1> DEFINE new == After(r, data)
<1>0. X3 # <<>> /\ C2 # <<>> /\ C5 # <<>> /\ Head(X3) = "write" /\ Head(C2) = "write" /\ Head(C5) = "write"
  BY OtherTable, CloseTable, Zenon
<1>1. X3 \in Todos /\ C2 \in Todos /\ C5 \in Todos
  BY Zenon DEF Todos, OtherTodo, CloseTodo
<1>2. Rest(r.todo) \in Todos /\ Rest(r.todo) # <<>> /\ Head(Rest(r.todo)) = "write" /\ ~Releases(r.todo)
  BY <1>0, <1>1, AtRLock
<1>3. /\ new \in Thread /\ new.call = r.call /\ new.n = r.n /\ new.todo = Rest(r.todo)
      /\ new.data = data
  BY <1>2, AfterFacts, Zenon
<1> HIDE DEF new
<1>4. Writing(new)
  BY <1>2, <1>3, Zenon DEF Writing
<1>5. CASE t \in Workers /\ r.call = "other" /\ r.todo = X2 /\ Rest(r.todo) = X3
  <2>1. Form(t, new)
    BY <1>3, <1>5, Zenon DEF Form, OtherTodo
  <2>2. ~Writes(r) /\ ~Writes(new) /\ Reads(new)
    BY <1>3, <1>5, OtherTable, Distinct, Zenon DEF Writes, Reads
  <2>3. Tail(r.todo)[1] = "write"
    BY <1>5, Distinct, Zenon
  <2> QED
    BY <1>2, <1>3, <1>4, <1>5, <2>1, <2>2, <2>3, Zenon DEF new
<1>6. CASE t = "app" /\ r.call = "Close" /\ r.todo \in {C1, C4} /\ Rest(r.todo) \in {C2, C5}
  <2>1. Form(t, new)
    BY <1>3, <1>6, Zenon DEF Form, CloseTodo
  <2>2. ~Writes(r) /\ ~Writes(new) /\ Reads(new)
    BY <1>3, <1>6, Zenon DEF Writes, Reads
  <2>3. Tail(r.todo)[1] = "write"
    BY <1>6, Distinct, Zenon
  <2> QED
    BY <1>2, <1>3, <1>4, <1>6, <2>1, <2>2, <2>3, Zenon DEF new
<1> QED
  BY <1>5, <1>6, AtRLock, Zenon

\* A goroutine that has written the file.
LEMMA WriteMoves ==
  ASSUME NEW t, NEW r \in Thread, Form(t, r), r.todo # <<>>, Head(r.todo) = "write", NEW data \in Conf
  PROVE  /\ After(r, data) \in Thread /\ Form(t, After(r, data)) /\ ~Writing(After(r, data))
         /\ r.call \in {"peers", "other", "Init", "Close", "ImportConfig"}
         /\ r.call \in {"other", "ImportConfig"} <=> Rest(r.todo) = <<>>
         /\ Rest(r.todo) = <<>> => After(r, data) = Idle
         /\ Rest(r.todo) # <<>> => After(r, data).call = r.call /\ After(r, data).n = r.n
         /\ r.call = "peers" => r.todo \in {P2, Q2} /\ After(r, data).todo \in {P3, Q3}
         /\ r.call = "other" => r.todo \notin {B1, X1}
         /\ r.call = "Init" => r.todo = I2 /\ After(r, data).todo = I3
         /\ Releases(r.todo) => ~Writes(After(r, data)) /\ ~Reads(After(r, data))
         /\ ~Releases(r.todo) => /\ ~Reads(r) /\ ~Reads(After(r, data))
                                 /\ Writes(r) <=> Writes(After(r, data))
<1> DEFINE new == After(r, data)
<1>0. /\ P3 # <<>> /\ Q3 # <<>> /\ I3 # <<>> /\ C3 # <<>> /\ C6 # <<>>
      /\ P3 \in Todos /\ Q3 \in Todos /\ I3 \in Todos /\ C3 \in Todos /\ C6 \in Todos /\ <<>> \in Todos
  <2>1. P3 # <<>> /\ Q3 # <<>> /\ I3 # <<>> /\ C3 # <<>> /\ C6 # <<>>
    BY PeersTable, InitTable, CloseTable, Zenon
  <2>2. P3 \in Todos /\ Q3 \in Todos /\ I3 \in Todos /\ C3 \in Todos /\ C6 \in Todos /\ <<>> \in Todos
    BY Zenon DEF Todos, PeersTodo, InitTodo, CloseTodo
  <2> QED
    BY <2>1, <2>2, Zenon
<1>1. Rest(r.todo) \in Todos
  BY <1>0, AtWrite, Zenon
<1>2. new \in Thread /\ (Rest(r.todo) = <<>> => new = Idle)
  BY <1>1, AfterFacts, Zenon
<1>3. Rest(r.todo) # <<>> => new.call = r.call /\ new.n = r.n /\ new.todo = Rest(r.todo)
  BY <1>1, AfterFacts, Zenon
<1> HIDE DEF new
<1>4. CASE t \in Workers /\ r.call = "peers" /\ r.todo = P2 /\ Releases(r.todo) /\ Rest(r.todo) = P3
  <2>1. Form(t, new)
    BY <1>0, <1>3, <1>4, Zenon DEF Form, PeersTodo
  <2>2. ~Writing(new)
    BY <1>0, <1>3, <1>4, PeersTable, Zenon DEF Writing
  <2>3. ~Writes(new) /\ ~Reads(new)
    BY <1>0, <1>3, <1>4, PeersTable, Distinct, Zenon DEF Writes, Reads
  <2> QED
    BY <1>0, <1>2, <1>3, <1>4, <2>1, <2>2, <2>3, Zenon DEF new
<1>5. CASE t \in Workers /\ r.call = "peers" /\ r.todo = Q2 /\ ~Releases(r.todo) /\ Rest(r.todo) = Q3
  <2>1. Form(t, new)
    BY <1>0, <1>3, <1>5, Zenon DEF Form, PeersTodo
  <2>2. ~Writing(new)
    BY <1>0, <1>3, <1>5, PeersTable, Zenon DEF Writing
  <2>3. Writes(r) /\ Writes(new) /\ ~Reads(r) /\ ~Reads(new)
    BY <1>0, <1>3, <1>5, Zenon DEF Writes, Reads
  <2> QED
    BY <1>0, <1>2, <1>3, <1>5, <2>1, <2>2, <2>3, Zenon DEF new
<1>6. CASE t \in Workers /\ r.call = "other" /\ r.todo \in {B2, X3} /\ Releases(r.todo) /\ Rest(r.todo) = <<>>
  <2>1. r.todo \notin {B1, X1}
    BY <1>6, OtherTable, Zenon
  <2>2. Form(t, new) /\ ~Writing(new) /\ ~Writes(new) /\ ~Reads(new)
    BY <1>2, <1>6, IdleFacts, Zenon DEF Writing, Writes, Reads
  <2> QED
    BY <1>0, <1>2, <1>3, <1>6, <2>1, <2>2, Zenon DEF new
<1>7. CASE t = "app" /\ r.call = "Init" /\ r.todo = I2 /\ Releases(r.todo) /\ Rest(r.todo) = I3 /\ r.n # NoId
  <2>1. Form(t, new)
    BY <1>0, <1>3, <1>7, Zenon DEF Form, InitTodo
  <2>2. ~Writing(new)
    BY <1>0, <1>3, <1>7, InitTable, Zenon DEF Writing
  <2>3. ~Writes(new) /\ ~Reads(new)
    BY <1>0, <1>3, <1>7, InitTable, Zenon DEF Writes, Reads
  <2> QED
    BY <1>0, <1>2, <1>3, <1>7, <2>1, <2>2, <2>3, Zenon DEF new
<1>8. CASE t = "app" /\ r.call = "Close" /\ r.todo \in {C2, C5} /\ Releases(r.todo) /\ Rest(r.todo) \in {C3, C6}
  <2>1. Form(t, new)
    BY <1>0, <1>3, <1>8, Zenon DEF Form, CloseTodo
  <2>2. ~Writing(new)
    BY <1>0, <1>3, <1>8, CloseTable, Zenon DEF Writing
  <2>3. ~Writes(new) /\ ~Reads(new)
    BY <1>0, <1>3, <1>8, CloseTable, Zenon DEF Writes, Reads
  <2> QED
    BY <1>0, <1>2, <1>3, <1>8, <2>1, <2>2, <2>3, Zenon DEF new
<1>9. CASE r.call = "ImportConfig" /\ ~Releases(r.todo) /\ Rest(r.todo) = <<>>
  <2>1. Form(t, new) /\ ~Writing(new) /\ ~Writes(new) /\ ~Reads(new) /\ ~Writes(r) /\ ~Reads(r)
    BY <1>2, <1>9, IdleFacts, Zenon DEF Writing, Writes, Reads
  <2> QED
    BY <1>2, <1>9, <2>1, Zenon DEF new
<1> QED
  BY <1>4, <1>5, <1>6, <1>7, <1>8, <1>9, AtWrite, SMTT(30)

\* A goroutine that has emitted the event.
LEMMA EmitMoves ==
  ASSUME NEW t, NEW r \in Thread, Form(t, r), r.todo # <<>>, Head(r.todo) = "emit", NEW data
  PROVE  /\ After(r, data) = Idle /\ Rest(r.todo) = <<>>
         /\ r.call = "peers" /\ r.todo \in {P3, Q3} /\ r.todo \notin {P1, Q1}
         /\ Releases(r.todo) <=> Writes(r)
         /\ ~Reads(r) /\ ~Writing(r)
<1>1. After(r, data) = Idle /\ Rest(r.todo) = <<>>
  BY AtEmit, Zenon DEF After
<1>2. r.call = "peers" /\ r.todo \in {P3, Q3} /\ r.todo \notin {P1, Q1}
  BY AtEmit, PeersTable, Zenon
<1>3. Releases(r.todo) <=> Writes(r)
  BY AtEmit, PeersTable, Distinct, Zenon DEF Writes
<1>4. ~Reads(r) /\ ~Writing(r)
  BY AtEmit, Zenon DEF Reads, Writing
<1> QED
  BY <1>1, <1>2, <1>3, <1>4, Zenon

\* A goroutine at any of the other steps: it does not hold the lock and saves nothing.
LEMMA OtherMoves ==
  ASSUME NEW t, NEW r \in Thread, Form(t, r), r.todo # <<>>, NEW data \in Conf \cup Names,
         Head(r.todo) \notin {"Lock", "RLock", "write", "emit", "exit"}
  PROVE  /\ After(r, data) \in Thread /\ Form(t, After(r, data))
         /\ After(r, data) = Idle \/ (After(r, data).call = r.call /\ After(r, data).n = r.n)
         /\ r.call \in {"Init", "Close", "refresh"} /\ ~Releases(r.todo)
         /\ r.call = "Init" => r.todo \notin {I1, I2} /\ After(r, data).todo \notin {I1, I2}
         /\ ~Writes(r) /\ ~Reads(r) /\ ~Writing(r)
         /\ ~Writes(After(r, data)) /\ ~Reads(After(r, data)) /\ ~Writing(After(r, data))
<1> DEFINE new == After(r, data)
<1>0. {<<>>, I4, I5, I6, I7, I8, I9, R2, R3, C4} \subseteq Todos
  BY Zenon DEF Todos, InitTodo, CloseTodo
<1>1. Rest(r.todo) \in Todos
  BY <1>0, AtOther, Zenon
<1>2. new \in Thread /\ (Rest(r.todo) = <<>> => new = Idle)
  BY <1>1, AfterFacts, Zenon
<1>3. Rest(r.todo) # <<>> => new.call = r.call /\ new.n = r.n /\ new.todo = Rest(r.todo)
  BY <1>1, AfterFacts, Zenon
<1> HIDE DEF new
<1>4. CASE new = Idle
  <2>1. Form(t, new) /\ new.call = "none" /\ new.todo = <<>>
    BY <1>4, IdleFacts, Zenon
  <2>2. ~Writes(new) /\ ~Reads(new) /\ ~Writing(new)
    BY <2>1, Zenon DEF Writes, Reads, Writing
  <2>3. new.todo \notin {I1, I2}
    BY <2>1, InitTable, SMTT(30)
  <2>4. ~Writes(r) /\ ~Reads(r) /\ ~Writing(r) /\ ~Releases(r.todo) /\ r.call \in {"Init", "Close", "refresh"}
        /\ (r.call = "Init" => r.todo \notin {I1, I2})
    BY AtOther, CloseTable, Zenon DEF Writes, Reads, Writing
  <2> QED
    BY <1>2, <1>4, <2>1, <2>2, <2>3, <2>4, Zenon DEF new
<1>5. CASE t = "app" /\ r.call = "Init" /\ r.todo \in InitTodo \ {I1, I2} /\ r.n # NoId /\ ~Releases(r.todo)
           /\ Rest(r.todo) \in {I4, I5, I6, I7, I8, I9, R2, R3}
  <2>1. Rest(r.todo) # <<>> /\ Head(Rest(r.todo)) # "write" /\ Rest(r.todo) \notin {I1, I2}
    BY <1>5, InitTable, RefreshTable
  <2>2. Form(t, new)
    BY <1>3, <1>5, <2>1, Zenon DEF Form, InitTodo
  <2>3. ~Writes(r) /\ ~Reads(r) /\ ~Writes(new) /\ ~Reads(new)
    BY <1>3, <1>5, <2>1, Zenon DEF Writes, Reads
  <2>4. ~Writing(r) /\ ~Writing(new)
    BY <1>3, <2>1, Zenon DEF Writing
  <2> QED
    BY <1>2, <1>3, <1>5, <2>1, <2>2, <2>3, <2>4, Zenon DEF new
<1>6. CASE t = "app" /\ r.call = "Close" /\ r.todo = C3 /\ Rest(r.todo) = C4 /\ ~Releases(r.todo)
  <2>1. Rest(r.todo) # <<>> /\ Head(Rest(r.todo)) # "write" /\ C3 \notin {C2, C5} /\ C4 \notin {C2, C5}
    BY <1>6, CloseTable, Zenon
  <2>2. Form(t, new)
    BY <1>3, <1>6, <2>1, Zenon DEF Form, CloseTodo
  <2>3. ~Writes(r) /\ ~Reads(r) /\ ~Writes(new) /\ ~Reads(new) /\ ~Writing(r) /\ ~Writing(new)
    BY <1>3, <1>6, <2>1, Zenon DEF Writes, Reads, Writing
  <2> QED
    BY <1>2, <1>3, <1>6, <2>1, <2>2, <2>3, Zenon DEF new
<1>7. CASE t \in Subs /\ r.call = "refresh" /\ Rest(r.todo) = R3 /\ ~Releases(r.todo)
  <2>1. Rest(r.todo) # <<>> /\ Head(Rest(r.todo)) # "write"
    BY <1>7, RefreshTable, Zenon
  <2>2. Form(t, new)
    BY <1>3, <1>7, <2>1, Zenon DEF Form
  <2>3. ~Writes(r) /\ ~Reads(r) /\ ~Writes(new) /\ ~Reads(new) /\ ~Writing(r) /\ ~Writing(new)
    BY <1>3, <1>7, <2>1, Zenon DEF Writes, Reads, Writing
  <2> QED
    BY <1>2, <1>3, <1>7, <2>1, <2>2, <2>3, Zenon DEF new
<1> QED
  BY <1>2, <1>4, <1>5, <1>6, <1>7, AtOther, ZenonT(60)

-----------------------------------------------------------------------------
(* The parts of the invariant over a step.                                 *)

\* Nobody is not the name of a goroutine.
LEMMA NobodyElse == Nobody \notin Threads
BY WorkersAssumption, Zenon DEF Threads, Subs, Nobody

\* One goroutine moves, the others do not.
LEMMA OneMoves ==
  ASSUME Typed, NEW t \in Threads, NEW r \in Thread, Form(t, r), thread' = [thread EXCEPT ![t] = r]
  PROVE  /\ thread' \in [Threads -> Thread] /\ \A u \in Threads : Form(u, thread'[u])
         /\ thread'[t] = r /\ \A u \in Threads \ {t} : thread'[u] = thread[u]
BY Zenon DEF Typed

\* A goroutine that runs something other than an import belongs to a process.
LEMMA Alive ==
  ASSUME Process, NEW t \in Threads, thread[t].todo # <<>>, thread[t].call # "ImportConfig"
  PROVE  running
BY IdleFacts, Zenon DEF Process

\* In a running process there is no import.
LEMMA StillRunning ==
  ASSUME Typed, Process, running, running', NEW t \in Threads, NEW r \in Thread, Form(t, r),
         thread' = [thread EXCEPT ![t] = r], r.call # "ImportConfig"
  PROVE  Process'
<1>1. thread'[t] = r /\ \A u \in Threads \ {t} : thread'[u] = thread[u]
  BY OneMoves, Zenon
<1> QED
  BY <1>1, Zenon DEF Process

\* The lock, when one goroutine moves.
LEMMA LockKept ==
  ASSUME Typed, Locked, NEW t \in Threads, NEW r \in Thread, Form(t, r), thread' = [thread EXCEPT ![t] = r],
         lock'.writer = t <=> Writes(r), t \in lock'.readers <=> Reads(r),
         \A u \in Threads \ {t} : (lock'.writer = u <=> lock.writer = u) /\ (u \in lock'.readers <=> u \in lock.readers),
         lock'.writer # Nobody => lock'.readers = {}
  PROVE  Locked'
<1>1. thread'[t] = r /\ \A u \in Threads \ {t} : thread'[u] = thread[u]
  BY OneMoves, Zenon
<1>2. ASSUME NEW u \in Threads
      PROVE  (lock'.writer = u <=> Writes(thread'[u])) /\ (u \in lock'.readers <=> Reads(thread'[u]))
  <2>1. CASE u = t
    BY <1>1, <2>1, Zenon
  <2>2. CASE u # t
    <3>1. thread'[u] = thread[u] /\ (lock.writer = u <=> Writes(thread[u])) /\ (u \in lock.readers <=> Reads(thread[u]))
      BY <1>1, <2>2, Zenon DEF Locked
    <3> QED
      BY <2>2, <3>1, Zenon
  <2> QED
    BY <2>1, <2>2, Zenon
<1> QED
  BY <1>2, Zenon DEF Locked

\* A step that leaves the lock alone.
LEMMA LockSame ==
  ASSUME Typed, Locked, NEW t \in Threads, NEW r \in Thread, Form(t, r), thread' = [thread EXCEPT ![t] = r],
         lock' = lock, Writes(r) <=> Writes(thread[t]), Reads(r) <=> Reads(thread[t])
  PROVE  Locked'
<1>1. (lock.writer = t <=> Writes(r)) /\ (t \in lock.readers <=> Reads(r)) /\ (lock.writer # Nobody => lock.readers = {})
  BY Zenon DEF Locked
<1>2. lock'.writer = lock.writer /\ lock'.readers = lock.readers
  BY Zenon
<1> QED
  BY <1>1, <1>2, LockKept, Zenon

\* A step that releases the lock.
LEMMA LockLeft ==
  ASSUME Typed, Locked, NEW t \in Threads, NEW r \in Thread, Form(t, r), thread' = [thread EXCEPT ![t] = r],
         lock' = Released(lock, t), ~Writes(r), ~Reads(r)
  PROVE  Locked'
<1>1. lock'.readers = lock.readers \ {t} /\ lock'.writer = IF lock.writer = t THEN Nobody ELSE lock.writer
  BY Zenon DEF Released
<1>2. (lock.writer # Nobody => lock.readers = {})
  BY Zenon DEF Locked
<1>3. lock'.writer # t /\ t \notin lock'.readers /\ (lock'.writer # Nobody => lock'.readers = {})
  BY <1>1, <1>2, NobodyElse, Zenon
<1>4. \A u \in Threads \ {t} : (lock'.writer = u <=> lock.writer = u) /\ (u \in lock'.readers <=> u \in lock.readers)
  BY <1>1, NobodyElse
<1> QED
  BY <1>3, <1>4, LockKept, Zenon

\* The lock has its type, also after a release.
LEMMA ReleasedTyped ==
  ASSUME NEW held \in [writer : Threads \cup {Nobody}, readers : SUBSET Threads], NEW t \in Threads
  PROVE  Released(held, t) \in [writer : Threads \cup {Nobody}, readers : SUBSET Threads]
BY Zenon DEF Released

\* What a call makes of a configuration.
LEMMA ChangedFacts ==
  ASSUME NEW c \in Conf, NEW t, thread[t].n \in Nat
  PROVE  /\ Changed(c, t) \in Conf
         /\ c.peers \subseteq Changed(c, t).peers /\ c.other \subseteq Changed(c, t).other
         /\ c.id # NoId => Changed(c, t).id = c.id
         /\ thread[t].call = "peers" => Changed(c, t) = [c EXCEPT !.peers = c.peers \cup {thread[t].n}]
         /\ thread[t].call = "other" => Changed(c, t) = [c EXCEPT !.other = c.other \cup {thread[t].n}]
         /\ thread[t].call = "Init" => Changed(c, t).id = IF c.id = NoId THEN thread[t].n ELSE c.id
         /\ thread[t].call = "Init" /\ c.id # NoId => Changed(c, t) = c
         /\ thread[t].call \notin {"peers", "other", "Init"} => Changed(c, t) = c
<1>0. Kinds = {"peers", "other"}
  BY Zenon DEF Kinds, Programs
<1> DEFINE n == thread[t].n
<1>1. CASE thread[t].call = "peers"
  <2>1. Changed(c, t) = [c EXCEPT !.peers = c.peers \cup {n}]
    BY <1>0, <1>1, Zenon DEF Changed, Conf
  <2> QED
    BY <1>1, <2>1 DEF Conf
<1>2. CASE thread[t].call = "other"
  <2>1. Changed(c, t) = [c EXCEPT !.other = c.other \cup {n}]
    BY <1>0, <1>2, Zenon DEF Changed, Conf
  <2> QED
    BY <1>2, <2>1 DEF Conf
<1>3. CASE thread[t].call = "Init" /\ c.id = NoId
  <2>1. Changed(c, t) = [c EXCEPT !.id = n]
    BY <1>0, <1>3, Zenon DEF Changed, Conf
  <2> QED
    BY <1>3, <2>1, Zenon DEF Conf
<1>4. CASE thread[t].call \notin {"peers", "other"} /\ ~(thread[t].call = "Init" /\ c.id = NoId)
  <2>1. Changed(c, t) = c
    BY <1>0, <1>4, Zenon DEF Changed
  <2> QED
    BY <1>4, <2>1, Zenon
<1> QED
  BY <1>1, <1>2, <1>3, <1>4, Zenon

\* What a goroutine has made stays made, in memory and in the file.
LEMMA MadeGrows ==
  ASSUME NEW r, NEW m, NEW m2, NEW f, NEW f2, NEW k, NEW k2, Made(r, m, f, k),
         m.peers \subseteq m2.peers, m.other \subseteq m2.other, m.id # NoId => m2.id # NoId,
         k.id # NoId => k2.id # NoId, f2 \in {f, Torn, Whole(m)}
  PROVE  Made(r, m2, f2, k2)
<1>1. Whole(m).conf = m
  BY Zenon DEF Whole
<1>2. P3 \notin {P1, Q1} /\ Q3 \notin {P1, Q1}
  BY PeersTable, Zenon
<1>3. r.call = "peers" /\ r.todo \in {P3, Q3} => f2 = Torn \/ r.n \in f2.conf.peers
  <2>1. r.call = "peers" /\ r.todo \in {P3, Q3} => r.n \in m.peers /\ (f = Torn \/ r.n \in f.conf.peers)
    BY <1>2, Zenon DEF Made
  <2> QED
    BY <1>1, <2>1, Zenon
<1> QED
  BY <1>3, Zenon DEF Made

\* The goroutines, when one of them moves.
LEMMA GoroutinesKept ==
  ASSUME Typed, NEW t \in Threads, NEW r \in Thread, Form(t, r), thread' = [thread EXCEPT ![t] = r],
         Opening(r, mem', file'), Made(r, mem', file', kept'),
         \A u \in Threads \ {t} : Opening(thread[u], mem', file') /\ Made(thread[u], mem', file', kept')
  PROVE  Goroutines'
<1>1. thread'[t] = r /\ \A u \in Threads \ {t} : thread'[u] = thread[u]
  BY OneMoves, Zenon
<1>2. ASSUME NEW u \in Threads
      PROVE  Opening(thread'[u], mem', file') /\ Made(thread'[u], mem', file', kept')
  BY <1>1, Zenon
<1> QED
  BY <1>2, Zenon DEF Goroutines

\* An idle goroutine has nothing to write and has made nothing.
LEMMA IdleMade ==
  ASSUME NEW m, NEW f, NEW k PROVE Opening(Idle, m, f) /\ Made(Idle, m, f, k) /\ ~Writes(Idle) /\ ~Reads(Idle)
BY IdleFacts, Zenon DEF Opening, Writing, Made, Writes, Reads

\* A step of a goroutine with nothing unsaved, which changes neither the
\* configuration nor the file.
LEMMA CurrentSame ==
  ASSUME Typed, FileIsCurrent, NEW t \in Threads, NEW r \in Thread, Form(t, r),
         thread' = [thread EXCEPT ![t] = r], UNCHANGED <<mem, file, running, failed>>, ~Unsaved(t)
  PROVE  FileIsCurrent'
<1>1. thread'[t] = r /\ \A u \in Threads \ {t} : thread'[u] = thread[u]
  BY OneMoves, Zenon
<1>2. \A u \in Threads \ {t} : Unsaved(u)' <=> Unsaved(u)
  BY <1>1, Zenon DEF Unsaved, At
<1>3. (\A u \in Threads : ~Unsaved(u)') => \A u \in Threads : ~Unsaved(u)
  BY <1>2, Zenon
<1>4. ASSUME running', mem'.id # NoId, ~failed', \A u \in Threads : ~Unsaved(u)' PROVE file' = Whole(mem')
  <2>1. running /\ mem.id # NoId /\ ~failed
    BY <1>4, Zenon
  <2>2. \A u \in Threads : ~Unsaved(u)
    BY <1>3, <1>4, Zenon
  <2>3. file = Whole(mem)
    BY <2>1, <2>2, Zenon DEF FileIsCurrent
  <2> QED
    BY <2>3, Zenon
<1> QED
  BY <1>4, Zenon DEF FileIsCurrent

\* A goroutine that is neither at a write nor at a change of another setting has
\* nothing unsaved.
LEMMA SavedAlready ==
  ASSUME NEW t, ~Writing(thread[t]), thread[t].call # "other"
  PROVE  ~Unsaved(t)
BY Zenon DEF Unsaved, At, Writing

\* A goroutine takes the lock: nobody else is at a write.
LEMMA LockStep ==
  ASSUME Inv, NEW t \in Threads, Lock(t)
  PROVE  Inv'
<1> DEFINE r == thread[t]
           new == After(r, mem')
<1>0. r \in Thread /\ Form(t, r) /\ r.n \in Nat /\ mem \in Conf
  BY Zenon DEF Inv, Typed, Thread
<1>1. r.todo # <<>> /\ Head(r.todo) = "Lock" /\ lock = Free /\ mem' = Changed(mem, t)
  BY Zenon DEF Lock, At
<1>2. /\ mem' \in Conf /\ mem.peers \subseteq mem'.peers /\ mem.other \subseteq mem'.other
      /\ mem.id # NoId => mem'.id = mem.id
      /\ r.call = "peers" => r.n \in mem'.peers
      /\ r.call = "other" => r.n \in mem'.other
      /\ r.call = "Init" /\ r.n # NoId => mem'.id # NoId
  <2>1. /\ mem' \in Conf /\ mem.peers \subseteq mem'.peers /\ mem.other \subseteq mem'.other
        /\ mem.id # NoId => mem'.id = mem.id
        /\ r.call = "peers" => mem' = [mem EXCEPT !.peers = mem.peers \cup {r.n}]
        /\ r.call = "other" => mem' = [mem EXCEPT !.other = mem.other \cup {r.n}]
        /\ r.call = "Init" => mem'.id = IF mem.id = NoId THEN r.n ELSE mem.id
    BY <1>0, <1>1, ChangedFacts, Zenon
  <2>2. r.call = "peers" => r.n \in mem'.peers
    BY <1>0, <2>1 DEF Conf
  <2>3. r.call = "other" => r.n \in mem'.other
    BY <1>0, <2>1 DEF Conf
  <2>4. r.call = "Init" /\ r.n # NoId => mem'.id # NoId
    BY <2>1, Zenon
  <2> QED
    BY <2>1, <2>2, <2>3, <2>4, Zenon
<1>3. /\ new \in Thread /\ Form(t, new) /\ new.call = r.call /\ new.n = r.n
      /\ r.call \in {"peers", "other", "Init"} /\ Rest(r.todo) # <<>>
      /\ r.call = "peers" => new.todo \in {P2, Q2}
      /\ r.call = "Init" => new.todo = I2 /\ r.n # NoId
      /\ r.call = "other" => new.todo \in {B2, X2}
      /\ ~Reads(new) /\ (Writes(new) <=> ~Releases(r.todo))
      /\ Writing(new) => new.data = mem' /\ Tail(r.todo)[1] = "write"
      /\ ~Writing(new) => new.call = "other" /\ new.todo = X2 /\ Tail(r.todo)[1] # "write"
  BY <1>0, <1>1, <1>2, LockMoves, ZenonT(120)
<1>4. running
  BY <1>1, <1>3, Alive, Zenon DEF Inv
<1> DEFINE held == [lock EXCEPT !.writer = t]
<1>5. Done(t, mem', held) /\ running' = running /\ failed' = failed /\ sub' = sub /\ upstream' = upstream
      /\ ops' = ops /\ starts' = starts /\ file' = Opened(t)
  BY Zenon DEF Lock, process, bus
<1>6. /\ thread' = [thread EXCEPT ![t] = new] /\ kept' = kept
      /\ lock' = IF Releases(r.todo) THEN Released(held, t) ELSE held
  <2>1. ~(r.call = "Init" /\ At(t, "write")) /\ r.call # "ImportConfig"
    BY <1>1, <1>3, Zenon DEF At
  <2> QED
    BY <1>3, <1>5, <2>1, DoneIs, SMTT(30)
<1>7. file' = IF Tail(r.todo)[1] = "write" THEN Torn ELSE file
  BY <1>5, Zenon DEF Opened
<1> HIDE DEF new
<1>8. /\ lock.readers = {} /\ held.writer = t /\ held.readers = {}
      /\ held \in [writer : Threads \cup {Nobody}, readers : SUBSET Threads]
  BY <1>1, Zenon DEF Free
<1> HIDE DEF held
<1>9. Typed'
  <2>1. file' \in {Absent, Torn} \cup {Whole(c) : c \in Conf}
    BY <1>7, Zenon DEF Inv, Typed
  <2>2. lock' \in [writer : Threads \cup {Nobody}, readers : SUBSET Threads]
    BY <1>6, <1>8, ReleasedTyped, Zenon
  <2>3. thread' \in [Threads -> Thread] /\ \A u \in Threads : Form(u, thread'[u])
    BY <1>3, <1>6, OneMoves, Zenon DEF Inv
  <2>4. kept' \in Conf /\ running' \in BOOLEAN /\ failed' \in BOOLEAN /\ upstream' \in {"default", SystemDNS}
        /\ sub' \in [Subs -> [active : BOOLEAN, events : Nat]] /\ ops' \in Nat /\ starts' \in Nat
    BY <1>5, <1>6, Zenon DEF Inv, Typed
  <2> QED
    BY <1>2, <2>1, <2>2, <2>3, <2>4, Zenon DEF Typed
<1>10. Locked'
  <2>1. lock'.readers = {} /\ lock'.writer = IF Releases(r.todo) THEN Nobody ELSE t
    <3>1. Released(held, t).writer = Nobody /\ Released(held, t).readers = {}
      BY <1>8, Zenon DEF Released
    <3> QED
      BY <1>6, <1>8, <3>1, Zenon
  <2>2. lock.writer = Nobody /\ lock.readers = {}
    BY <1>1, Zenon DEF Free
  <2>3. \A u \in Threads \ {t} : (lock'.writer = u <=> lock.writer = u) /\ (u \in lock'.readers <=> u \in lock.readers)
    BY <2>1, <2>2, NobodyElse, Zenon
  <2>4. (lock'.writer = t <=> Writes(new)) /\ (t \in lock'.readers <=> Reads(new)) /\ (lock'.writer # Nobody => lock'.readers = {})
    BY <1>3, <2>1, NobodyElse, Zenon
  <2> QED
    BY <1>3, <1>6, <2>3, <2>4, LockKept, Zenon DEF Inv
<1>11. Process'
  BY <1>3, <1>4, <1>5, <1>6, StillRunning, Zenon DEF Inv
<1>12. Goroutines'
  <2>1. Opening(new, mem', file')
    BY <1>3, <1>7, ZenonT(60) DEF Opening
  <2>2. Made(new, mem', file', kept')
    <3>1. P2 \notin {P3, Q3} /\ Q2 \notin {P3, Q3}
      BY PeersTable, Zenon
    <3> QED
      BY <1>2, <1>3, <3>1, Zenon DEF Made
  <2>3. ASSUME NEW u \in Threads \ {t}
        PROVE  Opening(thread[u], mem', file') /\ Made(thread[u], mem', file', kept')
    <3>1. ~Writes(thread[u]) /\ ~Reads(thread[u])
      BY <1>1, NobodyElse, Zenon DEF Inv, Locked, Free
    <3>2. thread[u] \in Thread /\ Form(u, thread[u])
      BY Zenon DEF Inv, Typed
    <3>3. Opening(thread[u], mem', file')
      BY <3>1, <3>2, Holding, Zenon DEF Opening
    <3>4. Made(thread[u], mem, file, kept)
      BY Zenon DEF Inv, Goroutines
    <3>5. file' \in {file, Torn, Whole(mem)}
      BY <1>7, Zenon
    <3> QED
      BY <1>2, <1>6, <3>3, <3>4, <3>5, MadeGrows, ZenonT(60)
  <2> QED
    BY <1>3, <1>6, <2>1, <2>2, <2>3, GoroutinesKept, Zenon DEF Inv
<1>13. Kept'
  <2>1. Within(kept, mem) /\ (file = Torn \/ Within(kept, file.conf))
    BY <1>4, Zenon DEF Inv, Kept
  <2>2. Within(kept', mem')
    BY <1>2, <1>6, <2>1, Zenon DEF Within
  <2>3. file' = Torn \/ Within(kept', file'.conf)
    BY <1>6, <1>7, <2>1, Zenon
  <2> QED
    BY <2>2, <2>3, Zenon DEF Kept
<1>14. FileIsCurrent'
  <2>1. thread'[t] = new
    BY <1>3, <1>6, OneMoves, Zenon DEF Inv
  <2>2. CASE Writing(new)
    BY <2>1, <2>2, Zenon DEF FileIsCurrent, Unsaved, At, Writing
  <2>3. CASE ~Writing(new)
    <3>1. new.call = "other" /\ new.todo = X2 /\ new.n \in mem'.other
      BY <1>2, <1>3, <2>3, Zenon
    <3> QED
      BY <2>1, <3>1, Distinct, ZenonT(60) DEF FileIsCurrent, Unsaved
  <2> QED
    BY <2>2, <2>3, Zenon
<1> QED
  BY <1>9, <1>10, <1>11, <1>12, <1>13, <1>14, Zenon DEF Inv

\* A goroutine takes the lock for reading and opens the file: the others that have
\* opened it read the same configuration.
LEMMA RLockStep ==
  ASSUME Inv, NEW t \in Threads, RLock(t)
  PROVE  Inv'
<1> DEFINE r == thread[t]
           new == After(r, mem)
           held == [lock EXCEPT !.readers = @ \cup {t}]
<1>0. r \in Thread /\ Form(t, r) /\ mem \in Conf
  BY Zenon DEF Inv, Typed
<1>1. r.todo # <<>> /\ Head(r.todo) = "RLock" /\ lock.writer = Nobody
  BY Zenon DEF RLock, At
<1>2. /\ new \in Thread /\ Form(t, new) /\ new.call = r.call /\ new.n = r.n /\ r.call \in {"other", "Close"}
      /\ Rest(r.todo) # <<>> /\ ~Releases(r.todo)
      /\ r.call = "other" => r.todo = X2 /\ new.todo = X3
      /\ ~Writes(r) /\ ~Writes(new) /\ Reads(new)
      /\ Writing(new) /\ new.data = mem /\ Tail(r.todo)[1] = "write"
  <2> HIDE DEF r
  <2> QED
    BY <1>0, <1>1, RLockMoves, ZenonT(60)
<1>3. running
  BY <1>1, <1>2, Alive, Zenon DEF Inv
<1>4. Done(t, mem, held) /\ mem' = mem /\ running' = running /\ failed' = failed /\ sub' = sub /\ upstream' = upstream
      /\ ops' = ops /\ starts' = starts /\ file' = Torn
  <2>1. file' = Opened(t)
    BY Zenon DEF RLock
  <2>2. Opened(t) = Torn
    BY <1>2, Zenon DEF Opened
  <2> QED
    BY <2>1, <2>2, Zenon DEF RLock, process, bus
<1>5. thread' = [thread EXCEPT ![t] = new] /\ kept' = kept /\ lock' = held
  <2>1. ~(r.call = "Init" /\ At(t, "write")) /\ r.call # "ImportConfig"
    BY <1>2, Zenon
  <2> QED
    BY <1>2, <1>4, <2>1, DoneIs, SMTT(30)
<1> HIDE DEF new
<1>6. /\ held.writer = Nobody /\ held.readers = lock.readers \cup {t}
      /\ held \in [writer : Threads \cup {Nobody}, readers : SUBSET Threads]
  BY <1>1, Zenon DEF Inv, Typed
<1> HIDE DEF held
<1>7. Typed'
  <2>1. thread' \in [Threads -> Thread] /\ \A u \in Threads : Form(u, thread'[u])
    BY <1>2, <1>5, OneMoves, Zenon DEF Inv
  <2>2. file' \in {Absent, Torn} \cup {Whole(c) : c \in Conf}
    BY <1>4, Zenon
  <2> QED
    BY <1>4, <1>5, <1>6, <2>1, <2>2, Zenon DEF Inv, Typed
<1>8. Locked'
  <2>1. \A u \in Threads \ {t} : (lock'.writer = u <=> lock.writer = u) /\ (u \in lock'.readers <=> u \in lock.readers)
    BY <1>1, <1>5, <1>6, Zenon
  <2>2. (lock'.writer = t <=> Writes(new)) /\ (t \in lock'.readers <=> Reads(new)) /\ (lock'.writer # Nobody => lock'.readers = {})
    BY <1>2, <1>5, <1>6, NobodyElse, Zenon
  <2> QED
    BY <1>2, <1>5, <2>1, <2>2, LockKept, Zenon DEF Inv
<1>9. Process'
  BY <1>2, <1>3, <1>4, <1>5, StillRunning, Zenon DEF Inv
<1>10. Goroutines'
  <2>1. Opening(new, mem', file')
    BY <1>2, <1>4, Zenon DEF Opening
  <2>2. Made(r, mem, file, kept)
    BY Zenon DEF Inv, Goroutines
  <2>3. r.call = "other" => r.n \in mem.other
    BY <1>2, <2>2, OtherTable, Zenon DEF Made
  <2>4. Made(new, mem', file', kept')
    BY <1>2, <1>4, <2>3, ZenonT(60) DEF Made
  <2>5. ASSUME NEW u \in Threads \ {t}
        PROVE  Opening(thread[u], mem', file') /\ Made(thread[u], mem', file', kept')
    <3>1. Opening(thread[u], mem, file) /\ Made(thread[u], mem, file, kept)
      BY Zenon DEF Inv, Goroutines
    <3>2. Opening(thread[u], mem', file')
      BY <1>4, <3>1, Zenon DEF Opening
    <3> QED
      BY <1>4, <1>5, <3>1, <3>2, MadeGrows, Zenon
  <2> QED
    BY <1>2, <1>5, <2>1, <2>4, <2>5, GoroutinesKept, Zenon DEF Inv
<1>11. Kept'
  BY <1>3, <1>4, <1>5, Zenon DEF Inv, Kept
<1>12. FileIsCurrent'
  <2>1. thread'[t] = new
    BY <1>2, <1>5, OneMoves, Zenon DEF Inv
  <2> QED
    BY <1>2, <2>1, Zenon DEF FileIsCurrent, Unsaved, At, Writing
<1> QED
  BY <1>7, <1>8, <1>9, <1>10, <1>11, <1>12, Zenon DEF Inv

\* What has to be kept after the write of a save in a running process, which is in
\* memory: the whole configuration is, too.
LEMMA WriteKeeps ==
  ASSUME Inv, NEW t \in Threads, NEW held, At(t, "write"), Done(t, thread[t].data, held), running
  PROVE  /\ thread[t].data = mem /\ file \in {Torn, Whole(mem)}
         /\ kept' \in Conf /\ Within(kept', mem) /\ (kept.id # NoId => kept'.id # NoId)
         /\ thread[t].call = "Init" => kept'.id = mem.id
<1> DEFINE r == thread[t]
<1>0. r \in Thread /\ Form(t, r) /\ r.n \in Nat /\ mem \in Conf /\ kept \in Conf
  BY Zenon DEF Inv, Typed, Thread
<1>1. r.todo # <<>> /\ Head(r.todo) = "write" /\ r.call # "ImportConfig"
  BY Zenon DEF At, Inv, Process
<1>2. r.data = mem /\ file \in {Torn, Whole(mem)} /\ Made(r, mem, file, kept)
  BY <1>1, Zenon DEF Inv, Goroutines, Opening, Writing
<1>3. /\ r.call \in {"peers", "other", "Init", "Close", "ImportConfig"}
      /\ r.call \in {"other", "ImportConfig"} <=> Rest(r.todo) = <<>>
      /\ r.call = "other" => r.todo \notin {B1, X1}
  BY <1>0, <1>1, WriteMoves, Zenon
<1>4. Within(kept, mem)
  BY Zenon DEF Inv, Kept
<1>5. CASE r.call \in {"peers", "Close"}
  <2>1. kept' = kept
    BY <1>1, <1>3, <1>5, DoneIs, Zenon
  <2> QED
    BY <1>0, <1>2, <1>4, <1>5, <2>1, Zenon
<1>6. CASE r.call = "Init"
  <2>1. kept' = [kept EXCEPT !.id = mem.id]
    BY <1>2, <1>6, DoneIs, Zenon
  <2>2. kept' \in Conf /\ kept'.id = mem.id /\ kept'.peers = kept.peers /\ kept'.other = kept.other
    BY <1>0, <2>1, Zenon DEF Conf
  <2> QED
    BY <1>2, <1>4, <2>2, Zenon DEF Within
<1>7. CASE r.call = "other"
  <2>1. kept' = Changed(kept, t)
    BY <1>1, <1>3, <1>7, DoneIs, Zenon
  <2>2. kept' \in Conf /\ kept' = [kept EXCEPT !.other = kept.other \cup {r.n}]
    BY <1>0, <1>7, <2>1, ChangedFacts, Zenon
  <2>3. kept'.id = kept.id /\ kept'.peers = kept.peers /\ kept'.other = kept.other \cup {r.n}
    BY <1>0, <2>2, Zenon DEF Conf
  <2>4. r.n \in mem.other
    BY <1>2, <1>3, <1>7, Zenon DEF Made
  <2> QED
    BY <1>2, <1>4, <1>7, <2>2, <2>3, <2>4, Zenon DEF Within
<1> QED
  BY <1>1, <1>3, <1>5, <1>6, <1>7, Zenon

\* A save in a running process writes the file, or fails to.
LEMMA SaveStep ==
  ASSUME Inv, NEW t \in Threads, At(t, "write"), Done(t, thread[t].data, lock), running,
         UNCHANGED <<mem, running, sub, upstream, ops, starts>>, failed' \in BOOLEAN,
         file' \in {file, Whole(mem)}, failed' \/ file' = Whole(mem)
  PROVE  Inv'
<1> DEFINE r == thread[t]
           new == After(r, mem)
<1>0. r \in Thread /\ Form(t, r) /\ mem \in Conf
  BY Zenon DEF Inv, Typed
<1>1. r.todo # <<>> /\ Head(r.todo) = "write" /\ r.call # "ImportConfig"
  BY Zenon DEF At, Inv, Process
<1>2. /\ r.data = mem /\ file \in {Torn, Whole(mem)}
      /\ kept' \in Conf /\ Within(kept', mem) /\ (kept.id # NoId => kept'.id # NoId)
      /\ r.call = "Init" => kept'.id = mem.id
  BY WriteKeeps, Zenon
<1>3. /\ new \in Thread /\ Form(t, new) /\ ~Writing(new)
      /\ r.call \in {"peers", "other", "Init", "Close", "ImportConfig"}
      /\ r.call \in {"other", "ImportConfig"} <=> Rest(r.todo) = <<>>
      /\ Rest(r.todo) = <<>> => new = Idle
      /\ Rest(r.todo) # <<>> => new.call = r.call /\ new.n = r.n
      /\ r.call = "peers" => r.todo \in {P2, Q2} /\ new.todo \in {P3, Q3}
      /\ r.call = "Init" => r.todo = I2 /\ new.todo = I3
      /\ Releases(r.todo) => ~Writes(new) /\ ~Reads(new)
      /\ ~Releases(r.todo) => ~Reads(r) /\ ~Reads(new) /\ (Writes(r) <=> Writes(new))
  BY <1>0, <1>1, WriteMoves, ZenonT(60)
<1>4. /\ thread' = [thread EXCEPT ![t] = new]
      /\ lock' = IF Releases(r.todo) THEN Released(lock, t) ELSE lock
  BY <1>2, DoneIs, Zenon
<1> HIDE DEF new
<1>5. /\ mem' = mem /\ running' = running /\ sub' = sub /\ upstream' = upstream /\ ops' = ops /\ starts' = starts
      /\ file' \in {Torn, Whole(mem)}
  BY <1>2, Zenon
<1>6. new.call # "ImportConfig"
  BY <1>1, <1>3, IdleFacts, Zenon
<1>7. Typed'
  <2>1. thread' \in [Threads -> Thread] /\ \A u \in Threads : Form(u, thread'[u])
    BY <1>3, <1>4, OneMoves, Zenon DEF Inv
  <2>2. file' \in {Absent, Torn} \cup {Whole(c) : c \in Conf}
    BY <1>0, <1>5, Zenon
  <2>3. lock' \in [writer : Threads \cup {Nobody}, readers : SUBSET Threads]
    BY <1>4, ReleasedTyped, Zenon DEF Inv, Typed
  <2> QED
    BY <1>2, <1>5, <2>1, <2>2, <2>3, Zenon DEF Inv, Typed
<1>8. Locked'
  <2>1. CASE Releases(r.todo)
    BY <1>3, <1>4, <2>1, LockLeft, Zenon DEF Inv
  <2>2. CASE ~Releases(r.todo)
    BY <1>3, <1>4, <2>2, LockSame, Zenon DEF Inv
  <2> QED
    BY <2>1, <2>2, Zenon
<1>9. Process'
  <2>1. running /\ running'
    BY <1>5
  <2> QED
    BY <1>3, <1>4, <1>6, <2>1, StillRunning, Zenon DEF Inv
<1>10. Goroutines'
  <2>1. Opening(new, mem', file')
    BY <1>3, Zenon DEF Opening
  <2>2. Made(r, mem, file, kept)
    BY Zenon DEF Inv, Goroutines
  <2>3. Made(new, mem', file', kept')
    <3>1. CASE new = Idle
      BY <3>1, IdleMade, Zenon
    <3>2. CASE r.call = "peers" /\ new # Idle
      <4>1. r.n \in mem.peers
        BY <1>3, <2>2, <3>2, PeersTable, Zenon DEF Made
      <4>2. Whole(mem).conf = mem
        BY Zenon DEF Whole
      <4>3. file' = Torn \/ r.n \in file'.conf.peers
        BY <1>5, <4>1, <4>2, Zenon
      <4>4. new.n = r.n /\ new.call = "peers"
        BY <1>3, <3>2, ZenonT(60)
      <4> QED
        BY <1>5, <4>1, <4>3, <4>4, Zenon DEF Made
    <3>3. CASE r.call = "Init" /\ new # Idle
      <4>1. mem.id # NoId
        BY <1>3, <2>2, <3>3, InitTable, ZenonT(60) DEF Made
      <4>2. new.call = "Init" /\ kept'.id # NoId
        BY <1>2, <1>3, <3>3, <4>1, Zenon
      <4> QED
        BY <1>5, <4>1, <4>2, ZenonT(60) DEF Made
    <3>4. CASE r.call = "Close" /\ new # Idle
      <4>1. new.call = "Close"
        BY <1>3, <3>4, ZenonT(60)
      <4> QED
        BY <4>1, Zenon DEF Made
    <3> QED
      BY <1>1, <1>3, <3>1, <3>2, <3>3, <3>4, Zenon
  <2>4. ASSUME NEW u \in Threads \ {t}
        PROVE  Opening(thread[u], mem', file') /\ Made(thread[u], mem', file', kept')
    <3>1. Opening(thread[u], mem, file) /\ Made(thread[u], mem, file, kept)
      BY Zenon DEF Inv, Goroutines
    <3>2. Opening(thread[u], mem', file')
      BY <1>5, <3>1, Zenon DEF Opening
    <3>3. file' \in {file, Torn, Whole(mem)}
      BY Zenon
    <3> QED
      BY <1>2, <1>5, <3>1, <3>2, <3>3, MadeGrows, ZenonT(60)
  <2> QED
    BY <1>3, <1>4, <2>1, <2>3, <2>4, GoroutinesKept, Zenon DEF Inv
<1>11. Kept'
  <2>1. Whole(mem).conf = mem
    BY Zenon DEF Whole
  <2> QED
    BY <1>2, <1>5, <2>1, Zenon DEF Kept
<1>12. FileIsCurrent'
  BY <1>5, Zenon DEF FileIsCurrent
<1> QED
  BY <1>7, <1>8, <1>9, <1>10, <1>11, <1>12, Zenon DEF Inv

\* A step that leaves the file, the configuration and the process alone, and by which
\* the goroutine saves nothing.
LEMMA QuietStep ==
  ASSUME Inv, NEW t \in Threads, NEW r \in Thread, Form(t, r), thread' = [thread EXCEPT ![t] = r],
         running, UNCHANGED <<file, mem, running, failed, starts>>, ops' \in Nat,
         upstream' \in {"default", SystemDNS}, sub' \in [Subs -> [active : BOOLEAN, events : Nat]],
         lock' \in [writer : Threads \cup {Nobody}, readers : SUBSET Threads], Locked',
         r.call # "ImportConfig", ~Writing(r), Made(r, mem, file, kept'),
         kept' \in Conf, kept.id # NoId => kept'.id # NoId, Within(kept', mem), file = Torn \/ Within(kept', file.conf),
         ~Writing(thread[t]), thread[t].call # "other"
  PROVE  Inv'
<1>1. /\ file' = file /\ mem' = mem /\ running' = running /\ failed' = failed /\ starts' = starts
  BY Zenon
<1>2. Typed'
  <2>1. thread' \in [Threads -> Thread] /\ \A u \in Threads : Form(u, thread'[u])
    BY OneMoves, Zenon DEF Inv
  <2> QED
    BY <1>1, <2>1, Zenon DEF Inv, Typed
<1>3. Process'
  <2>1. running'
    BY <1>1
  <2> QED
    BY <2>1, StillRunning, ZenonT(60) DEF Inv
<1>4. Goroutines'
  <2>1. Opening(r, mem', file') /\ Made(r, mem', file', kept')
    BY <1>1, Zenon DEF Opening
  <2>2. ASSUME NEW u \in Threads \ {t}
        PROVE  Opening(thread[u], mem', file') /\ Made(thread[u], mem', file', kept')
    <3>1. Opening(thread[u], mem, file) /\ Made(thread[u], mem, file, kept)
      BY Zenon DEF Inv, Goroutines
    <3>2. Opening(thread[u], mem', file')
      BY <1>1, <3>1, Zenon
    <3> QED
      BY <1>1, <3>1, <3>2, MadeGrows, Zenon
  <2> QED
    BY <2>1, <2>2, GoroutinesKept, Zenon DEF Inv
<1>5. Kept'
  BY <1>1, Zenon DEF Kept
<1>6. FileIsCurrent'
  BY SavedAlready, CurrentSame, Zenon DEF Inv
<1> QED
  BY <1>2, <1>3, <1>4, <1>5, <1>6, Zenon DEF Inv

\* The write of a save, or of an import.
LEMMA WriteStep ==
  ASSUME Inv, NEW t \in Threads, Write(t)
  PROVE  Inv'
<1> DEFINE r == thread[t]
<1>0. r \in Thread /\ Form(t, r)
  BY Zenon DEF Inv, Typed
<1>1. /\ At(t, "write") /\ r.todo # <<>> /\ Head(r.todo) = "write"
      /\ file' = Whole(r.data) /\ failed' = FALSE /\ Done(t, r.data, lock)
  BY Zenon DEF Write, At
<1>2. mem' = mem /\ running' = running /\ sub' = sub /\ upstream' = upstream /\ ops' = ops /\ starts' = starts
  BY Zenon DEF Write, process, bus
<1>3. CASE running
  <2>1. r.data = mem
    BY <1>1, <1>3, WriteKeeps, Zenon
  <2> QED
    BY <1>1, <1>2, <1>3, <2>1, SaveStep, Zenon
<1>4. CASE ~running
  <2>1. r.call = "ImportConfig"
    BY <1>1, <1>4, Alive, Zenon DEF Inv
  <2>2. t = "app" /\ r.data = [Empty EXCEPT !.id = Imported] /\ Rest(r.todo) = <<>> /\ ~Releases(r.todo)
    BY <1>0, <1>1, <2>1, AtWrite, Zenon
  <2>3. r.data \in Conf
    BY <2>2, BoundsAssumption DEF Empty, Conf, Imported, NoId
  <2>4. thread' = [thread EXCEPT ![t] = Idle] /\ lock' = lock /\ kept' = r.data
    <3>1. After(r, r.data) = Idle
      BY <2>2, Zenon DEF After
    <3> QED
      BY <1>1, <2>1, <2>2, <3>1, DoneIs
  <2>5. /\ thread' \in [Threads -> Thread] /\ \A u \in Threads : Form(u, thread'[u])
        /\ thread'[t] = Idle /\ \A u \in Threads \ {t} : thread'[u] = thread[u]
    BY <2>4, IdleFacts, OneMoves, Zenon DEF Inv
  <2>6. \A u \in Threads : thread'[u] = Idle
    <3>1. ASSUME NEW u \in Threads \ {t} PROVE thread[u] = Idle
      <4>1. thread[u] = Idle \/ thread[u].call = "ImportConfig"
        BY <1>4, Zenon DEF Inv, Process
      <4>2. Form(u, thread[u]) /\ u # "app"
        BY <2>2, Zenon DEF Inv, Typed
      <4> QED
        BY <4>1, <4>2, Zenon DEF Form
    <3> QED
      BY <2>5, <3>1
  <2>7. Typed'
    <3>1. file' \in {Absent, Torn} \cup {Whole(c) : c \in Conf}
      BY <1>1, <2>3, Zenon
    <3>2. kept' \in Conf /\ failed' \in BOOLEAN
      BY <1>1, <2>3, <2>4, Zenon
    <3> QED
      BY <1>2, <2>4, <2>5, <3>1, <3>2, Zenon DEF Inv, Typed
  <2>8. Locked'
    <3>1. ~Writes(r) /\ ~Reads(r)
      BY <2>1, Zenon DEF Writes, Reads
    <3> QED
      BY <2>4, <3>1, IdleFacts, IdleMade, LockSame, Zenon DEF Inv
  <2>9. Process'
    <3>1. \A s \in Subs : sub'[s].events = 0
      BY <1>2, <1>4, Zenon DEF Inv, Process
    <3> QED
      BY <1>2, <1>4, <2>6, <3>1, Zenon DEF Process
  <2>10. Goroutines'
    BY <2>6, IdleMade, Zenon DEF Goroutines
  <2>11. Kept'
    <3>1. Within(kept', file'.conf)
      BY <1>1, <2>3, <2>4, Zenon DEF Within, Whole
    <3> QED
      BY <1>2, <1>4, <3>1, Zenon DEF Kept
  <2>12. FileIsCurrent'
    BY <1>2, <1>4, Zenon DEF FileIsCurrent
  <2> QED
    BY <2>7, <2>8, <2>9, <2>10, <2>11, <2>12, Zenon DEF Inv
<1> QED
  BY <1>3, <1>4, Zenon

\* The write fails.
LEMMA FailStep ==
  ASSUME Inv, NEW t \in Threads, WriteFails(t)
  PROVE  Inv'
<1>1. At(t, "write") /\ running /\ failed' = TRUE /\ Done(t, thread[t].data, lock) /\ file' = file
  BY Zenon DEF WriteFails
<1>2. UNCHANGED <<mem, running, sub, upstream, ops, starts>>
  BY Zenon DEF WriteFails, process, bus
<1> QED
  BY <1>1, <1>2, SaveStep, Zenon

\* The event is emitted and the call returns: its change is in memory, and in the
\* file unless another save has opened it.
LEMMA EmitStep ==
  ASSUME Inv, NEW t \in Threads, Emit(t)
  PROVE  Inv'
<1> DEFINE r == thread[t]
<1>0. r \in Thread /\ Form(t, r) /\ r.n \in Nat /\ kept \in Conf
  BY Zenon DEF Inv, Typed, Thread
<1>1. r.todo # <<>> /\ Head(r.todo) = "emit" /\ Done(t, r.data, lock)
  BY Zenon DEF Emit, At
<1>2. /\ After(r, r.data) = Idle /\ Rest(r.todo) = <<>>
      /\ r.call = "peers" /\ r.todo \in {P3, Q3} /\ r.todo \notin {P1, Q1}
      /\ Releases(r.todo) <=> Writes(r)
      /\ ~Reads(r) /\ ~Writing(r)
  BY <1>0, <1>1, EmitMoves, ZenonT(60)
<1>3. running
  BY <1>1, <1>2, Alive, Zenon DEF Inv
<1>4. /\ thread' = [thread EXCEPT ![t] = Idle] /\ kept' = Changed(kept, t)
      /\ lock' = IF Releases(r.todo) THEN Released(lock, t) ELSE lock
  BY <1>1, <1>2, DoneIs, Zenon
<1>5. UNCHANGED <<file, mem, running, failed, starts>> /\ ops' = ops /\ upstream' = upstream
  BY Zenon DEF Emit, process
<1>6. sub' \in [Subs -> [active : BOOLEAN, events : Nat]]
  <2>1. sub' = [s \in Subs |-> IF sub[s].active THEN [sub[s] EXCEPT !.events = @ + 1] ELSE sub[s]]
    BY Zenon DEF Emit
  <2>2. \A s \in Subs : sub[s] \in [active : BOOLEAN, events : Nat]
    BY Zenon DEF Inv, Typed
  <2>3. \A s \in Subs : [sub[s] EXCEPT !.events = @ + 1] \in [active : BOOLEAN, events : Nat]
    BY <2>2
  <2> QED
    BY <2>1, <2>2, <2>3, Zenon
<1>7. lock' \in [writer : Threads \cup {Nobody}, readers : SUBSET Threads]
  BY <1>4, ReleasedTyped, Zenon DEF Inv, Typed
<1>8. Locked'
  <2>1. CASE Releases(r.todo)
    BY <1>4, <2>1, IdleFacts, IdleMade, LockLeft, ZenonT(60) DEF Inv
  <2>2. CASE ~Releases(r.todo)
    BY <1>2, <1>4, <2>2, IdleFacts, IdleMade, LockSame, Zenon DEF Inv
  <2> QED
    BY <2>1, <2>2, Zenon
<1>9. kept' \in Conf /\ kept' = [kept EXCEPT !.peers = kept.peers \cup {r.n}]
  BY <1>0, <1>2, <1>4, ChangedFacts, Zenon
<1>10. kept'.id = kept.id /\ kept'.peers = kept.peers \cup {r.n} /\ kept'.other = kept.other
  BY <1>0, <1>9, Zenon DEF Conf
<1>11. r.n \in mem.peers /\ (file = Torn \/ r.n \in file.conf.peers)
  <2>1. Made(r, mem, file, kept)
    BY Zenon DEF Inv, Goroutines
  <2> QED
    BY <1>2, <2>1, Zenon DEF Made
<1>12. Within(kept', mem) /\ (file = Torn \/ Within(kept', file.conf))
  <2>1. Within(kept, mem) /\ (file = Torn \/ Within(kept, file.conf))
    BY <1>3, Zenon DEF Inv, Kept
  <2>2. Within(kept', mem)
    BY <1>10, <1>11, <2>1, Zenon DEF Within
  <2>3. file = Torn \/ Within(kept', file.conf)
    BY <1>10, <1>11, <2>1, Zenon DEF Within
  <2> QED
    BY <2>2, <2>3, Zenon
<1>13. /\ Idle \in Thread /\ Form(t, Idle) /\ Idle.call # "ImportConfig" /\ ~Writing(Idle)
       /\ Made(Idle, mem, file, kept')
  BY IdleFacts, IdleMade, Zenon DEF Writing
<1>14. ops' \in Nat /\ upstream' \in {"default", SystemDNS}
  BY <1>5, Zenon DEF Inv, Typed
<1>15. ~Writing(r) /\ r.call # "other" /\ (kept.id # NoId => kept'.id # NoId)
  BY <1>2, <1>10, Zenon
<1> QED
  BY <1>3, <1>4, <1>5, <1>6, <1>7, <1>8, <1>9, <1>12, <1>13, <1>14, <1>15, QuietStep, Zenon

\* Any other step of Application.Init, of Application.Close or of a refresh.
LEMMA OtherStep ==
  ASSUME Inv, NEW t \in Threads, thread[t].todo # <<>>,
         Head(thread[t].todo) \notin {"Lock", "RLock", "write", "emit", "exit"},
         NEW data \in Conf \cup Names, Done(t, data, lock),
         UNCHANGED <<file, mem, running, failed, starts>>, ops' = ops,
         upstream' \in {"default", SystemDNS}, sub' \in [Subs -> [active : BOOLEAN, events : Nat]]
  PROVE  Inv'
<1> DEFINE r == thread[t]
           new == After(r, data)
<1>0. r \in Thread /\ Form(t, r) /\ r.n \in Nat /\ kept \in Conf
  BY Zenon DEF Inv, Typed, Thread
<1>1. /\ new \in Thread /\ Form(t, new)
      /\ new = Idle \/ (new.call = r.call /\ new.n = r.n)
      /\ r.call \in {"Init", "Close", "refresh"} /\ ~Releases(r.todo)
      /\ r.call = "Init" => r.todo \notin {I1, I2} /\ new.todo \notin {I1, I2}
      /\ ~Writes(r) /\ ~Reads(r) /\ ~Writing(r)
      /\ ~Writes(new) /\ ~Reads(new) /\ ~Writing(new)
  <2> HIDE DEF r
  <2>1. r.todo # <<>> /\ Head(r.todo) \notin {"Lock", "RLock", "write", "emit", "exit"}
    BY Zenon DEF r
  <2> QED
    BY <1>0, <2>1, OtherMoves, Zenon
<1>2. running
  BY <1>1, Alive, Zenon DEF Inv
<1>3. thread' = [thread EXCEPT ![t] = new] /\ lock' = lock
  BY <1>1, DoneIs, Zenon
<1>4. Made(r, mem, file, kept)
  BY Zenon DEF Inv, Goroutines
<1>5. kept' = kept
  <2>1. ~At(t, "write") /\ r.call # "ImportConfig"
    BY <1>1, Zenon DEF At, Writing
  <2>2. kept' = Changed(kept, t) \/ kept' = kept
    BY <2>1, DoneIs, Zenon
  <2>3. r.call = "Init" => kept.id # NoId
    BY <1>1, <1>4, ZenonT(60) DEF Made
  <2>4. Changed(kept, t) = kept
    BY <1>0, <1>1, <2>3, ChangedFacts, Zenon
  <2> QED
    BY <2>2, <2>4, Zenon
<1> HIDE DEF new
<1>6. Made(new, mem, file, kept)
  <2>1. CASE new = Idle
    BY <2>1, IdleMade, ZenonT(60)
  <2>2. CASE new.call \in {"Close", "refresh"}
    BY <2>2, ZenonT(60) DEF Made
  <2>3. CASE new.call = "Init" /\ r.call = "Init"
    BY <1>1, <1>4, <2>3, ZenonT(60) DEF Made
  <2> QED
    BY <1>1, <2>1, <2>2, <2>3, ZenonT(60)
<1>7. Locked'
  BY <1>1, <1>3, LockSame, ZenonT(60) DEF Inv
<1>8. new.call # "ImportConfig" /\ r.call # "other"
  BY <1>1, IdleFacts, ZenonT(60)
<1>9. /\ lock' \in [writer : Threads \cup {Nobody}, readers : SUBSET Threads] /\ ops' \in Nat
      /\ Within(kept', mem) /\ (file = Torn \/ Within(kept', file.conf)) /\ kept' \in Conf
  <2>t. ops \in Nat /\ lock \in [writer : Threads \cup {Nobody}, readers : SUBSET Threads]
    BY ZenonT(60) DEF Inv, Typed
  <2>1. ops' \in Nat /\ lock' \in [writer : Threads \cup {Nobody}, readers : SUBSET Threads]
    BY <1>3, <2>t, ZenonT(60)
  <2>2. Within(kept', mem) /\ (file = Torn \/ Within(kept', file.conf)) /\ kept' \in Conf
    BY <1>0, <1>2, <1>5, ZenonT(60) DEF Inv, Kept
  <2> QED
    BY <2>1, <2>2, ZenonT(60)
<1>10. Made(new, mem, file, kept') /\ (kept.id # NoId => kept'.id # NoId)
  BY <1>5, <1>6, Zenon
<1> QED
  BY <1>1, <1>2, <1>3, <1>7, <1>8, <1>9, <1>10, QuietStep, ZenonT(60)

\* A goroutine begins to run a call.
LEMMA RunStep ==
  ASSUME Inv, NEW t \in Threads, thread[t].todo = <<>>, running,
         NEW r \in Thread, Form(t, r), thread' = [thread EXCEPT ![t] = r],
         \/ r.call = "peers" /\ r.todo \in {P1, Q1}
         \/ r.call = "other" /\ r.todo \in {B1, X1}
         \/ r.call = "Close" /\ r.todo = C1
         \/ r.call = "refresh" /\ r.todo \in {R1, R2},
         UNCHANGED <<file, mem, running, failed, starts, lock, kept, upstream>>,
         ops' \in Nat, sub' \in [Subs -> [active : BOOLEAN, events : Nat]]
  PROVE  Inv'
<1>1. thread[t] = Idle
  BY IdleIs, ZenonT(60) DEF Inv, Typed
<1>2. ~Writes(r) /\ ~Reads(r)
  <2>1. P1 \notin {P2, Q2, Q3} /\ Q1 \notin {P2, Q2, Q3} /\ B1 # B2 /\ X1 # B2 /\ B1 # X3 /\ X1 # X3 /\ C1 \notin {C2, C5}
    BY PeersTable, OtherTable, CloseTable, Zenon
  <2> QED
    BY <2>1, ZenonT(60) DEF Writes, Reads
<1>3. ~Writing(r)
  <2>1. /\ Head(P1) = "Lock" /\ Head(Q1) = "Lock" /\ Head(B1) = "Lock" /\ Head(X1) = "Lock"
        /\ Head(C1) = "RLock" /\ Head(R1) = "apply" /\ Head(R2) = "read"
    BY PeersTable, OtherTable, CloseTable, RefreshTable, ZenonT(60)
  <2>2. Head(r.todo) \in {"Lock", "RLock", "apply", "read"}
    BY <2>1, ZenonT(60)
  <2> QED
    BY <2>2, ZenonT(60) DEF Writing
<1>4. Made(r, mem, file, kept)
  <2>1. P1 \notin {P3, Q3} /\ Q1 \notin {P3, Q3}
    BY PeersTable, Zenon
  <2> QED
    BY <2>1, Zenon DEF Made
<1>5. Locked'
  BY <1>1, <1>2, IdleMade, LockSame, Zenon DEF Inv
<1>6. kept' = kept /\ lock' = lock /\ upstream' = upstream
  BY ZenonT(60)
<1>7. /\ lock' \in [writer : Threads \cup {Nobody}, readers : SUBSET Threads] /\ upstream' \in {"default", SystemDNS}
      /\ kept' \in Conf
  BY <1>6, Zenon DEF Inv, Typed
<1>8. Within(kept', mem) /\ (file = Torn \/ Within(kept', file.conf)) /\ (kept.id # NoId => kept'.id # NoId)
  BY <1>6, Zenon DEF Inv, Kept
<1>9. ~Writing(thread[t]) /\ thread[t].call # "other" /\ r.call # "ImportConfig"
  BY <1>1, IdleFacts, Zenon DEF Writing
<1>10. Made(r, mem, file, kept')
  BY <1>4, <1>6, Zenon
<1> QED
  BY <1>3, <1>5, <1>7, <1>8, <1>9, <1>10, QuietStep, ZenonT(60)

-----------------------------------------------------------------------------
(* The actions of the specification.                                       *)

\* The calls of the workers, Close and the subscribers.
LEMMA CallStep ==
  ASSUME Inv, NEW t \in Workers, NEW kind \in Kinds, NEW program \in Programs[kind], Call(t, kind, program)
  PROVE  Inv'
<1> DEFINE r == [call |-> kind, n |-> ops + 1, todo |-> program, data |-> Empty]
<1>1. thread[t].todo = <<>> /\ running /\ ops' = ops + 1 /\ thread' = [thread EXCEPT ![t] = r] /\ sub' = sub
  BY Zenon DEF Call, Run, bus
<1>2. UNCHANGED <<file, mem, running, failed, starts, lock, kept, upstream>>
  BY Zenon DEF Call, process
<1>3. ops \in Nat /\ sub \in [Subs -> [active : BOOLEAN, events : Nat]]
  BY Zenon DEF Inv, Typed
<1>4. (kind = "peers" /\ program \in {P1, Q1}) \/ (kind = "other" /\ program \in {B1, X1})
  <2>1. kind \in {"peers", "other"}
    BY Zenon DEF Kinds, Programs
  <2>2. Programs["peers"] = {UpsertPeer, RemovePeer, UpdatePeerSettings} /\ Programs["other"] = {UpsertBlockedPeer, SetProxyPeerID}
    BY Zenon DEF Programs
  <2>3. CASE kind = "peers"
    BY <2>2, <2>3, ProgramSteps, Zenon
  <2>4. CASE kind = "other"
    BY <2>2, <2>4, ProgramSteps, Zenon
  <2> QED
    BY <2>1, <2>3, <2>4, Zenon
<1>5. program \in Todos /\ kind \in CallSet
  BY <1>4, Zenon DEF Todos, PeersTodo, OtherTodo, CallSet
<1>6. Empty \in Conf \cup Names
  BY ZenonT(60) DEF Empty, Conf, NoId
<1>7. r \in Thread /\ r.call = kind /\ r.todo = program
  <2>1. ops + 1 \in Nat
    BY <1>3, SMTT(30)
  <2> QED
    BY <1>5, <1>6, <2>1, Zenon DEF Thread
<1>8. ops' \in Nat /\ sub' \in [Subs -> [active : BOOLEAN, events : Nat]] /\ t \in Threads
  BY <1>1, <1>3 DEF Threads
<1> HIDE DEF r
<1>9. Form(t, r)
  BY <1>4, <1>7, Zenon DEF Form, PeersTodo, OtherTodo
<1> QED
  BY <1>1, <1>2, <1>4, <1>7, <1>8, <1>9, RunStep, ZenonT(60)

\* Application.Close begins.
LEMMA CloseStep ==
  ASSUME Inv, Close PROVE Inv'
<1> DEFINE r == [call |-> "Close", n |-> 0, todo |-> C1, data |-> Empty]
<1>1. thread["app"].todo = <<>> /\ running /\ ops' = ops /\ sub' = sub /\ thread' = [thread EXCEPT !["app"] = r]
  BY ProgramSteps, Zenon DEF Close, Run, bus
<1>2. UNCHANGED <<file, mem, running, failed, starts, lock, kept, upstream>>
  BY Zenon DEF Close, process
<1>3. C1 \in Todos /\ C1 \in CloseTodo
  BY ZenonT(60) DEF Todos, CloseTodo
<1>4. Empty \in Conf \cup Names
  BY Zenon DEF Empty, Conf, NoId
<1>5. r \in Thread /\ r.call = "Close" /\ r.todo = C1
  BY <1>3, <1>4, Zenon DEF Thread, CallSet
<1>6. ops' \in Nat /\ sub' \in [Subs -> [active : BOOLEAN, events : Nat]] /\ "app" \in Threads
  BY <1>1, Zenon DEF Inv, Typed, Threads
<1> HIDE DEF r
<1>7. Form("app", r)
  BY <1>3, <1>5, Zenon DEF Form
<1> QED
  BY <1>1, <1>2, <1>5, <1>6, <1>7, RunStep, Zenon

\* A subscriber receives an event, which it can only in a process.
LEMMA ReceiveStep ==
  ASSUME Inv, NEW s \in Subs, Receive(s) PROVE Inv'
<1> DEFINE todo == IF s = "tunnel" THEN R1 ELSE R2
           r == [call |-> "refresh", n |-> 0, todo |-> todo, data |-> Empty]
<1>1. thread[s].todo = <<>> /\ sub[s].events > 0 /\ ops' = ops /\ sub' = [sub EXCEPT ![s].events = @ - 1]
  BY Zenon DEF Receive
<1>2. UNCHANGED <<file, mem, running, failed, starts, lock, kept, upstream>>
  BY Zenon DEF Receive, process
<1>3. thread' = [thread EXCEPT ![s] = r]
  BY ProgramSteps, Zenon DEF Receive, Run
<1>4. running
  BY <1>1 DEF Inv, Process
<1>5. sub' \in [Subs -> [active : BOOLEAN, events : Nat]] /\ ops' \in Nat
  <2>1. sub[s] \in [active : BOOLEAN, events : Nat] /\ sub \in [Subs -> [active : BOOLEAN, events : Nat]] /\ ops \in Nat
    BY Zenon DEF Inv, Typed
  <2>2. [sub[s] EXCEPT !.events = @ - 1] \in [active : BOOLEAN, events : Nat]
    BY <1>1, <2>1
  <2>3. sub' = [sub EXCEPT ![s] = [sub[s] EXCEPT !.events = @ - 1]]
    BY <1>1, <2>1, Zenon
  <2> QED
    BY <1>1, <2>1, <2>2, <2>3, Zenon
<1>6. todo \in {R1, R2} /\ todo \in Todos
  BY Zenon DEF Todos, InitTodo
<1>7. Empty \in Conf \cup Names
  BY Zenon DEF Empty, Conf, NoId
<1> HIDE DEF todo
<1>8. r \in Thread /\ r.call = "refresh" /\ r.todo = todo
  BY <1>6, <1>7, Zenon DEF Thread, CallSet
<1> HIDE DEF r
<1>9. Form(s, r) /\ s \in Threads
  BY <1>6, <1>8, Zenon DEF Form, Threads
<1> QED
  BY <1>1, <1>2, <1>3, <1>4, <1>5, <1>6, <1>8, <1>9, RunStep, Zenon

\* A process ends, in whatever state: the file stays as it is.
LEMMA GoneStep ==
  ASSUME Inv, ProcessGone PROVE Inv'
<1>1. /\ running' = FALSE /\ lock' = Free /\ thread' = [t \in Threads |-> Idle] /\ sub' = [s \in Subs |-> NoSub]
      /\ mem' = Empty /\ failed' = FALSE /\ upstream' = "default"
      /\ file' = file /\ ops' = ops /\ starts' = starts /\ kept' = kept
  BY Zenon DEF ProcessGone
<1>2. Typed'
  <2>1. lock' \in [writer : Threads \cup {Nobody}, readers : SUBSET Threads]
    BY <1>1, Zenon DEF Free
  <2>2. thread' \in [Threads -> Thread] /\ \A t \in Threads : Form(t, thread'[t])
    BY <1>1, IdleFacts, Zenon
  <2>3. mem' \in Conf /\ sub' \in [Subs -> [active : BOOLEAN, events : Nat]]
    BY <1>1, Zenon DEF Empty, Conf, NoId, NoSub
  <2>4. running' \in BOOLEAN /\ failed' \in BOOLEAN /\ upstream' \in {"default", SystemDNS}
    BY <1>1, Zenon
  <2>5. file' \in {Absent, Torn} \cup {Whole(c) : c \in Conf} /\ kept' \in Conf /\ ops' \in Nat /\ starts' \in Nat
    BY <1>1, Zenon DEF Inv, Typed
  <2> QED
    BY <2>1, <2>2, <2>3, <2>4, <2>5, Zenon DEF Typed
<1>3. Locked'
  <2>1. lock'.writer = Nobody /\ lock'.readers = {}
    BY <1>1, Zenon DEF Free
  <2>2. \A t \in Threads : thread'[t] = Idle /\ ~Writes(Idle) /\ ~Reads(Idle)
    BY <1>1, IdleMade, Zenon
  <2> QED
    BY <2>1, <2>2, NobodyElse, Zenon DEF Locked
<1>4. Process'
  BY <1>1, Zenon DEF Process, NoSub
<1>5. Goroutines'
  <2>1. \A t \in Threads : thread'[t] = Idle
    BY <1>1, Zenon
  <2> QED
    BY <2>1, IdleMade, Zenon DEF Goroutines
<1>6. Kept'
  BY <1>1, Zenon DEF Inv, Kept
<1>7. FileIsCurrent'
  BY <1>1, Zenon DEF FileIsCurrent
<1> QED
  BY <1>2, <1>3, <1>4, <1>5, <1>6, <1>7, Zenon DEF Inv

\* Without a process, and without an import, every goroutine is idle.
LEMMA AllIdle ==
  ASSUME Inv, ~running, thread["app"].todo = <<>>
  PROVE  \A t \in Threads : thread[t] = Idle
<1> SUFFICES ASSUME NEW t \in Threads PROVE thread[t] = Idle
  BY Zenon
<1>1. thread[t] \in Thread /\ Form(t, thread[t])
  BY Zenon DEF Inv, Typed
<1>2. thread[t] = Idle \/ thread[t].call = "ImportConfig"
  BY Zenon DEF Inv, Process
<1>3. t = "app" => thread[t].todo = <<>>
  BY Zenon
<1>4. CASE t = "app"
  BY <1>1, <1>3, <1>4, IdleIs, Zenon
<1>5. CASE t # "app"
  BY <1>1, <1>2, <1>5, Zenon DEF Form
<1> QED
  BY <1>4, <1>5, Zenon

\* The file, what it holds, and what is loaded from it.
LEMMA FileFacts ==
  ASSUME Typed
  PROVE  /\ LoadConfig \in Conf /\ (file = Torn => LoadConfig = Empty)
         /\ file # Torn => LoadConfig = file.conf
         /\ LoadConfig.id # NoId => file = Whole(LoadConfig)
<1>0. Empty \in Conf /\ Empty.id = NoId
  BY Zenon DEF Empty, Conf, NoId
<1>1. CASE file = Absent
  <2>1. file.state # "whole" /\ file.conf = Empty
    BY <1>1, Zenon DEF Absent
  <2>2. Absent # Torn
    BY Zenon DEF Absent, Torn
  <2> QED
    BY <1>0, <1>1, <2>1, <2>2, Zenon DEF LoadConfig
<1>2. CASE file = Torn
  <2>1. file.state # "whole"
    BY <1>2, Zenon DEF Torn
  <2> QED
    BY <1>0, <1>2, <2>1, Zenon DEF LoadConfig
<1>3. ASSUME NEW c \in Conf, file = Whole(c)
      PROVE  LoadConfig = c /\ file.conf = c /\ file # Torn
  <2>1. file.state = "whole" /\ file.conf = c
    BY <1>3, Zenon DEF Whole
  <2>2. Torn.state # "whole"
    BY Zenon DEF Torn
  <2> QED
    BY <2>1, <2>2, Zenon DEF LoadConfig
<1>4. file = Absent \/ file = Torn \/ \E c \in Conf : file = Whole(c)
  BY Zenon DEF Typed
<1>5. CASE \E c \in Conf : file = Whole(c)
  BY <1>3, <1>5, Zenon
<1> QED
  BY <1>1, <1>2, <1>4, <1>5, Zenon

\* A process begins: it loads what is in the file.
LEMMA StartStep ==
  ASSUME Inv, Start PROVE Inv'
<1> DEFINE r == [call |-> "Init", n |-> Earlier + starts + 1, todo |-> I1, data |-> Empty]
<1>1. /\ ~running /\ thread["app"].todo = <<>> /\ running' = TRUE /\ mem' = LoadConfig
      /\ kept' = IF file = Torn THEN Empty ELSE kept
      /\ starts' = starts + 1 /\ file' = file /\ lock' = lock /\ sub' = sub /\ upstream' = upstream
      /\ ops' = ops /\ failed' = failed
  BY Zenon DEF Start, bus
<1>2. thread' = [thread EXCEPT !["app"] = r]
  BY ProgramSteps, Zenon DEF Start, Run
<1>3. Empty \in Conf /\ Empty.id = NoId /\ Empty.peers = {} /\ Empty.other = {}
  BY Zenon DEF Empty, Conf, NoId
<1>4. starts \in Nat /\ kept \in Conf
  BY Zenon DEF Inv, Typed
<1>5. I1 \in InitTodo /\ I1 \in Todos
  BY Zenon DEF Todos, InitTodo
<1>6. r \in Thread /\ r.call = "Init" /\ r.todo = I1 /\ r.n # NoId
  BY <1>3, <1>4, <1>5 DEF Thread, CallSet, NoId, Earlier
<1> HIDE DEF r
<1>7. Form("app", r) /\ "app" \in Threads
  BY <1>5, <1>6, Zenon DEF Form, Threads
<1>8. /\ thread' \in [Threads -> Thread] /\ \A u \in Threads : Form(u, thread'[u])
      /\ thread'["app"] = r /\ \A u \in Threads \ {"app"} : thread'[u] = Idle
  BY <1>1, <1>2, <1>6, <1>7, OneMoves, AllIdle, ZenonT(60) DEF Inv
<1>9. ~Writes(r) /\ ~Reads(r) /\ ~Writing(r)
  BY <1>6, InitTable, Zenon DEF Writes, Reads, Writing
<1>10. /\ mem' \in Conf /\ (file = Torn => mem' = Empty) /\ (file # Torn => mem' = file.conf)
       /\ mem'.id # NoId => file = Whole(mem')
  BY <1>1, FileFacts, Zenon DEF Inv
<1>11. Typed'
  <2>1. kept' \in Conf /\ starts' \in Nat /\ running' \in BOOLEAN
    BY <1>1, <1>3, <1>4, SMTT(30)
  <2> QED
    BY <1>1, <1>8, <1>10, <2>1, Zenon DEF Inv, Typed
<1>12. Locked'
  BY <1>1, <1>2, <1>6, <1>7, <1>9, AllIdle, IdleMade, LockSame, ZenonT(60) DEF Inv
<1>13. Process'
  BY <1>1, <1>6, <1>8, IdleFacts, Zenon DEF Process
<1>14. Goroutines'
  <2>1. Opening(r, mem', file') /\ Made(r, mem', file', kept')
    BY <1>6, <1>9, Zenon DEF Opening, Made
  <2>2. \A u \in Threads \ {"app"} : Opening(thread[u], mem', file') /\ Made(thread[u], mem', file', kept')
    BY <1>1, AllIdle, IdleMade, Zenon
  <2> QED
    BY <1>2, <1>6, <1>7, <2>1, <2>2, GoroutinesKept, ZenonT(60) DEF Inv
<1>15. Kept'
  <2>1. file = Torn \/ Within(kept, file.conf)
    BY Zenon DEF Inv, Kept
  <2>2. CASE file = Torn
    BY <1>1, <1>3, <2>2, Zenon DEF Kept, Within
  <2>3. CASE file # Torn
    BY <1>1, <1>10, <2>1, <2>3, Zenon DEF Kept
  <2> QED
    BY <2>2, <2>3, Zenon
<1>16. FileIsCurrent'
  BY <1>1, <1>10, Zenon DEF FileIsCurrent
<1> QED
  BY <1>11, <1>12, <1>13, <1>14, <1>15, <1>16, Zenon DEF Inv

\* An import opens the file.
LEMMA ImportStep ==
  ASSUME Inv, ImportConfig PROVE Inv'
<1> DEFINE d == [Empty EXCEPT !.id = Imported]
           r == [call |-> "ImportConfig", n |-> 0, todo |-> M1, data |-> d]
<1>1. /\ ~running /\ thread["app"].todo = <<>> /\ file' = Torn /\ mem' = mem /\ running' = running /\ starts' = starts
      /\ lock' = lock /\ sub' = sub /\ upstream' = upstream /\ ops' = ops /\ kept' = kept /\ failed' = failed
  BY Zenon DEF ImportConfig, bus, process
<1>2. thread' = [thread EXCEPT !["app"] = r]
  BY ProgramSteps, Zenon DEF ImportConfig
<1>3. d \in Conf
  BY BoundsAssumption DEF Empty, Conf, Imported, NoId
<1>4. M1 \in Todos
  BY Zenon DEF Todos
<1>5. d = [Empty EXCEPT !.id = Imported]
  BY Zenon
<1> HIDE DEF d
<1>6. r \in Thread /\ r.call = "ImportConfig" /\ r.todo = M1 /\ r.data = d
  BY <1>3, <1>4, Zenon DEF Thread, CallSet
<1> HIDE DEF r
<1>7. Form("app", r) /\ "app" \in Threads
  BY <1>5, <1>6, Zenon DEF Form, Threads
<1>8. /\ thread' \in [Threads -> Thread] /\ \A u \in Threads : Form(u, thread'[u])
      /\ thread'["app"] = r /\ \A u \in Threads \ {"app"} : thread'[u] = Idle
  BY <1>1, <1>2, <1>6, <1>7, OneMoves, AllIdle, ZenonT(60) DEF Inv
<1>9. ~Writes(r) /\ ~Reads(r)
  BY <1>6, Zenon DEF Writes, Reads
<1>10. Typed'
  <2>1. file' \in {Absent, Torn} \cup {Whole(c) : c \in Conf}
    BY <1>1, Zenon
  <2> QED
    BY <1>1, <1>8, <2>1, Zenon DEF Inv, Typed
<1>11. Locked'
  BY <1>1, <1>2, <1>6, <1>7, <1>9, AllIdle, IdleMade, LockSame, Zenon DEF Inv
<1>12. Process'
  <2>1. \A u \in Threads : thread'[u] = Idle \/ (thread'[u].call = "ImportConfig" /\ file' = Torn)
    BY <1>1, <1>6, <1>8, Zenon
  <2>2. \A s \in Subs : sub'[s].events = 0
    BY <1>1, Zenon DEF Inv, Process
  <2> QED
    BY <1>1, <2>1, <2>2, Zenon DEF Process
<1>13. Goroutines'
  <2>1. Opening(r, mem', file') /\ Made(r, mem', file', kept')
    BY <1>6, Zenon DEF Opening, Made
  <2>2. \A u \in Threads \ {"app"} : Opening(thread[u], mem', file') /\ Made(thread[u], mem', file', kept')
    BY <1>1, AllIdle, IdleMade, Zenon
  <2> QED
    BY <1>2, <1>6, <1>7, <2>1, <2>2, GoroutinesKept, ZenonT(60) DEF Inv
<1>14. Kept'
  BY <1>1, Zenon DEF Kept
<1>15. FileIsCurrent'
  BY <1>1, Zenon DEF FileIsCurrent
<1> QED
  BY <1>10, <1>11, <1>12, <1>13, <1>14, <1>15, Zenon DEF Inv

\* The steps of the refreshes.
LEMMA RefreshStep ==
  ASSUME Inv, NEW t \in Threads, Apply(t) \/ ReadNames(t) \/ Store(t)
  PROVE  Inv'
<1>0. /\ thread[t].data \in Conf \cup Names /\ mem.peers \in SUBSET Nat
      /\ sub \in [Subs -> [active : BOOLEAN, events : Nat]] /\ upstream \in {"default", SystemDNS}
  BY Zenon DEF Inv, Typed, Thread, Conf
<1>1. [peers |-> mem.peers, up |-> upstream] \in Conf \cup Names
  BY <1>0, Zenon DEF Names
<1>2. CASE Apply(t)
  <2>1. thread[t].todo # <<>> /\ Head(thread[t].todo) = "apply" /\ Done(t, thread[t].data, lock) /\ upstream' = upstream
        /\ sub' = sub /\ ops' = ops /\ UNCHANGED <<file, mem, running, failed, starts>>
    BY <1>2, Zenon DEF Apply, At, process, bus
  <2> QED
    BY <1>0, <2>1, OtherStep, Zenon
<1>3. CASE ReadNames(t)
  <2>1. thread[t].todo # <<>> /\ Head(thread[t].todo) = "read" /\ Done(t, [peers |-> mem.peers, up |-> upstream], lock)
        /\ upstream' = upstream
        /\ sub' = sub /\ ops' = ops /\ UNCHANGED <<file, mem, running, failed, starts>>
    BY <1>3, ZenonT(60) DEF ReadNames, At, process, bus
  <2> DEFINE d == [peers |-> mem.peers, up |-> upstream]
  <2>2. d \in Conf \cup Names /\ Done(t, d, lock)
    BY <1>1, <2>1, Zenon
  <2> HIDE DEF d
  <2> QED
    BY <1>0, <2>1, <2>2, OtherStep, Zenon
<1>4. CASE Store(t)
  <2>1. thread[t].todo # <<>> /\ Head(thread[t].todo) = "store" /\ Done(t, thread[t].data, lock) /\ upstream' = upstream
        /\ sub' = sub /\ ops' = ops /\ UNCHANGED <<file, mem, running, failed, starts>>
    BY <1>4, Zenon DEF Store, At, process, bus
  <2> QED
    BY <1>0, <2>1, OtherStep, Zenon
<1> QED
  BY <1>2, <1>3, <1>4, Zenon

\* The other steps of Application.Init and Application.Close.
LEMMA AppOnlyStep ==
  ASSUME Inv, Serve \/ SetUpstream \/ CtxCancel \/ \E s \in Subs : Subscribe(s)
  PROVE  Inv'
<1>0. /\ thread["app"].data \in Conf \cup Names /\ "app" \in Threads
      /\ sub \in [Subs -> [active : BOOLEAN, events : Nat]] /\ upstream \in {"default", SystemDNS}
  BY Zenon DEF Inv, Typed, Thread, Threads
<1>1. CASE Serve
  <2>1. /\ thread["app"].todo # <<>> /\ Head(thread["app"].todo) = "serve" /\ Done("app", thread["app"].data, lock)
        /\ upstream' = upstream /\ sub' = sub /\ ops' = ops /\ UNCHANGED <<file, mem, running, failed, starts>>
    BY <1>1, Zenon DEF Serve, At, bus
  <2> QED
    BY <1>0, <2>1, OtherStep, Zenon
<1>2. CASE SetUpstream
  <2>1. /\ thread["app"].todo # <<>> /\ Head(thread["app"].todo) = "upstream" /\ Done("app", thread["app"].data, lock)
        /\ upstream' = SystemDNS /\ sub' = sub /\ ops' = ops /\ UNCHANGED <<file, mem, running, failed, starts>>
    BY <1>2, Zenon DEF SetUpstream, At, process, bus
  <2> QED
    BY <1>0, <2>1, OtherStep, Zenon
<1>3. CASE CtxCancel
  <2>1. /\ thread["app"].todo # <<>> /\ Head(thread["app"].todo) = "cancel" /\ Done("app", thread["app"].data, lock)
        /\ upstream' = upstream /\ sub' = [s \in Subs |-> NoSub] /\ ops' = ops
        /\ UNCHANGED <<file, mem, running, failed, starts>>
    BY <1>3, Zenon DEF CtxCancel, At, process
  <2>2. sub' \in [Subs -> [active : BOOLEAN, events : Nat]]
    BY <2>1, Zenon DEF NoSub
  <2> QED
    BY <1>0, <2>1, <2>2, OtherStep, Zenon
<1>4. ASSUME NEW s \in Subs, Subscribe(s) PROVE Inv'
  <2>1. SubscribeStep[s] \notin {"Lock", "RLock", "write", "emit", "exit"}
    BY DEF SubscribeStep, Subs
  <2>2. /\ thread["app"].todo # <<>> /\ Head(thread["app"].todo) = SubscribeStep[s]
        /\ Done("app", thread["app"].data, lock)
        /\ upstream' = upstream /\ ops' = ops /\ UNCHANGED <<file, mem, running, failed, starts>>
        /\ sub' = [sub EXCEPT ![s] = [active |-> TRUE, events |-> Backlog]]
    BY <1>4, Zenon DEF Subscribe, At, process
  <2>3. sub' \in [Subs -> [active : BOOLEAN, events : Nat]]
    BY <1>0, <2>2, Zenon DEF Backlog
  <2>4. Head(thread["app"].todo) \notin {"Lock", "RLock", "write", "emit", "exit"}
    BY <2>1, <2>2, Zenon
  <2> QED
    BY <1>0, <2>2, <2>3, <2>4, OtherStep, Zenon
<1> QED
  BY <1>1, <1>2, <1>3, <1>4, Zenon

\* The invariant holds initially ...
LEMMA InitInv == Init => Inv
<1> SUFFICES ASSUME Init PROVE Inv
  BY Zenon
<1>1. Empty \in Conf /\ Empty.id = NoId
  BY Zenon DEF Empty, Conf, NoId
<1>2. \A t \in Threads : thread[t] = Idle
  BY Zenon DEF Init
<1>3. Typed
  <2> DEFINE e == [Empty EXCEPT !.id = Earlier]
  <2>1. e \in Conf
    BY Zenon DEF Empty, Conf, Earlier, NoId
  <2>2. file = Absent \/ file = Whole(e)
    BY Zenon DEF Init
  <2>3. Absent.conf = Empty /\ Whole(e).conf = e
    BY Zenon DEF Absent, Whole
  <2> HIDE DEF e
  <2>4. file \in {Absent, Torn} \cup {Whole(c) : c \in Conf} /\ file.conf \in Conf
    BY <1>1, <2>1, <2>2, <2>3, Zenon
  <2>5. kept \in Conf /\ mem \in Conf
    BY <1>1, <2>4, Zenon DEF Init
  <2>6. lock \in [writer : Threads \cup {Nobody}, readers : SUBSET Threads]
    BY Zenon DEF Init, Free
  <2>7. sub \in [Subs -> [active : BOOLEAN, events : Nat]]
    BY Zenon DEF Init, NoSub
  <2>8. thread \in [Threads -> Thread] /\ \A t \in Threads : Form(t, thread[t])
    BY IdleFacts, Zenon DEF Init
  <2>9. running \in BOOLEAN /\ failed \in BOOLEAN /\ upstream \in {"default", SystemDNS} /\ ops \in Nat /\ starts \in Nat
    BY Zenon DEF Init
  <2> QED
    BY <2>4, <2>5, <2>6, <2>7, <2>8, <2>9, Zenon DEF Typed
<1>4. Locked
  <2>1. lock.writer = Nobody /\ lock.readers = {}
    BY Zenon DEF Init, Free
  <2> QED
    BY <1>2, <2>1, IdleMade, NobodyElse, Zenon DEF Locked
<1>5. Process
  BY <1>2, Zenon DEF Init, Process, NoSub
<1>6. Goroutines
  BY <1>2, IdleMade, Zenon DEF Goroutines
<1>7. Kept
  <2>1. kept = file.conf /\ ~running
    BY Zenon DEF Init
  <2> QED
    BY <2>1, Zenon DEF Kept, Within
<1>8. FileIsCurrent
  BY Zenon DEF Init, FileIsCurrent
<1> QED
  BY <1>3, <1>4, <1>5, <1>6, <1>7, <1>8, Zenon DEF Inv

\* ... and every step keeps it.
LEMMA NextInv == Inv /\ [Next]_vars => Inv'
<1> SUFFICES ASSUME Inv, [Next]_vars PROVE Inv'
  BY Zenon
<1>0. Workers \subseteq Threads /\ Subs \subseteq Threads /\ "app" \in Threads
  BY Zenon DEF Threads
<1>1. ASSUME NEW t \in Threads, Step(t) PROVE Inv'
  BY <1>1, LockStep, RLockStep, WriteStep, EmitStep, Zenon DEF Step
<1>2. ASSUME AppStep PROVE Inv'
  <2>1. CASE Step("app") \/ Apply("app") \/ ReadNames("app") \/ Store("app")
    BY <1>0, <1>1, <2>1, RefreshStep, Zenon
  <2>2. CASE Exit
    BY <2>2, GoneStep, Zenon DEF Exit
  <2>3. CASE Serve \/ SetUpstream \/ CtxCancel \/ \E s \in Subs : Subscribe(s)
    BY <2>3, AppOnlyStep, Zenon
  <2> QED
    BY <1>2, <2>1, <2>2, <2>3, Zenon DEF AppStep
<1>3. ASSUME NEW s \in Subs, Refresh(s) PROVE Inv'
  BY <1>0, <1>3, RefreshStep, ReceiveStep, Zenon DEF Refresh
<1>4. CASE GoStep
  BY <1>0, <1>1, <1>2, <1>3, <1>4, Zenon DEF GoStep
<1>5. CASE Start \/ Kill \/ Close \/ ImportConfig
  BY <1>5, StartStep, GoneStep, CloseStep, ImportStep, Zenon DEF Kill
<1>6. CASE \E t \in Workers, kind \in Kinds : \E program \in Programs[kind] : Call(t, kind, program)
  BY <1>6, CallStep, Zenon
<1>7. CASE \E t \in Threads : WriteFails(t)
  BY <1>7, FailStep, Zenon
<1>8. CASE UNCHANGED vars
  <2>1. \A t \in Threads : Unsaved(t)' <=> Unsaved(t)
    BY <1>8, Zenon DEF vars, Unsaved, At
  <2>2. FileIsCurrent'
    BY <1>8, <2>1, Zenon DEF vars, process, FileIsCurrent, Inv
  <2> QED
    BY <1>8, <2>2, Zenon DEF vars, process, bus, Inv, Typed, Locked, Process, Goroutines, Kept
<1> QED
  BY <1>4, <1>5, <1>6, <1>7, <1>8, Zenon DEF Next

\* The invariant holds in every state.
LEMMA StoreInv == Spec => []Inv
BY InitInv, NextInv, PTL DEF Spec

\* Whatever goroutines save, at the same time or one after the other, and whatever
\* fails or is killed in between: once no save is under way and the last one has not
\* failed, the file holds the configuration as it is in memory.
THEOREM FileFollows == Spec => []FileIsCurrent
<1>1. Inv => FileIsCurrent
  BY Zenon DEF Inv
<1> QED
  BY <1>1, StoreInv, PTL

\* What a call that returned has changed is in memory, in this process and in every
\* later one, as long as no process ends over a save that had truncated the file.
THEOREM NothingIsLost == Spec => []ChangesKept
<1>1. Inv => ChangesKept
  <2> SUFFICES ASSUME Inv PROVE ChangesKept
    BY Zenon
  <2>1. CASE running
    BY <2>1, Zenon DEF Inv, Kept, Within, ChangesKept
  <2>2. CASE ~running
    <3>1. file # Torn => LoadConfig = file.conf
      BY FileFacts, Zenon DEF Inv
    <3>2. file = Torn \/ Within(kept, file.conf)
      BY Zenon DEF Inv, Kept
    <3> QED
      BY <2>2, <3>1, <3>2, Zenon DEF ChangesKept, Within
  <2> QED
    BY <2>1, <2>2, Zenon
<1> QED
  BY <1>1, StoreInv, PTL
============================================================================
