----------------------------- MODULE PartsProofs -----------------------------
(* Parts that work alone, for every value of their constants: the log       *)
(* buffer, the tray and the source of relays.                               *)
EXTENDS RingBuffer, Tray, Relays,
        SequenceTheorems, FiniteSetTheorems, TLAPS

-----------------------------------------------------------------------------
(* RingBuffer implements LogTail, for every size and every write.          *)

\* Past the filling rate there are Size bytes to move; up to it, three tenths
\* of Size are free (the constant fillingRate of ring_buffer.go).
LEMMA FullBounds ==
  ASSUME TypeOK
  PROVE  /\ Full => pos - Size \in Nat
         /\ ~Full => 3 * Size <= 10 * (2 * Size - pos)
<1>1. Size \in Nat
  BY SizeAssumption, Zenon
<1>2. pos \in Nat /\ pos <= 2 * Size
  BY <1>1 DEF TypeOK
<1>3. /\ (Size * 17) \div 10 \in Nat
      /\ Size <= (Size * 17) \div 10
      /\ 10 * ((Size * 17) \div 10) <= 17 * Size
  BY <1>1
<1>4. Full <=> pos > (Size * 17) \div 10
  BY Zenon DEF Full, fillingRate
<1> QED BY <1>1, <1>2, <1>3, <1>4

\* copy never writes past the end of the buffer, and stops short only there.
LEMMA RoomBounds ==
  ASSUME NEW at \in Nat, at <= 2 * Size, NEW p \in Seq(Byte)
  PROVE  /\ room(at, p) \in 0 .. Len(p)
         /\ at + room(at, p) <= 2 * Size
         /\ room(at, p) = Len(p) \/ room(at, p) = 2 * Size - at
<1>1. Size \in Nat /\ Len(p) \in Nat
  BY SizeAssumption
<1> QED BY <1>1 DEF room

\* What Write works on once it has moved the bytes it keeps: a buffer b of
\* bytes, filled up to at, with the same last bytes as before.
LEMMA Moved ==
  ASSUME TypeOK
  PROVE  LET b  == IF Full THEN moved ELSE buf
             at == IF Full THEN Size ELSE pos
         IN  /\ b \in [1 .. 2 * Size -> Byte]
             /\ at \in Nat /\ at <= 2 * Size
             /\ 3 * Size <= 10 * (2 * Size - at)
             /\ Bytes = last(b, at)
<1>1. Size \in Nat /\ pos \in Nat /\ pos <= 2 * Size /\ buf \in [1 .. 2 * Size -> Byte]
  BY SizeAssumption DEF TypeOK
<1>2. CASE Full
  <2>1. pos - Size \in Nat
    BY <1>2, FullBounds, Zenon
  <2>2. moved \in [1 .. 2 * Size -> Byte]
    BY <1>1, <2>1 DEF moved
  <2>3. \A i \in 1 .. Size : moved[i] = buf[i + (pos - Size)]
    BY <1>1 DEF moved
  <2>4. Bytes = [i \in 1 .. Size |-> moved[i]]
    <3>1. Bytes = [i \in 1 .. Size |-> buf[(pos - Size) + i]]
      BY <1>1, <2>1 DEF Bytes, last
    <3>2. \A i \in 1 .. Size : buf[(pos - Size) + i] = moved[i]
      BY <1>1, <2>1, <2>3
    <3> QED BY <3>1, <3>2, Zenon
  <2>5. last(moved, Size) = [i \in 1 .. Size |-> moved[i]]
    BY <1>1 DEF last
  <2> QED BY <1>1, <1>2, <2>2, <2>4, <2>5
<1>3. CASE ~Full
  <2>1. 3 * Size <= 10 * (2 * Size - pos)
    BY <1>3, FullBounds, Zenon
  <2> QED BY <1>1, <1>3, <2>1, Zenon DEF Bytes
<1> QED BY <1>2, <1>3, Zenon

\* A write into a buffer of bytes that is filled up to at: the last bytes
\* after it are the last bytes of the old ones followed by the n new ones.
LEMMA Appended ==
  ASSUME NEW b \in [1 .. 2 * Size -> Byte], NEW at \in Nat, NEW p \in Seq(Byte),
         NEW n \in 0 .. Len(p), at + n <= 2 * Size
  PROVE  Log!LastBytes(last(b, at) \o SubSeq(p, 1, n)) = last(copied(b, at, p, n), at + n)
<1> DEFINE c == copied(b, at, p, n)
           k == IF at < Size THEN at ELSE Size
           l == IF at + n < Size THEN at + n ELSE Size
           t == [i \in 1 .. k |-> b[at - k + i]]
<1>a. c = copied(b, at, p, n) /\ t = [i \in 1 .. k |-> b[at - k + i]]
  BY Zenon
<1>b. last(b, at) = t
  BY Zenon DEF last
<1>c. last(c, at + n) = [i \in 1 .. l |-> c[at + n - l + i]]
  <2> HIDE DEF c
  <2> QED BY SizeAssumption DEF last
<1>1. /\ Size \in Nat /\ n \in Nat /\ n <= Len(p)
      /\ k \in Nat /\ k <= at /\ k <= Size
      /\ l \in Nat /\ l <= at + n /\ l <= k + n
      /\ l = IF k + n < Size THEN k + n ELSE Size
  BY SizeAssumption
<1> HIDE DEF c, k, l, t
<1>2. t \in Seq(Byte) /\ Len(t) = k
  <2>1. \A i \in 1 .. k : b[at - k + i] \in Byte
    BY <1>1
  <2> QED BY <1>1, <1>a, <2>1
<1> DEFINE q == SubSeq(p, 1, n)
<1>3. q \in Seq(Byte) /\ Len(q) = n /\ \A i \in 1 .. n : q[i] = p[i]
  BY <1>1
<1> DEFINE s == t \o q
<1>4. s \in Seq(Byte) /\ Len(s) = k + n
  <2> HIDE DEF q
  <2>1. t \in Seq(Byte) /\ q \in Seq(Byte)
    BY <1>2, <1>3, Zenon
  <2>2. Len(t) = k /\ Len(q) = n
    BY <1>2, <1>3, Zenon
  <2>3. s \in Seq(Byte) /\ Len(s) = Len(t) + Len(q)
    BY <2>1, ConcatProperties, Zenon
  <2> QED BY <2>2, <2>3, Zenon
<1>5. \A j \in 1 .. k + n : s[j] = IF j <= k THEN t[j] ELSE q[j - k]
  <2> HIDE DEF q
  <2> QED BY <1>2, <1>3, ConcatProperties, Zenon
<1>6. Log!LastBytes(s) = [i \in 1 .. l |-> s[k + n - l + i]]
  <2> HIDE DEF s
  <2> QED BY <1>1, <1>4 DEF Log!LastBytes
<1>7. ASSUME NEW i \in 1 .. l
      PROVE  s[k + n - l + i] = c[at + n - l + i]
  <2> HIDE DEF q, s
  <2>1. k + n - l + i \in 1 .. k + n /\ at + n - l + i \in 1 .. 2 * Size
    BY <1>1
  <2>2. CASE i <= l - n
    <3>1. k + n - l + i \in 1 .. k /\ at + n - l + i <= at
      BY <1>1, <2>2
    <3>2. s[k + n - l + i] = t[k + n - l + i]
      <4>1. \A j \in 1 .. k + n : j \in 1 .. k => s[j] = t[j]
        BY ONLY <1>1, <1>5
      <4> QED BY ONLY <2>1, <3>1, <4>1, Zenon
    <3>3. t[k + n - l + i] = b[at - k + (k + n - l + i)]
      BY <3>1, <1>a, Zenon
    <3>4. at - k + (k + n - l + i) = at + n - l + i
      BY <1>1
    <3>5. c[at + n - l + i] = b[at + n - l + i]
      BY <1>1, <1>a, <2>1, <3>1, SMTT(30) DEF copied
    <3> QED BY <3>2, <3>3, <3>4, <3>5, Zenon
  <2>3. CASE ~(i <= l - n)
    <3>1. ~(k + n - l + i <= k) /\ n - l + i \in 1 .. n
      BY <1>1, <2>3
    <3>2. s[k + n - l + i] = q[(k + n - l + i) - k]
      BY <1>1, <1>5, <2>1, <3>1, Zenon
    <3>3. (k + n - l + i) - k = n - l + i /\ (at + n - l + i) - at = n - l + i
      BY <1>1
    <3>4. q[n - l + i] = p[n - l + i]
      BY <1>3, <3>1, Zenon
    <3>5. c[at + n - l + i] = p[(at + n - l + i) - at]
      BY <1>1, <1>a, <2>1, <3>1 DEF copied
    <3> QED BY <3>2, <3>3, <3>4, <3>5, Zenon
  <2> QED BY <2>2, <2>3, Zenon
<1> HIDE DEF s
<1>8. [i \in 1 .. l |-> s[k + n - l + i]] = [i \in 1 .. l |-> c[at + n - l + i]]
  BY <1>7, Zenon
<1> QED BY <1>b, <1>c, <1>6, <1>8, Zenon DEF s, c

\* Write keeps a buffer of bytes and a position inside it, and appends to the
\* log at least three tenths of Size of what it is given, or all of it.
LEMMA WriteAppends ==
  ASSUME TypeOK, NEW p \in Writes, Write(p)
  PROVE  TypeOK' /\ Log!Write(p)
<1> DEFINE b  == IF Full THEN moved ELSE buf
           at == IF Full THEN Size ELSE pos
           n  == room(at, p)
<1>1. Size \in Nat /\ p \in Seq(Byte) /\ Len(p) \in Nat
  BY SizeAssumption, WriteAssumption
<1>2. /\ b \in [1 .. 2 * Size -> Byte]
      /\ at \in Nat /\ at <= 2 * Size
      /\ 3 * Size <= 10 * (2 * Size - at)
      /\ Bytes = last(b, at)
  BY Moved, Zenon
<1>3. buf' = copied(b, at, p, n) /\ pos' = at + n
  BY Zenon DEF Write
<1> HIDE DEF b, at
<1>4. n \in 0 .. Len(p) /\ at + n <= 2 * Size /\ (n = Len(p) \/ n = 2 * Size - at)
  BY <1>1, <1>2, RoomBounds, Zenon
<1>5. TypeOK'
  <2>1. pos' \in 0 .. 2 * Size
    <3> HIDE DEF n
    <3> QED BY <1>1, <1>2, <1>3, <1>4
  <2>2. copied(b, at, p, n) \in [1 .. 2 * Size -> Byte]
    <3> HIDE DEF n
    <3>1. ASSUME NEW i \in 1 .. 2 * Size, at < i, i <= at + n
          PROVE  p[i - at] \in Byte
      <4>1. i - at \in 1 .. Len(p)
        BY <1>1, <1>2, <1>4, <3>1
      <4> QED BY <1>1, <4>1
    <3> QED BY <1>2, <3>1, Zenon DEF copied
  <2> QED BY <1>3, <2>1, <2>2, Zenon DEF TypeOK
<1>6. Bytes' = Log!LastBytes(Bytes \o SubSeq(p, 1, n))
  <2> HIDE DEF n
  <2>1. Log!LastBytes(last(b, at) \o SubSeq(p, 1, n)) = last(copied(b, at, p, n), at + n)
    BY <1>1, <1>2, <1>4, Appended, Zenon
  <2>2. Bytes' = last(buf', pos')
    BY Zenon DEF Bytes
  <2> QED BY <1>2, <1>3, <2>1, <2>2, Zenon
<1>7. n = Len(p) \/ 3 * Size <= 10 * n
  <2> HIDE DEF n
  <2> QED BY <1>1, <1>2, <1>4, Zenon
<1> HIDE DEF n
<1> QED BY <1>4, <1>5, <1>6, <1>7, Zenon DEF Log!Write

\* The buffer stays 2 * Size bytes long and the position inside it.
THEOREM RingTyped == Spec => []TypeOK
<1>1. Init => TypeOK
  BY SizeAssumption, ByteAssumption DEF Init, TypeOK
<1>2. TypeOK /\ [Next]_ringVars => TypeOK'
  <2> SUFFICES ASSUME TypeOK, [Next]_ringVars PROVE TypeOK'
    BY Zenon
  <2>1. CASE Reset
    BY <2>1, SizeAssumption DEF Reset, TypeOK
  <2>2. CASE \E p \in Writes : Write(p)
    BY <2>2, WriteAppends, Zenon
  <2>3. CASE UNCHANGED ringVars
    BY <2>3, Zenon DEF ringVars, TypeOK
  <2> QED BY <2>1, <2>2, <2>3, Zenon DEF Next
<1> QED BY <1>1, <1>2, PTL DEF Spec

\* What Bytes returns is always the last Size bytes accepted since the last
\* Reset: every step of the buffer is a step of LogTail, or changes no byte
\* of what a reader gets.
THEOREM RingKeepsTail == Spec => TailKept
<1>1. Init => Log!Init
  <2> SUFFICES ASSUME Init PROVE Bytes = <<>>
    BY Zenon DEF Log!Init
  <2>1. Size \in Nat /\ pos = 0
    BY SizeAssumption, Zenon DEF Init
  <2> QED BY <2>1 DEF Bytes, last
<1>2. TypeOK /\ [Next]_ringVars => [Log!Next]_Bytes
  <2> SUFFICES ASSUME TypeOK, [Next]_ringVars PROVE [Log!Next]_Bytes
    BY Zenon
  <2>1. CASE Reset
    <3>1. Size \in Nat /\ pos' = 0
      BY <2>1, SizeAssumption, Zenon DEF Reset
    <3>2. Bytes' = <<>>
      BY <3>1 DEF Bytes, last
    <3> QED BY <3>2, Zenon DEF Log!Reset, Log!Next
  <2>2. CASE \E p \in Writes : Write(p)
    BY <2>2, WriteAppends, Zenon DEF Log!Next
  <2>3. CASE UNCHANGED ringVars
    BY <2>3, Zenon DEF ringVars, Bytes, last
  <2> QED BY <2>1, <2>2, <2>3, Zenon DEF Next
<1> QED BY <1>1, <1>2, RingTyped, PTL DEF Spec, TailKept, Log!Spec

-----------------------------------------------------------------------------
(* Tray: the menu agrees with the server, for any number of Applications and *)
(* clicks.                                                                   *)

Begun == {"new", "init", "setup", "undo"}

\* What makes TrayAgrees inductive. Without an overlap a start is alone, and the
\* Application it makes is the only one that is not closed ...
StartsAlone ==
  \A g \in Starting :
    /\ Busy = {g} /\ menu = "stopped" /\ process = "up"
    /\ hand[g] = "new"   => app = 0
    /\ hand[g] = "init"  => app # 0 /\ state[app] = "new"
    /\ hand[g] = "setup" => app # 0 /\ state[app] = "open"
    /\ hand[g] = "undo"  => app # 0 /\ state[app] = "half"

\* ... and when there is none, the menu follows app as soon as a stop that has
\* begun refreshes it: app is closed only while some stop is about to forget it.
StopsAgree ==
  Starting = {} =>
    /\ app # 0 => /\ menu = "running" /\ state[app] \in {"open", "closed"}
                  /\ state[app] = "closed" <=> \E g \in Goroutine : hand[g] = "stopped"
    /\ app = 0 /\ menu = "running" => \E g \in Goroutine : hand[g] \in {"stopped", "refresh"}
    /\ \A g \in Goroutine : hand[g] \in {"refresh", "exit"} => app = 0
    /\ \A g \in Goroutine : hand[g] = "exit" => menu = "stopped"

TrayTyped ==
  /\ app \in 0 .. MaxApps
  /\ state \in [1 .. MaxApps -> {"none", "new", "half", "open", "closed"}]
  /\ menu \in {"running", "stopped"} /\ process \in {"up", "exited", "crashed"} /\ raced \in BOOLEAN
  /\ hand \in [Goroutine -> {"idle", "stop", "close", "stopped", "refresh", "exit",
                             "new", "init", "setup", "undo"}]

TraySound ==
  /\ \A a \in Made : state[a] # "closed" => a = app
  /\ StartsAlone /\ StopsAgree
  /\ process = "exited" => \E g \in Goroutine : hand[g] = "exit"

trayInv == TrayTyped /\ (~raced /\ process # "crashed" => TraySound)

\* A step of g that is no overlap: if another handler is under way, none of the
\* others is starting, and g does not begin to.
LEMMA GotoFacts ==
  ASSUME trayInv, NEW g \in Goroutine, NEW pc, Goto(g, pc), ~raced'
  PROVE  /\ ~raced /\ hand'[g] = pc /\ \A h \in Goroutine : h # g => hand'[h] = hand[h]
         /\ \A h \in Goroutine : h # g /\ hand[h] # "idle" =>
              pc # "new" /\ \A k \in Goroutine : k # g => hand[k] \notin Begun
BY ZenonT(60) DEF trayInv, TrayTyped, TraySound, Goto, Busy, Starting, Begun

\* A click.
LEMMA ClickedKeeps ==
  ASSUME trayInv, ~raced', NEW g \in Goroutine, NEW pc \in {"stop", "new"}, Clicked(g, pc),
         pc = "new" => app = 0
  PROVE  TraySound'
<1>1. /\ ~raced /\ hand'[g] = pc /\ \A h \in Goroutine : h # g => hand'[h] = hand[h]
      /\ \A h \in Goroutine : h # g /\ hand[h] # "idle" =>
              pc # "new" /\ \A k \in Goroutine : k # g => hand[k] \notin Begun
  BY GotoFacts, Zenon DEF Clicked
<1>2. process = "up" /\ hand[g] = "idle" /\ UNCHANGED <<app, state, menu, process>> BY Zenon DEF Clicked
<1>3. \A a \in Made' : state'[a] # "closed" => a = app' BY <1>1, <1>2, Zenon DEF trayInv, TrayTyped, TraySound, Made
<1>4. StartsAlone' BY <1>1, <1>2, SMTT(30) DEF trayInv, TrayTyped, TraySound, StartsAlone, StopsAgree, Starting, Busy, Begun
<1>5. StopsAgree' BY <1>1, <1>2, SMTT(30) DEF trayInv, TrayTyped, TraySound, StartsAlone, StopsAgree, Starting, Busy, Begun
<1> QED BY <1>2, <1>3, <1>4, <1>5, Zenon DEF TraySound

\* A step of StopServer.
LEMMA StopKeeps ==
  ASSUME trayInv, ~raced', NEW g \in Goroutine,
         \/ StopServer(g) \/ AppClose(g) \/ StopServerForgets(g) \/ refreshMenusOnStoppedServer(g)
  PROVE  TraySound'
<1>0. PICK pc : Goto(g, pc)
  BY Zenon DEF StopServer, AppClose, StopServerForgets, refreshMenusOnStoppedServer
<1>1. /\ ~raced /\ hand'[g] = pc /\ \A h \in Goroutine : h # g => hand'[h] = hand[h]
      /\ \A h \in Goroutine : h # g /\ hand[h] # "idle" =>
              pc # "new" /\ \A k \in Goroutine : k # g => hand[k] \notin Begun
  BY <1>0, GotoFacts, Zenon
<1>2. hand[g] \in {"stop", "close", "stopped", "refresh"} /\ process = "up" /\ process' = "up"
  BY Zenon DEF StopServer, AppClose, StopServerForgets, refreshMenusOnStoppedServer
<1>3. Starting = {}
  BY <1>1, <1>2, SMTT(30) DEF trayInv, TrayTyped, TraySound, StartsAlone, Starting, Busy
<1>4. StopsAgree /\ \A a \in Made : state[a] # "closed" => a = app
  BY <1>1, <1>2, Zenon DEF trayInv, TrayTyped, TraySound
<1>5. CASE StopServer(g)
  <2>1. /\ pc = (IF app = 0 THEN "stopped" ELSE "close") /\ hand[g] = "stop"
        /\ UNCHANGED <<app, state, menu>>
    BY <1>1, <1>5, Zenon DEF StopServer, Goto, trayInv, TrayTyped, TraySound
  <2>2. Starting' = {} BY <1>1, <1>3, <2>1, Zenon DEF Starting
  <2>3. StopsAgree' BY <1>1, <1>3, <1>4, <2>1, Zenon DEF StopsAgree
  <2> QED BY <1>2, <1>4, <2>1, <2>2, <2>3, Zenon DEF TraySound, StartsAlone, Made
<1>6. CASE AppClose(g)
  <2>1. /\ hand[g] = "close" /\ UNCHANGED <<app, menu>>
        /\ app # 0 => state' = [state EXCEPT ![app] = "closed"] /\ pc = "stopped"
        /\ app = 0 => state' = state /\ pc = "refresh"
    BY <1>1, <1>3, <1>4, <1>6, ZenonT(60) DEF AppClose, Panics, StopsAgree, Goto, trayInv, TrayTyped, TraySound
  <2>2. Starting' = {} BY <1>1, <1>3, <2>1, Zenon DEF Starting
  <2>3. \A a \in Made' : state'[a] # "closed" => a = app' BY <1>4, <2>1, ZenonT(60) DEF trayInv, TrayTyped, TraySound, Made
  <2>4. app # 0 => state'[app] = "closed" BY <2>1, TrayAssumption, SMTT(30) DEF trayInv, TrayTyped, TraySound
  <2>5. \A h \in Goroutine : hand'[h] = hand[h] \/ hand'[h] = pc BY <1>1, Zenon
  <2>6. StopsAgree' BY <1>1, <1>3, <1>4, <2>1, <2>4, <2>5, Zenon DEF StopsAgree
  <2> QED BY <1>2, <2>2, <2>3, <2>6, Zenon DEF TraySound, StartsAlone
<1>7. CASE StopServerForgets(g)
  <2>1. /\ hand[g] = "stopped" /\ UNCHANGED <<state, menu>> /\ app' = 0 /\ pc = "refresh"
    BY <1>1, <1>7, Zenon DEF StopServerForgets, Goto, trayInv, TrayTyped, TraySound
  <2>2. Starting' = {} BY <1>1, <1>3, <2>1, Zenon DEF Starting
  <2>3. \A a \in Made' : state'[a] # "closed" => a = app'
    BY <1>3, <1>4, <2>1, Zenon DEF Made, StopsAgree, trayInv, TrayTyped, TraySound
  <2>4. StopsAgree' BY <1>1, <1>3, <1>4, <2>1, Zenon DEF StopsAgree
  <2> QED BY <1>2, <2>2, <2>3, <2>4, Zenon DEF TraySound, StartsAlone
<1>8. CASE refreshMenusOnStoppedServer(g)
  <2>1. /\ hand[g] = "refresh" /\ UNCHANGED <<app, state>> /\ menu' = "stopped"
        /\ pc \in {"new", "exit", "idle"} /\ app = 0
    BY <1>1, <1>3, <1>4, <1>8, Zenon DEF refreshMenusOnStoppedServer, Goto, trayInv, TrayTyped, TraySound, After, StopsAgree
  <2>2. \A a \in Made' : state'[a] # "closed" => a = app' BY <1>4, <2>1, Zenon DEF Made
  <2>3. StartsAlone' BY <1>1, <1>2, <1>3, <2>1, Zenon DEF StartsAlone, Starting, Busy
  <2>4. StopsAgree' BY <1>1, <1>3, <1>4, <2>1, Zenon DEF StopsAgree
  <2> QED BY <1>2, <2>2, <2>3, <2>4, Zenon DEF TraySound
<1> QED BY <1>5, <1>6, <1>7, <1>8, Zenon

\* A step of InitServer.
LEMMA StartKeeps ==
  ASSUME trayInv, ~raced', process' # "crashed", NEW g \in Goroutine,
         InitServer(g) \/ AppInit(g) \/ SetUp(g) \/ Undo(g)
  PROVE  TraySound'
<1>0. PICK pc : Goto(g, pc) BY ZenonT(60) DEF InitServer, AppInit, SetUp, Undo
<1>1. /\ ~raced /\ hand'[g] = pc /\ \A h \in Goroutine : h # g => hand'[h] = hand[h]
  BY <1>0, GotoFacts, Zenon
<1>2. hand[g] \in Begun /\ process = "up" /\ process' = "up"
  BY ZenonT(60) DEF InitServer, AppInit, SetUp, Undo, Begun, trayInv, TrayTyped, TraySound
<1>3. /\ \A h \in Goroutine : h # g => hand[h] = "idle" /\ hand'[h] = "idle"
      /\ menu = "stopped"
      /\ hand[g] = "new"   => app = 0
      /\ hand[g] = "init"  => app # 0 /\ state[app] = "new"
      /\ hand[g] = "setup" => app # 0 /\ state[app] = "open"
      /\ hand[g] = "undo"  => app # 0 /\ state[app] = "half"
      /\ \A a \in Made : state[a] # "closed" => a = app
  BY <1>1, <1>2, SMTT(30) DEF trayInv, TrayTyped, TraySound, StartsAlone, Starting, Busy, Begun
<1>4. app # 0 => app \in 1 .. MaxApps BY TrayAssumption, SMTT(30) DEF trayInv, TrayTyped, TraySound
<1>5. ASSUME pc \in Begun, menu' = "stopped",
             pc = "init"  => app' # 0 /\ state'[app'] = "new",
             pc = "setup" => app' # 0 /\ state'[app'] = "open",
             pc = "undo"  => app' # 0 /\ state'[app'] = "half",
             pc # "new", \A a \in Made' : state'[a] # "closed" => a = app'
      PROVE  TraySound'
  <2>1. g \in Starting' BY <1>1, <1>5, Zenon DEF Starting, Begun
  <2>2. StartsAlone' BY <1>1, <1>2, <1>3, <1>5, Zenon DEF StartsAlone, Starting, Busy, Begun
  <2> QED BY <1>2, <1>5, <2>1, <2>2, Zenon DEF TraySound, StopsAgree
<1>6. CASE InitServer(g)
  <2>1. PICK a \in DOMAIN state : app' = a /\ state' = [state EXCEPT ![a] = "new"]
    BY <1>6, ZenonT(60) DEF InitServer
  <2>2. a \in 1 .. MaxApps /\ a # 0 BY TrayAssumption, SMTT(30) DEF trayInv, TrayTyped, TraySound
  <2>3. hand[g] = "new" /\ menu' = menu /\ pc = "init" BY <1>1, <1>6, Zenon DEF InitServer, Goto, trayInv, TrayTyped, TraySound
  <2>4. \A b \in Made' : state'[b] # "closed" => b = app'
    BY <1>3, <2>1, <2>2, <2>3, TrayAssumption, SMTT(30) DEF Made, trayInv, TrayTyped, TraySound
  <2>5. state'[app'] = "new" BY <2>1, Zenon
  <2> QED BY <1>3, <1>5, <2>1, <2>2, <2>3, <2>4, <2>5, Zenon DEF Begun
<1>7. CASE AppInit(g)
  <2>1. hand[g] = "init" /\ app # 0 /\ state[app] = "new" /\ UNCHANGED <<app, menu>>
    BY <1>3, <1>7, Zenon DEF AppInit
  <2>2. \/ pc = "setup" /\ state' = [state EXCEPT ![app] = "open"]
        \/ pc = "undo" /\ state' = [state EXCEPT ![app] = "half"]
    BY <1>1, <1>7, <2>1, Zenon DEF AppInit, Goto, trayInv, TrayTyped, TraySound
  <2>3. \A b \in Made' : state'[b] # "closed" => b = app'
    <3>1. DOMAIN state = 1 .. MaxApps /\ DOMAIN state' = 1 .. MaxApps BY <2>2, Zenon DEF trayInv, TrayTyped, TraySound
    <3>2. \A b \in 1 .. MaxApps : b # app => state'[b] = state[b] BY <2>2, <3>1, Zenon
    <3> QED BY <1>3, <2>1, <3>1, <3>2, Zenon DEF Made
  <2>4. \/ pc = "setup" /\ state'[app'] = "open"
        \/ pc = "undo" /\ state'[app'] = "half"
    BY <1>4, <2>1, <2>2, ZenonT(60) DEF trayInv, TrayTyped, TraySound
  <2> QED BY <1>3, <1>5, <2>1, <2>3, <2>4, Zenon DEF Begun
<1>8. CASE SetUp(g)
  <2>1. app # 0 /\ state[app] = "open" /\ menu' = "running" /\ pc = "idle" /\ UNCHANGED <<app, state>>
    BY <1>1, <1>3, <1>8, Zenon DEF SetUp, Goto, trayInv, TrayTyped, TraySound
  <2>2. \A h \in Goroutine : hand'[h] = "idle" BY <1>1, <1>3, <2>1, SMTT(30)
  <2>3. StartsAlone' BY <2>2, Zenon DEF StartsAlone, Starting
  <2>4. StopsAgree' BY <2>1, <2>2, Zenon DEF StopsAgree
  <2> QED BY <1>2, <1>3, <2>1, <2>3, <2>4, Zenon DEF TraySound, Made
<1>9. CASE Undo(g)
  <2>1. app # 0 /\ state' = [state EXCEPT ![app] = "closed"] /\ app' = 0 /\ menu' = "stopped" /\ pc = "idle"
    BY <1>1, <1>2, <1>3, <1>9, Zenon DEF Undo, Goto, trayInv, TrayTyped, TraySound, Panics
  <2>2. \A h \in Goroutine : hand'[h] = "idle" BY <1>1, <1>3, <2>1, Zenon
  <2>3. StartsAlone' BY <2>2, Zenon DEF StartsAlone, Starting
  <2>4. StopsAgree' BY <2>1, <2>2, SMTT(30) DEF StopsAgree
  <2>5. \A b \in Made' : state'[b] # "closed" => b = app'
    BY <1>3, <1>4, <2>1, Zenon DEF Made, trayInv, TrayTyped, TraySound
  <2> QED BY <1>2, <2>3, <2>4, <2>5, Zenon DEF TraySound
<1> QED BY <1>6, <1>7, <1>8, <1>9, Zenon

\* Every step of the handlers keeps the invariant.
LEMMA trayStepKeeps == trayInv /\ [trayNext]_trayVars => trayInv'
<1> SUFFICES ASSUME trayInv, [trayNext]_trayVars PROVE trayInv' BY Zenon
<1>1. CASE UNCHANGED trayVars
  BY <1>1, Zenon DEF trayInv, TrayTyped, TraySound, trayVars, StartsAlone, StopsAgree, Starting, Busy, Made
<1>2. ASSUME TrayTyped', ~raced' /\ process' # "crashed" => TraySound' PROVE trayInv'
  BY <1>2, Zenon DEF trayInv, TrayTyped, TraySound
<1>3. ASSUME NEW g \in Goroutine, NEW pc \in {"stop", "new"}, Clicked(g, pc), pc = "new" => app = 0
      PROVE  trayInv'
  <2>1. TrayTyped' BY <1>3, Zenon DEF trayInv, TrayTyped, TraySound, Clicked, Goto
  <2> QED BY <1>2, <1>3, <2>1, ClickedKeeps, Zenon
<1>4. CASE startStopClicked \/ restartClicked \/ onClickEditRawConfig \/ onClickUpdateMenu \/ quitClicked
  BY <1>3, <1>4, Zenon DEF startStopClicked, restartClicked, onClickEditRawConfig, onClickUpdateMenu,
     quitClicked, Goroutine
<1>5. ASSUME NEW g \in Goroutine,
             \/ StopServer(g) \/ AppClose(g) \/ StopServerForgets(g) \/ refreshMenusOnStoppedServer(g)
      PROVE  trayInv'
  <2>1. /\ app' \in {0, app} /\ menu' \in {menu, "stopped"} /\ process' = process /\ raced' \in BOOLEAN
        /\ \E pc \in {"stopped", "close", "refresh", "new", "exit", "idle"} : hand' = [hand EXCEPT ![g] = pc]
    BY <1>5, ZenonT(60) DEF StopServer, AppClose, StopServerForgets, refreshMenusOnStoppedServer, After, Goto
  <2>2. state' \in [1 .. MaxApps -> {"none", "new", "half", "open", "closed"}]
    BY <1>5, Zenon DEF StopServer, AppClose, StopServerForgets, refreshMenusOnStoppedServer, trayInv, TrayTyped, TraySound
  <2>3. TrayTyped' BY <2>1, <2>2, TrayAssumption, SMTT(30) DEF trayInv, TrayTyped, TraySound
  <2> QED BY <1>2, <1>5, <2>3, StopKeeps, Zenon
<1>6. ASSUME NEW g \in Goroutine, InitServer(g) \/ AppInit(g) \/ SetUp(g) \/ Undo(g)
      PROVE  trayInv'
  <2>1. /\ menu' \in {menu, "running"} /\ process' \in {process, "up", "crashed"} /\ raced' \in BOOLEAN
        /\ \E pc \in {"init", "setup", "undo", "idle"} : hand' = [hand EXCEPT ![g] = pc]
    BY <1>6, ZenonT(60) DEF InitServer, AppInit, SetUp, Undo, Goto
  <2>2. app' \in {0, app} \cup DOMAIN state BY <1>6, ZenonT(60) DEF InitServer, AppInit, SetUp, Undo
  <2>3. state' \in [1 .. MaxApps -> {"none", "new", "half", "open", "closed"}]
    BY <1>6, ZenonT(60) DEF InitServer, AppInit, SetUp, Undo, trayInv, TrayTyped, TraySound
  <2>4. TrayTyped' BY <2>1, <2>2, <2>3, TrayAssumption, SMTT(60) DEF trayInv, TrayTyped, TraySound
  <2> QED BY <1>2, <1>6, <2>4, StartKeeps, Zenon
<1>7. ASSUME NEW g \in Goroutine, Exit(g) PROVE trayInv'
  BY <1>7, SMTT(30) DEF trayInv, TrayTyped, TraySound, Exit, StartsAlone, StopsAgree, Starting, Busy, Made
<1> QED BY <1>1, <1>4, <1>5, <1>6, <1>7, Zenon DEF trayNext

\* However many clicks and Applications there are, whichever starts fail and
\* whatever stops overlap, menu, variable and servers agree once no handler is
\* under way, unless an InitServer overlapped another handler.
THEOREM MenuAgrees == traySpec => []TrayAgrees
<1>1. trayInit => trayInv
  <2> SUFFICES ASSUME trayInit PROVE trayInv BY Zenon
  <2>1. Busy = {"ready"} /\ Starting = {"ready"} BY Zenon DEF trayInit, Busy, Starting, Goroutine
  <2>2. StartsAlone /\ StopsAgree BY <2>1, Zenon DEF trayInit, StartsAlone, StopsAgree, Goroutine
  <2>3. Made = {} BY Zenon DEF trayInit, Made
  <2>4. TrayTyped
    <3>1. app \in 0 .. MaxApps BY TrayAssumption, SMTT(30) DEF trayInit
    <3>2. /\ state \in [1 .. MaxApps -> {"none", "new", "half", "open", "closed"}]
          /\ menu \in {"running", "stopped"} /\ process \in {"up", "exited", "crashed"}
          /\ raced \in BOOLEAN
      BY ZenonT(60) DEF trayInit
    <3>3. hand \in [Goroutine -> {"idle", "stop", "close", "stopped", "refresh", "exit",
                                 "new", "init", "setup", "undo"}]
      BY Zenon DEF trayInit
    <3> QED BY <3>1, <3>2, <3>3, Zenon DEF TrayTyped
  <2>5. process = "up" BY Zenon DEF trayInit
  <2> QED BY <2>2, <2>3, <2>4, <2>5, ZenonT(60) DEF trayInv, TrayTyped, TraySound
<1>2. trayInv => TrayAgrees
  <2> SUFFICES ASSUME trayInv, process = "up" => Busy = {}, process # "crashed", ~raced
               PROVE  /\ (menu = "running") <=> (app # 0)
                      /\ {a \in Made : state[a] # "closed"} = IF app = 0 THEN {} ELSE {app}
                      /\ app # 0 => state[app] = "open"
    BY Zenon DEF TrayAgrees
  <2>1. \/ \A g \in Goroutine : hand[g] = "idle"
        \/ \E g \in Goroutine : hand[g] = "exit"
    BY Zenon DEF trayInv, TrayTyped, TraySound, Busy
  <2>2. Starting = {} BY <2>1, Zenon DEF trayInv, TrayTyped, TraySound, StartsAlone, Starting, Busy
  <2>3. app # 0 => state[app] = "open" /\ menu = "running" BY <2>1, <2>2, Zenon DEF trayInv, TrayTyped, TraySound, StopsAgree
  <2>4. app = 0 => menu = "stopped" BY <2>1, <2>2, Zenon DEF trayInv, TrayTyped, TraySound, StopsAgree
  <2>5. app # 0 => app \in Made BY <2>3, TrayAssumption, SMTT(30) DEF trayInv, TrayTyped, TraySound, Made
  <2>6. {a \in Made : state[a] # "closed"} = IF app = 0 THEN {} ELSE {app}
    BY <2>3, <2>5, TrayAssumption, SMTT(30) DEF trayInv, TrayTyped, TraySound, Made
  <2> QED BY <2>3, <2>4, <2>6, Zenon
<1> QED BY <1>1, <1>2, trayStepKeeps, PTL DEF traySpec

-----------------------------------------------------------------------------
(* Folds, as in StreamProofs.                                              *)

\* A set of natural numbers that is not empty has a least element.
LEMMA Least ==
  ASSUME NEW S, S \subseteq Nat, S # {}
  PROVE  Min(S) \in S /\ \A y \in S : Min(S) <= y
<1>1. \E x \in S : \A y \in S : ~(<<y, x>> \in OpToRel(<, Nat))
  BY NatLessThanWellFounded, WFMin, Zenon
<1>2. ASSUME NEW x \in Nat, NEW y \in Nat PROVE <<y, x>> \in OpToRel(<, Nat) <=> y < x
  <2>1. OpToRel(<, Nat) = {s \in Nat \X Nat : s[1] < s[2]}
    BY Zenon DEF OpToRel
  <2> QED
    BY <2>1, Zenon
<1>3. \A x, y \in Nat : ~(y < x) => x <= y
  OBVIOUS
<1>4. \E x \in S : \A y \in S : x <= y
  BY <1>1, <1>2, <1>3, Zenon
<1> QED
  BY <1>4, Zenon DEF Min

\* A set of integers with a bound, not empty, has a greatest element.
LEMMA Greatest ==
  ASSUME NEW a \in Int, NEW b \in Int, NEW S, S \subseteq a .. b, S # {}
  PROVE  Max(S) \in S /\ \A y \in S : Max(S) >= y
<1> DEFINE D == {b - x : x \in S}
<1>1. D \subseteq Nat /\ D # {}
  <2>1. \A x \in S : b - x \in Nat
    OBVIOUS
  <2>2. \E x \in S : b - x \in D
    BY Zenon
  <2> QED
    BY <2>1, <2>2, Zenon
<1>2. Min(D) \in D /\ \A y \in D : Min(D) <= y
  BY <1>1, Least, Zenon
<1>3. PICK x \in S : Min(D) = b - x
  BY <1>2, Zenon
<1>4. ASSUME NEW y \in S PROVE x >= y
  <2>1. b - y \in D /\ y \in Int /\ x \in Int
    BY <1>4
  <2>2. b - x <= b - y
    BY <1>2, <1>3, <2>1, Zenon
  <2> QED
    BY <2>1, <2>2
<1> QED
  BY <1>3, <1>4, Zenon DEF Max


\* What FoldLeft evaluates: op applied from the left, element by element.
Folded(f, n, base, op, seq) ==
  f = [s \in SUBSET (1 .. n) |-> IF s = {} THEN base ELSE op[f[s \ {Max(s)}], seq[Max(s)]]]

LEMMA MaxOfTop ==
  ASSUME NEW k \in Nat, NEW s \in SUBSET (1 .. k + 1), k + 1 \in s
  PROVE  Max(s) = k + 1 /\ s \ {k + 1} \in SUBSET (1 .. k)
<1>1. 1 \in Int /\ k + 1 \in Int /\ s \subseteq 1 .. k + 1 /\ s # {} OBVIOUS
<1>2. Max(s) \in s /\ \A y \in s : Max(s) >= y BY <1>1, Greatest, Zenon
<1>3. Max(s) \in 1 .. k + 1 /\ Max(s) >= k + 1 BY <1>2, Zenon
<1>4. Max(s) = k + 1 BY <1>3
<1>5. \A x \in s : x \in 1 .. k + 1 BY Zenon
<1>6. \A x \in s \ {k + 1} : x \in 1 .. k BY <1>5
<1> QED BY <1>4, <1>6, Zenon

LEMMA FoldExists ==
  ASSUME NEW A, NEW B, NEW op \in [A \X B -> A], NEW base \in A,
         NEW n \in Nat, NEW seq \in [1 .. n -> B]
  PROVE  \E f \in [SUBSET (1 .. n) -> A] : Folded(f, n, base, op, seq)
<1> DEFINE Bad == {k \in 0 .. n : ~\E f \in [SUBSET (1 .. k) -> A] : Folded(f, k, base, op, seq)}
<1>0. n \in 0 .. n OBVIOUS
<1> SUFFICES ASSUME Bad # {} PROVE FALSE
  BY <1>0, Zenon
<1> DEFINE k == Min(Bad)
<1>1. k \in 0 .. n /\ k \in Bad /\ \A y \in Bad : k <= y
  <2>1. Bad \subseteq Nat OBVIOUS
  <2>2. Min(Bad) \in Bad /\ \A y \in Bad : Min(Bad) <= y BY <2>1, Least, Zenon
  <2> QED BY <2>2, Zenon
<1> HIDE DEF k
<1>2. CASE k = 0
  <2> DEFINE f == [s \in SUBSET (1 .. 0) |-> base]
  <2>1. f \in [SUBSET (1 .. 0) -> A] BY Zenon
  <2>2. \A s \in SUBSET (1 .. 0) : s = {} OBVIOUS
  <2>3. f = [s \in SUBSET (1 .. 0) |-> IF s = {} THEN base ELSE op[f[s \ {Max(s)}], seq[Max(s)]]]
    BY <2>2, Zenon
  <2> HIDE DEF f
  <2>4. Folded(f, 0, base, op, seq) BY <2>3, Zenon DEF Folded
  <2> QED BY <1>1, <1>2, <2>1, <2>4, Zenon
<1>3. CASE k # 0
  <2> DEFINE j == k - 1
  <2>1. j \in Nat /\ j + 1 = k /\ j \in 0 .. n /\ j < k BY <1>1, <1>3
  <2> HIDE DEF j
  <2>2. PICK g \in [SUBSET (1 .. j) -> A] : Folded(g, j, base, op, seq)
    <3> HIDE DEF Bad
    <3>1. j \notin Bad BY <1>1, <2>1
    <3> USE DEF Bad
    <3> QED BY <2>1, <3>1, Zenon
  <2> DEFINE f == [s \in SUBSET (1 .. k) |-> IF k \in s THEN op[g[s \ {k}], seq[k]] ELSE g[s]]
  <2>3. \A s \in SUBSET (1 .. k) : k \notin s => s \in SUBSET (1 .. j) BY <2>1
  <2>4. \A s \in SUBSET (1 .. k) : k \in s => Max(s) = k /\ s \ {k} \in SUBSET (1 .. j)
    BY <2>1, MaxOfTop, Zenon
  <2>5. seq[k] \in B BY <1>1, <1>3
  <2>6. f \in [SUBSET (1 .. k) -> A]
    <3> SUFFICES ASSUME NEW s \in SUBSET (1 .. k) PROVE f[s] \in A
      BY Zenon
    <3>1. CASE k \in s
      <4>1. g[s \ {k}] \in A BY <2>4, <3>1, Zenon
      <4> QED BY <2>5, <3>1, <4>1, Zenon
    <3>2. CASE k \notin s BY <2>3, <3>2, Zenon
    <3> QED BY <3>1, <3>2, Zenon
  <2>7. ASSUME NEW s \in SUBSET (1 .. k)
        PROVE  f[s] = IF s = {} THEN base ELSE op[f[s \ {Max(s)}], seq[Max(s)]]
    <3>1. CASE k \in s
      <4>1. Max(s) = k /\ s \ {k} \in SUBSET (1 .. j) BY <2>4, <3>1, Zenon
      <4>2. f[s \ {k}] = g[s \ {k}] /\ s # {} BY <3>1, Zenon
      <4>3. f[s] = op[g[s \ {k}], seq[k]] BY <3>1, Zenon
      <4> HIDE DEF f
      <4> QED BY <4>1, <4>2, <4>3, Zenon
    <3>2. CASE k \notin s /\ s = {}
      <4>1. g[{}] = base BY <2>2, Zenon DEF Folded
      <4> QED BY <3>2, <4>1, Zenon
    <3>3. CASE k \notin s /\ s # {}
      <4>1. s \in SUBSET (1 .. j) BY <2>3, <3>3, Zenon
      <4>2. g[s] = op[g[s \ {Max(s)}], seq[Max(s)]] BY <2>2, <3>3, <4>1, Zenon DEF Folded
      <4>3. f[s] = g[s] BY <3>3, Zenon
      <4>4. f[s \ {Max(s)}] = g[s \ {Max(s)}] BY <3>3, Zenon
      <4> HIDE DEF f
      <4> QED BY <3>3, <4>2, <4>3, <4>4, Zenon
    <3> QED BY <3>1, <3>2, <3>3, Zenon
  <2> HIDE DEF f
  <2>8. Folded(f, k, base, op, seq) BY <2>6, <2>7, Zenon DEF Folded
  <2> QED BY <1>1, <2>6, <2>8, Zenon
<1> QED BY <1>2, <1>3, Zenon

\* The sets a fold goes through.
LEMMA Segments ==
  ASSUME NEW n \in Nat, NEW k \in 1 .. n
  PROVE  /\ 1 .. k \in SUBSET (1 .. n) /\ 1 .. k # {} /\ 1 .. (k - 1) \in SUBSET (1 .. n)
         /\ Max(1 .. k) = k /\ (1 .. k) \ {k} = 1 .. (k - 1)
<1>1. k - 1 \in Nat /\ (k - 1) + 1 = k /\ k \in 1 .. k OBVIOUS
<1>2. Max(1 .. k) = k
  <2>1. 1 .. k \in SUBSET (1 .. (k - 1) + 1) /\ (k - 1) + 1 \in 1 .. k BY <1>1, Zenon
  <2>2. Max(1 .. k) = (k - 1) + 1 BY <1>1, <2>1, MaxOfTop, Zenon
  <2> QED BY <1>1, <2>2, Zenon
<1>3. 1 .. k \in SUBSET (1 .. n) /\ 1 .. (k - 1) \in SUBSET (1 .. n) OBVIOUS
<1>4. (1 .. k) \ {k} = 1 .. (k - 1) OBVIOUS
<1> QED BY <1>1, <1>2, <1>3, <1>4, Zenon

-----------------------------------------------------------------------------
(* Relays: RelaysOffered for every finite set of relays and every width of  *)
(* an int.                                                                  *)

\* The sequence s holds each relay of the set S once and, when sorted, by the
\* latency l.
OnceEach(s, S, sorted, l) ==
  /\ s \in Seq(Relay) /\ IsInjective(s) /\ ToSet(s) = S
  /\ sorted => \A i, j \in DOMAIN s : i < j => l[s[i]] <= l[s[j]]

\* What was handed out and what is left are one such sequence.
relayInv ==
  /\ connected \subseteq Relay /\ latency \in [Relay -> 0 .. MaxLatency]
  /\ round \in Seq(Relay) /\ lastAddrInfos \in Seq(Relay)
  /\ OnceEach(round \o lastAddrInfos, asked.usable, asked.sorted, asked.latency)
  /\ asked.usable # {} => round # <<>>

\* getAllCandidates has every usable relay once, and SortFunc puts them in
\* order when the comparison is one.
LEMMA CandidatesOnce ==
  ASSUME relayInv, NEW infos \in Orders(Usable)
  PROVE  OnceEach(infos, Usable, hostSet /\ Fits(Usable), latency)
<1>1. Usable \subseteq Relay /\ IsFiniteSet(Usable)
  <2>1. Usable \subseteq Relay BY Zenon DEF Usable, relayInv
  <2> QED BY <2>1, FS_Subset, RelayAssumption, Zenon
<1>2. Cardinality(Usable) \in Nat BY <1>1, FS_CardinalityType, Zenon
<1> DEFINE n == Cardinality(Usable)
<1>3. infos \in [1 .. n -> Usable] /\ \A i, j \in 1 .. n : i # j => infos[i] # infos[j]
  BY Zenon DEF Orders, SetToSeqs
<1>4. IsFiniteSet(1 .. n) /\ Cardinality(1 .. n) = n BY <1>2, FS_Interval, SMTT(30)
<1>5. infos \in Injection(1 .. n, Usable) BY <1>3, Zenon DEF Injection, IsInjective
<1>6. infos \in Surjection(1 .. n, Usable) BY <1>1, <1>4, <1>5, FS_Injection, Zenon
<1>7. ToSet(infos) = Usable BY <1>3, <1>6, SMTT(30) DEF Surjection, ToSet
<1>8. infos \in Seq(Relay) BY <1>1, <1>2, <1>3, SMTT(30)
<1>9. IsInjective(infos) BY <1>3, Zenon DEF IsInjective
<1>10. ASSUME hostSet, Fits(Usable), NEW i \in DOMAIN infos, NEW j \in DOMAIN infos, i < j
       PROVE  latency[infos[i]] <= latency[infos[j]]
  <2>1. toInt(latency[infos[i]] - latency[infos[j]]) <= 0 BY <1>10, Zenon DEF Orders
  <2>2. infos[i] \in Usable /\ infos[j] \in Usable BY <1>3, Zenon
  <2>3. latency[infos[i]] - latency[infos[j]] <= 0 BY <1>10, <2>1, <2>2, Zenon DEF Fits
  <2>4. latency[infos[i]] \in Nat /\ latency[infos[j]] \in Nat
    BY <1>1, <2>2, RelayAssumption, SMTT(30) DEF relayInv
  <2> QED BY <2>3, <2>4, SMTT(30)
<1> QED BY <1>7, <1>8, <1>9, <1>10, Zenon DEF OnceEach

\* A call hands out at least one relay of a list that has any, and nothing of it
\* is lost.
LEMMA ServeSplits ==
  ASSUME NEW infos \in Seq(Relay), NEW num \in Nat \ {0}, relayInv, Serve(infos, num)
  PROVE  /\ round' \in Seq(Relay) /\ lastAddrInfos' \in Seq(Relay)
         /\ round' \o lastAddrInfos' = IF lastAddrInfos = <<>> THEN infos ELSE round \o infos
         /\ infos # <<>> => round' # <<>>
<1> DEFINE n == Min({num, Len(infos)})
           front == SubSeq(infos, 1, n)
           rest == SubSeq(infos, n + 1, Len(infos))
<1>1. Len(infos) \in Nat OBVIOUS
<1>2. n \in 0 .. Len(infos) /\ (Len(infos) # 0 => n # 0)
  <2>1. \E x \in {num, Len(infos)} : \A y \in {num, Len(infos)} : x =< y
    BY <1>1, SMTT(30)
  <2>2. n \in {num, Len(infos)} /\ \A y \in {num, Len(infos)} : n =< y
    BY <2>1, Zenon DEF Min
  <2> HIDE DEF n
  <2> QED BY <1>1, <2>2
<1>3. /\ lastAddrInfos' = rest
      /\ round' = IF lastAddrInfos = <<>> THEN front ELSE round \o front
  BY Zenon DEF Serve
<1> HIDE DEF n
<1>4. front \in Seq(Relay) /\ rest \in Seq(Relay) /\ Len(front) = n
  BY <1>1, <1>2, SMTT(30)
<1>5. front \o rest = infos
  <2>1. SubSeq(infos, 1, n) \o SubSeq(infos, n + 1, Len(infos)) = SubSeq(infos, 1, Len(infos))
    <3>1. 1 \in 1 .. Len(infos) + 1 /\ n \in 1 - 1 .. Len(infos) /\ Len(infos) \in n .. Len(infos)
      BY <1>1, <1>2, SMTT(30)
    <3> QED BY <3>1, ConcatAdjacentSubSeq, Zenon
  <2> QED BY <2>1, SubSeqFull, Zenon
<1>6. round \in Seq(Relay) BY Zenon DEF relayInv
<1>7. infos # <<>> => Len(infos) # 0 BY EmptySeq, Zenon
<1> HIDE DEF front, rest
<1>8. infos # <<>> => front # <<>>
  <2>1. infos # <<>> => Len(front) # 0 BY <1>2, <1>4, <1>7, ZenonT(60)
  <2>2. Len(<<>>) = 0 BY Zenon
  <2> QED BY <2>1, <2>2, ZenonT(60)
<1>9. CASE lastAddrInfos = <<>> BY <1>3, <1>4, <1>5, <1>8, <1>9, Zenon
<1>10. CASE lastAddrInfos # <<>>
  <2>1. (round \o front) \o rest = round \o infos
    <3>1. \A s, t, u \in Seq(Relay) : (s \o t) \o u = s \o (t \o u)
      BY ConcatAssociative, SMTT(60)
    <3>2. (round \o front) \o rest = round \o (front \o rest)
      BY <1>4, <1>6, <3>1, Zenon
    <3> QED BY <1>5, <3>2, Zenon
  <2>2. round \o front \in Seq(Relay) BY <1>4, <1>6, SMTT(30)
  <2>3. infos # <<>> => round \o front # <<>> BY <1>4, <1>6, <1>8, ConcatEqualIffEmpty, SMTT(30)
  <2> QED BY <1>3, <1>4, <1>10, <2>1, <2>2, <2>3, ZenonT(60)
<1> QED BY <1>9, <1>10, Zenon

LEMMA relayStepKeeps == relayInv /\ [relayNext]_relayVars => relayInv'
<1> SUFFICES ASSUME relayInv, [relayNext]_relayVars PROVE relayInv'
  BY Zenon
<1>1. CASE HostStarted BY <1>1, Zenon DEF HostStarted, relayInv, OnceEach
<1>2. ASSUME NEW r \in Relay, Connected(r) \/ Disconnected(r) PROVE relayInv'
  BY <1>2, Zenon DEF Connected, Disconnected, relayInv, OnceEach
<1>3. ASSUME NEW r \in Relay, pingPeer(r) PROVE relayInv'
  <2>1. PICK l \in 1 .. MaxLatency : latency' = [latency EXCEPT ![r] = l] BY <1>3, Zenon DEF pingPeer
  <2>2. latency' \in [Relay -> 0 .. MaxLatency] BY <2>1, RelayAssumption DEF relayInv
  <2> QED BY <1>3, <2>2, Zenon DEF pingPeer, relayInv, OnceEach
<1>4. ASSUME NEW num \in 1 .. Cardinality(Relay), getAutoRelayPeerSource(num) PROVE relayInv'
  <2>1. num \in Nat \ {0} BY <1>4, RelayAssumption, FS_CardinalityType, SMTT(30)
  <2>2. CASE lastAddrInfos = <<>>
    <3>1. PICK infos \in Orders(Usable) : Serve(infos, num)
      BY <1>4, <2>2, Zenon DEF getAutoRelayPeerSource
    <3>2. /\ asked' = [latency |-> latency, usable |-> Usable, sorted |-> hostSet /\ Fits(Usable)]
          /\ UNCHANGED <<hostSet, connected, latency>>
      BY <1>4, <2>2, Zenon DEF getAutoRelayPeerSource
    <3>3. OnceEach(infos, Usable, hostSet /\ Fits(Usable), latency) BY CandidatesOnce, Zenon
    <3>4. infos \in Seq(Relay) /\ ToSet(infos) = Usable BY <3>3, Zenon DEF OnceEach
    <3>5. /\ round' \in Seq(Relay) /\ lastAddrInfos' \in Seq(Relay)
          /\ round' \o lastAddrInfos' = infos /\ (infos # <<>> => round' # <<>>)
      BY <2>1, <2>2, <3>1, <3>4, ServeSplits, Zenon
    <3>6. asked'.usable = Usable /\ asked'.latency = latency /\ asked'.sorted = (hostSet /\ Fits(Usable))
      BY <3>2, Zenon
    <3>7. OnceEach(round' \o lastAddrInfos', asked'.usable, asked'.sorted, asked'.latency)
      BY <3>3, <3>5, <3>6, Zenon
    <3>8. asked'.usable # {} => round' # <<>>
      <4>1. Usable # {} => infos # <<>> BY <3>4, SMTT(30) DEF ToSet
      <4> QED BY <3>5, <3>6, <4>1, Zenon
    <3> QED BY <3>2, <3>5, <3>7, <3>8, Zenon DEF relayInv, OnceEach
  <2>3. CASE lastAddrInfos # <<>>
    <3>1. Serve(lastAddrInfos, num) /\ UNCHANGED <<asked, hostSet, connected, latency>>
      BY <1>4, <2>3, Zenon DEF getAutoRelayPeerSource
    <3>2. lastAddrInfos \in Seq(Relay) BY Zenon DEF relayInv
    <3>3. /\ round' \in Seq(Relay) /\ lastAddrInfos' \in Seq(Relay)
          /\ round' \o lastAddrInfos' = round \o lastAddrInfos /\ round' # <<>>
      BY <2>1, <2>3, <3>1, <3>2, ServeSplits, Zenon
    <3>4. OnceEach(round' \o lastAddrInfos', asked'.usable, asked'.sorted, asked'.latency)
      BY <3>1, <3>3, Zenon DEF relayInv
    <3> QED BY <3>1, <3>3, <3>4, Zenon DEF relayInv, OnceEach
  <2> QED BY <2>2, <2>3, Zenon
<1>5. CASE UNCHANGED relayVars BY <1>5, Zenon DEF relayVars, relayInv, OnceEach
<1> QED BY <1>1, <1>2, <1>3, <1>4, <1>5, Zenon DEF relayNext

LEMMA relayInitKeeps == relayInit => relayInv
<1> SUFFICES ASSUME relayInit PROVE relayInv BY Zenon
<1>1. /\ connected = {} /\ latency = [r \in Relay |-> 0] /\ lastAddrInfos = <<>> /\ round = <<>>
      /\ asked.usable = {} /\ asked.sorted = FALSE
  BY Zenon DEF relayInit
<1>2. latency \in [Relay -> 0 .. MaxLatency] BY <1>1, RelayAssumption
<1>3. <<>> \in Seq(Relay) /\ <<>> \o <<>> = <<>> /\ DOMAIN <<>> = {} OBVIOUS
<1>4. IsInjective(<<>>) /\ ToSet(<<>>) = {} BY <1>3, Zenon DEF IsInjective, ToSet
<1>5. OnceEach(round \o lastAddrInfos, asked.usable, asked.sorted, asked.latency)
  BY <1>1, <1>3, <1>4, Zenon DEF OnceEach
<1> QED BY <1>1, <1>2, <1>3, <1>5, Zenon DEF relayInv

\* Every relay that was usable is handed out once before the source starts
\* again, nearest first, whatever the pings and connections do meanwhile.
THEOREM RelaysOfferedOnce == relaySpec => []RelaysOffered
<1>1. relayInv => RelaysOffered
  <2> SUFFICES ASSUME relayInv PROVE RelaysOffered BY Zenon
  <2> DEFINE s == round \o lastAddrInfos
  <2>1. round \in Seq(Relay) /\ lastAddrInfos \in Seq(Relay) BY Zenon DEF relayInv
  <2>2. /\ IsInjective(s) /\ ToSet(s) = asked.usable /\ (asked.usable # {} => round # <<>>)
        /\ asked.sorted => \A i, j \in DOMAIN s : i < j => asked.latency[s[i]] <= asked.latency[s[j]]
    BY Zenon DEF relayInv, OnceEach
  <2>3. \A i \in DOMAIN round : i \in DOMAIN s /\ s[i] = round[i] BY <2>1
  <2> HIDE DEF s
  <2>4. asked.sorted => \A i, j \in DOMAIN round :
                          i < j => asked.latency[round[i]] <= asked.latency[round[j]]
    BY <2>2, <2>3, Zenon
  <2> QED BY <2>2, <2>4, Zenon DEF RelaysOffered, s
<1> QED BY <1>1, relayInitKeeps, relayStepKeeps, PTL DEF relaySpec

Closer(best, r) ==
  IF r # Direct /\ latency[r] # 0 /\ (best = Direct \/ latency[r] < latency[best]) THEN r ELSE best

Ranked(f, addrs) ==
  f = [s \in SUBSET DOMAIN addrs |-> IF s = {} THEN Direct
                                     ELSE LET x == Max(s) IN Closer(f[s \ {x}], addrs[x])]

\* The fold of closestRelay.
LEMMA RankedUnfolds ==
  ASSUME NEW addrs
  PROVE  closestRelay(addrs) = (CHOOSE f : Ranked(f, addrs))[DOMAIN addrs]
BY Zenon DEF closestRelay, FoldLeft, MapThenFoldSet, Ranked, Closer

\* The loop of getDialRanker has, after k addresses, a relay of the least
\* latency known among them, and none if it is known of none of them.
LEMMA RankedSteps ==
  ASSUME latency \in [Relay -> Nat], NEW addrs \in Seq(Relay \cup {Direct})
  PROVE  \E g : /\ g[0] = Direct /\ closestRelay(addrs) = g[Len(addrs)]
                /\ \A k \in 1 .. Len(addrs) : g[k] = Closer(g[k - 1], addrs[k])
<1> DEFINE n == Len(addrs)
           A == Relay \cup {Direct}
           op == [p \in A \X A |-> Closer(p[1], p[2])]
<1>1. n \in Nat /\ DOMAIN addrs = 1 .. n /\ addrs \in [1 .. n -> A] OBVIOUS
<1>2. op \in [A \X A -> A] BY Zenon DEF Closer
<1>3. \A a, b \in A : op[a, b] = Closer(a, b) BY Zenon
<1> HIDE DEF n, op
<1>4. PICK h \in [SUBSET (1 .. n) -> A] : Folded(h, n, Direct, op, addrs)
  <2>1. Direct \in A BY Zenon
  <2> QED BY <1>1, <1>2, <2>1, FoldExists, Zenon
<1>5. Ranked(h, addrs)
  <2>1. ASSUME NEW s \in SUBSET (1 .. n)
        PROVE  h[s] = IF s = {} THEN Direct ELSE LET x == Max(s) IN Closer(h[s \ {x}], addrs[x])
    <3>1. CASE s = {} BY <1>4, <3>1, Zenon DEF Folded
    <3>2. CASE s # {}
      <4>1. h[s] = op[h[s \ {Max(s)}], addrs[Max(s)]] BY <1>4, <3>2, Zenon DEF Folded
      <4>2. h[s \ {Max(s)}] \in A BY Zenon
      <4>3. Max(s) \in s
        <5>1. 1 \in Int /\ n \in Int BY <1>1
        <5> QED BY <3>2, <5>1, Greatest, Zenon
      <4>4. addrs[Max(s)] \in A BY <1>1, <4>3, Zenon
      <4> QED BY <1>3, <3>2, <4>1, <4>2, <4>4, Zenon
    <3> QED BY <3>1, <3>2, Zenon
  <2> QED BY <1>1, <2>1, Zenon DEF Ranked
<1> DEFINE f == CHOOSE f : Ranked(f, addrs)
<1>6. Ranked(f, addrs) BY <1>5, Zenon
<1>7. closestRelay(addrs) = f[1 .. n] BY <1>1, RankedUnfolds, Zenon
<1> HIDE DEF f
<1> DEFINE g == [k \in 0 .. n |-> f[1 .. k]]
<1>8. g[0] = Direct
  <2>1. 1 .. 0 = {} /\ {} \in SUBSET (1 .. n) /\ 0 \in 0 .. n BY <1>1
  <2>2. f[{}] = Direct BY <1>1, <1>6, <2>1, Zenon DEF Ranked
  <2> QED BY <2>1, <2>2, Zenon
<1>9. g[n] = f[1 .. n] BY <1>1
<1>10. ASSUME NEW k \in 1 .. n PROVE g[k] = Closer(g[k - 1], addrs[k])
  <2>1. /\ 1 .. k \in SUBSET (1 .. n) /\ 1 .. k # {}
        /\ Max(1 .. k) = k /\ (1 .. k) \ {k} = 1 .. (k - 1)
    BY <1>1, Segments, Zenon
  <2>2. f[1 .. k] = Closer(f[(1 .. k) \ {Max(1 .. k)}], addrs[Max(1 .. k)])
    BY <1>1, <1>6, <2>1, Zenon DEF Ranked
  <2>3. f[1 .. k] = Closer(f[1 .. (k - 1)], addrs[k]) BY <2>1, <2>2, Zenon
  <2>4. g[k] = f[1 .. k] /\ g[k - 1] = f[1 .. (k - 1)] BY <1>1
  <2> QED BY <2>3, <2>4, Zenon
<1> HIDE DEF g
<1> QED BY <1>7, <1>8, <1>9, <1>10, Zenon DEF n

\* The addresses among the first k that are a relay of known latency.
Measured(addrs, k) == {i \in 1 .. k : addrs[i] # Direct /\ latency[addrs[i]] # 0}

\* best is what the loop should have after k addresses.
Nearest(addrs, k, best) ==
  \/ Measured(addrs, k) = {} /\ best = Direct
  \/ \E i \in Measured(addrs, k) :
       best = addrs[i] /\ \A j \in Measured(addrs, k) : latency[addrs[i]] <= latency[addrs[j]]

LEMMA CloserIsNearest ==
  ASSUME latency \in [Relay -> Nat], NEW addrs \in Seq(Relay \cup {Direct}),
         NEW k \in 1 .. Len(addrs), NEW best, Nearest(addrs, k - 1, best)
  PROVE  Nearest(addrs, k, Closer(best, addrs[k]))
<1> DEFINE r == addrs[k]
           M == Measured(addrs, k - 1)
           known == r # Direct /\ latency[r] # 0
<1>1. Measured(addrs, k) = IF known THEN M \cup {k} ELSE M
  BY DEF Measured
<1>2. \A i \in Measured(addrs, k) : addrs[i] # Direct /\ latency[addrs[i]] \in Nat
  BY DEF Measured
<1>3. M \subseteq Measured(addrs, k) BY <1>1, Zenon
<1> HIDE DEF M
<1>4. CASE ~known
  <2>1. Closer(best, r) = best /\ Measured(addrs, k) = M BY <1>1, <1>4, Zenon DEF Closer
  <2> QED BY <2>1, Zenon DEF Nearest, M
<1>5. CASE known /\ M = {}
  <2>1. best = Direct BY <1>5, Zenon DEF Nearest, M
  <2>2. Closer(best, r) = r /\ Measured(addrs, k) = {k} BY <1>1, <1>5, <2>1, Zenon DEF Closer
  <2>3. latency[addrs[k]] <= latency[addrs[k]] BY <1>2, <2>2
  <2> QED BY <2>2, <2>3, Zenon DEF Nearest
<1>6. CASE known /\ M # {}
  <2>1. PICK i \in M : best = addrs[i] /\ \A j \in M : latency[addrs[i]] <= latency[addrs[j]]
    BY <1>6, Zenon DEF Nearest, M
  <2>2. Measured(addrs, k) = M \cup {k} BY <1>1, <1>6, Zenon
  <2>3. best # Direct /\ i \in Measured(addrs, k) /\ k \in Measured(addrs, k) BY <1>2, <2>1, <2>2, Zenon
  <2>4. /\ latency[addrs[i]] \in Nat /\ latency[addrs[k]] \in Nat
        /\ \A j \in M : latency[addrs[j]] \in Nat
    BY <1>2, <1>3, <2>3, Zenon
  <2>5. CASE latency[r] < latency[best]
    <3>1. Closer(best, r) = addrs[k] BY <1>6, <2>5, Zenon DEF Closer
    <3>2. \A j \in Measured(addrs, k) : latency[addrs[k]] <= latency[addrs[j]]
      BY <2>1, <2>2, <2>4, <2>5, SMTT(30)
    <3> QED BY <2>3, <3>1, <3>2, Zenon DEF Nearest
  <2>6. CASE ~(latency[r] < latency[best])
    <3>1. Closer(best, r) = addrs[i] BY <2>1, <2>3, <2>6, Zenon DEF Closer
    <3>2. \A j \in Measured(addrs, k) : latency[addrs[i]] <= latency[addrs[j]]
      BY <2>1, <2>2, <2>4, <2>6, SMTT(30)
    <3> QED BY <2>3, <3>1, <3>2, Zenon DEF Nearest
  <2> QED BY <2>5, <2>6, Zenon
<1> QED BY <1>4, <1>5, <1>6, Zenon

\* What closestRelay returns.
LEMMA ClosestIsNearest ==
  ASSUME latency \in [Relay -> Nat], NEW addrs \in Seq(Relay \cup {Direct})
  PROVE  Nearest(addrs, Len(addrs), closestRelay(addrs))
<1> DEFINE n == Len(addrs)
<1>1. n \in Nat OBVIOUS
<1>2. PICK g : /\ g[0] = Direct /\ closestRelay(addrs) = g[n]
               /\ \A k \in 1 .. n : g[k] = Closer(g[k - 1], addrs[k])
  BY RankedSteps, Zenon
<1> DEFINE Bad == {k \in 0 .. n : ~Nearest(addrs, k, g[k])}
<1>3. Bad = {}
  <2> SUFFICES ASSUME Bad # {} PROVE FALSE
    BY Zenon
  <2> DEFINE k == Min(Bad)
  <2>1. Bad \subseteq Nat BY <1>1
  <2>2. k \in Bad /\ \A y \in Bad : k <= y BY <2>1, Least, Zenon
  <2> HIDE DEF k
  <2>3. k \in 0 .. n /\ ~Nearest(addrs, k, g[k]) BY <2>2, Zenon
  <2>4. CASE k = 0
    <3>1. Measured(addrs, 0) = {} BY DEF Measured
    <3> QED BY <1>2, <2>3, <2>4, <3>1, Zenon DEF Nearest
  <2>5. CASE k # 0
    <3>1. k \in 1 .. n /\ k - 1 \in 0 .. n /\ ~(k <= k - 1) BY <1>1, <2>3, <2>5
    <3>2. k - 1 \notin Bad
      <4> HIDE DEF Bad
      <4> QED BY <2>2, <3>1, Zenon
    <3>3. Nearest(addrs, k - 1, g[k - 1]) BY <3>1, <3>2, Zenon
    <3>4. Nearest(addrs, k, Closer(g[k - 1], addrs[k])) BY <3>1, <3>3, CloserIsNearest, Zenon
    <3> QED BY <1>2, <2>3, <3>1, <3>4, Zenon
  <2> QED BY <2>4, <2>5, Zenon
<1>4. n \in 0 .. n BY <1>1, SMTT(30)
<1> QED BY <1>2, <1>3, <1>4, Zenon

\* Only relays that are not the closest measured one wait, for every list of
\* addresses getDialRanker is given and all latencies.
THEOREM ClosestIsNotDelayed == relaySpec => []ClosestNotDelayed
<1>1. relayInv => ClosestNotDelayed
  <2> SUFFICES ASSUME relayInv, NEW addrs \in BoundedSeq(Relay \cup {Direct}, MaxAddrs)
               PROVE  LET delay    == getDialRanker(addrs)
                          measured == {r \in ToSet(addrs) \ {Direct} : latency[r] # 0}
                          waiting  == {addrs[i] : i \in {i \in DOMAIN addrs : delay[i] > 0}}
                      IN  /\ Direct \notin waiting
                          /\ measured = {} => waiting = {}
                          /\ measured # {} => \E r \in measured \ waiting :
                               /\ \A q \in measured : latency[r] <= latency[q]
                               /\ waiting = ToSet(addrs) \ {Direct, r}
    BY Zenon DEF ClosestNotDelayed
  <2> DEFINE delay    == getDialRanker(addrs)
             measured == {r \in ToSet(addrs) \ {Direct} : latency[r] # 0}
             waiting  == {addrs[i] : i \in {i \in DOMAIN addrs : delay[i] > 0}}
             closest  == closestRelay(addrs)
             n        == Len(addrs)
  <2>1. latency \in [Relay -> Nat] BY RelayAssumption DEF relayInv
  <2>2. addrs \in Seq(Relay \cup {Direct})
    <3>1. PICK m \in 0 .. MaxAddrs : addrs \in [1 .. m -> Relay \cup {Direct}]
      BY Zenon DEF BoundedSeq, SeqOf
    <3> QED BY <3>1, RelayAssumption
  <2>3. Nearest(addrs, n, closest) BY <2>1, <2>2, ClosestIsNearest, Zenon
  <2>4. DOMAIN addrs = 1 .. n BY <2>2
  <2> HIDE DEF n, closest
  <2>5. \A i \in DOMAIN addrs : delay[i] > 0 <=> addrs[i] # Direct /\ closest # Direct /\ addrs[i] # closest
    BY DEF getDialRanker, closest
  <2> HIDE DEF delay
  <2>6. waiting = IF closest = Direct THEN {} ELSE ToSet(addrs) \ {Direct, closest}
    BY <2>5, Zenon DEF ToSet
  <2>7. measured = {addrs[i] : i \in Measured(addrs, n)}
    BY <2>4, Zenon DEF ToSet, Measured
  <2> HIDE DEF waiting, measured
  <2>8. CASE Measured(addrs, n) = {}
    <3>1. closest = Direct BY <2>3, <2>8, Zenon DEF Nearest
    <3> QED BY <2>6, <2>7, <2>8, <3>1, Zenon DEF waiting, measured, delay
  <2>9. CASE Measured(addrs, n) # {}
    <3>1. PICK i \in Measured(addrs, n) :
            closest = addrs[i] /\ \A j \in Measured(addrs, n) : latency[addrs[i]] <= latency[addrs[j]]
      BY <2>3, <2>9, Zenon DEF Nearest
    <3>2. closest # Direct /\ closest \in measured BY <2>7, <3>1, Zenon DEF Measured
    <3>3. \A q \in measured : latency[closest] <= latency[q] BY <2>7, <3>1, Zenon
    <3>4. waiting = ToSet(addrs) \ {Direct, closest} /\ closest \notin waiting BY <2>6, <3>2, Zenon
    <3>5. Direct \notin waiting /\ measured # {} BY <3>2, <3>4, Zenon
    <3> QED BY <3>2, <3>3, <3>4, <3>5, Zenon DEF waiting, measured, delay
  <2> QED BY <2>8, <2>9, Zenon
<1> QED BY <1>1, relayInitKeeps, relayStepKeeps, PTL DEF relaySpec
=============================================================================
