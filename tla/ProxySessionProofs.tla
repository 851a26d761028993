------------------------- MODULE ProxySessionProofs -------------------------
(* Proofs about ProxySession: for any number of messages and of changes of *)
(* settings, the two nodes together are one SOCKS5 proxy (they implement   *)
(* Conversation), and a reply reaches the program before the reset.        *)
EXTENDS ProxySession, SequenceTheorems, TLAPS

-----------------------------------------------------------------------------
(* The inductive invariant.                                                *)

Asks    == {"greeting", "request", "data"}
Methods == {"noauth", "noacceptable"}
Replies == {"ok", "failure", "denied", "unreachable"}
Answer  == Methods \cup Replies \cup {"answer"}

LocalPC  == {"pick", "peer", "connect", "auth", "copy", "failGreeting", "failRequest", "failed", "done"}
RemotePC == {"none", "peer", "enabled", "failGreeting", "failRequest", "greeting", "request", "dial",
             "relay", "sleep", "done"}

ConnType   == [app : {"greet", "method", "reply", "data", "closed"}, offers : BOOLEAN,
               sent : Seq(Asks), taken : Nat, got : Seq(Answer), read : Nat, hungUp : BOOLEAN]
LocalType  == [pc : LocalPC, copying : SUBSET BothCopies]
StreamType == [proto : {"none", "old", "noauth"}, up : Seq(Asks), down : Seq(Answer),
               upEnd : BOOLEAN, downEnd : BOOLEAN, reset : BOOLEAN]
RemoteType == [pc : RemotePC, copying : SUBSET BothCopies, reply : {"none", "denied", "unreachable", "ok"}]
DestType   == [st : {"none", "open", "closed"}, in : Nat, out : Nat, eof : BOOLEAN]

Typed ==
  /\ conn \in ConnType /\ local \in LocalType /\ stream \in StreamType
  /\ remote \in RemoteType /\ dest \in DestType

\* The messages, and how many of them are taken and read.
Sent  == conn.sent
Taken == conn.taken
Got   == conn.got
Read  == conn.read
Up    == stream.up
Down  == stream.down

\* What the program writes, message by message.
Kind(i) == IF i = 1 THEN "greeting" ELSE IF i = 2 THEN "request" ELSE "data"

\* The program is where its messages and the answers it has read say.
AppOK ==
  /\ \A i \in 1 .. Len(Sent) : Sent[i] = Kind(i)
  /\ Taken <= Len(Sent) /\ Read <= Len(Got)
  /\ conn.app = "greet"  => Len(Sent) = 0 /\ Read = 0
  /\ conn.app = "method" => Len(Sent) = 1 /\ Read = 0
  /\ conn.app = "reply"  => Len(Sent) = 2 /\ Read = 1
  /\ conn.app = "data"   => Len(Sent) >= 2 /\ Read >= 2 /\ Got[2] = "ok"

\* The stream holds the last of the messages that were taken, in their order;
\* the first Seen of them have been read by one of the nodes.
Seen == Taken - Len(Up)

WayUp ==
  /\ Len(Up) <= Taken
  /\ \A i \in 1 .. Len(Up) : Up[i] = Kind(Seen + i)

\* What the program has got and will get: one method, one reply, and then what
\* a destination answers, each only after what it answers was written.
Told == Got \o Down

Legal(s) ==
  /\ Len(s) >= 1 => s[1] \in Methods
  /\ Len(s) >= 2 => s[1] = "noauth" /\ s[2] \in Replies
  /\ Len(s) >= 3 => s[2] = "ok"
  /\ \A i \in 3 .. Len(s) : s[i] = "answer"

WayDown ==
  /\ Legal(Told)
  /\ Len(Told) >= 1 => Len(Sent) >= 1
  /\ Len(Told) >= 2 => Len(Sent) >= 2
  /\ Len(Told) >= 2 /\ Told[2] = "ok" => dest.st # "none"
  /\ Len(Sent) >= 2 => Len(Got) >= 1 /\ Got[1] = "noauth"
  /\ Len(Sent) >= 3 => Len(Got) >= 2 /\ Got[2] = "ok"

\* Where this node is. The connection is written to by proxyConn before the
\* copies start or by the copy, never by both, and not after it was closed.
LocalOK ==
  /\ local.copying # {} => local.pc = "copy"
  /\ local.pc # "done" /\ (local.pc = "copy" => "down" \in local.copying) => ~conn.hungUp
  /\ local.pc \in {"pick", "peer", "connect", "failRequest", "failed"} => remote.pc = "none"
  /\ local.pc \in {"auth", "copy"} => remote.pc # "none"
  /\ local.pc = "auth" => stream.proto = "noauth" /\ Taken = 0 /\ Len(Told) = 0
  /\ local.pc \in {"pick", "peer", "connect"} => Taken = 0 /\ Len(Told) = 0
  /\ local.pc = "copy" /\ stream.proto = "noauth" => Taken >= 1
  /\ local.pc = "failGreeting" =>
       IF remote.pc = "none" THEN Taken = 0 /\ Len(Told) = 0
       ELSE /\ stream.proto = "noauth" /\ stream.reset
            /\ \/ conn.app = "closed" /\ Taken = Len(Sent)
               \/ Taken = 1 /\ Len(Got) = 1 /\ Got[1] = "noacceptable"
  /\ local.pc = "failRequest" => Taken = 1 /\ Len(Told) = 1 /\ Got[1] = "noauth"

\* Where the exit node is.
RemoteOK ==
  /\ remote.pc = "none" => stream.proto = "none" /\ Up = <<>> /\ Down = <<>>
  /\ remote.pc # "none" => stream.proto # "none"
  /\ remote.copying # {} => remote.pc = "relay"
  /\ stream.proto = "noauth" => remote.pc \notin {"greeting", "failGreeting", "failRequest"}
  /\ remote.pc \in {"peer", "enabled", "greeting", "failGreeting"} /\ stream.proto = "old" =>
       Seen = 0 /\ Len(Told) = 0
  /\ remote.pc \in {"peer", "enabled", "request", "failRequest", "dial"} => Len(Told) <= 1
  /\ remote.pc = "failRequest" => Seen = 1 /\ (stream.reset \/ (Len(Told) = 1 /\ Told[1] = "noauth"))
  /\ remote.pc \in {"dial", "relay"} \/ remote.reply # "none" => Seen >= 2
  /\ remote.pc = "relay" => dest.st # "none" /\ (stream.reset \/ (Len(Told) >= 2 /\ Told[2] = "ok"))
  /\ remote.pc \in {"none", "peer", "enabled", "greeting", "failGreeting", "request", "failRequest", "dial"} =>
       dest.st = "none" /\ remote.reply = "none" /\ ~stream.downEnd
  /\ stream.downEnd => "down" \notin remote.copying

\* How the session ends: until the exit node is done, the stream is reset only
\* when the program has left or was refused, and the copies end only when it has
\* left or nothing more will come.
Refused == Len(Got) >= 1 /\ Got[1] = "noacceptable"

EndOK ==
  /\ stream.reset /\ remote.pc # "done" => conn.app = "closed" \/ Refused
  /\ local.pc = "copy" /\ "up" \notin local.copying => conn.app = "closed" \/ stream.reset
  /\ local.pc = "done" /\ remote.pc # "none" => conn.app = "closed" \/ stream.reset
  /\ local.pc = "copy" /\ "down" \notin local.copying /\ remote.pc # "done" =>
       conn.app = "closed" \/ stream.reset \/ stream.downEnd
  /\ remote.reply # "none" /\ conn.app # "closed" => Len(Told) >= 2 /\ Told[2] = remote.reply
  /\ remote.reply # "none" /\ conn.app # "closed" /\ (remote.pc = "done" \/ "down" \notin local.copying) =>
       Len(Got) >= 2

Inv == Typed /\ AppOK /\ WayUp /\ WayDown /\ LocalOK /\ RemoteOK /\ EndOK

-----------------------------------------------------------------------------
(* Sequences.                                                              *)

\* The answers got and the answers on their way, one after the other.
LEMMA Joined ==
  ASSUME NEW S, NEW g \in Seq(S), NEW d \in Seq(S)
  PROVE  /\ g \o d \in Seq(S)
         /\ Len(g \o d) = Len(g) + Len(d)
         /\ \A i \in 1 .. Len(g) : (g \o d)[i] = g[i]
         /\ \A i \in 1 .. Len(d) : (g \o d)[Len(g) + i] = d[i]
<1>1. Len(g) \in Nat /\ Len(d) \in Nat
  OBVIOUS
<1>2. \A i \in 1 .. Len(g) + Len(d) : (g \o d)[i] = IF i <= Len(g) THEN g[i] ELSE d[i - Len(g)]
  BY ConcatProperties, Zenon
<1> QED
  BY <1>1, <1>2, ConcatProperties

\* A step of CopyDown: neither the answers nor their order change.
LEMMA MovedDown ==
  ASSUME NEW S, NEW g \in Seq(S), NEW d \in Seq(S), d # <<>>
  PROVE  Append(g, Head(d)) \o Tail(d) = g \o d
<1>1. Head(d) \in S /\ Head(d) = d[1] /\ Tail(d) \in Seq(S) /\ <<Head(d)>> \in Seq(S) /\ Len(d) \in Nat \ {0}
  OBVIOUS
<1>2. SubSeq(d, 1, Len(d)) = <<d[1]>> \o SubSeq(d, 2, Len(d))
  BY <1>1, SubSeqRecursiveFirst, 1 + 1 = 2, 1 \in 1 .. Len(d), Len(d) \in 1 .. Len(d)
<1>3. d = <<Head(d)>> \o Tail(d)
  BY <1>1, <1>2, SubSeqFull, TailIsSubSeq, Zenon
<1>4. Append(g, Head(d)) = g \o <<Head(d)>>
  BY <1>1, AppendIsConcat, Zenon
<1>5. (g \o <<Head(d)>>) \o Tail(d) = g \o (<<Head(d)>> \o Tail(d))
  BY <1>1, ConcatAssociative, SMTT(30)
<1> QED
  BY <1>3, <1>4, <1>5, Zenon

\* One more answer on its way.
LEMMA MoreDown ==
  ASSUME NEW S, NEW g \in Seq(S), NEW d \in Seq(S), NEW m \in S
  PROVE  g \o Append(d, m) = Append(g \o d, m)
<1>1. <<m>> \in Seq(S) /\ g \o d \in Seq(S)
  BY ConcatProperties
<1>2. Append(d, m) = d \o <<m>> /\ Append(g \o d, m) = (g \o d) \o <<m>>
  BY <1>1, AppendIsConcat, Zenon
<1>3. (g \o d) \o <<m>> = g \o (d \o <<m>>)
  BY <1>1, ConcatAssociative, SMTT(30)
<1> QED
  BY <1>2, <1>3, Zenon

\* One more answer when nothing is on its way.
LEMMA AnsweredHere ==
  ASSUME NEW S, NEW g \in Seq(S), NEW m \in S
  PROVE  g \o <<>> = g /\ Append(g, m) \o <<>> = Append(g, m)
<1>1. Append(g, m) \in Seq(S)
  OBVIOUS
<1> QED
  BY <1>1, ConcatEmptySeq, Zenon

-----------------------------------------------------------------------------
(* The invariant is inductive: one lemma per actor.                        *)

\* What the program is told is what it got, followed by what is on its way.
LEMMA ToldAnswers ==
  ASSUME Typed
  PROVE  /\ Told \in Seq(Answer) /\ Len(Told) = Len(Got) + Len(Down)
         /\ \A i \in 1 .. Len(Got) : Told[i] = Got[i]
         /\ \A i \in 1 .. Len(Down) : Told[Len(Got) + i] = Down[i]
<1>1. Got \in Seq(Answer) /\ Down \in Seq(Answer)
  BY Zenon DEF Typed, ConnType, StreamType, Got, Down
<1>2. \A g, d \in Seq(Answer) :
        /\ g \o d \in Seq(Answer) /\ Len(g \o d) = Len(g) + Len(d)
        /\ \A i \in 1 .. Len(g) : (g \o d)[i] = g[i]
        /\ \A i \in 1 .. Len(d) : (g \o d)[Len(g) + i] = d[i]
  BY Joined
<1> QED
  BY <1>1, <1>2, Zenon DEF Told

\* What the messages are made of, and that there are finitely many.
LEMMA Lengths ==
  ASSUME Typed
  PROVE  /\ Sent \in Seq(Asks) /\ Got \in Seq(Answer) /\ Up \in Seq(Asks) /\ Down \in Seq(Answer) /\ Told \in Seq(Answer)
         /\ Len(Sent) \in Nat /\ Len(Got) \in Nat /\ Len(Up) \in Nat /\ Len(Down) \in Nat
         /\ Taken \in Nat /\ Read \in Nat
         /\ Len(Told) \in Nat /\ Len(Told) = Len(Got) + Len(Down)
<1>1. /\ Got \in Seq(Answer) /\ Down \in Seq(Answer) /\ Sent \in Seq(Asks) /\ Up \in Seq(Asks)
      /\ Taken \in Nat /\ Read \in Nat
  BY Zenon DEF Typed, ConnType, StreamType, Got, Down, Sent, Up, Taken, Read
<1>2. Told \in Seq(Answer) /\ Len(Told) = Len(Got) + Len(Down)
  BY ToldAnswers, Zenon
<1> QED
  BY <1>1, <1>2

\* The messages that are written are of the three kinds, methods, replies or answers.
LEMMA Messages ==
  /\ "greeting" \in Asks /\ "request" \in Asks /\ "data" \in Asks
  /\ Methods \subseteq Answer /\ Replies \subseteq Answer /\ "answer" \in Answer
BY Zenon DEF Asks, Methods, Replies, Answer

\* Before the program has written anything the invariant holds.
LEMMA InitInv == Init => Inv
<1> SUFFICES ASSUME Init PROVE Inv
  BY Zenon
<1>1. Typed
  BY DEF Init, Typed, ConnType, LocalType, StreamType, RemoteType, DestType, LocalPC, RemotePC
<1>2. Sent = <<>> /\ Got = <<>> /\ Up = <<>> /\ Down = <<>> /\ Taken = 0 /\ Read = 0
  BY Zenon DEF Init, Sent, Got, Up, Down, Taken, Read
<1>3. Len(Told) = 0 /\ Len(Sent) = 0 /\ Len(Up) = 0 /\ Len(Got) = 0
  BY <1>1, <1>2, Lengths
<1> QED
  BY <1>1, <1>2, <1>3 DEF Init, Inv, AppOK, WayUp, WayDown, LocalOK, RemoteOK, EndOK, Legal, Seen

\* The program writes, reads or leaves: the invariant is kept.
LEMMA AppStep ==
  ASSUME Inv, AppGreets \/ AppReads \/ AppSends \/ AppSeesEnd \/ AppLeaves
  PROVE  Inv'
<1> USE DEF Inv
<1>1. UNCHANGED <<local, stream, remote, dest>> /\ Up' = Up /\ Down' = Down
  BY Zenon DEF AppGreets, AppReads, AppSends, AppSeesEnd, AppLeaves, AppOnly, Up, Down
<1>2. ASSUME conn' \in ConnType, Got' = Got, Taken' = Taken, conn'.hungUp = conn.hungUp, AppOK', WayDown',
             conn.app = "closed" => conn'.app = "closed",
             Len(Sent') = Len(Sent) \/ conn'.app # "closed"
      PROVE  Inv'
  <2>1. Typed'
    BY <1>1, <1>2, Zenon DEF Typed
  <2>2. Told' = Told
    BY <1>1, <1>2, Zenon DEF Told
  <2>3. WayUp'
    BY <1>1, <1>2, Zenon DEF WayUp, Seen
  <2>4. LocalOK'
    BY <1>1, <1>2, <2>2, Zenon DEF LocalOK
  <2>5. RemoteOK'
    BY <1>1, <1>2, <2>2 DEF RemoteOK, Seen
  <2>6. EndOK'
    BY <1>1, <1>2, <2>2, Zenon DEF EndOK, Refused
  <2> QED
    BY <1>2, <2>1, <2>3, <2>4, <2>5, <2>6, Zenon
<1>3. CASE AppGreets
  <2>1. PICK o \in BOOLEAN : conn' = [conn EXCEPT !.app = "method", !.offers = o, !.sent = <<"greeting">>]
    BY <1>3, ZenonT(60) DEF AppGreets
  <2>2. conn.app = "greet"
    BY <1>3, Zenon DEF AppGreets
  <2>0. <<"greeting">> \in Seq(Asks)
    BY Messages
  <2>3. conn' \in ConnType
    BY <2>0, <2>1, Zenon DEF Typed, ConnType
  <2>4. /\ conn'.app = "method" /\ Sent' = <<"greeting">> /\ Taken' = Taken /\ Got' = Got
        /\ Read' = Read /\ conn'.hungUp = conn.hungUp
    BY <2>1, Zenon DEF Typed, ConnType, Sent, Taken, Got, Read
  <2>5. Len(Sent) = 0 /\ Read = 0 /\ Len(Sent') = 1 /\ Sent'[1] = "greeting" /\ Told' = Told
    BY <1>1, <2>2, <2>4, Zenon DEF AppOK, Told
  <2>6. AppOK'
    BY <2>4, <2>5, Lengths DEF AppOK, Kind
  <2>7. WayDown'
    BY <1>1, <2>4, <2>5, Lengths DEF WayDown, Legal
  <2> QED
    BY <1>2, <2>2, <2>3, <2>4, <2>6, <2>7, Zenon
<1>4. CASE AppLeaves \/ AppSeesEnd
  <2>1. conn' = [conn EXCEPT !.app = "closed"]
    BY <1>4, Zenon DEF AppLeaves, AppSeesEnd
  <2>2. conn' \in ConnType
    BY <2>1, Zenon DEF Typed, ConnType
  <2>3. conn'.app = "closed" /\ Sent' = Sent /\ Taken' = Taken /\ Got' = Got /\ Read' = Read /\ conn'.hungUp = conn.hungUp
    BY <2>1, Zenon DEF Typed, ConnType, Sent, Taken, Got, Read
  <2>4. AppOK'
    BY <2>3, Zenon DEF AppOK
  <2>5. WayDown'
    BY <1>1, <2>3, Zenon DEF WayDown, Told
  <2> QED
    BY <1>2, <2>2, <2>3, <2>4, <2>5, Zenon
<1>5. CASE AppSends
  <2>1. conn.app = "data" /\ conn' = [conn EXCEPT !.sent = Append(conn.sent, "data")]
    BY <1>5, Zenon DEF AppSends
  <2>2. conn' \in ConnType
    <3>1. Append(conn.sent, "data") \in Seq(Asks)
      BY Messages DEF Typed, ConnType
    <3> QED
      BY <2>1, <3>1, Zenon DEF Typed, ConnType
  <2>3. conn'.app = "data" /\ Sent' = Append(Sent, "data") /\ Taken' = Taken /\ Got' = Got /\ Read' = Read /\ conn'.hungUp = conn.hungUp
    BY <2>1, Zenon DEF Typed, ConnType, Sent, Taken, Got, Read
  <2>4. /\ Len(Sent') = Len(Sent) + 1 /\ \A i \in 1 .. Len(Sent) : Sent'[i] = Sent[i]
        /\ Sent'[Len(Sent) + 1] = "data" /\ Len(Sent) >= 2 /\ Told' = Told
    BY <1>1, <2>1, <2>3, Lengths, Messages DEF AppOK, Told
  <2>5. AppOK'
    BY <2>1, <2>3, <2>4, Lengths, SMTT(30) DEF AppOK, Kind
  <2>6. WayDown'
    BY <1>1, <2>1, <2>3, <2>4, Lengths, SMTT(30) DEF WayDown, AppOK, Legal
  <2> QED
    BY <1>2, <2>1, <2>2, <2>3, <2>5, <2>6, Zenon
<1>6. CASE AppReads
  <2> DEFINE m     == Got[Read + 1]
             asks  == conn.app = "method" /\ m = "noauth" /\ conn.offers
             app2  == IF asks THEN "reply"
                      ELSE IF conn.app = "data" \/ (conn.app = "reply" /\ m = "ok") THEN "data" ELSE "closed"
             sent2 == IF asks THEN Append(Sent, "request") ELSE Sent
  <2>1. conn.app # "closed" /\ Read < Len(Got)
    BY <1>6, Zenon DEF AppReads, Got, Read
  <2>2. sent2 \in Seq(Asks) /\ Read + 1 \in Nat /\ app2 \in {"reply", "data", "closed"}
    BY Lengths, Messages
  <2>3. conn' = [conn EXCEPT !.read = Read + 1, !.app = app2, !.sent = sent2]
    BY <1>6, Zenon DEF AppReads, Typed, ConnType, Got, Read, Sent
  <2> HIDE DEF app2, sent2
  <2>4. conn' \in ConnType
    BY <2>2, <2>3, Zenon DEF Typed, ConnType
  <2>5. conn'.app = app2 /\ Sent' = sent2 /\ Taken' = Taken /\ Got' = Got /\ Read' = Read + 1 /\ conn'.hungUp = conn.hungUp
    BY <2>3, Zenon DEF Typed, ConnType, Sent, Taken, Got, Read
  <2>6. Told' = Told
    BY <1>1, <2>5, Zenon DEF Told
  <2>7. CASE asks
    <3>1. /\ Len(Sent) = 1 /\ Read = 0 /\ sent2 = Append(Sent, "request") /\ app2 = "reply"
      BY <2>7, Zenon DEF AppOK, sent2, app2
    <3>2. Len(sent2) = 2 /\ sent2[1] = Sent[1] /\ sent2[2] = "request"
      <4>1. /\ Len(Append(Sent, "request")) = Len(Sent) + 1
            /\ \A i \in 1 .. Len(Sent) : Append(Sent, "request")[i] = Sent[i]
            /\ Append(Sent, "request")[Len(Sent) + 1] = "request"
        BY AppendProperties, Lengths, Messages
      <4> QED
        BY <3>1, <4>1
    <3>3. Len(Got) >= 1 /\ Got[1] = "noauth"
      BY <2>1, <2>7, <3>1, Lengths
    <3>4. AppOK'
      BY <2>5, <3>1, <3>2, <3>3, Lengths, SMTT(30) DEF AppOK, Kind
    <3>5. WayDown'
      BY <1>1, <2>5, <2>6, <3>1, <3>2, <3>3, Lengths, SMTT(30) DEF WayDown, Legal
    <3> QED
      BY <1>2, <2>1, <2>4, <2>5, <3>1, <3>4, <3>5, Zenon
  <2>8. CASE ~asks
    <3>1. sent2 = Sent /\ app2 \in {"data", "closed"}
      BY <2>8, Zenon DEF sent2, app2
    <3>2. app2 = "data" => Len(Sent) >= 2 /\ Read + 1 >= 2 /\ Got[2] = "ok"
      <4>1. CASE conn.app = "data"
        BY <4>1, Lengths, SMTT(30) DEF AppOK
      <4>2. CASE conn.app = "reply" /\ m = "ok"
        <5>1. Len(Sent) = 2 /\ Read = 1
          BY <4>2, Zenon DEF AppOK
        <5> QED
          BY <4>2, <5>1
      <4> QED
        BY <2>8, <4>1, <4>2, Zenon DEF app2
    <3>3. AppOK'
      BY <2>1, <2>5, <3>1, <3>2, Lengths, SMTT(30) DEF AppOK
    <3>4. WayDown'
      BY <1>1, <2>5, <2>6, <3>1, Zenon DEF WayDown
    <3> QED
      BY <1>2, <2>1, <2>4, <2>5, <3>1, <3>3, <3>4, Zenon
  <2> QED
    BY <2>7, <2>8, Zenon
<1> QED
  BY <1>3, <1>4, <1>5, <1>6, Zenon

\* A step that moves no message keeps what is said about the messages.
LEMMA SameMessages ==
  ASSUME Inv, Sent' = Sent, Taken' = Taken, Got' = Got, Read' = Read, Up' = Up, Down' = Down,
         conn'.app = conn.app, dest.st # "none" => dest'.st # "none"
  PROVE  Told' = Told /\ Seen' = Seen /\ AppOK' /\ WayUp' /\ WayDown'
<1>1. Told' = Told /\ Seen' = Seen
  BY Zenon DEF Told, Seen
<1>2. AppOK'
  BY Zenon DEF AppOK, Inv
<1>3. WayUp'
  BY <1>1, Zenon DEF WayUp, Inv
<1>4. WayDown'
  BY <1>1, Zenon DEF WayDown, Inv, Legal
<1> QED
  BY <1>1, <1>2, <1>3, <1>4, Zenon

\* proxyConn up to the stream keeps the invariant.
LEMMA ConnectStep ==
  ASSUME Inv, proxyConnPick \/ proxyConnPeer \/ proxyConnFails \/ proxyConnStream
  PROVE  Inv'
<1> USE DEF Inv
<1>1. UNCHANGED <<conn, dest>> /\ Sent' = Sent /\ Taken' = Taken /\ Got' = Got /\ Read' = Read
  BY Zenon DEF proxyConnPick, proxyConnPeer, proxyConnFails, proxyConnStream, Sent, Taken, Got, Read
<1>2. /\ local.pc \in {"pick", "peer", "connect"} /\ remote.pc = "none" /\ local.copying = {} /\ Taken = 0 /\ Len(Told) = 0
      /\ ~conn.hungUp
  BY Zenon DEF proxyConnPick, proxyConnPeer, proxyConnFails, proxyConnStream, LocalOK
<1>3. CASE proxyConnPick \/ proxyConnPeer \/ proxyConnFails
  <2>1. UNCHANGED <<stream, remote>> /\ Up' = Up /\ Down' = Down
    BY <1>3, Zenon DEF proxyConnPick, proxyConnPeer, proxyConnFails, Up, Down
  <2>2. PICK pc \in {"peer", "connect", "failGreeting"} : local' = [local EXCEPT !.pc = pc]
    BY <1>3, Zenon DEF proxyConnPick, proxyConnPeer, proxyConnFails, LocalGoto
  <2>3. local' \in LocalType /\ local'.pc = pc /\ local'.copying = local.copying
    <3>1. pc \in LocalPC
      BY Zenon DEF LocalPC
    <3> QED
      BY <2>2, <3>1, Zenon DEF Typed, LocalType
  <2>4. Told' = Told /\ Seen' = Seen /\ AppOK' /\ WayUp' /\ WayDown'
    BY <1>1, <2>1, SameMessages, Zenon
  <2>5. RemoteOK'
    BY <1>1, <2>1, <2>4, SMTT(30) DEF RemoteOK
  <2>6. LocalOK'
    BY <1>1, <1>2, <2>1, <2>3, <2>4, Zenon DEF LocalOK
  <2>7. EndOK'
    BY <1>1, <1>2, <2>1, <2>3, <2>4, Zenon DEF EndOK, Refused
  <2> QED
    BY <1>1, <2>1, <2>3, <2>4, <2>5, <2>6, <2>7, Zenon DEF Typed
<1>4. CASE proxyConnStream
  <2>1. PICK p \in Protocols :
          /\ stream' = [stream EXCEPT !.proto = p]
          /\ local' = IF p = "noauth" THEN [local EXCEPT !.pc = "auth"] ELSE [pc |-> "copy", copying |-> BothCopies]
    BY <1>4, Zenon DEF proxyConnStream
  <2>2. remote' = [remote EXCEPT !.pc = "peer"]
    BY <1>4, Zenon DEF proxyConnStream
  <2>3. p \in {"old", "noauth"} /\ "auth" \in LocalPC /\ "copy" \in LocalPC /\ "peer" \in RemotePC
    BY Zenon DEF Protocols, LocalPC, RemotePC
  <2>4. /\ stream' \in StreamType /\ stream'.proto = p /\ Up' = Up /\ Down' = Down /\ stream'.upEnd = stream.upEnd
        /\ stream'.downEnd = stream.downEnd /\ stream'.reset = stream.reset
    BY <2>1, <2>3, Zenon DEF Typed, StreamType, Up, Down
  <2>5. remote' \in RemoteType /\ remote'.pc = "peer" /\ remote'.copying = remote.copying /\ remote'.reply = remote.reply
    BY <2>2, <2>3, Zenon DEF Typed, RemoteType
  <2>6. /\ local' \in LocalType
        /\ local'.pc = IF p = "noauth" THEN "auth" ELSE "copy"
        /\ local'.copying = IF p = "noauth" THEN {} ELSE BothCopies
    BY <1>2, <2>1, <2>3, Zenon DEF Typed, LocalType
  <2>7. Told' = Told /\ Seen' = Seen /\ AppOK' /\ WayUp' /\ WayDown'
    BY <1>1, <2>4, SameMessages, Zenon
  <2>8. LocalOK'
    BY <1>1, <1>2, <2>3, <2>4, <2>5, <2>6, <2>7, Zenon DEF LocalOK, BothCopies
  <2>9. Seen = 0
    BY <1>2, Lengths, SMTT(30) DEF WayUp, Seen
  <2>10. RemoteOK'
    BY <1>1, <1>2, <2>3, <2>4, <2>5, <2>7, <2>9, SMTT(30) DEF RemoteOK
  <2>11. EndOK'
    <3>1. remote.reply = "none"
      BY <1>2, Zenon DEF RemoteOK
    <3>2. local'.pc = "copy" => "up" \in local'.copying /\ "down" \in local'.copying
      BY <2>6, Zenon DEF BothCopies
    <3>3. local'.pc # "done" /\ (Refused' <=> Refused)
      BY <1>1, <2>6, Zenon DEF Refused
    <3> QED
      BY <1>1, <1>2, <2>4, <2>5, <2>7, <3>1, <3>2, <3>3, Zenon DEF EndOK
  <2> QED
    BY <1>1, <2>4, <2>5, <2>6, <2>7, <2>8, <2>10, <2>11, Zenon DEF Typed
<1> QED
  BY <1>3, <1>4, Zenon

\* What the program will get once m is added, when its turn has come.
LEMMA Adds ==
  ASSUME NEW s \in Seq(Answer), Legal(s), NEW m \in Answer,
         \/ Len(s) = 0 /\ m \in Methods
         \/ Len(s) = 1 /\ s[1] = "noauth" /\ m \in Replies
         \/ Len(s) >= 2 /\ s[2] = "ok" /\ m = "answer"
  PROVE  /\ Legal(Append(s, m)) /\ Append(s, m) \in Seq(Answer) /\ Len(Append(s, m)) = Len(s) + 1
         /\ \A i \in 1 .. Len(s) : Append(s, m)[i] = s[i]
         /\ Append(s, m)[Len(s) + 1] = m
<1> DEFINE t == Append(s, m)
<1>1. /\ t \in Seq(Answer) /\ Len(t) = Len(s) + 1 /\ Len(s) \in Nat
      /\ \A i \in 1 .. Len(s) : t[i] = s[i]
      /\ t[Len(s) + 1] = m
  OBVIOUS
<1> HIDE DEF t
<1>2. Legal(t)
  <2>1. CASE Len(s) = 0
    BY <1>1, <2>1 DEF Legal
  <2>2. CASE Len(s) = 1
    BY <1>1, <2>2 DEF Legal
  <2>3. CASE Len(s) >= 2
    <3>1. t[1] = s[1] /\ t[2] = s[2] /\ s[2] = "ok" /\ s[1] = "noauth" /\ m = "answer"
      BY <1>1, <2>3 DEF Legal
    <3>2. \A i \in 3 .. Len(t) : t[i] = "answer"
      BY <1>1, <2>3, <3>1 DEF Legal
    <3> QED
      BY <1>1, <2>3, <3>1, <3>2, Zenon DEF Legal, Methods, Replies
  <2> QED
    BY <1>1, <2>1, <2>2, <2>3, Zenon
<1> QED
  BY <1>1, <1>2, Zenon DEF t

\* An answer is written, here while nothing is on its way, or by the exit node.
LEMMA Answering ==
  ASSUME Typed, NEW m \in Answer,
         \/ Down = <<>> /\ Down' = <<>> /\ Got' = Append(Got, m)
         \/ Got' = Got /\ Down' = Append(Down, m)
  PROVE  Told' = Append(Told, m)
<1>1. \A g, d \in Seq(Answer) :
        /\ g \o <<>> = g /\ Append(g, m) \o <<>> = Append(g, m)
        /\ g \o Append(d, m) = Append(g \o d, m)
  BY AnsweredHere, MoreDown, SMTT(30)
<1>2. Got \in Seq(Answer) /\ Down \in Seq(Answer)
  BY Lengths, Zenon
<1>3. CASE Down = <<>> /\ Down' = <<>> /\ Got' = Append(Got, m)
  BY <1>1, <1>2, <1>3, Zenon DEF Told
<1>4. CASE Got' = Got /\ Down' = Append(Down, m)
  BY <1>1, <1>2, <1>4, Zenon DEF Told
<1> QED
  BY <1>3, <1>4, Zenon

\* An answer written in its turn leaves the answers in their order.
LEMMA AnswerFits ==
  ASSUME Typed, Legal(Told), NEW m \in Answer, Told' = Append(Told, m),
         \/ Len(Told) = 0 /\ m \in Methods
         \/ Len(Told) = 1 /\ Told[1] = "noauth" /\ m \in Replies
         \/ Len(Told) >= 2 /\ Told[2] = "ok" /\ m = "answer"
  PROVE  /\ Legal(Told)' /\ Told' \in Seq(Answer) /\ Len(Told)' = Len(Told) + 1
         /\ \A i \in 1 .. Len(Told) : Told'[i] = Told[i]
         /\ Told'[Len(Told) + 1] = m
<1>1. Told \in Seq(Answer)
  BY Lengths, Zenon
<1> QED
  BY <1>1, Adds DEF Legal

\* HandleLocalAuth answers the greeting on this node: the invariant is kept.
LEMMA AuthStep ==
  ASSUME Inv, HandleLocalAuth
  PROVE  Inv'
<1> USE DEF Inv
<1>1. /\ local.pc = "auth" /\ UNCHANGED <<remote, dest>> /\ stream.proto = "noauth" /\ Taken = 0 /\ Len(Told) = 0
      /\ local.copying = {} /\ ~conn.hungUp /\ remote.pc # "none"
  BY Zenon DEF HandleLocalAuth, LocalOK
<1>2. Len(Got) = 0 /\ Len(Down) = 0 /\ Got = <<>> /\ Down = <<>> /\ Read = 0 /\ Len(Up) = 0 /\ Seen = 0 /\ Len(Sent) <= 1
  BY <1>1, Lengths DEF AppOK, WayUp, WayDown, Seen
<1>3. remote.pc \notin {"dial", "relay"} /\ remote.reply = "none"
  BY <1>2 DEF RemoteOK
<1>4. "failGreeting" \in LocalPC /\ "copy" \in LocalPC
  BY Zenon DEF LocalPC
<1>5. CASE Readable
  <2> DEFINE m == IF conn.offers THEN "noauth" ELSE "noacceptable"
  <2>1. m \in Answer /\ m \in Methods /\ Append(Got, m) \in Seq(Answer) /\ Taken + 1 \in Nat
    BY Lengths, Messages DEF Methods
  <2>2. conn' = [conn EXCEPT !.taken = Taken + 1, !.got = Append(Got, m)]
    BY <1>5, Zenon DEF HandleLocalAuth, Answered, Typed, ConnType, Taken, Got
  <2>3. /\ stream' = IF conn.offers THEN stream ELSE [stream EXCEPT !.reset = TRUE]
        /\ local' = IF conn.offers THEN [pc |-> "copy", copying |-> BothCopies] ELSE [local EXCEPT !.pc = "failGreeting"]
    BY <1>5, Zenon DEF HandleLocalAuth, LocalGoto, Reset
  <2> HIDE DEF m
  <2>4. /\ conn' \in ConnType /\ conn'.app = conn.app /\ Sent' = Sent /\ Taken' = Taken + 1 /\ Got' = Append(Got, m)
        /\ Read' = Read /\ conn'.hungUp = conn.hungUp
    BY <2>1, <2>2, Zenon DEF Typed, ConnType, Sent, Taken, Got, Read
  <2>5. /\ stream' \in StreamType /\ stream'.proto = stream.proto /\ Up' = Up /\ Down' = Down
        /\ stream'.downEnd = stream.downEnd /\ stream'.reset = (stream.reset \/ ~conn.offers)
    BY <2>3, Zenon DEF Typed, StreamType, Up, Down
  <2>6. /\ local' \in LocalType /\ local'.pc = IF conn.offers THEN "copy" ELSE "failGreeting"
        /\ local'.copying = IF conn.offers THEN BothCopies ELSE {}
    BY <1>1, <1>4, <2>3, Zenon DEF Typed, LocalType
  <2>7. /\ Legal(Told)' /\ Len(Told)' = 1 /\ Told'[1] = m /\ Len(Got)' = 1 /\ Got'[1] = m /\ Seen' = 1 /\ Len(Sent) = 1
    <3>1. Told' = Append(Told, m)
      BY <1>2, <2>1, <2>4, <2>5, Answering, Zenon
    <3>2. Len(Got)' = 1 /\ Got'[1] = m
      BY <1>2, <2>1, <2>4
    <3>3. Seen' = 1 /\ Len(Sent) = 1
      BY <1>1, <1>2, <1>5, <2>4, <2>5, Lengths DEF Seen, Readable, Sent, Taken
    <3> QED
      BY <1>1, <2>1, <3>1, <3>2, <3>3, AnswerFits, SMTT(30) DEF WayDown
  <2>8. AppOK'
    BY <1>1, <1>2, <2>4, <2>7 DEF AppOK
  <2>9. WayUp'
    BY <1>1, <1>2, <2>4, <2>5 DEF WayUp
  <2>10. WayDown'
    BY <1>1, <2>4, <2>7 DEF WayDown
  <2>11. LocalOK'
    <3>1. Taken' = 1
      BY <1>1, <2>4
    <3>2. CASE conn.offers
      <4>1. local'.pc = "copy"
        BY <2>6, <3>2, Zenon
      <4> QED
        BY <1>1, <2>4, <3>1, <4>1, SMTT(30) DEF LocalOK
    <3>3. CASE ~conn.offers
      <4>1. local'.pc = "failGreeting" /\ local'.copying = {} /\ stream'.reset /\ Got'[1] = "noacceptable"
        BY <2>5, <2>6, <2>7, <3>3, Zenon DEF m
      <4> QED
        BY <1>1, <2>4, <2>5, <2>7, <3>1, <4>1, SMTT(30) DEF LocalOK
    <3> QED
      BY <3>2, <3>3, Zenon
  <2>12. RemoteOK'
    BY <1>1, <1>2, <1>3, <2>5, <2>7, Zenon DEF RemoteOK
  <2>13. EndOK'
    <3>1. local'.pc = "copy" => "up" \in local'.copying /\ "down" \in local'.copying
      BY <2>6, Zenon DEF BothCopies
    <3>2. ~conn.offers => Refused'
      BY <2>7 DEF Refused, m
    <3>3. local'.pc # "done" /\ ~Refused
      BY <1>2, <2>6 DEF Refused
    <3> QED
      BY <1>1, <1>3, <2>4, <2>5, <2>7, <3>1, <3>2, <3>3, Zenon DEF EndOK
  <2> QED
    BY <1>1, <2>4, <2>5, <2>6, <2>8, <2>9, <2>10, <2>11, <2>12, <2>13, Zenon DEF Typed
<1>6. CASE ~Readable
  <2>1. /\ conn.app = "closed" /\ UNCHANGED conn /\ stream' = [stream EXCEPT !.reset = TRUE]
        /\ local' = [local EXCEPT !.pc = "failGreeting"]
    BY <1>6, Zenon DEF HandleLocalAuth, LocalGoto, Reset, ConnEnded
  <2>2. /\ stream' \in StreamType /\ stream'.proto = stream.proto /\ Up' = Up /\ Down' = Down
        /\ stream'.downEnd = stream.downEnd /\ stream'.reset
    BY <2>1, Zenon DEF Typed, StreamType, Up, Down
  <2>3. local' \in LocalType /\ local'.pc = "failGreeting" /\ local'.copying = {}
    BY <1>1, <1>4, <2>1, Zenon DEF Typed, LocalType
  <2>4. Sent' = Sent /\ Taken' = Taken /\ Got' = Got /\ Read' = Read
    BY <2>1, Zenon DEF Sent, Taken, Got, Read
  <2>5. Told' = Told /\ Seen' = Seen /\ AppOK' /\ WayUp' /\ WayDown'
    BY <1>1, <2>1, <2>2, <2>4, SameMessages, Zenon
  <2>6. Taken = Len(Sent)
    BY <1>1, <1>6, Lengths DEF Readable, AppOK, Taken, Sent
  <2>7. LocalOK'
    BY <1>1, <2>1, <2>2, <2>3, <2>4, <2>5, <2>6, Zenon DEF LocalOK
  <2>8. RemoteOK'
    BY <1>1, <1>2, <1>3, <2>2, <2>5, Zenon DEF RemoteOK
  <2>9. EndOK'
    BY <1>1, <1>3, <2>1, <2>2, <2>3, Zenon DEF EndOK
  <2> QED
    BY <1>1, <2>1, <2>2, <2>3, <2>5, <2>7, <2>8, <2>9, Zenon DEF Typed
<1> QED
  BY <1>5, <1>6, Zenon

\* The two copies of handleStream keep the invariant.
LEMMA CopyStep ==
  ASSUME Inv, CopyUp \/ CopyUpEnds \/ CopyDown \/ CopyDownEnds
  PROVE  Inv'
<1> USE DEF Inv
<1>1. UNCHANGED <<remote, dest>> /\ local.pc = "copy" /\ remote.pc # "none"
  BY Zenon DEF CopyUp, CopyUpEnds, CopyDown, CopyDownEnds, LocalOK
<1>2. CASE CopyUp
  <2>1. /\ UNCHANGED local /\ "up" \in local.copying /\ Readable /\ ~stream.reset
        /\ conn' = [conn EXCEPT !.taken = Taken + 1] /\ stream' = [stream EXCEPT !.up = Append(Up, Incoming)]
    BY <1>2, Zenon DEF CopyUp, Up, Taken, Typed, ConnType, StreamType
  <2>2. Taken + 1 \in 1 .. Len(Sent) /\ Incoming = Sent[Taken + 1] /\ Taken + 1 \in Nat
    BY <2>1, Lengths, SMTT(60) DEF Readable, Incoming, Sent, Taken
  <2>3. Incoming = Kind(Taken + 1) /\ Incoming \in Asks /\ Append(Up, Incoming) \in Seq(Asks)
    BY <2>2, Lengths, SMTT(30) DEF AppOK
  <2>4. conn' \in ConnType /\ conn'.app = conn.app /\ Sent' = Sent /\ Taken' = Taken + 1 /\ Got' = Got /\ Read' = Read /\ conn'.hungUp = conn.hungUp
    BY <2>1, <2>2, Zenon DEF Typed, ConnType, Sent, Taken, Got, Read
  <2>5. /\ stream' \in StreamType /\ stream'.proto = stream.proto /\ Up' = Append(Up, Incoming) /\ Down' = Down
        /\ stream'.downEnd = stream.downEnd /\ stream'.reset = stream.reset
    BY <2>1, <2>3, Zenon DEF Typed, StreamType, Up, Down
  <2>6. /\ Len(Up') = Len(Up) + 1 /\ \A i \in 1 .. Len(Up) : Up'[i] = Up[i]
        /\ Up'[Len(Up) + 1] = Kind(Taken + 1)
    BY <2>3, <2>5, Lengths, AppendProperties
  <2>7. Told' = Told /\ Seen' = Seen
    BY <2>4, <2>5, <2>6, Lengths, SMTT(30) DEF Told, Seen
  <2>8. AppOK'
    BY <2>2, <2>4, Lengths DEF AppOK
  <2>9. WayUp'
    <3>1. ASSUME NEW i \in 1 .. Len(Up') PROVE Up'[i] = Kind(Seen + i)
      <4>1. CASE i \in 1 .. Len(Up)
        BY <2>6, <4>1, Zenon DEF WayUp
      <4>2. CASE i = Len(Up) + 1
        <5>1. Seen + i = Taken + 1
          BY <4>2, Lengths, SMTT(30) DEF Seen
        <5> QED
          BY <2>6, <4>2, <5>1, Zenon
      <4> QED
        BY <2>6, <4>1, <4>2, Lengths, SMTT(30)
    <3>2. Len(Up') <= Taken'
      BY <2>4, <2>6, Lengths, SMTT(30) DEF WayUp
    <3> QED
      BY <2>7, <3>1, <3>2, Zenon DEF WayUp
  <2>10. WayDown'
    BY <1>1, <2>4, <2>7, Zenon DEF WayDown, Legal
  <2>11. LocalOK'
    BY <1>1, <2>1, <2>4, <2>5, <2>7, Lengths, SMTT(30) DEF LocalOK
  <2>12. RemoteOK'
    BY <1>1, <2>5, <2>7, Zenon DEF RemoteOK
  <2>13. EndOK'
    BY <1>1, <2>1, <2>4, <2>5, <2>7, Zenon DEF EndOK, Refused
  <2> QED
    BY <1>1, <2>1, <2>4, <2>5, <2>8, <2>9, <2>10, <2>11, <2>12, <2>13, Zenon DEF Typed
<1>3. CASE CopyUpEnds
  <2>2. /\ stream' \in StreamType /\ stream'.proto = stream.proto /\ Up' = Up /\ Down' = Down
        /\ stream'.downEnd = stream.downEnd /\ stream'.reset = stream.reset
    BY <1>3, Zenon DEF CopyUpEnds, Typed, StreamType, Up, Down
  <2>3. local' \in LocalType /\ local'.pc = "copy" /\ local'.copying = local.copying \ {"up"}
    BY <1>1, <1>3, Zenon DEF CopyUpEnds, Typed, LocalType
  <2>4. UNCHANGED conn /\ (conn.app = "closed" \/ stream.reset) /\ Sent' = Sent /\ Taken' = Taken /\ Got' = Got /\ Read' = Read
    BY <1>3, Zenon DEF CopyUpEnds, ConnEnded, Sent, Taken, Got, Read
  <2>5. Told' = Told /\ Seen' = Seen /\ AppOK' /\ WayUp' /\ WayDown'
    BY <1>1, <2>2, <2>4, SameMessages, Zenon
  <2>6. LocalOK'
    BY <1>1, <2>2, <2>3, <2>4, <2>5, Zenon DEF LocalOK
  <2>7. RemoteOK'
    BY <1>1, <2>2, <2>5, SMTT(30) DEF RemoteOK
  <2>8. EndOK'
    BY <1>1, <2>2, <2>3, <2>4, <2>5, Zenon DEF EndOK, Refused
  <2> QED
    BY <1>1, <2>2, <2>3, <2>4, <2>5, <2>6, <2>7, <2>8 DEF Typed
<1>4. CASE CopyDown
  <2>1. /\ UNCHANGED local /\ "down" \in local.copying /\ Down # <<>>
        /\ conn' = [conn EXCEPT !.got = Append(Got, Head(Down))] /\ stream' = [stream EXCEPT !.down = Tail(Down)]
    BY <1>4, Zenon DEF CopyDown, Down, Got, Typed, ConnType, StreamType
  <2>2. /\ Head(Down) \in Answer /\ Tail(Down) \in Seq(Answer) /\ Append(Got, Head(Down)) \in Seq(Answer)
        /\ Len(Append(Got, Head(Down))) = Len(Got) + 1 /\ \A i \in 1 .. Len(Got) : Append(Got, Head(Down))[i] = Got[i]
    BY <2>1, Lengths
  <2>3. /\ conn' \in ConnType /\ conn'.app = conn.app /\ Sent' = Sent /\ Taken' = Taken /\ Read' = Read
        /\ Got' = Append(Got, Head(Down)) /\ conn'.hungUp = conn.hungUp
    BY <2>1, <2>2, Zenon DEF Typed, ConnType, Sent, Taken, Got, Read
  <2>4. /\ stream' \in StreamType /\ stream'.proto = stream.proto /\ Up' = Up /\ Down' = Tail(Down)
        /\ stream'.downEnd = stream.downEnd /\ stream'.reset = stream.reset
    BY <2>1, <2>2, Zenon DEF Typed, StreamType, Up, Down
  <2>5. Told' = Told /\ Seen' = Seen
    <3>1. \A g, d \in Seq(Answer) : d # <<>> => Append(g, Head(d)) \o Tail(d) = g \o d
      BY MovedDown, Zenon
    <3>2. Got \in Seq(Answer) /\ Down \in Seq(Answer)
      BY Lengths, Zenon
    <3> QED
      BY <2>1, <2>3, <2>4, <3>1, <3>2, Zenon DEF Told, Seen
  <2>6. Len(Got') = Len(Got) + 1 /\ \A i \in 1 .. Len(Got) : Got'[i] = Got[i]
    BY <2>2, <2>3, Zenon
  <2>7. /\ Len(Got) >= 1 => Got'[1] = Got[1]
        /\ Len(Got) >= 2 => Got'[2] = Got[2]
    BY <2>6, Lengths, SMTT(30)
  <2>8. AppOK'
    <3>1. conn.app = "data" => Len(Got) >= 2
      BY Lengths DEF AppOK
    <3> QED
      BY <2>3, <2>6, <2>7, <3>1, Lengths, SMTT(30) DEF AppOK
  <2>9. WayUp'
    BY <2>3, <2>4, <2>5, Zenon DEF WayUp
  <2>10. WayDown'
    BY <1>1, <2>3, <2>5, <2>6, <2>7, Lengths, SMTT(30) DEF WayDown, Legal
  <2>11. LocalOK'
    BY <1>1, <2>1, <2>3, <2>4, <2>5, Zenon DEF LocalOK
  <2>12. RemoteOK'
    BY <1>1, <2>4, <2>5 DEF RemoteOK
  <2>13. EndOK'
    <3>1. Refused => Refused'
      BY <2>6, <2>7, Lengths DEF Refused
    <3> QED
      BY <1>1, <2>1, <2>3, <2>4, <2>5, <2>6, <3>1, Lengths, SMTT(30) DEF EndOK
  <2> QED
    BY <1>1, <2>1, <2>3, <2>4, <2>8, <2>9, <2>10, <2>11, <2>12, <2>13, Zenon DEF Typed
<1>5. CASE CopyDownEnds
  <2>1. local' = [local EXCEPT !.copying = local.copying \ {"down"}] /\ conn' = [conn EXCEPT !.hungUp = TRUE] /\ UNCHANGED stream
    BY <1>5, Zenon DEF CopyDownEnds, Typed, LocalType
  <2>2. /\ conn' \in ConnType /\ conn'.app = conn.app /\ Sent' = Sent /\ Taken' = Taken /\ Read' = Read /\ Got' = Got
    BY <2>1, Zenon DEF Typed, ConnType, Sent, Taken, Got, Read
  <2>3. local' \in LocalType /\ local'.pc = "copy" /\ local'.copying = local.copying \ {"down"}
    BY <1>1, <2>1, Zenon DEF Typed, LocalType
  <2>4. Up' = Up /\ Down' = Down
    BY <2>1, Zenon DEF Up, Down
  <2>5. Told' = Told /\ Seen' = Seen /\ AppOK' /\ WayUp' /\ WayDown'
    BY <1>1, <2>2, <2>4, SameMessages, Zenon
  <2>6. LocalOK'
    BY <1>1, <2>1, <2>2, <2>3, <2>5, Zenon DEF LocalOK
  <2>7. RemoteOK'
    BY <1>1, <2>1, <2>5, Zenon DEF RemoteOK
  <2>8. EndOK'
    <3>1. \/ stream.reset
          \/ stream.downEnd /\ Down = <<>>
          \/ conn.app = "closed"
      BY <1>5, Zenon DEF CopyDownEnds, Down
    <3>2. remote.reply # "none" => Len(Sent) >= 2
      BY Lengths, SMTT(30) DEF RemoteOK, Seen, AppOK
    <3>3. Refused => ~(Len(Sent) >= 2)
      BY Zenon DEF Refused, WayDown
    <3>4. ASSUME remote.reply # "none", conn.app # "closed", remote.pc # "done" PROVE Len(Got) >= 2
      <4>1. Down = <<>> /\ Len(Told) >= 2
        BY <3>1, <3>2, <3>3, <3>4, Zenon DEF EndOK
      <4> QED
        BY <4>1, Lengths
    <3>5. remote.reply # "none" /\ conn.app # "closed" /\ remote.pc = "done" => Len(Got) >= 2
      BY Zenon DEF EndOK
    <3> QED
      BY <1>1, <2>1, <2>2, <2>3, <2>5, <3>1, <3>4, <3>5, Zenon DEF EndOK, Refused
  <2> QED
    BY <1>1, <2>1, <2>2, <2>3, <2>5, <2>6, <2>7, <2>8, Zenon DEF Typed
<1> QED
  BY <1>2, <1>3, <1>4, <1>5, Zenon

\* The end of proxyConn, and SendServerFailureReply on this node, keep it.
LEMMA EndStep ==
  ASSUME Inv, proxyConnReturns \/ LocalFailure
  PROVE  Inv'
<1> USE DEF Inv
<1>1. UNCHANGED <<remote, dest>>
  BY Zenon DEF proxyConnReturns, LocalFailure
<1>2. {"failRequest", "failed", "done"} \subseteq LocalPC
  BY Zenon DEF LocalPC
<1>3. CASE proxyConnReturns
  <2>1. /\ local.pc = "copy" /\ local.copying = {} /\ local' = [local EXCEPT !.pc = "done"]
        /\ conn' = [conn EXCEPT !.hungUp = TRUE] /\ stream' = [stream EXCEPT !.reset = TRUE]
    BY <1>3, Zenon DEF proxyConnReturns, LocalGoto, Reset
  <2>2. local' \in LocalType /\ local'.pc = "done" /\ local'.copying = {}
    BY <1>2, <2>1, Zenon DEF Typed, LocalType
  <2>3. conn' \in ConnType /\ conn'.app = conn.app /\ Sent' = Sent /\ Taken' = Taken /\ Read' = Read /\ Got' = Got
    BY <2>1, Zenon DEF Typed, ConnType, Sent, Taken, Got, Read
  <2>4. stream' \in StreamType /\ stream'.proto = stream.proto /\ Up' = Up /\ Down' = Down /\ stream'.downEnd = stream.downEnd /\ stream'.reset
    BY <2>1, Zenon DEF Typed, StreamType, Up, Down
  <2>5. Told' = Told /\ Seen' = Seen /\ AppOK' /\ WayUp' /\ WayDown'
    BY <1>1, <2>3, <2>4, SameMessages, Zenon
  <2>6. LocalOK'
    BY <2>2, Zenon DEF LocalOK
  <2>7. RemoteOK'
    BY <1>1, <2>4, <2>5, Zenon DEF RemoteOK
  <2>8. EndOK'
    BY <1>1, <2>1, <2>2, <2>3, <2>4, <2>5, Zenon DEF EndOK, Refused
  <2> QED
    BY <1>1, <2>2, <2>3, <2>4, <2>5, <2>6, <2>7, <2>8, Zenon DEF Typed
<1>4. ASSUME NEW m \in {"noauth", "failure"}, Readable, UNCHANGED stream, conn' = Answered(m),
             IF m = "noauth" THEN local.pc = "failGreeting" /\ LocalGoto("failRequest")
             ELSE local.pc = "failRequest" /\ LocalGoto("failed")
      PROVE  Inv'
  <2> DEFINE pc == IF m = "noauth" THEN "failRequest" ELSE "failed"
  <2>1. local' = [local EXCEPT !.pc = pc] /\ pc \in LocalPC
    BY <1>2, <1>4, Zenon DEF LocalGoto
  <2>2. local' \in LocalType /\ local'.pc = pc /\ local'.copying = local.copying
    BY <2>1, Zenon DEF Typed, LocalType
  <2>3. m \in Answer /\ Append(Got, m) \in Seq(Answer) /\ Taken + 1 \in Nat
    BY Lengths, Messages DEF Methods, Replies
  <2>4. conn' = [conn EXCEPT !.taken = Taken + 1, !.got = Append(Got, m)]
    BY <1>4, Zenon DEF Answered, Typed, ConnType, Taken, Got
  <2>5. /\ conn' \in ConnType /\ conn'.app = conn.app /\ Sent' = Sent /\ Taken' = Taken + 1 /\ Got' = Append(Got, m)
        /\ Read' = Read /\ conn'.hungUp = conn.hungUp
    BY <2>3, <2>4, Zenon DEF Typed, ConnType, Sent, Taken, Got, Read
  <2>6. Up' = Up /\ Down' = Down /\ UNCHANGED stream /\ Taken < Len(Sent)
    BY <1>4, Zenon DEF Up, Down, Readable, Taken, Sent
  <2>7. remote.pc = "none" /\ local.copying = {} /\ ~conn.hungUp
    <3>1. CASE local.pc = "failRequest"
      BY <3>1, Zenon DEF LocalOK
    <3>2. CASE local.pc = "failGreeting"
      <4>1. Taken = 1 /\ Refused => Len(Sent) >= 2
        BY <2>6, Lengths
      <4>2. ~(Refused /\ Len(Sent) >= 2)
        BY Zenon DEF Refused, WayDown
      <4>3. Len(Got) = 1 /\ Got[1] = "noacceptable" => Refused
        BY Lengths DEF Refused
      <4> QED
        BY <2>6, <3>2, <4>1, <4>2, <4>3, Lengths, SMTT(30) DEF LocalOK
    <3> QED
      BY <1>4, <3>1, <3>2, Zenon
  <2>8. Up = <<>> /\ Down = <<>> /\ remote.reply = "none" /\ Len(Up) = 0
    BY <2>7, Zenon DEF RemoteOK
  <2>9. IF m = "noauth" THEN Taken = 0 /\ Len(Told) = 0 ELSE Taken = 1 /\ Len(Told) = 1 /\ Got[1] = "noauth"
    BY <1>4, <2>7, Zenon DEF LocalOK
  <2>10. Told' = Append(Told, m) /\ Len(Got) = Len(Told)
    BY <2>3, <2>5, <2>6, <2>8, Answering, Lengths, SMTT(30)
  <2>11. m = "failure" => Told[1] = "noauth"
    BY <2>9, <2>10, ToldAnswers
  <2>12. /\ Legal(Told)' /\ Told' \in Seq(Answer) /\ Len(Told)' = Len(Told) + 1 /\ \A i \in 1 .. Len(Told) : Told'[i] = Told[i]
         /\ Told'[Len(Told) + 1] = m
    BY <2>3, <2>9, <2>10, <2>11, AnswerFits, Zenon DEF WayDown, Methods, Replies
  <2>13. Len(Got') = Len(Got) + 1 /\ \A i \in 1 .. Len(Got) : Got'[i] = Got[i]
    BY <2>3, <2>5, Lengths, AppendProperties
  <2>14. Got'[Len(Got) + 1] = m
    BY <2>3, <2>5, Lengths, AppendProperties, SMTT(30)
  <2> HIDE DEF pc
  <2>15. AppOK'
    <3>1. conn.app # "data"
      BY <2>9, <2>10, Lengths, SMTT(60) DEF AppOK
    <3> QED
      BY <2>5, <2>6, <2>13, <3>1, Lengths, SMTT(30) DEF AppOK
  <2>16. WayUp'
    <3>1. Len(Up') = 0 /\ Taken' \in Nat
      BY <2>3, <2>5, <2>6, <2>8, Zenon
    <3> QED
      BY <3>1 DEF WayUp
  <2>17. WayDown'
    <3>1. CASE m = "noauth"
      <4>1. Taken = 0 /\ Len(Told) = 0 /\ Len(Got) = 0 /\ Taken < Len(Sent)
        BY <2>6, <2>9, <2>10, <3>1, Zenon
      <4>2. Len(Sent) >= 1 /\ ~(Len(Sent) >= 2) /\ ~(Len(Sent) >= 3)
        <5>1. ~(Len(Sent) >= 2)
          BY <4>1 DEF WayDown
        <5>2. Len(Sent) \in Nat
          BY Lengths, Zenon
        <5> QED
          BY <4>1, <5>1, <5>2
      <4>3. ~(Len(Told)' >= 2)
        BY <2>12, <4>1
      <4> QED
        BY <2>5, <2>12, <4>2, <4>3, Zenon DEF WayDown
    <3>2. CASE m = "failure"
      <4>1. Taken = 1 /\ Len(Told) = 1 /\ Len(Got) = 1 /\ Got[1] = "noauth" /\ Taken < Len(Sent)
        BY <2>6, <2>9, <2>10, <3>2, Zenon
      <4>2. Len(Sent) >= 1 /\ Len(Sent) >= 2 /\ ~(Len(Sent) >= 3)
        <5>1. ~(Len(Sent) >= 3)
          BY <4>1 DEF WayDown
        <5>2. Len(Sent) \in Nat
          BY Lengths, Zenon
        <5> QED
          BY <4>1, <5>1, <5>2
      <4>3. Len(Told)' = 2
        BY <2>12, <4>1
      <4>4. Told'[2] = "failure" /\ Len(Got') = 2 /\ Got'[1] = "noauth"
        BY <2>12, <2>13, <3>2, <4>1, SMTT(30)
      <4> QED
        BY <2>5, <2>12, <4>2, <4>3, <4>4 DEF WayDown
    <3> QED
      BY <3>1, <3>2, Zenon
  <2>18. LocalOK'
    <3>1. pc = "failRequest" => Taken' = 1 /\ Len(Told)' = 1 /\ Got'[1] = "noauth"
      BY <2>5, <2>9, <2>10, <2>12, <2>14, Lengths DEF pc
    <3>2. pc \in {"failRequest", "failed"}
      BY Zenon DEF pc
    <3> QED
      BY <1>1, <2>2, <2>5, <2>7, <3>1, <3>2, Zenon DEF LocalOK
  <2>19. RemoteOK'
    BY <1>1, <2>6, <2>7, <2>8, Zenon DEF RemoteOK
  <2>20. EndOK'
    <3>1. pc \in {"failRequest", "failed"}
      BY Zenon DEF pc
    <3>2. stream.reset => conn.app = "closed" \/ Refused
      BY <2>7, Zenon DEF EndOK
    <3>3. Refused => Refused'
      BY <2>13, Lengths, SMTT(30) DEF Refused
    <3> QED
      BY <1>1, <2>2, <2>5, <2>6, <2>7, <2>8, <3>1, <3>2, <3>3, Zenon DEF EndOK
  <2> QED
    BY <1>1, <2>2, <2>5, <2>6, <2>15, <2>16, <2>17, <2>18, <2>19, <2>20, Zenon DEF Typed
<1>5. ASSUME local.pc = "failed" \/ (local.pc \in {"failGreeting", "failRequest"} /\ ConnEnded),
             UNCHANGED stream, conn' = [conn EXCEPT !.hungUp = TRUE], LocalGoto("done")
      PROVE  Inv'
  <2>1. local' \in LocalType /\ local'.pc = "done" /\ local'.copying = local.copying /\ local.copying = {}
    BY <1>2, <1>5, Zenon DEF LocalGoto, Typed, LocalType, LocalOK
  <2>2. conn' \in ConnType /\ conn'.app = conn.app /\ Sent' = Sent /\ Taken' = Taken /\ Read' = Read /\ Got' = Got
    BY <1>5, Zenon DEF Typed, ConnType, Sent, Taken, Got, Read
  <2>3. UNCHANGED stream /\ Up' = Up /\ Down' = Down
    BY <1>5, Zenon DEF Up, Down
  <2>4. Told' = Told /\ Seen' = Seen /\ AppOK' /\ WayUp' /\ WayDown'
    BY <1>1, <2>2, <2>3, SameMessages, Zenon
  <2>5. LocalOK'
    BY <2>1, Zenon DEF LocalOK
  <2>6. RemoteOK'
    BY <1>1, <2>3, <2>4 DEF RemoteOK
  <2>7. remote.pc # "none" => stream.reset
    BY <1>5, Zenon DEF LocalOK
  <2>8. EndOK'
    BY <1>1, <2>1, <2>2, <2>3, <2>4, <2>7, Zenon DEF EndOK, Refused
  <2> QED
    BY <1>1, <2>1, <2>2, <2>3, <2>4, <2>5, <2>6, <2>8, Zenon DEF Typed
<1>6. CASE LocalFailure
  BY <1>4, <1>5, <1>6, Zenon DEF LocalFailure
<1> QED
  BY <1>3, <1>6, Zenon

-----------------------------------------------------------------------------
(* The exit node.                                                          *)

\* A step of the exit node leaves this node where it is.
LEMMA HereOK ==
  ASSUME Inv, UNCHANGED <<conn, local>>, remote.pc # "none", remote'.pc # "none",
         stream'.proto = stream.proto, stream.reset => stream'.reset, Told' = Told \/ local.pc # "auth"
  PROVE  LocalOK'
<1>1. Taken' = Taken /\ Sent' = Sent /\ Got' = Got
  BY Zenon DEF Taken, Sent, Got
<1> QED
  BY <1>1, Zenon DEF Inv, LocalOK

\* A step of the exit node that writes nothing to the stream, after which the
\* program is still told the reply before the reset.
LEMMA EndsOK ==
  ASSUME Inv, UNCHANGED <<conn, local>>, Told' = Told, remote'.reply = remote.reply, remote.pc # "done",
         remote.pc # "none",
         stream.reset => stream'.reset, stream.downEnd => stream'.downEnd,
         stream'.reset => stream.reset \/ remote'.pc = "done",
         remote.reply # "none" /\ remote'.pc = "done" /\ conn.app # "closed" => Len(Got) >= 2
  PROVE  EndOK'
<1>1. Got' = Got
  BY Zenon DEF Got
<1> QED
  BY <1>1, Zenon DEF Inv, EndOK, Refused

\* The exit node reads the next message.
LEMMA ReadsUp ==
  ASSUME Inv, Up # <<>>, Up' = Tail(Up), Taken' = Taken
  PROVE  /\ Up' \in Seq(Asks) /\ Seen' = Seen + 1 /\ WayUp' /\ Up[1] = Kind(Seen + 1) /\ Head(Up) = Up[1]
         /\ Seen \in Nat /\ Taken >= Seen + 1 /\ Len(Sent) >= Seen + 1
<1> USE DEF Inv
<1>1. /\ Up' \in Seq(Asks) /\ Len(Up') = Len(Up) - 1 /\ Head(Up) = Up[1] /\ Len(Up) >= 1
      /\ \A i \in 1 .. Len(Up') : Up'[i] = Up[i + 1] /\ i + 1 \in 1 .. Len(Up)
  BY Lengths
<1>2. Seen' = Seen + 1 /\ Seen \in Nat /\ Taken >= Seen + 1 /\ Len(Sent) >= Seen + 1
  BY <1>1, Lengths, SMTT(30) DEF Seen, WayUp, AppOK
<1>3. Up[1] = Kind(Seen + 1)
  BY <1>1, Lengths DEF WayUp
<1>4. ASSUME NEW i \in 1 .. Len(Up') PROVE Up'[i] = Kind(Seen' + i)
  <2>1. Up[i + 1] = Kind(Seen + (i + 1))
    BY <1>1, Zenon DEF WayUp
  <2>2. Seen' + i = Seen + (i + 1)
    BY <1>2
  <2> QED
    BY <1>1, <2>1, <2>2, Zenon
<1>5. Len(Up') <= Taken'
  BY <1>1, Lengths DEF WayUp
<1> QED
  BY <1>1, <1>2, <1>3, <1>4, <1>5, Zenon DEF WayUp

\* ProxyStreamHandler keeps the invariant before it serves and when it returns: the
\* pause before the reset has let the reply through.
LEMMA HandlerStep ==
  ASSUME Inv, ProxyStreamHandler \/ ProxyStreamEnabled \/ ProxyStreamReturns
  PROVE  Inv'
<1> USE DEF Inv
<1>1. UNCHANGED <<conn, local, dest>> /\ remote.pc \in {"peer", "enabled", "sleep"}
  BY Zenon DEF ProxyStreamHandler, ProxyStreamEnabled, ProxyStreamReturns
<1>2. Sent' = Sent /\ Taken' = Taken /\ Got' = Got /\ Read' = Read
  BY <1>1, Zenon DEF Sent, Taken, Got, Read
<1>3. PICK pc \in {"enabled", "done", "request", "greeting", "failGreeting"} :
        /\ remote' = [remote EXCEPT !.pc = pc]
        /\ stream' = (IF pc = "done" THEN [stream EXCEPT !.reset = TRUE] ELSE stream)
        /\ remote.pc = "peer" => pc \in {"enabled", "done"}
        /\ remote.pc = "enabled" /\ stream.proto = "noauth" => pc \in {"request", "done"}
        /\ remote.pc = "enabled" /\ stream.proto # "noauth" => pc \in {"greeting", "failGreeting"}
        /\ remote.pc = "sleep" => pc = "done"
  BY Zenon DEF ProxyStreamHandler, ProxyStreamEnabled, ProxyStreamReturns, RemoteGoto, Reset
<1>4. pc \in RemotePC
  BY Zenon DEF RemotePC
<1>5. remote' \in RemoteType /\ remote'.pc = pc /\ remote'.copying = remote.copying /\ remote'.reply = remote.reply
  BY <1>3, <1>4, Zenon DEF Typed, RemoteType
<1>6. /\ stream' \in StreamType /\ stream'.proto = stream.proto /\ Up' = Up /\ Down' = Down
      /\ stream'.downEnd = stream.downEnd /\ stream'.reset = (stream.reset \/ pc = "done")
  BY <1>3, Zenon DEF Typed, StreamType, Up, Down
<1>7. Told' = Told /\ Seen' = Seen /\ AppOK' /\ WayUp' /\ WayDown'
  BY <1>1, <1>2, <1>6, SameMessages, Zenon
<1>8. LocalOK'
  BY <1>1, <1>3, <1>5, <1>6, <1>7, HereOK, Zenon
<1>9. RemoteOK'
  BY <1>1, <1>3, <1>5, <1>6, <1>7, SMTT(30) DEF RemoteOK
<1>10. remote.reply # "none" /\ conn.app # "closed" => Len(Got) >= 2
  <2> SUFFICES ASSUME remote.reply # "none", conn.app # "closed" PROVE Len(Got) >= 2
    BY Zenon
  <2>1. remote.pc = "sleep"
    BY <1>1, Zenon DEF RemoteOK
  <2>2. Down = <<>> \/ stream.reset \/ "down" \notin local.copying
    BY <2>1, Zenon DEF ProxyStreamHandler, ProxyStreamEnabled, ProxyStreamReturns, Down
  <2>3. Len(Sent) >= 2
    BY Lengths, SMTT(30) DEF RemoteOK, Seen, AppOK
  <2>4. ~Refused
    BY <2>3, Zenon DEF Refused, WayDown
  <2>5. ~stream.reset
    BY <2>1, <2>4, Zenon DEF EndOK
  <2>6. CASE Down = <<>>
    <3>1. Len(Told) >= 2
      BY Zenon DEF EndOK
    <3> QED
      BY <2>6, <3>1, Lengths
  <2> QED
    BY <2>2, <2>5, <2>6, Zenon DEF EndOK
<1>11. EndOK'
  BY <1>1, <1>5, <1>6, <1>7, <1>10, EndsOK, Zenon
<1> QED
  BY <1>1, <1>5, <1>6, <1>7, <1>8, <1>9, <1>11, Zenon DEF Typed

\* The exit node writes an answer when it is its turn.
LEMMA WritesDown ==
  ASSUME Inv, UNCHANGED conn, NEW m \in Answer, Down' = Append(Down, m),
         \/ Len(Told) = 0 /\ m \in Methods /\ Len(Sent) >= 1
         \/ Len(Told) = 1 /\ Told[1] = "noauth" /\ m \in Replies /\ Len(Sent) >= 2
         \/ Len(Told) >= 2 /\ Told[2] = "ok" /\ m = "answer",
         m = "ok" => dest'.st # "none", dest.st # "none" => dest'.st # "none"
  PROVE  /\ WayDown' /\ Len(Told)' = Len(Told) + 1 /\ Told'[Len(Told) + 1] = m
         /\ \A i \in 1 .. Len(Told) : Told'[i] = Told[i]
<1> USE DEF Inv
<1>1. Sent' = Sent /\ Got' = Got
  BY Zenon DEF Sent, Got
<1>2. Told' = Append(Told, m)
  BY <1>1, Answering
<1>3. /\ Legal(Told)' /\ Len(Told)' = Len(Told) + 1 /\ Told'[Len(Told) + 1] = m
      /\ \A i \in 1 .. Len(Told) : Told'[i] = Told[i]
  BY <1>2, AnswerFits DEF WayDown
<1>4. /\ Len(Told)' >= 1 => Len(Sent) >= 1
      /\ Len(Told)' >= 2 => Len(Sent) >= 2
  BY <1>3, Lengths, SMTT(30) DEF WayDown
<1>5. Len(Told)' >= 2 /\ Told'[2] = "ok" => dest'.st # "none"
  <2>1. CASE Len(Told) >= 2
    <3>1. Told'[2] = Told[2]
      BY <1>3, <2>1, Lengths
    <3> QED
      BY <2>1, <3>1, Zenon DEF WayDown
  <2>2. CASE Len(Told) = 1
    BY <1>3, <2>2, SMTT(30)
  <2> QED
    BY <1>3, <2>1, <2>2, Lengths, SMTT(30)
<1> QED
  BY <1>1, <1>3, <1>4, <1>5, Zenon DEF WayDown

\* ServeConn answers the greeting, and SendServerFailureReply both messages.
LEMMA RepliedStep ==
  ASSUME Inv, NEW m \in {"noauth", "noacceptable", "failure"}, NEW pc \in {"request", "sleep", "failRequest", "done"},
         UNCHANGED <<conn, local, dest>>, Up # <<>>, remote' = [remote EXCEPT !.pc = pc],
         stream' = (IF pc = "done" THEN Reset(Replied(m)) ELSE Replied(m)),
         IF m = "failure" THEN remote.pc = "failRequest" /\ pc = "done"
         ELSE remote.pc \in {"greeting", "failGreeting"} /\ pc # "done",
         pc = "failRequest" => m = "noauth"
  PROVE  Inv'
<1> USE DEF Inv
<1>1. m \in Answer /\ (m # "failure" => m \in Methods) /\ (m = "failure" => m \in Replies) /\ pc \in RemotePC
  BY Zenon DEF Answer, Methods, Replies, RemotePC
<1>2. remote' \in RemoteType /\ remote'.pc = pc /\ remote'.copying = remote.copying /\ remote'.reply = remote.reply
  BY <1>1, Zenon DEF Typed, RemoteType
<1>3. Tail(Up) \in Seq(Asks) /\ Append(Down, m) \in Seq(Answer)
  BY <1>1, Lengths
<1>4. /\ stream' \in StreamType /\ stream'.proto = stream.proto /\ Up' = Tail(Up)
      /\ Down' = (IF stream.reset THEN Down ELSE Append(Down, m))
      /\ stream'.downEnd = stream.downEnd /\ stream'.reset = (stream.reset \/ pc = "done")
  <2>1. Replied(m) = [stream EXCEPT !.up = Tail(Up), !.down = IF stream.reset THEN Down ELSE Append(Down, m)]
    BY Zenon DEF Replied, Typed, StreamType, Up, Down
  <2>2. CASE stream.reset
    BY <1>3, <2>1, <2>2, Zenon DEF Reset, Typed, StreamType, Up, Down
  <2>3. CASE ~stream.reset
    BY <1>3, <2>1, <2>3, Zenon DEF Reset, Typed, StreamType, Up, Down
  <2> QED
    BY <2>2, <2>3, Zenon
<1>5. Sent' = Sent /\ Taken' = Taken /\ Got' = Got /\ Read' = Read /\ conn'.app = conn.app
  BY Zenon DEF Sent, Taken, Got, Read
<1>6. Seen' = Seen + 1 /\ WayUp' /\ Len(Sent) >= Seen + 1 /\ Seen \in Nat
  BY <1>4, <1>5, ReadsUp, Zenon
<1>7. remote.pc \notin {"none", "done"} /\ stream.proto = "old" /\ remote.copying = {} /\ remote.reply = "none"
      /\ dest.st = "none" /\ ~stream.downEnd
  <2>1. remote.pc \in {"greeting", "failGreeting", "failRequest"}
    BY Zenon
  <2>2. stream.proto \in {"none", "old", "noauth"}
    BY Zenon DEF Typed, StreamType
  <2> QED
    BY <2>1, <2>2, Zenon DEF RemoteOK
<1>8. /\ m # "failure" => Seen = 0 /\ Len(Told) = 0
      /\ m = "failure" => Seen = 1 /\ (stream.reset \/ (Len(Told) = 1 /\ Told[1] = "noauth"))
  BY <1>7, Zenon DEF RemoteOK
<1>9. AppOK'
  BY <1>5, Zenon DEF AppOK
<1>10. /\ WayDown' /\ Len(Told)' \in {Len(Told), Len(Told) + 1}
       /\ ~stream.reset => Len(Told)' = Len(Told) + 1 /\ Told'[Len(Told) + 1] = m
  <2>1. CASE stream.reset
    <3>1. Told' = Told
      BY <1>4, <1>5, <2>1, Zenon DEF Told
    <3> QED
      BY <1>5, <2>1, <3>1, Zenon DEF WayDown, Legal
  <2>2. CASE ~stream.reset
    <3>1. Down' = Append(Down, m)
      BY <1>4, <2>2, Zenon
    <3>2. m = "failure" => Len(Sent) >= 2
      BY <1>6, <1>8, Lengths
    <3>3. Len(Sent) >= 1
      BY <1>6, Lengths, SMTT(30)
    <3> QED
      BY <1>1, <1>8, <2>2, <3>1, <3>2, <3>3, WritesDown, Zenon
  <2> QED
    BY <2>1, <2>2
<1>11. LocalOK'
  <2>1. local.pc # "auth"
    BY <1>7, Zenon DEF LocalOK
  <2> QED
    BY <1>2, <1>4, <1>7, <2>1, HereOK, Zenon
<1>12. RemoteOK'
  <2>1. pc # "done" => Seen' = 1 /\ Len(Told)' <= 1
    BY <1>6, <1>8, <1>10
  <2>2. ASSUME pc = "failRequest", ~stream.reset PROVE Len(Told)' = 1 /\ Told'[1] = "noauth"
    <3>1. Len(Told) = 0 /\ m = "noauth"
      BY <1>8, <2>2, Zenon
    <3>2. Len(Told)' = Len(Told) + 1 /\ Told'[Len(Told) + 1] = m
      BY <1>10, <2>2, Zenon
    <3> QED
      BY <3>1, <3>2
  <2> QED
    BY <1>2, <1>4, <1>7, <2>1, <2>2, Zenon DEF RemoteOK
<1>13. EndOK'
  BY <1>2, <1>4, <1>5, <1>7, Zenon DEF EndOK, Refused
<1> QED
  BY <1>2, <1>4, <1>6, <1>9, <1>10, <1>11, <1>12, <1>13, Zenon DEF Typed

\* ServeConn reads the request, or passes on what the program sends.
LEMMA ReadStep ==
  ASSUME Inv, UNCHANGED <<conn, local>>, Up # <<>>, stream' = [stream EXCEPT !.up = Tail(Up)],
         \/ /\ remote.pc = "request" /\ Head(Up) = "request" /\ UNCHANGED dest
            /\ remote' = [remote EXCEPT !.pc = "dial"]
         \/ "up" \in remote.copying /\ UNCHANGED remote /\ dest' = [dest EXCEPT !.in = @ + 1]
  PROVE  Inv'
<1> USE DEF Inv
<1>1. Tail(Up) \in Seq(Asks) /\ "dial" \in RemotePC
  BY Lengths DEF RemotePC
<1>2. /\ stream' \in StreamType /\ stream'.proto = stream.proto /\ Up' = Tail(Up) /\ Down' = Down
      /\ stream'.downEnd = stream.downEnd /\ stream'.reset = stream.reset
  BY <1>1, Zenon DEF Typed, StreamType, Up, Down
<1>3. Sent' = Sent /\ Taken' = Taken /\ Got' = Got /\ Read' = Read /\ conn'.app = conn.app
  BY Zenon DEF Sent, Taken, Got, Read
<1>4. /\ remote' \in RemoteType /\ remote'.copying = remote.copying /\ remote'.reply = remote.reply
      /\ \/ remote'.pc = "dial" /\ remote.pc = "request" /\ Head(Up) = "request"
         \/ remote'.pc = remote.pc /\ "up" \in remote.copying
  BY <1>1, Zenon DEF Typed, RemoteType
<1>5. dest' \in DestType /\ dest'.st = dest.st
  BY DEF Typed, DestType
<1>6. remote.pc \in {"request", "relay"}
  BY Zenon DEF RemoteOK
<1>7. /\ Seen' = Seen + 1 /\ WayUp' /\ Head(Up) = Kind(Seen + 1) /\ Seen \in Nat
  BY <1>2, <1>3, ReadsUp, Zenon
<1>8. Told' = Told
  BY <1>2, <1>3, Zenon DEF Told
<1>9. AppOK'
  BY <1>3, Zenon DEF AppOK
<1>10. WayDown'
  BY <1>3, <1>5, <1>8, Zenon DEF WayDown, Legal
<1>11. LocalOK'
  BY <1>2, <1>4, <1>6, <1>8, HereOK, Zenon
<1>12. remote'.pc \in {"dial", "relay"} /\ Seen' >= 2
  <2>1. CASE remote.pc = "request"
    <3>1. Head(Up) = "request" /\ remote'.pc = "dial"
      BY <1>4, <2>1, Zenon DEF RemoteOK
    <3>2. Seen = 1
      BY <1>7, <3>1 DEF Kind
    <3> QED
      BY <1>7, <3>1, <3>2
  <2>2. CASE remote.pc = "relay"
    BY <1>4, <1>7, <2>2, SMTT(30) DEF RemoteOK
  <2> QED
    BY <1>6, <2>1, <2>2, Zenon
<1>13. RemoteOK'
  BY <1>2, <1>4, <1>5, <1>6, <1>8, <1>12, SMTT(30) DEF RemoteOK
<1>14. EndOK'
  BY <1>2, <1>4, <1>6, <1>8, <1>12, EndsOK, Zenon
<1> QED
  BY <1>2, <1>4, <1>5, <1>7, <1>9, <1>10, <1>11, <1>13, <1>14, Zenon DEF Typed

\* ServeConn gives up, SendServerFailureReply does, or the copies end.
LEMMA QuietStep ==
  ASSUME Inv, UNCHANGED <<conn, local>>, Up' = Up, Down' = Down,
         stream' \in StreamType, remote' \in RemoteType, dest' \in DestType,
         stream'.proto = stream.proto, stream.reset => stream'.reset, stream.downEnd => stream'.downEnd,
         dest.st = "none" <=> dest'.st = "none", remote'.reply = remote.reply, remote.pc # "none",
         \/ /\ stream' = stream /\ remote'.pc = "sleep" /\ remote'.copying = {}
            /\ remote.pc \in {"greeting", "request", "relay"}
         \/ /\ remote.pc \in {"failGreeting", "failRequest"} /\ remote'.pc = "done"
            /\ remote'.copying = remote.copying /\ stream'.downEnd = stream.downEnd
         \/ /\ remote.pc = "relay" /\ remote'.pc = "relay" /\ stream'.reset = stream.reset
            /\ remote'.copying \subseteq remote.copying
            /\ stream'.downEnd => stream.downEnd \/ "down" \notin remote'.copying
  PROVE  Inv'
<1> USE DEF Inv
<1>1. Sent' = Sent /\ Taken' = Taken /\ Got' = Got /\ Read' = Read /\ conn'.app = conn.app
  BY Zenon DEF Sent, Taken, Got, Read
<1>2. Told' = Told /\ Seen' = Seen /\ AppOK' /\ WayUp' /\ WayDown'
  BY <1>1, SameMessages, SMTT(30)
<1>3. LocalOK'
  BY <1>2, HereOK, Zenon
<1>4. RemoteOK'
  BY <1>2, Zenon DEF RemoteOK
<1>5. remote'.pc = "done" => remote.reply = "none"
  BY Zenon DEF RemoteOK
<1>6. EndOK'
  BY <1>2, <1>5, EndsOK, Zenon
<1> QED
  BY <1>2, <1>3, <1>4, <1>6, Zenon DEF Typed

\* ServeConn replies to the request, while this node still copies to the program.
LEMMA DialStep ==
  ASSUME Inv, ServeDial
  PROVE  Inv'
<1> USE DEF Inv
<1>1. PICK r \in {"denied", "unreachable", "ok"} :
        /\ stream' = [stream EXCEPT !.down = IF stream.reset THEN Down ELSE Append(Down, r)]
        /\ IF r = "ok" THEN /\ remote' = [pc |-> "relay", copying |-> BothCopies, reply |-> r]
                            /\ dest' = [dest EXCEPT !.st = "open"]
           ELSE remote' = [remote EXCEPT !.pc = "sleep", !.reply = r] /\ UNCHANGED dest
  BY Zenon DEF ServeDial, Down, Typed, StreamType
<1>2. UNCHANGED <<conn, local>> /\ remote.pc = "dial"
  BY Zenon DEF ServeDial
<1>3. r \in Answer /\ r \in Replies /\ {"relay", "sleep"} \subseteq RemotePC
  BY Zenon DEF Answer, Replies, RemotePC
<1>4. Append(Down, r) \in Seq(Answer)
  BY <1>3, Lengths
<1>5. /\ stream' \in StreamType /\ stream'.proto = stream.proto /\ Up' = Up
      /\ Down' = (IF stream.reset THEN Down ELSE Append(Down, r))
      /\ stream'.downEnd = stream.downEnd /\ stream'.reset = stream.reset
  <2>1. CASE stream.reset
    BY <1>1, <2>1, Zenon DEF Typed, StreamType, Up, Down
  <2>2. CASE ~stream.reset
    BY <1>1, <1>4, <2>2, Zenon DEF Typed, StreamType, Up, Down
  <2> QED
    BY <2>1, <2>2, Zenon
<1>6. /\ remote' \in RemoteType /\ remote'.reply = r
      /\ r = "ok" => remote'.pc = "relay" /\ remote'.copying = BothCopies
      /\ r # "ok" => remote'.pc = "sleep" /\ remote'.copying = remote.copying
  <2>1. CASE r = "ok"
    BY <1>1, <1>3, <2>1 DEF RemoteType
  <2>2. CASE r # "ok"
    <3>1. remote' = [remote EXCEPT !.pc = "sleep", !.reply = r]
      BY <1>1, <2>2, Zenon
    <3> QED
      BY <1>3, <2>2, <3>1, Zenon DEF Typed, RemoteType
  <2> QED
    BY <2>1, <2>2, Zenon
<1>7. dest' \in DestType /\ (r = "ok" => dest'.st # "none") /\ dest.st = "none"
  BY <1>1, <1>2 DEF Typed, DestType, RemoteOK
<1>8. Sent' = Sent /\ Taken' = Taken /\ Got' = Got /\ Read' = Read /\ conn'.app = conn.app
  BY <1>2, Zenon DEF Sent, Taken, Got, Read
<1>9. Seen' = Seen /\ Seen >= 2 /\ Taken >= 2 /\ Len(Sent) >= 2
  <2>1. Seen' = Seen /\ Seen >= 2
    BY <1>2, <1>5, <1>8, Zenon DEF Seen, RemoteOK
  <2> QED
    BY <2>1, Lengths, SMTT(30) DEF Seen, AppOK
<1>10. Len(Told) = 1 /\ Told[1] = "noauth" /\ Len(Got) = 1
  <2>1. Len(Got) >= 1 /\ Got[1] = "noauth" /\ Len(Told) <= 1
    BY <1>2, <1>9, Zenon DEF WayDown, RemoteOK
  <2>2. Len(Got) \in Nat /\ Len(Down) \in Nat /\ Len(Told) = Len(Got) + Len(Down)
    BY Lengths, Zenon
  <2>3. Told[1] = Got[1]
    BY <2>1, <2>2, ToldAnswers
  <2>4. Len(Told) = 1 /\ Len(Got) = 1
    BY <2>1, <2>2
  <2> QED
    BY <2>1, <2>3, <2>4, Zenon
<1>11. ~Refused
  BY <1>9, Zenon DEF Refused, WayDown
<1>12. stream.reset => conn.app = "closed"
  BY <1>2, <1>11, Zenon DEF EndOK
<1>13. AppOK'
  BY <1>8, Zenon DEF AppOK
<1>14. WayUp'
  BY <1>5, <1>8, <1>9, Zenon DEF WayUp
<1>15. WayDown' /\ (~stream.reset => Len(Told)' = 2 /\ Told'[2] = r)
  <2>1. CASE stream.reset
    <3>1. Told' = Told
      BY <1>5, <1>8, <2>1, Zenon DEF Told
    <3> QED
      BY <1>7, <1>8, <1>10, <2>1, <3>1, Zenon DEF WayDown, Legal
  <2>2. CASE ~stream.reset
    <3>1. Down' = Append(Down, r)
      BY <1>5, <2>2, Zenon
    <3>2. WayDown' /\ Len(Told)' = Len(Told) + 1 /\ Told'[Len(Told) + 1] = r
      BY <1>2, <1>3, <1>7, <1>9, <1>10, <3>1, WritesDown, Zenon
    <3> QED
      BY <1>10, <3>2
  <2> QED
    BY <2>1, <2>2, SMTT(30)
<1>16. LocalOK'
  <2>1. local.pc # "auth"
    BY <1>9, SMTT(30) DEF LocalOK
  <2> QED
    BY <1>2, <1>5, <1>6, <2>1, HereOK, Zenon
<1>17. RemoteOK'
  <2>1. remote.copying = {} /\ ~stream.downEnd /\ stream.proto # "none"
    BY <1>2, Zenon DEF RemoteOK
  <2> QED
    BY <1>5, <1>6, <1>7, <1>9, <1>15, <2>1, SMTT(30) DEF RemoteOK
<1>18. conn.app # "closed" => "down" \in local.copying
  <2> SUFFICES ASSUME conn.app # "closed", "down" \notin local.copying PROVE FALSE
    BY Zenon
  <2>1. ~stream.reset /\ ~stream.downEnd
    BY <1>2, <1>12, Zenon DEF RemoteOK
  <2>2. local.pc \notin {"copy", "done"}
    BY <1>2, <2>1, SMTT(30) DEF EndOK
  <2>3. local.pc \notin {"auth", "failGreeting"}
    BY <1>2, <1>9, <2>1 DEF LocalOK
  <2>4. local.pc \in LocalPC
    BY Zenon DEF Typed, LocalType
  <2> QED
    BY <1>2, <2>2, <2>3, <2>4, Zenon DEF LocalOK, LocalPC
<1>19. EndOK'
  BY <1>2, <1>5, <1>6, <1>8, <1>12, <1>15, <1>18, SMTT(30) DEF EndOK, Refused
<1> QED
  BY <1>2, <1>5, <1>6, <1>7, <1>13, <1>14, <1>15, <1>16, <1>17, <1>19, Zenon DEF Typed

\* ServeConn passes on what the destination answers.
LEMMA AnswerStep ==
  ASSUME Inv, RelayDown
  PROVE  Inv'
<1> USE DEF Inv
<1>1. /\ stream' = [stream EXCEPT !.down = Append(Down, "answer")] /\ UNCHANGED <<conn, local, remote>>
      /\ "down" \in remote.copying /\ ~stream.reset /\ dest.out > 0 /\ dest' = [dest EXCEPT !.out = dest.out - 1]
  BY Zenon DEF RelayDown, Down, Typed, StreamType, DestType
<1>2. Append(Down, "answer") \in Seq(Answer) /\ "answer" \in Answer
  BY Lengths, Messages
<1>3. /\ stream' \in StreamType /\ stream'.proto = stream.proto /\ Up' = Up /\ Down' = Append(Down, "answer")
      /\ stream'.downEnd = stream.downEnd /\ stream'.reset = stream.reset
  BY <1>1, <1>2, Zenon DEF Typed, StreamType, Up, Down
<1>4. dest' \in DestType /\ dest'.st = dest.st
  BY <1>1 DEF Typed, DestType
<1>5. Sent' = Sent /\ Taken' = Taken /\ Got' = Got /\ Read' = Read /\ conn'.app = conn.app
  BY <1>1, Zenon DEF Sent, Taken, Got, Read
<1>6. remote.pc = "relay" /\ Len(Told) >= 2 /\ Told[2] = "ok" /\ Seen >= 2
  BY <1>1, Zenon DEF RemoteOK
<1>7. /\ WayDown' /\ Len(Told)' = Len(Told) + 1 /\ \A i \in 1 .. Len(Told) : Told'[i] = Told[i]
  BY <1>1, <1>2, <1>3, <1>4, <1>6, WritesDown, Zenon
<1>8. Len(Told)' >= 2 /\ Told'[2] = Told[2] /\ Seen' = Seen
  BY <1>3, <1>5, <1>6, <1>7, Lengths, SMTT(30) DEF Seen
<1>9. AppOK' /\ WayUp'
  BY <1>3, <1>5, <1>8, Zenon DEF AppOK, WayUp
<1>10. LocalOK'
  <2>1. local.pc # "auth"
    BY <1>6, Lengths, SMTT(30) DEF LocalOK, Seen
  <2> QED
    BY <1>1, <1>3, <1>6, <2>1, HereOK, Zenon
<1>11. RemoteOK'
  BY <1>1, <1>3, <1>4, <1>6, <1>8, Zenon DEF RemoteOK
<1>12. EndOK'
  BY <1>1, <1>3, <1>5, <1>8, Zenon DEF EndOK, Refused
<1> QED
  BY <1>1, <1>3, <1>4, <1>7, <1>9, <1>10, <1>11, <1>12, Zenon DEF Typed

\* Every step of the exit node keeps the invariant.
LEMMA RemoteInv ==
  ASSUME Inv, RemoteStep
  PROVE  Inv'
<1>1. CASE ProxyStreamHandler \/ ProxyStreamEnabled \/ ProxyStreamReturns
  BY <1>1, HandlerStep, Zenon
<1>2. CASE ServeDial
  BY <1>2, DialStep, Zenon
<1>3. CASE RelayDown
  BY <1>3, AnswerStep, Zenon
<1>4. CASE RelayUp
  <2>1. /\ UNCHANGED <<conn, local, remote>> /\ Up # <<>> /\ "up" \in remote.copying
        /\ stream' = [stream EXCEPT !.up = Tail(Up)] /\ dest' = [dest EXCEPT !.in = @ + 1]
    BY <1>4, Zenon DEF RelayUp, Up, Inv, Typed, StreamType
  <2> QED
    BY <2>1, ReadStep, Zenon
<1> DEFINE Quiet == /\ UNCHANGED <<conn, local>> /\ Up' = Up /\ Down' = Down
                    /\ stream' \in StreamType /\ remote' \in RemoteType /\ dest' \in DestType
                    /\ stream'.proto = stream.proto /\ (stream.reset => stream'.reset)
                    /\ (stream.downEnd => stream'.downEnd)
                    /\ (dest.st = "none" <=> dest'.st = "none") /\ remote'.reply = remote.reply
<1>5. {"sleep", "done"} \subseteq RemotePC
  BY Zenon DEF RemotePC
<1>6. CASE RelayUpEnds \/ RelayDownEnds \/ RelayReturns
  <2>1. remote.pc = "relay" /\ dest.st # "none"
    BY <1>6, SMTT(30) DEF RelayUpEnds, RelayDownEnds, RelayReturns, Inv, RemoteOK
  <2>2. CASE RelayUpEnds
    <3>1. Quiet /\ stream' = stream /\ remote'.pc = "relay" /\ remote'.copying \subseteq remote.copying
      BY <2>1, <2>2, Zenon DEF RelayUpEnds, Inv, Typed, RemoteType, DestType, Up, Down
    <3> QED
      BY <2>1, <3>1, QuietStep, Zenon
  <2>3. CASE RelayDownEnds
    <3>1. /\ Quiet /\ remote'.pc = "relay" /\ remote'.copying \subseteq remote.copying
          /\ "down" \notin remote'.copying /\ stream'.reset = stream.reset
      BY <2>1, <2>3, Zenon DEF RelayDownEnds, Inv, Typed, RemoteType, StreamType, Up, Down
    <3> QED
      BY <2>1, <3>1, QuietStep, Zenon
  <2>4. CASE RelayReturns
    <3>1. remote' = [remote EXCEPT !.pc = "sleep", !.copying = {}] /\ dest' = [dest EXCEPT !.st = "closed"]
          /\ UNCHANGED <<conn, local, stream>>
      BY <2>4, Zenon DEF RelayReturns
    <3>2. remote' \in RemoteType /\ remote'.pc = "sleep" /\ remote'.copying = {} /\ remote'.reply = remote.reply
      BY <1>5, <3>1, Zenon DEF Inv, Typed, RemoteType
    <3>3. Quiet /\ stream' = stream
      BY <2>1, <3>1, <3>2, Zenon DEF Inv, Typed, DestType, Up, Down
    <3> QED
      BY <2>1, <3>2, <3>3, QuietStep, Zenon
  <2> QED
    BY <1>6, <2>2, <2>3, <2>4, Zenon
<1>7. ASSUME UNCHANGED <<conn, local, stream, dest>>, remote.pc \in {"greeting", "request"}, RemoteGoto("sleep")
      PROVE  Inv'
  <2>1. /\ remote' \in RemoteType /\ remote'.pc = "sleep" /\ remote'.copying = remote.copying
        /\ remote'.reply = remote.reply
    BY <1>5, <1>7, SMTT(30) DEF RemoteGoto, Inv, Typed, RemoteType
  <2>2. remote.copying = {}
    BY <1>7, Zenon DEF Inv, RemoteOK
  <2>3. Quiet
    BY <1>7, <2>1, Zenon DEF Inv, Typed, Up, Down
  <2> QED
    BY <1>7, <2>1, <2>2, <2>3, QuietStep, Zenon
<1>8. CASE ServeGreeting
  <2>1. CASE Up # <<>> /\ stream' = Replied(IF conn.offers THEN "noauth" ELSE "noacceptable")
             /\ RemoteGoto(IF conn.offers THEN "request" ELSE "sleep")
    <3>1. UNCHANGED <<conn, local, dest>> /\ remote.pc = "greeting"
      BY <1>8, Zenon DEF ServeGreeting
    <3>2. CASE conn.offers
      BY <2>1, <3>1, <3>2, RepliedStep, SMTT(30) DEF RemoteGoto
    <3>3. CASE ~conn.offers
      BY <2>1, <3>1, <3>3, RepliedStep, Zenon DEF RemoteGoto
    <3> QED
      BY <3>2, <3>3, Zenon
  <2> QED
    BY <1>7, <1>8, <2>1, Zenon DEF ServeGreeting, Up
<1>9. CASE ServeRequest
  <2>1. CASE Up # <<>> /\ Head(Up) = "request" /\ stream' = [stream EXCEPT !.up = Tail(@)] /\ RemoteGoto("dial")
    <3>1. UNCHANGED <<conn, local, dest>> /\ remote.pc = "request" /\ remote' = [remote EXCEPT !.pc = "dial"]
      BY <1>9, <2>1, Zenon DEF ServeRequest, RemoteGoto
    <3>2. stream' = [stream EXCEPT !.up = Tail(Up)]
      BY <2>1, Zenon DEF Up, Inv, Typed, StreamType
    <3> QED
      BY <2>1, <3>1, <3>2, ReadStep, Zenon
  <2> QED
    BY <1>7, <1>9, <2>1, Zenon DEF ServeRequest, Up
<1>10. CASE RemoteFailure
  <2>1. UNCHANGED <<conn, local, dest>>
    BY <1>10, Zenon DEF RemoteFailure
  <2>2. CASE remote.pc = "failGreeting" /\ Up # <<>> /\ stream' = Replied("noauth") /\ RemoteGoto("failRequest")
    BY <2>1, <2>2, RepliedStep, Zenon DEF RemoteGoto
  <2>3. CASE remote.pc = "failRequest" /\ Up # <<>> /\ stream' = Reset(Replied("failure")) /\ RemoteGoto("done")
    BY <2>1, <2>3, RepliedStep, Zenon DEF RemoteGoto
  <2>4. CASE remote.pc \in {"failGreeting", "failRequest"} /\ stream' = Reset(stream) /\ RemoteGoto("done")
    <3>1. /\ remote' \in RemoteType /\ remote'.pc = "done" /\ remote'.copying = remote.copying
          /\ remote'.reply = remote.reply
      BY <1>5, <2>4, Zenon DEF RemoteGoto, Inv, Typed, RemoteType
    <3>2. Quiet /\ stream'.downEnd = stream.downEnd
      BY <2>1, <2>4, <3>1, Zenon DEF Reset, Inv, Typed, StreamType, Up, Down
    <3> QED
      BY <2>4, <3>1, <3>2, QuietStep, Zenon
  <2> QED
    BY <1>10, <2>2, <2>3, <2>4, Zenon DEF RemoteFailure, Up
<1> QED
  BY <1>1, <1>2, <1>3, <1>4, <1>6, <1>8, <1>9, <1>10, Zenon DEF RemoteStep

\* The destination and changes of the settings keep the invariant.
LEMMA DestStep ==
  ASSUME Inv, DestAnswers \/ DestCloses \/ ChangeSettings \/ UNCHANGED vars
  PROVE  Inv'
<1> USE DEF Inv
<1>1. UNCHANGED <<conn, local, stream, remote>>
  BY Zenon DEF DestAnswers, DestCloses, ChangeSettings, vars
<1>2. dest' \in DestType /\ (dest.st = "none" <=> dest'.st = "none")
  <2>1. CASE DestAnswers
    <3>1. dest.in > 0 /\ dest' = [dest EXCEPT !.in = dest.in - 1, !.out = dest.out + 1]
      BY <2>1, Zenon DEF DestAnswers, Typed, DestType
    <3>2. dest.in - 1 \in Nat /\ dest.out + 1 \in Nat
      BY <3>1 DEF Typed, DestType
    <3> QED
      BY <3>1, <3>2, Zenon DEF Typed, DestType
  <2>2. CASE DestCloses
    BY <2>2, Zenon DEF DestCloses, Typed, DestType
  <2>3. CASE ChangeSettings \/ UNCHANGED vars
    BY <2>3, Zenon DEF ChangeSettings, vars, Typed
  <2> QED
    BY <2>1, <2>2, <2>3
<1>3. /\ Sent' = Sent /\ Taken' = Taken /\ Got' = Got /\ Read' = Read /\ conn'.app = conn.app
      /\ Up' = Up /\ Down' = Down
  BY <1>1, Zenon DEF Sent, Taken, Got, Read, Up, Down
<1>4. Told' = Told /\ Seen' = Seen /\ AppOK' /\ WayUp' /\ WayDown'
  BY <1>2, <1>3, SameMessages, Zenon
<1>5. LocalOK'
  BY <1>1, <1>3, <1>4, Zenon DEF LocalOK
<1>6. RemoteOK'
  BY <1>1, <1>2, <1>3, <1>4, SMTT(30) DEF RemoteOK
<1>7. EndOK'
  BY <1>1, <1>3, <1>4, Zenon DEF EndOK, Refused
<1> QED
  BY <1>1, <1>2, <1>4, <1>5, <1>6, <1>7, Zenon DEF Typed

-----------------------------------------------------------------------------
(* What follows from it.                                                   *)

\* The invariant holds throughout every session, however many messages are sent
\* and however often the settings change.
THEOREM SessionInv == Spec => []Inv
<1>1. Inv /\ [Next]_vars => Inv'
  BY AppStep, ConnectStep, AuthStep, CopyStep, EndStep, RemoteInv, DestStep, Zenon DEF Next, LocalStep
<1> QED
  BY <1>1, InitInv, PTL DEF Spec

\* Whatever ServeConn replied to the request has reached the program when
\* ProxyStreamHandler has reset the stream, unless the program has left.
THEOREM RepliesArrive == Spec => []ReplyDelivered
<1>1. Inv => ReplyDelivered
  <2> SUFFICES ASSUME Inv, remote.pc = "done", remote.reply # "none", conn.app # "closed"
               PROVE  Len(Got) >= 2 /\ Got[2] = remote.reply
    BY Zenon DEF ReplyDelivered, Got
  <2>1. Len(Got) >= 2 /\ Len(Told) >= 2 /\ Told[2] = remote.reply
    BY Zenon DEF Inv, EndOK
  <2>2. Len(Got) \in Nat
    BY Lengths, Zenon DEF Inv
  <2>3. Told[2] = Got[2]
    BY <2>1, <2>2, ToldAnswers DEF Inv
  <2> QED
    BY <2>1, <2>3, Zenon
<1> QED
  BY <1>1, SessionInv, PTL

\* Lengths that are bounded from both sides.
LEMMA Exactly ==
  /\ Len(<<>>) = 0
  /\ \A n \in Nat : /\ n >= 1 /\ ~(n >= 2) => n = 1
                    /\ n >= 2 /\ ~(n >= 3) => n = 2
                    /\ n >= 2 => n # 1 /\ n # 0
OBVIOUS

\* The answers so far are the method alone.
LEMMA JustNoAuth ==
  ASSUME NEW s \in Seq(Answer), Len(s) >= 1, ~(Len(s) >= 2), s[1] = "noauth"
  PROVE  s = <<"noauth">>
<1>1. Len(s) \in Nat
  OBVIOUS
<1>2. Len(s) = 1
  BY <1>1, Exactly, Zenon
<1> QED
  BY <1>2

\* The program writes when it may, or does something nobody else sees.
LEMMA AppConverses ==
  ASSUME Inv, AppGreets \/ AppReads \/ AppSends \/ AppSeesEnd \/ AppLeaves
  PROVE  [Conv!Next]_Conv!cvars
<1> USE DEF Inv
<1>1. UNCHANGED dest
  BY Zenon DEF AppGreets, AppReads, AppSends, AppSeesEnd, AppLeaves, AppOnly
<1>2. CASE AppGreets
  <2>1. PICK o \in BOOLEAN : conn' = [conn EXCEPT !.app = "method", !.offers = o, !.sent = <<"greeting">>]
    BY <1>2, Zenon DEF AppGreets
  <2>2. conn.app = "greet"
    BY <1>2, Zenon DEF AppGreets
  <2>3. conn'.sent = <<"greeting">> /\ conn'.got = conn.got /\ conn'.hungUp = conn.hungUp
    BY <2>1, Zenon DEF Typed, ConnType
  <2>4. Len(Sent) = 0 /\ Sent \in Seq(Asks)
    BY <2>2, Lengths, Zenon DEF AppOK
  <2>5. conn.sent = <<>>
    BY <2>4 DEF Sent
  <2>6. Conv!Ask("greeting")
    BY <1>1, <2>3, <2>5, SMTT(30) DEF Conv!Ask
  <2> QED
    BY <2>6, Zenon DEF Conv!Next
<1>3. CASE AppSends
  <2>1. conn.app = "data" /\ conn' = [conn EXCEPT !.sent = Append(conn.sent, "data")]
    BY <1>3, Zenon DEF AppSends
  <2>2. conn'.sent = Append(conn.sent, "data") /\ conn'.got = conn.got /\ conn'.hungUp = conn.hungUp
    BY <2>1, Zenon DEF Typed, ConnType
  <2>3. Len(Sent) >= 2 /\ Len(Got) >= 2 /\ Got[2] = "ok" /\ Len(Sent) \in Nat
    BY <2>1, Lengths, SMTT(30) DEF AppOK
  <2>4. ~(Len(Sent) = 1) /\ Sent # <<>>
    BY <2>3, Exactly, Zenon
  <2>5. Conv!Ask("data")
    BY <1>1, <2>2, <2>3, <2>4, Zenon DEF Conv!Ask, Sent, Got
  <2> QED
    BY <2>5, Zenon DEF Conv!Next
<1>4. CASE AppSeesEnd \/ AppLeaves
  <2>1. conn'.sent = conn.sent /\ conn'.got = conn.got /\ conn'.hungUp = conn.hungUp
    BY <1>4, Zenon DEF AppSeesEnd, AppLeaves, Typed, ConnType
  <2> QED
    BY <1>1, <2>1, Zenon DEF Conv!cvars
<1>5. CASE AppReads
  <2>1. CASE conn.app = "method" /\ Got[Read + 1] = "noauth" /\ conn.offers
    <3>1. conn' = [conn EXCEPT !.read = Read + 1, !.app = "reply", !.sent = Append(Sent, "request")] /\ Read < Len(Got)
      BY <1>5, <2>1, Zenon DEF AppReads, Typed, ConnType, Got, Read, Sent
    <3>2. conn'.sent = Append(conn.sent, "request") /\ conn'.got = conn.got /\ conn'.hungUp = conn.hungUp
      BY <3>1, Zenon DEF Typed, ConnType, Sent
    <3>3. Len(Sent) = 1 /\ Read = 0
      BY <2>1, Zenon DEF AppOK
    <3>4. Len(Got) >= 1 /\ ~(Len(Told) >= 2) /\ Got[1] = "noauth"
      BY <2>1, <3>1, <3>3, Lengths DEF WayDown
    <3>5. Got \in Seq(Answer) /\ ~(Len(Got) >= 2)
      BY <3>4, Lengths
    <3>6. Got = <<"noauth">>
      BY <3>4, <3>5, JustNoAuth, Zenon
    <3>7. Sent # <<>>
      BY <3>3, SMTT(30)
    <3>8. Conv!Ask("request")
      BY <1>1, <3>2, <3>3, <3>6, <3>7, Zenon DEF Conv!Ask, Sent, Got
    <3> QED
      BY <3>8, Zenon DEF Conv!Next
  <2>2. CASE ~(conn.app = "method" /\ Got[Read + 1] = "noauth" /\ conn.offers)
    <3>1. conn'.sent = conn.sent /\ conn'.got = conn.got /\ conn'.hungUp = conn.hungUp
      BY <1>5, <2>2, Zenon DEF AppReads, Typed, ConnType, Got, Read
    <3> QED
      BY <1>1, <3>1, Zenon DEF Conv!cvars
  <2> QED
    BY <2>1, <2>2, Zenon
<1> QED
  BY <1>2, <1>3, <1>4, <1>5, Zenon

\* An answer that is written is one whose turn it is.
LEMMA AnswerConverses ==
  ASSUME Inv, NEW m \in Answer, ~conn.hungUp, conn'.hungUp = conn.hungUp, UNCHANGED dest, Sent' = Sent,
         Got' = Append(Got, m),
         \/ Len(Got) = 0 /\ m \in Methods /\ Len(Sent) >= 1
         \/ Len(Got) = 1 /\ Got[1] = "noauth" /\ m \in Replies /\ Len(Sent) >= 2 /\ (m = "ok" => dest.st # "none")
         \/ Len(Got) >= 2 /\ Got[2] = "ok" /\ m = "answer"
  PROVE  Conv!Next
<1> USE DEF Inv
<1>1. m \in Conv!Methods \cup Conv!Replies \cup {"answer"}
  BY Zenon DEF Answer, Methods, Replies, Conv!Methods, Conv!Replies
<1>2. conn'.got = Append(conn.got, m) /\ conn'.sent = conn.sent
  BY Zenon DEF Got, Sent
<1>3. Got \in Seq(Answer) /\ Sent \in Seq(Asks) /\ Len(Sent) \in Nat /\ Len(Got) \in Nat
  BY Lengths, Zenon
<1>4. CASE Len(Got) = 0
  <2>1. Got = <<>> /\ Sent # <<>> /\ m \in Methods
    BY <1>3, <1>4, SMTT(30)
  <2>2. Conv!Answer(m)
    BY <1>2, <2>1, Zenon DEF Conv!Answer, Got, Sent, Methods, Conv!Methods
  <2> QED
    BY <1>1, <2>2, Zenon DEF Conv!Next
<1>5. CASE Len(Got) = 1
  <2>1. Got[1] = "noauth" /\ m \in Replies /\ Len(Sent) >= 2 /\ (m = "ok" => dest.st # "none")
    BY <1>5
  <2>2. Got = <<"noauth">>
    BY <1>3, <1>5, <2>1, SMTT(30)
  <2>3. ~(Len(Sent) >= 3)
    BY <1>5 DEF WayDown
  <2>4. Len(Sent) = 2
    BY <1>3, <2>1, <2>3, Exactly, Zenon
  <2>5. Conv!Answer(m)
    BY <1>2, <2>1, <2>2, <2>4, Zenon DEF Conv!Answer, Got, Sent, Replies, Conv!Replies
  <2> QED
    BY <1>1, <2>5, Zenon DEF Conv!Next
<1>6. CASE Len(Got) >= 2
  <2>1. Got[2] = "ok" /\ m = "answer"
    BY <1>6, SMTT(30)
  <2>2. Conv!Answer(m)
    BY <1>2, <1>6, <2>1, Zenon DEF Conv!Answer, Got
  <2> QED
    BY <1>1, <2>2, Zenon DEF Conv!Next
<1> QED
  BY <1>4, <1>5, <1>6, Zenon

\* This node answers when it is its turn, or hangs up.
LEMMA LocalConverses ==
  ASSUME Inv, LocalStep
  PROVE  [Conv!Next]_Conv!cvars
<1> USE DEF Inv
<1>1. UNCHANGED dest
  BY Zenon DEF LocalStep, proxyConnPick, proxyConnPeer, proxyConnFails, proxyConnStream, HandleLocalAuth,
         CopyUp, CopyUpEnds, CopyDown, CopyDownEnds, proxyConnReturns, LocalFailure
<1>2. CASE UNCHANGED conn
  BY <1>1, <1>2, Zenon DEF Conv!cvars
<1>3. ASSUME conn' = [conn EXCEPT !.hungUp = TRUE] PROVE Conv!HangUp
  <2>1. conn'.sent = conn.sent /\ conn'.got = conn.got /\ conn'.hungUp = TRUE
    BY <1>3, Zenon DEF Typed, ConnType
  <2> QED
    BY <1>1, <2>1, Zenon DEF Conv!HangUp
<1>4. ASSUME NEW m \in Answer, conn' = Answered(m)
      PROVE  conn'.hungUp = conn.hungUp /\ Sent' = Sent /\ Got' = Append(Got, m)
  BY <1>4, Zenon DEF Answered, Typed, ConnType, Sent, Got
<1>5. Readable => Len(Sent) >= 1 /\ Len(Sent) >= Taken + 1
  BY Lengths, SMTT(30) DEF Readable, Sent, Taken
<1>6. CASE CopyUp
  <2>1. conn'.sent = conn.sent /\ conn'.got = conn.got /\ conn'.hungUp = conn.hungUp
    BY <1>6, Zenon DEF CopyUp, Typed, ConnType
  <2> QED
    BY <1>1, <2>1, Zenon DEF Conv!cvars
<1>7. CASE CopyDownEnds \/ proxyConnReturns
  BY <1>3, <1>7, Zenon DEF CopyDownEnds, proxyConnReturns, Conv!Next
<1>8. CASE HandleLocalAuth /\ Readable
  <2> DEFINE m == IF conn.offers THEN "noauth" ELSE "noacceptable"
  <2>1. conn' = Answered(m) /\ local.pc = "auth" /\ m \in Methods /\ m \in Answer
    BY <1>8, Zenon DEF HandleLocalAuth, Methods, Answer
  <2>2. ~conn.hungUp /\ Len(Told) = 0
    BY <2>1, Zenon DEF LocalOK
  <2>3. Len(Got) = 0
    BY <2>2, Lengths, SMTT(30)
  <2> HIDE DEF m
  <2> QED
    BY <1>1, <1>4, <1>5, <1>8, <2>1, <2>2, <2>3, AnswerConverses, Zenon
<1>9. CASE CopyDown
  <2>1. "down" \in local.copying /\ Down # <<>> /\ conn' = [conn EXCEPT !.got = Append(Got, Head(Down))]
    BY <1>9, Zenon DEF CopyDown, Down, Got, Typed, ConnType
  <2>2. Head(Down) \in Answer /\ Head(Down) = Down[1] /\ Len(Down) >= 1
    BY <2>1, Lengths
  <2>3. Sent' = Sent /\ Got' = Append(Got, Head(Down)) /\ conn'.hungUp = conn.hungUp
    BY <2>1, Zenon DEF Typed, ConnType, Sent, Got
  <2>4. ~conn.hungUp
    BY <2>1, Zenon DEF LocalOK
  <2>5. /\ Told[Len(Got) + 1] = Head(Down) /\ Len(Told) >= Len(Got) + 1 /\ Len(Got) \in Nat /\ Len(Told) \in Nat
        /\ \A i \in 1 .. Len(Got) : Told[i] = Got[i]
    BY <2>2, ToldAnswers, Lengths, SMTT(30)
  <2>6. \/ Len(Got) = 0 /\ Head(Down) \in Methods /\ Len(Sent) >= 1
        \/ Len(Got) = 1 /\ Got[1] = "noauth" /\ Head(Down) \in Replies /\ Len(Sent) >= 2 /\ (Head(Down) = "ok" => dest.st # "none")
        \/ Len(Got) >= 2 /\ Got[2] = "ok" /\ Head(Down) = "answer"
    <3>1. CASE Len(Got) = 0
      BY <2>5, <3>1 DEF WayDown, Legal
    <3>2. CASE Len(Got) = 1
      <4>1. Told[2] = Head(Down) /\ Len(Told) >= 2 /\ Told[1] = Got[1]
        BY <2>5, <3>2, SMTT(30)
      <4> QED
        BY <3>2, <4>1, Zenon DEF WayDown, Legal
    <3>3. CASE Len(Got) >= 2
      <4>1. Told[2] = Got[2] /\ Len(Told) >= 3 /\ Len(Got) + 1 \in 3 .. Len(Told)
        BY <2>5, <3>3
      <4> QED
        BY <2>5, <3>3, <4>1, Zenon DEF WayDown, Legal
    <3> QED
      BY <2>5, <3>1, <3>2, <3>3, SMTT(60)
  <2> QED
    BY <1>1, <2>2, <2>3, <2>4, <2>6, AnswerConverses, Zenon
<1>10. CASE LocalFailure
  <2>1. CASE local.pc = "failed" \/ (local.pc \in {"failGreeting", "failRequest"} /\ ConnEnded)
    <3>1. conn' = [conn EXCEPT !.hungUp = TRUE]
      BY <1>10, <2>1, Zenon DEF LocalFailure, ConnEnded
    <3> QED
      BY <1>3, <3>1, Zenon DEF Conv!Next
  <2>2. CASE local.pc = "failGreeting" /\ Readable
    <3>1. conn' = Answered("noauth") /\ "noauth" \in Answer /\ "noauth" \in Methods
      BY <1>10, <2>2, Zenon DEF LocalFailure, ConnEnded, Answer, Methods
    <3>2. Taken < Len(Sent)
      BY <2>2, Zenon DEF Readable, Taken, Sent
    <3>3. Len(Told) = 0
      <4>1. Refused => ~(Len(Sent) >= 2)
        BY Zenon DEF Refused, WayDown
      <4>2. Len(Got) = 1 /\ Got[1] = "noacceptable" => Refused
        BY Lengths, SMTT(30) DEF Refused
      <4> QED
        BY <2>2, <3>2, <4>1, <4>2, Lengths, SMTT(30) DEF LocalOK
    <3>4. ~conn.hungUp /\ Len(Got) = 0
      BY <2>2, <3>3, Lengths, SMTT(30) DEF LocalOK
    <3> QED
      BY <1>1, <1>4, <1>5, <2>2, <3>1, <3>4, AnswerConverses, Zenon
  <2>3. CASE local.pc = "failRequest" /\ Readable
    <3>1. conn' = Answered("failure") /\ "failure" \in Answer /\ "failure" \in Replies
      BY <1>10, <2>3, Zenon DEF LocalFailure, ConnEnded, Answer, Replies
    <3>2. Taken = 1 /\ Len(Told) = 1 /\ Got[1] = "noauth" /\ ~conn.hungUp /\ Down = <<>>
      BY <2>3, Zenon DEF LocalOK, RemoteOK
    <3>3. Len(Got) = 1 /\ Len(Sent) >= 2
      BY <1>5, <2>3, <3>2, Lengths, SMTT(30)
    <3> QED
      BY <1>1, <1>4, <3>1, <3>2, <3>3, AnswerConverses, Zenon
  <2> QED
    BY <1>10, <2>1, <2>2, <2>3, Zenon DEF LocalFailure
<1> QED
  BY <1>2, <1>6, <1>7, <1>8, <1>9, <1>10, Zenon
  DEF LocalStep, proxyConnPick, proxyConnPeer, proxyConnFails, proxyConnStream, HandleLocalAuth, CopyUpEnds

\* The exit node reaches the destination after the request.
LEMMA OthersConverse ==
  ASSUME Inv, RemoteStep \/ DestAnswers \/ DestCloses \/ ChangeSettings
  PROVE  [Conv!Next]_Conv!cvars
<1> USE DEF Inv
<1>1. UNCHANGED conn
  BY Zenon DEF RemoteStep, ProxyStreamHandler, ProxyStreamEnabled, RemoteFailure, ServeGreeting, ServeRequest, ServeDial,
         RelayUp, RelayUpEnds, RelayDown, RelayDownEnds, RelayReturns, ProxyStreamReturns,
         DestAnswers, DestCloses, ChangeSettings
<1>2. CASE (dest.st = "none") <=> (dest'.st = "none")
  BY <1>1, <1>2, Zenon DEF Conv!cvars
<1>3. CASE ServeDial
  <2>1. remote.pc = "dial" /\ dest.st = "none"
    BY <1>3, Zenon DEF ServeDial, RemoteOK
  <2>2. Len(Sent) >= 2 /\ ~(Len(Told) >= 2)
    BY <2>1, Lengths, SMTT(30) DEF RemoteOK, Seen, AppOK
  <2>3. ~(Len(Sent) >= 3) /\ Len(Sent) \in Nat
    BY <2>2, Lengths DEF WayDown
  <2>4. Len(Sent) = 2
    BY <2>2, <2>3, Exactly, Zenon
  <2>5. CASE dest'.st = "none"
    BY <1>2, <2>1, <2>5, Zenon
  <2>6. CASE dest'.st # "none"
    <3>1. Conv!Dial
      BY <1>1, <2>1, <2>4, <2>6, Zenon DEF Conv!Dial, Sent
    <3> QED
      BY <3>1, Zenon DEF Conv!Next
  <2> QED
    BY <2>5, <2>6, Zenon
<1>4. CASE RelayUp \/ RelayUpEnds \/ RelayDown \/ RelayReturns \/ DestAnswers \/ DestCloses
  <2>1. dest.st # "none"
    BY <1>4, Zenon DEF RelayUp, RelayUpEnds, RelayDown, RelayReturns, DestAnswers, DestCloses, RemoteOK
  <2>2. dest'.st # "none"
    BY <1>4, <2>1, Zenon DEF RelayUp, RelayUpEnds, RelayDown, RelayReturns, DestAnswers, DestCloses, Typed, DestType
  <2> QED
    BY <1>2, <2>1, <2>2, Zenon
<1>5. CASE UNCHANGED dest
  BY <1>2, <1>5, Zenon
<1> QED
  BY <1>3, <1>4, <1>5, Zenon
  DEF RemoteStep, ProxyStreamHandler, ProxyStreamEnabled, RemoteFailure, ServeGreeting, ServeRequest,
      RelayDownEnds, ProxyStreamReturns, ChangeSettings

\* proxyConn, the stream and ProxyStreamHandler together implement Conversation:
\* every step of theirs is a step of one SOCKS5 proxy, or one nobody sees.
THEOREM SessionConverses == Spec => Converses
<1>1. Init => Conv!Init
  BY DEF Init, Conv!Init
<1>2. Inv /\ [Next]_vars => [Conv!Next]_Conv!cvars
  <2> SUFFICES ASSUME Inv, [Next]_vars PROVE [Conv!Next]_Conv!cvars
    BY Zenon
  <2>1. CASE UNCHANGED vars
    BY <2>1, Zenon DEF vars, Conv!cvars
  <2>2. CASE Next
    BY <2>2, AppConverses, LocalConverses, OthersConverse, Zenon DEF Next
  <2> QED
    BY <2>1, <2>2, Zenon
<1> QED
  BY <1>1, <1>2, SessionInv, PTL DEF Spec, Converses, Conv!Spec
=============================================================================
