---------------------------- MODULE ProxySession ----------------------------
(* One SOCKS5 connection through an exit node: the program that connects,  *)
(* proxyConn on this node (local), the libp2p stream, ProxyStreamHandler   *)
(* on the exit node (remote) and the destination (dest).                   *)
(* src/service/socks5.go, src/socks5/server.go, src/socks5/client.go.      *)
(* The exit node speaks one of two protocols: the old one carries the      *)
(* greeting over the stream, the newer one answers it on this node.        *)
(* External: the program, the destination, and github.com/haxii/socks5,    *)
(* whose ServeConn, ServeConnNoAuth and ProxyStream are modelled from how  *)
(* they are used (ProxyStream copies until its source ends and then closes *)
(* the writing side of its target).                                        *)
EXTENDS Naturals, Sequences

CONSTANTS
  MaxChanges,  \* bound: changes of settings during the session
  MaxData      \* bound: messages the program sends to the destination

VARIABLES
  conn,    \* the connection of the program, see Init
  local,   \* [pc, copying]: proxyConn and the copies of handleStream
  stream,  \* the stream to the exit node; a reset may lose what is in it
  remote,  \* [pc, copying, reply]: ProxyStreamHandler and what it replied
  dest,    \* [st, in, out, eof]: the destination, bytes on their way to and from it
  conf,    \* the settings of both nodes that the session reads
  changes

vars == <<conn, local, stream, remote, dest, conf, changes>>

Protocols == {"old", "noauth"}

Init ==
  /\ conn = [app |-> "greet",   \* what the program does
             offers |-> TRUE,   \* it offers "no authentication"
             sent |-> <<>>, taken |-> 0,  \* its messages, and how many are read
             got |-> <<>>, read |-> 0,    \* the answers, and how many it has read
             hungUp |-> FALSE]  \* this node has closed its writing side
  /\ local = [pc |-> "pick", copying |-> {}]
  /\ stream = [proto |-> "none", up |-> <<>>, down |-> <<>>,
               upEnd |-> FALSE, downEnd |-> FALSE, reset |-> FALSE]
  /\ remote = [pc |-> "none", copying |-> {}, reply |-> "none"]
  /\ dest = [st |-> "none", in |-> 0, out |-> 0, eof |-> FALSE]
  /\ conf \in [using : BOOLEAN, allowed : BOOLEAN, weAllow : BOOLEAN, enabled : BOOLEAN]
  /\ changes = 0

\* The users of both nodes change their settings while the session runs.
ChangeSettings ==
  /\ changes < MaxChanges
  /\ changes' = changes + 1
  /\ \E f \in DOMAIN conf : conf' = [conf EXCEPT ![f] = ~@]
  /\ UNCHANGED <<conn, local, stream, remote, dest>>

-----------------------------------------------------------------------------
(* The program (external): it greets, asks, and sends once it may.         *)

AppOnly == UNCHANGED <<local, stream, remote, dest, conf, changes>>

AppGreets ==
  /\ conn.app = "greet"
  /\ \E o \in BOOLEAN :
       conn' = [conn EXCEPT !.app = "method", !.offers = o, !.sent = <<"greeting">>]
  /\ AppOnly

AppReads ==
  /\ conn.read < Len(conn.got)
  /\ LET m    == conn.got[conn.read + 1]
         c    == [conn EXCEPT !.read = @ + 1]
         next == CASE conn.app = "method" /\ m = "noauth" /\ conn.offers ->
                          [c EXCEPT !.app = "reply", !.sent = Append(@, "request")]
                   [] conn.app = "reply" /\ m = "ok" -> [c EXCEPT !.app = "data"]
                   [] conn.app = "data" -> c
                   [] OTHER -> [c EXCEPT !.app = "closed"]
     IN  conn.app # "closed" /\ conn' = next
  /\ AppOnly

AppSends ==
  /\ conn.app = "data" /\ Len(conn.sent) < 2 + MaxData
  /\ conn' = [conn EXCEPT !.sent = Append(@, "data")]
  /\ AppOnly

AppSeesEnd ==
  /\ conn.app # "closed" /\ conn.hungUp /\ conn.read = Len(conn.got)
  /\ conn' = [conn EXCEPT !.app = "closed"]
  /\ AppOnly

AppLeaves ==
  /\ conn.app # "closed"
  /\ conn' = [conn EXCEPT !.app = "closed"]
  /\ AppOnly

-----------------------------------------------------------------------------
(* This node.                                                              *)

Readable  == conn.taken < Len(conn.sent)
Incoming  == conn.sent[conn.taken + 1]
ConnEnded == ~Readable /\ conn.app = "closed"

\* The connection after its next message is read and m is written to it.
Answered(m) == [conn EXCEPT !.taken = @ + 1, !.got = Append(@, m)]

LocalGoto(pc) == local' = [local EXCEPT !.pc = pc]
Reset(s) == [s EXCEPT !.reset = TRUE]

\* proxyConn up to the stream; an error takes it to SendServerFailureReply.
proxyConnPick ==
  /\ local.pc = "pick"
  /\ LocalGoto(IF conf.using THEN "peer" ELSE "failGreeting")
  /\ UNCHANGED <<conn, stream, remote, dest, conf, changes>>

proxyConnPeer ==
  /\ local.pc = "peer"
  /\ LocalGoto(IF conf.allowed THEN "connect" ELSE "failGreeting")
  /\ UNCHANGED <<conn, stream, remote, dest, conf, changes>>

proxyConnFails ==
  /\ local.pc = "connect" /\ LocalGoto("failGreeting")
  /\ UNCHANGED <<conn, stream, remote, dest, conf, changes>>

BothCopies == {"up", "down"}

\* ConnectPeer and NewStreamMulti: the newer protocol if the exit node has it.
proxyConnStream_AuthAlways ==  \* faulty variant
  /\ local.pc = "connect"
  /\ \E p \in Protocols : stream' = [stream EXCEPT !.proto = p]
  /\ LocalGoto("auth")
  /\ remote' = [remote EXCEPT !.pc = "peer"]
  /\ UNCHANGED <<conn, dest, conf, changes>>

proxyConnStream ==
  /\ local.pc = "connect"
  /\ \E p \in Protocols :
       /\ stream' = [stream EXCEPT !.proto = p]
       /\ local' = IF p = "noauth" THEN [local EXCEPT !.pc = "auth"]
                   ELSE [pc |-> "copy", copying |-> BothCopies]
  /\ remote' = [remote EXCEPT !.pc = "peer"]
  /\ UNCHANGED <<conn, dest, conf, changes>>

HandleLocalAuth_NoReset ==  \* faulty variant
  /\ local.pc = "auth" /\ (Readable \/ ConnEnded)
  /\ IF Readable /\ conn.offers
     THEN /\ conn' = Answered("noauth")
          /\ local' = [pc |-> "copy", copying |-> BothCopies]
     ELSE /\ conn' = IF Readable THEN Answered("noacceptable") ELSE conn
          /\ LocalGoto("failGreeting")
  /\ UNCHANGED <<stream, remote, dest, conf, changes>>

HandleLocalAuth ==
  /\ local.pc = "auth" /\ (Readable \/ ConnEnded)
  /\ IF Readable /\ conn.offers
     THEN /\ conn' = Answered("noauth")
          /\ local' = [pc |-> "copy", copying |-> BothCopies]
          /\ UNCHANGED stream
     ELSE /\ conn' = IF Readable THEN Answered("noacceptable") ELSE conn
          /\ LocalGoto("failGreeting")
          /\ stream' = Reset(stream)
  /\ UNCHANGED <<remote, dest, conf, changes>>

\* handleStream: one goroutine copies from the connection to the stream ...
CopyUp ==
  /\ "up" \in local.copying /\ Readable /\ ~stream.reset
  /\ stream' = [stream EXCEPT !.up = Append(@, Incoming)]
  /\ conn' = [conn EXCEPT !.taken = @ + 1]
  /\ UNCHANGED <<local, remote, dest, conf, changes>>

CopyUpEnds ==
  /\ "up" \in local.copying
  /\ ConnEnded \/ (Readable /\ stream.reset)
  /\ stream' = [stream EXCEPT !.upEnd = TRUE]
  /\ local' = [local EXCEPT !.copying = @ \ {"up"}]
  /\ UNCHANGED <<conn, remote, dest, conf, changes>>

\* ... the other one back; a write to a program that has gone may fail.
CopyDown ==
  /\ "down" \in local.copying /\ stream.down # <<>>
  /\ conn' = [conn EXCEPT !.got = Append(@, Head(stream.down))]
  /\ stream' = [stream EXCEPT !.down = Tail(@)]
  /\ UNCHANGED <<local, remote, dest, conf, changes>>

CopyDownEnds ==
  /\ "down" \in local.copying
  /\ \/ stream.reset
     \/ stream.downEnd /\ stream.down = <<>>
     \/ stream.down # <<>> /\ conn.app = "closed"
  /\ conn' = [conn EXCEPT !.hungUp = TRUE]
  /\ local' = [local EXCEPT !.copying = @ \ {"down"}]
  /\ UNCHANGED <<stream, remote, dest, conf, changes>>

\* Both copies have ended: sleep, reset the stream, close the connection.
proxyConnReturns ==
  /\ local.pc = "copy" /\ local.copying = {}
  /\ LocalGoto("done")
  /\ conn' = [conn EXCEPT !.hungUp = TRUE]
  /\ stream' = Reset(stream)
  /\ UNCHANGED <<remote, dest, conf, changes>>

\* ServeConns answers a failed proxyConn with SendServerFailureReply, then
\* closes the connection.
LocalFailure ==
  /\ UNCHANGED <<stream, remote, dest, conf, changes>>
  /\ \/ /\ local.pc = "failGreeting" /\ Readable
        /\ conn' = Answered("noauth")
        /\ LocalGoto("failRequest")
     \/ /\ local.pc = "failRequest" /\ Readable
        /\ conn' = Answered("failure")
        /\ LocalGoto("failed")
     \/ /\ local.pc = "failed" \/ (local.pc \in {"failGreeting", "failRequest"} /\ ConnEnded)
        /\ conn' = [conn EXCEPT !.hungUp = TRUE]
        /\ LocalGoto("done")

-----------------------------------------------------------------------------
(* The exit node. What it reads from the stream may be gone after a reset. *)

RemoteGoto(pc) == remote' = [remote EXCEPT !.pc = pc]
StreamEnded == stream.reset \/ (stream.upEnd /\ stream.up = <<>>)

\* The stream after its next message is read and m is written back.
Replied(m) == [stream EXCEPT !.up = Tail(@), !.down = IF stream.reset THEN @ ELSE Append(@, m)]

ProxyStreamHandler_NoReset ==  \* faulty variant
  /\ remote.pc = "peer"
  /\ RemoteGoto(IF conf.weAllow THEN "enabled" ELSE "done")
  /\ UNCHANGED <<conn, local, stream, dest, conf, changes>>

ProxyStreamHandler ==
  /\ remote.pc = "peer"
  /\ \/ conf.weAllow /\ RemoteGoto("enabled") /\ UNCHANGED stream
     \/ ~conf.weAllow /\ RemoteGoto("done") /\ stream' = Reset(stream)
  /\ UNCHANGED <<conn, local, dest, conf, changes>>

ProxyStreamEnabled ==
  /\ remote.pc = "enabled"
  /\ \/ /\ conf.enabled /\ UNCHANGED stream
        /\ RemoteGoto(IF stream.proto = "noauth" THEN "request" ELSE "greeting")
     \/ /\ ~conf.enabled /\ stream.proto = "noauth"
        /\ RemoteGoto("done") /\ stream' = Reset(stream)
     \/ /\ ~conf.enabled /\ stream.proto # "noauth"
        /\ RemoteGoto("failGreeting") /\ UNCHANGED stream
  /\ UNCHANGED <<conn, local, dest, conf, changes>>

\* SendServerFailureReply on the stream; the reset follows without a pause.
RemoteFailure ==
  /\ UNCHANGED <<conn, local, dest, conf, changes>>
  /\ \/ /\ remote.pc = "failGreeting" /\ stream.up # <<>>
        /\ stream' = Replied("noauth") /\ RemoteGoto("failRequest")
     \/ /\ remote.pc = "failRequest" /\ stream.up # <<>>
        /\ stream' = Reset(Replied("failure")) /\ RemoteGoto("done")
     \/ /\ remote.pc \in {"failGreeting", "failRequest"} /\ StreamEnded
        /\ stream' = Reset(stream) /\ RemoteGoto("done")

\* ServeConn of the library: greeting, request, dial, two copies. A message
\* that is not the expected one, or the end of the stream, is an error.
ServeGreeting ==
  /\ remote.pc = "greeting"
  /\ \/ /\ stream.up # <<>> /\ Head(stream.up) = "greeting"
        /\ stream' = Replied(IF conn.offers THEN "noauth" ELSE "noacceptable")
        /\ RemoteGoto(IF conn.offers THEN "request" ELSE "sleep")
     \/ /\ StreamEnded \/ (stream.up # <<>> /\ Head(stream.up) # "greeting")
        /\ RemoteGoto("sleep") /\ UNCHANGED stream
  /\ UNCHANGED <<conn, local, dest, conf, changes>>

ServeRequest ==
  /\ remote.pc = "request"
  /\ \/ /\ stream.up # <<>> /\ Head(stream.up) = "request"
        /\ stream' = [stream EXCEPT !.up = Tail(@)]
        /\ RemoteGoto("dial")
     \/ /\ StreamEnded \/ (stream.up # <<>> /\ Head(stream.up) # "request")
        /\ RemoteGoto("sleep") /\ UNCHANGED stream
  /\ UNCHANGED <<conn, local, dest, conf, changes>>

\* The rule refuses the destination (RuleDenyLocalhost), it cannot be reached,
\* or it answers.
ServeDial ==
  /\ remote.pc = "dial"
  /\ \E r \in {"denied", "unreachable", "ok"} :
       /\ stream' = [stream EXCEPT !.down = IF stream.reset THEN @ ELSE Append(@, r)]
       /\ IF r = "ok" THEN /\ remote' = [pc |-> "relay", copying |-> BothCopies, reply |-> r]
                           /\ dest' = [dest EXCEPT !.st = "open"]
          ELSE remote' = [remote EXCEPT !.pc = "sleep", !.reply = r] /\ UNCHANGED dest
  /\ UNCHANGED <<conn, local, conf, changes>>

RelayUp ==
  /\ "up" \in remote.copying /\ stream.up # <<>> /\ dest.st = "open"
  /\ stream' = [stream EXCEPT !.up = Tail(@)]
  /\ dest' = [dest EXCEPT !.in = @ + 1]
  /\ UNCHANGED <<conn, local, remote, conf, changes>>

RelayUpEnds ==
  /\ "up" \in remote.copying /\ stream.upEnd /\ stream.up = <<>>
  /\ dest' = [dest EXCEPT !.eof = TRUE]
  /\ remote' = [remote EXCEPT !.copying = @ \ {"up"}]
  /\ UNCHANGED <<conn, local, stream, conf, changes>>

RelayDown ==
  /\ "down" \in remote.copying /\ dest.out > 0 /\ ~stream.reset
  /\ stream' = [stream EXCEPT !.down = Append(@, "answer")]
  /\ dest' = [dest EXCEPT !.out = @ - 1]
  /\ UNCHANGED <<conn, local, remote, conf, changes>>

RelayDownEnds ==
  /\ "down" \in remote.copying /\ dest.st = "closed" /\ dest.out = 0
  /\ stream' = [stream EXCEPT !.downEnd = TRUE]
  /\ remote' = [remote EXCEPT !.copying = @ \ {"down"}]
  /\ UNCHANGED <<conn, local, dest, conf, changes>>

\* Both copies have ended, or one with an error: the destination is closed.
RelayReturns ==
  /\ remote.pc = "relay"
  /\ \/ remote.copying = {}
     \/ stream.reset
     \/ "up" \in remote.copying /\ stream.up # <<>> /\ dest.st = "closed"
  /\ remote' = [remote EXCEPT !.pc = "sleep", !.copying = {}]
  /\ dest' = [dest EXCEPT !.st = "closed"]
  /\ UNCHANGED <<conn, local, stream, conf, changes>>

\* The 50 ms of ProxyStreamHandler before it resets the stream are taken to
\* be long enough for this node to read what is on its way.
ProxyStreamReturns_NoPause ==  \* faulty variant
  /\ remote.pc = "sleep"
  /\ RemoteGoto("done") /\ stream' = Reset(stream)
  /\ UNCHANGED <<conn, local, dest, conf, changes>>

ProxyStreamReturns ==
  /\ remote.pc = "sleep"
  /\ stream.down = <<>> \/ stream.reset \/ "down" \notin local.copying
  /\ RemoteGoto("done") /\ stream' = Reset(stream)
  /\ UNCHANGED <<conn, local, dest, conf, changes>>

-----------------------------------------------------------------------------
(* The destination (external) answers, and closes, at the latest when      *)
(* nothing more will come.                                                 *)

DestAnswers ==
  /\ dest.st = "open" /\ dest.in > 0
  /\ dest' = [dest EXCEPT !.in = @ - 1, !.out = @ + 1]
  /\ UNCHANGED <<conn, local, stream, remote, conf, changes>>

DestCloses ==
  /\ dest.st = "open"
  /\ dest' = [dest EXCEPT !.st = "closed"]
  /\ UNCHANGED <<conn, local, stream, remote, conf, changes>>

LocalStep ==
  \/ proxyConnPick \/ proxyConnPeer \/ proxyConnFails \/ proxyConnStream \/ HandleLocalAuth
  \/ CopyUp \/ CopyUpEnds \/ CopyDown \/ CopyDownEnds \/ proxyConnReturns \/ LocalFailure

RemoteStep ==
  \/ ProxyStreamHandler \/ ProxyStreamEnabled \/ RemoteFailure
  \/ ServeGreeting \/ ServeRequest \/ ServeDial
  \/ RelayUp \/ RelayUpEnds \/ RelayDown \/ RelayDownEnds \/ RelayReturns \/ ProxyStreamReturns

Next ==
  \/ AppGreets \/ AppReads \/ AppSends \/ AppSeesEnd \/ AppLeaves
  \/ LocalStep \/ RemoteStep
  \/ DestAnswers \/ DestCloses
  \/ ChangeSettings

Spec == Init /\ [][Next]_vars

\* The goroutines of both nodes are scheduled, the network answers or fails, a
\* program reads and leaves at the end, a destination closes at the end.
FairSpec ==
  /\ Spec
  /\ WF_vars(LocalStep) /\ WF_vars(RemoteStep)
  /\ WF_vars(AppGreets) /\ WF_vars(AppReads) /\ WF_vars(AppSeesEnd)
  /\ WF_vars(dest.eof /\ DestCloses)

-----------------------------------------------------------------------------
(* Properties.                                                             *)

\* To the program, the two nodes together are one SOCKS5 proxy: whichever
\* protocol the exit node speaks, wherever an error happens, it never sees an
\* answer twice, out of turn, or "ok" without a destination.
Conv == INSTANCE Conversation WITH
  asked <- conn.sent, got <- conn.got, dialled <- dest.st # "none", hungUp <- conn.hungUp

Converses == Conv!Spec

\* The reply to a request reaches the program before the stream is reset.
ReplyDelivered ==
  remote.pc = "done" /\ remote.reply # "none" /\ conn.app # "closed" =>
    Len(conn.got) >= 2 /\ conn.got[2] = remote.reply

\* A program that waits for an answer gets one, or is hung up on.
Answers == conn.app \in {"method", "reply"} ~> conn.app \in {"data", "closed"}

\* When the program has left, everything the session held is given back.
SessionEnds ==
  conn.app = "closed" ~>
    local.pc = "done" /\ remote.pc \in {"none", "done"} /\ dest.st # "open"
=============================================================================
