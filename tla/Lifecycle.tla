------------------------------ MODULE Lifecycle ------------------------------
(***************************************************************************)
(* The life of an awl.Application inside the mobile library: StartServer   *)
(* and StopServer as the Android client calls them, every step of          *)
(* Application.Init and Close with its failures, and the goroutines that   *)
(* Init leaves running. The configuration file is left out.                *)
(*                                                                         *)
(* The client's calls go through one background task queue, so there is    *)
(* one thread of calls, pc. It runs against the goroutines of every        *)
(* Application created so far (a stopped one may still have some) and      *)
(* against SOCKS5 clients.                                                 *)
(*                                                                         *)
(* Applications are numbered 1..MaxStarts in the order of their creation.  *)
(* MyVpnService.onDestroy, which stops the server from the main thread, is *)
(* not modelled.                                                           *)
(***************************************************************************)
EXTENDS Integers, FiniteSets

CONSTANTS
  Conns,            \* connections that SOCKS5 clients of this machine open
  BootstrapPeers,   \* number of bootstrap nodes of the configuration
  MaxStarts,        \* bound: Applications created
  MaxFailures       \* bound: steps of Init that fail for an outside reason

ASSUME LifecycleAssumption ==
  /\ BootstrapPeers \in Nat /\ MaxStarts \in Nat /\ MaxFailures \in Nat

Apps == 1 .. MaxStarts

\* Fields of Application, of P2p ("dht", with the host) and of the API handler
\* ("echo") that are nil until set, and that are used without regard to that.
Fields == {"dht", "device", "api", "echo"}
\* What an Application holds outside the process: sockets and the interface.
\* The "lost" ones are held by nothing that Close reaches.
Lost == {"lostTun", "lostDns"}
Resources == {"host", "tun", "socksPort", "apiPort", "dnsPort"} \cup Lost
\* Goroutines, in groups that end for the same reason: "watchers" wait for
\* a.ctx (retries and status exchanges, subscriptions, metrics), "servers" for
\* a descriptor to be closed (TUN readers, API and DNS servers); the others are
\* single. A group is gone when all its goroutines have returned. "dnsStart" is
\* the DNS servers before they listen.
Servers == {"tun", "apiPort", "dnsPort", "lostDns"}
Goroutines == {"watchers", "servers", "dnsStart", "bootstrap", "maintain", "serve", "serveConns"}

VARIABLES
  pc,         \* where the current call of the client is
  serverRunning, \* the client's variable; "unknown" until its first call
  app,        \* globalApp, or 0
  created,    \* Applications created so far
  ptr,        \* [Apps -> SUBSET Fields]: the fields that are not nil
  res,        \* [Apps -> SUBSET Resources]
  ctx,        \* [Apps -> {"none", "live", "done"}]
  gor,        \* [Apps -> SUBSET Goroutines]
  boot,       \* [Apps -> state of Bootstrap]
  maint,      \* [Apps -> where MaintainBackgroundConnections is]
  conn,       \* [Conns -> [st, app]]
  failures

callVars == <<pc, serverRunning, app, created>>
instVars == <<ptr, res, ctx, gor, boot, maint>>
vars == <<callVars, instVars, conn, failures>>

NoBoot == [pc |-> "off", dialing |-> 0, chan |-> 0, waits |-> 0, expired |-> FALSE]
NoConn == [st |-> "none", app |-> 0]

Init ==
  /\ pc = "idle" /\ serverRunning = "unknown"
  /\ app = 0 /\ created = 0
  /\ ptr = [g \in Apps |-> {}] /\ res = [g \in Apps |-> {}]
  /\ ctx = [g \in Apps |-> "none"] /\ gor = [g \in Apps |-> {}]
  /\ boot = [g \in Apps |-> NoBoot] /\ maint = [g \in Apps |-> "off"]
  /\ conn = [c \in Conns |-> NoConn]
  /\ failures = 0

-----------------------------------------------------------------------------
(***************************************************************************)
(* The death of the process by a panic that nothing recovers.              *)
(***************************************************************************)
ProcessEnds ==
  /\ pc' = "idle" /\ serverRunning' = "unknown" /\ app' = 0
  /\ ptr' = [g \in Apps |-> {}] /\ res' = [g \in Apps |-> {}]
  /\ ctx' = [g \in Apps |-> "none"] /\ gor' = [g \in Apps |-> {}]
  /\ boot' = [g \in Apps |-> NoBoot] /\ maint' = [g \in Apps |-> "off"]
  /\ conn' = [c \in Conns |-> IF conn[c].st = "none" THEN NoConn
                              ELSE [st |-> "closed", app |-> 0]]
  /\ UNCHANGED <<created, failures>>

\* The activity is created again in the same process, with new client state.
ClientRestarts ==
  /\ pc = "idle" /\ serverRunning = "yes"
  /\ serverRunning' = "unknown"
  /\ UNCHANGED <<pc, app, created, instVars, conn, failures>>

-----------------------------------------------------------------------------
(***************************************************************************)
(* StartServer and Application.Init.                                       *)
(***************************************************************************)
\* awl.New() takes the place of globalApp; SetupLoggerAndConfig cannot fail.
NewApplication ==
  /\ created < MaxStarts
  /\ created' = created + 1 /\ app' = created + 1
  /\ pc' = "host"

\* "start_server": an Application whose API has an address is reported as it
\* is. GetApiAddress dereferences the server of the API, nil if it failed.
StartServer ==
  /\ pc = "idle" /\ serverRunning # "yes"
  /\ \/ /\ app # 0 /\ {"api", "echo"} \subseteq ptr[app]
        /\ serverRunning' = "yes"
        /\ UNCHANGED <<pc, app, created, instVars, conn, failures>>
     \/ /\ app # 0 /\ "api" \in ptr[app] /\ "echo" \notin ptr[app]
        /\ ProcessEnds
     \/ /\ app # 0 => "api" \notin ptr[app]
        /\ NewApplication
        /\ UNCHANGED <<serverRunning, instVars, conn, failures>>

\* A step of Init returns an error, and StartServer goes on with Close. An
\* address in use is such an error; StoppedIsReleased says it is not in use by
\* an earlier Application.
Fails ==
  /\ failures < MaxFailures
  /\ failures' = failures + 1
  /\ pc' = "closeApi"

InitHost ==
  /\ pc = "host"
  /\ ctx' = [ctx EXCEPT ![app] = "live"]
  /\ \/ /\ Fails
        /\ UNCHANGED <<ptr, res>>
     \/ /\ pc' = "device"
        /\ ptr' = [ptr EXCEPT ![app] = {"dht"}]
        /\ res' = [res EXCEPT ![app] = {"host"}]
        /\ UNCHANGED failures
  /\ UNCHANGED <<serverRunning, app, created, gor, boot, maint, conn>>

\* The VPN interface is disabled; cannot be made; is made, but its MTU cannot
\* be read; or is made and read.
NewDevice ==
  /\ pc = "device"
  /\ \/ /\ pc' = "services"
        /\ UNCHANGED <<ptr, res, gor, failures>>
     \/ /\ Fails
        /\ UNCHANGED <<ptr, res, gor>>
     \/ /\ Fails
        /\ res' = [res EXCEPT ![app] = @ \cup {"lostTun"}]
        /\ UNCHANGED <<ptr, gor>>
     \/ /\ pc' = "services"
        /\ ptr' = [ptr EXCEPT ![app] = @ \cup {"device"}]
        /\ res' = [res EXCEPT ![app] = @ \cup {"tun"}]
        /\ gor' = [gor EXCEPT ![app] = @ \cup {"servers"}]
        /\ UNCHANGED failures
  /\ UNCHANGED <<serverRunning, app, created, ctx, boot, maint, conn>>

\* Bootstrap starts its goroutines; then the services, of which NewSOCKS5 may
\* fail to listen, or is configured not to; then handlers and subscription.
NewServices ==
  /\ pc = "services"
  /\ boot' = [boot EXCEPT ![app] = [NoBoot EXCEPT !.pc = "wait", !.dialing = BootstrapPeers]]
  /\ LET starts == {"bootstrap"} \cup IF "device" \in ptr[app] THEN {"watchers"} ELSE {}
     IN \/ /\ Fails
           /\ gor' = [gor EXCEPT ![app] = @ \cup {"bootstrap"}]
           /\ UNCHANGED res
        \/ /\ pc' = "api"
           /\ gor' = [gor EXCEPT ![app] = @ \cup starts]
           /\ UNCHANGED <<res, failures>>
        \/ /\ pc' = "api"
           /\ gor' = [gor EXCEPT ![app] = @ \cup starts \cup {"serve"}]
           /\ res' = [res EXCEPT ![app] = @ \cup {"socksPort"}]
           /\ UNCHANGED failures
  /\ UNCHANGED <<serverRunning, app, created, ptr, ctx, maint, conn>>

\* a.Api is set before the listener is tried.
SetupAPI ==
  /\ pc = "api"
  /\ \/ /\ Fails
        /\ ptr' = [ptr EXCEPT ![app] = @ \cup {"api"}]
        /\ UNCHANGED <<res, gor>>
     \/ /\ pc' = "spawn"
        /\ ptr' = [ptr EXCEPT ![app] = @ \cup {"api", "echo"}]
        /\ res' = [res EXCEPT ![app] = @ \cup {"apiPort"}]
        /\ gor' = [gor EXCEPT ![app] = @ \cup {"servers"}]
        /\ UNCHANGED failures
  /\ UNCHANGED <<serverRunning, app, created, ctx, boot, maint, conn>>

SpawnBackground ==
  /\ pc = "spawn"
  /\ gor' = [gor EXCEPT ![app] = @ \cup {"maintain", "watchers"}
               \cup IF "socksPort" \in res[app] THEN {"serveConns"} ELSE {}]
  /\ maint' = [maint EXCEPT ![app] = "wait"]
  /\ pc' = "dns"
  /\ UNCHANGED <<serverRunning, app, created, ptr, res, ctx, boot, conn,
                 failures>>

\* The last step: the resolver, unless DNS is disabled, and the metrics.
InitDNS ==
  /\ pc = "dns"
  /\ \/ UNCHANGED gor
     \/ /\ "device" \in ptr[app]
        /\ gor' = [gor EXCEPT ![app] = @ \cup {"dnsStart"}]
  /\ pc' = "idle" /\ serverRunning' = "yes"
  /\ UNCHANGED <<app, created, ptr, res, ctx, boot, maint, conn, failures>>

-----------------------------------------------------------------------------
(***************************************************************************)
(* StopServer, and Application.Close, which StartServer also calls when    *)
(* Init failed.                                                            *)
(***************************************************************************)
\* The client offers to stop only a server that it holds for running.
StopServer ==
  /\ pc = "idle" /\ serverRunning = "yes"
  /\ pc' = "closeApi"
  /\ UNCHANGED <<serverRunning, app, created, instVars, conn, failures>>

\* a.ctxCancel(), which also ends the context of the bootstrap dials.
CtxCancel ==
  /\ ctx' = [ctx EXCEPT ![app] = "done"]
  /\ boot' = [boot EXCEPT ![app].expired = boot[app].pc = "wait"]

\* A panic inside Close: StartServer recovers and returns an error with
\* globalApp as it is. Only a Close after a failed Init panics, so StopServer,
\* which does not recover, never meets it.
ClosePanics ==
  /\ pc' = "idle" /\ serverRunning' = "no"
  /\ UNCHANGED <<app, created, ptr, res, gor, maint, conn, failures>>

\* Api.Shutdown dereferences the server, nil if SetupAPI failed.
CloseApi ==
  /\ pc = "closeApi"
  /\ CtxCancel
  /\ \/ /\ "api" \in ptr[app] => "echo" \in ptr[app]
        /\ res' = [res EXCEPT ![app] = @ \ {"apiPort"}]
        /\ pc' = "closeServices"
        /\ UNCHANGED <<serverRunning, app, created, ptr, gor, maint, conn, failures>>
     \/ /\ "api" \in ptr[app] /\ "echo" \notin ptr[app]
        /\ ClosePanics

\* Faulty variant: SOCKS5.Close is forgotten.
CloseServices_KeepsListener ==
  /\ pc = "closeServices"
  /\ pc' = "closeP2p"
  /\ UNCHANGED <<serverRunning, app, created, instVars, conn, failures>>

\* Tunnel.Close is in module Tunnel; SOCKS5.Close closes the listener.
CloseServices ==
  /\ pc = "closeServices"
  /\ res' = [res EXCEPT ![app] = @ \ {"socksPort"}]
  /\ pc' = "closeP2p"
  /\ UNCHANGED <<serverRunning, app, created, ptr, ctx, gor, boot, maint,
                 conn, failures>>

\* P2p.Close dereferences the DHT and the host, nil if InitHost failed.
CloseP2p ==
  /\ pc = "closeP2p"
  /\ \/ /\ "dht" \in ptr[app]
        /\ res' = [res EXCEPT ![app] = @ \ {"host"}]
        /\ pc' = "closeRest"
        /\ UNCHANGED <<serverRunning, app, created, ptr, ctx, gor, boot,
                       maint, conn, failures>>
     \/ /\ "dht" \notin ptr[app]
        /\ ClosePanics
        /\ UNCHANGED <<ctx, boot>>

\* The DNS servers, the interface, and globalApp = nil. Shutdown of a DNS server
\* that does not listen yet is an error, which is logged.
CloseRest ==
  /\ pc = "closeRest"
  /\ res' = [res EXCEPT ![app] = @ \ {"dnsPort", "tun"}]
  /\ pc' = "idle" /\ serverRunning' = "no" /\ app' = 0
  /\ UNCHANGED <<created, ptr, ctx, gor, boot, maint, conn, failures>>

-----------------------------------------------------------------------------
(***************************************************************************)
(* The goroutines.                                                         *)
(***************************************************************************)
\* P2p.Bootstrap: the common context of the dials expires after 3 seconds, or
\* with the application's. It waits for at most two nodes.
Wanted == IF BootstrapPeers < 2 THEN BootstrapPeers ELSE 2

\* A dial ends; nobody reads the channel any more once the wait is over.
BootstrapDialed(g) ==
  /\ boot[g].dialing > 0
  /\ \/ boot' = [boot EXCEPT ![g].dialing = @ - 1]
     \/ /\ boot[g].pc = "wait" /\ ~ boot[g].expired
        /\ boot' = [boot EXCEPT ![g].dialing = @ - 1, ![g].chan = @ + 1]
  /\ UNCHANGED <<callVars, ptr, res, ctx, gor, maint, conn, failures>>

BootstrapTimeout(g) ==
  /\ boot[g].pc = "wait" /\ ~ boot[g].expired
  /\ boot' = [boot EXCEPT ![g].expired = TRUE]
  /\ UNCHANGED <<callVars, ptr, res, ctx, gor, maint, conn, failures>>

\* Faulty variant: the select has no case for the context.
Bootstrap_NoTimeout(g) ==
  /\ boot[g].pc = "wait"
  /\ \/ /\ boot[g].waits < Wanted /\ boot[g].chan > 0
        /\ boot' = [boot EXCEPT ![g].waits = @ + 1, ![g].chan = @ - 1]
     \/ /\ boot[g].waits = Wanted
        /\ boot' = [boot EXCEPT ![g].pc = "finished"]
  /\ UNCHANGED <<callVars, ptr, res, ctx, gor, maint, conn, failures>>

Bootstrap(g) ==
  /\ boot[g].pc = "wait"
  /\ \/ /\ boot[g].waits < Wanted
        /\ \/ boot[g].expired /\ boot' = [boot EXCEPT ![g].waits = @ + 1]
           \/ /\ boot[g].chan > 0
              /\ boot' = [boot EXCEPT ![g].waits = @ + 1, ![g].chan = @ - 1]
     \/ /\ boot[g].waits = Wanted
        /\ boot' = [boot EXCEPT ![g] = [NoBoot EXCEPT !.pc = "finished",
                                                     !.dialing = boot[g].dialing]]
  /\ UNCHANGED <<callVars, ptr, res, ctx, gor, maint, conn, failures>>

\* A round of connectToKnownPeers ends at its timeout at the latest.
MaintainBackgroundConnections(g) ==
  /\ "maintain" \in gor[g]
  /\ \/ maint[g] = "wait" /\ boot[g].pc = "finished" /\ maint' = [maint EXCEPT ![g] = "connect"]
     \/ maint[g] = "connect" /\ maint' = [maint EXCEPT ![g] = "sleep"]
     \/ maint[g] = "sleep" /\ maint' = [maint EXCEPT ![g] = "connect"]
  /\ UNCHANGED <<callVars, ptr, res, ctx, gor, boot, conn, failures>>

In(g, st) == {c \in Conns : conn[c] = [st |-> st, app |-> g]}

\* Faulty variants: serve does not close the channel; ServeConns heeds the context
\* and leaves what is in the channel.
Ended_NoClose(g, r) ==
  CASE r = "watchers" -> ctx[g] = "done"
    [] r = "servers" -> res[g] \cap Servers = {}
    [] r = "bootstrap" -> boot[g].pc = "finished" /\ boot[g].dialing = 0
    [] r = "maintain" -> ctx[g] = "done" /\ maint[g] \in {"wait", "sleep"}
    [] r = "serve" -> "socksPort" \notin res[g] /\ In(g, "accepted") = {}
    [] OTHER -> FALSE

Ended_OnCtx(g, r) ==
  IF r = "serveConns" THEN ctx[g] = "done" ELSE Ended_NoClose(g, r)

\* When a goroutine returns.
Ended(g, r) ==
  CASE r = "watchers" -> ctx[g] = "done"
    [] r = "servers" -> res[g] \cap Servers = {}
    [] r = "bootstrap" -> boot[g].pc = "finished" /\ boot[g].dialing = 0
    [] r = "maintain" -> ctx[g] = "done" /\ maint[g] \in {"wait", "sleep"}
    [] r = "serve" -> "socksPort" \notin res[g] /\ In(g, "accepted") = {}
    [] r = "serveConns" -> "serve" \notin gor[g] /\ In(g, "queued") = {}
    [] OTHER -> FALSE

Return(g, r) ==
  /\ r \in gor[g] /\ Ended(g, r)
  /\ gor' = [gor EXCEPT ![g] = @ \ {r}]
  /\ UNCHANGED <<callVars, ptr, res, ctx, boot, maint, conn, failures>>

\* ListenAndServe of the DNS servers fails, or listens; if Close has been here,
\* nobody will shut the server down any more.
DnsListens(g) ==
  /\ "dnsStart" \in gor[g]
  /\ \/ /\ gor' = [gor EXCEPT ![g] = @ \ {"dnsStart"}]
        /\ UNCHANGED res
     \/ /\ gor' = [gor EXCEPT ![g] = (@ \ {"dnsStart"}) \cup {"servers"}]
        /\ res' = [res EXCEPT ![g] = @ \cup {IF app = g THEN "dnsPort" ELSE "lostDns"}]
  /\ UNCHANGED <<callVars, ptr, ctx, boot, maint, conn, failures>>

\* Client.serve: accept, then hand over through the channel of one slot, or
\* drop the connection when it was full for a second.
Accept(g, c) ==
  /\ "serve" \in gor[g] /\ "socksPort" \in res[g]
  /\ conn[c] = NoConn /\ In(g, "accepted") = {}
  /\ conn' = [conn EXCEPT ![c] = [st |-> "accepted", app |-> g]]
  /\ UNCHANGED <<callVars, instVars, failures>>

HandOver(c) ==
  /\ conn[c].st = "accepted"
  /\ conn' = [conn EXCEPT ![c] = IF In(conn[c].app, "queued") = {}
                                   THEN [@ EXCEPT !.st = "queued"]
                                   ELSE [st |-> "closed", app |-> 0]]
  /\ UNCHANGED <<callVars, instVars, failures>>

ServeConns(c) ==
  /\ conn[c].st = "queued" /\ "serveConns" \in gor[conn[c].app]
  /\ conn' = [conn EXCEPT ![c].st = "serving"]
  /\ UNCHANGED <<callVars, instVars, failures>>

\* proxyConn returns, with an error or because the session is over.
ProxyConn(c) ==
  /\ conn[c].st = "serving"
  /\ conn' = [conn EXCEPT ![c] = [st |-> "closed", app |-> 0]]
  /\ UNCHANGED <<callVars, instVars, failures>>

-----------------------------------------------------------------------------
CallStep ==
  \/ InitHost \/ NewDevice \/ NewServices
  \/ SetupAPI \/ SpawnBackground \/ InitDNS
  \/ CloseApi \/ CloseServices \/ CloseP2p \/ CloseRest

ConnStep(c) == HandOver(c) \/ ServeConns(c) \/ ProxyConn(c)

\* What the goroutines of all Applications do, but for the endless loop.
Background ==
  \/ \E g \in Apps : \/ BootstrapDialed(g) \/ BootstrapTimeout(g) \/ Bootstrap(g)
                     \/ DnsListens(g)
  \/ \E g \in Apps, r \in Goroutines \ {"maintain", "dnsStart"} : Return(g, r)
  \/ \E c \in Conns : ConnStep(c)

Next ==
  \/ CallStep
  \/ Background
  \/ StartServer
  \/ StopServer
  \/ ClientRestarts
  \/ \E g \in Apps : MaintainBackgroundConnections(g) \/ Return(g, "maintain")
  \/ \E g \in Apps, c \in Conns : Accept(g, c)

Spec == Init /\ [][Next]_vars

(***************************************************************************)
(* Goroutines that can run do run, and calls into the operating system and *)
(* SOCKS5 sessions end. A behaviour has finitely many steps of Background, *)
(* so weak fairness of the whole is weak fairness of each. The loop may    *)
(* find its ticker and ctx.Done() ready together; select then picks at     *)
(* random, hence strong fairness of its return. Nobody has to start, stop  *)
(* or connect.                                                             *)
(***************************************************************************)
Fairness ==
  /\ WF_vars(CallStep)
  /\ WF_vars(Background)
  /\ \A g \in Apps : /\ WF_vars(MaintainBackgroundConnections(g))
                     /\ SF_vars(Return(g, "maintain"))

FairSpec == Spec /\ Fairness

-----------------------------------------------------------------------------
(***************************************************************************)
(* Properties.                                                             *)
(***************************************************************************)
\* After StopServer, and after a StartServer that failed and cleaned up, no
\* Application ever created holds a socket or the interface, whichever step of
\* Init failed, so a later start finds the ports free. The code has two
\* exceptions: an interface whose MTU could not be read, and a DNS server that
\* starts to listen only after Close.
StoppedIsReleased ==
  pc = "idle" /\ app = 0 => \A g \in Apps : res[g] \subseteq Lost

\* Close stops everything: the goroutines that Init, Bootstrap, NewSOCKS5 and
\* the API started for an Application that is no longer globalApp all return,
\* and its proxied connections are closed. Only a DNS server that missed its
\* shutdown stays.
StopEnds ==
  \A g \in Apps :
    (created >= g /\ app # g) ~>
      (/\ gor[g] \subseteq IF "lostDns" \in res[g] THEN {"servers"} ELSE {}
       /\ \A c \in Conns : conn[c].app # g)

\* Whatever the bootstrap nodes do, MaintainBackgroundConnections gets to dial
\* the known peers, unless the Application is closed first.
Connects ==
  \A g \in Apps : (maint[g] = "wait") ~> (maint[g] = "connect" \/ ctx[g] # "live")

\* Every connection accepted by a server that runs is closed in the end: handed
\* over and proxied, or dropped, also when the server is stopped meanwhile.
ConnsClosed ==
  \A c \in Conns :
    (conn[c].st = "accepted" /\ serverRunning = "yes") ~> (conn[c].st = "closed")
=============================================================================
