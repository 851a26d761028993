-------------------------- MODULE ApplicationProofs --------------------------
(* Application: that what is stopped is released, for any number of         *)
(* Applications, failures, connections and bootstrap nodes; its resolver    *)
(* and its notifications.                                                   *)
EXTENDS Lifecycle, Resolver, Notifications, SequenceTheorems, FiniteSetTheorems, TLAPS

\* The calls before the API is set up; those of Close; and all of them.
Opening == {"host", "device", "services", "api"}
Closing == {"closeApi", "closeServices", "closeP2p", "closeRest"}
Calls   == Opening \cup Closing \cup {"idle", "spawn", "dns"}

CallsTyped ==
  /\ created \in 0 .. MaxStarts /\ app \in 0 .. created
  /\ pc \in Calls /\ serverRunning \in {"unknown", "yes", "no"}
  /\ ptr \in [Apps -> SUBSET Fields] /\ res \in [Apps -> SUBSET Resources]
  /\ gor \in [Apps -> SUBSET Goroutines]

\* An Application that Init has not begun with has nothing; one with no host
\* holds nothing; one whose DNS servers are starting has its API.
FieldsTell ==
  \A g \in Apps :
    /\ g > created \/ (g = app /\ pc = "host") => ptr[g] = {} /\ res[g] = {} /\ gor[g] = {}
    /\ "dht" \notin ptr[g] => res[g] = {}
    /\ "dnsStart" \in gor[g] => {"dht", "api", "echo"} \subseteq ptr[g]

\* What globalApp holds as Close goes on, and that it holds nothing when a
\* start puts another in its place.
CallsTell ==
  /\ pc # "idle" => app # 0
  /\ pc \in Opening => "api" \notin ptr[app]
  /\ pc \in {"device", "services", "api", "spawn", "dns"} => "dht" \in ptr[app]
  /\ pc \in {"spawn", "dns"} => {"api", "echo"} \subseteq ptr[app]
  /\ pc = "closeServices" => "apiPort" \notin res[app]
  /\ pc = "closeP2p" => res[app] \cap {"apiPort", "socksPort"} = {}
  /\ pc = "closeRest" => res[app] \subseteq Lost \cup {"dnsPort", "tun"}
  /\ pc = "idle" /\ app # 0 /\ "api" \notin ptr[app] => res[app] \subseteq Lost
  /\ pc = "idle" /\ serverRunning = "yes" => app # 0 /\ {"api", "echo"} \subseteq ptr[app]

\* Only globalApp holds what Close releases.
OthersReleased == \A g \in Apps : g # app => res[g] \subseteq Lost

ReleaseInv == CallsTyped /\ FieldsTell /\ CallsTell /\ OthersReleased

\* A step of the current call changes what globalApp has, and nothing else.
OnlyApp ==
  /\ app' = app /\ created' = created
  /\ ptr' \in [Apps -> SUBSET Fields] /\ res' \in [Apps -> SUBSET Resources]
  /\ gor' \in [Apps -> SUBSET Goroutines]
  /\ \A g \in Apps : g # app => ptr'[g] = ptr[g] /\ res'[g] = res[g] /\ gor'[g] = gor[g]

LEMMA AppIsOne == ReleaseInv /\ app # 0 => app \in Apps
BY LifecycleAssumption DEF ReleaseInv, CallsTyped, Apps

LEMMA OnlyAppKeeps ==
  ASSUME ReleaseInv, app # 0, OnlyApp, pc' \in Calls \ {"host"},
         serverRunning' \in {"unknown", "yes", "no"},
         "dht" \notin ptr'[app] => res'[app] = {},
         "dnsStart" \in gor'[app] => {"dht", "api", "echo"} \subseteq ptr'[app],
         CallsTell'
  PROVE  ReleaseInv'
<1>1. app \in Apps /\ app <= created
  BY AppIsOne, LifecycleAssumption DEF ReleaseInv, CallsTyped
<1>2. CallsTyped' BY Zenon DEF ReleaseInv, CallsTyped, OnlyApp
<1>3. FieldsTell'
  <2> SUFFICES ASSUME NEW g \in Apps
               PROVE  /\ g > created => ptr'[g] = {} /\ res'[g] = {} /\ gor'[g] = {}
                      /\ "dht" \notin ptr'[g] => res'[g] = {}
                      /\ "dnsStart" \in gor'[g] => {"dht", "api", "echo"} \subseteq ptr'[g]
    BY Zenon DEF FieldsTell, OnlyApp
  <2>1. CASE g = app
    BY <1>1, <2>1, LifecycleAssumption DEF Apps, ReleaseInv, CallsTyped
  <2>2. CASE g # app BY <2>2, Zenon DEF ReleaseInv, FieldsTell, OnlyApp
  <2> QED BY <2>1, <2>2, Zenon
<1>4. OthersReleased' BY Zenon DEF ReleaseInv, OthersReleased, OnlyApp
<1> QED BY <1>2, <1>3, <1>4, Zenon DEF ReleaseInv

\* What goroutines do that return or go on, and do not start to listen.
LEMMA GoroutinesKeep ==
  ASSUME ReleaseInv, UNCHANGED <<callVars, ptr, res>>, gor' \in [Apps -> SUBSET Goroutines],
         \A g \in Apps : gor'[g] \subseteq gor[g]
  PROVE  ReleaseInv'
<1>1. CallsTyped' /\ CallsTell' /\ OthersReleased'
  BY DEF ReleaseInv, CallsTyped, CallsTell, OthersReleased, callVars
<1>2. FieldsTell' BY Zenon DEF ReleaseInv, FieldsTell, callVars
<1> QED BY <1>1, <1>2, Zenon DEF ReleaseInv

\* A process that ends takes everything with it.
LEMMA ProcessEndsKeeps ==
  ASSUME ReleaseInv, ProcessEnds
  PROVE  ReleaseInv'
<1>1. /\ pc' = "idle" /\ serverRunning' = "unknown" /\ app' = 0 /\ created' = created
      /\ ptr' \in [Apps -> SUBSET Fields] /\ res' \in [Apps -> SUBSET Resources]
      /\ gor' \in [Apps -> SUBSET Goroutines]
      /\ \A g \in Apps : ptr'[g] = {} /\ res'[g] = {} /\ gor'[g] = {}
  BY Zenon DEF ProcessEnds
<1>2. CallsTyped'
  BY <1>1, LifecycleAssumption DEF ReleaseInv, CallsTyped, Calls
<1>3. FieldsTell' /\ OthersReleased' BY <1>1, Zenon DEF FieldsTell, OthersReleased
<1>4. CallsTell' BY <1>1, Zenon DEF CallsTell, Opening
<1> QED BY <1>2, <1>3, <1>4, Zenon DEF ReleaseInv

\* The calls of the client. A start that makes a new Application drops one
\* whose API was never set up, which holds nothing any more.
LEMMA StartServerKeeps ==
  ASSUME ReleaseInv, StartServer
  PROVE  ReleaseInv'
<1>1. CASE app # 0 /\ {"api", "echo"} \subseteq ptr[app] /\ serverRunning' = "yes"
           /\ UNCHANGED <<pc, app, created, instVars, conn, failures>>
  <2>1. CallsTyped' /\ FieldsTell' /\ OthersReleased'
    BY <1>1, Zenon DEF ReleaseInv, CallsTyped, FieldsTell, OthersReleased, instVars
  <2>2. CallsTell' BY <1>1, Zenon DEF ReleaseInv, CallsTell, instVars
  <2> QED BY <2>1, <2>2, Zenon DEF ReleaseInv
<1>2. CASE ProcessEnds BY <1>2, ProcessEndsKeeps, Zenon
<1>3. CASE (app # 0 => "api" \notin ptr[app]) /\ NewApplication
           /\ UNCHANGED <<serverRunning, instVars, conn, failures>>
  <2>1. /\ created < MaxStarts /\ created' = created + 1 /\ app' = created + 1 /\ pc' = "host"
        /\ UNCHANGED <<serverRunning, ptr, res, gor>> /\ pc = "idle"
    BY <1>3, Zenon DEF NewApplication, instVars, StartServer
  <2>2. created \in Nat /\ created' \in 0 .. MaxStarts /\ app' \in Apps /\ app' > created
        /\ app' \in 0 .. created'
    BY <2>1, LifecycleAssumption DEF ReleaseInv, CallsTyped, Apps
  <2>3. CallsTyped' BY <2>1, <2>2, Zenon DEF ReleaseInv, CallsTyped, Calls, Opening
  <2>4. \A g \in Apps : g > created' \/ g = app' => g > created
    BY <2>1, <2>2, LifecycleAssumption DEF Apps
  <2>5. FieldsTell' BY <2>1, <2>4, Zenon DEF ReleaseInv, FieldsTell
  <2>6. CallsTell' BY <2>1, <2>2, <2>5 DEF CallsTell, FieldsTell, Opening
  <2>7. OthersReleased'
    <3>1. app # 0 => res[app] \subseteq Lost BY <1>3, <2>1, Zenon DEF ReleaseInv, CallsTell
    <3> QED BY <2>1, <3>1, LifecycleAssumption DEF ReleaseInv, OthersReleased, Apps
  <2> QED BY <2>3, <2>5, <2>6, <2>7, Zenon DEF ReleaseInv
<1> QED BY <1>1, <1>2, <1>3, Zenon DEF StartServer

LEMMA ClientKeeps ==
  ASSUME ReleaseInv, StopServer \/ ClientRestarts
  PROVE  ReleaseInv'
<1>1. /\ pc = "idle" /\ serverRunning = "yes" /\ UNCHANGED <<app, created, ptr, res, gor>>
      /\ \/ pc' = "closeApi" /\ serverRunning' = "yes"
         \/ pc' = "idle" /\ serverRunning' = "unknown"
  BY Zenon DEF StopServer, ClientRestarts, instVars
<1>2. app # 0 BY <1>1, Zenon DEF ReleaseInv, CallsTell
<1>3. CallsTyped' BY <1>1, Zenon DEF ReleaseInv, CallsTyped, Calls, Closing
<1>4. FieldsTell' /\ OthersReleased' BY <1>1, Zenon DEF ReleaseInv, FieldsTell, OthersReleased
<1>5. CallsTell' BY <1>1, <1>2, Zenon DEF ReleaseInv, CallsTell, Opening
<1> QED BY <1>3, <1>4, <1>5, Zenon DEF ReleaseInv

\* The steps of Init.
LEMMA InitKeeps ==
  ASSUME ReleaseInv, \/ InitHost \/ NewDevice \/ NewServices
                     \/ SetupAPI \/ SpawnBackground \/ InitDNS
  PROVE  ReleaseInv'
<1>1. app # 0 /\ app \in Apps
  BY AppIsOne, Zenon DEF ReleaseInv, CallsTell, InitHost, NewDevice, NewServices, SetupAPI,
     SpawnBackground, InitDNS
<1>2. /\ ptr \in [Apps -> SUBSET Fields] /\ res \in [Apps -> SUBSET Resources]
      /\ gor \in [Apps -> SUBSET Goroutines] /\ serverRunning \in {"unknown", "yes", "no"}
      /\ "dht" \notin ptr[app] => res[app] = {}
      /\ "dnsStart" \in gor[app] => {"dht", "api", "echo"} \subseteq ptr[app]
      /\ pc = "host" => ptr[app] = {} /\ res[app] = {} /\ gor[app] = {}
      /\ pc \in Opening => "api" \notin ptr[app]
      /\ pc \in {"device", "services", "api", "spawn", "dns"} => "dht" \in ptr[app]
      /\ pc \in {"spawn", "dns"} => {"api", "echo"} \subseteq ptr[app]
  BY <1>1, Zenon DEF ReleaseInv, CallsTyped, FieldsTell, CallsTell
<1>3. CASE InitHost
  <2>1. /\ pc = "host" /\ app' = app /\ created' = created /\ gor' = gor /\ serverRunning' = serverRunning
        /\ \/ pc' = "closeApi" /\ ptr' = ptr /\ res' = res
           \/ /\ pc' = "device" /\ ptr' = [ptr EXCEPT ![app] = {"dht"}]
              /\ res' = [res EXCEPT ![app] = {"host"}]
    BY <1>3, Zenon DEF InitHost, Fails
  <2>2. OnlyApp BY <1>1, <1>2, <2>1 DEF OnlyApp, Fields, Resources
  <2>3. \/ pc' = "closeApi" /\ ptr'[app] = {} /\ res'[app] = {} /\ gor'[app] = {}
        \/ pc' = "device" /\ ptr'[app] = {"dht"} /\ res'[app] = {"host"} /\ gor'[app] = {}
    BY <1>1, <1>2, <2>1, Zenon
  <2>4. CallsTell' BY <1>1, <2>1, <2>3, Zenon DEF CallsTell, Opening
  <2> QED BY <1>1, <1>2, <2>1, <2>2, <2>3, <2>4, OnlyAppKeeps, Zenon DEF Calls, Opening, Closing
<1>4. CASE NewDevice
  <2>1. /\ pc = "device" /\ app' = app /\ created' = created /\ serverRunning' = serverRunning
        /\ pc' \in {"closeApi", "services"}
        /\ ptr' = ptr \/ ptr' = [ptr EXCEPT ![app] = @ \cup {"device"}]
        /\ res' = res \/ \E r \in {"tun", "lostTun"} : res' = [res EXCEPT ![app] = @ \cup {r}]
        /\ gor' = gor \/ gor' = [gor EXCEPT ![app] = @ \cup {"servers"}]
    BY <1>4, Zenon DEF NewDevice, Fails
  <2>2. ptr' \in [Apps -> SUBSET Fields] /\ \A g \in Apps : g # app => ptr'[g] = ptr[g]
    BY <1>1, <1>2, <2>1, Zenon DEF Fields
  <2>3. res' \in [Apps -> SUBSET Resources] /\ \A g \in Apps : g # app => res'[g] = res[g]
    BY <1>1, <1>2, <2>1 DEF Resources, Lost
  <2>4. gor' \in [Apps -> SUBSET Goroutines] /\ \A g \in Apps : g # app => gor'[g] = gor[g]
    BY <1>1, <1>2, <2>1 DEF Goroutines
  <2>5. "dht" \in ptr'[app] /\ "api" \notin ptr'[app] /\ "dnsStart" \notin gor'[app]
    BY <1>1, <1>2, <2>1 DEF Opening
  <2>6. CallsTell' BY <1>1, <2>1, <2>5, Zenon DEF CallsTell, Opening
  <2> QED BY <1>1, <1>2, <2>1, <2>2, <2>3, <2>4, <2>5, <2>6, OnlyAppKeeps, Zenon
          DEF OnlyApp, Calls, Opening, Closing
<1>5. CASE NewServices
  <2>1. /\ pc = "services" /\ app' = app /\ created' = created /\ serverRunning' = serverRunning
        /\ pc' \in {"closeApi", "api"} /\ ptr' = ptr
        /\ res' = res \/ res' = [res EXCEPT ![app] = @ \cup {"socksPort"}]
        /\ \E G \in SUBSET {"bootstrap", "watchers", "serve"} : gor' = [gor EXCEPT ![app] = @ \cup G]
    <3>1. \E G \in SUBSET {"bootstrap", "watchers", "serve"} : gor' = [gor EXCEPT ![app] = @ \cup G]
      <4> DEFINE starts == {"bootstrap"} \cup IF "device" \in ptr[app] THEN {"watchers"} ELSE {}
      <4>1. \/ gor' = [gor EXCEPT ![app] = @ \cup {"bootstrap"}]
            \/ gor' = [gor EXCEPT ![app] = @ \cup starts]
            \/ gor' = [gor EXCEPT ![app] = @ \cup starts \cup {"serve"}]
        BY <1>5, Zenon DEF NewServices
      <4>2. \/ gor' = [gor EXCEPT ![app] = @ \cup {"bootstrap"}]
            \/ gor' = [gor EXCEPT ![app] = @ \cup starts]
            \/ gor' = [gor EXCEPT ![app] = @ \cup (starts \cup {"serve"})]
        BY <4>1, Zenon
      <4> QED BY <4>2, Zenon
    <3> QED BY <1>5, <3>1, Zenon DEF NewServices, Fails
  <2>2. res' \in [Apps -> SUBSET Resources] /\ \A g \in Apps : g # app => res'[g] = res[g]
    BY <1>1, <1>2, <2>1, Zenon DEF Resources, Lost
  <2>3. gor' \in [Apps -> SUBSET Goroutines] /\ \A g \in Apps : g # app => gor'[g] = gor[g]
    BY <1>1, <1>2, <2>1, ZenonT(60) DEF Goroutines
  <2>4. "dht" \in ptr'[app] /\ "api" \notin ptr'[app] /\ "dnsStart" \notin gor'[app]
    BY <1>1, <1>2, <2>1 DEF Opening
  <2>5. CallsTell' BY <1>1, <2>1, <2>4, Zenon DEF CallsTell, Opening
  <2> QED BY <1>1, <1>2, <2>1, <2>2, <2>3, <2>4, <2>5, OnlyAppKeeps, Zenon
          DEF OnlyApp, Calls, Opening, Closing
<1>6. CASE SetupAPI
  <2>1. /\ pc = "api" /\ app' = app /\ created' = created /\ serverRunning' = serverRunning
        /\ \/ /\ pc' = "closeApi" /\ ptr' = [ptr EXCEPT ![app] = @ \cup {"api"}]
              /\ res' = res /\ gor' = gor
           \/ /\ pc' = "spawn" /\ ptr' = [ptr EXCEPT ![app] = @ \cup {"api", "echo"}]
              /\ res' = [res EXCEPT ![app] = @ \cup {"apiPort"}]
              /\ gor' = [gor EXCEPT ![app] = @ \cup {"servers"}]
    BY <1>6, Zenon DEF SetupAPI, Fails
  <2>2. ptr' \in [Apps -> SUBSET Fields] /\ \A g \in Apps : g # app => ptr'[g] = ptr[g]
    BY <1>1, <1>2, <2>1 DEF Fields
  <2>3. res' \in [Apps -> SUBSET Resources] /\ \A g \in Apps : g # app => res'[g] = res[g]
    BY <1>1, <1>2, <2>1, Zenon DEF Resources, Lost
  <2>4. gor' \in [Apps -> SUBSET Goroutines] /\ \A g \in Apps : g # app => gor'[g] = gor[g]
    BY <1>1, <1>2, <2>1, Zenon DEF Goroutines
  <2>5. /\ "dht" \in ptr'[app] /\ "api" \in ptr'[app] /\ "dnsStart" \notin gor'[app]
        /\ pc' = "spawn" => "echo" \in ptr'[app]
    BY <1>1, <1>2, <2>1 DEF Opening
  <2>6. CallsTell' BY <1>1, <2>1, <2>5, Zenon DEF CallsTell, Opening
  <2> QED BY <1>1, <1>2, <2>1, <2>2, <2>3, <2>4, <2>5, <2>6, OnlyAppKeeps, Zenon
          DEF OnlyApp, Calls, Opening, Closing
<1>7. CASE SpawnBackground \/ InitDNS
  <2>1. /\ pc \in {"spawn", "dns"} /\ app' = app /\ created' = created /\ ptr' = ptr /\ res' = res
        /\ \/ pc' = "dns" /\ serverRunning' = serverRunning
           \/ pc' = "idle" /\ serverRunning' = "yes"
        /\ gor' = gor \/ \E G \in SUBSET Goroutines : gor' = [gor EXCEPT ![app] = @ \cup G]
    <3>1. gor' = gor \/ \E G \in SUBSET Goroutines : gor' = [gor EXCEPT ![app] = @ \cup G]
      <4>1. CASE SpawnBackground
        <5> DEFINE G == {"maintain", "watchers"} \cup IF "socksPort" \in res[app] THEN {"serveConns"} ELSE {}
        <5>1. G \in SUBSET Goroutines BY Zenon DEF Goroutines
        <5>2. gor' = [gor EXCEPT ![app] = @ \cup G] BY <1>1, <1>2, <4>1, Zenon DEF SpawnBackground
        <5> QED BY <5>1, <5>2, Zenon
      <4>2. CASE InitDNS BY <4>2, Zenon DEF InitDNS, Goroutines
      <4> QED BY <1>7, <4>1, <4>2, Zenon
    <3> QED BY <1>7, <3>1, Zenon DEF SpawnBackground, InitDNS
  <2>2. gor' \in [Apps -> SUBSET Goroutines] /\ \A g \in Apps : g # app => gor'[g] = gor[g]
    BY <1>1, <1>2, <2>1, Zenon DEF Goroutines
  <2>3. {"dht", "api", "echo"} \subseteq ptr'[app] BY <1>1, <1>2, <2>1, Zenon
  <2>4. CallsTell' BY <1>1, <2>1, <2>3, Zenon DEF CallsTell, Opening
  <2> QED BY <1>1, <1>2, <2>1, <2>2, <2>3, <2>4, OnlyAppKeeps, Zenon DEF OnlyApp, Calls, Opening, Closing
<1> QED BY <1>3, <1>4, <1>5, <1>6, <1>7, Zenon

\* The steps of Close. Where it panics, an API without a server stays set, or
\* there is no host and so nothing is held.
LEMMA CloseKeeps ==
  ASSUME ReleaseInv, CloseApi \/ CloseServices \/ CloseP2p
  PROVE  ReleaseInv'
<1>1. app # 0 /\ app \in Apps
  BY AppIsOne, Zenon DEF ReleaseInv, CallsTell, CloseApi, CloseServices, CloseP2p
<1>2. /\ ptr \in [Apps -> SUBSET Fields] /\ res \in [Apps -> SUBSET Resources]
      /\ gor \in [Apps -> SUBSET Goroutines] /\ serverRunning \in {"unknown", "yes", "no"}
      /\ "dht" \notin ptr[app] => res[app] = {}
      /\ "dnsStart" \in gor[app] => {"dht", "api", "echo"} \subseteq ptr[app]
      /\ pc = "closeServices" => "apiPort" \notin res[app]
      /\ pc = "closeP2p" => res[app] \cap {"apiPort", "socksPort"} = {}
  BY <1>1, Zenon DEF ReleaseInv, CallsTyped, FieldsTell, CallsTell
<1>3. ASSUME NEW r, r \in {"apiPort", "socksPort", "host"}, app' = app, created' = created,
             serverRunning' = serverRunning, ptr' = ptr, gor' = gor,
             res' = [res EXCEPT ![app] = @ \ {r}], pc' \in Closing, CallsTell'
      PROVE  ReleaseInv'
  <2>1. res' \in [Apps -> SUBSET Resources] /\ \A g \in Apps : g # app => res'[g] = res[g]
    BY <1>1, <1>2, <1>3, Zenon
  <2>2. "dht" \notin ptr'[app] => res'[app] = {} BY <1>1, <1>2, <1>3, Zenon
  <2> QED BY <1>1, <1>2, <1>3, <2>1, <2>2, OnlyAppKeeps, Zenon DEF OnlyApp, Calls, Opening, Closing
<1>4. ASSUME ClosePanics, "api" \in ptr[app] \/ "dht" \notin ptr[app]
      PROVE  ReleaseInv'
  <2>1. /\ pc' = "idle" /\ serverRunning' = "no" /\ app' = app /\ created' = created
        /\ ptr' = ptr /\ res' = res /\ gor' = gor
    BY <1>4, Zenon DEF ClosePanics
  <2>2. CallsTell' BY <1>1, <1>2, <1>4, <2>1, Zenon DEF CallsTell, Opening
  <2> QED BY <1>1, <1>2, <2>1, <2>2, OnlyAppKeeps, Zenon DEF OnlyApp, Calls, Opening, Closing
<1>5. CASE CloseApi
  <2>1. CASE ClosePanics /\ "api" \in ptr[app] BY <1>4, <2>1, Zenon
  <2>2. CASE /\ res' = [res EXCEPT ![app] = @ \ {"apiPort"}] /\ pc' = "closeServices"
             /\ UNCHANGED <<serverRunning, app, created, ptr, gor, maint, conn, failures>>
    <3>1. "apiPort" \notin res'[app] BY <1>1, <1>2, <2>2, Zenon
    <3>2. CallsTell' BY <1>1, <2>2, <3>1, Zenon DEF CallsTell, Opening
    <3> QED BY <1>3, <2>2, <3>2, Zenon DEF Closing
  <2> QED BY <1>5, <2>1, <2>2, Zenon DEF CloseApi
<1>6. CASE CloseServices
  <2>1. /\ res' = [res EXCEPT ![app] = @ \ {"socksPort"}] /\ pc' = "closeP2p" /\ pc = "closeServices"
        /\ UNCHANGED <<serverRunning, app, created, ptr, gor>>
    BY <1>6, Zenon DEF CloseServices
  <2>2. res'[app] \cap {"apiPort", "socksPort"} = {} BY <1>1, <1>2, <2>1, Zenon
  <2>3. CallsTell' BY <1>1, <2>1, <2>2, Zenon DEF CallsTell, Opening
  <2> QED BY <1>3, <2>1, <2>3, Zenon DEF Closing
<1>7. CASE CloseP2p
  <2>1. CASE ClosePanics /\ "dht" \notin ptr[app] BY <1>4, <2>1, Zenon
  <2>2. CASE /\ res' = [res EXCEPT ![app] = @ \ {"host"}] /\ pc' = "closeRest"
             /\ UNCHANGED <<serverRunning, app, created, ptr, ctx, gor, boot, maint, conn, failures>>
    <3>1. res'[app] \subseteq Lost \cup {"dnsPort", "tun"}
      BY <1>1, <1>2, <1>7, <2>2, Zenon DEF CloseP2p, Resources
    <3>2. CallsTell' BY <1>1, <2>2, <3>1, Zenon DEF CallsTell, Opening
    <3> QED BY <1>3, <2>2, <3>2, Zenon DEF Closing
  <2> QED BY <1>7, <2>1, <2>2, Zenon DEF CloseP2p
<1> QED BY <1>5, <1>6, <1>7, Zenon

\* The last step of Close, after which there is no globalApp.
LEMMA CloseRestKeeps ==
  ASSUME ReleaseInv, CloseRest
  PROVE  ReleaseInv'
<1>1. app \in Apps /\ res[app] \subseteq Lost \cup {"dnsPort", "tun"}
  BY AppIsOne, Zenon DEF ReleaseInv, CallsTell, CloseRest
<1>2. /\ pc' = "idle" /\ serverRunning' = "no" /\ app' = 0 /\ UNCHANGED <<created, ptr, gor>>
      /\ res' = [res EXCEPT ![app] = @ \ {"dnsPort", "tun"}]
  BY Zenon DEF CloseRest
<1>3. res \in [Apps -> SUBSET Resources] BY Zenon DEF ReleaseInv, CallsTyped
<1>4. /\ res' \in [Apps -> SUBSET Resources] /\ res'[app] \subseteq Lost
      /\ \A g \in Apps : res'[g] \subseteq res[g] /\ (g # app => res'[g] = res[g])
  BY <1>1, <1>2, <1>3, Zenon
<1>5. CallsTyped' BY <1>2, <1>4, LifecycleAssumption DEF ReleaseInv, CallsTyped, Calls
<1>6. FieldsTell'
  <2>1. \A g \in Apps : g # 0 BY LifecycleAssumption DEF Apps
  <2> QED BY <1>2, <1>4, <2>1, Zenon DEF ReleaseInv, FieldsTell
<1>7. CallsTell' BY <1>2, Zenon DEF CallsTell, Opening
<1>8. OthersReleased' BY <1>2, <1>4, Zenon DEF ReleaseInv, OthersReleased
<1> QED BY <1>5, <1>6, <1>7, <1>8, Zenon DEF ReleaseInv

\* DNS servers that listen late hold a port that Close does not come to, but it
\* is not counted against the Application.
LEMMA DnsListensKeeps ==
  ASSUME ReleaseInv, NEW d \in Apps, DnsListens(d)
  PROVE  ReleaseInv'
<1>1. /\ UNCHANGED <<pc, serverRunning, app, created, ptr>> /\ "dnsStart" \in gor[d]
      /\ \/ res' = res
         \/ res' = [res EXCEPT ![d] = @ \cup {IF app = d THEN "dnsPort" ELSE "lostDns"}]
      /\ \/ gor' = [gor EXCEPT ![d] = @ \ {"dnsStart"}]
         \/ gor' = [gor EXCEPT ![d] = (@ \ {"dnsStart"}) \cup {"servers"}]
  BY Zenon DEF DnsListens, callVars
<1>2. /\ res \in [Apps -> SUBSET Resources] /\ gor \in [Apps -> SUBSET Goroutines]
  BY Zenon DEF ReleaseInv, CallsTyped
<1>3. {"dht", "api", "echo"} \subseteq ptr[d] BY <1>1, Zenon DEF ReleaseInv, FieldsTell
<1>4. /\ gor' \in [Apps -> SUBSET Goroutines] /\ \A g \in Apps : g # d => gor'[g] = gor[g]
      /\ "dnsStart" \notin gor'[d]
  BY <1>1, <1>2 DEF Goroutines
<1>5. /\ res' \in [Apps -> SUBSET Resources] /\ \A g \in Apps : g # d => res'[g] = res[g]
      /\ app = d => res'[d] \subseteq res[d] \cup {"dnsPort"}
      /\ app # d => res'[d] \subseteq res[d] \cup Lost
  BY <1>1, <1>2 DEF Resources, Lost
<1>6. CallsTyped' BY <1>1, <1>4, <1>5, Zenon DEF ReleaseInv, CallsTyped
<1>7. FieldsTell' BY <1>1, <1>3, <1>4, <1>5, Zenon DEF ReleaseInv, FieldsTell
<1>8. OthersReleased' BY <1>1, <1>5, Zenon DEF ReleaseInv, OthersReleased
<1>9. CallsTell'
  <2>1. CASE d = app BY <1>1, <1>3, <1>5, <2>1, Zenon DEF ReleaseInv, CallsTell
  <2>2. CASE d # app
    <3>1. app # 0 => res'[app] = res[app] BY <1>5, <2>2, AppIsOne, Zenon
    <3> QED BY <1>1, <3>1, Zenon DEF ReleaseInv, CallsTell, Opening
  <2> QED BY <2>1, <2>2, Zenon
<1> QED BY <1>6, <1>7, <1>8, <1>9, Zenon DEF ReleaseInv

\* Every step of the client, of the current call and of the goroutines.
LEMMA LifecycleStepKeeps == ReleaseInv /\ [Next]_vars => ReleaseInv'
<1> SUFFICES ASSUME ReleaseInv, [Next]_vars PROVE ReleaseInv' BY Zenon
<1>1. gor \in [Apps -> SUBSET Goroutines] BY Zenon DEF ReleaseInv, CallsTyped
<1>2. ASSUME UNCHANGED <<callVars, ptr, res, gor>> PROVE ReleaseInv'
  BY <1>1, <1>2, GoroutinesKeep, Zenon
<1>3. CASE CallStep BY <1>3, InitKeeps, CloseKeeps, CloseRestKeeps, Zenon DEF CallStep
<1>4. ASSUME NEW g \in Apps, NEW r \in Goroutines, Return(g, r) PROVE ReleaseInv'
  <2>1. UNCHANGED <<callVars, ptr, res>> /\ gor' = [gor EXCEPT ![g] = @ \ {r}] BY <1>4, Zenon DEF Return
  <2> QED BY <1>1, <2>1, GoroutinesKeep, Zenon
<1>5. CASE Background
  <2>1. ASSUME NEW g \in Apps, BootstrapDialed(g) \/ BootstrapTimeout(g) \/ Bootstrap(g)
        PROVE  ReleaseInv'
    BY <1>2, <2>1, Zenon DEF BootstrapDialed, BootstrapTimeout, Bootstrap
  <2>2. ASSUME NEW c \in Conns, ConnStep(c) PROVE ReleaseInv'
    BY <1>2, <2>2, Zenon DEF ConnStep, HandOver, ServeConns, ProxyConn, instVars
  <2> QED BY <1>4, <1>5, <2>1, <2>2, DnsListensKeeps, Zenon DEF Background
<1>6. ASSUME NEW g \in Apps, MaintainBackgroundConnections(g) PROVE ReleaseInv'
  BY <1>2, <1>6, Zenon DEF MaintainBackgroundConnections
<1>7. ASSUME NEW g \in Apps, NEW c \in Conns, Accept(g, c) PROVE ReleaseInv'
  BY <1>2, <1>7, Zenon DEF Accept, instVars
<1>8. CASE UNCHANGED vars BY <1>2, <1>8, Zenon DEF vars, instVars
<1>9. "maintain" \in Goroutines BY Zenon DEF Goroutines
<1> QED BY <1>3, <1>4, <1>5, <1>6, <1>7, <1>8, <1>9, StartServerKeeps, ClientKeeps, Zenon DEF Next

\* Whichever steps of Init fail, however often the server is started, stopped
\* or started over a Close that panicked, and whatever the goroutines of earlier
\* Applications still do: once StopServer, or a StartServer that failed, has
\* returned with no globalApp, nothing holds a port or the interface, but for
\* the two losses that StoppedIsReleased names.
THEOREM StopReleases == Spec => []StoppedIsReleased
<1>1. Init => ReleaseInv
  <2> SUFFICES ASSUME Init PROVE ReleaseInv BY Zenon
  <2>1. CallsTyped BY LifecycleAssumption DEF Init, CallsTyped, Calls
  <2>2. FieldsTell /\ OthersReleased BY Zenon DEF Init, FieldsTell, OthersReleased
  <2>3. CallsTell BY Zenon DEF Init, CallsTell, Opening
  <2> QED BY <2>1, <2>2, <2>3, Zenon DEF ReleaseInv
<1>2. ReleaseInv => StoppedIsReleased
  <2>1. \A g \in Apps : g # 0 BY LifecycleAssumption DEF Apps
  <2> QED BY <2>1, Zenon DEF ReleaseInv, OthersReleased, StoppedIsReleased
<1> QED BY <1>1, <1>2, LifecycleStepKeeps, PTL DEF Spec

-----------------------------------------------------------------------------
(* Resolver: the answers, for all peers, names and orders of the map.       *)

\* The peers of a configuration, as refreshDNSConfig finds them.
PeersOK(f) ==
  /\ Apart(f)
  /\ \A p \in DOMAIN f : /\ p \in KnownID /\ f[p].ip \in IPAddr
                         /\ f[p].domain \in DomainName \cup {NoName}

\* m is a mapping that DNSNamesMapping may make of the peers f, with the name
\* of the admin page.
MappingOf(m, f) ==
  /\ DOMAIN f \cup {Admin} \subseteq DOMAIN m
  /\ DOMAIN m \subseteq KnownID \cup DomainName \cup {Admin}
  /\ \A p \in DOMAIN f : f[p].domain # NoName => f[p].domain \in DOMAIN m
  /\ m[Admin] = AdminIP
  /\ \A k \in DOMAIN m \ {Admin} : \E p \in Named(f, k) : m[k] = f[p].ip

\* What the loop of ReceiveConfiguration has built from the keys it has come to:
\* each name leads to the address of such a key, and each address of such a key
\* to the shortest of their names.
Built(b, m, done) ==
  /\ \A n \in DOMAIN b.direct : \E k \in done : Lower[k] = n /\ b.direct[n] = m[k]
  /\ \A k \in done : Lower[k] \in DOMAIN b.direct
  /\ \A ip \in DOMAIN b.reverse : \E k \in done : m[k] = ip /\ b.reverse[ip] = Lower[k]
  /\ \A k \in done : m[k] \in DOMAIN b.reverse /\ Length[b.reverse[m[k]]] <= Length[Lower[k]]

\* The names in work come from the peers, those in use from the peers served.
resolverInv ==
  /\ PeersOK(peers) /\ PeersOK(served)
  /\ \/ building = NoNames /\ left = {}
     \/ /\ building.upstream = TRUE /\ left \subseteq DOMAIN mapping
        /\ MappingOf(mapping, peers) /\ Built(building, mapping, DOMAIN mapping \ left)
  /\ \/ cfg = NoNames /\ served = <<>>
     \/ cfg.upstream = TRUE /\ \E m : MappingOf(m, served) /\ Built(cfg, m, DOMAIN m)

LEMMA NamesEmpty == DOMAIN NoNames.direct = {} /\ DOMAIN NoNames.reverse = {} /\ NoNames.upstream = FALSE
BY SMTT(30) DEF NoNames

\* One turn of the loop.
LEMMA VisitBuilds ==
  ASSUME NEW b, NEW m, NEW done, NEW key, Built(b, m, done),
         done \subseteq DOMAIN Lower, key \in DOMAIN Lower, NEW c,
         c.direct = Put(b.direct, Lower[key], m[key]),
         c.reverse = IF m[key] \in DOMAIN b.reverse => Length[Lower[key]] < Length[b.reverse[m[key]]]
                     THEN Put(b.reverse, m[key], Lower[key]) ELSE b.reverse
  PROVE  Built(c, m, done \cup {key})
<1> DEFINE name == Lower[key]
           ip == m[key]
<1>1. /\ DOMAIN c.direct = DOMAIN b.direct \cup {name} /\ c.direct[name] = ip
      /\ \A n \in DOMAIN b.direct : n # name => c.direct[n] = b.direct[n]
  BY Zenon DEF Put
<1>2. \A n \in DOMAIN c.direct : \E k \in done \cup {key} : Lower[k] = n /\ c.direct[n] = m[k]
  BY <1>1, SMTT(30) DEF Built
<1>3. \A k \in done \cup {key} : Lower[k] \in DOMAIN c.direct
  BY <1>1, Zenon DEF Built
<1>4. \A k \in done \cup {key} : Length[Lower[k]] \in Nat
  BY ResolverAssumption, Zenon
<1>5. CASE ip \in DOMAIN b.reverse => Length[name] < Length[b.reverse[ip]]
  <2>1. /\ DOMAIN c.reverse = DOMAIN b.reverse \cup {ip} /\ c.reverse[ip] = name
        /\ \A i \in DOMAIN b.reverse : i # ip => c.reverse[i] = b.reverse[i]
    BY <1>5, Zenon DEF Put
  <2>2. \A i \in DOMAIN c.reverse : \E k \in done \cup {key} : m[k] = i /\ c.reverse[i] = Lower[k]
    BY <2>1, SMTT(60) DEF Built
  <2>3. \A k \in done \cup {key} : m[k] \in DOMAIN c.reverse /\ Length[c.reverse[m[k]]] <= Length[Lower[k]]
    <3> SUFFICES ASSUME NEW k \in done \cup {key}
                 PROVE  m[k] \in DOMAIN c.reverse /\ Length[c.reverse[m[k]]] <= Length[Lower[k]]
      BY Zenon
    <3>1. CASE k = key BY <1>4, <2>1, <3>1, SMTT(60)
    <3>2. CASE k \in done /\ m[k] # ip BY <2>1, <3>2, Zenon DEF Built
    <3>3. CASE k \in done /\ m[k] = ip
      <4>1. ip \in DOMAIN b.reverse /\ Length[b.reverse[ip]] <= Length[Lower[k]] BY <3>3, Zenon DEF Built
      <4>2. PICK j \in done : b.reverse[ip] = Lower[j] BY <4>1, Zenon DEF Built
      <4>3. Length[name] \in Nat /\ Length[b.reverse[ip]] \in Nat /\ Length[Lower[k]] \in Nat
        BY <1>4, <4>2, Zenon
      <4>4. Length[name] <= Length[Lower[k]] BY <1>5, <4>1, <4>3, SMTT(30)
      <4> QED BY <2>1, <3>3, <4>4, Zenon
    <3> QED BY <3>1, <3>2, <3>3, ZenonT(60)
  <2> QED BY <1>2, <1>3, <2>2, <2>3, ZenonT(60) DEF Built
<1>6. CASE ip \in DOMAIN b.reverse /\ ~(Length[name] < Length[b.reverse[ip]])
  <2>1. c.reverse = b.reverse BY <1>6, Zenon
  <2>2. PICK j \in done : b.reverse[ip] = Lower[j] BY <1>6, Zenon DEF Built
  <2>3. Length[b.reverse[ip]] <= Length[name] BY <1>4, <1>6, <2>2, SMTT(30)
  <2>4. \A i \in DOMAIN c.reverse : \E k \in done \cup {key} : m[k] = i /\ c.reverse[i] = Lower[k]
    BY <2>1, SMTT(30) DEF Built
  <2>5. \A k \in done \cup {key} : m[k] \in DOMAIN c.reverse /\ Length[c.reverse[m[k]]] <= Length[Lower[k]]
    BY <1>6, <2>1, <2>3, Zenon DEF Built
  <2> QED BY <1>2, <1>3, <2>4, <2>5, ZenonT(60) DEF Built
<1> QED BY <1>5, <1>6, Zenon

\* What DNSNamesMapping makes of the peers.
LEMMA MappingMade ==
  ASSUME NEW f, PeersOK(f), NEW n,
         DOMAIN n = DOMAIN f \cup ({f[p].domain : p \in DOMAIN f} \ {NoName}),
         \A k \in DOMAIN n : \E p \in Named(f, k) : n[k] = f[p].ip
  PROVE  MappingOf(Put(n, Admin, AdminIP), f)
<1> DEFINE m == Put(n, Admin, AdminIP)
<1>1. /\ DOMAIN m = DOMAIN n \cup {Admin} /\ m[Admin] = AdminIP
      /\ \A k \in DOMAIN n : k # Admin => m[k] = n[k]
  BY Zenon DEF Put
<1>2. DOMAIN n \subseteq KnownID \cup DomainName BY SMTT(30) DEF PeersOK
<1> HIDE DEF m
<1>3. \A p \in DOMAIN f : f[p].domain # NoName => f[p].domain \in DOMAIN m BY <1>1, Zenon
<1>4. \A k \in DOMAIN m \ {Admin} : \E p \in Named(f, k) : m[k] = f[p].ip BY <1>1, Zenon
<1>5. MappingOf(m, f) BY <1>1, <1>2, <1>3, <1>4, Zenon DEF MappingOf
<1> QED BY <1>5, Zenon DEF m

LEMMA resolverStepKeeps == resolverInv /\ [resolverNext]_resolverVars => resolverInv'
<1> SUFFICES ASSUME resolverInv, [resolverNext]_resolverVars PROVE resolverInv' BY Zenon
<1>1. CASE refreshDNSConfig
  <2>1. /\ peers' \in PeerMaps /\ Apart(peers') /\ left' = DOMAIN mapping'
        /\ \E n \in DNSNamesMapping' : mapping' = Put(n, Admin, AdminIP)
        /\ building' = [NoNames EXCEPT !.upstream = TRUE] /\ cfg' = cfg /\ served' = served
    BY <1>1, Zenon DEF refreshDNSConfig
  <2>2. PeersOK(peers)' BY <2>1, SMTT(30) DEF PeersOK, PeerMaps
  <2>3. MappingOf(mapping, peers)'
    <3>1. PICK n \in DNSNamesMapping' : mapping' = Put(n, Admin, AdminIP) BY <2>1, Zenon
    <3>2. /\ DOMAIN n = DOMAIN peers' \cup ({peers'[p].domain : p \in DOMAIN peers'} \ {NoName})
          /\ \A k \in DOMAIN n : \E p \in Named(peers', k) : n[k] = peers'[p].ip
      BY <3>1, Zenon DEF DNSNamesMapping, Named
    <3>3. PeersOK(peers') BY <2>2, Zenon DEF PeersOK, Apart
    <3>4. MappingOf(mapping', peers') BY <3>1, <3>2, <3>3, MappingMade, SMTT(60)
    <3> QED BY <3>4, Zenon DEF MappingOf, Named
  <2>4. Built(building, mapping, DOMAIN mapping \ left)'
    <3>1. DOMAIN building'.direct = {} /\ DOMAIN building'.reverse = {} BY <2>1, SMTT(30) DEF NoNames
    <3> QED BY <2>1, <3>1, Zenon DEF Built
  <2>5. building'.upstream = TRUE BY <2>1, Zenon DEF NoNames
  <2> QED BY <2>1, <2>2, <2>3, <2>4, <2>5, Zenon DEF resolverInv
<1>2. ASSUME NEW key \in left, Visit(key) PROVE resolverInv'
  <2>1. /\ left' = left \ {key} /\ UNCHANGED <<peers, mapping, cfg, served>>
        /\ building'.direct = Put(building.direct, Lower[key], mapping[key])
        /\ building'.reverse =
             IF mapping[key] \in DOMAIN building.reverse
                => Length[Lower[key]] < Length[building.reverse[mapping[key]]]
             THEN Put(building.reverse, mapping[key], Lower[key]) ELSE building.reverse
        /\ building'.upstream = TRUE
    BY <1>2, Zenon DEF Visit
  <2>2. /\ left \subseteq DOMAIN mapping /\ MappingOf(mapping, peers)
        /\ Built(building, mapping, DOMAIN mapping \ left)
    BY Zenon DEF resolverInv
  <2>3. DOMAIN mapping \subseteq DOMAIN Lower BY <2>2, ResolverAssumption, Zenon DEF MappingOf
  <2>4. Built(building', mapping, (DOMAIN mapping \ left) \cup {key})
    BY <2>1, <2>2, <2>3, VisitBuilds, Zenon
  <2>5. (DOMAIN mapping \ left) \cup {key} = DOMAIN mapping \ left' BY <2>1, <2>2, Zenon
  <2>6. Built(building, mapping, DOMAIN mapping \ left)'
    <3>1. Built(building', mapping', DOMAIN mapping' \ left') BY <2>1, <2>4, <2>5, ZenonT(60)
    <3> QED BY <3>1, ZenonT(60) DEF Built
  <2> QED BY <2>1, <2>2, <2>6, SMTT(30) DEF resolverInv, PeersOK, Apart, MappingOf, Named
<1>3. CASE ReceiveConfiguration
  <2>1. /\ building # NoNames /\ left = {} /\ cfg' = building /\ served' = peers
        /\ building' = NoNames /\ UNCHANGED <<peers, left>>
    BY <1>3, Zenon DEF ReceiveConfiguration
  <2>2. /\ building.upstream = TRUE
        /\ MappingOf(mapping, peers) /\ Built(building, mapping, DOMAIN mapping)
    BY <2>1, Zenon DEF resolverInv
  <2>3. \E m : MappingOf(m, served') /\ Built(cfg', m, DOMAIN m) BY <2>1, <2>2, Zenon
  <2>4. PeersOK(peers) /\ PeersOK(peers)' /\ PeersOK(served)' BY <2>1, Zenon DEF resolverInv, PeersOK, Apart
  <2>5. \E m : MappingOf(m, served)' /\ Built(cfg, m, DOMAIN m)'
    BY <2>3, Zenon DEF MappingOf, Built, Named
  <2> QED BY <2>1, <2>2, <2>3, <2>4, Zenon DEF resolverInv
<1>4. CASE UNCHANGED resolverVars
  BY <1>4, SMTT(30) DEF resolverVars, resolverInv, PeersOK, Apart, MappingOf, Named, Built
<1> QED BY <1>1, <1>2, <1>3, <1>4, Zenon DEF resolverNext

\* The answer to a question for the address of one name.
LEMMA OneQuestion ==
  ASSUME NEW n, NEW t \in {"A", "MX"}
  PROVE  LET reply == dnsLocalDomainHandler(<<[name |-> n, type |-> t]>>) IN
         /\ t = "MX" => reply.rcode = "success" /\ DOMAIN reply.answer = {}
         /\ t = "A" /\ Lower[n] \in DOMAIN cfg.direct =>
              reply.rcode = "success" /\ reply.answer[1] = cfg.direct[Lower[n]]
         /\ t = "A" /\ Lower[n] \notin DOMAIN cfg.direct => reply.rcode = "nxdomain"
<1> DEFINE questions == <<[name |-> n, type |-> t]>>
           wanted == {i \in DOMAIN questions : questions[i].type \in {"A", "AAAA", "ANY"}}
           Found(i) == Lower[questions[i].name] \in DOMAIN cfg.direct
           reply == dnsLocalDomainHandler(questions)
<1>1. DOMAIN questions = {1} /\ questions[1].type = t /\ questions[1].name = n
  BY SMTT(30)
<1> HIDE DEF questions
<1>2. wanted = IF t = "A" THEN {1} ELSE {} BY <1>1, Zenon
<1>3. /\ reply.rcode = IF \A i \in wanted : Found(i) THEN "success" ELSE "nxdomain"
      /\ reply.answer = [i \in wanted |-> IF Found(i) THEN cfg.direct[Lower[questions[i].name]] ELSE "none"]
  BY Zenon DEF dnsLocalDomainHandler, Reply
<1>4. Found(1) <=> Lower[n] \in DOMAIN cfg.direct BY <1>1, Zenon
<1>5. CASE t = "MX" BY <1>2, <1>3, <1>5, Zenon DEF questions
<1>6. CASE t = "A"
  <2>1. reply.rcode = (IF Found(1) THEN "success" ELSE "nxdomain") BY <1>2, <1>3, <1>6, Zenon
  <2>2. reply.answer[1] = IF Found(1) THEN cfg.direct[Lower[questions[1].name]] ELSE "none"
    BY <1>2, <1>3, <1>6, Zenon
  <2> QED BY <1>1, <1>4, <1>6, <2>1, <2>2, Zenon DEF questions
<1> QED BY <1>5, <1>6, Zenon

\* The key k of the mapping m is a name of the peer p.
KeyOf(f, m, k, p) ==
  /\ m[k] = f[p].ip /\ Lower[k] # Admin
  /\ k = p \/ (k = f[p].domain /\ Lower[k] = k)

\* The keys of a mapping, and whose they are.
LEMMA KeysAre ==
  ASSUME NEW f, PeersOK(f), NEW m, MappingOf(m, f), NEW k \in DOMAIN m
  PROVE  /\ k \in DOMAIN Lower
         /\ k = Admin => m[k] = AdminIP
         /\ k # Admin => \E p \in DOMAIN f : KeyOf(f, m, k, p)
<1>1. k \in DOMAIN Lower BY ResolverAssumption, Zenon DEF MappingOf
<1>2. ASSUME k # Admin
      PROVE  \E p \in DOMAIN f : KeyOf(f, m, k, p)
  <2>1. PICK p \in Named(f, k) : m[k] = f[p].ip BY <1>2, Zenon DEF MappingOf
  <2>2. p \in DOMAIN f /\ (k = p \/ (k # NoName /\ k = f[p].domain)) BY Zenon DEF Named
  <2>3. CASE k = p BY <2>1, <2>2, <2>3, ResolverAssumption, Zenon DEF PeersOK, KeyOf
  <2>4. CASE k # NoName /\ k = f[p].domain
    BY <1>2, <2>1, <2>2, <2>4, ResolverAssumption, Zenon DEF PeersOK, KeyOf
  <2> QED BY <2>2, <2>3, <2>4, Zenon
<1> QED BY <1>1, <1>2, Zenon DEF MappingOf

\* While ReceiveConfiguration replaces the names, and in whatever order its loop
\* goes through the map, dnsLocalDomainHandler answers from one configuration.
THEOREM NamesAreResolved == resolverSpec => []NamesResolve
<1>1. resolverInit => resolverInv
  BY SMTT(30) DEF resolverInit, resolverInv, PeersOK, Apart
<1>2. resolverInv => NamesResolve
  <2> SUFFICES ASSUME resolverInv, NEW n \in DOMAIN Lower, NEW t \in {"A", "MX"}
               PROVE  LET bearers == {p \in DOMAIN served : Lower[n] \in {Lower[p], served[p].domain}}
                          ips     == IF Lower[n] = Admin THEN {AdminIP} ELSE {served[p].ip : p \in bearers}
                          reply   == dnsLocalDomainHandler(<<[name |-> n, type |-> t]>>)
                      IN  /\ t = "MX" => reply.rcode = "success" /\ DOMAIN reply.answer = {}
                          /\ t = "A" /\ ips = {} => reply.rcode = "nxdomain"
                          /\ t = "A" /\ ips # {} /\ cfg.upstream =>
                               reply.rcode = "success" /\ reply.answer[1] \in ips
    BY Zenon DEF NamesResolve
  <2> DEFINE bearers == {p \in DOMAIN served : Lower[n] \in {Lower[p], served[p].domain}}
             ips     == IF Lower[n] = Admin THEN {AdminIP} ELSE {served[p].ip : p \in bearers}
             reply   == dnsLocalDomainHandler(<<[name |-> n, type |-> t]>>)
  <2>1. /\ t = "MX" => reply.rcode = "success" /\ DOMAIN reply.answer = {}
        /\ t = "A" /\ Lower[n] \in DOMAIN cfg.direct =>
             reply.rcode = "success" /\ reply.answer[1] = cfg.direct[Lower[n]]
        /\ t = "A" /\ Lower[n] \notin DOMAIN cfg.direct => reply.rcode = "nxdomain"
    BY OneQuestion, ZenonT(60)
  <2> HIDE DEF reply
  <2>2. CASE cfg = NoNames
    BY <2>1, <2>2, NamesEmpty, Zenon DEF reply
  <2>3. CASE cfg # NoNames
    <3>1. PICK m : MappingOf(m, served) /\ Built(cfg, m, DOMAIN m) BY <2>3, Zenon DEF resolverInv
    <3>2. Lower[n] \in DOMAIN cfg.direct => ips # {} /\ cfg.direct[Lower[n]] \in ips
      <4> SUFFICES ASSUME Lower[n] \in DOMAIN cfg.direct PROVE cfg.direct[Lower[n]] \in ips
        BY Zenon
      <4>1. PICK k \in DOMAIN m : Lower[k] = Lower[n] /\ cfg.direct[Lower[n]] = m[k]
        BY <3>1, Zenon DEF Built
      <4>2. CASE k = Admin
        BY <3>1, <4>1, <4>2, ResolverAssumption, Zenon DEF MappingOf
      <4>3. CASE k # Admin
        <5>1. PeersOK(served) BY Zenon DEF resolverInv
        <5>2. PICK p \in DOMAIN served : KeyOf(served, m, k, p) BY <3>1, <4>3, <5>1, KeysAre, ZenonT(60)
        <5>3. p \in bearers BY <4>1, <5>2, Zenon DEF KeyOf
        <5>4. m[k] = served[p].ip /\ Lower[n] # Admin BY <4>1, <5>2, Zenon DEF KeyOf
        <5> QED BY <4>1, <5>3, <5>4, Zenon
      <4> QED BY <4>2, <4>3, Zenon
    <3>3. ips # {} => Lower[n] \in DOMAIN cfg.direct
      <4>1. CASE Lower[n] = Admin
        BY <3>1, <4>1, ResolverAssumption, Zenon DEF MappingOf, Built
      <4>2. ASSUME NEW p \in bearers PROVE Lower[n] \in DOMAIN cfg.direct
        <5>1. p \in DOMAIN served /\ (Lower[n] = Lower[p] \/ Lower[n] = served[p].domain) BY <4>2, Zenon
        <5>2. CASE Lower[n] = Lower[p] BY <3>1, <5>1, <5>2, Zenon DEF MappingOf, Built
        <5>3. CASE Lower[n] = served[p].domain
          <6>1. served[p].domain \in DOMAIN m BY <3>1, <5>1, <5>3, ResolverAssumption, Zenon DEF MappingOf
          <6>2. Lower[served[p].domain] = served[p].domain BY <5>3, ResolverAssumption, Zenon
          <6> QED BY <3>1, <5>3, <6>1, <6>2, SMTT(30) DEF Built
        <5> QED BY <5>1, <5>2, <5>3, Zenon
      <4> QED BY <4>1, <4>2, Zenon
    <3> QED BY <2>1, <3>2, <3>3, Zenon DEF reply
  <2> QED BY <2>2, <2>3, ZenonT(60)
<1> QED BY <1>1, <1>2, resolverStepKeeps, PTL DEF resolverSpec

\* The name ptrv4Handler gives for the address of a peer is the shortest one and
\* leads back to it, unless the names of two peers are one key.
THEOREM PtrRoundTrips == resolverSpec => []PtrRoundTrip
<1>1. resolverInit => resolverInv
  BY SMTT(30) DEF resolverInit, resolverInv, PeersOK, Apart
<1>2. resolverInv => PtrRoundTrip
  <2> SUFFICES ASSUME resolverInv, ~Impersonated(served), NEW p \in DOMAIN served,
                      NEW reply \in ptrv4Handler(served[p].ip)
               PROVE  LET name == reply.answer[1] IN
                      /\ reply.rcode = "success"
                      /\ dnsLocalDomainHandler(<<[name |-> name, type |-> "A"]>>).answer[1] = served[p].ip
                      /\ \A n \in DOMAIN cfg.direct :
                           cfg.direct[n] = served[p].ip => Length[name] <= Length[n]
    BY Zenon DEF PtrRoundTrip
  <2> DEFINE ip == served[p].ip
             name == reply.answer[1]
  <2>1. PICK m : MappingOf(m, served) /\ Built(cfg, m, DOMAIN m)
    <3>1. served # <<>> BY SMTT(30)
    <3> QED BY <3>1, Zenon DEF resolverInv
  <2>2. p \in DOMAIN m /\ p # Admin /\ p \in KnownID /\ PeersOK(served) /\ ip \in IPAddr
    BY <2>1, ResolverAssumption, SMTT(30) DEF MappingOf, resolverInv, PeersOK
  <2>3. ASSUME NEW k \in DOMAIN m, NEW q \in DOMAIN served, KeyOf(served, m, k, q),
               NEW j \in DOMAIN m, Lower[j] = Lower[k], k # Admin
        PROVE  m[j] = m[k]
    <3>1. CASE j = Admin
      BY <2>3, <3>1, ResolverAssumption, Zenon DEF KeyOf
    <3>2. CASE j # Admin
      <4>1. PICK r \in DOMAIN served : KeyOf(served, m, j, r)
        BY <2>1, <2>2, <3>2, KeysAre, ZenonT(60)
      <4>2. CASE q = r BY <2>3, <4>1, <4>2, Zenon DEF KeyOf
      <4>3. CASE q # r /\ (k = q \/ j = r)
        BY <2>3, <4>1, <4>3, Zenon DEF Impersonated, KeyOf
      <4>4. CASE k = served[q].domain /\ Lower[k] = k /\ j = served[r].domain /\ Lower[j] = j
        BY <2>3, <4>1, <4>4, Zenon DEF KeyOf
      <4> QED BY <2>3, <4>1, <4>2, <4>3, <4>4, Zenon DEF KeyOf
    <3> QED BY <3>1, <3>2, Zenon
  <2>4. m[p] = ip
    <3>1. PICK q \in DOMAIN served : KeyOf(served, m, p, q)
      BY <2>1, <2>2, KeysAre, ZenonT(60)
    <3> QED BY <3>1, Zenon DEF Impersonated, KeyOf
  <2>5. ip \in DOMAIN cfg.reverse BY <2>1, <2>2, <2>4, Zenon DEF Built
  <2>6. reply.rcode = "success" /\ name = cfg.reverse[ip]
    BY <2>5, SMTT(30) DEF ptrv4Handler, Reply
  <2>7. PICK k \in DOMAIN m : m[k] = ip /\ name = Lower[k]
    BY <2>1, <2>5, <2>6, SMTT(30) DEF Built
  <2> HIDE DEF name
  <2>8. k \in DOMAIN Lower /\ Lower[name] = name
    BY <2>1, <2>2, <2>7, KeysAre, ResolverAssumption, Zenon
  <2>9. k # Admin BY <2>1, <2>2, <2>7, ResolverAssumption, Zenon DEF MappingOf
  <2>10. name \in DOMAIN cfg.direct /\ cfg.direct[name] = ip
    <3>1. name \in DOMAIN cfg.direct BY <2>1, <2>7, Zenon DEF Built
    <3>2. PICK j \in DOMAIN m : Lower[j] = name /\ cfg.direct[name] = m[j] BY <2>1, <3>1, Zenon DEF Built
    <3>3. PICK q \in DOMAIN served : KeyOf(served, m, k, q)
      BY <2>1, <2>2, <2>9, KeysAre, ZenonT(60)
    <3>4. m[j] = m[k] BY <2>3, <2>7, <2>9, <3>2, <3>3, Zenon
    <3> QED BY <2>7, <3>1, <3>2, <3>4, Zenon
  <2>11. dnsLocalDomainHandler(<<[name |-> name, type |-> "A"]>>).answer[1] = ip
    BY <2>8, <2>10, OneQuestion, ZenonT(60)
  <2>12. \A n \in DOMAIN cfg.direct : cfg.direct[n] = ip => Length[name] <= Length[n]
    <3> SUFFICES ASSUME NEW n \in DOMAIN cfg.direct, cfg.direct[n] = ip PROVE Length[name] <= Length[n]
      BY Zenon
    <3>1. PICK j \in DOMAIN m : Lower[j] = n /\ m[j] = ip BY <2>1, SMTT(30) DEF Built
    <3> QED BY <2>1, <2>6, <3>1, Zenon DEF Built, name
  <2> QED BY <2>6, <2>11, <2>12, Zenon DEF name
<1> QED BY <1>1, <1>2, resolverStepKeeps, PTL DEF resolverSpec

-----------------------------------------------------------------------------
(* Notifications: no request is passed over unseen, for any number of peers *)
(* and polls.                                                               *)

\* The end of a poll keeps the invariant, given that what it leaves in
\* _lastRequests was shown.
LEMMA EndsKeeps ==
  ASSUME noticeInv, NEW p \in Poll, Ends(p), shown \subseteq shown',
         _lastRequests' \subseteq shown', requests' \subseteq Request
  PROVE  noticeInv'
BY Zenon DEF noticeInv, NoneMissed, Ends

\* The rest of the loop keeps it, given that what the poll has come past of its
\* list was shown.
LEMMA ContinueKeeps ==
  ASSUME noticeInv, NEW p \in Poll, NEW rest \in SUBSET Request, Continue(p, rest),
         shown \subseteq shown', newRequests[p] \subseteq rest \cup shown',
         requests' \subseteq Request
  PROVE  noticeInv'
<1>1. CASE rest \subseteq _lastRequests /\ _lastRequests' = newRequests[p] /\ Ends(p)
  <2>1. newRequests[p] \subseteq shown'
    BY <1>1, Zenon DEF noticeInv, NoneMissed
  <2> QED BY <1>1, <2>1, EndsKeeps, Zenon
<1>2. ASSUME NEW r \in rest \ _lastRequests, NEW skipped \in SUBSET (rest \cap _lastRequests),
             pollPc' = [pollPc EXCEPT ![p] = "show"],
             toCheck' = [toCheck EXCEPT ![p] = rest \ (skipped \cup {r})],
             req' = [req EXCEPT ![p] = {r}],
             UNCHANGED <<newRequests, _lastRequests>>
      PROVE  noticeInv'
  <2>1. skipped \subseteq shown'
    BY Zenon DEF noticeInv, NoneMissed
  <2>2. newRequests[p] \subseteq (rest \ (skipped \cup {r})) \cup {r} \cup shown'
    BY <2>1, Zenon
  <2>3. \A q \in Poll : pollPc'[q] = "show" => newRequests'[q] \subseteq toCheck'[q] \cup req'[q] \cup shown'
    <3> SUFFICES ASSUME NEW q \in Poll, pollPc'[q] = "show"
                 PROVE  newRequests'[q] \subseteq toCheck'[q] \cup req'[q] \cup shown'
      BY Zenon
    <3>1. CASE q = p
      BY <1>2, <2>2, <3>1, Zenon DEF noticeInv
    <3>2. CASE q # p
      BY <1>2, <3>2, Zenon DEF noticeInv
    <3> QED BY <3>1, <3>2, Zenon
  <2> QED BY <1>2, <2>3, Zenon DEF noticeInv, NoneMissed
<1> QED BY <1>1, <1>2, Zenon DEF Continue

\* Every step of the polls, the timer and the server keeps it.
LEMMA noticeStepKeeps == noticeInv /\ [noticeNext]_noticeVars => noticeInv'
<1> SUFFICES ASSUME noticeInv, [noticeNext]_noticeVars PROVE noticeInv'
  BY Zenon
<1>1. ASSUME NEW r \in Request, Arrives(r) \/ Leaves(r) PROVE noticeInv'
  BY <1>1, Zenon DEF noticeInv, NoneMissed, Arrives, Leaves
<1>2. CASE close
  BY <1>2, Zenon DEF noticeInv, NoneMissed, close
<1>3. ASSUME NEW p \in Poll, Tick(p) PROVE noticeInv'
  BY <1>3, Zenon DEF noticeInv, NoneMissed, Tick
<1>4. ASSUME NEW p \in Poll, fetchAuthRequests(p) PROVE noticeInv'
  BY <1>4, Zenon DEF noticeInv, NoneMissed, fetchAuthRequests
<1>5. ASSUME NEW p \in Poll, fetchFails(p) \/ ShowFails(p) PROVE noticeInv'
  BY <1>5, EndsKeeps, Zenon DEF noticeInv, NoneMissed, fetchFails, ShowFails
<1>6. ASSUME NEW p \in Poll, _checkForNotifications(p) PROVE noticeInv'
  <2>1. newRequests[p] \in SUBSET Request /\ requests' \subseteq Request /\ shown' = shown
    BY <1>6, Zenon DEF noticeInv, _checkForNotifications
  <2> QED BY <1>6, <2>1, ContinueKeeps, Zenon DEF _checkForNotifications
<1>7. ASSUME NEW p \in Poll, Shown(p) PROVE noticeInv'
  <2>1. toCheck[p] \in SUBSET Request /\ requests' \subseteq Request
    BY <1>7, Zenon DEF noticeInv, Shown
  <2>2. newRequests[p] \subseteq toCheck[p] \cup shown' /\ shown \subseteq shown'
    BY <1>7, Zenon DEF noticeInv, Shown
  <2> QED BY <1>7, <2>1, <2>2, ContinueKeeps, Zenon DEF Shown
<1>8. CASE UNCHANGED noticeVars
  BY <1>8, Zenon DEF noticeInv, NoneMissed, noticeVars
<1> QED BY <1>1, <1>2, <1>3, <1>4, <1>5, <1>6, <1>7, <1>8, Zenon DEF noticeNext

\* However many polls of _checkForNotifications overlap, for whatever peers, none
\* records a request whose notification was not shown.
THEOREM NoRequestMissed == noticeSpec => []NoneMissed
<1>1. noticeInit => noticeInv
  BY Zenon DEF noticeInit, noticeInv, NoneMissed
<1>2. noticeInv => NoneMissed
  BY Zenon DEF noticeInv
<1> QED BY <1>1, <1>2, noticeStepKeeps, PTL DEF noticeSpec
=============================================================================
