----------------------------- MODULE ConfStore -----------------------------
(***************************************************************************)
(* The configuration (config/config.go) while an Application lives and     *)
(* over its restarts: the read-write lock, the save of the whole           *)
(* configuration after every change, the KnownPeerChanged events and their *)
(* two subscribers, the tunnel and the DNS resolver, and the file that the *)
(* next process loads.                                                     *)
(*                                                                         *)
(* What a call puts into the configuration is abstracted to the number of  *)
(* the call: `peers' holds the calls that changed KnownPeers, `other' the  *)
(* ones that changed anything else.  A goroutine is the list of the steps  *)
(* it still has to do.  The step that takes the lock also makes the change *)
(* and, when a save follows, opens the file: nothing can come in between.  *)
(***************************************************************************)
EXTENDS Naturals, Sequences

CONSTANTS SystemDNS,  \* the upstream server that initDNS finds: "default" or "base"
          Workers,    \* goroutines of stream handlers and of the API
          BufferSize, \* events a subscription holds (16 in the event bus)
          MaxOps,     \* bound: calls that change the configuration
          MaxStarts   \* bound: processes

ASSUME BoundsAssumption ==
  BufferSize \in Nat \ {0} /\ MaxOps \in Nat /\ MaxStarts \in Nat

VARIABLES
  file,     \* awl_config.json: Absent, Torn, or what was saved
  mem,      \* the Config of the running process
  running,  \* there is a process
  serving,  \* the stream handlers are registered: calls may arrive
  lock,     \* config.Config.RWMutex: who writes, who reads
  thread,   \* the goroutines: the call, its number, the steps left, what was read
  sub,      \* the subscriptions: active, and the events waiting in them
  last,     \* the emitter is Stateful: an event was emitted before
  view,     \* the peers that the tunnel and the resolver know
  upstream, \* DNSService.upstreamDNS
  ops, starts,
  kept,     \* history: what the calls that returned, or an import, changed
  failed,   \* history: the last write of the file failed
  raced     \* history: two refreshes of the resolver overlapped

process == <<running, serving, starts>>
bus     == <<sub, last>>
vars == <<file, mem, process, lock, thread, bus, view, upstream, ops, kept, failed, raced>>

Nobody == "nobody"
NoId   == 0
Earlier == 1                  \* the identity an earlier process had saved
Imported == MaxStarts + 2     \* the identity of an imported file

ASSUME WorkersAssumption == Workers \cap {"app", "tunnel", "dns", Nobody} = {}

Subs    == {"tunnel", "dns"}
Threads == Workers \cup Subs \cup {"app"}
Calls   == 1 .. MaxOps
SubscribeStep == [tunnel |-> "subscribeTunnel", dns |-> "subscribeDNS"]
Empty   == [id |-> NoId, peers |-> {}, other |-> {}]
Whole(conf) == [state |-> "whole", conf |-> conf]
Absent  == [state |-> "absent", conf |-> Empty]
Torn    == [state |-> "torn", conf |-> Empty]
NoView  == [peers |-> {}, up |-> "default"]

(***************************************************************************)
(* The steps of each call.                                                 *)
(***************************************************************************)
save == <<"write">>
Save == <<"RLock">> \o save \o <<"RUnlock">>
UpsertPeer_NoSave == <<"Lock", "Unlock", "emit">>
UpsertPeer == <<"Lock">> \o save \o <<"Unlock", "emit">>
RemovePeer == <<"Lock">> \o save \o <<"Unlock", "emit">>
UpsertBlockedPeer_NoUnlock == <<"Lock">> \o save
UpsertBlockedPeer == <<"Lock">> \o save \o <<"Unlock">>
SetIdentity == <<"Lock">> \o save \o <<"Unlock">>
SetProxyPeerID_SavesLocked == <<"Lock">> \o Save \o <<"Unlock">>
SetProxyPeerID == <<"Lock", "Unlock">> \o Save
UpdatePeerSettings == <<"Lock">> \o save \o <<"emit", "Unlock">>
RefreshPeersList == <<"apply">>
refreshDNSConfig == <<"read", "store">>
initDNS_NoLastRefresh == refreshDNSConfig \o <<"subscribeDNS", "upstream">>
initDNS == refreshDNSConfig \o <<"subscribeDNS", "upstream">> \o refreshDNSConfig
AppInit == SetIdentity \o RefreshPeersList \o <<"serve", "subscribeTunnel">> \o initDNS
AppClose == Save \o <<"cancel">> \o Save \o <<"exit">>

(* The calls that change the known peers, and the ones that change the rest. *)
Programs == [peers |-> {UpsertPeer, RemovePeer, UpdatePeerSettings},
             other |-> {UpsertBlockedPeer, SetProxyPeerID}]
Kinds == DOMAIN Programs

Idle == [call |-> "none", n |-> 0, todo |-> <<>>, data |-> Empty]
At(t, step) == thread[t].todo # <<>> /\ Head(thread[t].todo) = step
Run(t, call, n, program) ==
  thread' = [thread EXCEPT ![t] = [call |-> call, n |-> n, todo |-> program, data |-> Empty]]

Changed(conf, t) ==
  CASE thread[t].call \in Kinds -> [conf EXCEPT ![thread[t].call] = @ \cup {thread[t].n}]
    [] thread[t].call = "Init" /\ conf.id = NoId -> [conf EXCEPT !.id = thread[t].n]
    [] OTHER -> conf

Free == [writer |-> Nobody, readers |-> {}]
Released(held, t) ==
  [writer |-> IF held.writer = t THEN Nobody ELSE held.writer, readers |-> held.readers \ {t}]

(* The step of t is done, and with it the release of the lock if that comes  *)
(* next; after the last step the call returns, and its change has to last.   *)
Done(t, data, held) ==
  LET left == Tail(thread[t].todo)
      release == left # <<>> /\ Head(left) \in {"Unlock", "RUnlock"}
      rest == IF release THEN Tail(left) ELSE left
  IN  /\ thread' = [thread EXCEPT ![t] = IF rest = <<>> THEN Idle
                                         ELSE [thread[t] EXCEPT !.todo = rest, !.data = IF Head(rest) \in {"write", "store"} THEN data ELSE Empty]]
      /\ lock' = IF release THEN Released(held, t) ELSE held
      /\ kept' = IF thread[t].call = "ImportConfig" THEN data
                 ELSE IF At(t, "write") /\ thread[t].call = "Init" THEN [kept EXCEPT !.id = data.id]
                 ELSE IF rest = <<>> THEN Changed(kept, t) ELSE kept

NoSub == [active |-> FALSE, events |-> 0]
Init ==
  /\ file \in {Absent, Whole([Empty EXCEPT !.id = Earlier])} /\ kept = file.conf
  /\ mem = Empty /\ running = FALSE /\ serving = FALSE
  /\ lock = Free
  /\ thread = [t \in Threads |-> Idle]
  /\ sub = [s \in Subs |-> NoSub] /\ last = FALSE
  /\ view = [s \in Subs |-> NoView] /\ upstream = "default"
  /\ ops = 0 /\ starts = 0
  /\ failed = FALSE /\ raced = FALSE

(***************************************************************************)
(* The process begins and ends.                                            *)
(***************************************************************************)
LoadConfig == IF file.state = "whole" THEN file.conf ELSE Empty

Start ==
  /\ ~running /\ starts < MaxStarts /\ thread["app"].todo = <<>>
  /\ starts' = starts + 1 /\ running' = TRUE
  /\ mem' = LoadConfig
  /\ kept' = IF file = Torn THEN Empty ELSE kept
  /\ Run("app", "Init", Earlier + starts + 1, AppInit)
  /\ UNCHANGED <<file, serving, lock, bus, view, upstream, ops, failed, raced>>

(* The process is gone: a save that had only opened the file leaves it empty. *)
ProcessGone ==
  /\ running' = FALSE /\ serving' = FALSE /\ lock' = Free
  /\ thread' = [t \in Threads |-> Idle]
  /\ sub' = [s \in Subs |-> NoSub] /\ last' = FALSE
  /\ view' = [s \in Subs |-> NoView] /\ upstream' = "default"
  /\ mem' = Empty /\ failed' = FALSE /\ raced' = FALSE
  /\ UNCHANGED <<file, ops, starts, kept>>

Kill == running /\ ProcessGone

Close ==
  /\ running /\ serving /\ thread["app"].todo = <<>>
  /\ Run("app", "Close", 0, AppClose)
  /\ UNCHANGED <<file, mem, process, lock, bus, view, upstream, ops, kept, failed, raced>>

Exit == At("app", "exit") /\ ProcessGone

(* config.ImportConfig, refused while a server runs. *)
ImportConfig ==
  /\ ~running /\ thread["app"].todo = <<>> /\ starts > 0 /\ kept.id # Imported
  /\ thread' = [thread EXCEPT !["app"] =
                  [call |-> "ImportConfig", n |-> 0, todo |-> save,
                   data |-> [Empty EXCEPT !.id = Imported]]]
  /\ file' = Torn
  /\ UNCHANGED <<mem, process, lock, bus, view, upstream, ops, kept, failed, raced>>

(***************************************************************************)
(* The calls, and the steps of a goroutine.                                *)
(***************************************************************************)
(* Goroutines are alike: one that is free runs the call. *)
Call(t, kind, program) ==
  /\ running /\ serving /\ ops < MaxOps
  /\ thread[t].todo = <<>> /\ t = CHOOSE u \in Workers : thread[u].todo = <<>>
  /\ ops' = ops + 1
  /\ Run(t, kind, ops + 1, program)
  /\ UNCHANGED <<file, mem, process, lock, bus, view, upstream, kept, failed, raced>>

(* os.WriteFile opens the file with O_TRUNC and then writes it. *)
Opened(t) == IF Tail(thread[t].todo)[1] = "write" THEN Torn ELSE file

Lock(t) ==
  /\ At(t, "Lock") /\ lock = Free
  /\ mem' = Changed(mem, t)
  /\ file' = Opened(t)
  /\ Done(t, mem', [lock EXCEPT !.writer = t])
  /\ UNCHANGED <<process, bus, view, upstream, ops, failed, raced>>

RLock_Omitted(t) ==
  /\ At(t, "RLock")
  /\ file' = Opened(t)
  /\ Done(t, mem, lock)
  /\ UNCHANGED <<mem, process, bus, view, upstream, ops, failed, raced>>
RLock(t) ==
  /\ At(t, "RLock") /\ lock.writer = Nobody
  /\ file' = Opened(t)
  /\ Done(t, mem, [lock EXCEPT !.readers = @ \cup {t}])
  /\ UNCHANGED <<mem, process, bus, view, upstream, ops, failed, raced>>

Write(t) ==
  /\ At(t, "write")
  /\ file' = Whole(thread[t].data) /\ failed' = FALSE
  /\ Done(t, thread[t].data, lock)
  /\ UNCHANGED <<mem, process, bus, view, upstream, ops, raced>>

(* The write fails (disk full): it is logged, and the call goes on. *)
WriteFails(t) ==
  /\ At(t, "write") /\ running
  /\ failed' = TRUE
  /\ Done(t, thread[t].data, lock)
  /\ UNCHANGED <<file, mem, process, bus, view, upstream, ops, raced>>

(***************************************************************************)
(* The event bus: an emitter waits for room in every subscription.         *)
(***************************************************************************)
Emit(t) ==
  /\ At(t, "emit")
  /\ \A s \in Subs : sub[s].active => sub[s].events < BufferSize
  /\ sub' = [s \in Subs |-> IF sub[s].active THEN [sub[s] EXCEPT !.events = @ + 1] ELSE sub[s]]
  /\ last' = TRUE
  /\ Done(t, thread[t].data, lock)
  /\ UNCHANGED <<file, mem, process, view, upstream, ops, failed, raced>>

(* A new subscription of a Stateful emitter begins with the last event. *)
Backlog_Stateless == 0
Backlog == IF last THEN 1 ELSE 0
Subscribe(s) ==
  /\ At("app", SubscribeStep[s])
  /\ sub' = [sub EXCEPT ![s] = [active |-> TRUE, events |-> Backlog]]
  /\ Done("app", thread["app"].data, lock)
  /\ UNCHANGED <<file, mem, process, last, view, upstream, ops, failed, raced>>

Receive(s) ==
  /\ sub[s].events > 0 /\ thread[s].todo = <<>>
  /\ sub' = [sub EXCEPT ![s].events = @ - 1]
  /\ Run(s, "refresh", 0, IF s = "tunnel" THEN RefreshPeersList ELSE refreshDNSConfig)
  /\ UNCHANGED <<file, mem, process, lock, last, view, upstream, ops, kept, failed, raced>>

(* The tunnel brings its tables up to date under the read lock. *)
Apply(t) ==
  /\ At(t, "apply") /\ lock.writer = Nobody
  /\ view' = [view EXCEPT !["tunnel"].peers = mem.peers]
  /\ Done(t, thread[t].data, lock)
  /\ UNCHANGED <<file, mem, process, bus, upstream, ops, failed, raced>>

(* The names are read under the read lock, the upstream server without it. *)
ReadNames(t) ==
  /\ At(t, "read") /\ lock.writer = Nobody
  /\ Done(t, [peers |-> mem.peers, up |-> upstream], lock)
  /\ UNCHANGED <<file, mem, process, bus, view, upstream, ops, failed, raced>>

(* Resolver.ReceiveConfiguration stores the configuration it was given. *)
Store(t) ==
  /\ At(t, "store")
  /\ view' = [view EXCEPT !["dns"] = thread[t].data]
  /\ raced' = (raced \/ \E u \in {"app", "dns"} \ {t} : At(u, "store"))
  /\ Done(t, thread[t].data, lock)
  /\ UNCHANGED <<file, mem, process, bus, upstream, ops, failed>>

(***************************************************************************)
(* The other steps of Application.Init and Application.Close.              *)
(***************************************************************************)
Serve ==
  /\ At("app", "serve")
  /\ serving' = TRUE
  /\ Done("app", thread["app"].data, lock)
  /\ UNCHANGED <<file, mem, running, starts, bus, view, upstream, ops, failed, raced>>

(* Without split DNS the first nameserver of the system becomes the upstream. *)
SetUpstream ==
  /\ At("app", "upstream")
  /\ upstream' = SystemDNS
  /\ Done("app", thread["app"].data, lock)
  /\ UNCHANGED <<file, mem, process, bus, view, ops, failed, raced>>

(* The subscribers leave; what is left in their buffers is drained. *)
CtxCancel ==
  /\ At("app", "cancel")
  /\ sub' = [s \in Subs |-> NoSub]
  /\ Done("app", thread["app"].data, lock)
  /\ UNCHANGED <<file, mem, process, last, view, upstream, ops, failed, raced>>

Step(t) == Lock(t) \/ RLock(t) \/ Write(t) \/ Emit(t)

AppStep ==
  \/ Step("app") \/ Apply("app") \/ ReadNames("app") \/ Store("app")
  \/ Serve \/ SetUpstream \/ CtxCancel \/ Exit
  \/ \E s \in Subs : Subscribe(s)

Refresh(s) == Receive(s) \/ Apply(s) \/ ReadNames(s) \/ Store(s)

GoStep == AppStep \/ (\E t \in Workers : Step(t)) \/ (\E s \in Subs : Refresh(s))

Next ==
  \/ Start \/ Kill \/ Close \/ ImportConfig
  \/ \E t \in Workers, kind \in Kinds : \E program \in Programs[kind] : Call(t, kind, program)
  \/ \E t \in Threads : WriteFails(t)
  \/ GoStep

Spec == Init /\ [][Next]_vars

(* The Go scheduler does not stand still while a goroutine can run; the      *)
(* goroutines take finitely many steps between two calls, so nothing more is *)
(* needed of it.                                                             *)
FairSpec == Spec /\ WF_vars(GoStep)

(***************************************************************************)
(* Properties.                                                             *)
(***************************************************************************)
(* A goroutine has changed the configuration, or opened the file, and its save *)
(* is still to come.                                                           *)
Unsaved(t) ==
  \/ At(t, "write")
  \/ /\ thread[t].call = "other" /\ thread[t].n \in mem.other
     /\ \E i \in DOMAIN thread[t].todo : thread[t].todo[i] = "write"

(* Whatever saves overlap - Save takes the lock for reading only - once none   *)
(* is under way the file is the whole configuration as it is in memory         *)
(* (config.Save, save).                                                        *)
FileIsCurrent ==
  running /\ mem.id # NoId /\ ~failed /\ (\A t \in Threads : ~Unsaved(t)) => file = Whole(mem)

(* The identity and every change whose call has returned are there in this and *)
(* in every later process, unless a process ended, or a write failed, after a  *)
(* save had truncated the file, or another configuration was imported          *)
(* (save, LoadConfig, NewConfig, SetIdentity, ImportConfig).                   *)
ChangesKept ==
  LET conf == IF running THEN mem ELSE LoadConfig
  IN  \/ ~running /\ file = Torn
      \/ /\ kept.id \in {NoId, conf.id}
         /\ kept.peers \subseteq conf.peers /\ kept.other \subseteq conf.other

(* No call hangs: neither on the lock of the configuration, nor on a full      *)
(* subscription while it holds that lock (UpsertPeerUnlocked emits under it).  *)
(* The instance has as many events as a subscription and its reader take up;   *)
(* with one more, MaxOps = BufferSize + 2, TLC shows a call that never returns. *)
CallsReturn == \A t \in Workers : thread[t].todo # <<>> ~> thread[t].todo = <<>>

(* Application.Close ends, although it saves under the lock twice.             *)
CloseEnds == thread["app"].call = "Close" ~> ~running

(* The tunnel learns of every change of the known peers, also of one that a    *)
(* stream handler made before the tunnel subscribed (Application.Init).        *)
TunnelFollows ==
  serving ~> (~serving \/ thread["app"].call = "Close" \/ view["tunnel"].peers = mem.peers)

(* The resolver answers with the current names and the chosen upstream server, *)
(* unless the refresh at the end of initDNS overlapped one of the subscriber   *)
(* (refreshDNSConfig reads and stores in two steps).                           *)
ResolverFollows ==
  sub["dns"].active ~>
    (~sub["dns"].active \/ raced \/ view["dns"] = [peers |-> mem.peers, up |-> upstream])
============================================================================
