----------------------------- MODULE AuthStatus -----------------------------
(***************************************************************************)
(* Friendship between peers: service/auth_status.go, the operations of     *)
(* api/peers.go that call it and the part of config.Config they share.     *)
(*                                                                         *)
(* Every node keeps the peers it knows, the peers it has blocked and the   *)
(* exit node it uses in its configuration file, and the auth requests it   *)
(* received and sent in memory.  Requests of the API, tickers, connection  *)
(* events and incoming streams run concurrently; each takes conf.Lock or   *)
(* authsLock for one access at a time, so a KnownPeer is read in one step  *)
(* and written back whole in a later one.  (Where a handler asks for the   *)
(* known and for the blocked peer in a row the model asks once: every pair *)
(* of answers that changes what it does can also be had in one step.)      *)
(*                                                                         *)
(* A goroutine, with the stream it opens and the handler at the other end, *)
(* is a slot of g.  Names, aliases, addresses, times and                   *)
(* ReportedUsingPeerID are left out: nothing here depends on them.         *)
(***************************************************************************)
EXTENDS Naturals, FiniteSets

CONSTANTS
    Nodes,       \* peers running the program
    Goroutines,  \* goroutines of API calls and events that may be active at a time
    Tickers,     \* goroutines <<n, "retry">> and <<n, "status">> of the two tickers
    Unknown,     \* no such key in KnownPeers; as a copy, the zero KnownPeer
    Nobody,      \* the empty UsingPeerID
    AutoAccept,  \* nodes with P2pNode.AutoAcceptAuthRequests
    UserOps,     \* <<n, operation>> of users and events from outside that may occur
    MaxOps,      \* how many of them
    MaxFaults    \* how many connections and streams fail

ASSUME AuthConstants ==
    /\ Nodes # {} /\ Nobody \notin Nodes /\ AutoAccept \subseteq Nodes
    /\ Tickers \subseteq Nodes \X {"retry", "status"}
    /\ UserOps \subseteq Nodes \X {"invite", "accept", "decline", "remove", "settings", "proxy",
                                   "connect", "restart"}
    /\ MaxOps \in Nat /\ MaxFaults \in Nat

VARIABLES
    peers,               \* conf.KnownPeers of each node
    ghost,               \* nodes whose KnownPeers has an entry with an empty PeerID
    blocked,             \* conf.BlockedPeers
    using, saved,        \* SOCKS5.UsingPeerID, in memory and in the file
    ingoing, outgoing,   \* ingoingAuths, outgoingAuths
    g,                   \* goroutines
    ops, faults,         \* what is left of MaxOps and MaxFaults
    added,               \* history: <<n, m>> once n's AddPeer(m) has passed its checks
    allowedOnce          \* history: <<n, m>> once n has allowed m to use it as exit node

confVars == <<peers, ghost, blocked, using, saved>>
authVars == <<ingoing, outgoing>>
history  == <<added, allowedOnce>>
vars == <<confVars, authVars, g, ops, faults, history>>

Slots == Goroutines \cup Tickers

KnownPeer == [confirmed : BOOLEAN, declined : BOOLEAN,
              we : BOOLEAN,       \* WeAllowUsingAsExitNode
              allowed : BOOLEAN]  \* AllowedUsingAsExitNode
MaybePeer == KnownPeer \cup {Unknown}
NewPeer(confirmed) ==
    [confirmed |-> confirmed, declined |-> FALSE, we |-> FALSE, allowed |-> FALSE]

(* PeerStatusInfo, AuthPeerResponse, or what a reader gets when the stream *)
(* is closed before an answer.                                             *)
Answers == {"none", "declined", "allow", "deny", "known", "pending", "broken"}

(* n runs pc against m, whose handler of the stream is at spc.             *)
Goroutine ==
    [pc : {"free", "add", "unblock", "upsert", "fresh", "block", "write", "choose", "save",
           "auth", "authOpen", "authWait", "authGet", "authPut",
           "dial", "open", "wait", "get", "put", "use", "end"},
     spc : {"none", "auth", "judged", "status", "known", "get", "put", "use"},
     n : Nodes, m : Nodes,
     confirmed : BOOLEAN,                \* argument of AddPeer
     then : {"none", "fresh", "copy"},   \* status exchange after SendAuthRequest
     copy : MaybePeer,                   \* KnownPeer argument of the goroutine
     kp : MaybePeer, skp : MaybePeer,    \* last GetPeer at n, at m
     isBlocked : BOOLEAN, sBlocked : BOOLEAN,
     info : Answers, answer : Answers]

(* The variables stay in their ranges, and a node never knows itself.      *)
TypeOK ==
    /\ peers \in [Nodes -> [Nodes -> MaybePeer]] /\ \A n \in Nodes : peers[n][n] = Unknown
    /\ ghost \in SUBSET Nodes /\ blocked \in [Nodes -> SUBSET Nodes]
    /\ using \in [Nodes -> Nodes \cup {Nobody}] /\ saved \in [Nodes -> Nodes \cup {Nobody}]
    /\ ingoing \in [Nodes -> SUBSET Nodes] /\ outgoing \in [Nodes -> SUBSET Nodes]
    /\ g \in [Slots -> Goroutine]
    /\ ops \in 0..MaxOps /\ faults \in 0..MaxFaults
    /\ added \in SUBSET (Nodes \X Nodes) /\ allowedOnce \in SUBSET (Nodes \X Nodes)

Run(pc, n, m) ==
    [pc |-> pc, spc |-> "none", n |-> n, m |-> m, confirmed |-> FALSE, then |-> "none",
     copy |-> Unknown, kp |-> Unknown, skp |-> Unknown, isBlocked |-> FALSE, sBlocked |-> FALSE,
     info |-> "none", answer |-> "none"]
Free == LET n == CHOOSE n \in Nodes : TRUE IN Run("free", n, n)

Init ==
    /\ peers = [n \in Nodes |-> [m \in Nodes |-> Unknown]] /\ ghost = {}
    /\ blocked = [n \in Nodes |-> {}]
    /\ using = [n \in Nodes |-> Nobody] /\ saved = using
    /\ ingoing = [n \in Nodes |-> {}] /\ outgoing = [n \in Nodes |-> {}]
    /\ g = [i \in Slots |-> Free]
    /\ ops = MaxOps /\ faults = MaxFaults
    /\ added = {} /\ allowedOnce = {}

-----------------------------------------------------------------------------
Go(r) == \E i \in Goroutines : g[i].pc = "free" /\ g' = [g EXCEPT ![i] = r]

(* Slot i goes on as r; it is free once both ends are done.                *)
Continue(i, r) == g' = [g EXCEPT ![i] = IF r.pc = "end" /\ r.spc = "none" THEN Free ELSE r]

(* config.save writes the whole configuration.                             *)
Save(n) == saved' = [saved EXCEPT ![n] = using[n]]

(* UpsertPeer of a copy; the zero KnownPeer lands under the empty PeerID.  *)
UpsertPeer(n, m, kp) ==
    /\ IF kp = Unknown THEN ghost' = ghost \cup {n} /\ UNCHANGED peers
       ELSE peers' = [peers EXCEPT ![n][m] = kp] /\ UNCHANGED ghost
    /\ Save(n) /\ UNCHANGED <<blocked, using>>

Fault == faults > 0 /\ faults' = faults - 1

(* The stream breaks: the request is lost, or only the answer to it.       *)
StreamBreaks(i) ==
    LET r == g[i] IN
    /\ Fault /\ r.pc \in {"authWait", "wait"} /\ r.answer = "none"
    /\ \/ Continue(i, [r EXCEPT !.answer = "broken", !.spc = "none", !.skp = Unknown, !.sBlocked = FALSE])
       \/ Continue(i, [r EXCEPT !.answer = "broken"])
    /\ UNCHANGED <<confVars, authVars, ops, history>>

Reply(r, answer) == IF r.answer = "broken" THEN "broken" ELSE answer

-----------------------------------------------------------------------------
(* The API of node n, up to the first lock it releases.                    *)

User(n, op) == <<n, op>> \in UserOps /\ ops > 0 /\ ops' = ops - 1 /\ UNCHANGED <<faults, history>>

SendFriendRequest_Self(n, m) ==  \* faulty variant
    /\ User(n, "invite") /\ Go(Run("add", n, m))
    /\ UNCHANGED <<confVars, authVars>>
SendFriendRequest(n, m) ==
    /\ User(n, "invite") /\ n # m /\ Go(Run("add", n, m))
    /\ UNCHANGED <<confVars, authVars>>

AcceptFriend(n, m) ==
    /\ n # m /\ m \in ingoing[n]
    /\ \/ User(n, "accept") /\ Go([Run("add", n, m) EXCEPT !.confirmed = TRUE])
       \/ User(n, "decline") /\ Go(Run("block", n, m))
    /\ UNCHANGED <<confVars, authVars>>

RemovePeer(n, m) ==
    /\ User(n, "remove") /\ peers[n][m] # Unknown
    /\ peers' = [peers EXCEPT ![n][m] = Unknown] /\ Save(n)
    /\ Go(Run("block", n, m))
    /\ UNCHANGED <<ghost, blocked, using, authVars>>

UpdatePeerSettings(n, m, allow) ==
    /\ User(n, "settings") /\ peers[n][m] # Unknown
    /\ Go([Run("write", n, m) EXCEPT !.copy = [peers[n][m] EXCEPT !.we = allow]])
    /\ UNCHANGED <<confVars, authVars>>

UpdateProxySettings_Unchecked(n, m) ==  \* faulty variant
    /\ User(n, "proxy") /\ peers[n][m] # Unknown
    /\ Go(Run("choose", n, m))
    /\ UNCHANGED <<confVars, authVars>>
UpdateProxySettings(n, m) ==
    /\ User(n, "proxy") /\ peers[n][m] # Unknown /\ peers[n][m].allowed
    /\ Go(Run("choose", n, m))
    /\ UNCHANGED <<confVars, authVars>>

ClearProxySettings(n) ==
    /\ User(n, "proxy") /\ using' = [using EXCEPT ![n] = Nobody] /\ Go(Run("save", n, n))
    /\ UNCHANGED <<peers, ghost, blocked, saved, authVars>>

(* The process ends and is started again; NewAuthStatus restores the       *)
(* requests that nobody has answered.                                      *)
Survivor(r, n) ==
    LET pc  == IF r.n = n \/ r.pc = "free" THEN "end" ELSE r.pc
        spc == IF r.m = n THEN "none" ELSE r.spc
        answer == IF r.m = n /\ r.spc # "none" /\ r.answer = "none" THEN "broken" ELSE r.answer
    IN  IF pc = "end" /\ spc = "none" THEN Free
        ELSE [r EXCEPT !.pc = pc, !.spc = spc, !.answer = answer]

restoreOutgoingAuths_Forgotten(n) == {}  \* faulty variant
restoreOutgoingAuths(n) ==
    {m \in Nodes : peers[n][m] # Unknown /\ ~peers[n][m].confirmed /\ ~peers[n][m].declined}

Restart(n) ==
    /\ User(n, "restart")
    /\ g' = [i \in Slots |-> Survivor(g[i], n)]
    /\ using' = [using EXCEPT ![n] = saved[n]]
    /\ ingoing' = [ingoing EXCEPT ![n] = {}]
    /\ outgoing' = [outgoing EXCEPT ![n] = restoreOutgoingAuths(n)]
    /\ UNCHANGED <<peers, ghost, blocked, saved>>

-----------------------------------------------------------------------------
(* AddPeer, BlockPeer and the rest of the API handlers, one lock at a time.*)
(* An alias or an address that is already taken also ends AddPeer.         *)

AddCheck(i) ==
    LET r == g[i] IN
    /\ r.pc = "add"
    /\ \/ peers[r.n][r.m] = Unknown /\ Continue(i, [r EXCEPT !.pc = "unblock"])
       \/ Continue(i, [r EXCEPT !.pc = "end"])
    /\ UNCHANGED <<confVars, authVars, ops, faults, history>>

AddUnblock(i) ==
    LET r == g[i] IN
    /\ r.pc = "unblock" /\ Continue(i, [r EXCEPT !.pc = "upsert"])
    /\ blocked' = [blocked EXCEPT ![r.n] = @ \ {r.m}]
    /\ IF r.m \in blocked[r.n] THEN Save(r.n) ELSE UNCHANGED saved
    /\ added' = added \cup {<<r.n, r.m>>}
    /\ UNCHANGED <<peers, ghost, using, authVars, ops, faults, allowedOnce>>

AddUpsert(i) ==
    LET r == g[i] IN
    /\ r.pc = "upsert" /\ UpsertPeer(r.n, r.m, NewPeer(r.confirmed))
    /\ Continue(i, [r EXCEPT !.pc = IF r.confirmed THEN "fresh" ELSE "auth", !.then = "fresh"])
    /\ UNCHANGED <<authVars, ops, faults, history>>

(* The GetPeer before AddPeer's status exchange.                           *)
AddFresh(i) ==
    LET r == g[i] IN
    /\ r.pc = "fresh" /\ Continue(i, [Run("dial", r.n, r.m) EXCEPT !.copy = peers[r.n][r.m]])
    /\ UNCHANGED <<confVars, authVars, ops, faults, history>>

BlockPeer(i) ==
    LET r == g[i] IN
    /\ r.pc = "block" /\ Continue(i, [r EXCEPT !.pc = "dial"])
    /\ blocked' = [blocked EXCEPT ![r.n] = @ \cup {r.m}] /\ Save(r.n)
    /\ UNCHANGED <<peers, ghost, using, authVars, ops, faults, history>>

SettingsWrite(i) ==
    LET r == g[i] IN
    /\ r.pc = "write" /\ UpsertPeer(r.n, r.m, r.copy)
    /\ Continue(i, [r EXCEPT !.pc = "dial"])
    /\ allowedOnce' = IF r.copy.we THEN allowedOnce \cup {<<r.n, r.m>>} ELSE allowedOnce
    /\ UNCHANGED <<authVars, ops, faults, added>>

SetProxyPeerID(i) ==
    LET r == g[i] IN
    /\ r.pc = "choose" /\ Continue(i, [r EXCEPT !.pc = "save"])
    /\ using' = [using EXCEPT ![r.n] = r.m]
    /\ UNCHANGED <<peers, ghost, blocked, saved, authVars, ops, faults, history>>

(* SetProxyPeerID gives up the lock before it saves.                       *)
ProxySave(i) ==
    LET r == g[i] IN
    /\ r.pc = "save" /\ Continue(i, [r EXCEPT !.pc = "end"]) /\ Save(r.n)
    /\ UNCHANGED <<peers, ghost, blocked, using, authVars, ops, faults, history>>

-----------------------------------------------------------------------------
(* The tickers, one known peer or one unanswered request at a time, each   *)
(* in its goroutine, and the connection event of libp2p.                   *)

Tick(t, r) ==
    /\ t \in Tickers /\ g[t].pc = "free" /\ g' = [g EXCEPT ![t] = r]
    /\ UNCHANGED <<confVars, authVars, ops, faults, history>>

BackgroundRetryAuthRequests(n, m) == m \in outgoing[n] /\ Tick(<<n, "retry">>, Run("auth", n, m))

BackgroundExchangeStatusInfo(n, m) ==
    /\ peers[n][m] # Unknown
    /\ Tick(<<n, "status">>, [Run("dial", n, m) EXCEPT !.copy = peers[n][m]])

onPeerConnected(n, m) ==
    LET known == peers[n][m] # Unknown
        r == [Run("auth", n, m) EXCEPT !.copy = peers[n][m], !.then = IF known THEN "copy" ELSE "none"]
    IN  /\ User(n, "connect")
        /\ \/ m \in outgoing[n] /\ Go(r)
           \/ m \notin outgoing[n] /\ known /\ Go([r EXCEPT !.pc = "dial", !.then = "none"])
        /\ UNCHANGED <<confVars, authVars>>

-----------------------------------------------------------------------------
(* SendAuthRequest at n, AuthStreamHandler at m.                           *)

(* SendAuthRequest returns, with or without an error.                      *)
AuthDone(r) ==
    [Run(CASE r.then = "none" -> "end" [] r.then = "fresh" -> "fresh" [] r.then = "copy" -> "dial",
         r.n, r.m) EXCEPT !.copy = r.copy]

AuthStart(i) ==
    LET r == g[i] IN
    /\ r.pc = "auth" /\ Continue(i, [r EXCEPT !.pc = "authOpen"])
    /\ outgoing' = [outgoing EXCEPT ![r.n] = @ \cup {r.m}]
    /\ UNCHANGED <<confVars, ingoing, ops, faults, history>>

AuthOpen(i) ==
    LET r == g[i] IN
    /\ r.pc = "authOpen"
    /\ \/ Fault /\ Continue(i, AuthDone(r))
       \/ Continue(i, [r EXCEPT !.pc = "authWait", !.spc = "auth"]) /\ UNCHANGED faults
    /\ UNCHANGED <<confVars, authVars, ops, history>>

AuthReceive(i) ==
    LET r == g[i] IN
    /\ r.spc = "auth"
    /\ Continue(i, [r EXCEPT !.spc = "judged", !.skp = peers[r.m][r.n], !.sBlocked = r.n \in blocked[r.m]])
    /\ UNCHANGED <<confVars, authVars, ops, faults, history>>

(* The request is kept for the user, or accepted once it is answered.      *)
AuthAnswer(i) ==
    LET r == g[i]
        new == r.skp = Unknown /\ ~r.sBlocked
        s == [r EXCEPT !.spc = "none", !.skp = Unknown, !.sBlocked = FALSE,
                       !.answer = Reply(r, CASE r.sBlocked -> "declined" [] new -> "pending"
                                             [] OTHER -> "known")]
    IN  /\ r.spc = "judged"
        /\ IF new /\ r.m \in AutoAccept
           THEN /\ \E j \in Goroutines :
                      /\ g[j].pc = "free"
                      /\ g' = [g EXCEPT ![i] = s, ![j] = [Run("add", r.m, r.n) EXCEPT !.confirmed = TRUE]]
                /\ UNCHANGED ingoing
           ELSE /\ Continue(i, s)
                /\ ingoing' = [ingoing EXCEPT ![r.m] = IF new THEN @ \cup {r.n} ELSE @]
        /\ UNCHANGED <<confVars, outgoing, ops, faults, history>>

AuthResponse(i) ==
    LET r == g[i]
        final == r.answer \in {"known", "declined"}
    IN  /\ r.pc = "authWait" /\ r.answer # "none" /\ r.spc = "none"
        /\ Continue(i, IF r.answer = "declined" THEN [r EXCEPT !.pc = "authGet"] ELSE AuthDone(r))
        /\ outgoing' = [outgoing EXCEPT ![r.n] = IF final THEN @ \ {r.m} ELSE @]
        /\ UNCHANGED <<confVars, ingoing, ops, faults, history>>

AuthDeclined(i) ==
    LET r == g[i] IN
    /\ r.pc = "authGet"
    /\ Continue(i, IF peers[r.n][r.m] = Unknown THEN AuthDone(r)
                   ELSE [r EXCEPT !.pc = "authPut", !.kp = [peers[r.n][r.m] EXCEPT !.declined = TRUE]])
    /\ UNCHANGED <<confVars, authVars, ops, faults, history>>

AuthUpsert(i) ==
    LET r == g[i] IN
    /\ r.pc = "authPut" /\ UpsertPeer(r.n, r.m, r.kp) /\ Continue(i, AuthDone(r))
    /\ UNCHANGED <<authVars, ops, faults, history>>

-----------------------------------------------------------------------------
(* ExchangeNewStatusInfo at n, StatusStreamHandler at m.                   *)

createPeerInfo(kp, declined) ==
    CASE declined -> "declined" [] ~declined /\ kp # Unknown /\ kp.we -> "allow" [] OTHER -> "deny"

(* processPeerStatusInfo, what it makes of the copy ...                    *)
Processed_Sticky(kp, info) ==  \* faulty variant
    CASE kp = Unknown -> Unknown
      [] kp # Unknown /\ info = "declined" -> [kp EXCEPT !.declined = TRUE]
      [] OTHER -> [kp EXCEPT !.confirmed = TRUE, !.declined = FALSE, !.allowed = @ \/ info = "allow"]
Processed(kp, info) ==
    CASE kp = Unknown -> Unknown
      [] kp # Unknown /\ info = "declined" -> [kp EXCEPT !.declined = TRUE]
      [] OTHER -> [kp EXCEPT !.confirmed = TRUE, !.declined = FALSE, !.allowed = (info = "allow")]

(* ... and what it makes of SOCKS5.UsingPeerID afterwards.                 *)
Chosen(n, m, kp, info) ==
    CASE kp # Unknown /\ info = "allow" /\ using[n] = Nobody -> m
      [] kp # Unknown /\ info # "allow" /\ using[n] = m -> Nobody
      [] OTHER -> using[n]

StatusStart(i) ==
    LET r == g[i] IN
    /\ r.pc = "dial" /\ Continue(i, [r EXCEPT !.pc = "open"])
    /\ ingoing' = [ingoing EXCEPT ![r.n] = @ \ {r.m}]
    /\ UNCHANGED <<confVars, outgoing, ops, faults, history>>

StatusOpen(i) ==
    LET r == g[i]
        isBlocked == r.m \in blocked[r.n]
    IN  /\ r.pc = "open"
        /\ \/ Fault /\ Continue(i, [r EXCEPT !.pc = "end"])
           \/ /\ Continue(i, [r EXCEPT !.pc = "wait", !.spc = "status", !.isBlocked = isBlocked,
                                        !.copy = Unknown, !.info = createPeerInfo(r.copy, isBlocked)])
              /\ UNCHANGED faults
        /\ UNCHANGED <<confVars, authVars, ops, history>>

(* Whom StatusStreamHandler turns away: the strangers.                     *)
TurnedAway_Nobody(skp, sBlocked)  == FALSE          \* faulty variant
TurnedAway_Blocked(skp, sBlocked) == skp = Unknown  \* faulty variant
TurnedAway(skp, sBlocked) == skp = Unknown /\ ~sBlocked

StatusAccept(i) ==
    LET r == g[i]
        skp == peers[r.m][r.n]
        sBlocked == r.n \in blocked[r.m]
    IN  /\ r.spc = "status"
        /\ Continue(i, IF TurnedAway(skp, sBlocked)
                       THEN [r EXCEPT !.spc = "none", !.answer = "broken"]
                       ELSE [r EXCEPT !.spc = "known", !.skp = skp, !.sBlocked = sBlocked])
        /\ UNCHANGED <<confVars, authVars, ops, faults, history>>

StatusAnswer(i) ==
    LET r == g[i] IN
    /\ r.spc = "known"
    /\ Continue(i, [r EXCEPT !.spc = IF r.sBlocked THEN "none" ELSE "get", !.skp = Unknown,
                             !.sBlocked = FALSE, !.answer = Reply(r, createPeerInfo(r.skp, r.sBlocked))])
    /\ outgoing' = [outgoing EXCEPT ![r.m] = @ \ {r.n}]
    /\ UNCHANGED <<confVars, ingoing, ops, faults, history>>

StatusGet(i) ==
    LET r == g[i] IN
    /\ r.spc = "get" /\ Continue(i, [r EXCEPT !.spc = "put", !.skp = peers[r.m][r.n]])
    /\ UNCHANGED <<confVars, authVars, ops, faults, history>>

StatusUpsert(i) ==
    LET r == g[i] IN
    /\ r.spc = "put" /\ UpsertPeer(r.m, r.n, Processed(r.skp, r.info))
    /\ Continue(i, [r EXCEPT !.spc = "use"])
    /\ UNCHANGED <<authVars, ops, faults, history>>

StatusUse(i) ==
    LET r == g[i] IN
    /\ r.spc = "use" /\ Continue(i, [r EXCEPT !.spc = "none", !.skp = Unknown])
    /\ using' = [using EXCEPT ![r.m] = Chosen(r.m, r.n, r.skp, r.info)]
    /\ UNCHANGED <<peers, ghost, blocked, saved, authVars, ops, faults, history>>

ExchangeAnswered(i) ==
    LET r == g[i] IN
    /\ r.pc = "wait" /\ r.answer # "none"
    /\ Continue(i, [r EXCEPT !.pc = IF r.answer = "broken" \/ r.isBlocked THEN "end" ELSE "get"])
    /\ UNCHANGED <<confVars, authVars, ops, faults, history>>

ExchangeGet(i) ==
    LET r == g[i] IN
    /\ r.pc = "get" /\ Continue(i, [r EXCEPT !.pc = "put", !.kp = peers[r.n][r.m]])
    /\ UNCHANGED <<confVars, authVars, ops, faults, history>>

ExchangeUpsert(i) ==
    LET r == g[i] IN
    /\ r.pc = "put" /\ UpsertPeer(r.n, r.m, Processed(r.kp, r.answer))
    /\ Continue(i, [r EXCEPT !.pc = "use"])
    /\ UNCHANGED <<authVars, ops, faults, history>>

ExchangeUse(i) ==
    LET r == g[i] IN
    /\ r.pc = "use" /\ Continue(i, [r EXCEPT !.pc = "end"])
    /\ using' = [using EXCEPT ![r.n] = Chosen(r.n, r.m, r.kp, r.answer)]
    /\ UNCHANGED <<peers, ghost, blocked, saved, authVars, ops, faults, history>>

-----------------------------------------------------------------------------
Api ==
    \E n, m \in Nodes :
        \/ SendFriendRequest(n, m) \/ AcceptFriend(n, m) \/ RemovePeer(n, m)
        \/ \E allow \in BOOLEAN : UpdatePeerSettings(n, m, allow)
        \/ UpdateProxySettings(n, m) \/ ClearProxySettings(n) \/ Restart(n)

(* The goroutine of slot i, and the handler of its stream.                 *)
AddPeer(i) == AddCheck(i) \/ AddUnblock(i) \/ AddUpsert(i) \/ AddFresh(i)
SendAuthRequest(i) ==
    AuthStart(i) \/ AuthOpen(i) \/ AuthResponse(i) \/ AuthDeclined(i) \/ AuthUpsert(i)
AuthStreamHandler(i) == AuthReceive(i) \/ AuthAnswer(i)
ExchangeNewStatusInfo(i) ==
    StatusStart(i) \/ StatusOpen(i) \/ ExchangeAnswered(i) \/ ExchangeGet(i) \/ ExchangeUpsert(i)
    \/ ExchangeUse(i)
StatusStreamHandler(i) ==
    StatusAccept(i) \/ StatusAnswer(i) \/ StatusGet(i) \/ StatusUpsert(i) \/ StatusUse(i)

Client(i) ==
    AddPeer(i) \/ BlockPeer(i) \/ SettingsWrite(i) \/ SetProxyPeerID(i) \/ ProxySave(i)
    \/ SendAuthRequest(i)
    \/ ExchangeNewStatusInfo(i)
Server(i) == AuthStreamHandler(i) \/ StatusStreamHandler(i)

Next ==
    \/ Api
    \/ \E n, m \in Nodes : \/ BackgroundRetryAuthRequests(n, m) \/ onPeerConnected(n, m)
                           \/ BackgroundExchangeStatusInfo(n, m)
    \/ \E i \in Slots : Client(i) \/ Server(i) \/ StreamBreaks(i)

Spec == Init /\ [][Next]_vars

(* Goroutines that can run do run, and the two tickers come round again    *)
(* and again.                                                              *)
Fairness ==
    /\ \A i \in Slots : WF_vars(Client(i)) /\ WF_vars(Server(i))
    /\ \A t \in Tickers : \A m \in Nodes \ {t[1]} :
            WF_vars(IF t[2] = "retry" THEN BackgroundRetryAuthRequests(t[1], m)
                    ELSE BackgroundExchangeStatusInfo(t[1], m))

FairSpec == Spec /\ Fairness

-----------------------------------------------------------------------------
(* Nobody is shown as confirmed who has not, at some time, added this node *)
(* as a peer: neither a lost or late answer, nor a stale write-back, nor a *)
(* restart makes processPeerStatusInfo or AddPeer record a consent that    *)
(* was never given.                                                        *)
ConfirmedConsented ==
    \A n, m \in Nodes : peers[n][m] # Unknown /\ peers[n][m].confirmed => <<m, n>> \in added

(* The SOCKS5 proxy only ever points to a peer that has, at some time,     *)
(* allowed this node to use it as an exit node.                            *)
ExitConsented == \A n \in Nodes : using[n] # Nobody => <<using[n], n>> \in allowedOnce

(* Two nodes that keep each other as peers.                                *)
Friends(n, m) ==
    /\ peers[n][m] # Unknown /\ peers[m][n] # Unknown
    /\ n \notin blocked[m] /\ m \notin blocked[n]

(* A peer that has blocked us is in the end shown, for good, as having     *)
(* declined: BlockPeer's message may be lost, older answers may still be   *)
(* written back, but the next exchange of the ticker puts it right.        *)
DeclineArrives ==
    \A n \in Nodes : \A m \in Nodes \ {n} :
        <>[](n \in blocked[m] /\ peers[m][n] = Unknown /\ peers[n][m] # Unknown)
            => <>[](peers[n][m] # Unknown /\ peers[n][m].declined)

(* Whether a friend lets us use it as exit node is in the end, for good,   *)
(* what the friend has set last, whatever copies were in flight.           *)
AllowanceConverges ==
    \A n \in Nodes : \A m \in Nodes \ {n}, b \in BOOLEAN :
        <>[](Friends(n, m) /\ peers[m][n].we = b)
            => <>[](peers[n][m] # Unknown /\ peers[n][m].allowed = b)

(* An invitation that nobody has answered reaches the other side, however  *)
(* often streams break or either side restarts: the remote user can accept *)
(* it, or the remote node has already decided.                             *)
InvitationArrives ==
    \A n \in Nodes : \A m \in Nodes \ {n} :
        LET pending == peers[n][m] # Unknown /\ ~peers[n][m].confirmed /\ ~peers[n][m].declined
        IN  pending ~> ~pending \/ n \in ingoing[m] \/ n \in blocked[m] \/ peers[m][n] # Unknown

=============================================================================
