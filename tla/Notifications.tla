---------------------------- MODULE Notifications ----------------------------
(* The notifications of the client (src/lib/notifications.dart): a timer     *)
(* starts _checkForNotifications every few seconds and does not wait for it, *)
(* so polls overlap, and they share _lastRequests. External: the server's    *)
(* list of requests and the plugin that shows a notification, which may fail.*)
CONSTANTS
  Request,  \* the peers that may ask
  Poll      \* bound: polls under way at the same time

VARIABLES
  requests,      \* the requests the server holds
  timer,         \* the timer runs
  _lastRequests,
  pollPc,        \* of each poll: "none", "asked", "answered" or "show"
  newRequests,   \* of each poll: the list it got
  toCheck,       \* of each poll: the requests it did not come to yet
  req,           \* of each poll: the request it shows, if it shows one
  shown          \* history: the requests whose notification was shown

noticeVars == <<requests, timer, _lastRequests, pollPc, newRequests, toCheck, req, shown>>

noticeInit ==
  /\ requests = {} /\ timer = TRUE /\ _lastRequests = {} /\ shown = {}
  /\ pollPc = [p \in Poll |-> "none"]
  /\ newRequests = [p \in Poll |-> {}] /\ toCheck = [p \in Poll |-> {}]
  /\ req = [p \in Poll |-> {}]

Ends(p) ==
  /\ pollPc' = [pollPc EXCEPT ![p] = "none"]
  /\ newRequests' = [newRequests EXCEPT ![p] = {}]
  /\ toCheck' = [toCheck EXCEPT ![p] = {}]
  /\ req' = [req EXCEPT ![p] = {}]

-----------------------------------------------------------------------------
(* The server: a request arrives, or is answered or withdrawn.             *)
Arrives(r) ==
  /\ r \notin requests
  /\ requests' = requests \cup {r}
  /\ UNCHANGED <<timer, _lastRequests, pollPc, newRequests, toCheck, req, shown>>

Leaves(r) ==
  /\ r \in requests
  /\ requests' = requests \ {r}
  /\ UNCHANGED <<timer, _lastRequests, pollPc, newRequests, toCheck, req, shown>>

fetchAuthRequests(p) ==
  /\ pollPc[p] = "asked"
  /\ pollPc' = [pollPc EXCEPT ![p] = "answered"]
  /\ newRequests' = [newRequests EXCEPT ![p] = requests]
  /\ UNCHANGED <<requests, timer, _lastRequests, toCheck, req, shown>>

fetchFails(p) ==
  /\ pollPc[p] = "asked"
  /\ Ends(p)
  /\ UNCHANGED <<requests, timer, _lastRequests, shown>>

-----------------------------------------------------------------------------
(* The client.                                                             *)
Tick(p) ==
  /\ timer /\ pollPc[p] = "none"
  /\ pollPc' = [pollPc EXCEPT ![p] = "asked"]
  /\ UNCHANGED <<requests, timer, _lastRequests, newRequests, toCheck, req, shown>>

close ==
  /\ timer
  /\ timer' = FALSE
  /\ UNCHANGED <<requests, _lastRequests, pollPc, newRequests, toCheck, req, shown>>

\* The loop runs on without a pause until a request that is not one of the last
\* ones is to be shown, skipping some that are, or until its end.
Continue(p, rest) ==
  \/ \E r \in rest \ _lastRequests, skipped \in SUBSET (rest \cap _lastRequests) :
       /\ pollPc' = [pollPc EXCEPT ![p] = "show"]
       /\ toCheck' = [toCheck EXCEPT ![p] = rest \ (skipped \cup {r})]
       /\ req' = [req EXCEPT ![p] = {r}]
       /\ UNCHANGED <<newRequests, _lastRequests>>
  \/ /\ rest \subseteq _lastRequests
     /\ _lastRequests' = newRequests[p]
     /\ Ends(p)

_checkForNotifications(p) ==
  /\ pollPc[p] = "answered"
  /\ Continue(p, newRequests[p])
  /\ UNCHANGED <<requests, timer, shown>>

Shown(p) ==
  /\ pollPc[p] = "show"
  /\ shown' = shown \cup req[p]
  /\ Continue(p, toCheck[p])
  /\ UNCHANGED <<requests, timer>>

ShowFails_Continues(p) ==
  /\ pollPc[p] = "show"
  /\ Continue(p, toCheck[p])
  /\ UNCHANGED <<requests, timer, shown>>

\* The exception ends the poll and the list is not recorded.
ShowFails(p) ==
  /\ pollPc[p] = "show"
  /\ Ends(p)
  /\ UNCHANGED <<requests, timer, _lastRequests, shown>>

noticeNext ==
  \/ \E r \in Request : Arrives(r) \/ Leaves(r)
  \/ close
  \/ \E p \in Poll : \/ Tick(p) \/ fetchAuthRequests(p) \/ fetchFails(p)
                     \/ _checkForNotifications(p) \/ Shown(p) \/ ShowFails(p)

noticeSpec == noticeInit /\ [][noticeNext]_noticeVars

-----------------------------------------------------------------------------
(* Properties.                                                             *)

\* Only a request whose notification was shown is among the last requests, which
\* later polls pass over: however polls overlap, however late the answers come
\* and whichever notifications fail, none is recorded that the user never saw.
NoneMissed == _lastRequests \subseteq shown

\* What makes NoneMissed inductive: a poll has shown, or found among the last
\* ones, each request of its list that it has come past.
noticeInv ==
  /\ NoneMissed
  /\ pollPc \in [Poll -> {"none", "asked", "answered", "show"}]
  /\ newRequests \in [Poll -> SUBSET Request] /\ toCheck \in [Poll -> SUBSET Request]
  /\ req \in [Poll -> SUBSET Request] /\ requests \subseteq Request
  /\ \A p \in Poll : pollPc[p] = "show" => newRequests[p] \subseteq toCheck[p] \cup req[p] \cup shown
=============================================================================
