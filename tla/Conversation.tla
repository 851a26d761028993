---------------------------- MODULE Conversation ----------------------------
(* What a program that uses a SOCKS5 proxy without authentication is       *)
(* promised (RFC 1928, the protocol src/socks5/server.go cites): one       *)
(* answer to its greeting, one reply to its request, the bytes of the      *)
(* destination after a positive reply, and nothing else. The proxy may     *)
(* hang up at any time.                                                    *)
EXTENDS Naturals, Sequences

VARIABLES
  asked,    \* what the program has written
  got,      \* what the proxy has written back
  dialled,  \* whether the proxy has reached the destination
  hungUp    \* whether the proxy has closed its side

cvars == <<asked, got, dialled, hungUp>>

Methods == {"noauth", "noacceptable"}
Replies == {"ok", "failure", "denied", "unreachable"}

Init == asked = <<>> /\ got = <<>> /\ dialled = FALSE /\ hungUp = FALSE

\* The program greets, asks for a destination once it may, and then sends.
Ask(m) ==
  /\ m = CASE asked = <<>> -> "greeting"
           [] Len(asked) = 1 -> "request"
           [] OTHER -> "data"
  /\ m = "request" => got = <<"noauth">>
  /\ m = "data" => Len(got) >= 2 /\ got[2] = "ok"
  /\ asked' = Append(asked, m)
  /\ UNCHANGED <<got, dialled, hungUp>>

Dial ==
  /\ Len(asked) = 2 /\ dialled' = TRUE
  /\ UNCHANGED <<asked, got, hungUp>>

Answer(m) ==
  /\ ~hungUp
  /\ \/ got = <<>> /\ asked # <<>> /\ m \in Methods
     \/ got = <<"noauth">> /\ Len(asked) = 2 /\ m \in Replies /\ (m = "ok" => dialled)
     \/ Len(got) >= 2 /\ got[2] = "ok" /\ m = "answer"
  /\ got' = Append(got, m)
  /\ UNCHANGED <<asked, dialled, hungUp>>

HangUp ==
  /\ hungUp' = TRUE
  /\ UNCHANGED <<asked, got, dialled>>

Next ==
  \/ \E m \in {"greeting", "request", "data"} : Ask(m)
  \/ \E m \in Methods \cup Replies \cup {"answer"} : Answer(m)
  \/ Dial \/ HangUp

Spec == Init /\ [][Next]_cvars
=============================================================================
