---------------------------- MODULE MCAuthStatus ----------------------------
(* Instances of AuthStatus for TLC: a invites b, b decides.                *)
EXTENDS AuthStatus, TLC

CONSTANTS a, b

NoTickers == {}
StatusOfA == {<<a, "status">>}
RetryOfA  == {<<a, "retry">>}

\* a invites and uses b as its exit node; b decides, and may invite as well.
EveryOp    == ({a} \X {"invite", "remove", "proxy", "connect", "restart"})
         \cup ({b} \X {"invite", "accept", "decline", "remove", "settings", "restart"})
DecideOps  == {<<a, "invite">>, <<b, "accept">>, <<b, "decline">>, <<b, "remove">>, <<b, "settings">>}
InviteOps  == {<<a, "invite">>, <<a, "restart">>, <<b, "restart">>}

Symmetry == Permutations(Goroutines)
=============================================================================
