------------------------------ MODULE MCTunnel ------------------------------
(* Instances of Tunnel for TLC.  The identities are interchangeable.       *)
EXTENDS Tunnel, TLC

Symmetry ==
    Permutations(PeerID) \cup Permutations(IP) \cup Permutations(VpnPeers)
        \cup Permutations(Packets)
=============================================================================
