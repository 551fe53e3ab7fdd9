------------------------------ MODULE RemotesMC ------------------------------
(* Constants of the runs of Remotes *)
EXTENDS Remotes, TLC

CONSTANTS a, b, c

TwoPeers == {a, b}
ThreePeers == {a, b, c}
==============================================================================
