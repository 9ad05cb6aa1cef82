---------------------------- MODULE MCBridgeSession ----------------------------
(* The devices are not told apart by the properties of BridgeSession.          *)
EXTENDS BridgeSession, TLC

Symmetry == Permutations(Bridges)
=============================================================================
