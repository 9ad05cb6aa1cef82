---------------------------- MODULE MCDevicePairing ----------------------------
(* The instances of DevicePairing that TLC checks. *)
EXTENDS DevicePairing, TLC

CONSTANT m1

\* One computer whose page is loaded more than once.
OneComputer == [d \in Devices |-> m1]

\* Members, tokens, processes and the device ids of one computer are
\* interchangeable.
Interchangeable ==
    Permutations(Actors) \union Permutations(Slots) \union Permutations(Procs)
        \union Permutations(Devices)
================================================================================
