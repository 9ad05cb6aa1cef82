----------------------------- MODULE MCDeviceJobs -----------------------------
(* Symmetry for the run of DeviceJobs: requests are not told apart.          *)
EXTENDS DeviceJobs, TLC

Symmetry == Permutations(Requests)
=============================================================================
