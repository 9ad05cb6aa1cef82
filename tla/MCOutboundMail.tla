---------------------------- MODULE MCOutboundMail ----------------------------
(* The instance of OutboundMail that TLC checks. *)
EXTENDS OutboundMail, TLC

\* The requests and the bodies are interchangeable: no definition tells one
\* from another.
Interchangeable == Permutations(Requests) \union Permutations(Bodies)
===============================================================================
