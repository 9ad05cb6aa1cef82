--------------------------- MODULE MCMailboxJobs ---------------------------
(* Instances of MailboxJobs for TLC. *)
EXTENDS MailboxJobs, TLC

\* Nothing tells two workers, two jobs or two members apart.
Symmetry == Permutations(Workers) \cup Permutations(Actors)

=============================================================================
