------------------------------- MODULE SendOnce -------------------------------
(***************************************************************************)
(* What a reader of one outbound mail command may rely on, whatever the    *)
(* requests, retries and failures behind it: the message goes out at most  *)
(* once, the verdict SENT is given only to a message that went out, the    *)
(* verdict REJECTED only to one that did not and never will, and a verdict *)
(* stands.                                                                 *)
(***************************************************************************)
EXTENDS Naturals

VARIABLES
    delivered,   \* copies of the message the provider has accepted
    verdict      \* what the command has been settled as

vars == <<delivered, verdict>>

Init ==
    /\ delivered = 0
    /\ verdict = "OPEN"

Deliver ==
    /\ verdict = "OPEN"
    /\ delivered = 0
    /\ delivered' = 1
    /\ UNCHANGED verdict

Settle ==
    /\ verdict = "OPEN"
    /\ verdict' = (IF delivered = 1 THEN "SENT" ELSE "REJECTED")
    /\ UNCHANGED delivered

Next == Deliver \/ Settle

Spec == Init /\ [][Next]_vars
===============================================================================
