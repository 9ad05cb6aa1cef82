----------------------------- MODULE OutboundMail -----------------------------
(***************************************************************************)
(* Sending a mail from a client's mailbox: the requests that carry one     *)
(* idempotency key of one actor, the intent row they share in D1, and the  *)
(* mail provider.                                                          *)
(*                                                                         *)
(* Every await of the handler is a step of its own, so the requests        *)
(* interleave between any two D1 calls and around the call to the          *)
(* provider.  A batch is one transaction with its triggers.  The claims,   *)
(* completions and marks are rows keyed by the attempt: the claims are     *)
(* counted by intent.attempts, the marks by the state.                     *)
(*                                                                         *)
(* Names that MailboxJobs has too carry "Mail" or "Send" here, so that     *)
(* MailboxProofs can extend both modules.                                  *)
(***************************************************************************)
EXTENDS Naturals

CONSTANTS
    Requests,      \* requests that may be in progress at the same time
    Bodies,        \* the message bodies (payload fingerprints) they carry
    NoBody,        \* no body: the row or the request is not there
    MaxDispatches    \* MAX_OUTBOUND_MAIL_DISPATCH_ATTEMPTS

ASSUME NoBodyAssumption == NoBody \notin Bodies
ASSUME MaxDispatchesAssumption == MaxDispatches \in Nat \ {0}

VARIABLES
    intent,      \* the row of outbound_mail_intents with this key
    completed,   \* attempts that have a row in outbound_mail_dispatch_completions
    expired,     \* the idempotency record of the key is past expires_at_ms
    access,      \* client, binding, association and grant admit the actor
    delivered,   \* copies of the message the provider has accepted
    call,        \* the requests in progress: where they are, and their locals
    told         \* the final states that some caller has been told

mailVars == <<intent, completed, expired, access, delivered, call, told>>

Open     == {"PENDING", "RETRYABLE"}
InFlight == {"DISPATCHING", "AMBIGUOUS"}
Final    == {"SENT", "REJECTED"}
SendOutcomes == {"SENT", "RETRYABLE", "REJECTED", "AMBIGUOUS"}

NoIntent == [state |-> "ABSENT", attempts |-> 0, body |-> NoBody]
NoCall   == [at |-> "idle", body |-> NoBody, late |-> FALSE,
             attempt |-> 0, out |-> "NONE"]

SendPlaces == {"idle", "access", "decide", "reserve", "existing", "claim_load",
               "claim", "exhaust", "reload", "send", "complete_load", "complete",
               "completed", "mark_load", "mark", "marked"}

Rows  == [state : {"ABSENT"} \union Open \union InFlight \union Final,
          attempts : 0 .. MaxDispatches,
          body : Bodies \union {NoBody}]
SendCalls == [at : SendPlaces, body : Bodies \union {NoBody}, late : BOOLEAN,
              attempt : 0 .. MaxDispatches, out : SendOutcomes \union {"NONE"}]

MailTypeOK ==
    /\ intent \in Rows
    /\ completed \subseteq 1 .. MaxDispatches
    /\ expired \in BOOLEAN
    /\ access \in BOOLEAN
    /\ delivered \in Nat
    /\ call \in [Requests -> SendCalls]
    /\ told \subseteq Final

MailInit ==
    /\ intent = NoIntent
    /\ completed = {}
    /\ expired = FALSE
    /\ access = TRUE
    /\ delivered = 0
    /\ call = [r \in Requests |-> NoCall]
    /\ told = {}

-------------------------------------------------------------------------------
(* How a handler goes on *)

GoTo(r, place) ==
    /\ call' = [call EXCEPT ![r].at = place]
    /\ UNCHANGED told

GoWithAttempt(r, place, n) ==
    /\ call' = [call EXCEPT ![r].at = place, ![r].attempt = n]
    /\ UNCHANGED told

\* A receipt is returned; its state is what the caller learns.
Report(r, state) ==
    /\ call' = [call EXCEPT ![r] = NoCall]
    /\ told' = told \union ({state} \intersect Final)

\* NotFound, Conflict or a dependency failure: no state is reported.
Refuse(r) ==
    /\ call' = [call EXCEPT ![r] = NoCall]
    /\ UNCHANGED told

\* A receipt that was found instead of claimed: an attempt that is in flight is
\* marked, everything else is reported as it is.
Replay(r) ==
    \/ intent.state = "DISPATCHING" /\ GoTo(r, "mark_load")
    \/ intent.state # "DISPATCHING" /\ Report(r, intent.state)

-------------------------------------------------------------------------------
(* Reserving the intent *)

Receive(r) ==
    /\ call[r].at = "idle"
    /\ \E b \in Bodies :
          call' = [call EXCEPT ![r] = [at |-> "access", body |-> b, late |-> expired,
                                       attempt |-> 0, out |-> "NONE"]]
    /\ UNCHANGED <<intent, completed, expired, access, delivered, told>>

CheckAccess(r) ==
    /\ call[r].at = "access"
    /\ \/ access /\ GoTo(r, "decide")
       \/ ~access /\ Refuse(r)
    /\ UNCHANGED <<intent, completed, expired, access, delivered>>

\* The record is in the same batch as the intent and is never deleted; once it
\* has expired, or when it was written for another body, the key conflicts.
Decide(r) ==
    /\ call[r].at = "decide"
    /\ \/ intent.state = "ABSENT" /\ GoTo(r, "reserve")
       \/ /\ intent.state # "ABSENT"
          /\ \/ /\ intent.body = call[r].body /\ ~call[r].late
                /\ GoTo(r, "existing")
             \/ /\ intent.body # call[r].body \/ call[r].late
                /\ Refuse(r)
    /\ UNCHANGED <<intent, completed, expired, access, delivered>>

\* The trigger on access comes before the UNIQUE constraint; a request that
\* loses the race asks the idempotency record again.
Reserve(r) ==
    /\ call[r].at = "reserve"
    /\ \/ /\ ~access
          /\ Refuse(r)
          /\ UNCHANGED intent
       \/ /\ access /\ intent.state # "ABSENT"
          /\ GoTo(r, "decide")
          /\ UNCHANGED intent
       \/ /\ access /\ intent.state = "ABSENT"
          /\ intent' = [state |-> "PENDING", attempts |-> 0, body |-> call[r].body]
          /\ GoTo(r, "claim_load")
    /\ UNCHANGED <<completed, expired, access, delivered>>

LoadExisting(r) ==
    /\ call[r].at = "existing"
    /\ \/ intent.state \in Open /\ GoTo(r, "claim_load")
       \/ intent.state \notin Open /\ Replay(r)
    /\ UNCHANGED <<intent, completed, expired, access, delivered>>

-------------------------------------------------------------------------------
(* Claiming an attempt *)

LoadClaim(r) ==
    /\ call[r].at = "claim_load"
    /\ \/ intent.state \notin Open /\ Replay(r)
       \/ /\ intent.state \in Open
          /\ intent.attempts >= MaxDispatches
          /\ GoTo(r, "exhaust")
       \/ /\ intent.state \in Open
          /\ intent.attempts < MaxDispatches
          /\ GoWithAttempt(r, "claim", intent.attempts + 1)
    /\ UNCHANGED <<intent, completed, expired, access, delivered>>

RejectExhausted(r) ==
    /\ call[r].at = "exhaust"
    /\ intent' = IF intent.state \in Open
                 THEN [intent EXCEPT !.state = "REJECTED"] ELSE intent
    /\ GoTo(r, "reload")
    /\ UNCHANGED <<completed, expired, access, delivered>>

ClaimAccepted(n) == intent.state \in Open /\ intent.attempts + 1 = n

Claim(r) ==
    /\ call[r].at = "claim"
    /\ \/ /\ ~ClaimAccepted(call[r].attempt)
          /\ GoTo(r, "reload")
          /\ UNCHANGED intent
       \/ /\ ClaimAccepted(call[r].attempt) /\ ~access
          /\ Refuse(r)
          /\ UNCHANGED intent
       \/ /\ ClaimAccepted(call[r].attempt) /\ access
          /\ intent' = [intent EXCEPT !.state = "DISPATCHING",
                                      !.attempts = call[r].attempt]
          /\ GoTo(r, "send")
    /\ UNCHANGED <<completed, expired, access, delivered>>

Reload(r) ==
    /\ call[r].at = "reload"
    /\ Replay(r)
    /\ UNCHANGED <<intent, completed, expired, access, delivered>>

-------------------------------------------------------------------------------
(* The provider, and the completion of the attempt *)

\* Mutant: a reply that leaves the outcome open is taken for a refusal.
ClassifySendOptimistic(copies) ==
    IF copies = 1 THEN {"SENT", "RETRYABLE"} ELSE {"RETRYABLE", "REJECTED"}

\* The outcomes the adapter can report when the provider accepted that many
\* copies: 200 with a readable reply is SENT; a lost or unreadable reply, 408,
\* 425 and 5xx are AMBIGUOUS either way; 429 and failures before the call are
\* RETRYABLE, other refusals REJECTED.
ClassifySend(copies) ==
    IF copies = 1 THEN {"SENT", "AMBIGUOUS"}
                  ELSE {"RETRYABLE", "REJECTED", "AMBIGUOUS"}

Send(r) ==
    /\ call[r].at = "send"
    /\ \E copies \in {0, 1} :
          /\ delivered' = delivered + copies
          /\ \E out \in ClassifySend(copies) :
                call' = [call EXCEPT ![r].at = "complete_load", ![r].out = out]
    /\ UNCHANGED <<intent, completed, expired, access, told>>

\* The attempt is the one the row has now, not the one that was claimed.
LoadComplete(r) ==
    /\ call[r].at = "complete_load"
    /\ \/ intent.state \notin InFlight /\ Report(r, intent.state)
       \/ /\ intent.state \in InFlight
          /\ GoWithAttempt(r, "complete", intent.attempts)
    /\ UNCHANGED <<intent, completed, expired, access, delivered>>

CompletionAccepted(n) ==
    /\ intent.state \in InFlight
    /\ intent.attempts = n
    /\ n \notin completed

Complete(r) ==
    /\ call[r].at = "complete"
    /\ \/ /\ CompletionAccepted(call[r].attempt)
          /\ intent' = [intent EXCEPT !.state = call[r].out]
          /\ completed' = completed \union {call[r].attempt}
       \/ /\ ~CompletionAccepted(call[r].attempt)
          /\ UNCHANGED <<intent, completed>>
    /\ GoTo(r, "completed")
    /\ UNCHANGED <<expired, access, delivered>>

\* The last load of a completion or of a mark.
LoadReceipt(r) ==
    /\ call[r].at \in {"completed", "marked"}
    /\ Report(r, intent.state)
    /\ UNCHANGED <<intent, completed, expired, access, delivered>>

-------------------------------------------------------------------------------
(* Marking an attempt whose outcome nobody knows *)

LoadMark(r) ==
    /\ call[r].at = "mark_load"
    /\ \/ intent.state # "DISPATCHING" /\ Report(r, intent.state)
       \/ /\ intent.state = "DISPATCHING"
          /\ GoWithAttempt(r, "mark", intent.attempts)
    /\ UNCHANGED <<intent, completed, expired, access, delivered>>

Mark(r) ==
    /\ call[r].at = "mark"
    /\ intent' = IF intent.state = "DISPATCHING" /\ intent.attempts = call[r].attempt
                 THEN [intent EXCEPT !.state = "AMBIGUOUS"] ELSE intent
    /\ GoTo(r, "marked")
    /\ UNCHANGED <<completed, expired, access, delivered>>

-------------------------------------------------------------------------------
(* Failures and the surroundings *)

\* A D1 call fails, or its reply is lost after it was applied (the failure then
\* strikes at the place behind the write: at "send" it is the claim's reply).
\* A failure while completing falls back to the mark; any other ends the request.
StoreFails(r) ==
    /\ call[r].at # "idle"
    /\ \/ /\ call[r].at \in {"complete_load", "complete", "completed"}
          /\ GoTo(r, "mark_load")
       \/ /\ call[r].at \notin {"complete_load", "complete", "completed"}
          /\ Refuse(r)
    /\ UNCHANGED <<intent, completed, expired, access, delivered>>

\* The isolate is evicted; the caller hears nothing and may send again.
Crash(r) ==
    /\ call[r].at # "idle"
    /\ Refuse(r)
    /\ UNCHANGED <<intent, completed, expired, access, delivered>>

\* Grants, bindings and clients change at any time.
AccessChanges ==
    /\ access' = ~access
    /\ UNCHANGED <<intent, completed, expired, delivered, call, told>>

RecordExpires ==
    /\ intent.state # "ABSENT" /\ ~expired
    /\ expired' = TRUE
    /\ UNCHANGED <<intent, completed, access, delivered, call, told>>

Step(r) ==
    \/ Receive(r) \/ CheckAccess(r) \/ Decide(r) \/ Reserve(r) \/ LoadExisting(r)
    \/ LoadClaim(r) \/ RejectExhausted(r) \/ Claim(r) \/ Reload(r)
    \/ Send(r) \/ LoadComplete(r) \/ Complete(r) \/ LoadReceipt(r)
    \/ LoadMark(r) \/ Mark(r)
    \/ StoreFails(r) \/ Crash(r)

MailNext ==
    \/ \E r \in Requests : Step(r)
    \/ AccessChanges
    \/ RecordExpires

MailSpec == MailInit /\ [][MailNext]_mailVars

-------------------------------------------------------------------------------
(* Properties *)

\* However the requests interleave and wherever they fail, the intent behaves as
\* one send at most, and its states SENT and REJECTED are true and final: a
\* repeated request never sends what an earlier one may have sent.
verdict == IF intent.state \in Final THEN intent.state ELSE "OPEN"
Promise == INSTANCE SendOnce
SendsOnce == Promise!Spec

\* What any caller was ever told to be final is still true: a mail reported SENT
\* went out, one reported REJECTED did not, and no two callers disagree.
AnswersStand ==
    /\ "SENT" \in told => delivered = 1
    /\ "REJECTED" \in told => delivered = 0
    /\ \A s \in told : intent.state = s

-------------------------------------------------------------------------------
(* The inductive invariant behind them *)

\* The requests that have claimed an attempt and not yet completed it.
Holders == {r \in Requests :
               call[r].at \in {"send", "complete_load", "complete"}}

\* Nothing is claimed, or tried, while the row says so.
QuietRow ==
    /\ intent.state \notin InFlight => Holders = {}
    /\ intent.state \in {"ABSENT", "REJECTED"} \union Open => delivered = 0
    /\ intent.state = "SENT" => delivered = 1

\* One request at a time works on the attempt that the row counts.
OneHolder ==
    /\ \A r, s \in Holders : r = s
    /\ \A r \in Holders : intent.attempts \notin completed

\* What the holder knows of the provider.
HolderKnows ==
    \A r \in Holders :
        /\ call[r].at = "send" => delivered = 0
        /\ call[r].at # "send" => delivered \in {0, 1}
                               /\ call[r].out \in ClassifySend(delivered)

\* A claim row exists for every completed attempt.
CompletedWereClaimed ==
    /\ \A n \in completed : n <= intent.attempts
    /\ intent.state = "ABSENT" => intent.attempts = 0
    /\ intent.state \in InFlight => intent.attempts > 0

Inv ==
    /\ MailTypeOK
    /\ QuietRow
    /\ OneHolder
    /\ HolderKnows
    /\ CompletedWereClaimed
    /\ delivered \in {0, 1}
    /\ AnswersStand
===============================================================================
