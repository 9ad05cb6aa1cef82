---------------------------- MODULE BridgeSession ----------------------------
(***************************************************************************)
(* A Profile Bridge holding a lease over an unreliable network.            *)
(*                                                                         *)
(* The Bridge (apps/profile-bridge/src/shipping_control_plane.rs, with the *)
(* browser loop of shipping_composition.rs) keeps a cursor: the lease it   *)
(* claimed, the version and sequence of the last reply it accepted, the    *)
(* deadlines of that reply and, after a lost reply, the heartbeat that may *)
(* or may not have been applied.  Requests go through the ingress          *)
(* (crates/use-cases/src/coordinator_ingress.rs), which stamps each with   *)
(* the time and a claim with a fencing token, to the coordinator object.   *)
(* They can be delayed past the moment the Bridge gives up on them, or be  *)
(* lost; so can the replies.  The Bridge process can die at any time.      *)
(*                                                                         *)
(* One profile.  Calls of one Bridge are serial: the browser loop and the  *)
(* keepalive thread share the cursor under a mutex.                        *)
(***************************************************************************)
EXTENDS CoordinatorDomain, FiniteSets

CONSTANTS
    Bridges,          \* devices that run a Bridge
    IntentTtl,        \* lifetime of a launch intent
    RetryMs,          \* HEARTBEAT_TRANSPORT_RETRY_MS
    ReserveMs,        \* SAVE_RECONNECT_AUTHORITY_RESERVE_MS
    MaxHumanVersion,  \* people issue commands up to this version (a bound)
    MaxInFlight,      \* requests on the network at once (a bound)
    MaxClock          \* the clock stops here (a bound)

ASSUME SessionAssumption ==
    /\ Bridges \subseteq Devices
    /\ IntentTtl \in Nat \ {0}
    /\ RetryMs \in Nat \ {0}
    /\ ReserveMs \in Nat
    /\ MaxHumanVersion \in 1 .. MaxVersion
    /\ MaxInFlight \in Nat \ {0}
    /\ MaxClock \in Time
    /\ MaxClock + IntentTtl <= MaxMillis

\* Sessions are numbered as they are minted, and a token is minted for each.
ASSUME MintAssumption ==
    /\ IsFiniteSet(Sessions)
    /\ Sessions = 1 .. Cardinality(Sessions)
    /\ Sessions \subseteq Fences

\* The object's constants: a drain outlasts the window of any heartbeat before it.
ASSUME DrainAssumption == IdleTimeoutMs <= DrainTimeoutMs

VARIABLES
    state,     \* ProfileCoordinatorState
    gate,      \* a generation commit is reserved in the object
    stray,     \* a gate retry alarm is still set after its gate
    bridge,    \* per device: the Bridge process
    network,   \* requests on their way
    clock,     \* the time
    minted,    \* how many sessions have been minted
    used,      \* history: sessions whose browser ran
    committed, \* history: sessions whose save the server committed
    excused    \* history: sessions a person has declared recovered

history == <<used, committed, excused>>
sessionVars == <<state, gate, stray, bridge, network, clock, minted, used,
                 committed, excused>>

-----------------------------------------------------------------------------
(* The Bridge's data.                                                      *)

\* CoordinatorCommandRequestDto: a command before the ingress stamps it.
Body ==
    [type : {"Claim"}, launch_intent_id : Intents, actor_id : Actors,
     device_id : Bridges, session_id : Sessions]
    \cup [type : {"RenewLease"}, session_id : Sessions, epoch : 1 .. MaxVersion,
          fencing_token : Fences]
    \cup [type : {"Release"}, session_id : Sessions, epoch : 1 .. MaxVersion,
          fencing_token : Fences, disposition : {"Clean", "Uncertain"}]

Request ==
    [sequence : 1 .. MaxVersion, expected_version : 1 .. MaxVersion, body : Body]

\* next_idempotency_key.  No two requests that a Bridge mints agree in session,
\* command and sequence, so these stand for the key.
KeyOf(r) == <<r.body.type, r.body.session_id, r.sequence>>

\* CoordinatorCursor.
Cursor ==
    [session_id : Sessions, epoch : 1 .. MaxVersion, fencing_token : Fences,
     version : 1 .. MaxVersion, sequence : 1 .. MaxVersion,
     idle : Time, hard : Time, pending : SUBSET Request]

Deadline(k) == Least(k.idle, k.hard)

\* A request on the network: the delivery tells a retry from its original.
Message == [from : Bridges, request : Request, delivery : {1, 2}]

\* The process.  `healthy` is the flag of the keepalive thread, `retried` is
\* heartbeat_retry_used, `next` is next_heartbeat_deadline and, while a heartbeat
\* is out, the time it was sent.
Stage == {"closed", "claiming", "opening", "running", "saving", "failed",
          "releasing"}

Closed ==
    [stage |-> "closed", browser |-> FALSE, healthy |-> TRUE, cursor |-> {},
     call |-> {}, reply |-> {}, retried |-> FALSE, next |-> 0]

\* Every definitive refusal; a reply that leaves the effect open is a lost one.
Refused == [ok |-> FALSE]

Cur(d) == CHOOSE k \in bridge[d].cursor : TRUE

-----------------------------------------------------------------------------
(* The ingress and the object.                                             *)

\* build_envelope: the time, and the fencing token of a claim, are new in every
\* delivery.  A claim is sent once, so one token per session is enough.
Stamp(r) ==
    LET b == r.body
    IN  CASE b.type = "Claim" ->
               [type |-> "Claim", launch_intent_id |-> b.launch_intent_id,
                actor_id |-> b.actor_id, device_id |-> b.device_id,
                session_id |-> b.session_id, fencing_token |-> b.session_id,
                now |-> clock]
          [] b.type = "RenewLease" ->
               [type |-> "RenewLease", session_id |-> b.session_id,
                epoch |-> b.epoch, fencing_token |-> b.fencing_token,
                now |-> clock]
          [] b.type = "Release" ->
               [type |-> "Release", session_id |-> b.session_id,
                epoch |-> b.epoch, fencing_token |-> b.fencing_token,
                disposition |-> b.disposition, now |-> clock]

EnvelopeOf(r) ==
    [idempotency_key |-> KeyOf(r), sequence |-> r.sequence,
     expected_version |-> r.expected_version, command |-> Stamp(r)]

\* The receipt that answers an exact duplicate.
ExactReceipt(s, e) ==
    {s.receipts[i] : i \in {j \in DOMAIN s.receipts :
        /\ s.receipts[j].idempotency_key = e.idempotency_key
        /\ s.receipts[j].sequence = e.sequence
        /\ s.receipts[j].command = e.command}}

\* CoordinatorObjectResponse: the decision of the command, fresh or remembered,
\* beside the projection of the state there is now.
ResponseOf(decision, replayed, now_state) ==
    [ok |-> TRUE, outcome |-> decision.outcome, sequence |-> decision.sequence,
     version |-> decision.sequence + 1, replayed |-> replayed,
     status |-> now_state.status, at |-> now_state.version,
     lease |-> now_state.active_lease]

\* bridge_command_policy: only the device of the active lease renews or releases.
PolicyAllows(d, r) ==
    r.body.type = "Claim" \/ \E l \in state.active_lease : l.device_id = d

Answer(d, r) ==
    LET e == EnvelopeOf(r)
    IN  IF gate \/ ~PolicyAllows(d, r) THEN Refused
        ELSE IF NewlyAccepted(state, e)
             THEN ResponseOf(ReceiptOf(state, e), FALSE, Accept(state, e))
        ELSE IF ExactReceipt(state, e) # {}
             THEN ResponseOf(CHOOSE x \in ExactReceipt(state, e) : TRUE, TRUE,
                             state)
        ELSE Refused

\* The request reaches the object.  The reply goes to the Bridge if it still
\* waits for this delivery, and is lost otherwise.
Deliver(m) ==
    /\ m \in network
    /\ network' = network \ {m}
    /\ state' = IF gate \/ ~PolicyAllows(m.from, m.request) THEN state
                ELSE Apply(state, EnvelopeOf(m.request))
    /\ bridge' =
         IF bridge[m.from].call = {m}
         THEN [bridge EXCEPT ![m.from].reply = {Answer(m.from, m.request)}]
         ELSE bridge
    /\ UNCHANGED <<gate, stray, clock, minted, history>>

\* A request is lost; the Bridge that waits for it gives up first.
DropRequest(m) ==
    /\ m \in network
    /\ bridge[m.from].call # {m}
    /\ network' = network \ {m}
    /\ UNCHANGED <<state, gate, stray, bridge, clock, minted, history>>

\* alarm(): a Tick when a deadline of the coordinator is due, and one more when
\* the retry alarm of a commit gate fires after its gate is gone.
AlarmDue ==
    \/ IntentExpired(state, clock)
    \/ TimeoutDue(state, clock)
    \/ stray

Alarm ==
    /\ ~gate
    /\ AlarmDue
    /\ LET e == NextEnvelope(state, <<"alarm", state.last_sequence + 1>>,
                             [type |-> "Tick", now |-> clock])
       IN  NewlyAccepted(state, e) /\ state' = Accept(state, e)
    /\ stray' = FALSE
    /\ UNCHANGED <<gate, bridge, network, clock, minted, history>>

\* A command of a person through the same ingress.  A recovery goes to the device
\* that claimed last (UncertainReservedForClaimant in CoordinatorDocument.tla).
Human(c) ==
    /\ ~gate
    /\ state.version < MaxHumanVersion
    /\ LET e == NextEnvelope(state, <<"human", state.version>>, c)
       IN  NewlyAccepted(state, e) /\ state' = Accept(state, e)
    /\ UNCHANGED <<gate, stray, bridge, network, clock, minted, used, committed>>

LaunchFor(type, d) ==
    \E i \in Intents, a \in Actors :
        Human([type |-> type, launch_intent_id |-> i, actor_id |-> a,
               device_id |-> d, now |-> clock, expires_at |-> clock + IntentTtl])

IssueIntent(d) == LaunchFor("IssueLaunchIntent", d) /\ UNCHANGED excused

RecoverAndIssue(d) ==
    LaunchFor("RecoverAndIssueLaunchIntent", d) /\ excused' = excused \cup 1 .. minted

HumanDrain ==
    Human([type |-> "BeginDrain", now |-> clock]) /\ UNCHANGED excused

HumanRecovers ==
    /\ Human([type |-> "MarkRecovered", now |-> clock])
    /\ excused' = excused \cup 1 .. minted

-----------------------------------------------------------------------------
(* The Bridge: sending.                                                    *)

\* A call blocks the Bridge.
Send(d, b, r, delivery) ==
    LET m == [from |-> d, request |-> r, delivery |-> delivery]
    IN  /\ b.call = {}
        /\ Cardinality(network) < MaxInFlight
        /\ m \notin network
        /\ network' = network \cup {m}
        /\ bridge' = [bridge EXCEPT ![d] = [b EXCEPT !.call = {m}, !.reply = {}]]

\* claim_launch_intent: no lease is held, a snapshot shows an idle coordinator,
\* and the claim is sent under the snapshot's version and a new session.
SendClaim(d) ==
    /\ bridge[d].stage = "closed"
    /\ bridge[d].cursor = {}
    /\ minted < Cardinality(Sessions)
    /\ state.status = "Idle"
    /\ state.active_lease = {}
    /\ state.version < MaxVersion
    /\ \E i \in state.pending_intent :
          /\ i.device_id = d
          /\ Send(d, [bridge[d] EXCEPT !.stage = "claiming"],
                  [sequence |-> state.last_sequence + 1,
                   expected_version |-> state.version,
                   body |-> [type |-> "Claim", actor_id |-> i.actor_id,
                             launch_intent_id |-> i.launch_intent_id,
                             device_id |-> d, session_id |-> minted + 1]], 1)
    /\ minted' = minted + 1
    /\ UNCHANGED <<state, gate, stray, clock, history>>

\* safe_reconnect_writer_window.
SafeWindow(k) == clock + ReserveMs < Deadline(k)

NewHeartbeat(k) ==
    [sequence |-> k.sequence + 1, expected_version |-> k.version,
     body |-> [type |-> "RenewLease", session_id |-> k.session_id,
               epoch |-> k.epoch, fencing_token |-> k.fencing_token]]

\* heartbeat_lease: the heartbeat in doubt is sent again as it was.
HeartbeatRequest(k) ==
    IF k.pending = {} THEN NewHeartbeat(k) ELSE CHOOSE r \in k.pending : TRUE

\* When a heartbeat is sent: by the browser loop at its time and before the
\* confirmed deadline, by the keepalive thread of an opening or a save inside the
\* safe window.  A heartbeat that was sent twice is not sent again.
HeartbeatDue(d) ==
    LET b == bridge[d]
        k == Cur(d)
    IN  \/ /\ b.stage = "running"
           /\ clock < Deadline(k)
           /\ clock >= b.next
        \/ /\ b.stage \in {"opening", "saving"}
           /\ b.healthy
           /\ SafeWindow(k)

SendHeartbeat(d) ==
    /\ bridge[d].cursor # {}
    /\ Cur(d).sequence < MaxVersion
    /\ HeartbeatDue(d)
    /\ Send(d, [bridge[d] EXCEPT !.next = clock], HeartbeatRequest(Cur(d)),
            IF bridge[d].retried THEN 2 ELSE 1)
    /\ UNCHANGED <<state, gate, stray, clock, minted, history>>

\* release_lease, always under the last confirmed version and sequence.
SendRelease(d, disposition) ==
    /\ Cur(d).sequence < MaxVersion
    /\ Send(d, [bridge[d] EXCEPT !.stage = "releasing"],
            [sequence |-> Cur(d).sequence + 1, expected_version |-> Cur(d).version,
             body |-> [type |-> "Release", session_id |-> Cur(d).session_id,
                       epoch |-> Cur(d).epoch,
                       fencing_token |-> Cur(d).fencing_token,
                       disposition |-> disposition]], 1)
    /\ UNCHANGED <<state, gate, stray, clock, minted, history>>

-----------------------------------------------------------------------------
(* The Bridge: replies.                                                    *)

\* validate_active_projection.
ActiveReply(d, x, outcome, session, sequence, may_replay) ==
    /\ x.ok
    /\ x.outcome = outcome
    /\ x.replayed => may_replay
    /\ x.sequence = sequence
    /\ x.at = x.version
    /\ x.status = "Active"
    /\ \E l \in x.lease : l.session_id = session /\ l.device_id = d

\* prove_replayed_heartbeat_is_still_current, a second request.
StillCurrent(d, x) ==
    /\ state.version = x.version
    /\ state.status = "Active"
    /\ state.active_lease = x.lease

CursorFrom(x, l) ==
    [session_id |-> l.session_id, epoch |-> l.epoch,
     fencing_token |-> l.fencing_token, version |-> x.version,
     sequence |-> x.sequence, idle |-> l.idle_expires_at,
     hard |-> l.hard_expires_at, pending |-> {}]

Answered(b) == [b EXCEPT !.call = {}, !.reply = {}]

RequestOf(d) == (CHOOSE m \in bridge[d].call : TRUE).request

ClaimReply(d) ==
    /\ bridge[d].stage = "claiming"
    /\ \E x \in bridge[d].reply :
          LET r == RequestOf(d)
          IN  bridge' = [bridge EXCEPT ![d] =
                IF ActiveReply(d, x, "LeaseClaimed", r.body.session_id, r.sequence, FALSE)
                THEN [Answered(@) EXCEPT !.stage = "opening",
                         !.cursor = {CursorFrom(x, l) : l \in x.lease}]
                ELSE Closed]
    /\ UNCHANGED <<state, gate, stray, network, clock, minted, history>>

\* The reply confirms the heartbeat: every check of heartbeat_lease passes.
Confirms(d, x) ==
    LET k == Cur(d)
    IN  /\ ActiveReply(d, x, "HeartbeatAccepted", k.session_id,
                       RequestOf(d).sequence, k.pending # {})
        /\ \A l \in x.lease : l.epoch = k.epoch
        /\ x.replayed => StillCurrent(d, x)

\* next_heartbeat_at: half of what remains; with too little left the loop ends.
NextHeartbeat(at, deadline) == at + (deadline - at) \div 2

LoopGoesOn(at, deadline) == deadline - at > 1

InHeartbeat(d) ==
    /\ bridge[d].stage \in {"opening", "running", "saving"}
    /\ bridge[d].call # {}

HeartbeatConfirmed(d) ==
    /\ InHeartbeat(d)
    /\ \E x \in bridge[d].reply :
          /\ Confirms(d, x)
          /\ LET k == CHOOSE c \in {CursorFrom(x, l) : l \in x.lease} : TRUE
                 b == [Answered(bridge[d]) EXCEPT !.cursor = {k}, !.retried = FALSE]
             IN  bridge' = [bridge EXCEPT ![d] =
                   IF b.stage # "running" THEN b
                   ELSE IF LoopGoesOn(b.next, Deadline(k))
                        THEN [b EXCEPT !.next = NextHeartbeat(b.next, Deadline(k))]
                        ELSE Closed]
    /\ UNCHANGED <<state, gate, stray, network, clock, minted, history>>

\* A definitive refusal, or a reply that proves nothing: the browser loop kills
\* the browser, the keepalive thread ends.
HeartbeatRefused(d) ==
    /\ InHeartbeat(d)
    /\ \E x \in bridge[d].reply : ~Confirms(d, x)
    /\ bridge' = [bridge EXCEPT ![d] =
          IF @.stage = "running"
          THEN [Answered(@) EXCEPT !.stage = "failed", !.browser = FALSE]
          ELSE [Answered(@) EXCEPT !.healthy = FALSE]]
    /\ UNCHANGED <<state, gate, stray, network, clock, minted, history>>

\* bounded_heartbeat_retry_at.
RetryAt(at, deadline) ==
    LET next == at + (IF RetryMs <= (deadline - at) \div 2 THEN RetryMs
                      ELSE (deadline - at) \div 2)
    IN  IF deadline - at > 1 /\ next < deadline THEN {next} ELSE {}

\* Mutant: a heartbeat without a reply counts as a renewal.
UncertainRenews(b, k, r) ==
    [Answered(b) EXCEPT
        !.cursor = {[k EXCEPT !.pending = {r}, !.idle = b.next + IdleTimeoutMs,
                              !.hard = b.next + HardTimeoutMs]},
        !.retried = TRUE]

\* No reply, or one that leaves the effect open.  The heartbeat is kept for one
\* retry; after that the browser is closed and the process ends with its lease,
\* or the keepalive thread ends.
Uncertain(b, k, r) ==
    LET kept == [Answered(b) EXCEPT !.cursor = {[k EXCEPT !.pending = {r}]},
                                    !.retried = TRUE]
    IN  IF b.stage # "running"
        THEN IF b.retried THEN [kept EXCEPT !.healthy = FALSE] ELSE kept
        ELSE IF b.retried \/ RetryAt(b.next, Deadline(k)) = {} THEN Closed
        ELSE [kept EXCEPT !.next = CHOOSE t \in RetryAt(b.next, Deadline(k)) : TRUE]

HeartbeatUncertain(d) ==
    /\ InHeartbeat(d)
    /\ bridge' = [bridge EXCEPT ![d] = Uncertain(@, Cur(d), RequestOf(d))]
    /\ UNCHANGED <<state, gate, stray, network, clock, minted, history>>

\* A claim or a release ends without a reply, or a release with any reply: the
\* process ends.
CallEnds(d) ==
    /\ bridge[d].call # {}
    /\ \/ bridge[d].stage = "claiming"
       \/ bridge[d].stage = "releasing"
    /\ bridge' = [bridge EXCEPT ![d] = Closed]
    /\ UNCHANGED <<state, gate, stray, network, clock, minted, history>>

-----------------------------------------------------------------------------
(* The Bridge: the browser and the save.                                   *)

\* The foreground of an opening starts the browser, whatever the keepalive says.
Launch(d) ==
    /\ bridge[d].stage = "opening"
    /\ ~bridge[d].browser
    /\ bridge' = [bridge EXCEPT ![d].browser = TRUE]
    /\ used' = used \cup {Cur(d).session_id}
    /\ UNCHANGED <<state, gate, stray, network, clock, minted, committed, excused>>

\* The opening fails before the browser was used; Clean needs proof of that.
FailBeforeUse(d) ==
    /\ bridge[d].stage = "opening"
    /\ ~bridge[d].browser
    /\ \E disposition \in {"Clean", "Uncertain"} : SendRelease(d, disposition)

\* The opening is done: the keepalive thread has been joined, and an unhealthy one
\* aborts the session.
Ready(d) ==
    LET b == bridge[d]
    IN  /\ b.stage = "opening"
        /\ b.browser
        /\ b.call = {}
        /\ b.retried => ~b.healthy
        /\ bridge' = [bridge EXCEPT ![d] =
              IF ~b.healthy
              THEN [b EXCEPT !.stage = "failed", !.browser = FALSE]
              ELSE IF LoopGoesOn(clock, Deadline(Cur(d)))
              THEN [b EXCEPT !.stage = "running",
                             !.next = NextHeartbeat(clock, Deadline(Cur(d)))]
              ELSE Closed]
        /\ UNCHANGED <<state, gate, stray, network, clock, minted, history>>

\* The keepalive thread finds itself outside the safe window and ends.
KeepaliveEnds(d) ==
    /\ bridge[d].stage \in {"opening", "saving"}
    /\ bridge[d].call = {}
    /\ bridge[d].healthy
    /\ ~SafeWindow(Cur(d))
    /\ bridge' = [bridge EXCEPT ![d].healthy = FALSE]
    /\ UNCHANGED <<state, gate, stray, network, clock, minted, history>>

\* stop_after_confirmed_lease_expiry, or the browser is found dead.
StopBrowser(d) ==
    /\ bridge[d].stage = "running"
    /\ bridge[d].call = {}
    /\ bridge' = [bridge EXCEPT ![d].stage = "failed", ![d].browser = FALSE]
    /\ UNCHANGED <<state, gate, stray, network, clock, minted, history>>

\* A controlled close before the deadline.  With a heartbeat in doubt the process
\* ends here and keeps the data; otherwise it saves.
CloseBrowser(d) ==
    /\ bridge[d].stage = "running"
    /\ bridge[d].call = {}
    /\ clock < Deadline(Cur(d))
    /\ bridge' = [bridge EXCEPT ![d] =
          IF @.retried THEN Closed
          ELSE [@ EXCEPT !.stage = "saving", !.browser = FALSE]]
    /\ UNCHANGED <<state, gate, stray, network, clock, minted, history>>

\* The object reserves a commit for the session of a save (GenerationCommit.tla).
BeginCommit(d) ==
    /\ bridge[d].stage = "saving"
    /\ ~gate
    /\ state.status \in {"Active", "Draining"}
    /\ ~TimeoutDue(state, clock)
    /\ \E l \in state.active_lease : AcceptsWriter(l, Cur(d))
    /\ gate' = TRUE
    /\ UNCHANGED <<state, stray, bridge, network, clock, minted, history>>

\* D1 answers the object: applied or refused, or the gate stays with an alarm.
EndCommit ==
    /\ gate
    /\ \/ /\ gate' = FALSE
          /\ \/ committed' = committed \cup {l.session_id : l \in state.active_lease}
             \/ UNCHANGED committed
          /\ UNCHANGED stray
       \/ gate' = TRUE /\ stray' = TRUE /\ UNCHANGED committed
    /\ UNCHANGED <<state, bridge, network, clock, minted, used, excused>>

AlarmGated ==
    /\ gate
    /\ AlarmDue
    /\ stray' = TRUE
    /\ UNCHANGED <<state, gate, bridge, network, clock, minted, history>>

\* The Bridge learns that its save was committed and releases the lease Clean.
ReleaseSaved(d) ==
    /\ bridge[d].stage = "saving"
    /\ Cur(d).session_id \in committed
    /\ SendRelease(d, "Clean")

\* Mutant: a browser that was killed is released like one that was saved.
ReleaseFailedClean(d) == bridge[d].stage = "failed" /\ SendRelease(d, "Clean")

ReleaseFailed(d) == bridge[d].stage = "failed" /\ SendRelease(d, "Uncertain")

\* The process ends: a crash, or a save that is given up.
Exit(d) ==
    /\ bridge[d].stage # "closed"
    /\ bridge' = [bridge EXCEPT ![d] = Closed]
    /\ UNCHANGED <<state, gate, stray, network, clock, minted, history>>

Tock ==
    /\ clock < MaxClock
    /\ clock' = clock + 1
    /\ UNCHANGED <<state, gate, stray, bridge, network, minted, history>>

-----------------------------------------------------------------------------

SessionInit ==
    /\ state = NewCoordinator
    /\ gate = FALSE
    /\ stray = FALSE
    /\ bridge = [d \in Bridges |-> Closed]
    /\ network = {}
    /\ clock = 0
    /\ minted = 0
    /\ used = {}
    /\ committed = {}
    /\ excused = {}

BridgeStep(d) ==
    \/ SendClaim(d) \/ SendHeartbeat(d)
    \/ ClaimReply(d) \/ HeartbeatConfirmed(d) \/ HeartbeatRefused(d)
    \/ HeartbeatUncertain(d) \/ CallEnds(d)
    \/ Launch(d) \/ FailBeforeUse(d) \/ Ready(d) \/ KeepaliveEnds(d)
    \/ StopBrowser(d)
    \/ CloseBrowser(d) \/ BeginCommit(d) \/ ReleaseSaved(d) \/ ReleaseFailed(d)
    \/ Exit(d)

SessionNext ==
    \/ \E m \in network : Deliver(m) \/ DropRequest(m)
    \/ Alarm
    \/ AlarmGated
    \/ \E d \in Bridges : IssueIntent(d) \/ RecoverAndIssue(d)
    \/ HumanDrain
    \/ HumanRecovers
    \/ EndCommit
    \/ \E d \in Bridges : BridgeStep(d)
    \/ Tock

SessionSpec == SessionInit /\ [][SessionNext]_sessionVars

-----------------------------------------------------------------------------
(* Properties.                                                             *)

SessionTypeOK ==
    /\ state.version \in 1 .. MaxVersion /\ state.status \in Status
    /\ gate \in BOOLEAN /\ stray \in BOOLEAN
    /\ \A d \in Bridges :
          /\ bridge[d].stage \in Stage
          /\ bridge[d].browser \in BOOLEAN /\ bridge[d].healthy \in BOOLEAN
          /\ bridge[d].retried \in BOOLEAN /\ bridge[d].next \in Time
          /\ bridge[d].cursor \subseteq Cursor /\ IsOption(bridge[d].cursor)
          /\ bridge[d].call \subseteq Message /\ IsOption(bridge[d].call)
    /\ network \subseteq Message
    /\ clock \in Time
    /\ minted \in 0 .. Cardinality(Sessions)

\* Until the deadline of the last reply it accepted, the lease is the Bridge's: no
\* other writer is admitted, whatever was lost, delayed, retried, drained or ticked
\* in the meantime (heartbeat_lease, validate_active_projection).  A Bridge that
\* is releasing has given the lease up.
ConfirmedWindowIsExclusive ==
    \A d \in Bridges : \A k \in bridge[d].cursor :
        (clock < Deadline(k) /\ bridge[d].stage # "releasing") =>
            \E l \in state.active_lease :
                /\ AcceptsWriter(l, k)
                /\ k.idle <= l.idle_expires_at
                /\ k.hard <= l.hard_expires_at

\* The coordinator goes back to Idle only when every browser that ran was saved, or
\* a person declared the profile recovered: no delayed, repeated or misplaced
\* release makes unsaved data look clean (release_lease and its callers).
UnsavedNeverIdle ==
    state.status = "Idle" => used \subseteq committed \cup excused

\* The heartbeat in doubt was applied and is the last thing the coordinator did.
AppliedUnanswered(d) ==
    \E r \in Cur(d).pending :
        /\ state.last_sequence = r.sequence
        /\ \E i \in DOMAIN state.receipts :
              state.receipts[i].idempotency_key = KeyOf(r)

\* A heartbeat that was applied while its reply was lost is recovered by sending it
\* again: the browser is not killed for it while its lease is live and nobody else
\* sent the coordinator anything (the comments on pending_heartbeat).
LostReplyRecovered ==
    [][\A d \in Bridges :
          (bridge[d].stage = "running" /\ HeartbeatRefused(d)) =>
             ~(AppliedUnanswered(d) /\ ~TimeoutDue(state, clock))]_sessionVars
=============================================================================
