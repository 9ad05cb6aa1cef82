-------------------------- MODULE CoordinatorDomain --------------------------
(***************************************************************************)
(* The pure transition function of the per-profile session coordinator     *)
(* (crates/session-domain/src/coordinator.rs), as constant-level operators *)
(* on a coordinator state record.  Every command has a condition under     *)
(* which `apply_new` accepts it and the state it leads to; a refused       *)
(* command leaves the state alone and is reported to the caller.           *)
(*                                                                         *)
(* An Option<T> of the code is a set with at most one element: {} is None  *)
(* and {x} is Some(x).  Times and counters are u64 in the code and every   *)
(* addition is checked, so MaxMillis and MaxVersion stand for u64::MAX and *)
(* a command that would pass them is refused.                              *)
(***************************************************************************)
EXTENDS Integers, Sequences

CONSTANTS
    IdleTimeoutMs,   \* config.idle_timeout_ms
    HardTimeoutMs,   \* config.hard_timeout_ms
    DrainTimeoutMs,  \* config.drain_timeout_ms
    MaxMillis,       \* the largest UnixMillis
    MaxVersion,      \* the largest AggregateVersion, and the largest epoch
    ReceiptLimit,    \* RECEIPT_LIMIT, the idempotency window
    Actors, Devices, Intents, Sessions, Fences, Keys

\* CoordinatorConfig::new refuses zero timeouts and an idle timeout longer
\* than the hard one.
ASSUME ConfigAssumption ==
    /\ IdleTimeoutMs \in Nat \ {0}
    /\ HardTimeoutMs \in Nat \ {0}
    /\ DrainTimeoutMs \in Nat \ {0}
    /\ IdleTimeoutMs <= HardTimeoutMs

ASSUME BoundAssumption ==
    /\ MaxMillis \in Nat
    /\ MaxVersion \in Nat \ {0}
    /\ ReceiptLimit \in Nat \ {0}

-----------------------------------------------------------------------------
(* Types.                                                                  *)

Time == 0 .. MaxMillis
Status == {"Idle", "Active", "Draining", "Dirty", "Uncertain"}
Disposition == {"Clean", "Dirty", "Uncertain"}
Outcome == {"LaunchIntentIssued", "LeaseClaimed", "HeartbeatAccepted",
            "Released", "DrainStarted", "TimedOutDrain", "TimedOutHard",
            "TimedOutIdle", "LaunchIntentExpired", "Recovered", "NoChange"}

PendingLaunchIntent ==
    [launch_intent_id : Intents, actor_id : Actors, device_id : Devices,
     expires_at : Time]

CoordinatorLease ==
    [session_id : Sessions, device_id : Devices, epoch : 1 .. MaxVersion,
     fencing_token : Fences, claimed_at : Time, last_heartbeat_at : Time,
     idle_expires_at : Time, hard_expires_at : Time]

LaunchCommand ==
    [type : {"IssueLaunchIntent", "RecoverAndIssueLaunchIntent"},
     launch_intent_id : Intents, actor_id : Actors, device_id : Devices,
     now : Time, expires_at : Time]
ClaimCommand ==
    [type : {"Claim"}, launch_intent_id : Intents, actor_id : Actors,
     device_id : Devices, session_id : Sessions, fencing_token : Fences,
     now : Time]
HeartbeatCommand ==
    [type : {"Heartbeat", "RenewLease"}, session_id : Sessions,
     epoch : 0 .. MaxVersion, fencing_token : Fences, now : Time]
ReleaseCommand ==
    [type : {"Release"}, session_id : Sessions, epoch : 0 .. MaxVersion,
     fencing_token : Fences, disposition : Disposition, now : Time]
PlainCommand ==
    [type : {"BeginDrain", "Tick", "MarkRecovered"}, now : Time]

CoordinatorCommand ==
    LaunchCommand \cup ClaimCommand \cup HeartbeatCommand
        \cup ReleaseCommand \cup PlainCommand

CoordinatorCommandEnvelope ==
    [idempotency_key : Keys, sequence : 1 .. MaxVersion,
     expected_version : 1 .. MaxVersion, command : CoordinatorCommand]

CommandReceipt ==
    [idempotency_key : Keys, sequence : 1 .. MaxVersion,
     command : CoordinatorCommand, outcome : Outcome]

\* o holds at most one value.
IsOption(o) == \A x, y \in o : x = y

ProfileCoordinatorState ==
    [version : 1 .. MaxVersion, last_sequence : 0 .. MaxVersion,
     last_observed_at : Time, next_epoch : 0 .. MaxVersion, status : Status,
     pending_intent : SUBSET PendingLaunchIntent,
     recovery_claim_pending : BOOLEAN,
     active_lease : SUBSET CoordinatorLease, drain_deadline : SUBSET Time,
     receipts : Seq(CommandReceipt)]

NewCoordinator ==
    [version |-> 1, last_sequence |-> 0, last_observed_at |-> 0,
     next_epoch |-> 0, status |-> "Idle", pending_intent |-> {},
     recovery_claim_pending |-> FALSE, active_lease |-> {},
     drain_deadline |-> {}, receipts |-> << >>]

-----------------------------------------------------------------------------
(* Lease deadlines.                                                        *)

Least(a, b) == IF a <= b THEN a ELSE b

\* add_millis, a checked addition.
Fits(now, delta) == now + delta <= MaxMillis

AcceptsWriter(l, c) ==
    /\ l.session_id = c.session_id
    /\ l.epoch = c.epoch
    /\ l.fencing_token = c.fencing_token

DrainDue(s, now) ==
    s.status = "Draining" /\ \E d \in s.drain_deadline : now >= d
HardDue(s, now) == \E l \in s.active_lease : now >= l.hard_expires_at
IdleDue(s, now) == \E l \in s.active_lease : now >= l.idle_expires_at

\* timeout_if_due finds an expired lease.
TimeoutDue(s, now) ==
    /\ s.active_lease # {}
    /\ DrainDue(s, now) \/ HardDue(s, now) \/ IdleDue(s, now)

TimeoutOutcome(s, now) ==
    IF DrainDue(s, now) THEN "TimedOutDrain"
    ELSE IF HardDue(s, now) THEN "TimedOutHard" ELSE "TimedOutIdle"

TimedOut(s) ==
    [s EXCEPT !.active_lease = {}, !.pending_intent = {},
              !.drain_deadline = {}, !.status = "Uncertain"]

\* The timeout preflight of the writer commands: an expired lease ends
\* Uncertain whatever the command asked for.
UnlessTimedOut(s, now, next) == IF TimeoutDue(s, now) THEN TimedOut(s) ELSE next

-----------------------------------------------------------------------------
(* The commands: when apply_new accepts one, and the state it leads to.    *)

NoLiveIntent(s, now) == \A i \in s.pending_intent : i.expires_at <= now

IntentOf(c) ==
    [launch_intent_id |-> c.launch_intent_id, actor_id |-> c.actor_id,
     device_id |-> c.device_id, expires_at |-> c.expires_at]

IssueLaunchIntentAccepted(s, c) ==
    /\ c.expires_at > c.now
    /\ s.active_lease = {}
    /\ s.status = "Idle"
    /\ NoLiveIntent(s, c.now)

IssueLaunchIntentEffect(s, c) == [s EXCEPT !.pending_intent = {IntentOf(c)}]

RecoverAndIssueAccepted(s, c) ==
    /\ \/ s.status = "Uncertain"
       \/ s.status = "Idle" /\ s.recovery_claim_pending
    /\ s.active_lease = {}
    /\ NoLiveIntent(s, c.now)
    /\ c.expires_at > c.now

RecoverAndIssueEffect(s, c) ==
    [s EXCEPT !.pending_intent = {IntentOf(c)}, !.status = "Idle",
              !.recovery_claim_pending = TRUE, !.drain_deadline = {}]

ClaimAccepted(s, c) ==
    /\ s.status = "Idle"
    /\ s.active_lease = {}
    /\ \E i \in s.pending_intent :
          /\ i.launch_intent_id = c.launch_intent_id
          /\ i.actor_id = c.actor_id
          /\ i.device_id = c.device_id
          /\ c.now < i.expires_at
    /\ s.next_epoch < MaxVersion
    /\ Fits(c.now, HardTimeoutMs)

LeaseAt(c, epoch) ==
    [session_id |-> c.session_id, device_id |-> c.device_id, epoch |-> epoch,
     fencing_token |-> c.fencing_token, claimed_at |-> c.now,
     last_heartbeat_at |-> c.now,
     idle_expires_at |-> c.now + IdleTimeoutMs,
     hard_expires_at |-> c.now + HardTimeoutMs]

\* Mutant: the turnover reuses the epoch of the previous lease.
ClaimEffectSameEpoch(s, c) ==
    LET epoch == IF s.next_epoch = 0 THEN 1 ELSE s.next_epoch
    IN  [s EXCEPT !.next_epoch = epoch, !.status = "Active",
                  !.recovery_claim_pending = FALSE, !.pending_intent = {},
                  !.active_lease = {LeaseAt(c, epoch)}, !.drain_deadline = {}]

ClaimEffect(s, c) ==
    [s EXCEPT !.next_epoch = s.next_epoch + 1, !.status = "Active",
              !.recovery_claim_pending = FALSE, !.pending_intent = {},
              !.active_lease = {LeaseAt(c, s.next_epoch + 1)},
              !.drain_deadline = {}]

\* Heartbeat keeps the hard deadline, RenewLease moves it.
HeartbeatAccepted(s, c) ==
    /\ s.status \in {"Active", "Draining"}
    /\ \E l \in s.active_lease :
          AcceptsWriter(l, c) /\ c.now >= l.last_heartbeat_at
    /\ \/ TimeoutDue(s, c.now)
       \/ /\ Fits(c.now, IdleTimeoutMs)
          /\ c.type = "RenewLease" => Fits(c.now, HardTimeoutMs)

\* Mutant: a legacy Heartbeat may push the idle deadline past the hard one.
RefreshedLeaseUncapped(l, c) ==
    [l EXCEPT !.last_heartbeat_at = c.now,
              !.hard_expires_at =
                  IF c.type = "RenewLease" THEN c.now + HardTimeoutMs
                                           ELSE l.hard_expires_at,
              !.idle_expires_at = c.now + IdleTimeoutMs]

RefreshedLease(l, c) ==
    LET hard == IF c.type = "RenewLease" THEN c.now + HardTimeoutMs
                                         ELSE l.hard_expires_at
    IN  [l EXCEPT !.last_heartbeat_at = c.now,
                  !.hard_expires_at = hard,
                  !.idle_expires_at = Least(c.now + IdleTimeoutMs, hard)]

HeartbeatEffect(s, c) ==
    UnlessTimedOut(s, c.now,
        [s EXCEPT !.active_lease =
            {RefreshedLease(l, c) : l \in s.active_lease}])

ReleaseAccepted(s, c) == \E l \in s.active_lease : AcceptsWriter(l, c)

\* Mutant: release without the timeout preflight.
ReleaseEffectNoPreflight(s, c) ==
    [s EXCEPT !.active_lease = {}, !.pending_intent = {},
              !.drain_deadline = {},
              !.status = IF c.disposition = "Clean" THEN "Idle"
                                                    ELSE c.disposition]

ReleaseEffect(s, c) ==
    UnlessTimedOut(s, c.now,
        [s EXCEPT !.active_lease = {}, !.pending_intent = {},
                  !.drain_deadline = {},
                  !.status = IF c.disposition = "Clean" THEN "Idle"
                                                        ELSE c.disposition])

BeginDrainAccepted(s, c) ==
    /\ s.status = "Active"
    /\ s.active_lease # {}
    /\ TimeoutDue(s, c.now) \/ Fits(c.now, DrainTimeoutMs)

BeginDrainEffect(s, c) ==
    UnlessTimedOut(s, c.now,
        [s EXCEPT !.status = "Draining",
                  !.drain_deadline =
                      {Least(c.now + DrainTimeoutMs, l.hard_expires_at)
                          : l \in s.active_lease}])

IntentExpired(s, now) == \E i \in s.pending_intent : now >= i.expires_at

TickEffect(s, c) ==
    IF IntentExpired(s, c.now) THEN [s EXCEPT !.pending_intent = {}]
    ELSE UnlessTimedOut(s, c.now, s)

MarkRecoveredAccepted(s, c) ==
    s.active_lease = {} /\ s.status \in {"Dirty", "Uncertain"}

MarkRecoveredEffect(s, c) ==
    [s EXCEPT !.status = "Idle", !.recovery_claim_pending = FALSE,
              !.pending_intent = {}, !.drain_deadline = {}]

-----------------------------------------------------------------------------
(* ProfileCoordinatorState::apply.                                         *)

CommandAccepted(s, c) ==
    CASE c.type = "IssueLaunchIntent" -> IssueLaunchIntentAccepted(s, c)
      [] c.type = "RecoverAndIssueLaunchIntent" -> RecoverAndIssueAccepted(s, c)
      [] c.type = "Claim" -> ClaimAccepted(s, c)
      [] c.type \in {"Heartbeat", "RenewLease"} -> HeartbeatAccepted(s, c)
      [] c.type = "Release" -> ReleaseAccepted(s, c)
      [] c.type = "BeginDrain" -> BeginDrainAccepted(s, c)
      [] c.type = "Tick" -> TRUE
      [] c.type = "MarkRecovered" -> MarkRecoveredAccepted(s, c)

CommandEffect(s, c) ==
    CASE c.type = "IssueLaunchIntent" -> IssueLaunchIntentEffect(s, c)
      [] c.type = "RecoverAndIssueLaunchIntent" -> RecoverAndIssueEffect(s, c)
      [] c.type = "Claim" -> ClaimEffect(s, c)
      [] c.type \in {"Heartbeat", "RenewLease"} -> HeartbeatEffect(s, c)
      [] c.type = "Release" -> ReleaseEffect(s, c)
      [] c.type = "BeginDrain" -> BeginDrainEffect(s, c)
      [] c.type = "Tick" -> TickEffect(s, c)
      [] c.type = "MarkRecovered" -> MarkRecoveredEffect(s, c)

CommandOutcome(s, c) ==
    CASE c.type \in {"IssueLaunchIntent", "RecoverAndIssueLaunchIntent"}
            -> "LaunchIntentIssued"
      [] c.type = "Claim" -> "LeaseClaimed"
      [] c.type = "MarkRecovered" -> "Recovered"
      [] c.type = "Tick" /\ IntentExpired(s, c.now) -> "LaunchIntentExpired"
      [] OTHER ->
            IF TimeoutDue(s, c.now) THEN TimeoutOutcome(s, c.now)
            ELSE IF c.type = "Release" THEN "Released"
            ELSE IF c.type = "BeginDrain" THEN "DrainStarted"
            ELSE IF c.type = "Tick" THEN "NoChange" ELSE "HeartbeatAccepted"

\* The receipt window is searched by idempotency key before anything else.  A
\* remembered key changes nothing: the exact command is answered from its
\* receipt, any other is refused.
KeySeen(s, e) ==
    \E i \in DOMAIN s.receipts :
        s.receipts[i].idempotency_key = e.idempotency_key

\* The one sequence and expected version that apply lets through, unless a
\* counter would overflow.
Expected(s, sequence, version) ==
    /\ s.version < MaxVersion
    /\ sequence = s.last_sequence + 1
    /\ version = s.version

InOrder(s, e) ==
    /\ Expected(s, e.sequence, e.expected_version)
    /\ e.command.now >= s.last_observed_at

\* The envelope of command c that carries the expected sequence and version.
NextEnvelope(s, key, c) ==
    [idempotency_key |-> key, sequence |-> s.last_sequence + 1,
     expected_version |-> s.version, command |-> c]

NewlyAccepted(s, e) ==
    ~KeySeen(s, e) /\ InOrder(s, e) /\ CommandAccepted(s, e.command)

ReceiptOf(s, e) ==
    [idempotency_key |-> e.idempotency_key, sequence |-> e.sequence,
     command |-> e.command, outcome |-> CommandOutcome(s, e.command)]

\* Mutant: the oldest receipt is kept and the newest lost.
RememberOldest(receipts, r) ==
    IF Len(receipts) < ReceiptLimit THEN Append(receipts, r) ELSE receipts

Remember(receipts, r) ==
    IF Len(receipts) < ReceiptLimit THEN Append(receipts, r)
                                    ELSE Append(Tail(receipts), r)

Accept(s, e) ==
    [CommandEffect(s, e.command) EXCEPT
        !.version = s.version + 1,
        !.last_sequence = e.sequence,
        !.last_observed_at = e.command.now,
        !.receipts = Remember(s.receipts, ReceiptOf(s, e))]

\* apply never fails on its own journal: an exact duplicate leaves the state.
Apply(s, e) == IF NewlyAccepted(s, e) THEN Accept(s, e) ELSE s

-----------------------------------------------------------------------------
(* Checkpoints.                                                            *)

\* checkpoint() drops the receipts.
Checkpoint(s) == [s EXCEPT !.receipts = << >>]

\* CoordinatorLease::restored.
RestorableLease(l) ==
    /\ l.epoch # 0
    /\ l.last_heartbeat_at >= l.claimed_at
    /\ l.idle_expires_at >= l.last_heartbeat_at
    /\ l.hard_expires_at >= l.idle_expires_at

\* restore_checkpoint accepts the checkpoint k.
Restorable(k) ==
    /\ k.version = k.last_sequence + 1
    /\ (k.active_lease # {}) <=> (k.status \in {"Active", "Draining"})
    /\ \A l \in k.active_lease : RestorableLease(l) /\ l.epoch <= k.next_epoch
    /\ k.pending_intent # {} => k.status = "Idle" /\ k.active_lease = {}
    /\ k.recovery_claim_pending => k.status = "Idle" /\ k.active_lease = {}
    /\ (k.drain_deadline # {}) <=> (k.status = "Draining")
=============================================================================
