-------------------------- MODULE CoordinatorProofs --------------------------
(***************************************************************************)
(* Proofs about the coordinator state machine, for every configuration,    *)
(* every bound and all sets of identities.                                 *)
(*                                                                         *)
(* The invariants are inductive only together: a checkpoint is restorable  *)
(* after a heartbeat because the lease was not yet due, which needs the    *)
(* order of its deadlines; the deadlines stay ordered because the observed *)
(* time never runs backwards.  SoundAt collects what a state needs so that *)
(* any command accepted at or after time t keeps it sound.                 *)
(*                                                                         *)
(* The second half is about the stored document, whose replay is a         *)
(* recursive function of the journal.  Replay after a compaction agrees    *)
(* with replay before it up to the receipts, entry by entry, until the     *)
(* retained entries have filled the window again.                          *)
(*                                                                         *)
(* The last part is about a Bridge that holds a lease.  A step of anything *)
(* but the Bridges keeps each window a Bridge was told of, and each lease  *)
(* that stands for unsaved data, unless a release on the network ends it;  *)
(* and what the network may hold is what the Bridges' own steps allow.     *)
(***************************************************************************)
EXTENDS Coordinator, CoordinatorDocument, BridgeSession, SequenceTheorems,
        FiniteSetTheorems, WellFoundedInduction, TLAPS

\* The deadlines of the lease of s, against the time t of its last command.
DeadlinesAt(s, t) ==
    \A l \in s.active_lease :
        /\ l.last_heartbeat_at <= t
        /\ l.idle_expires_at <= l.last_heartbeat_at + IdleTimeoutMs
        /\ l.hard_expires_at <= l.last_heartbeat_at + HardTimeoutMs
        /\ \A d \in s.drain_deadline : d <= l.hard_expires_at

OptionsOf(s) ==
    /\ IsOption(s.pending_intent)
    /\ IsOption(s.active_lease)
    /\ IsOption(s.drain_deadline)

SoundAt(s, t) ==
    /\ s \in ProfileCoordinatorState
    /\ OptionsOf(s)
    /\ Restorable(s)
    /\ DeadlinesAt(s, t)

-----------------------------------------------------------------------------
(* One lemma per command.                                                  *)

\* Ending a lease by timeout is sound at any time.
LEMMA TimedOutSound ==
    ASSUME NEW s, NEW t, SoundAt(s, t), s.active_lease # {}, NEW u
    PROVE  SoundAt(TimedOut(s), u)
<1> DEFINE n == TimedOut(s)
<1>1. n \in ProfileCoordinatorState
  BY DEF SoundAt, ProfileCoordinatorState, TimedOut, Status
<1>2. OptionsOf(n)
  BY DEF SoundAt, OptionsOf, IsOption, TimedOut, ProfileCoordinatorState
<1>3. Restorable(n)
  BY DEF SoundAt, Restorable, TimedOut, ProfileCoordinatorState
<1>4. DeadlinesAt(n, u)
  BY DEF SoundAt, DeadlinesAt, TimedOut, ProfileCoordinatorState
<1> QED BY <1>1, <1>2, <1>3, <1>4 DEF SoundAt

\* Issuing a launch intent, in `issue_launch_intent`.
LEMMA IssueSound ==
    ASSUME NEW s, NEW t \in Time, SoundAt(s, t), NEW c \in LaunchCommand,
           c.now >= t, IssueLaunchIntentAccepted(s, c)
    PROVE  SoundAt(IssueLaunchIntentEffect(s, c), c.now)
<1> DEFINE n == IssueLaunchIntentEffect(s, c)
<1>1. IntentOf(c) \in PendingLaunchIntent
  BY DEF IntentOf, PendingLaunchIntent, LaunchCommand
<1>2. n \in ProfileCoordinatorState
  BY <1>1 DEF SoundAt, ProfileCoordinatorState, IssueLaunchIntentEffect
<1>3. OptionsOf(n)
  BY DEF SoundAt, OptionsOf, IsOption, IssueLaunchIntentEffect,
         ProfileCoordinatorState
<1>4. Restorable(n)
  BY DEF SoundAt, Restorable, IssueLaunchIntentEffect,
         IssueLaunchIntentAccepted, ProfileCoordinatorState
<1>5. DeadlinesAt(n, c.now)
  BY DEF SoundAt, DeadlinesAt, IssueLaunchIntentEffect,
         IssueLaunchIntentAccepted, ProfileCoordinatorState
<1> QED BY <1>2, <1>3, <1>4, <1>5 DEF SoundAt

\* Recovering an uncertain profile for its last claimant, in
\* `recover_and_issue_launch_intent`.
LEMMA RecoverSound ==
    ASSUME NEW s, NEW t \in Time, SoundAt(s, t), NEW c \in LaunchCommand,
           c.now >= t, RecoverAndIssueAccepted(s, c)
    PROVE  SoundAt(RecoverAndIssueEffect(s, c), c.now)
<1> DEFINE n == RecoverAndIssueEffect(s, c)
<1>1. IntentOf(c) \in PendingLaunchIntent
  BY DEF IntentOf, PendingLaunchIntent, LaunchCommand
<1>2. n \in ProfileCoordinatorState
  BY <1>1 DEF SoundAt, ProfileCoordinatorState, RecoverAndIssueEffect, Status
<1>3. OptionsOf(n)
  BY DEF SoundAt, OptionsOf, IsOption, RecoverAndIssueEffect,
         ProfileCoordinatorState
<1>4. Restorable(n)
  BY DEF SoundAt, Restorable, RecoverAndIssueEffect,
         RecoverAndIssueAccepted, ProfileCoordinatorState
<1>5. DeadlinesAt(n, c.now)
  BY DEF SoundAt, DeadlinesAt, RecoverAndIssueEffect,
         RecoverAndIssueAccepted, ProfileCoordinatorState
<1> QED BY <1>2, <1>3, <1>4, <1>5 DEF SoundAt

\* Claiming the pending intent, in `claim`.
LEMMA ClaimSound ==
    ASSUME NEW s, NEW t \in Time, SoundAt(s, t), NEW c \in ClaimCommand,
           c.now >= t, ClaimAccepted(s, c)
    PROVE  SoundAt(ClaimEffect(s, c), c.now)
<1> DEFINE n == ClaimEffect(s, c)
           l == LeaseAt(c, s.next_epoch + 1)
<1>1. /\ c.now \in Time
      /\ c.now + IdleTimeoutMs \in Time
      /\ c.now + HardTimeoutMs \in Time
      /\ s.next_epoch + 1 \in 1 .. MaxVersion
  <2>1. c.now \in Time
    BY DEF ClaimCommand
  <2>2. /\ c.now + IdleTimeoutMs \in Time
        /\ c.now + HardTimeoutMs \in Time
    BY <2>1, ConfigAssumption, BoundAssumption DEF ClaimAccepted, Fits, Time
  <2>3. s.next_epoch \in 0 .. MaxVersion
    BY DEF SoundAt, ProfileCoordinatorState
  <2>4. s.next_epoch + 1 \in 1 .. MaxVersion
    BY <2>3, BoundAssumption DEF ClaimAccepted
  <2> QED BY <2>1, <2>2, <2>4
<1>2. l \in CoordinatorLease
  BY <1>1 DEF LeaseAt, CoordinatorLease, ClaimCommand
<1>3. /\ n.active_lease = {l}
      /\ n.drain_deadline = {}
      /\ n.pending_intent = {}
      /\ n.recovery_claim_pending = FALSE
      /\ n.status = "Active"
      /\ n.next_epoch = s.next_epoch + 1
      /\ n.version = s.version
      /\ n.last_sequence = s.last_sequence
  BY DEF ClaimEffect, SoundAt, ProfileCoordinatorState
<1>4. n \in ProfileCoordinatorState
  <2>1. s.next_epoch + 1 \in 0 .. MaxVersion
    BY <1>1, BoundAssumption
  <2>2. {l} \in SUBSET CoordinatorLease
    BY <1>2
  <2> QED BY <2>1, <2>2 DEF SoundAt, ProfileCoordinatorState, ClaimEffect, Status
<1>5. OptionsOf(n)
  BY <1>3 DEF OptionsOf, IsOption
<1>6. /\ l.epoch = s.next_epoch + 1
      /\ l.claimed_at = c.now
      /\ l.last_heartbeat_at = c.now
      /\ l.idle_expires_at = c.now + IdleTimeoutMs
      /\ l.hard_expires_at = c.now + HardTimeoutMs
  BY DEF LeaseAt
<1>7. RestorableLease(l)
  BY <1>1, <1>6, ConfigAssumption, BoundAssumption DEF RestorableLease, Time
<1>8. Restorable(n)
  BY <1>1, <1>3, <1>6, <1>7 DEF SoundAt, Restorable
<1>9. DeadlinesAt(n, c.now)
  BY <1>1, <1>3, <1>6, ConfigAssumption, BoundAssumption DEF DeadlinesAt, Time
<1> QED BY <1>4, <1>5, <1>8, <1>9 DEF SoundAt

\* Refreshing the lease before any of its deadlines, in `heartbeat`, for the
\* legacy Heartbeat and for RenewLease.
LEMMA HeartbeatSound ==
    ASSUME NEW s, NEW t \in Time, SoundAt(s, t), NEW c \in HeartbeatCommand,
           c.now >= t, HeartbeatAccepted(s, c)
    PROVE  SoundAt(HeartbeatEffect(s, c), c.now)
<1>1. CASE TimeoutDue(s, c.now)
  BY <1>1, TimedOutSound DEF HeartbeatEffect, UnlessTimedOut, TimeoutDue
<1>2. CASE ~TimeoutDue(s, c.now)
  <2> DEFINE m == [s EXCEPT !.active_lease =
                      {RefreshedLease(l, c) : l \in s.active_lease}]
  <2>1. HeartbeatEffect(s, c) = m
    BY <1>2 DEF HeartbeatEffect, UnlessTimedOut
  <2>2. PICK l \in s.active_lease : c.now >= l.last_heartbeat_at
    BY DEF HeartbeatAccepted
  <2>3. s.active_lease = {l}
    BY <2>2 DEF SoundAt, OptionsOf, IsOption
  <2> DEFINE r == RefreshedLease(l, c)
             hard == IF c.type = "RenewLease" THEN c.now + HardTimeoutMs
                                              ELSE l.hard_expires_at
  <2>4. /\ m.active_lease = {r}
        /\ m.drain_deadline = s.drain_deadline
        /\ m.pending_intent = s.pending_intent
        /\ m.recovery_claim_pending = s.recovery_claim_pending
        /\ m.status = s.status
        /\ m.next_epoch = s.next_epoch
        /\ m.version = s.version
        /\ m.last_sequence = s.last_sequence
    BY <2>3 DEF SoundAt, ProfileCoordinatorState
  <2>5. /\ l \in CoordinatorLease
        /\ RestorableLease(l)
        /\ l.epoch <= s.next_epoch
        /\ l.hard_expires_at <= l.last_heartbeat_at + HardTimeoutMs
        /\ \A d \in s.drain_deadline : d <= l.hard_expires_at
    BY <2>3 DEF SoundAt, ProfileCoordinatorState, Restorable, DeadlinesAt
  <2>6. /\ r.session_id = l.session_id
        /\ r.device_id = l.device_id
        /\ r.epoch = l.epoch
        /\ r.fencing_token = l.fencing_token
        /\ r.claimed_at = l.claimed_at
        /\ r.last_heartbeat_at = c.now
        /\ r.hard_expires_at = hard
        /\ r.idle_expires_at = Least(c.now + IdleTimeoutMs, hard)
    BY <2>5 DEF RefreshedLease, CoordinatorLease
  <2>7. /\ c.now \in Time
        /\ c.now + IdleTimeoutMs \in Time
        /\ hard \in Time
    BY <1>2, <2>5, ConfigAssumption, BoundAssumption
       DEF HeartbeatCommand, HeartbeatAccepted, Fits, Time, CoordinatorLease
  <2>8. c.now < l.hard_expires_at
    BY <1>2, <2>3, <2>5, <2>7, BoundAssumption
       DEF TimeoutDue, HardDue, Time, CoordinatorLease
  <2>9. /\ c.now <= hard
        /\ l.hard_expires_at <= hard \/ c.type # "RenewLease"
        /\ l.hard_expires_at <= hard
        /\ hard <= c.now + HardTimeoutMs
    BY <2>2, <2>5, <2>7, <2>8, ConfigAssumption, BoundAssumption
       DEF Time, CoordinatorLease, RestorableLease
  <2> HIDE DEF hard
  <2>10. /\ Least(c.now + IdleTimeoutMs, hard) \in Time
         /\ Least(c.now + IdleTimeoutMs, hard) >= c.now
         /\ Least(c.now + IdleTimeoutMs, hard) <= hard
         /\ Least(c.now + IdleTimeoutMs, hard) <= c.now + IdleTimeoutMs
    BY <2>7, <2>9, ConfigAssumption, BoundAssumption DEF Least, Time
  <2>11. r \in CoordinatorLease
    BY <2>5, <2>7, <2>10 DEF RefreshedLease, CoordinatorLease, hard
  <2>12. RestorableLease(r)
    BY <2>2, <2>5, <2>6, <2>7, <2>10, BoundAssumption
       DEF RestorableLease, CoordinatorLease, Time
  <2>13. m \in ProfileCoordinatorState
    BY <2>3, <2>11 DEF SoundAt, ProfileCoordinatorState
  <2> HIDE DEF r, m
  <2>14. OptionsOf(m)
    BY <2>4 DEF SoundAt, OptionsOf, IsOption
  <2>15. Restorable(m)
    BY <2>3, <2>4, <2>5, <2>6, <2>12 DEF SoundAt, Restorable
  <2>16. DeadlinesAt(m, c.now)
    <3>1. /\ r.last_heartbeat_at <= c.now
          /\ r.idle_expires_at <= r.last_heartbeat_at + IdleTimeoutMs
          /\ r.hard_expires_at <= r.last_heartbeat_at + HardTimeoutMs
      BY <2>6, <2>7, <2>9, <2>10, BoundAssumption DEF Time
    <3>2. ASSUME NEW d \in s.drain_deadline PROVE d <= r.hard_expires_at
      <4>1. d \in Time /\ l.hard_expires_at \in Time
        BY <2>5 DEF SoundAt, ProfileCoordinatorState, CoordinatorLease
      <4>2. d <= l.hard_expires_at
        BY <2>5
      <4>3. r.hard_expires_at = hard /\ hard \in Time
        BY <2>6, <2>7
      <4> QED BY <4>1, <4>2, <4>3, <2>9, BoundAssumption DEF Time
    <3> QED BY <2>4, <3>1, <3>2 DEF DeadlinesAt
  <2> QED BY <2>1, <2>13, <2>14, <2>15, <2>16 DEF SoundAt
<1> QED BY <1>1, <1>2

\* Giving the lease back, in `release`.
LEMMA ReleaseSound ==
    ASSUME NEW s, NEW t \in Time, SoundAt(s, t), NEW c \in ReleaseCommand,
           c.now >= t, ReleaseAccepted(s, c)
    PROVE  SoundAt(ReleaseEffect(s, c), c.now)
<1>1. CASE TimeoutDue(s, c.now)
  BY <1>1, TimedOutSound DEF ReleaseEffect, UnlessTimedOut, TimeoutDue
<1>2. CASE ~TimeoutDue(s, c.now)
  <2> DEFINE n == ReleaseEffect(s, c)
  <2>1. n = [s EXCEPT !.active_lease = {}, !.pending_intent = {},
                      !.drain_deadline = {},
                      !.status = IF c.disposition = "Clean" THEN "Idle"
                                                            ELSE c.disposition]
    BY <1>2 DEF ReleaseEffect, UnlessTimedOut
  <2>2. s.recovery_claim_pending = FALSE
    BY DEF SoundAt, Restorable, ReleaseAccepted, ProfileCoordinatorState
  <2>3. n \in ProfileCoordinatorState
    BY <2>1 DEF SoundAt, ProfileCoordinatorState, ReleaseCommand, Disposition,
                Status
  <2>4. n.status \in {"Idle", "Dirty", "Uncertain"}
    BY <2>1 DEF SoundAt, ProfileCoordinatorState, ReleaseCommand, Disposition
  <2>5. OptionsOf(n)
    BY <2>1 DEF SoundAt, OptionsOf, IsOption, ProfileCoordinatorState
  <2>6. Restorable(n)
    BY <2>1, <2>2, <2>4 DEF SoundAt, Restorable, ProfileCoordinatorState
  <2>7. DeadlinesAt(n, c.now)
    BY <2>1 DEF SoundAt, DeadlinesAt, ProfileCoordinatorState
  <2> QED BY <2>3, <2>5, <2>6, <2>7 DEF SoundAt
<1> QED BY <1>1, <1>2

\* Asking the writer to close, in `begin_drain`.
LEMMA BeginDrainSound ==
    ASSUME NEW s, NEW t \in Time, SoundAt(s, t), NEW c \in PlainCommand,
           c.now >= t, BeginDrainAccepted(s, c)
    PROVE  SoundAt(BeginDrainEffect(s, c), c.now)
<1>1. CASE TimeoutDue(s, c.now)
  BY <1>1, TimedOutSound DEF BeginDrainEffect, UnlessTimedOut, TimeoutDue
<1>2. CASE ~TimeoutDue(s, c.now)
  <2>1. PICK l \in s.active_lease : TRUE
    BY DEF BeginDrainAccepted
  <2>2. s.active_lease = {l}
    BY <2>1 DEF SoundAt, OptionsOf, IsOption
  <2> DEFINE d == Least(c.now + DrainTimeoutMs, l.hard_expires_at)
             n == BeginDrainEffect(s, c)
  <2>3. n = [s EXCEPT !.status = "Draining", !.drain_deadline = {d}]
    BY <1>2, <2>2 DEF BeginDrainEffect, UnlessTimedOut
  <2>4. /\ c.now \in Time
        /\ c.now + DrainTimeoutMs \in Time
        /\ l \in CoordinatorLease
    BY <1>2, <2>1, ConfigAssumption, BoundAssumption
       DEF PlainCommand, BeginDrainAccepted, Fits, Time, SoundAt,
           ProfileCoordinatorState
  <2>5. d \in Time /\ d <= l.hard_expires_at
    BY <2>4, BoundAssumption DEF Least, Time, CoordinatorLease
  <2> HIDE DEF d, n
  <2>6. n \in ProfileCoordinatorState
    <3>1. {d} \in SUBSET Time
      BY <2>5
    <3> QED BY <2>3, <3>1 DEF SoundAt, ProfileCoordinatorState, Status
  <2>7. OptionsOf(n)
    BY <2>3 DEF SoundAt, OptionsOf, IsOption, ProfileCoordinatorState
  <2>8. Restorable(n)
    BY <2>2, <2>3 DEF SoundAt, Restorable, ProfileCoordinatorState,
                       BeginDrainAccepted
  <2>9. DeadlinesAt(n, c.now)
    <3>1. n.active_lease = {l} /\ n.drain_deadline = {d}
      BY <2>2, <2>3 DEF SoundAt, ProfileCoordinatorState
    <3>2. /\ l.last_heartbeat_at <= t
          /\ l.idle_expires_at <= l.last_heartbeat_at + IdleTimeoutMs
          /\ l.hard_expires_at <= l.last_heartbeat_at + HardTimeoutMs
      BY <2>1 DEF SoundAt, DeadlinesAt
    <3>3. l.last_heartbeat_at <= c.now
      BY <2>4, <3>2, BoundAssumption DEF Time, CoordinatorLease
    <3> QED BY <2>5, <3>1, <3>2, <3>3 DEF DeadlinesAt
  <2> QED BY <2>6, <2>7, <2>8, <2>9 DEF SoundAt, n
<1> QED BY <1>1, <1>2

\* The alarm's Tick, in `tick`.
LEMMA TickSound ==
    ASSUME NEW s, NEW t \in Time, SoundAt(s, t), NEW c \in PlainCommand,
           c.now >= t
    PROVE  SoundAt(TickEffect(s, c), c.now)
<1>1. CASE IntentExpired(s, c.now)
  <2> DEFINE n == TickEffect(s, c)
  <2>1. n = [s EXCEPT !.pending_intent = {}]
    BY <1>1 DEF TickEffect
  <2>2. s.active_lease = {}
    BY <1>1 DEF IntentExpired, SoundAt, Restorable
  <2>3. n \in ProfileCoordinatorState
    BY <2>1 DEF SoundAt, ProfileCoordinatorState
  <2>4. OptionsOf(n)
    BY <2>1 DEF SoundAt, OptionsOf, IsOption, ProfileCoordinatorState
  <2>5. Restorable(n)
    BY <2>1 DEF SoundAt, Restorable, ProfileCoordinatorState
  <2>6. DeadlinesAt(n, c.now)
    BY <2>1, <2>2 DEF DeadlinesAt, SoundAt, ProfileCoordinatorState
  <2> QED BY <2>3, <2>4, <2>5, <2>6 DEF SoundAt
<1>2. CASE ~IntentExpired(s, c.now) /\ TimeoutDue(s, c.now)
  BY <1>2, TimedOutSound DEF TickEffect, UnlessTimedOut, TimeoutDue
<1>3. CASE ~IntentExpired(s, c.now) /\ ~TimeoutDue(s, c.now)
  <2>1. TickEffect(s, c) = s
    BY <1>3 DEF TickEffect, UnlessTimedOut
  <2>2. DeadlinesAt(s, c.now)
    BY BoundAssumption DEF SoundAt, DeadlinesAt, ProfileCoordinatorState,
       CoordinatorLease, PlainCommand, Time
  <2> QED BY <2>1, <2>2 DEF SoundAt
<1> QED BY <1>1, <1>2, <1>3

\* The owner's recovery of a dirty or uncertain profile, in `mark_recovered`.
LEMMA MarkRecoveredSound ==
    ASSUME NEW s, NEW t \in Time, SoundAt(s, t), NEW c \in PlainCommand,
           MarkRecoveredAccepted(s, c)
    PROVE  SoundAt(MarkRecoveredEffect(s, c), c.now)
<1> DEFINE n == MarkRecoveredEffect(s, c)
<1>1. n \in ProfileCoordinatorState
  BY DEF SoundAt, ProfileCoordinatorState, MarkRecoveredEffect, Status
<1>2. OptionsOf(n)
  BY DEF SoundAt, OptionsOf, IsOption, MarkRecoveredEffect,
         ProfileCoordinatorState
<1>3. Restorable(n)
  BY DEF SoundAt, Restorable, MarkRecoveredEffect, MarkRecoveredAccepted,
         ProfileCoordinatorState
<1>4. DeadlinesAt(n, c.now)
  BY DEF DeadlinesAt, MarkRecoveredEffect, MarkRecoveredAccepted, SoundAt,
         ProfileCoordinatorState
<1> QED BY <1>1, <1>2, <1>3, <1>4 DEF SoundAt

-----------------------------------------------------------------------------
(* Any accepted command.                                                   *)

\* The eight kinds of command.
LEMMA CommandKinds ==
    ASSUME NEW c \in CoordinatorCommand
    PROVE  /\ c.now \in Time
           /\ \/ c \in LaunchCommand /\ c.type = "IssueLaunchIntent"
              \/ c \in LaunchCommand /\ c.type = "RecoverAndIssueLaunchIntent"
              \/ c \in ClaimCommand /\ c.type = "Claim"
              \/ c \in HeartbeatCommand /\ c.type = "Heartbeat"
              \/ c \in HeartbeatCommand /\ c.type = "RenewLease"
              \/ c \in ReleaseCommand /\ c.type = "Release"
              \/ c \in PlainCommand /\ c.type = "BeginDrain"
              \/ c \in PlainCommand /\ c.type = "Tick"
              \/ c \in PlainCommand /\ c.type = "MarkRecovered"
BY DEF CoordinatorCommand, LaunchCommand, ClaimCommand, HeartbeatCommand,
       ReleaseCommand, PlainCommand

\* An accepted command leaves a sound state.
LEMMA CommandSound ==
    ASSUME NEW s, SoundAt(s, s.last_observed_at), NEW c \in CoordinatorCommand,
           c.now >= s.last_observed_at, CommandAccepted(s, c)
    PROVE  SoundAt(CommandEffect(s, c), c.now)
<1>1. s.last_observed_at \in Time
  BY DEF SoundAt, ProfileCoordinatorState
<1>2. CASE c \in LaunchCommand /\ c.type = "IssueLaunchIntent"
  BY <1>1, <1>2, IssueSound DEF CommandAccepted, CommandEffect
<1>3. CASE c \in LaunchCommand /\ c.type = "RecoverAndIssueLaunchIntent"
  BY <1>1, <1>3, RecoverSound DEF CommandAccepted, CommandEffect
<1>4. CASE c \in ClaimCommand /\ c.type = "Claim"
  BY <1>1, <1>4, ClaimSound DEF CommandAccepted, CommandEffect
<1>5. CASE c \in HeartbeatCommand /\ c.type \in {"Heartbeat", "RenewLease"}
  BY <1>1, <1>5, HeartbeatSound DEF CommandAccepted, CommandEffect
<1>6. CASE c \in ReleaseCommand /\ c.type = "Release"
  BY <1>1, <1>6, ReleaseSound DEF CommandAccepted, CommandEffect
<1>7. CASE c \in PlainCommand /\ c.type = "BeginDrain"
  BY <1>1, <1>7, BeginDrainSound DEF CommandAccepted, CommandEffect
<1>8. CASE c \in PlainCommand /\ c.type = "Tick"
  BY <1>1, <1>8, TickSound DEF CommandAccepted, CommandEffect
<1>9. CASE c \in PlainCommand /\ c.type = "MarkRecovered"
  BY <1>1, <1>9, MarkRecoveredSound DEF CommandAccepted, CommandEffect
<1> QED BY <1>2, <1>3, <1>4, <1>5, <1>6, <1>7, <1>8, <1>9, CommandKinds

\* The decision of an accepted command is one of the outcomes.
LEMMA OutcomeType ==
    ASSUME NEW s, NEW c \in CoordinatorCommand
    PROVE  CommandOutcome(s, c) \in Outcome
<1>1. TimeoutOutcome(s, c.now) \in Outcome
  BY DEF TimeoutOutcome, Outcome
<1> QED BY <1>1, CommandKinds DEF CommandOutcome, Outcome

\* The receipts of s are those of the last ReceiptLimit sequences, under
\* distinct keys.
WindowOf(s) ==
    /\ Len(s.receipts) = Least(s.last_sequence, ReceiptLimit)
    /\ \A i \in 1 .. Len(s.receipts) :
          s.receipts[i].sequence = s.last_sequence - Len(s.receipts) + i
    /\ \A i, j \in 1 .. Len(s.receipts) :
          s.receipts[i].idempotency_key = s.receipts[j].idempotency_key => i = j

\* Adding a receipt keeps the newest ones, in order.
LEMMA RememberSeq ==
    ASSUME NEW q \in Seq(CommandReceipt), Len(q) <= ReceiptLimit,
           NEW r \in CommandReceipt
    PROVE  /\ Remember(q, r) \in Seq(CommandReceipt)
           /\ Len(Remember(q, r)) = IF Len(q) < ReceiptLimit THEN Len(q) + 1
                                                             ELSE Len(q)
           /\ Remember(q, r)[Len(Remember(q, r))] = r
           /\ \A i \in 1 .. (Len(Remember(q, r)) - 1) :
                 Remember(q, r)[i] = IF Len(q) < ReceiptLimit THEN q[i]
                                                              ELSE q[i + 1]
<1>1. CASE Len(q) < ReceiptLimit
  BY <1>1 DEF Remember
<1>2. CASE ~(Len(q) < ReceiptLimit)
  <2>1. q # << >> /\ Len(q) = ReceiptLimit
    BY <1>2, BoundAssumption
  <2>2. /\ Tail(q) \in Seq(CommandReceipt)
        /\ Len(Tail(q)) = Len(q) - 1
        /\ \A i \in 1 .. (Len(q) - 1) : Tail(q)[i] = q[i + 1]
    BY <2>1
  <2>3. Remember(q, r) = Append(Tail(q), r)
    BY <1>2 DEF Remember
  <2> QED BY <1>2, <2>1, <2>2, <2>3, BoundAssumption
<1> QED BY <1>1, <1>2

\* What one call of `apply` that accepts e does to a sound state.
LEMMA AcceptSound ==
    ASSUME NEW s, SoundAt(s, s.last_observed_at),
           Len(s.receipts) <= ReceiptLimit,
           NEW e \in CoordinatorCommandEnvelope, NewlyAccepted(s, e)
    PROVE  /\ SoundAt(Accept(s, e), Accept(s, e).last_observed_at)
           /\ Len(Accept(s, e).receipts) <= ReceiptLimit
           /\ WindowOf(s) => WindowOf(Accept(s, e))
<1> DEFINE c == e.command
           m == CommandEffect(s, c)
           n == Accept(s, e)
           r == ReceiptOf(s, e)
<1>1. /\ c \in CoordinatorCommand
      /\ c.now \in Time
      /\ c.now >= s.last_observed_at
      /\ e.sequence = s.last_sequence + 1
      /\ e.sequence \in 1 .. MaxVersion
      /\ s.version < MaxVersion
      /\ CommandAccepted(s, c)
      /\ ~KeySeen(s, e)
  BY CommandKinds DEF NewlyAccepted, InOrder, Expected, CoordinatorCommandEnvelope
<1>2. SoundAt(m, c.now)
  BY <1>1, CommandSound
<1>3. r \in CommandReceipt
  BY <1>1, OutcomeType DEF ReceiptOf, CommandReceipt, CoordinatorCommandEnvelope
<1>4. s.receipts \in Seq(CommandReceipt)
  BY DEF SoundAt, ProfileCoordinatorState
<1> DEFINE q == Remember(s.receipts, r)
<1>5. /\ q \in Seq(CommandReceipt)
      /\ Len(q) = IF Len(s.receipts) < ReceiptLimit THEN Len(s.receipts) + 1
                                                     ELSE Len(s.receipts)
      /\ q[Len(q)] = r
      /\ \A i \in 1 .. (Len(q) - 1) :
            q[i] = IF Len(s.receipts) < ReceiptLimit THEN s.receipts[i]
                                                     ELSE s.receipts[i + 1]
  BY <1>3, <1>4, RememberSeq
<1>6. n = [m EXCEPT !.version = s.version + 1, !.last_sequence = e.sequence,
                    !.last_observed_at = c.now, !.receipts = q]
  BY DEF Accept
<1>7. m \in ProfileCoordinatorState
  BY <1>2 DEF SoundAt
<1> HIDE DEF m, n, q, c
<1>8. /\ n.version = s.version + 1
      /\ n.last_sequence = s.last_sequence + 1
      /\ n.last_observed_at = c.now
      /\ n.receipts = q
      /\ n.next_epoch = m.next_epoch
      /\ n.status = m.status
      /\ n.pending_intent = m.pending_intent
      /\ n.recovery_claim_pending = m.recovery_claim_pending
      /\ n.active_lease = m.active_lease
      /\ n.drain_deadline = m.drain_deadline
  BY <1>1, <1>6, <1>7 DEF ProfileCoordinatorState
<1>9. n \in ProfileCoordinatorState
  <2>1. s.version + 1 \in 1 .. MaxVersion /\ e.sequence \in 0 .. MaxVersion
    BY <1>1, BoundAssumption DEF SoundAt, ProfileCoordinatorState
  <2> QED BY <1>1, <1>5, <1>6, <1>7, <2>1 DEF ProfileCoordinatorState
<1>10. OptionsOf(n)
  BY <1>2, <1>8 DEF SoundAt, OptionsOf
<1>11. Restorable(n)
  <2>1. n.version = n.last_sequence + 1
    BY <1>8, BoundAssumption DEF SoundAt, Restorable, ProfileCoordinatorState
  <2> QED BY <1>2, <1>8, <2>1 DEF SoundAt, Restorable
<1>12. DeadlinesAt(n, n.last_observed_at)
  BY <1>2, <1>8 DEF SoundAt, DeadlinesAt
<1>13. Len(n.receipts) <= ReceiptLimit
  BY <1>4, <1>5, <1>8, BoundAssumption
<1>14. ASSUME WindowOf(s) PROVE WindowOf(n)
  <2>1. /\ s.last_sequence \in Nat
        /\ Len(s.receipts) \in Nat
        /\ Len(s.receipts) = Least(s.last_sequence, ReceiptLimit)
    BY <1>4, <1>14, BoundAssumption DEF SoundAt, ProfileCoordinatorState, WindowOf
  <2>2. Len(q) = Least(s.last_sequence + 1, ReceiptLimit)
    BY <1>5, <2>1, BoundAssumption DEF Least
  <2>3. r.sequence = s.last_sequence + 1
        /\ r.idempotency_key = e.idempotency_key
    BY <1>1 DEF ReceiptOf
  <2> DEFINE k == IF Len(s.receipts) < ReceiptLimit THEN 0 ELSE 1
             p == s.receipts
  <2>4. /\ k \in {0, 1}
        /\ Len(q) = Len(p) + 1 - k
        /\ \A i \in 1 .. (Len(q) - 1) : i + k \in 1 .. Len(p) /\ q[i] = p[i + k]
    BY <1>5, <2>1
  <2>5. /\ \A i \in 1 .. Len(p) : p[i].sequence = s.last_sequence - Len(p) + i
        /\ \A i, j \in 1 .. Len(p) :
              p[i].idempotency_key = p[j].idempotency_key => i = j
        /\ \A i \in 1 .. Len(p) : p[i].idempotency_key # e.idempotency_key
    BY <1>1, <1>4, <1>14 DEF WindowOf, KeySeen
  <2>6. q[Len(q)] = r /\ Len(q) \in Nat \ {0} /\ Len(p) \in Nat
    BY <1>5, <2>1, BoundAssumption
  <2> HIDE DEF k, p, r
  <2>7. \A i \in 1 .. Len(q) : q[i].sequence = s.last_sequence + 1 - Len(q) + i
    <3> SUFFICES ASSUME NEW i \in 1 .. Len(q)
                 PROVE  q[i].sequence = s.last_sequence + 1 - Len(q) + i
      OBVIOUS
    <3>1. CASE i = Len(q)
      BY <2>1, <2>3, <2>6, <3>1
    <3>2. CASE i # Len(q)
      <4>1. i \in 1 .. (Len(q) - 1)
        BY <2>6, <3>2
      <4>2. q[i].sequence = s.last_sequence - Len(p) + (i + k)
        BY <2>4, <2>5, <4>1
      <4> QED BY <2>1, <2>4, <2>6, <4>2
    <3> QED BY <3>1, <3>2
  <2>8. \A i, j \in 1 .. Len(q) :
            q[i].idempotency_key = q[j].idempotency_key => i = j
    <3> SUFFICES ASSUME NEW i \in 1 .. Len(q), NEW j \in 1 .. Len(q),
                        q[i].idempotency_key = q[j].idempotency_key
                 PROVE  i = j
      OBVIOUS
    <3>1. ASSUME NEW x \in 1 .. (Len(q) - 1)
          PROVE  q[x].idempotency_key # e.idempotency_key
      <4>1. x + k \in 1 .. Len(p) /\ q[x] = p[x + k]
        BY <2>4
      <4> QED BY <2>5, <4>1
    <3>2. CASE i \in 1 .. (Len(q) - 1) /\ j \in 1 .. (Len(q) - 1)
      <4>1. i + k = j + k
        BY <2>4, <2>5, <3>2
      <4> QED BY <2>4, <4>1
    <3>3. \A x \in 1 .. Len(q) : x = Len(q) \/ x \in 1 .. (Len(q) - 1)
      BY <2>6
    <3>4. q[Len(q)].idempotency_key = e.idempotency_key
      BY <2>3, <2>6
    <3>5. CASE i = Len(q)
      BY <3>1, <3>3, <3>4, <3>5
    <3>6. CASE j = Len(q)
      BY <3>1, <3>3, <3>4, <3>6
    <3> QED BY <3>2, <3>3, <3>5, <3>6
  <2> QED
    BY <1>8, <2>1, <2>2, <2>7, <2>8 DEF WindowOf
<1> QED BY <1>9, <1>10, <1>11, <1>12, <1>13, <1>14 DEF SoundAt, n

-----------------------------------------------------------------------------
(* What a command does to the writer.                                      *)

\* A heartbeat never changes who the writer is.
LEMMA RefreshedWriter ==
    ASSUME NEW l \in CoordinatorLease, NEW c
    PROVE  WriterOf(RefreshedLease(l, c)) = WriterOf(l)
BY DEF WriterOf, RefreshedLease, CoordinatorLease

\* The lease of a sound state after a command is the one it had, none, or a
\* first one under an epoch that was never used.
Turnover(s, m) ==
    \/ m.next_epoch = s.next_epoch /\ WritersOf(m) = WritersOf(s)
    \/ m.next_epoch = s.next_epoch /\ WritersOf(m) = {}
    \/ /\ m.next_epoch = s.next_epoch + 1
       /\ WritersOf(s) = {}
       /\ \A w \in WritersOf(m) : w.epoch = s.next_epoch + 1

\* Every command is one of these three.
LEMMA CommandTurnover ==
    ASSUME NEW s, SoundAt(s, s.last_observed_at), NEW c \in CoordinatorCommand,
           CommandAccepted(s, c)
    PROVE  Turnover(s, CommandEffect(s, c))
<1> USE DEF Turnover
<1> s \in ProfileCoordinatorState
  BY DEF SoundAt
<1>1. /\ TimedOut(s).next_epoch = s.next_epoch
      /\ WritersOf(TimedOut(s)) = {}
  BY DEF TimedOut, WritersOf, ProfileCoordinatorState
<1>2. CASE c.type = "IssueLaunchIntent"
  BY <1>2 DEF CommandEffect, IssueLaunchIntentEffect, WritersOf,
              ProfileCoordinatorState
<1>3. CASE c.type = "RecoverAndIssueLaunchIntent"
  BY <1>3 DEF CommandEffect, RecoverAndIssueEffect, WritersOf,
              ProfileCoordinatorState
<1>4. CASE c.type = "Claim"
  <2>1. WritersOf(s) = {}
    BY <1>4 DEF CommandAccepted, ClaimAccepted, WritersOf
  <2>2. /\ CommandEffect(s, c).next_epoch = s.next_epoch + 1
        /\ CommandEffect(s, c).active_lease = {LeaseAt(c, s.next_epoch + 1)}
    BY <1>4 DEF CommandEffect, ClaimEffect, ProfileCoordinatorState
  <2>3. LeaseAt(c, s.next_epoch + 1).epoch = s.next_epoch + 1
    BY DEF LeaseAt
  <2> QED BY <2>1, <2>2, <2>3 DEF WritersOf, WriterOf
<1>5. CASE c.type \in {"Heartbeat", "RenewLease"}
  <2>1. CommandEffect(s, c) = HeartbeatEffect(s, c)
    BY <1>5 DEF CommandEffect
  <2>2. CASE TimeoutDue(s, c.now)
    BY <1>1, <2>1, <2>2 DEF HeartbeatEffect, UnlessTimedOut
  <2>3. CASE ~TimeoutDue(s, c.now)
    <3> DEFINE m == [s EXCEPT !.active_lease =
                        {RefreshedLease(l, c) : l \in s.active_lease}]
    <3>1. CommandEffect(s, c) = m
      BY <2>1, <2>3 DEF HeartbeatEffect, UnlessTimedOut
    <3>2. /\ m.next_epoch = s.next_epoch
          /\ m.active_lease = {RefreshedLease(l, c) : l \in s.active_lease}
      BY DEF ProfileCoordinatorState
    <3>3. \A l \in s.active_lease : WriterOf(RefreshedLease(l, c)) = WriterOf(l)
      BY RefreshedWriter DEF ProfileCoordinatorState
    <3> HIDE DEF m
    <3>4. WritersOf(m) = WritersOf(s)
      BY <3>2, <3>3 DEF WritersOf
    <3> QED BY <3>1, <3>2, <3>4
  <2> QED BY <2>2, <2>3
<1>6. CASE c.type = "Release"
  <2>1. CommandEffect(s, c) = ReleaseEffect(s, c)
    BY <1>6 DEF CommandEffect
  <2> QED BY <1>1, <2>1 DEF ReleaseEffect, UnlessTimedOut, WritersOf,
                            ProfileCoordinatorState
<1>7. CASE c.type = "BeginDrain"
  <2>1. CommandEffect(s, c) = BeginDrainEffect(s, c)
    BY <1>7 DEF CommandEffect
  <2> QED BY <1>1, <2>1 DEF BeginDrainEffect, UnlessTimedOut, WritersOf,
                            ProfileCoordinatorState
<1>8. CASE c.type = "Tick"
  <2>1. CommandEffect(s, c) = TickEffect(s, c)
    BY <1>8 DEF CommandEffect
  <2> QED BY <1>1, <2>1 DEF TickEffect, UnlessTimedOut, WritersOf,
                            ProfileCoordinatorState
<1>9. CASE c.type = "MarkRecovered"
  BY <1>9 DEF CommandEffect, MarkRecoveredEffect, WritersOf,
              ProfileCoordinatorState
<1> QED BY <1>2, <1>3, <1>4, <1>5, <1>6, <1>7, <1>8, <1>9, CommandKinds

-----------------------------------------------------------------------------
(* The inductive invariant and the theorems.                               *)

\* Epochs of ended leases lie below the epoch of the lease there is.
EpochsRetired ==
    \A w \in retired : /\ w.epoch <= coord.next_epoch
                       /\ \A v \in WritersOf(coord) : w.epoch < v.epoch

IInv ==
    /\ SoundAt(coord, coord.last_observed_at)
    /\ Len(coord.receipts) <= ReceiptLimit
    /\ WindowOf(coord)
    /\ retired \subseteq Writer
    /\ EpochsRetired

\* A step of Next accepts one envelope.
AcceptsSome ==
    \E e \in CoordinatorCommandEnvelope :
        /\ NewlyAccepted(coord, e)
        /\ coord' = Accept(coord, e)
        /\ retired' = retired \cup (WritersOf(coord) \ WritersOf(coord'))

\* Every action submits an envelope of a well-typed command.
LEMMA SubmitAccepts ==
    ASSUME IInv, NEW C \in SUBSET CoordinatorCommand, Submit(C)
    PROVE  AcceptsSome
<1>1. PICK key \in Keys, c \in C :
        /\ NewlyAccepted(coord, NextEnvelope(coord, key, c))
        /\ coord' = Accept(coord, NextEnvelope(coord, key, c))
        /\ retired' = retired \cup (WritersOf(coord) \ WritersOf(coord'))
  BY DEF Submit
<1>2. /\ coord.version \in 1 .. MaxVersion
      /\ coord.last_sequence \in Nat
      /\ coord.version = coord.last_sequence + 1
  BY BoundAssumption DEF IInv, SoundAt, Restorable, ProfileCoordinatorState
<1>3. NextEnvelope(coord, key, c) \in CoordinatorCommandEnvelope
  BY <1>2 DEF NextEnvelope, CoordinatorCommandEnvelope
<1> QED BY <1>1, <1>3 DEF AcceptsSome

\* Every step of Next is one accepted call of `apply`.
LEMMA NextAccepts ==
    ASSUME IInv, Next
    PROVE  AcceptsSome
<1>1. /\ OfType(LaunchCommand, "IssueLaunchIntent") \in SUBSET CoordinatorCommand
      /\ OfType(LaunchCommand, "RecoverAndIssueLaunchIntent")
            \in SUBSET CoordinatorCommand
      /\ ClaimCommand \in SUBSET CoordinatorCommand
      /\ OfType(HeartbeatCommand, "Heartbeat") \in SUBSET CoordinatorCommand
      /\ OfType(HeartbeatCommand, "RenewLease") \in SUBSET CoordinatorCommand
      /\ ReleaseCommand \in SUBSET CoordinatorCommand
      /\ OfType(PlainCommand, "BeginDrain") \in SUBSET CoordinatorCommand
      /\ OfType(PlainCommand, "Tick") \in SUBSET CoordinatorCommand
      /\ OfType(PlainCommand, "MarkRecovered") \in SUBSET CoordinatorCommand
  BY DEF OfType, CoordinatorCommand
<1> QED
  BY <1>1, SubmitAccepts
     DEF Next, IssueLaunchIntent, RecoverAndIssueLaunchIntent, Claim, Heartbeat,
         RenewLease, Release, BeginDrain, Tick, MarkRecovered

\* A new coordinator is sound.
LEMMA NewCoordinatorSound ==
    SoundAt(NewCoordinator, NewCoordinator.last_observed_at)
<1>1. NewCoordinator \in ProfileCoordinatorState
  BY BoundAssumption DEF NewCoordinator, ProfileCoordinatorState, Status, Time
<1>2. /\ OptionsOf(NewCoordinator) /\ Restorable(NewCoordinator)
      /\ DeadlinesAt(NewCoordinator, NewCoordinator.last_observed_at)
  BY DEF NewCoordinator, OptionsOf, IsOption, Restorable, DeadlinesAt
<1> QED BY <1>1, <1>2 DEF SoundAt

\* A new coordinator satisfies the inductive invariant.
LEMMA InitIInv == Init => IInv
<1> SUFFICES ASSUME Init PROVE IInv
  OBVIOUS
<1>1. coord = NewCoordinator /\ retired = {}
  BY DEF Init
<1>2. NewCoordinator \in ProfileCoordinatorState
  BY NewCoordinatorSound DEF SoundAt
<1>3. SoundAt(NewCoordinator, NewCoordinator.last_observed_at)
  BY NewCoordinatorSound
<1>4. Len(NewCoordinator.receipts) = 0 /\ NewCoordinator.last_sequence = 0
  BY DEF NewCoordinator
<1>5. WindowOf(NewCoordinator)
  BY <1>4, BoundAssumption DEF WindowOf, Least
<1> QED
  BY <1>1, <1>2, <1>3, <1>4, <1>5, BoundAssumption
     DEF IInv, SoundAt, EpochsRetired

\* One accepted call of `apply` keeps the inductive invariant.
LEMMA AcceptIInv ==
    ASSUME IInv, NEW e \in CoordinatorCommandEnvelope,
           NewlyAccepted(coord, e), coord' = Accept(coord, e),
           retired' = retired \cup (WritersOf(coord) \ WritersOf(coord'))
    PROVE  IInv'
<1> DEFINE c == e.command
           m == CommandEffect(coord, c)
<1>1. /\ SoundAt(coord, coord.last_observed_at)
      /\ Len(coord.receipts) <= ReceiptLimit
      /\ WindowOf(coord)
      /\ retired \subseteq Writer
      /\ EpochsRetired
  BY DEF IInv
<1>2. /\ SoundAt(coord', coord'.last_observed_at)
      /\ Len(coord'.receipts) <= ReceiptLimit
      /\ WindowOf(coord')
  BY <1>1, AcceptSound
<1>3. /\ c \in CoordinatorCommand
      /\ c.now \in Time
      /\ c.now >= coord.last_observed_at
      /\ CommandAccepted(coord, c)
  BY CommandKinds DEF NewlyAccepted, InOrder, CoordinatorCommandEnvelope
<1>4. Turnover(coord, m)
  BY <1>1, <1>3, CommandTurnover
<1>5. m \in ProfileCoordinatorState
  BY <1>1, <1>3, CommandSound DEF SoundAt
<1>6. coord'.next_epoch = m.next_epoch /\ coord'.active_lease = m.active_lease
  BY <1>5 DEF Accept, ProfileCoordinatorState
<1>7. WritersOf(coord') = WritersOf(m)
  BY <1>6 DEF WritersOf
<1> HIDE DEF m, c
<1>8. Turnover(coord, coord')
  BY <1>4, <1>6, <1>7 DEF Turnover
<1>9. /\ coord.next_epoch \in Nat
      /\ WritersOf(coord) \subseteq Writer
      /\ \A v \in WritersOf(coord) : v.epoch \in Nat /\ v.epoch <= coord.next_epoch
      /\ IsOption(WritersOf(coord))
  <2>1. \A l \in coord.active_lease :
            l \in CoordinatorLease /\ l.epoch <= coord.next_epoch
    BY <1>1 DEF SoundAt, Restorable, ProfileCoordinatorState
  <2>2. \A l \in coord.active_lease :
            WriterOf(l) \in Writer /\ WriterOf(l).epoch = l.epoch
    BY <2>1 DEF WriterOf, Writer, CoordinatorLease
  <2>3. \A v \in Writer : v.epoch \in Nat
    BY BoundAssumption DEF Writer
  <2>4. \A v \in WritersOf(coord) : v \in Writer /\ v.epoch <= coord.next_epoch
    BY <2>1, <2>2 DEF WritersOf
  <2>5. coord.next_epoch \in Nat
    BY <1>1, BoundAssumption DEF SoundAt, ProfileCoordinatorState
  <2>6. IsOption(WritersOf(coord))
    BY <1>1 DEF SoundAt, OptionsOf, IsOption, WritersOf
  <2> QED BY <2>3, <2>4, <2>5, <2>6
<1>10. retired' \subseteq Writer
  BY <1>1, <1>9
<1>11. \A w \in retired : w.epoch \in Nat
  BY <1>1, BoundAssumption DEF Writer
<1>12. EpochsRetired'
  <2>1. CASE /\ coord'.next_epoch = coord.next_epoch
             /\ WritersOf(coord') = WritersOf(coord)
    BY <1>1, <2>1 DEF EpochsRetired
  <2>2. CASE coord'.next_epoch = coord.next_epoch /\ WritersOf(coord') = {}
    BY <1>1, <1>9, <2>2 DEF EpochsRetired
  <2>3. CASE /\ coord'.next_epoch = coord.next_epoch + 1
             /\ WritersOf(coord) = {}
             /\ \A v \in WritersOf(coord') : v.epoch = coord.next_epoch + 1
    <3>1. retired' = retired
      BY <2>3
    <3>2. \A w \in retired : w.epoch <= coord.next_epoch
      BY <1>1 DEF EpochsRetired
    <3> QED BY <1>9, <1>11, <2>3, <3>1, <3>2 DEF EpochsRetired
  <2> QED BY <1>8, <2>1, <2>2, <2>3 DEF Turnover
<1> QED BY <1>2, <1>10, <1>12 DEF IInv

\* Every step keeps the inductive invariant.
LEMMA NextIInv == IInv /\ [Next]_vars => IInv'
<1> SUFFICES ASSUME IInv, [Next]_vars PROVE IInv'
  OBVIOUS
<1>1. CASE Next
  BY <1>1, NextAccepts, AcceptIInv DEF AcceptsSome
<1>2. CASE UNCHANGED vars
  BY <1>2 DEF vars, IInv, SoundAt, OptionsOf, Restorable, DeadlinesAt, WindowOf,
              EpochsRetired, WritersOf
<1> QED BY <1>1, <1>2

\* The inductive invariant holds in every behaviour of the coordinator.
THEOREM Inductive == Spec => []IInv
BY InitIInv, NextIInv, PTL DEF Spec

\* Every field of the coordinator keeps its type, with at most one intent, one
\* lease and one drain deadline, and the receipt window keeps its limit.
THEOREM TypeCorrect == Spec => []TypeOK
<1>1. IInv => TypeOK
  BY DEF IInv, SoundAt, OptionsOf, TypeOK
<1> QED BY <1>1, Inductive, PTL

\* Every checkpoint that compaction can take passes restore_checkpoint.
THEOREM CheckpointsRestorable == Spec => []CheckpointRestorable
<1>1. IInv => CheckpointRestorable
  <2> SUFFICES ASSUME IInv PROVE Restorable(Checkpoint(coord))
    BY DEF CheckpointRestorable
  <2>1. coord \in ProfileCoordinatorState /\ Restorable(coord)
    BY DEF IInv, SoundAt
  <2> QED BY <2>1 DEF Checkpoint, Restorable, ProfileCoordinatorState
<1> QED BY <1>1, Inductive, PTL

\* The writer credentials of an ended lease are never valid again.
THEOREM WritersFenced == Spec => []RetiredWritersFenced
<1>1. IInv => RetiredWritersFenced
  <2> SUFFICES ASSUME IInv, NEW w \in WritersOf(coord), w \in retired PROVE FALSE
    BY DEF RetiredWritersFenced
  <2>1. w.epoch < w.epoch /\ w.epoch \in Nat
    BY BoundAssumption DEF IInv, EpochsRetired, Writer
  <2> QED BY <2>1
<1> QED BY <1>1, Inductive, PTL

\* No lease outlives its last heartbeat by more than the timeouts.
THEOREM DeadlinesBounded == Spec => []LeaseDeadlinesBounded
<1>1. IInv => LeaseDeadlinesBounded
  BY DEF IInv, SoundAt, DeadlinesAt, LeaseDeadlinesBounded
<1> QED BY <1>1, Inductive, PTL

\* The idempotency window is exactly the last ReceiptLimit commands.
THEOREM WindowExact == Spec => []ReceiptWindow
<1>1. IInv => ReceiptWindow
  BY DEF IInv, WindowOf, ReceiptWindow
<1> QED BY <1>1, Inductive, PTL

-----------------------------------------------------------------------------
(* Action properties.                                                      *)

\* Accept keeps the status, lease and drain deadline of the command's effect.
LEMMA AcceptKeeps ==
    ASSUME IInv, NEW e \in CoordinatorCommandEnvelope,
           NewlyAccepted(coord, e), coord' = Accept(coord, e)
    PROVE  /\ e.command \in CoordinatorCommand
           /\ CommandAccepted(coord, e.command)
           /\ coord'.last_observed_at = e.command.now
           /\ coord'.status = CommandEffect(coord, e.command).status
           /\ coord'.active_lease = CommandEffect(coord, e.command).active_lease
           /\ coord'.drain_deadline
                = CommandEffect(coord, e.command).drain_deadline
<1>1. /\ e.command \in CoordinatorCommand
      /\ e.command.now \in Time
      /\ e.command.now >= coord.last_observed_at
      /\ CommandAccepted(coord, e.command)
  BY CommandKinds DEF NewlyAccepted, InOrder, CoordinatorCommandEnvelope
<1>2. CommandEffect(coord, e.command) \in ProfileCoordinatorState
  BY <1>1, CommandSound DEF SoundAt, IInv
<1> QED BY <1>1, <1>2 DEF Accept, ProfileCoordinatorState

\* A command that finds the lease expired ends it: the writer commands and
\* Tick because of their timeout preflight, the others because they are
\* refused while there is a lease.
LEMMA DueCommandEnds ==
    ASSUME NEW s, SoundAt(s, s.last_observed_at), NEW c \in CoordinatorCommand,
           CommandAccepted(s, c), TimeoutDue(s, c.now)
    PROVE  CommandEffect(s, c) = TimedOut(s)
<1>1. s.active_lease # {}
  BY DEF TimeoutDue
<1>2. CASE c.type \in {"IssueLaunchIntent", "RecoverAndIssueLaunchIntent",
                       "Claim", "MarkRecovered"}
  BY <1>1, <1>2 DEF CommandAccepted, IssueLaunchIntentAccepted,
                    RecoverAndIssueAccepted, ClaimAccepted, MarkRecoveredAccepted
<1>3. CASE c.type \in {"Heartbeat", "RenewLease"}
  BY <1>3 DEF CommandEffect, HeartbeatEffect, UnlessTimedOut
<1>4. CASE c.type = "Release"
  BY <1>4 DEF CommandEffect, ReleaseEffect, UnlessTimedOut
<1>5. CASE c.type = "BeginDrain"
  BY <1>5 DEF CommandEffect, BeginDrainEffect, UnlessTimedOut
<1>6. CASE c.type = "Tick"
  <2>1. ~IntentExpired(s, c.now)
    BY <1>1 DEF IntentExpired, SoundAt, Restorable
  <2> QED BY <1>6, <2>1 DEF CommandEffect, TickEffect, UnlessTimedOut
<1> QED BY <1>2, <1>3, <1>4, <1>5, <1>6, CommandKinds

\* Whatever command is the first to observe an expired lease, a late Clean
\* release included, it leaves no writer and an Uncertain profile.
THEOREM ExpiredLeasesEnd == Spec => ExpiredLeaseEndsUncertain
<1>1. IInv /\ [Next]_vars => [DueLeaseEnds]_vars
  <2> SUFFICES ASSUME IInv, Next, NEW l \in coord.active_lease,
                      \/ coord'.last_observed_at >= l.idle_expires_at
                      \/ coord'.last_observed_at >= l.hard_expires_at
                      \/ \E d \in coord.drain_deadline :
                            coord'.last_observed_at >= d
               PROVE  coord'.active_lease = {} /\ coord'.status = "Uncertain"
    BY DEF DueLeaseEnds
  <2>1. PICK e \in CoordinatorCommandEnvelope :
            NewlyAccepted(coord, e) /\ coord' = Accept(coord, e)
    BY NextAccepts DEF AcceptsSome
  <2>2. TimeoutDue(coord, e.command.now)
    BY <2>1, AcceptKeeps DEF TimeoutDue, DrainDue, HardDue, IdleDue, IInv,
                             SoundAt, Restorable
  <2>3. CommandEffect(coord, e.command) = TimedOut(coord)
    BY <2>1, <2>2, AcceptKeeps, DueCommandEnds DEF IInv
  <2>4. coord \in ProfileCoordinatorState
    BY DEF IInv, SoundAt
  <2> QED BY <2>1, <2>3, <2>4, AcceptKeeps DEF TimedOut, ProfileCoordinatorState
<1> QED BY <1>1, Inductive, PTL DEF Spec, ExpiredLeaseEndsUncertain

\* A drain ends only with the lease: no command moves its deadline, returns
\* the profile to Active or hands the lease to another writer.
THEOREM DrainsFinal == Spec => DrainIsFinal
<1>1. IInv /\ [Next]_vars => [DrainKept]_vars
  <2> SUFFICES ASSUME IInv, Next, coord.status = "Draining",
                      coord'.active_lease # {}
               PROVE  /\ coord'.status = "Draining"
                      /\ coord'.drain_deadline = coord.drain_deadline
                      /\ WritersOf(coord') = WritersOf(coord)
    BY DEF DrainKept
  <2>1. PICK e \in CoordinatorCommandEnvelope :
            NewlyAccepted(coord, e) /\ coord' = Accept(coord, e)
    BY NextAccepts DEF AcceptsSome
  <2> DEFINE c == e.command
             m == CommandEffect(coord, c)
  <2>2. /\ c \in CoordinatorCommand
        /\ CommandAccepted(coord, c)
        /\ coord'.status = m.status
        /\ coord'.active_lease = m.active_lease
        /\ coord'.drain_deadline = m.drain_deadline
    BY <2>1, AcceptKeeps
  <2>3. coord \in ProfileCoordinatorState /\ SoundAt(coord, coord.last_observed_at)
    BY DEF IInv, SoundAt
  <2>4. TimedOut(coord).active_lease = {}
    BY <2>3 DEF TimedOut, ProfileCoordinatorState
  <2>5. ~TimeoutDue(coord, c.now)
    BY <2>2, <2>3, <2>4, DueCommandEnds
  <2>6. CASE c.type \in {"IssueLaunchIntent", "RecoverAndIssueLaunchIntent",
                         "Claim", "BeginDrain", "MarkRecovered"}
    BY <2>2, <2>6 DEF CommandAccepted, IssueLaunchIntentAccepted,
       RecoverAndIssueAccepted, ClaimAccepted, BeginDrainAccepted,
       MarkRecoveredAccepted
  <2>7. CASE c.type \in {"Heartbeat", "RenewLease"}
    <3>1. m = [coord EXCEPT !.active_lease =
                  {RefreshedLease(l, c) : l \in coord.active_lease}]
      BY <2>5, <2>7 DEF CommandEffect, HeartbeatEffect, UnlessTimedOut
    <3>2. /\ m.status = coord.status
          /\ m.drain_deadline = coord.drain_deadline
          /\ m.active_lease = {RefreshedLease(l, c) : l \in coord.active_lease}
      BY <2>3, <3>1 DEF ProfileCoordinatorState
    <3>3. \A l \in coord.active_lease :
              WriterOf(RefreshedLease(l, c)) = WriterOf(l)
      BY <2>3, RefreshedWriter DEF ProfileCoordinatorState
    <3> HIDE DEF m
    <3> QED BY <2>2, <3>2, <3>3 DEF WritersOf
  <2>8. CASE c.type = "Release"
    <3>1. m.active_lease = {}
      BY <2>3, <2>5, <2>8 DEF CommandEffect, ReleaseEffect, UnlessTimedOut,
                              ProfileCoordinatorState
    <3> QED BY <2>2, <3>1
  <2>9. CASE c.type = "Tick"
    <3>1. /\ m.status = coord.status
          /\ m.drain_deadline = coord.drain_deadline
          /\ m.active_lease = coord.active_lease
      BY <2>3, <2>5, <2>9 DEF CommandEffect, TickEffect, UnlessTimedOut,
                              ProfileCoordinatorState
    <3> QED BY <2>2, <3>1 DEF WritersOf
  <2> QED BY <2>2, <2>6, <2>7, <2>8, <2>9, CommandKinds
<1> QED BY <1>1, Inductive, PTL DEF Spec, DrainIsFinal

-----------------------------------------------------------------------------
(* The document: what replay computes.  StateAfter is a recursive function; *)
(* an induction over the journal is the choice of a least counterexample.   *)

\* The states of a replay, one for each entry of the journal.
IsRun(d, n, run) ==
    run = [i \in 0 .. n |-> IF i = 0 THEN RestoreBase(d)
                            ELSE Apply(run[i - 1], d.journal[i])]

\* A set of numbers that is not empty has a least one.
LEMMA LeastNumber ==
    ASSUME NEW T, T \subseteq Nat, T # {}
    PROVE  \E t \in T : \A u \in T : t <= u
<1>1. PICK t \in T : \A u \in T : ~(<<u, t>> \in OpToRel(<, Nat))
  BY NatLessThanWellFounded, WFMin
<1>2. \A u \in T : ~(u < t)
  BY <1>1 DEF OpToRel
<1> QED BY <1>2

\* A set of numbers up to n that is not empty has a greatest one.
LEMMA MaxOfIndices ==
    ASSUME NEW n \in Nat, NEW S, S \subseteq 1 .. n, S # {}
    PROVE  Max(S) \in S /\ \A i \in S : i <= Max(S)
<1> DEFINE T == {n - i : i \in S}
<1>1. T \subseteq Nat /\ T # {}
  <2>1. \A i \in S : n - i \in Nat
    OBVIOUS
  <2> QED BY <2>1
<1>2. PICK t \in T : \A u \in T : t <= u
  <2> HIDE DEF T
  <2> QED BY <1>1, LeastNumber
<1>3. PICK m \in S : t = n - m
  BY <1>2
<1>4. \A i \in S : m >= i
  <2> TAKE i \in S
  <2>1. n - m <= n - i
    BY <1>2, <1>3
  <2>2. m \in 1 .. n /\ i \in 1 .. n
    BY <1>3
  <2> QED BY <2>1, <2>2
<1> QED BY <1>4 DEF Max

\* Every document has a run.
LEMMA RunExists ==
    ASSUME NEW d
    PROVE  \A n \in Nat : \E run : IsRun(d, n, run)
<1> DEFINE T == {n \in Nat : ~ \E run : IsRun(d, n, run)}
<1>1. SUFFICES ASSUME T # {} PROVE FALSE
  OBVIOUS
<1>2. PICK n \in T : \A u \in T : n <= u
  <2> T \subseteq Nat
    OBVIOUS
  <2> HIDE DEF T
  <2> QED BY <1>1, LeastNumber
<1>3. CASE n = 0
  <2>1. IsRun(d, 0, [i \in 0 .. 0 |-> RestoreBase(d)])
    BY DEF IsRun
  <2> QED BY <1>3, <2>1
<1>4. CASE n # 0
  <2>1. n - 1 \in Nat /\ n - 1 \notin T
    BY <1>2, <1>4
  <2>2. PICK run : IsRun(d, n - 1, run)
    BY <2>1
  <2> DEFINE next == [i \in 0 .. n |-> IF i = n THEN Apply(run[n - 1], d.journal[n])
                                       ELSE run[i]]
  <2>3. \A i \in 0 .. n - 1 : next[i] = run[i]
    BY <1>4
  <2>4. \A i \in 0 .. n - 1 : run[i] = IF i = 0 THEN RestoreBase(d)
                                       ELSE Apply(run[i - 1], d.journal[i])
    BY <2>2 DEF IsRun
  <2>5. ASSUME NEW i \in 0 .. n
        PROVE  next[i] = IF i = 0 THEN RestoreBase(d)
                         ELSE Apply(next[i - 1], d.journal[i])
    <3>1. CASE i = n
      BY <1>4, <2>3, <3>1
    <3>2. CASE i # n
      <4>1. i \in 0 .. n - 1 /\ (i # 0 => i - 1 \in 0 .. n - 1)
        BY <3>2
      <4> HIDE DEF next
      <4> QED BY <2>3, <2>4, <4>1
    <3> QED BY <3>1, <3>2
  <2>6. IsRun(d, n, next)
    BY <2>5 DEF IsRun
  <2> QED BY <2>6
<1> QED BY <1>3, <1>4

\* Two runs of a document agree where both are defined.
LEMMA RunsAgree ==
    ASSUME NEW d, NEW n \in Nat, NEW m \in Nat, n <= m,
           NEW run, IsRun(d, n, run), NEW other, IsRun(d, m, other)
    PROVE  \A i \in 0 .. n : run[i] = other[i]
<1> DEFINE T == {i \in 0 .. n : run[i] # other[i]}
<1>1. SUFFICES ASSUME T # {} PROVE FALSE
  OBVIOUS
<1>2. PICK i \in T : \A u \in T : i <= u
  <2> T \subseteq Nat
    OBVIOUS
  <2> HIDE DEF T
  <2> QED BY <1>1, LeastNumber
<1>3. /\ run[i] = IF i = 0 THEN RestoreBase(d) ELSE Apply(run[i - 1], d.journal[i])
      /\ other[i] = IF i = 0 THEN RestoreBase(d)
                    ELSE Apply(other[i - 1], d.journal[i])
  BY <1>2 DEF IsRun
<1>4. i # 0 => run[i - 1] = other[i - 1]
  BY <1>2
<1> QED BY <1>2, <1>3, <1>4

\* The loop of `replay`, entry by entry.
LEMMA ReplayLaw ==
    ASSUME NEW d, NEW n \in Nat
    PROVE  StateAfter(d, n) = IF n = 0 THEN RestoreBase(d)
                              ELSE Apply(StateAfter(d, n - 1), d.journal[n])
<1> DEFINE run(k) == CHOOSE run : IsRun(d, k, run)
<1>1. \A k \in Nat : StateAfter(d, k) = run(k)[k]
  BY DEF StateAfter, IsRun
<1>2. \A k \in Nat : IsRun(d, k, run(k))
  BY RunExists
<1> HIDE DEF run
<1>3. run(n)[n] = IF n = 0 THEN RestoreBase(d)
                  ELSE Apply(run(n)[n - 1], d.journal[n])
  <2>1. IsRun(d, n, run(n))
    BY <1>2
  <2> QED BY <2>1 DEF IsRun
<1>4. ASSUME n # 0 PROVE run(n)[n - 1] = run(n - 1)[n - 1]
  BY <1>2, <1>4, RunsAgree
<1> QED BY <1>1, <1>3, <1>4

\* Replay reads a journal from its start.
LEMMA ReplayOfPrefix ==
    ASSUME NEW d, NEW p, NEW n \in Nat, RestoreBase(d) = RestoreBase(p),
           \A i \in 1 .. n : d.journal[i] = p.journal[i]
    PROVE  \A i \in 0 .. n : StateAfter(d, i) = StateAfter(p, i)
<1> DEFINE T == {i \in 0 .. n : StateAfter(d, i) # StateAfter(p, i)}
<1>1. SUFFICES ASSUME T # {} PROVE FALSE
  OBVIOUS
<1>2. PICK i \in T : \A u \in T : i <= u
  <2> T \subseteq Nat
    OBVIOUS
  <2> HIDE DEF T
  <2> QED BY <1>1, LeastNumber
<1>3. i \in Nat /\ (i # 0 => i - 1 \in 0 .. n /\ i - 1 \notin T)
  BY <1>2
<1>4. /\ StateAfter(d, i) = IF i = 0 THEN RestoreBase(d)
                            ELSE Apply(StateAfter(d, i - 1), d.journal[i])
      /\ StateAfter(p, i) = IF i = 0 THEN RestoreBase(p)
                            ELSE Apply(StateAfter(p, i - 1), p.journal[i])
  BY <1>3, ReplayLaw
<1> QED BY <1>2, <1>3, <1>4

-----------------------------------------------------------------------------
(* The receipts are the only part of the state that compaction drops, and   *)
(* nothing but the test for a known key reads them.                         *)

\* s with the receipts q.
WithReceipts(s, q) == [s EXCEPT !.receipts = q]

\* A command treats two states alike that differ in their receipts.
LEMMA ReceiptsUnread ==
    ASSUME NEW s \in ProfileCoordinatorState, NEW q, NEW c \in CoordinatorCommand
    PROVE  /\ CommandAccepted(WithReceipts(s, q), c) <=> CommandAccepted(s, c)
           /\ CommandOutcome(WithReceipts(s, q), c) = CommandOutcome(s, c)
           /\ CommandEffect(WithReceipts(s, q), c)
                = WithReceipts(CommandEffect(s, c), q)
<1> DEFINE t == WithReceipts(s, q)
<1>1. /\ t.version = s.version /\ t.last_sequence = s.last_sequence
      /\ t.last_observed_at = s.last_observed_at /\ t.next_epoch = s.next_epoch
      /\ t.status = s.status /\ t.pending_intent = s.pending_intent
      /\ t.recovery_claim_pending = s.recovery_claim_pending
      /\ t.active_lease = s.active_lease /\ t.drain_deadline = s.drain_deadline
      /\ t.receipts = q
  BY DEF WithReceipts, ProfileCoordinatorState
<1>2. t = WithReceipts(s, q)
  OBVIOUS
<1> HIDE DEF t
<1>3. \A now : /\ DrainDue(t, now) <=> DrainDue(s, now)
               /\ HardDue(t, now) <=> HardDue(s, now)
               /\ IdleDue(t, now) <=> IdleDue(s, now)
               /\ IntentExpired(t, now) <=> IntentExpired(s, now)
               /\ NoLiveIntent(t, now) <=> NoLiveIntent(s, now)
  BY <1>1 DEF DrainDue, HardDue, IdleDue, IntentExpired, NoLiveIntent
<1>4. \A now : /\ TimeoutDue(t, now) <=> TimeoutDue(s, now)
               /\ TimeoutOutcome(t, now) = TimeoutOutcome(s, now)
  BY <1>1, <1>3 DEF TimeoutDue, TimeoutOutcome
<1>5. CommandAccepted(t, c) <=> CommandAccepted(s, c)
  BY <1>1, <1>3, <1>4, CommandKinds
     DEF CommandAccepted, IssueLaunchIntentAccepted, RecoverAndIssueAccepted,
         ClaimAccepted, HeartbeatAccepted, ReleaseAccepted, BeginDrainAccepted,
         MarkRecoveredAccepted
<1>6. CommandOutcome(t, c) = CommandOutcome(s, c)
  BY <1>3, <1>4, CommandKinds DEF CommandOutcome
<1>7. TimedOut(t) = WithReceipts(TimedOut(s), q)
  BY <1>2 DEF TimedOut, WithReceipts, ProfileCoordinatorState
<1>8. CommandEffect(t, c) = WithReceipts(CommandEffect(s, c), q)
  <2>1. CASE c.type = "IssueLaunchIntent"
    BY <1>2, <2>1 DEF CommandEffect, IssueLaunchIntentEffect, WithReceipts,
                      ProfileCoordinatorState
  <2>2. CASE c.type = "RecoverAndIssueLaunchIntent"
    BY <1>2, <2>2 DEF CommandEffect, RecoverAndIssueEffect, WithReceipts,
                      ProfileCoordinatorState
  <2>3. CASE c.type = "Claim"
    BY <1>1, <1>2, <2>3 DEF CommandEffect, ClaimEffect, WithReceipts,
                            ProfileCoordinatorState
  <2>4. CASE c.type \in {"Heartbeat", "RenewLease"}
    <3>1. /\ CommandEffect(t, c) = HeartbeatEffect(t, c)
          /\ CommandEffect(s, c) = HeartbeatEffect(s, c)
      BY <2>4 DEF CommandEffect
    <3>2. CASE TimeoutDue(s, c.now)
      BY <1>4, <1>7, <3>1, <3>2 DEF HeartbeatEffect, UnlessTimedOut
    <3>3. CASE ~TimeoutDue(s, c.now)
      <4> DEFINE kept == {RefreshedLease(l, c) : l \in s.active_lease}
      <4>1. /\ HeartbeatEffect(t, c) = [t EXCEPT !.active_lease = kept]
            /\ HeartbeatEffect(s, c) = [s EXCEPT !.active_lease = kept]
        BY <1>1, <1>4, <3>3 DEF HeartbeatEffect, UnlessTimedOut
      <4> HIDE DEF kept
      <4>2. [t EXCEPT !.active_lease = kept]
              = WithReceipts([s EXCEPT !.active_lease = kept], q)
        BY <1>2 DEF WithReceipts, ProfileCoordinatorState
      <4> QED BY <3>1, <4>1, <4>2
    <3> QED BY <3>2, <3>3
  <2>5. CASE c.type = "Release"
    <3>1. /\ CommandEffect(t, c) = ReleaseEffect(t, c)
          /\ CommandEffect(s, c) = ReleaseEffect(s, c)
      BY <2>5 DEF CommandEffect
    <3>2. CASE TimeoutDue(s, c.now)
      BY <1>4, <1>7, <3>1, <3>2 DEF ReleaseEffect, UnlessTimedOut
    <3>3. CASE ~TimeoutDue(s, c.now)
      BY <1>2, <1>4, <3>1, <3>3
         DEF ReleaseEffect, UnlessTimedOut, WithReceipts, ProfileCoordinatorState
    <3> QED BY <3>2, <3>3
  <2>6. CASE c.type = "BeginDrain"
    <3>1. /\ CommandEffect(t, c) = BeginDrainEffect(t, c)
          /\ CommandEffect(s, c) = BeginDrainEffect(s, c)
      BY <2>6 DEF CommandEffect
    <3>2. CASE TimeoutDue(s, c.now)
      BY <1>4, <1>7, <3>1, <3>2 DEF BeginDrainEffect, UnlessTimedOut
    <3>3. CASE ~TimeoutDue(s, c.now)
      <4> DEFINE by == {Least(c.now + DrainTimeoutMs, l.hard_expires_at)
                           : l \in s.active_lease}
      <4>1. /\ BeginDrainEffect(t, c) = [t EXCEPT !.status = "Draining",
                                                  !.drain_deadline = by]
            /\ BeginDrainEffect(s, c) = [s EXCEPT !.status = "Draining",
                                                  !.drain_deadline = by]
        BY <1>1, <1>4, <3>3 DEF BeginDrainEffect, UnlessTimedOut
      <4> HIDE DEF by
      <4>2. [t EXCEPT !.status = "Draining", !.drain_deadline = by]
              = WithReceipts([s EXCEPT !.status = "Draining",
                                       !.drain_deadline = by], q)
        BY <1>2 DEF WithReceipts, ProfileCoordinatorState
      <4> QED BY <3>1, <4>1, <4>2
    <3> QED BY <3>2, <3>3
  <2>7. CASE c.type = "Tick"
    <3>1. /\ CommandEffect(t, c) = TickEffect(t, c)
          /\ CommandEffect(s, c) = TickEffect(s, c)
      BY <2>7 DEF CommandEffect
    <3>2. CASE IntentExpired(s, c.now)
      BY <1>2, <1>3, <3>1, <3>2 DEF TickEffect, WithReceipts,
                                    ProfileCoordinatorState
    <3>3. CASE ~IntentExpired(s, c.now)
      BY <1>2, <1>3, <1>4, <1>7, <3>1, <3>3 DEF TickEffect, UnlessTimedOut
    <3> QED BY <3>2, <3>3
  <2>8. CASE c.type = "MarkRecovered"
    BY <1>2, <2>8 DEF CommandEffect, MarkRecoveredEffect, WithReceipts,
                      ProfileCoordinatorState
  <2> QED
    BY <2>1, <2>2, <2>3, <2>4, <2>5, <2>6, <2>7, <2>8, CommandKinds
<1> QED BY <1>2, <1>5, <1>6, <1>8

-----------------------------------------------------------------------------
(* Compaction.                                                             *)

\* q holds the newest receipts of p.
Newest(q, p) ==
    /\ Len(q) <= Len(p)
    /\ \A j \in 1 .. Len(q) : q[j] = p[Len(p) - Len(q) + j]

\* t is s as it comes back from a checkpoint and i retained entries.
Alike(t, s, i) ==
    /\ t = WithReceipts(s, t.receipts)
    /\ t.receipts \in Seq(CommandReceipt)
    /\ Len(t.receipts) = Least(i, ReceiptLimit)
    /\ Newest(t.receipts, s.receipts)

\* A state that replay can produce.
Replayable(s) ==
    SoundAt(s, s.last_observed_at) /\ Len(s.receipts) <= ReceiptLimit

\* Remembering one more keeps the newest.
LEMMA RememberNewest ==
    ASSUME NEW q \in Seq(CommandReceipt), NEW p \in Seq(CommandReceipt),
           Newest(q, p), Len(p) <= ReceiptLimit, NEW r \in CommandReceipt,
           NEW i \in Nat, Len(q) = Least(i, ReceiptLimit)
    PROVE  /\ Newest(Remember(q, r), Remember(p, r))
           /\ Len(Remember(q, r)) = Least(i + 1, ReceiptLimit)
<1> DEFINE a == Remember(q, r)
           b == Remember(p, r)
<1>1. Len(q) \in Nat /\ Len(p) \in Nat /\ Len(q) <= Len(p)
  BY DEF Newest
<1>2. /\ a \in Seq(CommandReceipt)
      /\ Len(a) = IF Len(q) < ReceiptLimit THEN Len(q) + 1 ELSE Len(q)
      /\ a[Len(a)] = r
      /\ \A j \in 1 .. (Len(a) - 1) :
            a[j] = IF Len(q) < ReceiptLimit THEN q[j] ELSE q[j + 1]
  <2>1. Len(q) <= ReceiptLimit
    BY BoundAssumption DEF Least
  <2> QED BY <2>1, RememberSeq
<1>3. /\ b \in Seq(CommandReceipt)
      /\ Len(b) = IF Len(p) < ReceiptLimit THEN Len(p) + 1 ELSE Len(p)
      /\ b[Len(b)] = r
      /\ \A j \in 1 .. (Len(b) - 1) :
            b[j] = IF Len(p) < ReceiptLimit THEN p[j] ELSE p[j + 1]
  BY RememberSeq
<1> HIDE DEF a, b
<1>4. Len(a) \in Nat \ {0} /\ Len(b) \in Nat \ {0} /\ Len(a) <= Len(b)
  BY <1>1, <1>2, <1>3, BoundAssumption
<1>5. Len(a) = Least(i + 1, ReceiptLimit)
  BY <1>2, BoundAssumption DEF Least
<1>6. ASSUME NEW j \in 1 .. Len(a)
      PROVE  a[j] = b[Len(b) - Len(a) + j]
  <2>1. CASE j = Len(a)
    BY <1>2, <1>3, <1>4, <2>1
  <2>2. CASE j # Len(a)
    <3> DEFINE k == Len(b) - Len(a) + j
    <3>1. j \in 1 .. (Len(a) - 1) /\ k \in 1 .. (Len(b) - 1)
      BY <1>4, <2>2
    <3>2. CASE Len(q) < ReceiptLimit /\ Len(p) < ReceiptLimit
      <4>1. a[j] = q[j] /\ b[k] = p[k] /\ k = Len(p) - Len(q) + j /\ j \in 1 .. Len(q)
        BY <1>1, <1>2, <1>3, <3>1, <3>2
      <4> QED BY <4>1 DEF Newest
    <3>3. CASE Len(q) < ReceiptLimit /\ ~(Len(p) < ReceiptLimit)
      <4>1. Len(a) = Len(q) + 1 /\ Len(b) = Len(p)
        BY <1>2, <1>3, <3>3
      <4>2. a[j] = q[j] /\ b[k] = p[k + 1]
        BY <1>2, <1>3, <3>1, <3>3
      <4>3. k + 1 = Len(p) - Len(q) + j /\ j \in 1 .. Len(q)
        BY <1>1, <3>1, <4>1
      <4>4. q[j] = p[Len(p) - Len(q) + j]
        BY <4>3 DEF Newest
      <4> QED BY <4>2, <4>3, <4>4
    <3>4. CASE ~(Len(q) < ReceiptLimit)
      <4>1. ~(Len(p) < ReceiptLimit) /\ Len(p) = Len(q)
        BY <1>1, <3>4, BoundAssumption
      <4>2. /\ a[j] = q[j + 1] /\ b[k] = p[k + 1] /\ k = j
            /\ j + 1 \in 1 .. Len(q)
        BY <1>1, <1>2, <1>3, <3>1, <3>4, <4>1
      <4>3. q[j + 1] = p[j + 1]
        BY <1>1, <4>1, <4>2 DEF Newest
      <4> QED BY <4>2, <4>3
    <3> QED BY <1>1, <3>2, <3>3, <3>4, BoundAssumption
  <2> QED BY <2>1, <2>2
<1> QED BY <1>4, <1>5, <1>6 DEF Newest, a, b

\* What was accepted stays accepted from a checkpoint, and to the same effect.
LEMMA AcceptAlike ==
    ASSUME NEW s, Replayable(s), NEW e \in CoordinatorCommandEnvelope,
           NewlyAccepted(s, e), NEW i \in Nat, NEW t, Alike(t, s, i)
    PROVE  NewlyAccepted(t, e) /\ Alike(Accept(t, e), Accept(s, e), i + 1)
<1> DEFINE c == e.command
           q == t.receipts
           r == ReceiptOf(s, e)
           m == CommandEffect(s, c)
<1>1. /\ s \in ProfileCoordinatorState /\ c \in CoordinatorCommand
      /\ s.receipts \in Seq(CommandReceipt) /\ Len(s.receipts) <= ReceiptLimit
  BY DEF Replayable, SoundAt, ProfileCoordinatorState, CoordinatorCommandEnvelope
<1>2. /\ t = WithReceipts(s, q) /\ q \in Seq(CommandReceipt)
      /\ Newest(q, s.receipts) /\ Len(q) = Least(i, ReceiptLimit)
  BY DEF Alike
<1>3. /\ CommandAccepted(t, c) /\ CommandOutcome(t, c) = CommandOutcome(s, c)
      /\ CommandEffect(t, c) = WithReceipts(m, q)
  <2>1. CommandAccepted(s, c)
    BY DEF NewlyAccepted
  <2> HIDE DEF c, q
  <2> QED BY <1>1, <1>2, <2>1, ReceiptsUnread
<1>4. /\ t.version = s.version /\ t.last_sequence = s.last_sequence
      /\ t.last_observed_at = s.last_observed_at
  BY <1>1, <1>2 DEF WithReceipts, ProfileCoordinatorState
<1>5. ~KeySeen(t, e)
  <2> SUFFICES ASSUME NEW j \in DOMAIN q,
                      q[j].idempotency_key = e.idempotency_key
               PROVE  FALSE
    BY DEF KeySeen
  <2>1. j \in 1 .. Len(q) /\ Len(q) \in Nat /\ Len(s.receipts) \in Nat
    BY <1>1, <1>2
  <2>2. /\ q[j] = s.receipts[Len(s.receipts) - Len(q) + j]
        /\ Len(s.receipts) - Len(q) + j \in DOMAIN s.receipts
    BY <1>1, <1>2, <2>1 DEF Newest
  <2> QED BY <2>2 DEF NewlyAccepted, KeySeen
<1>6. NewlyAccepted(t, e)
  BY <1>3, <1>4, <1>5 DEF NewlyAccepted, InOrder, Expected
<1>7. ReceiptOf(t, e) = r /\ r \in CommandReceipt
  BY <1>1, <1>3, OutcomeType DEF ReceiptOf, CommandReceipt, CoordinatorCommandEnvelope
<1>8. m \in ProfileCoordinatorState
  BY <1>1, CommandSound DEF Replayable, SoundAt, NewlyAccepted, InOrder
<1> DEFINE a == Remember(q, r)
           b == Remember(s.receipts, r)
<1>9. /\ Accept(t, e) = [WithReceipts(m, q) EXCEPT !.version = s.version + 1,
                            !.last_sequence = e.sequence,
                            !.last_observed_at = c.now, !.receipts = a]
      /\ Accept(s, e) = [m EXCEPT !.version = s.version + 1,
                            !.last_sequence = e.sequence,
                            !.last_observed_at = c.now, !.receipts = b]
  BY <1>3, <1>4, <1>7 DEF Accept
<1>10. a \in Seq(CommandReceipt) /\ Newest(a, b) /\ Len(a) = Least(i + 1, ReceiptLimit)
  <2>1. Len(q) <= ReceiptLimit
    BY <1>2, BoundAssumption DEF Least
  <2> HIDE DEF q, r
  <2> QED BY <1>1, <1>2, <1>7, <2>1, RememberNewest, RememberSeq
<1> HIDE DEF a, b, c, m, q
<1>11. /\ Accept(t, e) = WithReceipts(Accept(s, e), a)
       /\ Accept(t, e).receipts = a /\ Accept(s, e).receipts = b
  BY <1>8, <1>9 DEF WithReceipts, ProfileCoordinatorState
<1> QED BY <1>6, <1>10, <1>11 DEF Alike

StoredCheckpoint ==
    [state : ProfileCoordinatorState, last_claim : SUBSET ClaimIdentity]

StoredCoordinatorDocument ==
    [checkpoint : SUBSET StoredCheckpoint,
     journal : Seq(CoordinatorCommandEnvelope)]

\* A document whose replay returns no error and stays within the domain.
Stored(d) ==
    /\ d \in StoredCoordinatorDocument
    /\ IsOption(d.checkpoint)
    /\ Readable(d)
    /\ Replayable(RestoreBase(d))

\* Every state of its replay is sound, and every entry is accepted in turn.
LEMMA StatesReplayable ==
    ASSUME NEW d, Stored(d)
    PROVE  /\ \A i \in 0 .. Len(d.journal) : Replayable(StateAfter(d, i))
           /\ \A i \in 1 .. Len(d.journal) :
                 /\ d.journal[i] \in CoordinatorCommandEnvelope
                 /\ NewlyAccepted(StateAfter(d, i - 1), d.journal[i])
                 /\ StateAfter(d, i) = Accept(StateAfter(d, i - 1), d.journal[i])
<1> d.journal \in Seq(CoordinatorCommandEnvelope)
  BY DEF Stored, StoredCoordinatorDocument
<1>1. Len(d.journal) \in Nat /\ DOMAIN d.journal = 1 .. Len(d.journal)
  OBVIOUS
<1>2. \A i \in 1 .. Len(d.journal) :
         /\ d.journal[i] \in CoordinatorCommandEnvelope
         /\ NewlyAccepted(StateAfter(d, i - 1), d.journal[i])
  BY <1>1 DEF Stored, Readable
<1>3. ASSUME NEW i \in 1 .. Len(d.journal)
      PROVE  StateAfter(d, i) = Accept(StateAfter(d, i - 1), d.journal[i])
  <2>1. i \in Nat /\ i # 0
    BY <1>1
  <2>2. StateAfter(d, i) = Apply(StateAfter(d, i - 1), d.journal[i])
    BY <2>1, ReplayLaw
  <2> QED BY <1>2, <2>2 DEF Apply
<1> DEFINE T == {i \in 0 .. Len(d.journal) : ~Replayable(StateAfter(d, i))}
<1>4. ASSUME T # {} PROVE FALSE
  <2>1. PICK i \in T : \A u \in T : i <= u
    <3> T \subseteq Nat
      BY <1>1
    <3> HIDE DEF T
    <3> QED BY <1>4, LeastNumber
  <2>2. CASE i = 0
    <3>1. StateAfter(d, 0) = RestoreBase(d)
      BY ReplayLaw
    <3> QED BY <2>1, <2>2, <3>1 DEF Stored
  <2>3. CASE i # 0
    <3>1. i \in 1 .. Len(d.journal) /\ i - 1 \in 0 .. Len(d.journal) /\ i - 1 \notin T
      BY <1>1, <2>1, <2>3
    <3>2. Replayable(StateAfter(d, i - 1))
      BY <3>1
    <3> DEFINE s == StateAfter(d, i - 1)
               e == d.journal[i]
    <3>3. Replayable(s) /\ e \in CoordinatorCommandEnvelope /\ NewlyAccepted(s, e)
      BY <1>2, <3>1, <3>2
    <3>4. StateAfter(d, i) = Accept(s, e)
      BY <1>3, <3>1
    <3> HIDE DEF s, e, T
    <3>5. Replayable(Accept(s, e))
      BY <3>3, AcceptSound DEF Replayable
    <3> USE DEF T
    <3> QED BY <2>1, <3>4, <3>5
  <2> QED BY <2>2, <2>3
<1> QED BY <1>2, <1>3, <1>4

\* Pushing an accepted command applies it.
LEMMA PushStored ==
    ASSUME NEW d, Stored(d), NEW e \in CoordinatorCommandEnvelope,
           NewlyAccepted(Replay(d), e)
    PROVE  /\ Stored(Pushed(d, e))
           /\ Replay(Pushed(d, e)) = Accept(Replay(d), e)
<1> DEFINE p == Pushed(d, e)
           n == Len(d.journal)
<1>1. /\ n \in Nat /\ d.journal \in Seq(CoordinatorCommandEnvelope)
      /\ p.checkpoint = d.checkpoint /\ p.journal = Append(d.journal, e)
      /\ p \in StoredCoordinatorDocument
  <2>1. d \in StoredCoordinatorDocument /\ d.journal \in Seq(CoordinatorCommandEnvelope)
    BY DEF Stored, StoredCoordinatorDocument
  <2>2. /\ Append(d.journal, e) \in Seq(CoordinatorCommandEnvelope)
        /\ Len(d.journal) \in Nat
    BY <2>1
  <2> QED BY <2>1, <2>2 DEF Pushed, StoredCoordinatorDocument
<1>2. /\ p.journal \in Seq(CoordinatorCommandEnvelope)
      /\ Len(p.journal) = n + 1 /\ p.journal[n + 1] = e
      /\ DOMAIN p.journal = 1 .. n + 1
      /\ \A i \in 1 .. n : d.journal[i] = p.journal[i]
  BY <1>1
<1>3. RestoreBase(d) = RestoreBase(p)
  BY <1>1 DEF RestoreBase
<1> HIDE DEF p, n
<1>4. \A i \in 0 .. n : StateAfter(d, i) = StateAfter(p, i)
  BY <1>1, <1>2, <1>3, ReplayOfPrefix
<1>5. Replay(d) = StateAfter(p, n)
  BY <1>1, <1>4 DEF Replay, n
<1>6. ASSUME NEW i \in DOMAIN p.journal
      PROVE  NewlyAccepted(StateAfter(p, i - 1), p.journal[i])
  <2>1. CASE i = n + 1
    <3>1. i - 1 = n
      BY <1>1, <2>1
    <3> QED BY <1>2, <1>5, <2>1, <3>1
  <2>2. CASE i # n + 1
    <3>1. i \in 1 .. n /\ i - 1 \in 0 .. n
      BY <1>1, <1>2, <2>2
    <3>2. NewlyAccepted(StateAfter(d, i - 1), d.journal[i])
      BY <3>1, StatesReplayable DEF n
    <3>3. StateAfter(d, i - 1) = StateAfter(p, i - 1) /\ d.journal[i] = p.journal[i]
      BY <1>2, <1>4, <3>1
    <3> QED BY <3>2, <3>3
  <2> QED BY <2>1, <2>2
<1>7. Stored(p)
  <2>1. \A k \in p.checkpoint : Restorable(k.state)
    BY <1>1 DEF Stored, Readable
  <2> QED BY <1>1, <1>2, <1>3, <1>6, <2>1 DEF Stored, Readable
<1>8. StateAfter(p, n + 1) = Accept(StateAfter(p, n), e)
  <2>1. PICK z \in 1 .. Len(p.journal) : z = n + 1
    BY <1>1, <1>2
  <2>2. StateAfter(p, z) = Accept(StateAfter(p, z - 1), p.journal[z])
    BY <1>7, StatesReplayable
  <2>3. z - 1 = n
    BY <1>1, <2>1
  <2> QED BY <1>2, <2>1, <2>2, <2>3
<1> QED BY <1>2, <1>5, <1>7, <1>8 DEF Replay, p

\* The last claim of a prefix of the journal is an identity.
LEMMA FoldedClaim ==
    ASSUME NEW p, Stored(p), NEW k \in Nat, k <= Len(p.journal)
    PROVE  LastClaimOf(SubSeq(p.journal, 1, k), p.checkpoint) \in SUBSET ClaimIdentity
<1> DEFINE j == SubSeq(p.journal, 1, k)
           claims == {i \in DOMAIN j : j[i].command.type = "Claim"}
<1>1. /\ p.journal \in Seq(CoordinatorCommandEnvelope)
      /\ p.checkpoint \in SUBSET StoredCheckpoint
  BY DEF Stored, StoredCoordinatorDocument
<1>2. j \in Seq(CoordinatorCommandEnvelope)
  BY <1>1
<1> HIDE DEF j
<1>3. CASE claims # {}
  <2>1. claims \subseteq 1 .. Len(j) /\ Len(j) \in Nat
    BY <1>2
  <2>2. Max(claims) \in claims
    <3> HIDE DEF claims
    <3> QED BY <1>3, <2>1, MaxOfIndices
  <2>3. /\ j[Max(claims)] \in CoordinatorCommandEnvelope
        /\ j[Max(claims)].command.type = "Claim"
    BY <1>2, <2>2
  <2> DEFINE c == j[Max(claims)].command
  <2>4. c \in CoordinatorCommand /\ c.type = "Claim"
    BY <2>3 DEF CoordinatorCommandEnvelope
  <2> HIDE DEF c
  <2>5. c \in ClaimCommand
    BY <2>4, CommandKinds
  <2>6. IdentityOf(c) \in ClaimIdentity
    BY <2>5 DEF ClaimCommand, IdentityOf, ClaimIdentity
  <2> QED BY <1>3, <2>6 DEF LastClaimOf, c, j
<1>4. CASE claims = {}
  <2>1. UNION {k_.last_claim : k_ \in p.checkpoint} \in SUBSET ClaimIdentity
    BY <1>1 DEF StoredCheckpoint
  <2> QED BY <1>4, <2>1 DEF LastClaimOf, j
<1> QED BY <1>3, <1>4

\* Compaction gives the same coordinator back, its receipts included, and a
\* document that can be read.
LEMMA CompactStored ==
    ASSUME NEW p, Stored(p), CompactionDue(p)
    PROVE  /\ Stored(Compact(p))
           /\ Replay(Compact(p)) = Replay(p)
<1> DEFINE d == Compact(p)
           m == Len(p.journal)
           k == m - RetainRecent
           base == Checkpoint(StateAfter(p, k))
           last == LastClaimOf(SubSeq(p.journal, 1, k), p.checkpoint)
           x == [state |-> base, last_claim |-> last]
<1>1. /\ m \in Nat /\ RetainRecent \in Nat /\ k \in Nat /\ k + RetainRecent = m
      /\ k <= m /\ p.journal \in Seq(CoordinatorCommandEnvelope)
  <2>1. p.journal \in Seq(CoordinatorCommandEnvelope)
    BY DEF Stored, StoredCoordinatorDocument
  <2> QED BY <2>1, CompactionAssumption DEF CompactionDue
<1>2. /\ d.journal = SubSeq(p.journal, k + 1, m)
      /\ d.checkpoint = {x}
      /\ d = [checkpoint |-> {x}, journal |-> SubSeq(p.journal, k + 1, m)]
  BY DEF Compact
<1>3. RestoreBase(d) = base
  <2>1. x.state = base
    OBVIOUS
  <2> HIDE DEF x, d
  <2> QED BY <1>2, <2>1 DEF RestoreBase
<1>4. /\ d.journal \in Seq(CoordinatorCommandEnvelope)
      /\ Len(d.journal) = RetainRecent /\ DOMAIN d.journal = 1 .. RetainRecent
      /\ \A i \in 1 .. RetainRecent : d.journal[i] = p.journal[k + i]
  <2> DEFINE j == p.journal
             t == SubSeq(j, k + 1, m)
  <2>1. j \in Seq(CoordinatorCommandEnvelope) /\ k + 1 \in 1 .. Len(j) + 1
    BY <1>1
  <2> HIDE DEF j, k
  <2>2. /\ t \in Seq(CoordinatorCommandEnvelope)
        /\ Len(t) = IF k + 1 <= m THEN m - (k + 1) + 1 ELSE 0
        /\ \A i \in 1 .. m - (k + 1) + 1 : t[i] = j[k + 1 + i - 1]
    BY <1>1, <2>1 DEF m, j
  <2>3. m - (k + 1) + 1 = RetainRecent /\ (~(k + 1 <= m) => RetainRecent = 0)
    BY <1>1
  <2>4. Len(t) = RetainRecent
    BY <2>2, <2>3
  <2>5. ASSUME NEW i \in 1 .. RetainRecent PROVE t[i] = j[k + i]
    <3>1. k + 1 + i - 1 = k + i
      BY <1>1
    <3> QED BY <2>2, <2>3, <3>1
  <2> HIDE DEF t
  <2> QED BY <1>2, <2>2, <2>4, <2>5 DEF t, j
<1> HIDE DEF d, m, k, base, x, last
<1>5. /\ \A i \in 0 .. m : Replayable(StateAfter(p, i))
      /\ \A i \in 1 .. m :
            /\ p.journal[i] \in CoordinatorCommandEnvelope
            /\ NewlyAccepted(StateAfter(p, i - 1), p.journal[i])
            /\ StateAfter(p, i) = Accept(StateAfter(p, i - 1), p.journal[i])
  BY StatesReplayable DEF m
<1>6. Replayable(base) /\ Restorable(base) /\ Alike(base, StateAfter(p, k), 0)
  <2> DEFINE s == StateAfter(p, k)
  <2>1. Replayable(s)
    BY <1>1, <1>5
  <2>2. base = WithReceipts(s, << >>)
    BY DEF base, Checkpoint, WithReceipts
  <2> HIDE DEF s
  <2>3. s \in ProfileCoordinatorState
    BY <2>1 DEF Replayable, SoundAt
  <2>4. << >> \in Seq(CommandReceipt) /\ Len(<< >>) = 0
    OBVIOUS
  <2>5. base \in ProfileCoordinatorState /\ base.receipts = << >>
    BY <2>2, <2>3, <2>4 DEF WithReceipts, ProfileCoordinatorState
  <2>6. /\ base.version = s.version /\ base.last_sequence = s.last_sequence
        /\ base.last_observed_at = s.last_observed_at
        /\ base.next_epoch = s.next_epoch
        /\ base.status = s.status /\ base.pending_intent = s.pending_intent
        /\ base.recovery_claim_pending = s.recovery_claim_pending
        /\ base.active_lease = s.active_lease
        /\ base.drain_deadline = s.drain_deadline
    BY <2>2, <2>3 DEF WithReceipts, ProfileCoordinatorState
  <2>7. SoundAt(base, base.last_observed_at)
    BY <2>1, <2>5, <2>6 DEF Replayable, SoundAt, OptionsOf, Restorable, DeadlinesAt
  <2>8. Len(base.receipts) <= ReceiptLimit
    BY <2>4, <2>5, BoundAssumption
  <2>9. Alike(base, s, 0)
    <3>1. Len(s.receipts) \in Nat
      BY <2>3 DEF ProfileCoordinatorState
    <3>2. Least(0, ReceiptLimit) = 0
      BY BoundAssumption DEF Least
    <3>3. Newest(<< >>, s.receipts)
      BY <2>4, <3>1 DEF Newest
    <3> QED BY <2>2, <2>4, <2>5, <3>2, <3>3 DEF Alike
  <2> QED BY <2>7, <2>8, <2>9 DEF Replayable, SoundAt, s
<1> DEFINE T == {i \in 0 .. RetainRecent :
                    ~Alike(StateAfter(d, i), StateAfter(p, k + i), i)}
<1>7. ASSUME NEW i \in 1 .. RetainRecent,
             Alike(StateAfter(d, i - 1), StateAfter(p, k + i - 1), i - 1)
      PROVE  /\ NewlyAccepted(StateAfter(d, i - 1), d.journal[i])
             /\ Alike(StateAfter(d, i), StateAfter(p, k + i), i)
  <2> DEFINE t == StateAfter(d, i - 1)
             s == StateAfter(p, k + i - 1)
             e == d.journal[i]
  <2>1. /\ i \in Nat /\ i # 0 /\ i - 1 \in Nat /\ i - 1 + 1 = i
        /\ k + i \in 1 .. m /\ k + i - 1 \in 0 .. m
    BY <1>1
  <2>2. /\ Replayable(s) /\ e = p.journal[k + i]
        /\ e \in CoordinatorCommandEnvelope /\ NewlyAccepted(s, e)
        /\ StateAfter(p, k + i) = Accept(s, e)
    <3>1. e = p.journal[k + i]
      BY <1>4
    <3>2. PICK z \in 1 .. m : z = k + i
      BY <2>1
    <3>3. z - 1 = k + i - 1 /\ z - 1 \in 0 .. m
      BY <1>1, <2>1, <3>2
    <3>4. /\ Replayable(StateAfter(p, z - 1))
          /\ p.journal[z] \in CoordinatorCommandEnvelope
          /\ NewlyAccepted(StateAfter(p, z - 1), p.journal[z])
          /\ StateAfter(p, z) = Accept(StateAfter(p, z - 1), p.journal[z])
      BY <1>5, <3>3
    <3> HIDE DEF e
    <3> QED BY <3>1, <3>2, <3>3, <3>4 DEF s
  <2>3. StateAfter(d, i) = Apply(t, e)
    BY <2>1, ReplayLaw
  <2>4. Alike(t, s, i - 1)
    BY <1>7
  <2> HIDE DEF t, s, e
  <2>5. NewlyAccepted(t, e) /\ Alike(Accept(t, e), Accept(s, e), i - 1 + 1)
    BY <2>1, <2>2, <2>4, AcceptAlike
  <2> QED BY <2>1, <2>2, <2>3, <2>5 DEF Apply, t, e
<1>8. ASSUME T # {} PROVE FALSE
  <2>1. PICK i \in T : \A u \in T : i <= u
    <3> T \subseteq Nat
      BY <1>1
    <3> HIDE DEF T
    <3> QED BY <1>8, LeastNumber
  <2>2. CASE i = 0
    <3>1. StateAfter(d, 0) = base
      BY <1>3, ReplayLaw
    <3>2. k + 0 = k
      BY <1>1
    <3> QED BY <1>6, <2>1, <2>2, <3>1, <3>2
  <2>3. CASE i # 0
    <3>1. /\ i \in 1 .. RetainRecent /\ i - 1 \in 0 .. RetainRecent
          /\ i - 1 \notin T /\ k + i - 1 = k + (i - 1)
      BY <1>1, <2>1, <2>3
    <3>2. Alike(StateAfter(d, i - 1), StateAfter(p, k + i - 1), i - 1)
      BY <3>1
    <3> QED BY <1>7, <2>1, <3>1, <3>2
  <2> QED BY <2>2, <2>3
<1>9. \A i \in 0 .. RetainRecent : Alike(StateAfter(d, i), StateAfter(p, k + i), i)
  BY <1>8
<1>10. Readable(d)
  <2>1. \A y \in d.checkpoint : Restorable(y.state)
    BY <1>2, <1>6 DEF x
  <2>2. ASSUME NEW i \in 1 .. RetainRecent
        PROVE  NewlyAccepted(StateAfter(d, i - 1), d.journal[i])
    <3>1. i - 1 \in 0 .. RetainRecent /\ k + i - 1 = k + (i - 1)
      BY <1>1
    <3> QED BY <1>7, <1>9, <3>1
  <2> QED BY <1>4, <2>1, <2>2 DEF Readable
<1>11. Stored(d)
  <2>1. x \in StoredCheckpoint
    <3>1. base \in ProfileCoordinatorState
      BY <1>6 DEF Replayable, SoundAt
    <3>2. last \in SUBSET ClaimIdentity
      <4> k \in Nat /\ k <= Len(p.journal)
        BY <1>1 DEF m
      <4> QED BY FoldedClaim DEF last
    <3> QED BY <3>1, <3>2 DEF x, StoredCheckpoint
  <2>2. d \in StoredCoordinatorDocument
    BY <1>2, <1>4, <2>1 DEF StoredCoordinatorDocument
  <2>3. IsOption(d.checkpoint)
    BY <1>2 DEF IsOption
  <2> QED BY <1>3, <1>6, <1>10, <2>2, <2>3 DEF Stored
<1>12. StateAfter(d, RetainRecent) = StateAfter(p, m)
  <2> DEFINE t == StateAfter(d, RetainRecent)
             s == StateAfter(p, m)
             q == t.receipts
  <2>1. Alike(t, s, RetainRecent) /\ Replayable(s)
    <3>1. RetainRecent \in 0 .. RetainRecent /\ m \in 0 .. m
      BY <1>1
    <3>2. Alike(StateAfter(d, RetainRecent), StateAfter(p, k + RetainRecent),
                RetainRecent)
      BY <1>9, <3>1
    <3>3. Replayable(StateAfter(p, m))
      BY <1>5, <3>1
    <3> QED BY <1>1, <3>2, <3>3
  <2> HIDE DEF t, s
  <2>2. /\ s.receipts \in Seq(CommandReceipt) /\ Len(s.receipts) <= ReceiptLimit
        /\ s \in ProfileCoordinatorState
    BY <2>1 DEF Replayable, SoundAt, ProfileCoordinatorState
  <2>3. Len(q) = ReceiptLimit /\ q \in Seq(CommandReceipt)
    BY <1>1, <2>1, CompactionAssumption, BoundAssumption DEF Alike, Least
  <2>4. Newest(q, s.receipts) /\ t = WithReceipts(s, q)
    BY <2>1 DEF Alike
  <2>5. Len(s.receipts) \in Nat /\ Len(q) \in Nat
    BY <2>2, <2>3
  <2>6. Len(q) = Len(s.receipts)
    BY <2>2, <2>3, <2>4, <2>5, BoundAssumption DEF Newest
  <2> HIDE DEF q
  <2>7. \A j \in 1 .. Len(q) : q[j] = s.receipts[j]
    BY <2>4, <2>5, <2>6 DEF Newest
  <2>8. q = s.receipts
    BY <2>2, <2>3, <2>6, <2>7
  <2> QED BY <2>2, <2>4, <2>8 DEF WithReceipts, ProfileCoordinatorState, t, s
<1> QED BY <1>4, <1>11, <1>12 DEF Replay, d, m

\* NextEnvelope is an envelope whenever it is accepted.
LEMMA NextIsEnvelope ==
    ASSUME NEW s, Replayable(s), NEW key \in Keys, NEW c \in CoordinatorCommand,
           NewlyAccepted(s, NextEnvelope(s, key, c))
    PROVE  /\ NextEnvelope(s, key, c) \in CoordinatorCommandEnvelope
           /\ NextEnvelope(s, key, c).command = c
<1>1. /\ s.version \in 1 .. MaxVersion /\ s.last_sequence \in Nat
      /\ s.version = s.last_sequence + 1
  BY BoundAssumption DEF Replayable, SoundAt, Restorable, ProfileCoordinatorState
<1>2. s.last_sequence + 1 \in 1 .. MaxVersion
  BY <1>1, BoundAssumption
<1> QED BY <1>1, <1>2 DEF NextEnvelope, CoordinatorCommandEnvelope

\* What `apply` stores replays to the accepted state, compacted or not, and
\* the verification of a compaction never refuses the command.
LEMMA AppendStored ==
    ASSUME NEW d, Stored(d), NEW e \in CoordinatorCommandEnvelope,
           NewlyAccepted(Replay(d), e)
    PROVE  /\ Stored(Appended(d, e))
           /\ Replay(Appended(d, e)) = Accept(Replay(d), e)
           /\ CompactionDue(Pushed(d, e)) => Verified(Pushed(d, e))
<1> DEFINE p == Pushed(d, e)
<1>1. Stored(p) /\ Replay(p) = Accept(Replay(d), e)
  BY PushStored
<1>2. CompactionDue(p) => Stored(Compact(p)) /\ Replay(Compact(p)) = Replay(p)
  BY <1>1, CompactStored
<1> HIDE DEF p
<1>3. CompactionDue(p) => Verified(p)
  BY <1>2 DEF Verified, Stored
<1> QED BY <1>1, <1>2, <1>3 DEF Appended, p

-----------------------------------------------------------------------------
(* The last claimant.                                                      *)

\* The claim that no later one follows is the last.
LEMMA LastIs ==
    ASSUME NEW j \in Seq(CoordinatorCommandEnvelope), NEW ck,
           NEW i \in 1 .. Len(j), j[i].command.type = "Claim",
           \A u \in 1 .. Len(j) : j[u].command.type = "Claim" => u <= i
    PROVE  LastClaimOf(j, ck) = {IdentityOf(j[i].command)}
<1> DEFINE claims == {u \in DOMAIN j : j[u].command.type = "Claim"}
<1>1. /\ claims \subseteq 1 .. Len(j) /\ Len(j) \in Nat /\ i \in claims
      /\ \A u \in claims : u <= i
  OBVIOUS
<1>2. LastClaimOf(j, ck) = {IdentityOf(j[Max(claims)].command)}
  BY <1>1 DEF LastClaimOf
<1> HIDE DEF claims
<1>3. Max(claims) \in claims /\ i <= Max(claims)
  BY <1>1, MaxOfIndices
<1>4. Max(claims) = i
  BY <1>1, <1>3
<1> QED BY <1>2, <1>4

\* Without a claim in the journal, the checkpoint's is the last.
LEMMA LastOfCheckpoint ==
    ASSUME NEW j \in Seq(CoordinatorCommandEnvelope), NEW ck,
           \A u \in 1 .. Len(j) : j[u].command.type # "Claim"
    PROVE  LastClaimOf(j, ck) = UNION {x.last_claim : x \in ck}
<1>1. {u \in DOMAIN j : j[u].command.type = "Claim"} = {}
  OBVIOUS
<1> QED BY <1>1 DEF LastClaimOf

\* There is a last claim in a journal that holds one.
LEMMA SomeLast ==
    ASSUME NEW j \in Seq(CoordinatorCommandEnvelope),
           NEW v \in 1 .. Len(j), j[v].command.type = "Claim"
    PROVE  \E i \in 1 .. Len(j) :
              /\ j[i].command.type = "Claim"
              /\ \A u \in 1 .. Len(j) : j[u].command.type = "Claim" => u <= i
<1> DEFINE claims == {u \in 1 .. Len(j) : j[u].command.type = "Claim"}
<1>1. claims \subseteq 1 .. Len(j) /\ Len(j) \in Nat /\ claims # {}
  OBVIOUS
<1>2. Max(claims) \in claims /\ \A u \in claims : u <= Max(claims)
  <2> HIDE DEF claims
  <2> QED BY <1>1, MaxOfIndices
<1> QED BY <1>2

\* Pushing a claim makes it the last, pushing anything else keeps it.
LEMMA PushClaim ==
    ASSUME NEW d, Stored(d), NEW e \in CoordinatorCommandEnvelope
    PROVE  LastClaim(Pushed(d, e)) = IF e.command.type = "Claim"
                                     THEN {IdentityOf(e.command)} ELSE LastClaim(d)
<1> DEFINE j == d.journal
           a == Append(j, e)
           ck == d.checkpoint
<1>1. j \in Seq(CoordinatorCommandEnvelope) /\ Pushed(d, e).journal = a
      /\ Pushed(d, e).checkpoint = ck
  BY DEF Stored, StoredCoordinatorDocument, Pushed
<1> HIDE DEF j
<1>2. /\ a \in Seq(CoordinatorCommandEnvelope) /\ Len(j) \in Nat
      /\ Len(a) = Len(j) + 1 /\ a[Len(j) + 1] = e
      /\ \A u \in 1 .. Len(j) : a[u] = j[u]
  BY <1>1
<1> HIDE DEF a, ck
<1>3. LastClaim(Pushed(d, e)) = LastClaimOf(a, ck) /\ LastClaim(d) = LastClaimOf(j, ck)
  BY <1>1 DEF LastClaim, j, ck
<1>4. CASE e.command.type = "Claim"
  <2>1. PICK z \in 1 .. Len(a) : z = Len(j) + 1
    BY <1>2
  <2>2. a[z].command.type = "Claim" /\ \A u \in 1 .. Len(a) : u <= z
    BY <1>2, <1>4, <2>1
  <2>3. LastClaimOf(a, ck) = {IdentityOf(a[z].command)}
    BY <1>2, <2>2, LastIs
  <2> QED BY <1>2, <1>3, <1>4, <2>1, <2>3
<1>5. CASE e.command.type # "Claim"
  <2>1. \A u \in 1 .. Len(a) : a[u].command.type = "Claim" => u \in 1 .. Len(j)
    BY <1>2, <1>5
  <2>2. CASE \E v \in 1 .. Len(j) : j[v].command.type = "Claim"
    <3>1. PICK i \in 1 .. Len(j) :
             /\ j[i].command.type = "Claim"
             /\ \A u \in 1 .. Len(j) : j[u].command.type = "Claim" => u <= i
      BY <1>1, <2>2, SomeLast
    <3>2. /\ i \in 1 .. Len(a) /\ a[i] = j[i]
          /\ \A u \in 1 .. Len(a) : a[u].command.type = "Claim" => u <= i
      BY <1>2, <2>1, <3>1
    <3>3. LastClaimOf(a, ck) = {IdentityOf(a[i].command)}
      BY <1>2, <3>1, <3>2, LastIs
    <3>4. LastClaimOf(j, ck) = {IdentityOf(j[i].command)}
      BY <1>1, <3>1, LastIs
    <3> QED BY <1>3, <1>5, <3>2, <3>3, <3>4
  <2>3. CASE ~ \E v \in 1 .. Len(j) : j[v].command.type = "Claim"
    <3>1. LastClaimOf(j, ck) = UNION {x.last_claim : x \in ck}
      BY <1>1, <2>3, LastOfCheckpoint
    <3>2. \A u \in 1 .. Len(a) : a[u].command.type # "Claim"
      BY <1>2, <2>1, <2>3
    <3>3. LastClaimOf(a, ck) = UNION {x.last_claim : x \in ck}
      BY <1>2, <3>2, LastOfCheckpoint
    <3> QED BY <1>3, <1>5, <3>1, <3>3
  <2> QED BY <2>2, <2>3
<1> QED BY <1>4, <1>5

\* Compaction keeps the last claim, in the journal or in the checkpoint.
LEMMA CompactClaim ==
    ASSUME NEW p, Stored(p), CompactionDue(p)
    PROVE  LastClaim(Compact(p)) = LastClaim(p)
<1> DEFINE j == p.journal
           m == Len(j)
           k == m - RetainRecent
           f == SubSeq(j, 1, k)
           t == SubSeq(j, k + 1, m)
           last == LastClaimOf(f, p.checkpoint)
           x == [state |-> Checkpoint(StateAfter(p, k)), last_claim |-> last]
<1>1. /\ j \in Seq(CoordinatorCommandEnvelope)
      /\ m \in Nat /\ RetainRecent \in Nat /\ k \in Nat /\ k + RetainRecent = m
      /\ k <= m
  <2>1. j \in Seq(CoordinatorCommandEnvelope)
    BY DEF Stored, StoredCoordinatorDocument
  <2> QED BY <2>1, CompactionAssumption DEF CompactionDue
<1>2. Compact(p).journal = t /\ Compact(p).checkpoint = {x}
  BY DEF Compact
<1>3. LastClaim(Compact(p)) = LastClaimOf(t, {x})
  BY <1>2 DEF LastClaim
<1> HIDE DEF j, k
<1>4. /\ f \in Seq(CoordinatorCommandEnvelope) /\ Len(f) = k
      /\ \A i \in 1 .. k : f[i] = j[i]
  BY <1>1 DEF m
<1>5. /\ t \in Seq(CoordinatorCommandEnvelope)
      /\ Len(t) = RetainRecent
      /\ \A i \in 1 .. RetainRecent : t[i] = j[k + i]
  <2>2. /\ t \in Seq(CoordinatorCommandEnvelope)
        /\ Len(t) = IF k + 1 <= m THEN m - (k + 1) + 1 ELSE 0
        /\ \A i \in 1 .. m - (k + 1) + 1 : t[i] = j[k + 1 + i - 1]
    BY <1>1 DEF m
  <2>3. m - (k + 1) + 1 = RetainRecent /\ (~(k + 1 <= m) => RetainRecent = 0)
    BY <1>1
  <2>4. Len(t) = RetainRecent
    BY <2>2, <2>3
  <2>5. ASSUME NEW i \in 1 .. RetainRecent PROVE t[i] = j[k + i]
    <3>1. k + 1 + i - 1 = k + i
      BY <1>1
    <3> QED BY <2>2, <2>3, <3>1
  <2> QED BY <2>2, <2>4, <2>5
<1>6. x.last_claim = last
  OBVIOUS
<1> HIDE DEF m, f, t, x
<1>7. LastClaim(p) = LastClaimOf(j, p.checkpoint)
  BY DEF LastClaim, j
<1>8. CASE \E v \in 1 .. RetainRecent : t[v].command.type = "Claim"
  <2>1. PICK i \in 1 .. RetainRecent :
           /\ t[i].command.type = "Claim"
           /\ \A u \in 1 .. RetainRecent : t[u].command.type = "Claim" => u <= i
    BY <1>5, <1>8, SomeLast
  <2>2. LastClaimOf(t, {x}) = {IdentityOf(t[i].command)}
    BY <1>5, <2>1, LastIs
  <2>3. PICK z \in 1 .. m : z = k + i
    BY <1>1
  <2>4. j[z] = t[i]
    BY <1>5, <2>3
  <2>5. ASSUME NEW u \in 1 .. m, j[u].command.type = "Claim"
        PROVE  u <= z
    <3>1. CASE u <= k
      BY <1>1, <2>3, <3>1
    <3>2. CASE ~(u <= k)
      <4>1. PICK w \in 1 .. RetainRecent : u = k + w
        <5>1. u - k \in 1 .. RetainRecent /\ u = k + (u - k)
          BY <1>1, <3>2
        <5> QED BY <5>1
      <4>2. t[w].command.type = "Claim"
        BY <1>5, <2>5, <4>1
      <4>3. w <= i
        BY <2>1, <4>2
      <4> QED BY <1>1, <2>3, <4>1, <4>3
    <3> QED BY <3>1, <3>2
  <2>6. LastClaimOf(j, p.checkpoint) = {IdentityOf(j[z].command)}
    BY <1>1, <2>1, <2>4, <2>5, LastIs DEF m
  <2> QED BY <1>3, <1>7, <2>2, <2>4, <2>6
<1>9. CASE \A v \in 1 .. RetainRecent : t[v].command.type # "Claim"
  <2>1. LastClaimOf(t, {x}) = last
    <3>1. LastClaimOf(t, {x}) = UNION {y.last_claim : y \in {x}}
      BY <1>5, <1>9, LastOfCheckpoint
    <3>2. UNION {y.last_claim : y \in {x}} = x.last_claim
      OBVIOUS
    <3> QED BY <1>6, <3>1, <3>2
  <2>2. ASSUME NEW u \in 1 .. m, j[u].command.type = "Claim"
        PROVE  u \in 1 .. k
    <3> SUFFICES ASSUME ~(u <= k) PROVE FALSE
      BY <1>1
    <3>1. PICK w \in 1 .. RetainRecent : u = k + w
      <4>1. u - k \in 1 .. RetainRecent /\ u = k + (u - k)
        BY <1>1
      <4> QED BY <4>1
    <3> QED BY <1>5, <1>9, <2>2, <3>1
  <2>3. LastClaimOf(j, p.checkpoint) = last
    <3>1. CASE \E v \in 1 .. k : f[v].command.type = "Claim"
      <4>1. PICK i \in 1 .. k :
               /\ f[i].command.type = "Claim"
               /\ \A u \in 1 .. k : f[u].command.type = "Claim" => u <= i
        BY <1>4, <3>1, SomeLast
      <4>2. last = {IdentityOf(f[i].command)}
        BY <1>4, <4>1, LastIs
      <4>3. /\ i \in 1 .. m /\ j[i] = f[i]
            /\ \A u \in 1 .. m : j[u].command.type = "Claim" => u <= i
        <5>1. i \in 1 .. m /\ j[i] = f[i]
          BY <1>1, <1>4
        <5>2. ASSUME NEW u \in 1 .. m, j[u].command.type = "Claim"
              PROVE  u <= i
          BY <1>4, <2>2, <4>1, <5>2
        <5> QED BY <5>1, <5>2
      <4>4. LastClaimOf(j, p.checkpoint) = {IdentityOf(j[i].command)}
        BY <1>1, <4>1, <4>3, LastIs DEF m
      <4> QED BY <4>2, <4>3, <4>4
    <3>2. CASE \A v \in 1 .. k : f[v].command.type # "Claim"
      <4>1. last = UNION {y.last_claim : y \in p.checkpoint}
        BY <1>4, <3>2, LastOfCheckpoint
      <4>2. \A u \in 1 .. m : j[u].command.type # "Claim"
        BY <1>4, <2>2, <3>2
      <4>3. LastClaimOf(j, p.checkpoint) = UNION {y.last_claim : y \in p.checkpoint}
        BY <1>1, <4>2, LastOfCheckpoint DEF m
      <4> QED BY <4>1, <4>3
    <3> QED BY <3>1, <3>2
  <2> QED BY <1>3, <1>7, <2>1, <2>3
<1> QED BY <1>8, <1>9

\* What `apply` stores has the claim of the command as its last, if it is one.
LEMMA AppendClaim ==
    ASSUME NEW d, Stored(d), NEW e \in CoordinatorCommandEnvelope,
           NewlyAccepted(Replay(d), e)
    PROVE  LastClaim(Appended(d, e)) = IF e.command.type = "Claim"
                                       THEN {IdentityOf(e.command)} ELSE LastClaim(d)
<1>1. Stored(Pushed(d, e))
  BY PushStored
<1>2. LastClaim(Appended(d, e)) = LastClaim(Pushed(d, e))
  BY <1>1, CompactClaim DEF Appended
<1> QED BY <1>2, PushClaim

\* The claims under the session of the last claimant end with his own.
LEMMA SessionClaims ==
    ASSUME NEW j \in Seq(CoordinatorCommandEnvelope), NEW ck, NEW a,
           LastClaimOf(j, ck) = {a}, NEW claims,
           claims = {i \in DOMAIN j : /\ j[i].command.type = "Claim"
                                      /\ j[i].command.session_id = a.session_id}
    PROVE  IF claims # {} THEN IdentityOf(j[Max(claims)].command) = a
           ELSE {a} = UNION {x.last_claim : x \in ck}
<1>1. CASE \E v \in 1 .. Len(j) : j[v].command.type = "Claim"
  <2>1. PICK i \in 1 .. Len(j) :
           /\ j[i].command.type = "Claim"
           /\ \A u \in 1 .. Len(j) : j[u].command.type = "Claim" => u <= i
    BY <1>1, SomeLast
  <2>2. IdentityOf(j[i].command) = a
    BY <2>1, LastIs
  <2>3. j[i].command.session_id = a.session_id
    BY <2>2 DEF IdentityOf
  <2>4. /\ i \in claims /\ claims \subseteq 1 .. Len(j) /\ Len(j) \in Nat
        /\ \A u \in claims : u <= i
    BY <2>1, <2>3
  <2>5. Max(claims) \in claims /\ i <= Max(claims)
    BY <2>4, MaxOfIndices
  <2>6. Max(claims) = i
    BY <2>4, <2>5
  <2> QED BY <2>2, <2>4, <2>6
<1>2. CASE \A v \in 1 .. Len(j) : j[v].command.type # "Claim"
  <2>1. claims = {}
    BY <1>2
  <2>2. LastClaimOf(j, ck) = UNION {x.last_claim : x \in ck}
    BY <1>2, LastOfCheckpoint
  <2> QED BY <2>1, <2>2
<1> QED BY <1>1, <1>2

\* The lease of s belongs to the session and the device of a.
HeldBy(s, a) ==
    \A l \in s.active_lease :
        l.session_id = a.session_id /\ l.device_id = a.device_id

\* Journal and checkpoint prove the provenance of the lease.
LEMMA LeaseProvenance ==
    ASSUME NEW d, Stored(d), NEW a, LastClaim(d) = {a}, HeldBy(Replay(d), a),
           Replay(d).active_lease # {}, NEW id \in ClaimIdentity
    PROVE  ActiveClaimMatches(d, id) <=> id = a
<1> DEFINE j == d.journal
           claims == {i \in DOMAIN j : /\ j[i].command.type = "Claim"
                                       /\ j[i].command.session_id = id.session_id}
           held == \E l \in Replay(d).active_lease :
                      l.device_id = id.device_id /\ l.session_id = id.session_id
<1>1. j \in Seq(CoordinatorCommandEnvelope)
  BY DEF Stored, StoredCoordinatorDocument
<1>2. ActiveClaimMatches(d, id) <=>
         /\ held
         /\ IF claims # {} THEN IdentityOf(j[Max(claims)].command) = id
            ELSE \E x \in d.checkpoint : id \in x.last_claim
  BY DEF ActiveClaimMatches
<1>3. held => id.session_id = a.session_id
  BY DEF HeldBy
<1>4. id = a => held
  BY DEF HeldBy
<1>5. ASSUME id.session_id = a.session_id
      PROVE  IF claims # {} THEN IdentityOf(j[Max(claims)].command) = a
             ELSE {a} = UNION {x.last_claim : x \in d.checkpoint}
  <2>1. claims = {i \in DOMAIN j : /\ j[i].command.type = "Claim"
                                   /\ j[i].command.session_id = a.session_id}
    BY <1>5
  <2>2. LastClaimOf(j, d.checkpoint) = {a}
    BY DEF LastClaim
  <2> HIDE DEF claims, j
  <2> QED BY <1>1, <2>1, <2>2, SessionClaims
<1> HIDE DEF claims, held, j
<1>6. CASE id.session_id # a.session_id
  BY <1>2, <1>3, <1>6
<1>7. CASE id.session_id = a.session_id /\ claims # {}
  BY <1>2, <1>4, <1>5, <1>7
<1>8. CASE id.session_id = a.session_id /\ claims = {}
  <2>1. {a} = UNION {x.last_claim : x \in d.checkpoint}
    BY <1>5, <1>8
  <2>2. (\E x \in d.checkpoint : id \in x.last_claim) <=> id \in {a}
    BY <2>1
  <2> QED BY <1>2, <1>3, <1>4, <1>8, <2>2
<1> QED BY <1>6, <1>7, <1>8

-----------------------------------------------------------------------------
(* What a command does to the lease, the intent and the reservation.       *)

\* A lease is granted by a claim or was there before.
LEMMA LeaseSource ==
    ASSUME NEW s, Replayable(s), NEW c \in CoordinatorCommand, CommandAccepted(s, c)
    PROVE  /\ c.type = "Claim" => HeldBy(CommandEffect(s, c), c)
           /\ c.type # "Claim" => /\ CommandEffect(s, c).next_epoch = s.next_epoch
                                  /\ \A a : HeldBy(s, a) => HeldBy(CommandEffect(s, c), a)
<1>1. s \in ProfileCoordinatorState
  BY DEF Replayable, SoundAt
<1>2. TimedOut(s).active_lease = {} /\ TimedOut(s).next_epoch = s.next_epoch
  BY <1>1 DEF TimedOut, ProfileCoordinatorState
<1>3. CASE c.type = "Claim"
  <2>1. CommandEffect(s, c).active_lease = {LeaseAt(c, s.next_epoch + 1)}
    BY <1>1, <1>3 DEF CommandEffect, ClaimEffect, ProfileCoordinatorState
  <2> QED BY <1>3, <2>1 DEF HeldBy, LeaseAt
<1>4. CASE c.type = "IssueLaunchIntent"
  BY <1>1, <1>4 DEF CommandEffect, IssueLaunchIntentEffect, HeldBy,
                    ProfileCoordinatorState
<1>5. CASE c.type = "RecoverAndIssueLaunchIntent"
  BY <1>1, <1>5 DEF CommandEffect, RecoverAndIssueEffect, HeldBy,
                    ProfileCoordinatorState
<1>6. CASE c.type \in {"Heartbeat", "RenewLease"}
  <2>1. CommandEffect(s, c) = HeartbeatEffect(s, c)
    BY <1>6 DEF CommandEffect
  <2>2. CASE TimeoutDue(s, c.now)
    BY <1>2, <1>6, <2>1, <2>2 DEF HeartbeatEffect, UnlessTimedOut, HeldBy
  <2>3. CASE ~TimeoutDue(s, c.now)
    <3> DEFINE kept == {RefreshedLease(l, c) : l \in s.active_lease}
    <3>1. CommandEffect(s, c) = [s EXCEPT !.active_lease = kept]
      BY <2>1, <2>3 DEF HeartbeatEffect, UnlessTimedOut
    <3>2. \A r \in kept : \E l \in s.active_lease :
             r.session_id = l.session_id /\ r.device_id = l.device_id
      <4> TAKE r \in kept
      <4>1. PICK l \in s.active_lease : r = RefreshedLease(l, c)
        OBVIOUS
      <4>2. l \in CoordinatorLease
        BY <1>1 DEF ProfileCoordinatorState
      <4> QED BY <4>1, <4>2 DEF RefreshedLease, CoordinatorLease
    <3> HIDE DEF kept
    <3>3. /\ CommandEffect(s, c).active_lease = kept
          /\ CommandEffect(s, c).next_epoch = s.next_epoch
      BY <1>1, <3>1 DEF ProfileCoordinatorState
    <3> QED BY <1>6, <3>2, <3>3 DEF HeldBy
  <2> QED BY <2>2, <2>3
<1>7. CASE c.type = "Release"
  <2>1. CommandEffect(s, c) = ReleaseEffect(s, c)
    BY <1>7 DEF CommandEffect
  <2>2. /\ ReleaseEffect(s, c).active_lease = {}
        /\ ReleaseEffect(s, c).next_epoch = s.next_epoch
    BY <1>1, <1>2 DEF ReleaseEffect, UnlessTimedOut, ProfileCoordinatorState
  <2> QED BY <1>7, <2>1, <2>2 DEF HeldBy
<1>8. CASE c.type = "BeginDrain"
  <2>1. CommandEffect(s, c) = BeginDrainEffect(s, c)
    BY <1>8 DEF CommandEffect
  <2>2. CASE TimeoutDue(s, c.now)
    BY <1>2, <1>8, <2>1, <2>2 DEF BeginDrainEffect, UnlessTimedOut, HeldBy
  <2>3. CASE ~TimeoutDue(s, c.now)
    <3> DEFINE by == {Least(c.now + DrainTimeoutMs, l.hard_expires_at)
                         : l \in s.active_lease}
    <3>1. CommandEffect(s, c) = [s EXCEPT !.status = "Draining", !.drain_deadline = by]
      BY <2>1, <2>3 DEF BeginDrainEffect, UnlessTimedOut
    <3> HIDE DEF by
    <3> QED BY <1>1, <1>8, <3>1 DEF HeldBy, ProfileCoordinatorState
  <2> QED BY <2>2, <2>3
<1>9. CASE c.type = "Tick"
  <2>1. CommandEffect(s, c) = TickEffect(s, c)
    BY <1>9 DEF CommandEffect
  <2>2. /\ TickEffect(s, c).active_lease \in {s.active_lease, {}}
        /\ TickEffect(s, c).next_epoch = s.next_epoch
    BY <1>1, <1>2 DEF TickEffect, UnlessTimedOut, ProfileCoordinatorState
  <2> QED BY <1>9, <2>1, <2>2 DEF HeldBy
<1>10. CASE c.type = "MarkRecovered"
  BY <1>1, <1>10 DEF CommandEffect, MarkRecoveredEffect, HeldBy,
                     ProfileCoordinatorState
<1> QED BY <1>3, <1>4, <1>5, <1>6, <1>7, <1>8, <1>9, <1>10, CommandKinds

\* s is Uncertain, or being recovered, for actor and device of r.
ReservedFor(s, r) ==
    /\ s.active_lease = {}
    /\ s.status = "Uncertain" \/ (s.status = "Idle" /\ s.recovery_claim_pending)
    /\ \A i \in s.pending_intent : i.actor_id = r.actor_id /\ i.device_id = r.device_id

\* A reservation outlives every command but a claim and the owner's recovery,
\* as long as intents are issued to its holder only.
LEMMA ReservationKept ==
    ASSUME NEW s, Replayable(s), NEW c \in CoordinatorCommand, CommandAccepted(s, c),
           NEW r, ReservedFor(s, r), c.type \notin {"Claim", "MarkRecovered"},
           c \in LaunchCommand => c.actor_id = r.actor_id /\ c.device_id = r.device_id
    PROVE  ReservedFor(CommandEffect(s, c), r)
<1>1. s \in ProfileCoordinatorState
  BY DEF Replayable, SoundAt
<1>2. s.active_lease = {} /\ ~TimeoutDue(s, c.now)
  BY DEF ReservedFor, TimeoutDue
<1>3. CASE c \in LaunchCommand /\ c.type = "IssueLaunchIntent"
  <2>1. s.status = "Idle"
    BY <1>3 DEF CommandAccepted, IssueLaunchIntentAccepted
  <2>2. /\ IntentOf(c).actor_id = r.actor_id /\ IntentOf(c).device_id = r.device_id
    BY <1>3 DEF IntentOf
  <2>3. CommandEffect(s, c) = [s EXCEPT !.pending_intent = {IntentOf(c)}]
    BY <1>3 DEF CommandEffect, IssueLaunchIntentEffect
  <2> QED BY <1>1, <2>1, <2>2, <2>3 DEF ReservedFor, ProfileCoordinatorState
<1>4. CASE c \in LaunchCommand /\ c.type = "RecoverAndIssueLaunchIntent"
  <2>1. /\ IntentOf(c).actor_id = r.actor_id /\ IntentOf(c).device_id = r.device_id
    BY <1>4 DEF IntentOf
  <2>2. CommandEffect(s, c) =
          [s EXCEPT !.pending_intent = {IntentOf(c)}, !.status = "Idle",
                    !.recovery_claim_pending = TRUE, !.drain_deadline = {}]
    BY <1>4 DEF CommandEffect, RecoverAndIssueEffect
  <2> QED BY <1>1, <2>1, <2>2 DEF ReservedFor, ProfileCoordinatorState
<1>5. CASE c.type \in {"Heartbeat", "RenewLease"}
  BY <1>2, <1>5 DEF CommandAccepted, HeartbeatAccepted
<1>6. CASE c.type = "Release"
  BY <1>2, <1>6 DEF CommandAccepted, ReleaseAccepted
<1>7. CASE c.type = "BeginDrain"
  BY <1>2, <1>7 DEF CommandAccepted, BeginDrainAccepted
<1>8. CASE c.type = "Tick"
  <2>1. CommandEffect(s, c) = s \/ CommandEffect(s, c) = [s EXCEPT !.pending_intent = {}]
    BY <1>2, <1>8 DEF CommandEffect, TickEffect, UnlessTimedOut
  <2> QED BY <1>1, <2>1 DEF ReservedFor, ProfileCoordinatorState
<1> QED BY <1>3, <1>4, <1>5, <1>6, <1>7, <1>8, CommandKinds

\* Accept changes nothing of this that the command's effect does not.
LEMMA AcceptFields ==
    ASSUME NEW s, Replayable(s), NEW e \in CoordinatorCommandEnvelope,
           NewlyAccepted(s, e)
    PROVE  /\ e.command \in CoordinatorCommand /\ CommandAccepted(s, e.command)
           /\ Accept(s, e).status = CommandEffect(s, e.command).status
           /\ Accept(s, e).active_lease = CommandEffect(s, e.command).active_lease
           /\ Accept(s, e).pending_intent = CommandEffect(s, e.command).pending_intent
           /\ Accept(s, e).next_epoch = CommandEffect(s, e.command).next_epoch
           /\ Accept(s, e).recovery_claim_pending
                = CommandEffect(s, e.command).recovery_claim_pending
           /\ Replayable(Accept(s, e))
<1>1. /\ e.command \in CoordinatorCommand /\ CommandAccepted(s, e.command)
      /\ e.command.now >= s.last_observed_at
  BY DEF CoordinatorCommandEnvelope, NewlyAccepted, InOrder
<1>2. CommandEffect(s, e.command) \in ProfileCoordinatorState
  BY <1>1, CommandSound DEF Replayable, SoundAt
<1>3. Replayable(Accept(s, e))
  BY AcceptSound DEF Replayable
<1> DEFINE m == CommandEffect(s, e.command)
           q == Remember(s.receipts, ReceiptOf(s, e))
<1>4. Accept(s, e) = [m EXCEPT !.version = s.version + 1,
                               !.last_sequence = e.sequence,
                               !.last_observed_at = e.command.now, !.receipts = q]
  BY DEF Accept
<1> HIDE DEF m, q
<1>5. /\ Accept(s, e).status = m.status
      /\ Accept(s, e).active_lease = m.active_lease
      /\ Accept(s, e).pending_intent = m.pending_intent
      /\ Accept(s, e).next_epoch = m.next_epoch
      /\ Accept(s, e).recovery_claim_pending = m.recovery_claim_pending
  BY <1>2, <1>4 DEF ProfileCoordinatorState, m
<1> QED BY <1>1, <1>3, <1>5 DEF m

\* Only a claim grants a lease.
LEMMA NoLeaseAppears ==
    ASSUME NEW s, Replayable(s), NEW c \in CoordinatorCommand,
           CommandAccepted(s, c), c.type # "Claim", s.active_lease = {}
    PROVE  CommandEffect(s, c).active_lease = {}
<1>1. s \in ProfileCoordinatorState /\ ~TimeoutDue(s, c.now)
  BY DEF Replayable, SoundAt, TimeoutDue
<1>2. c.type \notin {"Heartbeat", "RenewLease", "Release", "BeginDrain"}
  BY DEF CommandAccepted, HeartbeatAccepted, ReleaseAccepted, BeginDrainAccepted
<1>3. CASE c.type = "IssueLaunchIntent"
  BY <1>1, <1>3 DEF CommandEffect, IssueLaunchIntentEffect, ProfileCoordinatorState
<1>4. CASE c.type = "RecoverAndIssueLaunchIntent"
  BY <1>1, <1>4 DEF CommandEffect, RecoverAndIssueEffect, ProfileCoordinatorState
<1>5. CASE c.type = "Tick"
  BY <1>1, <1>5 DEF CommandEffect, TickEffect, UnlessTimedOut, ProfileCoordinatorState
<1>6. CASE c.type = "MarkRecovered"
  BY <1>1, <1>6 DEF CommandEffect, MarkRecoveredEffect, ProfileCoordinatorState
<1> QED BY <1>2, <1>3, <1>4, <1>5, <1>6, CommandKinds

-----------------------------------------------------------------------------
(* The document as a state machine.                                        *)

\* The inductive invariant: the document can be read, names the last claimant,
\* who holds the lease if there is one, and reserves an uncertain profile.
DocumentInv ==
    /\ Stored(doc)
    /\ LastClaim(doc) = claimant
    /\ Coord.active_lease # {} => \E a : claimant = {a} /\ HeldBy(Coord, a)
    /\ IsOption(claimant)
    /\ \A r \in reserved : r \in claimant /\ ReservedFor(Coord, r)

\* What one request leaves: the state its command leads to, and the claim.
Handled(e) ==
    /\ e \in CoordinatorCommandEnvelope
    /\ \E key \in Keys : e = NextEnvelope(Coord, key, e.command)
    /\ NewlyAccepted(Coord, e)
    /\ Admitted(doc, Coord, e.command)
    /\ Stored(doc')
    /\ Coord' = Accept(Coord, e)
    /\ LastClaim(doc') = IF e.command.type = "Claim" THEN {IdentityOf(e.command)}
                         ELSE LastClaim(doc)
    /\ ended' = ended \cup (WritersIn(Coord) \ WritersIn(Coord'))
    /\ claimant' = IF e.command.type = "Claim" THEN {IdentityOf(e.command)}
                   ELSE claimant
    /\ reserved' = IF Coord'.status = "Uncertain" THEN claimant
                   ELSE IF e.command.type \in {"Claim", "MarkRecovered"} THEN {}
                   ELSE reserved

\* The coordinator of a stored document is sound.
LEMMA CoordReplayable ==
    ASSUME Stored(doc)
    PROVE  Replayable(Coord)
<1>1. Len(doc.journal) \in 0 .. Len(doc.journal)
  BY DEF Stored, StoredCoordinatorDocument
<1> QED BY <1>1, StatesReplayable DEF Coord, Replay

\* A request appends one accepted envelope.
LEMMA ApplyHandles ==
    ASSUME Stored(doc), ApplyEnvelope
    PROVE  \E e : Handled(e)
<1>1. PICK key \in Keys, c \in CoordinatorCommand :
         /\ Appends(doc, Coord, NextEnvelope(Coord, key, c))
         /\ doc' = Appended(doc, NextEnvelope(Coord, key, c))
         /\ ended' = ended \cup (WritersIn(Coord)
                        \ WritersIn(Accept(Coord, NextEnvelope(Coord, key, c))))
         /\ claimant' = IF c.type = "Claim" THEN {IdentityOf(c)} ELSE claimant
         /\ reserved' =
               IF Accept(Coord, NextEnvelope(Coord, key, c)).status = "Uncertain"
               THEN claimant
               ELSE IF c.type \in {"Claim", "MarkRecovered"} THEN {} ELSE reserved
  BY DEF ApplyEnvelope
<1> DEFINE e == NextEnvelope(Coord, key, c)
<1>2. NewlyAccepted(Coord, e) /\ Admitted(doc, Coord, e.command)
  BY <1>1 DEF Appends
<1>3. e \in CoordinatorCommandEnvelope /\ e.command = c
  BY <1>2, CoordReplayable, NextIsEnvelope
<1>4. e = NextEnvelope(Coord, key, e.command)
  BY <1>3
<1>5. /\ doc' = Appended(doc, e)
      /\ ended' = ended \cup (WritersIn(Coord) \ WritersIn(Accept(Coord, e)))
      /\ claimant' = IF e.command.type = "Claim" THEN {IdentityOf(e.command)}
                     ELSE claimant
      /\ reserved' = IF Accept(Coord, e).status = "Uncertain" THEN claimant
                     ELSE IF e.command.type \in {"Claim", "MarkRecovered"} THEN {}
                     ELSE reserved
  BY <1>1, <1>3
<1> HIDE DEF e
<1>6. /\ Stored(Appended(doc, e)) /\ Replay(Appended(doc, e)) = Accept(Coord, e)
      /\ LastClaim(Appended(doc, e)) = IF e.command.type = "Claim"
                                       THEN {IdentityOf(e.command)} ELSE LastClaim(doc)
  BY <1>2, <1>3, AppendStored, AppendClaim DEF Coord
<1>7. Coord' = Accept(Coord, e)
  BY <1>5, <1>6 DEF Coord
<1>8. Handled(e)
  BY <1>2, <1>3, <1>4, <1>5, <1>6, <1>7 DEF Handled
<1> QED BY <1>8

\* The new document.
LEMMA InitDocument == DocumentInit => DocumentInv
<1> SUFFICES ASSUME DocumentInit PROVE DocumentInv
  OBVIOUS
<1>1. /\ doc = NewDocument /\ ended = {} /\ claimant = {} /\ reserved = {}
      /\ doc.checkpoint = {} /\ doc.journal = << >>
  BY DEF DocumentInit, NewDocument
<1>2. RestoreBase(doc) = NewCoordinator
  BY <1>1 DEF RestoreBase
<1>3. Replayable(NewCoordinator)
  <2>1. Len(NewCoordinator.receipts) <= ReceiptLimit
    BY BoundAssumption DEF NewCoordinator
  <2> QED BY <2>1, NewCoordinatorSound DEF Replayable, SoundAt
<1>4. /\ << >> \in Seq(CoordinatorCommandEnvelope) /\ Len(<< >>) = 0
      /\ \A i \in DOMAIN << >> : FALSE
  OBVIOUS
<1>5. doc \in StoredCoordinatorDocument
  BY <1>1, <1>4 DEF NewDocument, StoredCoordinatorDocument
<1>6. Readable(doc)
  BY <1>1, <1>4 DEF Readable
<1>7. Stored(doc)
  BY <1>1, <1>2, <1>3, <1>5, <1>6 DEF Stored, IsOption
<1>8. Coord = NewCoordinator
  <2>1. Coord = StateAfter(doc, 0)
    BY <1>1, <1>4 DEF Coord, Replay
  <2> QED BY <1>2, <2>1, ReplayLaw
<1>9. LastClaim(doc) = {}
  <2>1. LastClaim(doc) = LastClaimOf(<< >>, {})
    BY <1>1 DEF LastClaim
  <2>2. \A u \in 1 .. Len(<< >>) : FALSE
    BY <1>4
  <2>3. LastClaimOf(<< >>, {}) = UNION {x.last_claim : x \in {}}
    <3> DEFINE j == << >>
    <3>1. /\ j \in Seq(CoordinatorCommandEnvelope)
          /\ \A u \in 1 .. Len(j) : j[u].command.type # "Claim"
      BY <1>4, <2>2
    <3> HIDE DEF j
    <3>2. LastClaimOf(j, {}) = UNION {x.last_claim : x \in {}}
      BY <3>1, LastOfCheckpoint
    <3> QED BY <3>2 DEF j
  <2> QED BY <2>1, <2>3
<1> QED BY <1>1, <1>7, <1>8, <1>9 DEF DocumentInv, NewCoordinator, IsOption

\* A request keeps the reservation, and a claim respects it.
LEMMA HandledReserves ==
    ASSUME DocumentInv, NEW e, Handled(e)
    PROVE  /\ ClaimReserved
           /\ \A r \in reserved' : r \in claimant' /\ ReservedFor(Coord', r)
<1> DEFINE s == Coord
           c == e.command
           n == Accept(s, e)
<1>1. /\ Replayable(s) /\ e \in CoordinatorCommandEnvelope /\ NewlyAccepted(s, e)
      /\ Coord' = n
  BY CoordReplayable DEF DocumentInv, Handled
<1>2. /\ c \in CoordinatorCommand /\ CommandAccepted(s, c)
      /\ n.status = CommandEffect(s, c).status
      /\ n.active_lease = CommandEffect(s, c).active_lease
      /\ n.pending_intent = CommandEffect(s, c).pending_intent
      /\ n.next_epoch = CommandEffect(s, c).next_epoch
      /\ n.recovery_claim_pending = CommandEffect(s, c).recovery_claim_pending
      /\ Replayable(n)
  BY <1>1, AcceptFields
<1> HIDE DEF s, n
<1>3. ASSUME c.type = "Claim", NEW r \in reserved
      PROVE  r.actor_id = c.actor_id /\ r.device_id = c.device_id
  <2>1. ClaimAccepted(s, c)
    BY <1>2, <1>3 DEF CommandAccepted
  <2>2. ReservedFor(s, r)
    BY DEF DocumentInv, s
  <2> QED BY <2>1, <2>2 DEF ClaimAccepted, ReservedFor
<1>4. ClaimReserved
  <2>1. CASE c.type = "Claim"
    <3>1. claimant' = {IdentityOf(c)}
      BY <2>1 DEF Handled
    <3> QED BY <1>3, <2>1, <3>1 DEF ClaimReserved, IdentityOf
  <2>2. CASE c.type # "Claim"
    <3>1. claimant' = claimant
      BY <2>2 DEF Handled
    <3>2. n.next_epoch = s.next_epoch
      BY <1>1, <1>2, <2>2, LeaseSource
    <3> QED BY <1>1, <3>1, <3>2 DEF ClaimReserved, s
  <2> QED BY <2>1, <2>2
<1>5. ASSUME NEW r \in reserved'
      PROVE  r \in claimant' /\ ReservedFor(n, r)
  <2>1. CASE n.status = "Uncertain"
    <3>1. reserved' = claimant
      BY <1>1, <2>1 DEF Handled
    <3>2. c.type # "Claim"
      <4> SUFFICES ASSUME c.type = "Claim" PROVE FALSE
        OBVIOUS
      <4>1. CommandEffect(s, c).status = "Active"
        BY <1>1 DEF CommandEffect, ClaimEffect, Replayable, SoundAt,
                    ProfileCoordinatorState
      <4> QED BY <1>2, <2>1, <4>1
    <3>3. claimant' = claimant
      BY <3>2 DEF Handled
    <3>4. n.active_lease = {} /\ n.pending_intent = {}
      BY <1>2, <2>1 DEF Replayable, SoundAt, Restorable
    <3>5. r \in claimant'
      BY <1>5, <3>1, <3>3
    <3>6. \A i \in n.pending_intent : i.actor_id = r.actor_id /\ i.device_id = r.device_id
      BY <3>4
    <3>7. n.status = "Uncertain" \/ (n.status = "Idle" /\ n.recovery_claim_pending)
      BY <2>1
    <3>8. ReservedFor(n, r)
      BY <3>4, <3>6, <3>7 DEF ReservedFor
    <3> QED BY <3>5, <3>8
  <2>2. CASE n.status # "Uncertain"
    <3>1. c.type \notin {"Claim", "MarkRecovered"} /\ reserved' = reserved
      BY <1>1, <2>2 DEF Handled
    <3>2. claimant' = claimant
      BY <3>1 DEF Handled
    <3>3. r \in claimant /\ ReservedFor(s, r)
      BY <3>1 DEF DocumentInv, s
    <3>4. ASSUME c \in LaunchCommand
          PROVE  c.actor_id = r.actor_id /\ c.device_id = r.device_id
      <4>1. c.type \in {"IssueLaunchIntent", "RecoverAndIssueLaunchIntent"}
        BY <3>4 DEF LaunchCommand
      <4>2. c.type = "IssueLaunchIntent" => s.recovery_claim_pending
        BY <1>2, <3>3 DEF CommandAccepted, IssueLaunchIntentAccepted, ReservedFor
      <4>3. LastClaimMatches(doc, c)
        BY <4>1, <4>2 DEF Handled, Admitted, s
      <4>4. PICK k \in claimant : k.actor_id = c.actor_id /\ k.device_id = c.device_id
        BY <4>3 DEF LastClaimMatches, DocumentInv
      <4>5. k = r
        BY <3>3 DEF DocumentInv, IsOption
      <4> QED BY <4>4, <4>5
    <3> HIDE DEF c
    <3>5. ReservedFor(CommandEffect(s, c), r)
      BY <1>1, <1>2, <3>1, <3>3, <3>4, ReservationKept
    <3> QED BY <1>2, <3>2, <3>3, <3>5 DEF ReservedFor
  <2> QED BY <2>1, <2>2
<1> QED BY <1>1, <1>4, <1>5

\* Every request preserves the invariant of the document.
LEMMA NextDocument == DocumentInv /\ [DocumentNext]_docVars => DocumentInv'
<1> SUFFICES ASSUME DocumentInv, [DocumentNext]_docVars PROVE DocumentInv'
  OBVIOUS
<1>1. CASE UNCHANGED docVars
  BY <1>1 DEF DocumentInv, docVars, Coord
<1>2. CASE DocumentNext
  <2>1. PICK e : Handled(e)
    BY <1>2, ApplyHandles DEF DocumentNext, DocumentInv
  <2> DEFINE c == e.command
  <2>2. Stored(doc') /\ LastClaim(doc') = claimant'
    BY <2>1 DEF Handled, DocumentInv
  <2>3. IsOption(claimant')
    BY <2>1 DEF Handled, DocumentInv, IsOption
  <2>4. \A r \in reserved' : r \in claimant' /\ ReservedFor(Coord', r)
    BY <2>1, HandledReserves
  <2>5. Coord'.active_lease # {} => \E a : claimant' = {a} /\ HeldBy(Coord', a)
    <3>1. /\ Replayable(Coord) /\ c \in CoordinatorCommand /\ CommandAccepted(Coord, c)
          /\ Coord'.active_lease = CommandEffect(Coord, c).active_lease
      BY <2>1, CoordReplayable, AcceptFields DEF Handled, DocumentInv
    <3>2. CASE c.type = "Claim"
      <4>1. HeldBy(CommandEffect(Coord, c), c)
        BY <3>1, <3>2, LeaseSource
      <4>2. HeldBy(Coord', IdentityOf(c))
        BY <3>1, <4>1 DEF HeldBy, IdentityOf
      <4>3. claimant' = {IdentityOf(c)}
        BY <2>1, <3>2 DEF Handled
      <4> QED BY <4>2, <4>3
    <3>3. CASE c.type # "Claim"
      <4>1. claimant' = claimant
        BY <2>1, <3>3 DEF Handled
      <4>2. \A a : HeldBy(Coord, a) => HeldBy(CommandEffect(Coord, c), a)
        BY <3>1, <3>3, LeaseSource
      <4>3. ASSUME Coord'.active_lease # {} PROVE Coord.active_lease # {}
        <5> SUFFICES ASSUME Coord.active_lease = {} PROVE FALSE
          OBVIOUS
        <5>1. CommandEffect(Coord, c).active_lease = {}
          BY <3>1, <3>3, NoLeaseAppears
        <5> QED BY <3>1, <4>3, <5>1
      <4>4. SUFFICES ASSUME Coord'.active_lease # {}
                     PROVE  \E a : claimant' = {a} /\ HeldBy(Coord', a)
        OBVIOUS
      <4>5. PICK a : claimant = {a} /\ HeldBy(Coord, a)
        BY <4>3, <4>4 DEF DocumentInv
      <4>6. HeldBy(Coord', a)
        BY <3>1, <4>2, <4>5 DEF HeldBy
      <4> QED BY <4>1, <4>5, <4>6
    <3> QED BY <3>2, <3>3
  <2> QED BY <2>2, <2>3, <2>4, <2>5 DEF DocumentInv
<1> QED BY <1>1, <1>2

\* The inductive invariant holds in every behaviour of the document.
THEOREM DocumentInductive == DocumentSpec => []DocumentInv
BY InitDocument, NextDocument, PTL DEF DocumentSpec

\* The stored document can always be read back, and no compaction is refused.
THEOREM DocumentsReadable == DocumentSpec => []DocumentReadable
<1>1. DocumentInv => DocumentReadable
  <2> SUFFICES ASSUME DocumentInv PROVE DocumentReadable
    OBVIOUS
  <2>1. Stored(doc) /\ Replayable(Coord)
    BY CoordReplayable DEF DocumentInv
  <2>2. ASSUME NEW key \in Keys, NEW c \in CoordinatorCommand,
               CompactionDue(Pushed(doc, NextEnvelope(Coord, key, c))),
               NewlyAccepted(Coord, NextEnvelope(Coord, key, c))
        PROVE  Verified(Pushed(doc, NextEnvelope(Coord, key, c)))
    <3> DEFINE e == NextEnvelope(Coord, key, c)
    <3>1. e \in CoordinatorCommandEnvelope
      BY <2>1, <2>2, NextIsEnvelope
    <3>2. NewlyAccepted(Replay(doc), e) /\ CompactionDue(Pushed(doc, e))
      BY <2>2 DEF Coord
    <3> HIDE DEF e
    <3>3. Verified(Pushed(doc, e))
      BY <2>1, <3>1, <3>2, AppendStored
    <3> QED BY <3>3 DEF e
  <2> QED BY <2>1, <2>2 DEF DocumentReadable, Stored
<1> QED BY <1>1, DocumentInductive, PTL

\* Journal and checkpoint prove the provenance of the live lease.
THEOREM ClaimsProvenance == DocumentSpec => []ClaimProvenance
<1>1. DocumentInv => ClaimProvenance
  <2> SUFFICES ASSUME DocumentInv PROVE ClaimProvenance
    OBVIOUS
  <2>1. ASSUME Coord.active_lease # {}, NEW id \in ClaimIdentity
        PROVE  ActiveClaimMatches(doc, id) <=> id \in claimant
    <3>1. PICK a : claimant = {a} /\ HeldBy(Coord, a)
      BY <2>1 DEF DocumentInv
    <3>2. Stored(doc) /\ LastClaim(doc) = {a}
      BY <3>1 DEF DocumentInv
    <3> QED BY <2>1, <3>1, <3>2, LeaseProvenance DEF Coord
  <2> QED BY <2>1 DEF ClaimProvenance, DocumentInv
<1> QED BY <1>1, DocumentInductive, PTL

\* An uncertain profile is next claimed by its last claimant, unless the owner
\* recovered it.
THEOREM UncertainReserved == DocumentSpec => UncertainReservedForClaimant
<1>1. DocumentInv /\ [DocumentNext]_docVars => [ClaimReserved]_docVars
  <2> SUFFICES ASSUME DocumentInv, DocumentNext PROVE ClaimReserved
    OBVIOUS
  <2>1. PICK e : Handled(e)
    BY ApplyHandles DEF DocumentNext, DocumentInv
  <2> QED BY <2>1, HandledReserves
<1> QED BY <1>1, DocumentInductive, PTL DEF DocumentSpec, UncertainReservedForClaimant

-----------------------------------------------------------------------------
(* Replaying the document implements the coordinator.  The instance has its *)
(* own copy of the transition function, which is the same function.         *)

\* The commands of the instance, and its initial state.
LEMMA SameTypes ==
    /\ Replayed!LaunchCommand = LaunchCommand
    /\ Replayed!ClaimCommand = ClaimCommand
    /\ Replayed!HeartbeatCommand = HeartbeatCommand
    /\ Replayed!ReleaseCommand = ReleaseCommand
    /\ Replayed!PlainCommand = PlainCommand
    /\ Replayed!NewCoordinator = NewCoordinator
<1>1. Replayed!Time = Time /\ Replayed!Disposition = Disposition
  BY DEF Replayed!Time, Time, Replayed!Disposition, Disposition
<1>2. Replayed!LaunchCommand = LaunchCommand
  BY <1>1 DEF Replayed!LaunchCommand, LaunchCommand
<1>3. Replayed!ClaimCommand = ClaimCommand
  BY <1>1 DEF Replayed!ClaimCommand, ClaimCommand
<1>4. Replayed!HeartbeatCommand = HeartbeatCommand
  BY <1>1 DEF Replayed!HeartbeatCommand, HeartbeatCommand
<1>5. Replayed!ReleaseCommand = ReleaseCommand
  BY <1>1 DEF Replayed!ReleaseCommand, ReleaseCommand
<1>6. Replayed!PlainCommand = PlainCommand
  BY <1>1 DEF Replayed!PlainCommand, PlainCommand
<1>7. Replayed!NewCoordinator = NewCoordinator
  BY DEF Replayed!NewCoordinator, NewCoordinator
<1> QED BY <1>2, <1>3, <1>4, <1>5, <1>6, <1>7

\* The deadlines of the instance.
LEMMA SameTimeouts ==
    ASSUME NEW s, NEW now
    PROVE  /\ Replayed!TimeoutDue(s, now) <=> TimeoutDue(s, now)
           /\ Replayed!TimeoutOutcome(s, now) = TimeoutOutcome(s, now)
           /\ Replayed!TimedOut(s) = TimedOut(s)
           /\ Replayed!IntentExpired(s, now) <=> IntentExpired(s, now)
           /\ Replayed!NoLiveIntent(s, now) <=> NoLiveIntent(s, now)
           /\ \A next : Replayed!UnlessTimedOut(s, now, next)
                           = UnlessTimedOut(s, now, next)
<1>1. /\ Replayed!DrainDue(s, now) <=> DrainDue(s, now)
      /\ Replayed!HardDue(s, now) <=> HardDue(s, now)
      /\ Replayed!IdleDue(s, now) <=> IdleDue(s, now)
  BY DEF Replayed!DrainDue, DrainDue, Replayed!HardDue, HardDue,
         Replayed!IdleDue, IdleDue
<1>2. /\ Replayed!TimeoutDue(s, now) <=> TimeoutDue(s, now)
      /\ Replayed!TimeoutOutcome(s, now) = TimeoutOutcome(s, now)
  BY <1>1 DEF Replayed!TimeoutDue, TimeoutDue, Replayed!TimeoutOutcome,
              TimeoutOutcome
<1>3. Replayed!TimedOut(s) = TimedOut(s)
  BY DEF Replayed!TimedOut, TimedOut
<1>4. /\ Replayed!IntentExpired(s, now) <=> IntentExpired(s, now)
      /\ Replayed!NoLiveIntent(s, now) <=> NoLiveIntent(s, now)
  BY DEF Replayed!IntentExpired, IntentExpired, Replayed!NoLiveIntent, NoLiveIntent
<1>5. \A next : Replayed!UnlessTimedOut(s, now, next) = UnlessTimedOut(s, now, next)
  BY <1>2, <1>3 DEF Replayed!UnlessTimedOut, UnlessTimedOut
<1> QED BY <1>2, <1>3, <1>4, <1>5

\* The instance accepts the same commands.
LEMMA SameAccepted ==
    ASSUME NEW s, NEW c \in CoordinatorCommand
    PROVE  Replayed!CommandAccepted(s, c) <=> CommandAccepted(s, c)
<1>1. /\ \A l : Replayed!AcceptsWriter(l, c) <=> AcceptsWriter(l, c)
      /\ \A a, b : Replayed!Fits(a, b) <=> Fits(a, b)
  BY DEF Replayed!AcceptsWriter, AcceptsWriter, Replayed!Fits, Fits
<1>2. Replayed!IssueLaunchIntentAccepted(s, c) <=> IssueLaunchIntentAccepted(s, c)
  BY SameTimeouts DEF Replayed!IssueLaunchIntentAccepted, IssueLaunchIntentAccepted
<1>3. Replayed!RecoverAndIssueAccepted(s, c) <=> RecoverAndIssueAccepted(s, c)
  BY SameTimeouts DEF Replayed!RecoverAndIssueAccepted, RecoverAndIssueAccepted
<1>4. Replayed!ClaimAccepted(s, c) <=> ClaimAccepted(s, c)
  BY <1>1 DEF Replayed!ClaimAccepted, ClaimAccepted
<1>5. Replayed!HeartbeatAccepted(s, c) <=> HeartbeatAccepted(s, c)
  BY <1>1, SameTimeouts DEF Replayed!HeartbeatAccepted, HeartbeatAccepted
<1>6. Replayed!ReleaseAccepted(s, c) <=> ReleaseAccepted(s, c)
  BY <1>1 DEF Replayed!ReleaseAccepted, ReleaseAccepted
<1>7. Replayed!BeginDrainAccepted(s, c) <=> BeginDrainAccepted(s, c)
  BY <1>1, SameTimeouts DEF Replayed!BeginDrainAccepted, BeginDrainAccepted
<1>8. Replayed!MarkRecoveredAccepted(s, c) <=> MarkRecoveredAccepted(s, c)
  BY DEF Replayed!MarkRecoveredAccepted, MarkRecoveredAccepted
<1> QED BY <1>2, <1>3, <1>4, <1>5, <1>6, <1>7, <1>8, CommandKinds
           DEF Replayed!CommandAccepted, CommandAccepted

\* They have the same effect in the instance.
LEMMA SameEffect ==
    ASSUME NEW s, NEW c \in CoordinatorCommand
    PROVE  Replayed!CommandEffect(s, c) = CommandEffect(s, c)
<1>1. /\ \A a, b : Replayed!Least(a, b) = Least(a, b)
      /\ Replayed!IntentOf(c) = IntentOf(c)
      /\ \A epoch : Replayed!LeaseAt(c, epoch) = LeaseAt(c, epoch)
  BY DEF Replayed!Least, Least, Replayed!IntentOf, IntentOf, Replayed!LeaseAt,
         LeaseAt
<1>2. Replayed!IssueLaunchIntentEffect(s, c) = IssueLaunchIntentEffect(s, c)
  BY <1>1 DEF Replayed!IssueLaunchIntentEffect, IssueLaunchIntentEffect
<1>3. Replayed!RecoverAndIssueEffect(s, c) = RecoverAndIssueEffect(s, c)
  BY <1>1 DEF Replayed!RecoverAndIssueEffect, RecoverAndIssueEffect
<1>4. Replayed!ClaimEffect(s, c) = ClaimEffect(s, c)
  BY <1>1 DEF Replayed!ClaimEffect, ClaimEffect
<1>5. Replayed!HeartbeatEffect(s, c) = HeartbeatEffect(s, c)
  <2>1. \A l : Replayed!RefreshedLease(l, c) = RefreshedLease(l, c)
    BY <1>1 DEF Replayed!RefreshedLease, RefreshedLease
  <2>2. {Replayed!RefreshedLease(l, c) : l \in s.active_lease}
          = {RefreshedLease(l, c) : l \in s.active_lease}
    BY <2>1
  <2> QED BY <2>2, SameTimeouts DEF Replayed!HeartbeatEffect, HeartbeatEffect
<1>6. Replayed!ReleaseEffect(s, c) = ReleaseEffect(s, c)
  BY SameTimeouts DEF Replayed!ReleaseEffect, ReleaseEffect
<1>7. Replayed!BeginDrainEffect(s, c) = BeginDrainEffect(s, c)
  <2>1. {Replayed!Least(c.now + DrainTimeoutMs, l.hard_expires_at) : l \in s.active_lease}
          = {Least(c.now + DrainTimeoutMs, l.hard_expires_at) : l \in s.active_lease}
    BY <1>1
  <2> QED BY <2>1, SameTimeouts DEF Replayed!BeginDrainEffect, BeginDrainEffect
<1>8. Replayed!TickEffect(s, c) = TickEffect(s, c)
  BY SameTimeouts DEF Replayed!TickEffect, TickEffect
<1>9. Replayed!MarkRecoveredEffect(s, c) = MarkRecoveredEffect(s, c)
  BY DEF Replayed!MarkRecoveredEffect, MarkRecoveredEffect
<1> QED BY <1>2, <1>3, <1>4, <1>5, <1>6, <1>7, <1>8, <1>9, CommandKinds
           DEF Replayed!CommandEffect, CommandEffect

\* An envelope is accepted alike, to the same state.
LEMMA SameApply ==
    ASSUME NEW s, NEW e \in CoordinatorCommandEnvelope
    PROVE  /\ Replayed!NewlyAccepted(s, e) <=> NewlyAccepted(s, e)
           /\ Replayed!Accept(s, e) = Accept(s, e)
<1>1. e.command \in CoordinatorCommand
  BY DEF CoordinatorCommandEnvelope
<1>2. Replayed!NewlyAccepted(s, e) <=> NewlyAccepted(s, e)
  <2>1. Replayed!KeySeen(s, e) <=> KeySeen(s, e)
    BY DEF Replayed!KeySeen, KeySeen
  <2>2. Replayed!InOrder(s, e) <=> InOrder(s, e)
    BY DEF Replayed!InOrder, InOrder, Replayed!Expected, Expected
  <2> QED BY <1>1, <2>1, <2>2, SameAccepted DEF Replayed!NewlyAccepted, NewlyAccepted
<1>3. Replayed!CommandOutcome(s, e.command) = CommandOutcome(s, e.command)
  BY SameTimeouts DEF Replayed!CommandOutcome, CommandOutcome
<1>4. Replayed!ReceiptOf(s, e) = ReceiptOf(s, e)
  BY <1>3 DEF Replayed!ReceiptOf, ReceiptOf
<1>5. \A q, r : Replayed!Remember(q, r) = Remember(q, r)
  BY DEF Replayed!Remember, Remember
<1>6. Replayed!CommandEffect(s, e.command) = CommandEffect(s, e.command)
  BY <1>1, SameEffect
<1>7. Replayed!Accept(s, e) = Accept(s, e)
  BY <1>4, <1>5, <1>6 DEF Replayed!Accept, Accept
<1> QED BY <1>2, <1>7

\* The writer credentials of the instance.
LEMMA SameWriters ==
    ASSUME NEW s
    PROVE  Replayed!WritersOf(s) = WritersIn(s)
BY DEF Replayed!WritersOf, Replayed!WriterOf, WritersIn

\* A request the document handles is one that the coordinator accepts.
LEMMA HandledSubmits ==
    ASSUME NEW e, Handled(e), NEW C, e.command \in C
    PROVE  Replayed!Submit(C)
<1>1. PICK key \in Keys : e = NextEnvelope(Coord, key, e.command)
  BY DEF Handled
<1>2. e = Replayed!NextEnvelope(Coord, key, e.command)
  BY <1>1 DEF Replayed!NextEnvelope, NextEnvelope
<1>3. /\ e \in CoordinatorCommandEnvelope /\ NewlyAccepted(Coord, e)
      /\ Coord' = Accept(Coord, e)
      /\ ended' = ended \cup (WritersIn(Coord) \ WritersIn(Coord'))
  BY DEF Handled
<1>4. /\ Replayed!NewlyAccepted(Coord, e)
      /\ Coord' = Replayed!Accept(Coord, e)
      /\ ended' = ended \cup (Replayed!WritersOf(Coord) \ Replayed!WritersOf(Coord'))
  BY <1>3, SameApply, SameWriters
<1>5. \E k \in Keys, c \in C :
         /\ Replayed!NewlyAccepted(Coord, Replayed!NextEnvelope(Coord, k, c))
         /\ Coord' = Replayed!Accept(Coord, Replayed!NextEnvelope(Coord, k, c))
  BY <1>2, <1>4
<1> QED BY <1>4, <1>5 DEF Replayed!Submit

\* Compaction is invisible: every behaviour of the document, replayed, is one
\* of the coordinator with the receipts of its last ReceiptLimit commands.
THEOREM DocumentImplements == DocumentSpec => DocumentImplementsCoordinator
<1>1. DocumentInit => Replayed!Init
  <2> SUFFICES ASSUME DocumentInit PROVE Replayed!Init
    OBVIOUS
  <2>1. RestoreBase(doc) = NewCoordinator /\ Len(doc.journal) = 0 /\ ended = {}
    BY DEF DocumentInit, NewDocument, RestoreBase
  <2>2. Coord = NewCoordinator
    BY <2>1, ReplayLaw DEF Coord, Replay
  <2> QED BY <2>1, <2>2, SameTypes DEF Replayed!Init
<1>2. DocumentInv /\ [DocumentNext]_docVars => [Replayed!Next]_(Replayed!vars)
  <2> SUFFICES ASSUME DocumentInv, [DocumentNext]_docVars
               PROVE  [Replayed!Next]_(Replayed!vars)
    OBVIOUS
  <2>1. CASE UNCHANGED docVars
    BY <2>1 DEF docVars, Replayed!vars, Coord
  <2>2. CASE DocumentNext
    <3>1. PICK e : Handled(e)
      BY <2>2, ApplyHandles DEF DocumentNext, DocumentInv
    <3> DEFINE c == e.command
    <3>2. c \in CoordinatorCommand
      BY <3>1 DEF Handled, CoordinatorCommandEnvelope
    <3>3. \A C : c \in C => Replayed!Submit(C)
      BY <3>1, HandledSubmits
    <3> HIDE DEF c
    <3>4. Replayed!Next
      BY <3>2, <3>3, CommandKinds, SameTypes
         DEF Replayed!Next, Replayed!IssueLaunchIntent,
             Replayed!RecoverAndIssueLaunchIntent, Replayed!Claim,
             Replayed!Heartbeat, Replayed!RenewLease, Replayed!Release,
             Replayed!BeginDrain, Replayed!Tick, Replayed!MarkRecovered,
             Replayed!OfType
    <3> QED BY <3>4
  <2> QED BY <2>1, <2>2
<1> QED BY <1>1, <1>2, DocumentInductive, PTL
        DEF DocumentSpec, DocumentImplementsCoordinator, Replayed!Spec

-----------------------------------------------------------------------------
(* A Bridge's confirmed window, and what a command does to it.              *)

\* s has the lease that w was confirmed for, and no drain ends it earlier.
Backs(s, w) ==
    /\ \E l \in s.active_lease :
          AcceptsWriter(l, w) /\ w.idle <= l.idle_expires_at
                              /\ w.hard <= l.hard_expires_at
    /\ \A by \in s.drain_deadline : Deadline(w) <= by

\* The session t has the lease, or left the profile uncertain.
Unsettled(s, t) ==
    (\E l \in s.active_lease : l.session_id = t) \/ s.status = "Uncertain"

\* Inside the window nothing ends the lease but the release of its own session.
LEMMA WindowKept ==
    ASSUME NEW s, SoundAt(s, s.last_observed_at), NEW c \in CoordinatorCommand,
           c.now >= s.last_observed_at, CommandAccepted(s, c),
           NEW w, w.idle \in Time, w.hard \in Time, c.now < Deadline(w),
           Backs(s, w), ~(c.type = "Release" /\ c.session_id = w.session_id)
    PROVE  Backs(CommandEffect(s, c), w)
<1>1. PICK l \in s.active_lease :
         AcceptsWriter(l, w) /\ w.idle <= l.idle_expires_at
                             /\ w.hard <= l.hard_expires_at
  BY DEF Backs
<1>2. /\ s \in ProfileCoordinatorState /\ l \in CoordinatorLease /\ s.active_lease = {l}
      /\ s.last_observed_at \in Time /\ c.now \in Time
  BY <1>1, CommandKinds DEF SoundAt, OptionsOf, IsOption, ProfileCoordinatorState
<1>3. /\ l.idle_expires_at \in Time /\ l.hard_expires_at \in Time
      /\ l.last_heartbeat_at \in Time
      /\ l.idle_expires_at <= l.hard_expires_at
      /\ l.last_heartbeat_at <= s.last_observed_at
      /\ l.idle_expires_at <= l.last_heartbeat_at + IdleTimeoutMs
      /\ l.hard_expires_at <= l.last_heartbeat_at + HardTimeoutMs
  <2>1. RestorableLease(l)
    BY <1>1 DEF SoundAt, Restorable
  <2> QED BY <1>1, <1>2, <2>1, BoundAssumption
          DEF SoundAt, DeadlinesAt, CoordinatorLease, RestorableLease, Time
<1>4. Deadline(w) <= w.idle /\ Deadline(w) <= w.hard /\ Deadline(w) \in Time
  BY BoundAssumption DEF Deadline, Least, Time
<1>5. c.now < l.idle_expires_at /\ c.now < l.hard_expires_at
  BY <1>1, <1>2, <1>3, <1>4, BoundAssumption DEF Time
<1>6. ~TimeoutDue(s, c.now)
  <2>1. ~HardDue(s, c.now) /\ ~IdleDue(s, c.now)
    BY <1>2, <1>3, <1>5, BoundAssumption DEF HardDue, IdleDue, Time
  <2>2. ASSUME NEW by \in s.drain_deadline PROVE ~(c.now >= by)
    <3>1. by \in Time /\ Deadline(w) <= by
      BY <1>2 DEF Backs, ProfileCoordinatorState
    <3> QED BY <1>2, <1>4, <3>1, BoundAssumption DEF Time
  <2> QED BY <2>1, <2>2 DEF TimeoutDue, DrainDue
<1>7. s.pending_intent = {} /\ s.status \in {"Active", "Draining"}
  BY <1>1 DEF SoundAt, Restorable
<1>8. CASE c.type \in {"IssueLaunchIntent", "RecoverAndIssueLaunchIntent", "Claim",
                       "MarkRecovered"}
  BY <1>2, <1>8 DEF CommandAccepted, IssueLaunchIntentAccepted,
     RecoverAndIssueAccepted, ClaimAccepted, MarkRecoveredAccepted
<1>9. CASE c \in HeartbeatCommand /\ c.type \in {"Heartbeat", "RenewLease"}
  <2> DEFINE r == RefreshedLease(l, c)
             hard == IF c.type = "RenewLease" THEN c.now + HardTimeoutMs
                                              ELSE l.hard_expires_at
  <2>1. CommandEffect(s, c) = [s EXCEPT !.active_lease = {r}]
    BY <1>2, <1>6, <1>9 DEF CommandEffect, HeartbeatEffect, UnlessTimedOut
  <2>2. /\ r.session_id = l.session_id /\ r.epoch = l.epoch
        /\ r.fencing_token = l.fencing_token
        /\ r.hard_expires_at = hard
        /\ r.idle_expires_at = Least(c.now + IdleTimeoutMs, hard)
    BY <1>2 DEF RefreshedLease, CoordinatorLease
  <2> HIDE DEF r
  <2>3. hard \in Nat /\ l.hard_expires_at <= hard
    BY <1>2, <1>3, ConfigAssumption, BoundAssumption DEF Time
  <2>4. l.idle_expires_at <= c.now + IdleTimeoutMs /\ l.idle_expires_at <= hard
    BY <1>2, <1>3, <2>3, ConfigAssumption, BoundAssumption DEF Time
  <2> HIDE DEF hard
  <2>5. l.idle_expires_at <= r.idle_expires_at /\ r.idle_expires_at \in Nat
    BY <1>2, <2>2, <2>3, <2>4, ConfigAssumption, BoundAssumption DEF Least, Time
  <2>6. w.idle <= r.idle_expires_at /\ w.hard <= r.hard_expires_at
    BY <1>1, <1>3, <2>2, <2>3, <2>5, BoundAssumption DEF Time
  <2>7. AcceptsWriter(r, w)
    BY <1>1, <2>2 DEF AcceptsWriter
  <2>8. /\ CommandEffect(s, c).active_lease = {r}
        /\ CommandEffect(s, c).drain_deadline = s.drain_deadline
    BY <1>2, <2>1 DEF ProfileCoordinatorState
  <2> QED BY <2>6, <2>7, <2>8 DEF Backs
<1>10. CASE c.type = "Release"
  <2>1. AcceptsWriter(l, c)
    BY <1>2, <1>10 DEF CommandAccepted, ReleaseAccepted
  <2> QED BY <1>1, <1>10, <2>1 DEF AcceptsWriter
<1>11. CASE c.type = "BeginDrain"
  <2> DEFINE by == Least(c.now + DrainTimeoutMs, l.hard_expires_at)
  <2>1. CommandEffect(s, c) = [s EXCEPT !.status = "Draining", !.drain_deadline = {by}]
    BY <1>2, <1>6, <1>11 DEF CommandEffect, BeginDrainEffect, UnlessTimedOut
  <2>2. l.idle_expires_at <= c.now + IdleTimeoutMs
    BY <1>2, <1>3, ConfigAssumption, BoundAssumption DEF Time
  <2>3. Deadline(w) <= c.now + DrainTimeoutMs
    BY <1>1, <1>2, <1>3, <1>4, <2>2, DrainAssumption, ConfigAssumption,
       BoundAssumption DEF Time
  <2>4. Deadline(w) <= l.hard_expires_at
    BY <1>1, <1>3, <1>4, BoundAssumption DEF Time
  <2>5. Deadline(w) <= by
    BY <2>3, <2>4 DEF Least
  <2> HIDE DEF by
  <2>6. /\ CommandEffect(s, c).active_lease = {l}
        /\ CommandEffect(s, c).drain_deadline = {by}
    BY <1>2, <2>1 DEF ProfileCoordinatorState
  <2> QED BY <1>1, <2>5, <2>6 DEF Backs
<1>12. CASE c.type = "Tick"
  <2>1. CommandEffect(s, c) = s
    BY <1>6, <1>7, <1>12 DEF CommandEffect, TickEffect, IntentExpired, UnlessTimedOut
  <2> QED BY <2>1
<1> QED BY <1>8, <1>9, <1>10, <1>11, <1>12, CommandKinds

\* A session is settled by its own release, Clean or Dirty, or by a recovery.
LEMMA UnsettledKept ==
    ASSUME NEW s, SoundAt(s, s.last_observed_at), NEW c \in CoordinatorCommand,
           CommandAccepted(s, c), NEW t, Unsettled(s, t),
           c.type \notin {"RecoverAndIssueLaunchIntent", "MarkRecovered"},
           c.type = "Release" => c.session_id # t \/ c.disposition = "Uncertain"
    PROVE  Unsettled(CommandEffect(s, c), t)
<1>1. s \in ProfileCoordinatorState /\ Restorable(s)
  BY DEF SoundAt
<1>2. TimedOut(s).status = "Uncertain"
  BY <1>1 DEF TimedOut, ProfileCoordinatorState
<1>3. CASE s.status = "Uncertain"
  <2>1. s.active_lease = {} /\ ~TimeoutDue(s, c.now)
    BY <1>1, <1>3 DEF Restorable, TimeoutDue
  <2>2. c.type = "Tick"
    BY <1>3, <2>1, CommandKinds DEF CommandAccepted, IssueLaunchIntentAccepted,
       ClaimAccepted, HeartbeatAccepted, ReleaseAccepted, BeginDrainAccepted
  <2>3. CommandEffect(s, c) = s \/ CommandEffect(s, c) = [s EXCEPT !.pending_intent = {}]
    BY <2>1, <2>2 DEF CommandEffect, TickEffect, UnlessTimedOut
  <2>4. CommandEffect(s, c).status = "Uncertain"
    BY <1>1, <1>3, <2>3 DEF ProfileCoordinatorState
  <2> QED BY <2>4 DEF Unsettled
<1>4. CASE s.status # "Uncertain"
  <2>1. PICK l \in s.active_lease : l.session_id = t
    BY <1>4 DEF Unsettled
  <2>2. s.active_lease = {l} /\ l \in CoordinatorLease /\ s.pending_intent = {}
    BY <1>1, <2>1 DEF SoundAt, OptionsOf, IsOption, Restorable, ProfileCoordinatorState
  <2>3. CASE TimeoutDue(s, c.now) /\ c.type \in {"Heartbeat", "RenewLease", "Release",
                                                "BeginDrain", "Tick"}
    <3>1. CommandEffect(s, c) = TimedOut(s)
      BY <2>2, <2>3 DEF CommandEffect, HeartbeatEffect, ReleaseEffect, BeginDrainEffect,
         TickEffect, UnlessTimedOut, IntentExpired
    <3> QED BY <1>2, <3>1 DEF Unsettled
  <2>4. CASE ~TimeoutDue(s, c.now) /\ c.type \in {"Heartbeat", "RenewLease"}
    <3> DEFINE r == RefreshedLease(l, c)
    <3>1. CommandEffect(s, c) = [s EXCEPT !.active_lease = {r}]
      BY <2>2, <2>4 DEF CommandEffect, HeartbeatEffect, UnlessTimedOut
    <3>2. r.session_id = t
      BY <2>1, <2>2 DEF RefreshedLease, CoordinatorLease
    <3> HIDE DEF r
    <3>3. CommandEffect(s, c).active_lease = {r}
      BY <1>1, <3>1 DEF ProfileCoordinatorState
    <3> QED BY <3>2, <3>3 DEF Unsettled
  <2>5. CASE ~TimeoutDue(s, c.now) /\ c.type = "Release"
    <3>1. AcceptsWriter(l, c)
      BY <2>2, <2>5 DEF CommandAccepted, ReleaseAccepted
    <3>2. c.disposition = "Uncertain"
      BY <2>1, <2>5, <3>1 DEF AcceptsWriter
    <3>3. CommandEffect(s, c) = [s EXCEPT !.active_lease = {}, !.pending_intent = {},
                                          !.drain_deadline = {}, !.status = "Uncertain"]
      BY <2>5, <3>2 DEF CommandEffect, ReleaseEffect, UnlessTimedOut
    <3>4. CommandEffect(s, c).status = "Uncertain"
      BY <1>1, <3>3 DEF ProfileCoordinatorState
    <3> QED BY <3>4 DEF Unsettled
  <2>6. CASE ~TimeoutDue(s, c.now) /\ c.type = "BeginDrain"
    <3> DEFINE by == {Least(c.now + DrainTimeoutMs, x.hard_expires_at)
                         : x \in s.active_lease}
    <3>1. CommandEffect(s, c) = [s EXCEPT !.status = "Draining", !.drain_deadline = by]
      BY <2>6 DEF CommandEffect, BeginDrainEffect, UnlessTimedOut
    <3> HIDE DEF by
    <3>2. CommandEffect(s, c).active_lease = s.active_lease
      BY <1>1, <3>1 DEF ProfileCoordinatorState
    <3> QED BY <2>1, <3>2 DEF Unsettled
  <2>7. CASE ~TimeoutDue(s, c.now) /\ c.type = "Tick"
    <3>1. CommandEffect(s, c) = s
      BY <2>2, <2>7 DEF CommandEffect, TickEffect, IntentExpired, UnlessTimedOut
    <3> QED BY <3>1
  <2>8. CASE c.type \in {"IssueLaunchIntent", "Claim"}
    BY <2>1, <2>8 DEF CommandAccepted, IssueLaunchIntentAccepted, ClaimAccepted
  <2> QED BY <2>3, <2>4, <2>5, <2>6, <2>7, <2>8, CommandKinds
<1> QED BY <1>3, <1>4

-----------------------------------------------------------------------------
(* What a Bridge may rely on.                                               *)

\* The coordinator state s, of time t or earlier.  Only the keys of its receipts
\* are other than in the machine above.
SoundBy(s, t) ==
    /\ SoundAt(Checkpoint(s), s.last_observed_at)
    /\ s = WithReceipts(Checkpoint(s), s.receipts)
    /\ s.last_observed_at <= t

\* At time t the lease is still the one that w was confirmed for, or its window
\* is over.
Confirmed(w, s, t) == t < Deadline(w) => Backs(s, w)

\* The data of session id is safe, or the coordinator will not forget it.
Accounted(id, s, safe) == id \in safe \/ Unsettled(s, id)

\* The sessions a Bridge process has or asks for: at most one.
SessionsOf(b) ==
    {k.session_id : k \in b.cursor} \cup {m.request.body.session_id : m \in b.call}

ProcessSound(b) ==
    /\ b \in [stage : Stage, browser : BOOLEAN, healthy : BOOLEAN,
              cursor : SUBSET Cursor, call : SUBSET Message, reply : {b.reply},
              retried : BOOLEAN, next : Time]
    /\ IsOption(b.cursor) /\ IsOption(b.call) /\ IsOption(SessionsOf(b))
    /\ b.cursor = {} <=> b.stage \in {"closed", "claiming"}
    /\ b.stage = "closed" => b.call = {}
    /\ b.call = {} => b.reply = {}
    /\ b.stage \in {"opening", "running", "saving"} =>
          \A m \in b.call : m.request.body.type = "RenewLease"
    /\ \A k \in b.cursor : \A r \in k.pending :
          r.body.type = "RenewLease" /\ r.body.session_id = k.session_id

RepliesSound(b) ==
    \A x \in b.reply : x.ok =>
        /\ x.lease \subseteq CoordinatorLease /\ IsOption(x.lease)
        /\ x.at \in 1 .. MaxVersion

\* Every window that b has been confirmed, or will be if it accepts its reply.
WindowsHold(b, s, t) ==
    b.stage # "releasing" =>
        /\ \A k \in b.cursor : Confirmed(k, s, t)
        /\ \A x \in b.reply : x.ok /\ x.status = "Active" =>
              \A l \in x.lease :
                  l.session_id \in SessionsOf(b) => Confirmed(CursorFrom(x, l), s, t)

\* A browser that is about to run will be missed if it is not saved.
OpeningsSound(b, s, safe) ==
    /\ b.stage = "opening" =>
          \A k \in b.cursor : Accounted(k.session_id, s, safe)
    /\ b.stage = "claiming" =>
          \A x \in b.reply : x.ok => \A l \in x.lease :
              l.session_id \in SessionsOf(b) => Accounted(l.session_id, s, safe)

NotYetRun(b, ran) ==
    b.stage = "claiming" \/ (b.stage = "opening" /\ ~b.browser) =>
        SessionsOf(b) \cap ran = {}

BridgeSound(b, s, t, ran, safe, n) ==
    /\ ProcessSound(b)
    /\ RepliesSound(b)
    /\ SessionsOf(b) \subseteq 1 .. n
    /\ WindowsHold(b, s, t)
    /\ OpeningsSound(b, s, safe)
    /\ NotYetRun(b, ran)

\* A request on the network.  A Clean release is about saved or unused data.
MessageSound(m, ran, safe, n) ==
    /\ m \in Message
    /\ m.request.body.session_id \in 1 .. n
    /\ (m.request.body.type = "Release" /\ m.request.body.disposition = "Clean") =>
          m.request.body.session_id \notin ran \ safe

\* A Bridge whose release is on the network has given its lease up.
Withdrawn(b, m) ==
    m.request.body.type = "Release" /\ m.request.body.session_id \in SessionsOf(b) =>
        b.stage = "releasing"

\* Bridges never share a session.
SessionsApart ==
    \A d, e \in Bridges :
        d # e => SessionsOf(bridge[d]) \cap SessionsOf(bridge[e]) = {}

SessionInv ==
    /\ gate \in BOOLEAN /\ stray \in BOOLEAN
    /\ clock \in 0 .. MaxClock /\ minted \in 0 .. Cardinality(Sessions)
    /\ SoundBy(state, clock)
    /\ bridge = [d \in Bridges |-> bridge[d]]
    /\ \A d \in Bridges :
          BridgeSound(bridge[d], state, clock, used, committed \cup excused, minted)
    /\ SessionsApart
    /\ \A m \in network :
          /\ MessageSound(m, used, committed \cup excused, minted)
          /\ \A d \in Bridges : Withdrawn(bridge[d], m)
    /\ used \subseteq 1 .. minted
    /\ \A id \in used : Accounted(id, state, committed \cup excused)

-----------------------------------------------------------------------------
(* The coordinator, whatever the keys of its receipts.                      *)

\* A sound coordinator and its checkpoint differ in the receipts alone.
LEMMA SoundFields ==
    ASSUME NEW s, NEW t \in Nat, SoundBy(s, t)
    PROVE  LET k == Checkpoint(s)
           IN  /\ SoundAt(k, k.last_observed_at) /\ k \in ProfileCoordinatorState
               /\ s.version = k.version /\ s.last_sequence = k.last_sequence
               /\ s.last_observed_at = k.last_observed_at
               /\ s.next_epoch = k.next_epoch /\ s.status = k.status
               /\ s.pending_intent = k.pending_intent
               /\ s.recovery_claim_pending = k.recovery_claim_pending
               /\ s.active_lease = k.active_lease
               /\ s.drain_deadline = k.drain_deadline
<1> DEFINE k == Checkpoint(s)
<1>1. k \in ProfileCoordinatorState
  BY DEF SoundBy, SoundAt
<1>2. s = [k EXCEPT !.receipts = s.receipts]
  BY DEF SoundBy, WithReceipts
<1>3. SoundAt(k, s.last_observed_at)
  BY DEF SoundBy
<1> HIDE DEF k
<1>4. s.last_observed_at = k.last_observed_at
  BY <1>1, <1>2 DEF ProfileCoordinatorState
<1>5. /\ s.version = k.version /\ s.last_sequence = k.last_sequence
      /\ s.next_epoch = k.next_epoch /\ s.status = k.status
      /\ s.pending_intent = k.pending_intent
      /\ s.recovery_claim_pending = k.recovery_claim_pending
      /\ s.active_lease = k.active_lease /\ s.drain_deadline = k.drain_deadline
  BY <1>1, <1>2 DEF ProfileCoordinatorState
<1> QED BY <1>1, <1>3, <1>4, <1>5 DEF k

\* What the properties read of a sound coordinator.
LEMMA SoundShape ==
    ASSUME NEW s, NEW t \in Nat, SoundBy(s, t)
    PROVE  /\ s.version \in 1 .. MaxVersion /\ s.status \in Status
           /\ s.version = s.last_sequence + 1 /\ s.last_sequence \in Nat
           /\ s.last_observed_at \in Time
           /\ s.active_lease \subseteq CoordinatorLease /\ IsOption(s.active_lease)
           /\ s.drain_deadline \subseteq Time
           /\ s.pending_intent \subseteq PendingLaunchIntent
           /\ s.status = "Idle" => s.active_lease = {}
           /\ s.status = "Active" => s.drain_deadline = {}
<1> DEFINE k == Checkpoint(s)
<1>1. /\ SoundAt(k, k.last_observed_at) /\ k \in ProfileCoordinatorState
      /\ s.version = k.version /\ s.last_sequence = k.last_sequence
      /\ s.last_observed_at = k.last_observed_at
      /\ s.status = k.status /\ s.active_lease = k.active_lease
      /\ s.pending_intent = k.pending_intent
      /\ s.drain_deadline = k.drain_deadline
  BY SoundFields
<1> HIDE DEF k
<1>2. Restorable(k) /\ OptionsOf(k)
  BY <1>1 DEF SoundAt
<1>3. /\ k.version \in 1 .. MaxVersion /\ k.last_sequence \in 0 .. MaxVersion
      /\ k.last_observed_at \in Time /\ k.status \in Status
      /\ k.active_lease \subseteq CoordinatorLease /\ k.drain_deadline \subseteq Time
      /\ k.pending_intent \subseteq PendingLaunchIntent
  BY <1>1 DEF ProfileCoordinatorState
<1> QED BY <1>1, <1>2, <1>3, BoundAssumption DEF Restorable, OptionsOf

\* What a command of time t keeps, for the windows that no release of it ends and
\* the sessions that it does not settle.
Keeps(c, s, n, t) ==
    /\ SoundBy(n, t)
    /\ \A w : (/\ w.idle \in Time /\ w.hard \in Time
               /\ ~(c.type = "Release" /\ c.session_id = w.session_id)
               /\ Confirmed(w, s, t)) => Confirmed(w, n, t)
    /\ \A id : (/\ c.type \notin {"RecoverAndIssueLaunchIntent", "MarkRecovered"}
                /\ c.type = "Release" =>
                      c.session_id # id \/ c.disposition = "Uncertain"
                /\ Unsettled(s, id)) => Unsettled(n, id)

\* WindowKept and UnsettledKept, for the coordinator of BridgeSession.
LEMMA AcceptKeepsWindows ==
    ASSUME NEW s, NEW t \in Nat, SoundBy(s, t), NEW e,
           e.command \in CoordinatorCommand, e.command.now = t, NewlyAccepted(s, e)
    PROVE  Keeps(e.command, s, Accept(s, e), t)
<1> DEFINE c == e.command
           k == Checkpoint(s)
           m == CommandEffect(k, c)
           n == Accept(s, e)
           q == Remember(s.receipts, ReceiptOf(s, e))
           j == Checkpoint(n)
<1>1. /\ SoundAt(k, k.last_observed_at) /\ k \in ProfileCoordinatorState
      /\ s.version = k.version /\ s.last_sequence = k.last_sequence
      /\ s.last_observed_at = k.last_observed_at /\ s.status = k.status
      /\ s.active_lease = k.active_lease /\ s.drain_deadline = k.drain_deadline
  BY SoundFields
<1>2. s = WithReceipts(k, s.receipts)
  BY DEF SoundBy
<1>3. /\ c \in CoordinatorCommand /\ c.now = t /\ t \in Time
      /\ s.version < MaxVersion /\ e.sequence = s.last_sequence + 1
      /\ c.now >= s.last_observed_at /\ CommandAccepted(s, c)
  BY CommandKinds DEF NewlyAccepted, InOrder, Expected
<1> HIDE DEF c, k
<1>4. CommandAccepted(k, c) /\ CommandEffect(s, c) = WithReceipts(m, s.receipts)
  BY <1>1, <1>2, <1>3, ReceiptsUnread
<1>5. SoundAt(m, c.now) /\ m \in ProfileCoordinatorState
  <2>1. SoundAt(m, c.now)
    BY <1>1, <1>3, <1>4, CommandSound
  <2> QED BY <2>1 DEF SoundAt
<1>6. n = [WithReceipts(m, s.receipts) EXCEPT
              !.version = s.version + 1, !.last_sequence = e.sequence,
              !.last_observed_at = c.now, !.receipts = q]
  BY <1>4 DEF Accept, c
<1> HIDE DEF m, n, q
<1>7. /\ n.version = s.version + 1 /\ n.last_sequence = s.last_sequence + 1
      /\ n.last_observed_at = c.now /\ n.status = m.status
      /\ n.active_lease = m.active_lease /\ n.drain_deadline = m.drain_deadline
  BY <1>3, <1>5, <1>6 DEF WithReceipts, ProfileCoordinatorState
<1>8. /\ j = [m EXCEPT !.version = s.version + 1, !.last_sequence = e.sequence,
                       !.last_observed_at = c.now, !.receipts = << >>]
      /\ n = WithReceipts(j, n.receipts)
  BY <1>5, <1>6 DEF WithReceipts, Checkpoint, ProfileCoordinatorState
<1> HIDE DEF j
<1>9. SoundAt(j, c.now)
  <2>1. /\ j.version = s.version + 1 /\ j.last_sequence = s.last_sequence + 1
        /\ j.next_epoch = m.next_epoch /\ j.status = m.status
        /\ j.pending_intent = m.pending_intent
        /\ j.recovery_claim_pending = m.recovery_claim_pending
        /\ j.active_lease = m.active_lease /\ j.drain_deadline = m.drain_deadline
    BY <1>3, <1>5, <1>8 DEF ProfileCoordinatorState
  <2>2. j \in ProfileCoordinatorState
    <3>1. s.version + 1 \in 1 .. MaxVersion /\ e.sequence \in 0 .. MaxVersion
      BY <1>1, <1>3, BoundAssumption DEF SoundAt, Restorable, ProfileCoordinatorState
    <3>2. << >> \in Seq(CommandReceipt)
      OBVIOUS
    <3> QED BY <1>3, <1>5, <1>8, <3>1, <3>2 DEF ProfileCoordinatorState
  <2>3. j.version = j.last_sequence + 1
    BY <1>1, <2>1, BoundAssumption DEF SoundAt, Restorable, ProfileCoordinatorState
  <2>4. Restorable(j) /\ OptionsOf(j) /\ DeadlinesAt(j, c.now)
    BY <1>5, <2>1, <2>3 DEF SoundAt, Restorable, OptionsOf, DeadlinesAt
  <2> QED BY <2>2, <2>4 DEF SoundAt
<1>10. SoundBy(n, t)
  BY <1>3, <1>7, <1>8, <1>9 DEF SoundBy, j
<1>11. ASSUME NEW w, w.idle \in Time, w.hard \in Time,
              ~(c.type = "Release" /\ c.session_id = w.session_id),
              Confirmed(w, s, t), t < Deadline(w)
       PROVE  Backs(n, w)
  <2>1. Backs(k, w)
    BY <1>1, <1>11 DEF Confirmed, Backs
  <2>2. Backs(m, w)
    BY <1>1, <1>3, <1>4, <1>11, <2>1, WindowKept DEF m
  <2> QED BY <1>7, <2>2 DEF Backs
<1>12. ASSUME NEW id, c.type \notin {"RecoverAndIssueLaunchIntent", "MarkRecovered"},
              c.type = "Release" => c.session_id # id \/ c.disposition = "Uncertain",
              Unsettled(s, id)
       PROVE  Unsettled(n, id)
  <2>1. Unsettled(k, id)
    BY <1>1, <1>12 DEF Unsettled
  <2>2. Unsettled(m, id)
    BY <1>1, <1>4, <1>3, <1>12, <2>1, UnsettledKept DEF m
  <2> QED BY <1>7, <2>2 DEF Unsettled
<1> QED BY <1>10, <1>11, <1>12 DEF Keeps, Confirmed, c, n

\* The ingress stamps a request of a Bridge to a command with the time.
LEMMA StampSound ==
    ASSUME NEW r, r.body \in Body, clock \in Time
    PROVE  /\ Stamp(r) \in CoordinatorCommand /\ Stamp(r).now = clock
           /\ Stamp(r).type = r.body.type
           /\ r.body.type = "Release" =>
                 /\ Stamp(r).session_id = r.body.session_id
                 /\ Stamp(r).disposition = r.body.disposition
<1> DEFINE b == r.body
<1>1. b \in Body
  OBVIOUS
<1> HIDE DEF b
<1>2. CASE b.type = "Claim"
  <2>1. /\ b.launch_intent_id \in Intents /\ b.actor_id \in Actors
        /\ b.device_id \in Bridges /\ b.session_id \in Sessions
    BY <1>1, <1>2 DEF Body
  <2>2. b.device_id \in Devices /\ b.session_id \in Fences
    BY <2>1, SessionAssumption, MintAssumption
  <2>3. Stamp(r) = [type |-> "Claim", launch_intent_id |-> b.launch_intent_id,
                    actor_id |-> b.actor_id, device_id |-> b.device_id,
                    session_id |-> b.session_id, fencing_token |-> b.session_id,
                    now |-> clock]
    BY <1>2 DEF Stamp, b
  <2>4. Stamp(r) \in ClaimCommand
    BY <2>1, <2>2, <2>3 DEF ClaimCommand
  <2> QED BY <1>2, <2>3, <2>4 DEF CoordinatorCommand, b
<1>3. CASE b.type = "RenewLease"
  <2>1. /\ b.session_id \in Sessions /\ b.epoch \in 0 .. MaxVersion
        /\ b.fencing_token \in Fences
    BY <1>1, <1>3, BoundAssumption DEF Body
  <2>2. Stamp(r) = [type |-> "RenewLease", session_id |-> b.session_id,
                    epoch |-> b.epoch, fencing_token |-> b.fencing_token,
                    now |-> clock]
    BY <1>3 DEF Stamp, b
  <2>3. Stamp(r) \in HeartbeatCommand
    BY <2>1, <2>2 DEF HeartbeatCommand
  <2> QED BY <1>3, <2>2, <2>3 DEF CoordinatorCommand, b
<1>4. CASE b.type = "Release"
  <2>1. /\ b.session_id \in Sessions /\ b.epoch \in 0 .. MaxVersion
        /\ b.fencing_token \in Fences /\ b.disposition \in Disposition
    BY <1>1, <1>4, BoundAssumption DEF Body, Disposition
  <2>2. Stamp(r) = [type |-> "Release", session_id |-> b.session_id,
                    epoch |-> b.epoch, fencing_token |-> b.fencing_token,
                    disposition |-> b.disposition, now |-> clock]
    BY <1>4 DEF Stamp, b
  <2>3. Stamp(r) \in ReleaseCommand
    BY <2>1, <2>2 DEF ReleaseCommand
  <2> QED BY <1>4, <2>2, <2>3 DEF CoordinatorCommand, b
<1> QED BY <1>1, <1>2, <1>3, <1>4 DEF Body

-----------------------------------------------------------------------------
(* Steps of the coordinator, the network and the clock.                     *)

\* A window that a process has, or that its reply would give it, is of one of its
\* sessions and has proper deadlines.
LEMMA WindowsTyped ==
    ASSUME NEW b, ProcessSound(b), RepliesSound(b)
    PROVE  /\ \A k \in b.cursor : /\ k.idle \in Time /\ k.hard \in Time
                                  /\ k.session_id \in SessionsOf(b)
           /\ \A x \in b.reply : x.ok => \A l \in x.lease :
                 /\ CursorFrom(x, l).idle \in Time /\ CursorFrom(x, l).hard \in Time
                 /\ CursorFrom(x, l).session_id = l.session_id
<1>1. ASSUME NEW k \in b.cursor
      PROVE  k.idle \in Time /\ k.hard \in Time /\ k.session_id \in SessionsOf(b)
  <2>1. k \in Cursor
    BY DEF ProcessSound
  <2> QED BY <2>1 DEF Cursor, SessionsOf
<1>2. ASSUME NEW x \in b.reply, x.ok, NEW l \in x.lease
      PROVE  /\ CursorFrom(x, l).idle \in Time /\ CursorFrom(x, l).hard \in Time
             /\ CursorFrom(x, l).session_id = l.session_id
  <2>1. l \in CoordinatorLease
    BY <1>2 DEF RepliesSound
  <2> QED BY <2>1 DEF CoordinatorLease, CursorFrom
<1> QED BY <1>1, <1>2

\* A process stays sound under whatever keeps its windows and its accounts.
LEMMA BridgeKept ==
    ASSUME NEW b, NEW s, NEW n, NEW t, NEW u, NEW ran, NEW safe, NEW more, NEW m,
           BridgeSound(b, s, t, ran, safe, m), safe \subseteq more,
           b.stage # "releasing" =>
              /\ \A w : (/\ w.idle \in Time /\ w.hard \in Time
                         /\ w.session_id \in SessionsOf(b)
                         /\ Confirmed(w, s, t)) => Confirmed(w, n, u)
              /\ \A id \in SessionsOf(b) :
                    Accounted(id, s, safe) => Accounted(id, n, more)
    PROVE  BridgeSound(b, n, u, ran, more, m)
<1>1. ProcessSound(b) /\ RepliesSound(b)
  BY DEF BridgeSound
<1>2. WindowsHold(b, n, u)
  <2> SUFFICES ASSUME b.stage # "releasing"
               PROVE  /\ \A k \in b.cursor : Confirmed(k, n, u)
                      /\ \A x \in b.reply : x.ok /\ x.status = "Active" =>
                            \A l \in x.lease : l.session_id \in SessionsOf(b) =>
                                Confirmed(CursorFrom(x, l), n, u)
    BY DEF WindowsHold
  <2>1. ASSUME NEW k \in b.cursor PROVE Confirmed(k, n, u)
    <3>1. Confirmed(k, s, t)
      BY DEF BridgeSound, WindowsHold
    <3>2. k.idle \in Time /\ k.hard \in Time /\ k.session_id \in SessionsOf(b)
      BY <1>1, WindowsTyped
    <3> QED BY <3>1, <3>2
  <2>2. ASSUME NEW x \in b.reply, x.ok, x.status = "Active", NEW l \in x.lease,
               l.session_id \in SessionsOf(b)
        PROVE  Confirmed(CursorFrom(x, l), n, u)
    <3> DEFINE w == CursorFrom(x, l)
    <3>1. Confirmed(w, s, t)
      BY <2>2 DEF BridgeSound, WindowsHold
    <3>2. w.idle \in Time /\ w.hard \in Time /\ w.session_id \in SessionsOf(b)
      BY <1>1, <2>2, WindowsTyped
    <3> HIDE DEF w
    <3>3. Confirmed(w, n, u)
      BY <3>1, <3>2
    <3> QED BY <3>3 DEF w
  <2> QED BY <2>1, <2>2
<1>3. OpeningsSound(b, n, more)
  BY <1>1, WindowsTyped DEF BridgeSound, OpeningsSound
<1> QED BY <1>2, <1>3 DEF BridgeSound

\* What the object answers: a refusal, or the lease that there is now.
AnswerSound(x, s) ==
    x.ok => x.lease = s.active_lease /\ x.status = s.status /\ x.at = s.version

\* The reply to a call that is still waited for.
LEMMA BridgeAnswered ==
    ASSUME NEW b, NEW s, NEW t \in Nat, NEW ran, NEW safe, NEW m, NEW x,
           BridgeSound(b, s, t, ran, safe, m), SoundBy(s, t), b.call # {},
           AnswerSound(x, s)
    PROVE  BridgeSound([b EXCEPT !.reply = {x}], s, t, ran, safe, m)
<1> DEFINE p == [b EXCEPT !.reply = {x}]
<1>1. /\ p.stage = b.stage /\ p.browser = b.browser /\ p.healthy = b.healthy
      /\ p.cursor = b.cursor /\ p.call = b.call /\ p.reply = {x}
      /\ p.retried = b.retried /\ p.next = b.next
      /\ SessionsOf(p) = SessionsOf(b)
  BY DEF BridgeSound, ProcessSound, SessionsOf
<1>2. ProcessSound(p)
  <2>1. p \in [stage : Stage, browser : BOOLEAN, healthy : BOOLEAN,
               cursor : SUBSET Cursor, call : SUBSET Message, reply : {{x}},
               retried : BOOLEAN, next : Time]
    BY DEF BridgeSound, ProcessSound
  <2> QED BY <1>1, <2>1 DEF BridgeSound, ProcessSound
<1> HIDE DEF p
<1>3. /\ s.active_lease \subseteq CoordinatorLease /\ IsOption(s.active_lease)
      /\ s.version \in 1 .. MaxVersion
      /\ s.status = "Active" => s.drain_deadline = {}
  BY SoundShape
<1>4. RepliesSound(p)
  BY <1>1, <1>3 DEF RepliesSound, AnswerSound
<1>5. ASSUME x.ok, x.status = "Active", NEW l \in x.lease
      PROVE  Confirmed(CursorFrom(x, l), s, t)
  <2>1. l \in s.active_lease /\ l \in CoordinatorLease /\ s.drain_deadline = {}
    BY <1>3, <1>5 DEF AnswerSound
  <2>2. AcceptsWriter(l, CursorFrom(x, l))
    BY DEF AcceptsWriter, CursorFrom
  <2>3. /\ CursorFrom(x, l).idle <= l.idle_expires_at
        /\ CursorFrom(x, l).hard <= l.hard_expires_at
    BY <2>1, BoundAssumption DEF CursorFrom, CoordinatorLease, Time
  <2> QED BY <2>1, <2>2, <2>3 DEF Confirmed, Backs
<1>6. WindowsHold(p, s, t)
  BY <1>1, <1>5 DEF BridgeSound, WindowsHold
<1>7. ASSUME x.ok, NEW l \in x.lease PROVE Accounted(l.session_id, s, safe)
  BY <1>7 DEF AnswerSound, Accounted, Unsettled
<1>8. OpeningsSound(p, s, safe)
  BY <1>1, <1>7 DEF BridgeSound, OpeningsSound
<1>9. NotYetRun(p, ran) /\ SessionsOf(p) \subseteq 1 .. m
  BY <1>1 DEF BridgeSound, NotYetRun
<1> QED BY <1>2, <1>4, <1>6, <1>8, <1>9 DEF BridgeSound, p

\* A release of session id is on the network.
Releasing(id) ==
    \E m \in network : m.request.body.type = "Release" /\ m.request.body.session_id = id

ReleasingClean(id) ==
    \E m \in network : /\ m.request.body.type = "Release"
                       /\ m.request.body.session_id = id
                       /\ m.request.body.disposition = "Clean"

\* A step of everything but the Bridges, as far as they are concerned: it keeps
\* every window that no release on the network ends, settles no session but by a
\* Clean release or a person, and answers at most one call.
EnvironmentStep ==
    /\ network' \subseteq network /\ minted' = minted /\ used' = used
    /\ clock' \in clock .. MaxClock /\ gate' \in BOOLEAN /\ stray' \in BOOLEAN
    /\ committed \subseteq committed' /\ excused \subseteq excused'
    /\ SoundBy(state', clock')
    /\ \A w : (/\ w.idle \in Time /\ w.hard \in Time /\ ~Releasing(w.session_id)
               /\ Confirmed(w, state, clock)) => Confirmed(w, state', clock')
    /\ \A id \in 1 .. minted :
          (~ReleasingClean(id) /\ Unsettled(state, id)) =>
              Accounted(id, state', committed' \cup excused')
    /\ \/ bridge' = bridge
       \/ \E d \in Bridges : \E x :
             /\ bridge[d].call # {} /\ AnswerSound(x, state')
             /\ bridge' = [bridge EXCEPT ![d].reply = {x}]

\* Such a step keeps the invariant.
LEMMA EnvironmentKeeps ==
    ASSUME SessionInv, EnvironmentStep
    PROVE  SessionInv'
<1> DEFINE safe == committed \cup excused
           more == committed' \cup excused'
<1>0. /\ clock \in Nat /\ clock' \in 0 .. MaxClock /\ clock' \in Nat /\ MaxClock \in Nat
      /\ safe \subseteq more
  BY SessionAssumption, BoundAssumption DEF SessionInv, EnvironmentStep, Time
<1>1. ASSUME NEW d \in Bridges
      PROVE  BridgeSound(bridge[d], state', clock', used, more, minted)
  <2>1. BridgeSound(bridge[d], state, clock, used, safe, minted)
    BY DEF SessionInv
  <2>2. SUFFICES ASSUME bridge[d].stage # "releasing"
                 PROVE  /\ \A w : (/\ w.idle \in Time /\ w.hard \in Time
                                   /\ w.session_id \in SessionsOf(bridge[d])
                                   /\ Confirmed(w, state, clock))
                               => Confirmed(w, state', clock')
                        /\ \A id \in SessionsOf(bridge[d]) :
                              Accounted(id, state, safe) => Accounted(id, state', more)
    <3> HIDE DEF safe, more
    <3> QED BY <1>0, <2>1, <2>2, BridgeKept
  <2>3. ASSUME NEW id \in SessionsOf(bridge[d])
        PROVE  ~Releasing(id) /\ ~ReleasingClean(id) /\ id \in 1 .. minted
    <3>1. \A m \in network : Withdrawn(bridge[d], m)
      BY DEF SessionInv
    <3>2. SessionsOf(bridge[d]) \subseteq 1 .. minted
      BY <2>1 DEF BridgeSound
    <3> QED BY <2>2, <3>1, <3>2 DEF Withdrawn, Releasing, ReleasingClean
  <2> QED BY <1>0, <2>3 DEF EnvironmentStep, Accounted
<1>2. ASSUME NEW d \in Bridges
      PROVE  /\ BridgeSound(bridge'[d], state', clock', used, more, minted)
             /\ SessionsOf(bridge'[d]) = SessionsOf(bridge[d])
             /\ bridge'[d].stage = bridge[d].stage
  <2>1. CASE bridge' = bridge
    BY <1>1, <2>1
  <2>2. CASE bridge' # bridge
    <3>a. PICK e \in Bridges : \E x :
             /\ bridge[e].call # {} /\ AnswerSound(x, state')
             /\ bridge' = [bridge EXCEPT ![e].reply = {x}]
      BY <2>2 DEF EnvironmentStep
    <3>1. PICK x : /\ bridge[e].call # {} /\ AnswerSound(x, state')
                   /\ bridge' = [bridge EXCEPT ![e].reply = {x}]
      BY <3>a
    <3>2. bridge = [g \in Bridges |-> bridge[g]]
      BY DEF SessionInv
    <3>3. CASE d # e
      BY <1>1, <3>1, <3>2, <3>3
    <3>4. CASE d = e
      <4>1. bridge'[d] = [bridge[d] EXCEPT !.reply = {x}]
        BY <3>1, <3>2, <3>4
      <4>2. BridgeSound(bridge'[d], state', clock', used, more, minted)
        <5> HIDE DEF more
        <5> QED BY <1>0, <1>1, <3>1, <3>4, <4>1, BridgeAnswered DEF EnvironmentStep
      <4>3. /\ bridge'[d].cursor = bridge[d].cursor /\ bridge'[d].call = bridge[d].call
            /\ bridge'[d].stage = bridge[d].stage
        BY <1>1, <4>1 DEF BridgeSound, ProcessSound
      <4> QED BY <4>2, <4>3 DEF SessionsOf
    <3> QED BY <3>3, <3>4
  <2> QED BY <2>1, <2>2
<1>3. bridge' = [d \in Bridges |-> bridge'[d]]
  <2>1. bridge = [g \in Bridges |-> bridge[g]]
    BY DEF SessionInv
  <2> QED BY <2>1 DEF EnvironmentStep
<1>4. SessionsApart'
  BY <1>2 DEF SessionInv, SessionsApart
<1>5. ASSUME NEW m \in network'
      PROVE  /\ MessageSound(m, used, more, minted)
             /\ \A d \in Bridges : Withdrawn(bridge'[d], m)
  <2>1. m \in network
    BY DEF EnvironmentStep
  <2>2. MessageSound(m, used, more, minted)
    BY <1>0, <2>1 DEF SessionInv, MessageSound
  <2> QED BY <1>2, <2>1, <2>2 DEF SessionInv, Withdrawn
<1>6. ASSUME NEW id \in used PROVE Accounted(id, state', more)
  <2>1. id \in 1 .. minted /\ Accounted(id, state, safe)
    BY DEF SessionInv
  <2>2. CASE ReleasingClean(id)
    <3>1. id \in safe
      BY <2>2 DEF SessionInv, MessageSound, ReleasingClean
    <3> QED BY <1>0, <3>1 DEF Accounted
  <2> QED BY <1>0, <2>1, <2>2 DEF EnvironmentStep, Accounted
<1>7. /\ minted' = minted /\ used' = used /\ SoundBy(state', clock')
      /\ gate' \in BOOLEAN /\ stray' \in BOOLEAN
      /\ minted \in 0 .. Cardinality(Sessions) /\ used \subseteq 1 .. minted
  BY DEF SessionInv, EnvironmentStep
<1> HIDE DEF safe, more
<1>8. \A d \in Bridges :
         BridgeSound(bridge'[d], state', clock', used', committed' \cup excused', minted')
  BY <1>2, <1>7 DEF more
<1>9. \A m \in network' : /\ MessageSound(m, used', committed' \cup excused', minted')
                          /\ \A d \in Bridges : Withdrawn(bridge'[d], m)
  BY <1>5, <1>7 DEF more
<1>10. \A id \in used' : Accounted(id, state', committed' \cup excused')
  BY <1>6, <1>7 DEF more
<1> QED BY <1>0, <1>3, <1>4, <1>7, <1>8, <1>9, <1>10 DEF SessionInv

\* The object applies the command of e, which a Bridge or a person sent or which
\* is a Tick of the alarm.
CoordinatorTakes(e) ==
    /\ e.command \in CoordinatorCommand /\ e.command.now = clock
    /\ NewlyAccepted(state, e) /\ state' = Accept(state, e)
    /\ e.command.type = "Release" =>
          \E m \in network : /\ m.request.body.type = "Release"
                             /\ m.request.body.session_id = e.command.session_id
                             /\ m.request.body.disposition = e.command.disposition
    /\ e.command.type \in {"RecoverAndIssueLaunchIntent", "MarkRecovered"} =>
          1 .. minted \subseteq excused'

\* What EnvironmentStep asks of a step of the object.
LEMMA CoordinatorMoves ==
    ASSUME SessionInv, \E e : CoordinatorTakes(e), clock' = clock,
           excused \subseteq excused', committed \subseteq committed'
    PROVE  /\ SoundBy(state', clock')
           /\ \A w : (/\ w.idle \in Time /\ w.hard \in Time /\ ~Releasing(w.session_id)
                      /\ Confirmed(w, state, clock)) => Confirmed(w, state', clock')
           /\ \A id \in 1 .. minted :
                 (~ReleasingClean(id) /\ Unsettled(state, id)) =>
                     Accounted(id, state', committed' \cup excused')
<1>1. PICK e : CoordinatorTakes(e)
  OBVIOUS
<1>2. clock \in Nat /\ SoundBy(state, clock)
  BY SessionAssumption, BoundAssumption DEF SessionInv, Time
<1>3. Keeps(e.command, state, state', clock)
  BY <1>1, <1>2, AcceptKeepsWindows DEF CoordinatorTakes
<1>4. SoundBy(state', clock')
  BY <1>3 DEF Keeps
<1>5. ASSUME NEW w, w.idle \in Time, w.hard \in Time, ~Releasing(w.session_id),
             Confirmed(w, state, clock)
      PROVE  Confirmed(w, state', clock')
  <2>1. ~(e.command.type = "Release" /\ e.command.session_id = w.session_id)
    BY <1>1, <1>5 DEF CoordinatorTakes, Releasing
  <2> QED BY <1>3, <1>5, <2>1 DEF Keeps
<1>6. ASSUME NEW id \in 1 .. minted, ~ReleasingClean(id), Unsettled(state, id)
      PROVE  Accounted(id, state', committed' \cup excused')
  <2>1. CASE e.command.type \in {"RecoverAndIssueLaunchIntent", "MarkRecovered"}
    BY <1>1, <2>1 DEF CoordinatorTakes, Accounted
  <2>2. CASE e.command.type \notin {"RecoverAndIssueLaunchIntent", "MarkRecovered"}
    <3>1. ASSUME e.command.type = "Release", e.command.session_id = id
          PROVE  e.command.disposition = "Uncertain"
      <4>1. PICK m \in network : /\ m.request.body.type = "Release"
                                 /\ m.request.body.session_id = id
                                 /\ m.request.body.disposition = e.command.disposition
        BY <1>1, <3>1 DEF CoordinatorTakes
      <4>2. m.request.body.disposition # "Clean"
        BY <1>6, <4>1 DEF ReleasingClean
      <4>3. m.request.body \in Body
        BY DEF SessionInv, MessageSound, Message, Request
      <4> QED BY <4>1, <4>2, <4>3 DEF Body
    <3>2. Unsettled(state', id)
      BY <1>3, <1>6, <2>2, <3>1 DEF Keeps
    <3> QED BY <3>2 DEF Accounted
  <2> QED BY <2>1, <2>2
<1> QED BY <1>4, <1>5, <1>6

\* What EnvironmentStep asks of a step that leaves the object alone.
LEMMA CoordinatorRests ==
    ASSUME SessionInv, state' = state, clock' \in {clock, clock + 1},
           excused \subseteq excused', committed \subseteq committed'
    PROVE  /\ SoundBy(state', clock')
           /\ \A w : (/\ w.idle \in Time /\ w.hard \in Time /\ ~Releasing(w.session_id)
                      /\ Confirmed(w, state, clock)) => Confirmed(w, state', clock')
           /\ \A id \in 1 .. minted :
                 (~ReleasingClean(id) /\ Unsettled(state, id)) =>
                     Accounted(id, state', committed' \cup excused')
<1>1. clock \in Nat /\ SoundBy(state, clock)
  BY SessionAssumption, BoundAssumption DEF SessionInv, Time
<1>2. state.last_observed_at \in Nat
  BY <1>1, SoundShape, BoundAssumption DEF Time
<1>3. SoundBy(state', clock')
  <2>1. state.last_observed_at <= clock'
    BY <1>1, <1>2 DEF SoundBy
  <2> QED BY <1>1, <2>1 DEF SoundBy
<1>4. ASSUME NEW w, w.idle \in Time, w.hard \in Time, Confirmed(w, state, clock)
      PROVE  Confirmed(w, state', clock')
  <2>1. Deadline(w) \in Nat
    BY <1>4, BoundAssumption DEF Deadline, Least, Time
  <2> QED BY <1>1, <1>4, <2>1 DEF Confirmed
<1> QED BY <1>3, <1>4 DEF Accounted

\* A request reaches the object, in `apply` and `build_envelope`.
LEMMA DeliverKeeps ==
    ASSUME SessionInv, NEW m \in network, Deliver(m)
    PROVE  SessionInv'
<1> DEFINE r == m.request
           d == m.from
<1>1. /\ m \in Message /\ d \in Bridges /\ r.body \in Body /\ clock \in Time
  <2>1. m \in Message
    BY DEF SessionInv, MessageSound
  <2> QED BY <2>1, SessionAssumption, BoundAssumption
          DEF Message, Request, SessionInv, Time
<1>2. UNCHANGED <<gate, stray, clock, minted, used, committed, excused>>
  BY DEF Deliver, history
<1>3. \/ state' = state
      \/ \E e : CoordinatorTakes(e)
  <2> SUFFICES ASSUME state' # state PROVE \E e : CoordinatorTakes(e)
    OBVIOUS
  <2> DEFINE e == EnvelopeOf(r)
  <2>1. NewlyAccepted(state, e) /\ state' = Accept(state, e)
    BY DEF Deliver, Apply
  <2>2. e.command = Stamp(r)
    BY DEF EnvelopeOf
  <2> HIDE DEF e
  <2>3. /\ e.command \in CoordinatorCommand /\ e.command.now = clock
        /\ e.command.type = r.body.type
        /\ r.body.type = "Release" =>
              /\ e.command.session_id = r.body.session_id
              /\ e.command.disposition = r.body.disposition
    BY <1>1, <2>2, StampSound
  <2>4. r.body.type \notin {"RecoverAndIssueLaunchIntent", "MarkRecovered"}
    BY <1>1 DEF Body
  <2>5. CoordinatorTakes(e)
    BY <2>1, <2>3, <2>4 DEF CoordinatorTakes
  <2> QED BY <2>5
<1>4. AnswerSound(Answer(d, r), state')
  <2> DEFINE e == EnvelopeOf(r)
  <2>0. AnswerSound(Refused, state')
    BY DEF AnswerSound, Refused
  <2>1. CASE gate \/ ~PolicyAllows(d, r)
    BY <2>0, <2>1 DEF Answer
  <2>2. CASE ~(gate \/ ~PolicyAllows(d, r)) /\ NewlyAccepted(state, e)
    <3>1. state' = Accept(state, e)
      BY <2>2 DEF Deliver, Apply
    <3>2. Answer(d, r) = ResponseOf(ReceiptOf(state, e), FALSE, Accept(state, e))
      BY <2>2 DEF Answer
    <3> HIDE DEF e
    <3> QED BY <3>1, <3>2 DEF AnswerSound, ResponseOf
  <2>3. CASE ~(gate \/ ~PolicyAllows(d, r)) /\ ~NewlyAccepted(state, e)
    <3>1. state' = state
      BY <2>3 DEF Deliver, Apply
    <3>2. \/ Answer(d, r) = Refused
          \/ \E x : Answer(d, r) = ResponseOf(x, TRUE, state)
      BY <2>3 DEF Answer
    <3> HIDE DEF e
    <3>3. ASSUME NEW x PROVE AnswerSound(ResponseOf(x, TRUE, state), state')
      BY <3>1 DEF AnswerSound, ResponseOf
    <3> QED BY <2>0, <3>2, <3>3
  <2> QED BY <2>1, <2>2, <2>3
<1>5. \/ bridge' = bridge
      \/ \E g \in Bridges : \E x :
            /\ bridge[g].call # {} /\ AnswerSound(x, state')
            /\ bridge' = [bridge EXCEPT ![g].reply = {x}]
  <2>1. CASE bridge[d].call = {m}
    <3>1. bridge' = [bridge EXCEPT ![d].reply = {Answer(d, r)}]
      BY <2>1 DEF Deliver
    <3>2. bridge[d].call # {}
      BY <2>1
    <3> HIDE DEF d, r
    <3> QED BY <1>1, <1>4, <3>1, <3>2
  <2>2. CASE bridge[d].call # {m}
    BY <2>2 DEF Deliver
  <2> QED BY <2>1, <2>2
<1>6. /\ network' \subseteq network /\ gate' \in BOOLEAN /\ stray' \in BOOLEAN
      /\ clock' \in clock .. MaxClock
  <2>1. gate \in BOOLEAN /\ stray \in BOOLEAN /\ network' \subseteq network
    BY DEF Deliver, SessionInv
  <2>2. clock \in clock .. MaxClock
    BY SessionAssumption, BoundAssumption DEF SessionInv, Time
  <2> QED BY <1>2, <2>1, <2>2
<1>7. /\ SoundBy(state', clock')
      /\ \A w : (/\ w.idle \in Time /\ w.hard \in Time /\ ~Releasing(w.session_id)
                 /\ Confirmed(w, state, clock)) => Confirmed(w, state', clock')
      /\ \A id \in 1 .. minted :
            (~ReleasingClean(id) /\ Unsettled(state, id)) =>
                Accounted(id, state', committed' \cup excused')
  BY <1>2, <1>3, CoordinatorMoves, CoordinatorRests
<1>8. EnvironmentStep
  BY <1>2, <1>5, <1>6, <1>7 DEF EnvironmentStep
<1> QED BY <1>8, EnvironmentKeeps

\* A step of the environment that leaves the Bridges alone.
LEMMA ObjectKeeps ==
    ASSUME SessionInv, UNCHANGED <<bridge, minted, used>>, network' \subseteq network,
           gate' \in BOOLEAN, stray' \in BOOLEAN, clock' = clock,
           excused \subseteq excused', committed \subseteq committed',
           state' = state \/ \E e : CoordinatorTakes(e)
    PROVE  SessionInv'
<1>1. clock \in 0 .. MaxClock /\ MaxClock \in Nat
  BY SessionAssumption, BoundAssumption DEF SessionInv, Time
<1> QED BY <1>1, CoordinatorMoves, CoordinatorRests, EnvironmentKeeps
        DEF EnvironmentStep

\* A command of a person.
LEMMA HumanKeeps ==
    ASSUME SessionInv, NEW C \in SUBSET CoordinatorCommand,
           \A c \in C : c.type # "Release", \E c \in C : c.now = clock /\ Human(c),
           \/ /\ UNCHANGED excused
              /\ \A c \in C : c.type \notin {"RecoverAndIssueLaunchIntent",
                                             "MarkRecovered"}
           \/ excused' = excused \cup 1 .. minted
    PROVE  SessionInv'
<1>1. PICK c \in C : c.now = clock /\ Human(c)
  OBVIOUS
<1>2. PICK e : /\ e = NextEnvelope(state, <<"human", state.version>>, c)
               /\ NewlyAccepted(state, e) /\ state' = Accept(state, e)
  BY <1>1 DEF Human
<1>3. e.command = c
  BY <1>2 DEF NextEnvelope
<1>4. CoordinatorTakes(e)
  BY <1>1, <1>2, <1>3 DEF CoordinatorTakes
<1>5. /\ UNCHANGED <<gate, stray, bridge, network, clock, minted, used, committed>>
      /\ gate \in BOOLEAN /\ stray \in BOOLEAN
  BY <1>1 DEF Human, SessionInv
<1> QED BY <1>4, <1>5, ObjectKeeps

\* The environment's steps keep the invariant.
LEMMA EnvironmentActionsKeep ==
    ASSUME SessionInv,
           \/ \E m \in network : Deliver(m) \/ DropRequest(m)
           \/ Alarm \/ AlarmGated \/ EndCommit \/ Tock
           \/ \E d \in Bridges : IssueIntent(d) \/ RecoverAndIssue(d)
           \/ HumanDrain \/ HumanRecovers
    PROVE  SessionInv'
<1>0. /\ gate \in BOOLEAN /\ stray \in BOOLEAN /\ clock \in 0 .. MaxClock
      /\ MaxClock \in Nat /\ clock \in Time
  BY SessionAssumption, BoundAssumption DEF SessionInv, Time
<1>1. ASSUME NEW m \in network, Deliver(m) PROVE SessionInv'
  BY <1>1, DeliverKeeps
<1>2. ASSUME NEW m \in network, DropRequest(m) PROVE SessionInv'
  BY <1>0, <1>2, ObjectKeeps DEF DropRequest, history
<1>3. CASE Alarm
  <2>1. PICK e : /\ e = NextEnvelope(state, <<"alarm", state.last_sequence + 1>>,
                                     [type |-> "Tick", now |-> clock])
                 /\ NewlyAccepted(state, e) /\ state' = Accept(state, e)
    BY <1>3 DEF Alarm
  <2>2. e.command = [type |-> "Tick", now |-> clock]
    BY <2>1 DEF NextEnvelope
  <2>3. e.command \in CoordinatorCommand
    BY <1>0, <2>2 DEF CoordinatorCommand, PlainCommand
  <2>4. CoordinatorTakes(e)
    BY <2>1, <2>2, <2>3 DEF CoordinatorTakes
  <2> QED BY <1>0, <1>3, <2>4, ObjectKeeps DEF Alarm, history
<1>4. CASE AlarmGated
  BY <1>0, <1>4, ObjectKeeps DEF AlarmGated, history
<1>5. CASE EndCommit
  <2>1. /\ UNCHANGED <<state, bridge, network, clock, minted, used, excused>>
        /\ gate' \in BOOLEAN /\ stray' \in BOOLEAN /\ committed \subseteq committed'
    BY <1>0, <1>5 DEF EndCommit
  <2> QED BY <1>0, <2>1, ObjectKeeps
<1>6. CASE Tock
  <2>1. /\ clock' = clock + 1 /\ clock' \in clock .. MaxClock
        /\ UNCHANGED <<state, gate, stray, bridge, network, minted, used, committed,
                       excused>>
    BY <1>0, <1>6 DEF Tock, history
  <2> QED BY <1>0, <2>1, CoordinatorRests, EnvironmentKeeps DEF EnvironmentStep
<1>7. ASSUME NEW d \in Bridges, NEW type \in {"IssueLaunchIntent",
                                              "RecoverAndIssueLaunchIntent"},
             LaunchFor(type, d),
             \/ UNCHANGED excused /\ type = "IssueLaunchIntent"
             \/ excused' = excused \cup 1 .. minted
      PROVE  SessionInv'
  <2> DEFINE C == {c \in LaunchCommand : c.type = type}
  <2>1. PICK i \in Intents, a \in Actors :
           Human([type |-> type, launch_intent_id |-> i, actor_id |-> a,
                  device_id |-> d, now |-> clock, expires_at |-> clock + IntentTtl])
    BY <1>7 DEF LaunchFor
  <2>2. PICK c : /\ c = [type |-> type, launch_intent_id |-> i, actor_id |-> a,
                         device_id |-> d, now |-> clock,
                         expires_at |-> clock + IntentTtl]
                 /\ Human(c)
    BY <2>1
  <2>3. clock + IntentTtl \in Time /\ d \in Devices
    BY <1>0, SessionAssumption, BoundAssumption DEF Time
  <2>4. c \in C /\ c.now = clock
    BY <1>0, <1>7, <2>2, <2>3 DEF LaunchCommand
  <2>5. C \in SUBSET CoordinatorCommand /\ \A x \in C : x.type = type
    BY DEF CoordinatorCommand
  <2> HIDE DEF C
  <2>6. \E x \in C : x.now = clock /\ Human(x)
    BY <2>2, <2>4
  <2>7. \A x \in C : x.type # "Release"
    BY <1>7, <2>5
  <2> QED BY <1>7, <2>5, <2>6, <2>7, HumanKeeps
<1>8. ASSUME NEW d \in Bridges, IssueIntent(d) \/ RecoverAndIssue(d) PROVE SessionInv'
  BY <1>7, <1>8 DEF IssueIntent, RecoverAndIssue
<1>9. ASSUME NEW type \in {"BeginDrain", "MarkRecovered"},
             Human([type |-> type, now |-> clock]),
             \/ UNCHANGED excused /\ type = "BeginDrain"
             \/ excused' = excused \cup 1 .. minted
      PROVE  SessionInv'
  <2> DEFINE C == {c \in PlainCommand : c.type = type}
  <2>1. PICK c : c = [type |-> type, now |-> clock] /\ Human(c)
    BY <1>9
  <2>2. c \in C /\ c.now = clock
    BY <1>0, <1>9, <2>1 DEF PlainCommand
  <2>3. C \in SUBSET CoordinatorCommand /\ \A x \in C : x.type = type
    BY DEF CoordinatorCommand
  <2> HIDE DEF C
  <2>4. \E x \in C : x.now = clock /\ Human(x)
    BY <2>1, <2>2
  <2>5. \A x \in C : x.type # "Release"
    BY <1>9, <2>3
  <2> QED BY <1>9, <2>3, <2>4, <2>5, HumanKeeps
<1>10. CASE HumanDrain
  BY <1>9, <1>10 DEF HumanDrain
<1>11. CASE HumanRecovers
  BY <1>9, <1>11 DEF HumanRecovers
<1> QED BY <1>1, <1>2, <1>3, <1>4, <1>5, <1>6, <1>8, <1>10, <1>11

-----------------------------------------------------------------------------
(* Steps of a Bridge.                                                       *)

\* A step of the Bridge d: it keeps its own process sound under sessions it had or
\* mints, runs a browser only while it has not released, and sends nothing that
\* would end another session.
BridgeMoves(d) ==
    /\ UNCHANGED <<state, clock, committed, excused>>
    /\ gate' \in BOOLEAN /\ stray' \in BOOLEAN
    /\ bridge' = [bridge EXCEPT ![d] = bridge'[d]]
    /\ minted' \in minted .. Cardinality(Sessions)
    /\ BridgeSound(bridge'[d], state, clock, used', committed \cup excused, minted')
    /\ SessionsOf(bridge'[d]) \subseteq
          SessionsOf(bridge[d]) \cup (minted + 1) .. minted'
    /\ used \subseteq used'
    /\ \A id \in used' \ used : /\ id \in SessionsOf(bridge[d])
                                /\ bridge[d].stage # "releasing"
                                /\ Accounted(id, state, committed \cup excused)
    /\ bridge[d].stage = "releasing" =>
          bridge'[d].stage = "releasing" \/ SessionsOf(bridge'[d]) = {}
    /\ \A m \in network' \ network :
          /\ MessageSound(m, used', committed \cup excused, minted')
          /\ m.request.body.type = "Release" =>
                /\ m.request.body.session_id \in SessionsOf(bridge[d])
                /\ bridge'[d].stage = "releasing"

\* Such a step keeps the invariant.
LEMMA BridgeMoveKeeps ==
    ASSUME SessionInv, NEW d \in Bridges, BridgeMoves(d)
    PROVE  SessionInv'
<1> DEFINE safe == committed \cup excused
<1>1. /\ bridge = [e \in Bridges |-> bridge[e]]
      /\ minted \in Nat /\ minted' \in Nat /\ minted <= minted'
      /\ minted' \in 0 .. Cardinality(Sessions) /\ used \subseteq 1 .. minted
  <2>1. Cardinality(Sessions) \in Nat
    BY MintAssumption, FS_CardinalityType
  <2> QED BY <2>1 DEF SessionInv, BridgeMoves
<1>2. ASSUME NEW e \in Bridges PROVE SessionsOf(bridge[e]) \subseteq 1 .. minted
  BY DEF SessionInv, BridgeSound
<1>3. /\ bridge' = [e \in Bridges |-> bridge'[e]]
      /\ \A e \in Bridges : e # d => bridge'[e] = bridge[e]
  BY <1>1 DEF BridgeMoves
<1>4. ASSUME NEW e \in Bridges
      PROVE  BridgeSound(bridge'[e], state, clock, used', safe, minted')
  <2>1. CASE e = d
    BY <2>1 DEF BridgeMoves
  <2>2. CASE e # d
    <3>1. BridgeSound(bridge[e], state, clock, used, safe, minted)
      BY DEF SessionInv
    <3>2. SessionsOf(bridge[e]) \subseteq 1 .. minted'
      BY <1>1, <1>2
    <3>3. SessionsOf(bridge[e]) \cap (used' \ used) = {}
      BY <2>2 DEF SessionInv, SessionsApart, BridgeMoves
    <3>4. NotYetRun(bridge[e], used')
      BY <3>1, <3>3 DEF BridgeSound, NotYetRun
    <3> QED BY <1>3, <2>2, <3>1, <3>2, <3>4 DEF BridgeSound
  <2> QED BY <2>1, <2>2
<1>5. SessionsApart'
  <2>1. ASSUME NEW e \in Bridges, e # d
        PROVE  SessionsOf(bridge'[d]) \cap SessionsOf(bridge[e]) = {}
    <3>1. SessionsOf(bridge[d]) \cap SessionsOf(bridge[e]) = {}
      BY <2>1 DEF SessionInv, SessionsApart
    <3>2. (minted + 1) .. minted' \cap SessionsOf(bridge[e]) = {}
      <4>1. \A i \in (minted + 1) .. minted' : i \notin 1 .. minted
        BY <1>1
      <4> QED BY <1>2, <4>1
    <3> QED BY <3>1, <3>2 DEF BridgeMoves
  <2>2. ASSUME NEW e \in Bridges, NEW f \in Bridges, e # f, e # d, f # d
        PROVE  SessionsOf(bridge[e]) \cap SessionsOf(bridge[f]) = {}
    BY <2>2 DEF SessionInv, SessionsApart
  <2>3. ASSUME NEW e \in Bridges, NEW f \in Bridges, e # f
        PROVE  SessionsOf(bridge'[e]) \cap SessionsOf(bridge'[f]) = {}
    <3>1. CASE e = d
      BY <1>3, <2>1, <2>3, <3>1
    <3>2. CASE f = d
      BY <1>3, <2>1, <2>3, <3>2
    <3>3. CASE e # d /\ f # d
      BY <1>3, <2>2, <2>3, <3>3
    <3> QED BY <3>1, <3>2, <3>3
  <2> QED BY <2>3 DEF SessionsApart
<1>6. ASSUME NEW m \in network'
      PROVE  /\ MessageSound(m, used', safe, minted')
             /\ \A e \in Bridges : Withdrawn(bridge'[e], m)
  <2> DEFINE id == m.request.body.session_id
             release == m.request.body.type = "Release"
  <2>1. CASE m \in network
    <3>1. /\ MessageSound(m, used, safe, minted)
          /\ \A e \in Bridges : Withdrawn(bridge[e], m)
      BY <2>1 DEF SessionInv
    <3>2. id \in 1 .. minted /\ id \in 1 .. minted'
      BY <1>1, <3>1 DEF MessageSound
    <3>3. ASSUME release PROVE id \notin used' \ used
      BY <3>1, <3>3 DEF BridgeMoves, Withdrawn
    <3>4. MessageSound(m, used', safe, minted')
      BY <3>1, <3>2, <3>3 DEF MessageSound
    <3>5. Withdrawn(bridge'[d], m)
      <4> SUFFICES ASSUME release, id \in SessionsOf(bridge'[d])
                   PROVE  bridge'[d].stage = "releasing"
        BY DEF Withdrawn
      <4>1. id \notin (minted + 1) .. minted'
        BY <1>1, <3>2
      <4>2. id \in SessionsOf(bridge[d])
        BY <4>1 DEF BridgeMoves
      <4>3. bridge[d].stage = "releasing"
        BY <3>1, <4>2 DEF Withdrawn
      <4> QED BY <4>3 DEF BridgeMoves
    <3> QED BY <1>3, <3>1, <3>4, <3>5
  <2>2. CASE m \notin network
    <3>1. /\ MessageSound(m, used', safe, minted')
          /\ release => /\ id \in SessionsOf(bridge[d])
                        /\ bridge'[d].stage = "releasing"
      <4>1. m \in network' \ network
        BY <2>2
      <4> QED BY <4>1, Zenon DEF BridgeMoves
    <3>2. ASSUME NEW e \in Bridges, e # d, release PROVE id \notin SessionsOf(bridge'[e])
      BY <1>3, <3>1, <3>2 DEF SessionInv, SessionsApart
    <3> QED BY <3>1, <3>2 DEF Withdrawn
  <2> QED BY <2>1, <2>2
<1>7. used' \subseteq 1 .. minted' /\ \A id \in used' : Accounted(id, state, safe)
  <2>1. ASSUME NEW id \in used' PROVE id \in 1 .. minted /\ Accounted(id, state, safe)
    BY <1>2 DEF SessionInv, BridgeMoves
  <2> QED BY <1>1, <2>1
<1>8. /\ gate' \in BOOLEAN /\ stray' \in BOOLEAN /\ state' = state /\ clock' = clock
      /\ committed' \cup excused' = safe
      /\ clock \in 0 .. MaxClock /\ SoundBy(state, clock)
  BY DEF SessionInv, BridgeMoves
<1> HIDE DEF safe
<1>9. \A e \in Bridges :
         BridgeSound(bridge'[e], state', clock', used', committed' \cup excused', minted')
  BY <1>4, <1>8
<1>10. \A m \in network' : /\ MessageSound(m, used', committed' \cup excused', minted')
                           /\ \A e \in Bridges : Withdrawn(bridge'[e], m)
  BY <1>6, <1>8
<1>11. \A id \in used' : Accounted(id, state', committed' \cup excused')
  BY <1>7, <1>8
<1> QED BY <1>1, <1>3, <1>5, <1>7, <1>8, <1>9, <1>10, <1>11 DEF SessionInv

\* A step of d that concerns its process alone.
LEMMA ProcessMoveKeeps ==
    ASSUME SessionInv, NEW d \in Bridges,
           UNCHANGED <<state, network, clock, minted, used, committed, excused>>,
           UNCHANGED <<gate, stray>>,
           bridge' = [bridge EXCEPT ![d] = bridge'[d]],
           BridgeSound(bridge'[d], state, clock, used, committed \cup excused, minted),
           SessionsOf(bridge'[d]) \subseteq SessionsOf(bridge[d]),
           bridge[d].stage = "releasing" =>
              bridge'[d].stage = "releasing" \/ SessionsOf(bridge'[d]) = {}
    PROVE  SessionInv'
<1>1. Cardinality(Sessions) \in Nat
  BY MintAssumption, FS_CardinalityType
<1>2. minted' \in minted .. Cardinality(Sessions) /\ gate' \in BOOLEAN /\ stray' \in BOOLEAN
  BY <1>1 DEF SessionInv
<1>3. BridgeMoves(d)
  BY <1>2 DEF BridgeMoves
<1> QED BY <1>3, BridgeMoveKeeps

\* The process that is not there.
LEMMA ClosedSound ==
    ASSUME NEW s, NEW t, NEW ran, NEW safe, NEW n
    PROVE  BridgeSound(Closed, s, t, ran, safe, n) /\ SessionsOf(Closed) = {}
<1>1. 0 \in Time
  BY BoundAssumption DEF Time
<1>2. SessionsOf(Closed) = {}
  BY DEF SessionsOf, Closed
<1>3. ProcessSound(Closed)
  BY <1>1, <1>2 DEF ProcessSound, Closed, IsOption, Stage
<1> QED BY <1>2, <1>3 DEF BridgeSound, RepliesSound, WindowsHold, OpeningsSound,
        NotYetRun, Closed

\* A process goes on as p, with the windows it had and no reply.
LEMMA ProcessContinues ==
    ASSUME NEW b, NEW p, NEW s, NEW t, NEW ran, NEW safe, NEW n,
           BridgeSound(b, s, t, ran, safe, n), ProcessSound(p), p.reply = {},
           SessionsOf(p) \subseteq SessionsOf(b),
           \A k \in p.cursor : \E j \in b.cursor :
              AcceptsWriter(j, k) /\ k.idle = j.idle /\ k.hard = j.hard,
           p.stage # "claiming", p.stage # "releasing" => b.stage # "releasing",
           p.stage = "opening" => b.stage = "opening" /\ (b.browser => p.browser)
    PROVE  BridgeSound(p, s, t, ran, safe, n)
<1>1. RepliesSound(p) /\ SessionsOf(p) \subseteq 1 .. n
  BY DEF BridgeSound, RepliesSound
<1>2. WindowsHold(p, s, t)
  <2> SUFFICES ASSUME p.stage # "releasing", NEW k \in p.cursor, t < Deadline(k)
               PROVE  Backs(s, k)
    BY DEF WindowsHold, Confirmed
  <2>1. PICK j \in b.cursor : AcceptsWriter(j, k) /\ k.idle = j.idle /\ k.hard = j.hard
    OBVIOUS
  <2>2. Deadline(k) = Deadline(j)
    BY <2>1 DEF Deadline
  <2>3. Backs(s, j)
    BY <2>2 DEF BridgeSound, WindowsHold, Confirmed
  <2> QED BY <2>1, <2>2, <2>3 DEF Backs, AcceptsWriter
<1>3. OpeningsSound(p, s, safe)
  BY DEF BridgeSound, OpeningsSound, AcceptsWriter
<1>4. NotYetRun(p, ran)
  <2>1. p.browser \in BOOLEAN /\ b.browser \in BOOLEAN
    BY DEF BridgeSound, ProcessSound
  <2> QED BY <2>1 DEF BridgeSound, NotYetRun
<1> QED BY <1>1, <1>2, <1>3, <1>4 DEF BridgeSound

-----------------------------------------------------------------------------
(* Steps that send nothing.                                                 *)

\* What the invariant says of the process of d.
LEMMA OwnProcess ==
    ASSUME SessionInv, NEW d \in Bridges
    PROVE  /\ bridge = [e \in Bridges |-> bridge[e]]
           /\ BridgeSound(bridge[d], state, clock, used, committed \cup excused, minted)
           /\ ProcessSound(bridge[d])
           /\ bridge[d] = [stage |-> bridge[d].stage, browser |-> bridge[d].browser,
                           healthy |-> bridge[d].healthy, cursor |-> bridge[d].cursor,
                           call |-> bridge[d].call, reply |-> bridge[d].reply,
                           retried |-> bridge[d].retried, next |-> bridge[d].next]
           /\ bridge[d].cursor # {} =>
                 /\ bridge[d].cursor = {Cur(d)} /\ Cur(d) \in Cursor
                 /\ Cur(d).session_id \in SessionsOf(bridge[d])
           /\ bridge[d].call # {} =>
                 /\ RequestOf(d) \in Request
                 /\ RequestOf(d).body.session_id \in SessionsOf(bridge[d])
                 /\ bridge[d].stage \in {"opening", "running", "saving"} =>
                       RequestOf(d).body.type = "RenewLease"
<1> DEFINE b == bridge[d]
<1>1. bridge = [e \in Bridges |-> bridge[e]]
  BY DEF SessionInv
<1>2. BridgeSound(b, state, clock, used, committed \cup excused, minted)
  BY DEF SessionInv
<1>3. ProcessSound(b)
  BY <1>2 DEF BridgeSound
<1> HIDE DEF b
<1>4. b = [stage |-> b.stage, browser |-> b.browser, healthy |-> b.healthy,
           cursor |-> b.cursor, call |-> b.call, reply |-> b.reply,
           retried |-> b.retried, next |-> b.next]
  BY <1>3 DEF ProcessSound
<1>5. ASSUME b.cursor # {}
      PROVE  /\ b.cursor = {Cur(d)} /\ Cur(d) \in Cursor
             /\ Cur(d).session_id \in SessionsOf(b)
  <2>1. Cur(d) \in b.cursor
    BY <1>5 DEF Cur, b
  <2> QED BY <1>3, <2>1 DEF ProcessSound, IsOption, SessionsOf
<1>6. ASSUME b.call # {}
      PROVE  /\ RequestOf(d) \in Request
             /\ RequestOf(d).body.session_id \in SessionsOf(b)
             /\ b.stage \in {"opening", "running", "saving"} =>
                   RequestOf(d).body.type = "RenewLease"
  <2>1. PICK m \in b.call : RequestOf(d) = m.request
    BY <1>6 DEF RequestOf, b
  <2>2. m \in Message
    BY <1>3 DEF ProcessSound
  <2> QED BY <1>3, <2>1, <2>2 DEF ProcessSound, SessionsOf, Message
<1> QED BY <1>1, <1>2, <1>3, <1>4, <1>5, <1>6 DEF b

\* The process ends.
LEMMA ProcessEnds ==
    ASSUME SessionInv, NEW d \in Bridges, bridge' = [bridge EXCEPT ![d] = Closed],
           UNCHANGED <<state, gate, stray, network, clock, minted, history>>
    PROVE  SessionInv'
<1>1. bridge'[d] = Closed /\ bridge' = [bridge EXCEPT ![d] = bridge'[d]]
  BY OwnProcess
<1>2. /\ BridgeSound(bridge'[d], state, clock, used, committed \cup excused, minted)
      /\ SessionsOf(bridge'[d]) = {}
  BY <1>1, ClosedSound
<1>3. UNCHANGED <<state, network, clock, minted, used, committed, excused, gate, stray>>
  BY DEF history
<1> QED BY <1>1, <1>2, <1>3, ProcessMoveKeeps

\* A process that has its lease, with no call under way.
Resting ==
    [stage : {"opening", "running", "saving", "failed"}, browser : BOOLEAN,
     healthy : BOOLEAN, cursor : SUBSET Cursor, call : {{}}, reply : {{}},
     retried : BOOLEAN, next : Time]

\* A process comes to rest, with the lease it had.
LEMMA ProcessStays ==
    ASSUME SessionInv, NEW d \in Bridges, NEW p \in Resting,
           IsOption(p.cursor), p.cursor # {},
           \A k \in p.cursor :
              /\ \E j \in bridge[d].cursor :
                    AcceptsWriter(j, k) /\ k.idle = j.idle /\ k.hard = j.hard
              /\ \A r \in k.pending :
                    r.body.type = "RenewLease" /\ r.body.session_id = k.session_id,
           bridge[d].stage \in {"opening", "running", "saving"},
           p.stage = "opening" =>
              bridge[d].stage = "opening" /\ (bridge[d].browser => p.browser),
           bridge' = [bridge EXCEPT ![d] = p],
           UNCHANGED <<state, gate, stray, network, clock, minted, history>>
    PROVE  SessionInv'
<1>1. bridge'[d] = p
  BY OwnProcess
<1>2. SessionsOf(p) \subseteq SessionsOf(bridge[d])
  <2>1. SessionsOf(p) = {k.session_id : k \in p.cursor}
    BY DEF SessionsOf, Resting
  <2>2. ASSUME NEW k \in p.cursor PROVE k.session_id \in SessionsOf(bridge[d])
    <3>1. PICK j \in bridge[d].cursor : AcceptsWriter(j, k)
      OBVIOUS
    <3> QED BY <3>1 DEF SessionsOf, AcceptsWriter
  <2> QED BY <2>1, <2>2
<1>3. IsOption(SessionsOf(p))
  <2>1. IsOption(SessionsOf(bridge[d]))
    BY OwnProcess DEF ProcessSound
  <2> QED BY <1>2, <2>1 DEF IsOption
<1>4. ProcessSound(p)
  BY <1>3 DEF ProcessSound, IsOption, Stage, Resting
<1>5. p.reply = {} /\ p.stage \notin {"claiming", "releasing"}
  BY DEF Resting
<1>6. BridgeSound(p, state, clock, used, committed \cup excused, minted)
  BY <1>2, <1>4, <1>5, OwnProcess, ProcessContinues
<1>7. UNCHANGED <<state, network, clock, minted, used, committed, excused, gate, stray>>
  BY DEF history
<1> QED BY <1>1, <1>2, <1>6, <1>7, ProcessMoveKeeps

\* A process that goes on with the cursor it has.
LEMMA ProcessGoesOn ==
    ASSUME SessionInv, NEW d \in Bridges, NEW p \in Resting,
           p.cursor = bridge[d].cursor,
           bridge[d].stage \in {"opening", "running", "saving"},
           p.stage = "opening" =>
              bridge[d].stage = "opening" /\ (bridge[d].browser => p.browser),
           bridge' = [bridge EXCEPT ![d] = p],
           UNCHANGED <<state, gate, stray, network, clock, minted, history>>
    PROVE  SessionInv'
<1>1. /\ IsOption(p.cursor) /\ p.cursor # {}
      /\ \A k \in p.cursor : \A r \in k.pending :
            r.body.type = "RenewLease" /\ r.body.session_id = k.session_id
  BY OwnProcess DEF ProcessSound
<1>2. \A k \in p.cursor : \E j \in bridge[d].cursor :
         AcceptsWriter(j, k) /\ k.idle = j.idle /\ k.hard = j.hard
  BY DEF AcceptsWriter
<1> QED BY <1>1, <1>2, ProcessStays

\* When the next heartbeat falls due, and when one in doubt is sent again.
LEMMA HeartbeatTimes ==
    ASSUME NEW at \in Time, NEW deadline \in Time
    PROVE  /\ LoopGoesOn(at, deadline) => NextHeartbeat(at, deadline) \in Time
           /\ RetryAt(at, deadline) \subseteq Time
<1>1. at \in Nat /\ deadline \in Nat /\ MaxMillis \in Nat /\ deadline <= MaxMillis
      /\ RetryMs \in Nat
  BY BoundAssumption, SessionAssumption DEF Time
<1>2. ASSUME deadline - at > 1
      PROVE  (deadline - at) \div 2 \in Nat /\ (deadline - at) \div 2 <= deadline - at
  BY <1>1, <1>2
<1>3. ASSUME LoopGoesOn(at, deadline) PROVE NextHeartbeat(at, deadline) \in Time
  BY <1>1, <1>2, <1>3 DEF LoopGoesOn, NextHeartbeat, Time
<1>4. RetryAt(at, deadline) \subseteq Time
  BY <1>1, <1>2 DEF RetryAt, Time
<1> QED BY <1>3, <1>4

\* A refused heartbeat, in `heartbeat_lease` and its callers.
LEMMA HeartbeatRefusedKeeps ==
    ASSUME SessionInv, NEW d \in Bridges, HeartbeatRefused(d)
    PROVE  SessionInv'
<1>1. PICK b : b = bridge[d]
  OBVIOUS
<1>2. /\ ProcessSound(b) /\ b.stage \in {"opening", "running", "saving"}
      /\ bridge = [e \in Bridges |-> bridge[e]]
  BY <1>1, OwnProcess DEF HeartbeatRefused, InHeartbeat
<1>3. PICK p : p = IF b.stage = "running"
                   THEN [b EXCEPT !.call = {}, !.reply = {}, !.stage = "failed",
                                  !.browser = FALSE]
                   ELSE [b EXCEPT !.call = {}, !.reply = {}, !.healthy = FALSE]
  OBVIOUS
<1>4. bridge' = [bridge EXCEPT ![d] = p]
  BY <1>1, <1>2, <1>3 DEF HeartbeatRefused, Answered, ProcessSound
<1>5. /\ p \in Resting /\ p.cursor = b.cursor
      /\ p.stage = "opening" => b.stage = "opening" /\ (b.browser => p.browser)
  BY <1>2, <1>3 DEF ProcessSound, Resting
<1> QED BY <1>1, <1>2, <1>4, <1>5, ProcessGoesOn DEF HeartbeatRefused

\* A heartbeat whose effect is open, in `heartbeat_lease` and its callers.
LEMMA HeartbeatUncertainKeeps ==
    ASSUME SessionInv, NEW d \in Bridges, HeartbeatUncertain(d)
    PROVE  SessionInv'
<1>1. PICK b, k, r : b = bridge[d] /\ k = Cur(d) /\ r = RequestOf(d)
  OBVIOUS
<1>2. /\ ProcessSound(b) /\ b.stage \in {"opening", "running", "saving"}
      /\ bridge = [e \in Bridges |-> bridge[e]]
      /\ b.call # {} /\ b.cursor = {k} /\ k \in Cursor
      /\ r \in Request /\ r.body.type = "RenewLease"
      /\ r.body.session_id = k.session_id
  <2>1. /\ ProcessSound(b) /\ b.stage \in {"opening", "running", "saving"}
        /\ bridge = [e \in Bridges |-> bridge[e]] /\ b.call # {}
    BY <1>1, OwnProcess DEF HeartbeatUncertain, InHeartbeat
  <2>2. b.cursor # {}
    BY <2>1 DEF ProcessSound
  <2>3. /\ b.cursor = {k} /\ k \in Cursor /\ k.session_id \in SessionsOf(b)
        /\ r \in Request /\ r.body.type = "RenewLease"
        /\ r.body.session_id \in SessionsOf(b)
    BY <1>1, <2>1, <2>2, OwnProcess
  <2>4. r.body.session_id = k.session_id
    BY <2>1, <2>3 DEF ProcessSound, IsOption
  <2> QED BY <2>1, <2>3, <2>4
<1>3. PICK j : j = [k EXCEPT !.pending = {r}]
  OBVIOUS
<1>4. /\ j \in Cursor /\ AcceptsWriter(k, j) /\ j.idle = k.idle /\ j.hard = k.hard
      /\ j.pending = {r} /\ r.body.session_id = j.session_id
  BY <1>2, <1>3 DEF Cursor, AcceptsWriter
<1>5. PICK c : c = [b EXCEPT !.call = {}, !.reply = {}, !.cursor = {j}, !.retried = TRUE]
  OBVIOUS
<1>6. /\ c \in Resting /\ c.cursor = {j} /\ c.stage = b.stage /\ c.browser = b.browser
  BY <1>2, <1>4, <1>5 DEF ProcessSound, Resting
<1>7. ASSUME NEW p \in Resting, p.cursor = {j}, p.stage = b.stage, p.browser = b.browser,
             bridge' = [bridge EXCEPT ![d] = p]
      PROVE  SessionInv'
  <2>1. IsOption(p.cursor) /\ p.cursor # {}
    BY <1>7 DEF IsOption
  <2>2. \A i \in p.cursor :
           /\ \E o \in bridge[d].cursor :
                 AcceptsWriter(o, i) /\ i.idle = o.idle /\ i.hard = o.hard
           /\ \A o \in i.pending :
                 o.body.type = "RenewLease" /\ o.body.session_id = i.session_id
    BY <1>1, <1>2, <1>4, <1>7
  <2> QED BY <1>1, <1>2, <1>7, <2>1, <2>2, ProcessStays DEF HeartbeatUncertain
<1>8. PICK p : p = Uncertain(b, k, r) /\ bridge' = [bridge EXCEPT ![d] = p]
  BY <1>1, <1>2 DEF HeartbeatUncertain
<1>9. \/ p = Closed \/ p = c \/ p = [c EXCEPT !.healthy = FALSE]
      \/ \E at \in RetryAt(b.next, Deadline(k)) : p = [c EXCEPT !.next = at]
  BY <1>3, <1>5, <1>8 DEF Uncertain, Answered
<1>10. CASE p = Closed
  BY <1>8, <1>10, ProcessEnds DEF HeartbeatUncertain
<1>11. CASE p = c
  BY <1>6, <1>7, <1>8, <1>11
<1>12. CASE p = [c EXCEPT !.healthy = FALSE]
  <2>1. p \in Resting /\ p.cursor = {j} /\ p.stage = b.stage /\ p.browser = b.browser
    BY <1>6, <1>12 DEF Resting
  <2> QED BY <1>7, <1>8, <2>1
<1>13. ASSUME NEW at \in RetryAt(b.next, Deadline(k)), p = [c EXCEPT !.next = at]
       PROVE  SessionInv'
  <2>1. b.next \in Time /\ Deadline(k) \in Time
    BY <1>2 DEF ProcessSound, Cursor, Deadline, Least
  <2>2. at \in Time
    BY <2>1, HeartbeatTimes
  <2>3. p \in Resting /\ p.cursor = {j} /\ p.stage = b.stage /\ p.browser = b.browser
    BY <1>6, <1>13, <2>2 DEF Resting
  <2> QED BY <1>7, <1>8, <2>3
<1> QED BY <1>9, <1>10, <1>11, <1>12, <1>13

\* The end of an opening, in `run` of shipping_composition.rs.
LEMMA ReadyKeeps ==
    ASSUME SessionInv, NEW d \in Bridges, Ready(d)
    PROVE  SessionInv'
<1>1. PICK b : b = bridge[d]
  OBVIOUS
<1>2. /\ ProcessSound(b) /\ b.stage = "opening" /\ b.browser /\ b.call = {}
      /\ bridge = [e \in Bridges |-> bridge[e]]
      /\ Deadline(Cur(d)) \in Time /\ clock \in Time
  <2>1. /\ ProcessSound(b) /\ b.stage = "opening" /\ b.browser /\ b.call = {}
        /\ bridge = [e \in Bridges |-> bridge[e]]
    BY <1>1, OwnProcess DEF Ready
  <2>2. Cur(d) \in Cursor
    BY <1>1, <2>1, OwnProcess DEF ProcessSound
  <2>3. clock \in Time
    BY SessionAssumption, BoundAssumption DEF SessionInv, Time
  <2> QED BY <2>1, <2>2, <2>3 DEF Cursor, Deadline, Least
<1>3. PICK at : at = NextHeartbeat(clock, Deadline(Cur(d)))
  OBVIOUS
<1>4. PICK p : /\ bridge' = [bridge EXCEPT ![d] = p]
               /\ \/ p = [b EXCEPT !.stage = "failed", !.browser = FALSE]
                  \/ /\ LoopGoesOn(clock, Deadline(Cur(d)))
                     /\ p = [b EXCEPT !.stage = "running", !.next = at]
                  \/ p = Closed
  BY <1>1, <1>3 DEF Ready
<1>5. CASE p = [b EXCEPT !.stage = "failed", !.browser = FALSE]
  <2>1. p \in Resting /\ p.cursor = b.cursor /\ p.stage = "failed"
    BY <1>2, <1>5 DEF ProcessSound, Resting
  <2> QED BY <1>1, <1>2, <1>4, <2>1, ProcessGoesOn DEF Ready
<1>6. CASE LoopGoesOn(clock, Deadline(Cur(d))) /\ p = [b EXCEPT !.stage = "running",
                                                               !.next = at]
  <2>1. at \in Time
    BY <1>2, <1>3, <1>6, HeartbeatTimes
  <2>2. p \in Resting /\ p.cursor = b.cursor /\ p.stage = "running"
    BY <1>2, <1>6, <2>1 DEF ProcessSound, Resting
  <2> QED BY <1>1, <1>2, <1>4, <2>2, ProcessGoesOn DEF Ready
<1>7. CASE p = Closed
  BY <1>4, <1>7, ProcessEnds DEF Ready
<1> QED BY <1>4, <1>5, <1>6, <1>7

\* The keepalive thread of an opening or a save ends.
LEMMA KeepaliveEndsKeeps ==
    ASSUME SessionInv, NEW d \in Bridges, KeepaliveEnds(d)
    PROVE  SessionInv'
<1>1. PICK b : b = bridge[d]
  OBVIOUS
<1>2. /\ ProcessSound(b) /\ b.stage \in {"opening", "saving"} /\ b.call = {}
      /\ bridge = [e \in Bridges |-> bridge[e]]
  BY <1>1, OwnProcess DEF KeepaliveEnds
<1>3. PICK p : p = [b EXCEPT !.healthy = FALSE]
  OBVIOUS
<1>4. bridge' = [bridge EXCEPT ![d] = p]
  BY <1>1, <1>2, <1>3 DEF KeepaliveEnds
<1>5. /\ p \in Resting /\ p.cursor = b.cursor
      /\ p.stage = b.stage /\ p.browser = b.browser
  BY <1>2, <1>3 DEF ProcessSound, Resting
<1> QED BY <1>1, <1>2, <1>4, <1>5, ProcessGoesOn DEF KeepaliveEnds

\* The browser is stopped, or found dead.
LEMMA StopBrowserKeeps ==
    ASSUME SessionInv, NEW d \in Bridges, StopBrowser(d)
    PROVE  SessionInv'
<1>1. PICK b : b = bridge[d]
  OBVIOUS
<1>2. /\ ProcessSound(b) /\ b.stage = "running" /\ b.call = {}
      /\ bridge = [e \in Bridges |-> bridge[e]]
  BY <1>1, OwnProcess DEF StopBrowser
<1>3. PICK p : p = [b EXCEPT !.stage = "failed", !.browser = FALSE]
  OBVIOUS
<1>4. bridge' = [bridge EXCEPT ![d] = p]
  BY <1>1, <1>2, <1>3 DEF StopBrowser
<1>5. p \in Resting /\ p.cursor = b.cursor /\ p.stage = "failed"
  BY <1>2, <1>3 DEF ProcessSound, Resting
<1> QED BY <1>1, <1>2, <1>4, <1>5, ProcessGoesOn DEF StopBrowser

\* A controlled close.
LEMMA CloseBrowserKeeps ==
    ASSUME SessionInv, NEW d \in Bridges, CloseBrowser(d)
    PROVE  SessionInv'
<1>1. PICK b : b = bridge[d]
  OBVIOUS
<1>2. /\ ProcessSound(b) /\ b.stage = "running" /\ b.call = {}
      /\ bridge = [e \in Bridges |-> bridge[e]]
  BY <1>1, OwnProcess DEF CloseBrowser
<1>3. PICK p : /\ bridge' = [bridge EXCEPT ![d] = p]
               /\ p = Closed \/ p = [b EXCEPT !.stage = "saving", !.browser = FALSE]
  BY <1>1 DEF CloseBrowser
<1>4. CASE p = Closed
  BY <1>3, <1>4, ProcessEnds DEF CloseBrowser
<1>5. CASE p = [b EXCEPT !.stage = "saving", !.browser = FALSE]
  <2>1. p \in Resting /\ p.cursor = b.cursor /\ p.stage = "saving"
    BY <1>2, <1>5 DEF ProcessSound, Resting
  <2> QED BY <1>1, <1>2, <1>3, <2>1, ProcessGoesOn DEF CloseBrowser
<1> QED BY <1>3, <1>4, <1>5

\* The browser starts, in `open` of the launch: its session may now have data.
LEMMA LaunchKeeps ==
    ASSUME SessionInv, NEW d \in Bridges, Launch(d)
    PROVE  SessionInv'
<1>1. PICK b, k : b = bridge[d] /\ k = Cur(d)
  OBVIOUS
<1>2. /\ ProcessSound(b) /\ b.stage = "opening"
      /\ BridgeSound(b, state, clock, used, committed \cup excused, minted)
      /\ bridge = [e \in Bridges |-> bridge[e]]
      /\ b.cursor = {k} /\ k.session_id \in SessionsOf(b)
  <2>1. /\ ProcessSound(b) /\ b.stage = "opening"
        /\ BridgeSound(b, state, clock, used, committed \cup excused, minted)
        /\ bridge = [e \in Bridges |-> bridge[e]]
    BY <1>1, OwnProcess DEF Launch
  <2>2. b.cursor # {}
    BY <2>1 DEF ProcessSound
  <2> QED BY <1>1, <2>1, <2>2, OwnProcess
<1>3. PICK p : p = [b EXCEPT !.browser = TRUE]
  OBVIOUS
<1>4. bridge' = [bridge EXCEPT ![d] = p] /\ bridge'[d] = p
  BY <1>1, <1>2, <1>3 DEF Launch
<1>5. /\ p \in [stage : Stage, browser : BOOLEAN, healthy : BOOLEAN,
                cursor : SUBSET Cursor, call : SUBSET Message, reply : {b.reply},
                retried : BOOLEAN, next : Time]
      /\ p.stage = b.stage /\ p.browser = TRUE /\ p.cursor = b.cursor /\ p.call = b.call
      /\ p.reply = b.reply
  BY <1>2, <1>3 DEF ProcessSound
<1>6. SessionsOf(p) = SessionsOf(b)
  BY <1>5 DEF SessionsOf
<1>7. ProcessSound(p)
  BY <1>2, <1>5, <1>6 DEF ProcessSound
<1>8. \A ran : BridgeSound(p, state, clock, ran, committed \cup excused, minted)
  BY <1>2, <1>5, <1>6, <1>7
     DEF BridgeSound, RepliesSound, WindowsHold, OpeningsSound, NotYetRun
<1>9. Accounted(k.session_id, state, committed \cup excused)
  BY <1>2 DEF BridgeSound, OpeningsSound
<1>10. /\ used' = used \cup {k.session_id}
       /\ UNCHANGED <<state, gate, stray, network, clock, minted, committed, excused>>
  BY <1>1 DEF Launch
<1>11. minted' \in minted .. Cardinality(Sessions)
  <2>1. Cardinality(Sessions) \in Nat
    BY MintAssumption, FS_CardinalityType
  <2> QED BY <1>10, <2>1 DEF SessionInv
<1>12. BridgeMoves(d)
  <2>1. gate' \in BOOLEAN /\ stray' \in BOOLEAN
    BY <1>10 DEF SessionInv
  <2>2. BridgeSound(bridge'[d], state, clock, used', committed \cup excused, minted')
    BY <1>4, <1>8, <1>10
  <2>3. \A id \in used' \ used : /\ id \in SessionsOf(bridge[d])
                                 /\ bridge[d].stage # "releasing"
                                 /\ Accounted(id, state, committed \cup excused)
    BY <1>1, <1>2, <1>9, <1>10
  <2> QED BY <1>1, <1>2, <1>4, <1>6, <1>10, <1>11, <2>1, <2>2, <2>3 DEF BridgeMoves
<1> QED BY <1>12, BridgeMoveKeeps

-----------------------------------------------------------------------------
(* Steps that send a request.                                               *)

\* A claim is sent under a session that nobody has, in `claim_launch_intent`.
LEMMA SendClaimKeeps ==
    ASSUME SessionInv, NEW d \in Bridges, SendClaim(d)
    PROVE  SessionInv'
<1>1. PICK b, id : b = bridge[d] /\ id = minted + 1
  OBVIOUS
<1>2. /\ ProcessSound(b) /\ b.stage = "closed" /\ b.cursor = {} /\ b.call = {}
      /\ bridge = [e \in Bridges |-> bridge[e]] /\ SessionsOf(b) = {}
  <2>1. /\ ProcessSound(b) /\ b.stage = "closed" /\ b.cursor = {}
        /\ bridge = [e \in Bridges |-> bridge[e]]
    BY <1>1, OwnProcess DEF SendClaim
  <2> QED BY <2>1 DEF ProcessSound, SessionsOf
<1>3. /\ minted \in Nat /\ id \in 1 .. Cardinality(Sessions) /\ id \in Sessions
      /\ id \notin used /\ id \notin 1 .. minted
      /\ id \in minted .. Cardinality(Sessions)
  <2>1. Cardinality(Sessions) \in Nat
    BY MintAssumption, FS_CardinalityType
  <2>2. minted \in Nat /\ minted < Cardinality(Sessions) /\ used \subseteq 1 .. minted
    BY <2>1 DEF SessionInv, SendClaim
  <2>3. id \in 1 .. Cardinality(Sessions) /\ id \notin 1 .. minted
        /\ id \in minted .. Cardinality(Sessions)
    BY <1>1, <2>1, <2>2
  <2> QED BY <2>2, <2>3, MintAssumption
<1>4. /\ state.last_sequence + 1 \in 1 .. MaxVersion /\ state.version \in 1 .. MaxVersion
      /\ state.pending_intent \subseteq PendingLaunchIntent
  <2>1. clock \in Nat /\ SoundBy(state, clock)
    BY SessionAssumption, BoundAssumption DEF SessionInv, Time
  <2> QED BY <2>1, SoundShape, BoundAssumption
<1>5. PICK i \in state.pending_intent :
         Send(d, [bridge[d] EXCEPT !.stage = "claiming"],
              [sequence |-> state.last_sequence + 1,
               expected_version |-> state.version,
               body |-> [type |-> "Claim", actor_id |-> i.actor_id,
                         launch_intent_id |-> i.launch_intent_id,
                         device_id |-> d, session_id |-> minted + 1]], 1)
  BY DEF SendClaim
<1>6. PICK q, r, m :
         /\ q = [b EXCEPT !.stage = "claiming"]
         /\ r = [sequence |-> state.last_sequence + 1,
                 expected_version |-> state.version,
                 body |-> [type |-> "Claim", actor_id |-> i.actor_id,
                           launch_intent_id |-> i.launch_intent_id,
                           device_id |-> d, session_id |-> id]]
         /\ m = [from |-> d, request |-> r, delivery |-> 1]
  OBVIOUS
<1>7. PICK p : p = [q EXCEPT !.call = {m}, !.reply = {}]
  OBVIOUS
<1>8. network' = network \cup {m} /\ bridge' = [bridge EXCEPT ![d] = p]
  BY <1>1, <1>5, <1>6, <1>7 DEF Send
<1>9. m \in Message /\ m.request.body.type = "Claim" /\ m.request.body.session_id = id
  <2>1. i \in PendingLaunchIntent
    BY <1>4
  <2>2. r.body \in [type : {"Claim"}, launch_intent_id : Intents, actor_id : Actors,
                    device_id : Bridges, session_id : Sessions]
    BY <1>3, <1>6, <2>1 DEF PendingLaunchIntent
  <2>3. r \in Request
    BY <1>4, <1>6, <2>2 DEF Request, Body
  <2> QED BY <1>6, <2>3 DEF Message
<1>10. /\ p \in [stage : Stage, browser : BOOLEAN, healthy : BOOLEAN,
                 cursor : SUBSET Cursor, call : SUBSET Message, reply : {{}},
                 retried : BOOLEAN, next : Time]
       /\ p.stage = "claiming" /\ p.cursor = {} /\ p.call = {m} /\ p.reply = {}
       /\ bridge'[d] = p
  <2>1. /\ q \in [stage : Stage, browser : BOOLEAN, healthy : BOOLEAN,
                  cursor : {{}}, call : SUBSET Message, reply : {b.reply},
                  retried : BOOLEAN, next : Time]
        /\ q.stage = "claiming"
    BY <1>2, <1>6 DEF ProcessSound, Stage
  <2> QED BY <1>2, <1>7, <1>8, <1>9, <2>1
<1>11. SessionsOf(p) = {id}
  BY <1>9, <1>10 DEF SessionsOf
<1>12. ProcessSound(p)
  BY <1>10, <1>11 DEF ProcessSound, IsOption
<1>13. BridgeSound(p, state, clock, used, committed \cup excused, id)
  <2>1. SessionsOf(p) \subseteq 1 .. id
    BY <1>1, <1>3, <1>11
  <2> QED BY <1>3, <1>10, <1>11, <1>12, <2>1
          DEF BridgeSound, RepliesSound, WindowsHold, OpeningsSound, NotYetRun
<1>14. MessageSound(m, used, committed \cup excused, id)
  BY <1>3, <1>9 DEF MessageSound
<1>15. /\ minted' = id /\ gate' \in BOOLEAN /\ stray' \in BOOLEAN
       /\ UNCHANGED <<state, gate, stray, clock, used, committed, excused>>
  BY <1>1 DEF SendClaim, history, SessionInv
<1>16. SessionsOf(bridge'[d]) \subseteq (minted + 1) .. minted'
  BY <1>1, <1>3, <1>10, <1>11, <1>15
<1>17. BridgeMoves(d)
  <2>1. \A o \in network' \ network : o = m
    BY <1>8
  <2>2. \A o \in network' \ network :
          /\ MessageSound(o, used', committed \cup excused, minted')
          /\ o.request.body.type # "Release"
    BY <1>9, <1>14, <1>15, <2>1
  <2>3. BridgeSound(bridge'[d], state, clock, used', committed \cup excused, minted')
    BY <1>10, <1>13, <1>15
  <2> QED BY <1>1, <1>2, <1>3, <1>8, <1>10, <1>15, <1>16, <2>2, <2>3 DEF BridgeMoves
<1> QED BY <1>17, BridgeMoveKeeps

\* A process that waits for the answer to m.
Waiting(m) ==
    [stage : {"opening", "running", "saving", "failed", "releasing"},
     browser : BOOLEAN, healthy : BOOLEAN, cursor : SUBSET Cursor, call : {{m}},
     reply : {{}}, retried : BOOLEAN, next : Time]

\* A heartbeat or a release is sent for the session of the cursor.
LEMMA SendKeeps ==
    ASSUME SessionInv, NEW d \in Bridges, NEW m \in Message, NEW p \in Waiting(m),
           bridge[d].cursor # {}, bridge[d].call = {},
           p.cursor = bridge[d].cursor, p.browser = bridge[d].browser,
           m.request.body.session_id = Cur(d).session_id,
           \/ p.stage = bridge[d].stage /\ m.request.body.type = "RenewLease"
           \/ /\ p.stage = "releasing" /\ m.request.body.type = "Release"
              /\ m.request.body.disposition = "Clean" =>
                    Cur(d).session_id \notin used \ (committed \cup excused),
           bridge' = [bridge EXCEPT ![d] = p], network' = network \cup {m},
           UNCHANGED <<state, gate, stray, clock, minted, history>>
    PROVE  SessionInv'
<1>1. PICK b, k : b = bridge[d] /\ k = Cur(d)
  OBVIOUS
<1>2. /\ ProcessSound(b) /\ b.cursor = {k} /\ b.call = {}
      /\ BridgeSound(b, state, clock, used, committed \cup excused, minted)
      /\ bridge = [e \in Bridges |-> bridge[e]]
      /\ k.session_id \in SessionsOf(b)
  BY <1>1, OwnProcess
<1>3. /\ p.cursor = {k} /\ p.call = {m} /\ p.reply = {} /\ p.browser = b.browser
      /\ p.stage \in {"opening", "running", "saving", "failed", "releasing"}
  BY <1>1, <1>2 DEF Waiting
<1>4. SessionsOf(b) = {k.session_id} /\ SessionsOf(p) = {k.session_id}
  BY <1>1, <1>2, <1>3 DEF SessionsOf
<1>5. ProcessSound(p)
  <2>1. p \in [stage : Stage, browser : BOOLEAN, healthy : BOOLEAN,
               cursor : SUBSET Cursor, call : SUBSET Message, reply : {p.reply},
               retried : BOOLEAN, next : Time]
    BY DEF Waiting, Stage
  <2>2. IsOption(p.cursor) /\ IsOption(p.call) /\ IsOption(SessionsOf(p))
    BY <1>3, <1>4 DEF IsOption
  <2>3. p.stage \in {"opening", "running", "saving"} =>
           \A o \in p.call : o.request.body.type = "RenewLease"
    BY <1>3
  <2>4. \A j \in p.cursor : \A r \in j.pending :
           r.body.type = "RenewLease" /\ r.body.session_id = j.session_id
    BY <1>2, <1>3 DEF ProcessSound
  <2> QED BY <1>3, <2>1, <2>2, <2>3, <2>4 DEF ProcessSound
<1>6. BridgeSound(p, state, clock, used, committed \cup excused, minted)
  <2>1. p.stage # "releasing" => b.stage # "releasing"
    BY <1>1
  <2>2. \A j \in p.cursor : \E o \in b.cursor :
           AcceptsWriter(o, j) /\ j.idle = o.idle /\ j.hard = o.hard
    BY <1>2, <1>3 DEF AcceptsWriter
  <2>3. p.stage = "opening" => b.stage = "opening" /\ (b.browser => p.browser)
    BY <1>1, <1>3
  <2>4. p.stage # "claiming" /\ SessionsOf(p) \subseteq SessionsOf(b)
    BY <1>3, <1>4
  <2> QED BY <1>2, <1>3, <1>5, <2>1, <2>2, <2>3, <2>4, ProcessContinues
<1>7. bridge'[d] = p /\ bridge' = [bridge EXCEPT ![d] = bridge'[d]]
  BY <1>2
<1>8. MessageSound(m, used, committed \cup excused, minted)
  <2>1. k.session_id \in 1 .. minted
    BY <1>2 DEF BridgeSound
  <2> QED BY <1>1, <2>1 DEF MessageSound
<1>9. /\ minted' \in minted .. Cardinality(Sessions)
      /\ gate' \in BOOLEAN /\ stray' \in BOOLEAN
      /\ UNCHANGED <<state, clock, minted, used, committed, excused>>
  <2>1. Cardinality(Sessions) \in Nat
    BY MintAssumption, FS_CardinalityType
  <2> QED BY <2>1 DEF SessionInv, history
<1>10. BridgeMoves(d)
  <2>1. \A o \in network' \ network : o = m
    OBVIOUS
  <2>2. m.request.body.type = "Release" =>
           /\ m.request.body.session_id \in SessionsOf(bridge[d])
           /\ bridge'[d].stage = "releasing"
    BY <1>1, <1>2, <1>7
  <2>3. bridge[d].stage = "releasing" => bridge'[d].stage = "releasing"
    BY <1>7
  <2> QED BY <1>1, <1>4, <1>6, <1>7, <1>8, <1>9, <2>1, <2>2, <2>3 DEF BridgeMoves
<1> QED BY <1>10, BridgeMoveKeeps

\* A heartbeat is sent, or sent again as it was.
LEMMA SendHeartbeatKeeps ==
    ASSUME SessionInv, NEW d \in Bridges, SendHeartbeat(d)
    PROVE  SessionInv'
<1>1. PICK b, k, r, i, m :
         /\ b = bridge[d] /\ k = Cur(d) /\ r = HeartbeatRequest(k)
         /\ i = IF b.retried THEN 2 ELSE 1
         /\ m = [from |-> d, request |-> r, delivery |-> i]
  OBVIOUS
<1>2. PICK q : q = [b EXCEPT !.next = clock]
  OBVIOUS
<1>3. PICK p : p = [q EXCEPT !.call = {m}, !.reply = {}]
  OBVIOUS
<1>4. /\ ProcessSound(b) /\ b.cursor = {k} /\ k \in Cursor /\ HeartbeatDue(d)
  BY <1>1, OwnProcess DEF SendHeartbeat
<1>5. /\ clock \in Time
      /\ b.stage \in {"opening", "running", "saving"}
  BY <1>1, <1>4, SessionAssumption, BoundAssumption DEF SessionInv, Time, HeartbeatDue
<1>6. /\ q.call = b.call
      /\ q \in [stage : {"opening", "running", "saving"}, browser : BOOLEAN,
                healthy : BOOLEAN, cursor : SUBSET Cursor, call : {b.call},
                reply : {b.reply}, retried : BOOLEAN, next : Time]
      /\ q.cursor = b.cursor /\ q.browser = b.browser /\ q.stage = b.stage
  BY <1>2, <1>4, <1>5 DEF ProcessSound
<1>7. /\ b.call = {} /\ network' = network \cup {m}
      /\ bridge' = [bridge EXCEPT ![d] = p]
      /\ UNCHANGED <<state, gate, stray, clock, minted, history>>
      /\ k.sequence < MaxVersion
  BY <1>1, <1>2, <1>3, <1>6 DEF SendHeartbeat, Send
<1>8. r \in Request /\ r.body.type = "RenewLease" /\ r.body.session_id = k.session_id
  <2>1. CASE k.pending = {}
    <3>1. r = NewHeartbeat(k)
      BY <1>1, <2>1 DEF HeartbeatRequest
    <3>2. k.sequence + 1 \in 1 .. MaxVersion /\ k.version \in 1 .. MaxVersion
      BY <1>4, <1>7, BoundAssumption DEF Cursor
    <3>3. [type |-> "RenewLease", session_id |-> k.session_id,
           epoch |-> k.epoch, fencing_token |-> k.fencing_token] \in Body
      BY <1>4 DEF Cursor, Body
    <3> QED BY <3>1, <3>2, <3>3 DEF NewHeartbeat, Request
  <2>2. CASE k.pending # {}
    <3>1. r \in k.pending
      BY <1>1, <2>2 DEF HeartbeatRequest
    <3> QED BY <1>4, <3>1 DEF ProcessSound, Cursor
  <2> QED BY <2>1, <2>2
<1>9. m \in Message /\ m.request = r
  BY <1>1, <1>8 DEF Message
<1>10. /\ p \in Waiting(m) /\ p.cursor = b.cursor /\ p.browser = b.browser
       /\ p.stage = b.stage
  BY <1>3, <1>6 DEF Waiting
<1>11. /\ bridge[d].cursor # {} /\ bridge[d].call = {}
       /\ m.request.body.session_id = Cur(d).session_id
       /\ p.stage = bridge[d].stage /\ m.request.body.type = "RenewLease"
       /\ p.cursor = bridge[d].cursor /\ p.browser = bridge[d].browser
  BY <1>1, <1>4, <1>7, <1>8, <1>9, <1>10
<1> QED BY <1>7, <1>9, <1>10, <1>11, SendKeeps

\* A lease is released, in `release_lease`; Clean for a session that is safe.
LEMMA SendReleaseKeeps ==
    ASSUME SessionInv, NEW d \in Bridges, NEW disposition \in {"Clean", "Uncertain"},
           bridge[d].cursor # {}, SendRelease(d, disposition),
           disposition = "Clean" =>
              Cur(d).session_id \notin used \ (committed \cup excused)
    PROVE  SessionInv'
<1>1. PICK b, k, r, m :
         /\ b = bridge[d] /\ k = Cur(d)
         /\ r = [sequence |-> k.sequence + 1, expected_version |-> k.version,
                 body |-> [type |-> "Release", session_id |-> k.session_id,
                           epoch |-> k.epoch, fencing_token |-> k.fencing_token,
                           disposition |-> disposition]]
         /\ m = [from |-> d, request |-> r, delivery |-> 1]
  OBVIOUS
<1>2. PICK q : q = [b EXCEPT !.stage = "releasing"]
  OBVIOUS
<1>3. PICK p : p = [q EXCEPT !.call = {m}, !.reply = {}]
  OBVIOUS
<1>4. ProcessSound(b) /\ b.cursor = {k} /\ k \in Cursor
  BY <1>1, OwnProcess
<1>5. /\ q.call = b.call
      /\ q \in [stage : {"releasing"}, browser : BOOLEAN,
                healthy : BOOLEAN, cursor : SUBSET Cursor, call : {b.call},
                reply : {b.reply}, retried : BOOLEAN, next : Time]
      /\ q.cursor = b.cursor /\ q.browser = b.browser
  BY <1>2, <1>4 DEF ProcessSound
<1>6. /\ b.call = {} /\ network' = network \cup {m}
      /\ bridge' = [bridge EXCEPT ![d] = p]
      /\ UNCHANGED <<state, gate, stray, clock, minted, history>>
      /\ k.sequence < MaxVersion
  BY <1>1, <1>2, <1>3, <1>5 DEF SendRelease, Send
<1>7. /\ r \in Request /\ r.body.type = "Release" /\ r.body.session_id = k.session_id
      /\ r.body.disposition = disposition
  <2>1. k.sequence + 1 \in 1 .. MaxVersion /\ k.version \in 1 .. MaxVersion
    BY <1>4, <1>6, BoundAssumption DEF Cursor
  <2>2. r.body \in Body
    BY <1>1, <1>4 DEF Cursor, Body
  <2> QED BY <1>1, <2>1, <2>2 DEF Request
<1>8. m \in Message /\ m.request = r
  BY <1>1, <1>7 DEF Message
<1>9. /\ p \in Waiting(m) /\ p.cursor = b.cursor /\ p.browser = b.browser
      /\ p.stage = "releasing"
  BY <1>3, <1>5 DEF Waiting
<1>10. /\ bridge[d].call = {}
       /\ m.request.body.session_id = Cur(d).session_id
       /\ p.stage = "releasing" /\ m.request.body.type = "Release"
       /\ m.request.body.disposition = "Clean" =>
             Cur(d).session_id \notin used \ (committed \cup excused)
       /\ p.cursor = bridge[d].cursor /\ p.browser = bridge[d].browser
  BY <1>1, <1>6, <1>7, <1>8, <1>9
<1> QED BY <1>6, <1>8, <1>9, <1>10, SendKeeps

\* The three releases: of an opening that failed, of a saved session, of a failed one.
LEMMA ReleasesKeep ==
    ASSUME SessionInv, NEW d \in Bridges,
           FailBeforeUse(d) \/ ReleaseSaved(d) \/ ReleaseFailed(d)
    PROVE  SessionInv'
<1>1. /\ ProcessSound(bridge[d])
      /\ BridgeSound(bridge[d], state, clock, used, committed \cup excused, minted)
  BY OwnProcess
<1>2. bridge[d].cursor # {}
  BY <1>1 DEF ProcessSound, FailBeforeUse, ReleaseSaved, ReleaseFailed
<1>3. Cur(d).session_id \in SessionsOf(bridge[d])
  BY <1>2, OwnProcess
<1>4. CASE FailBeforeUse(d)
  <2>1. Cur(d).session_id \notin used
    BY <1>1, <1>3, <1>4 DEF FailBeforeUse, BridgeSound, NotYetRun
  <2> QED BY <1>2, <1>4, <2>1, SendReleaseKeeps DEF FailBeforeUse
<1>5. CASE ReleaseSaved(d)
  BY <1>2, <1>5, SendReleaseKeeps DEF ReleaseSaved
<1>6. CASE ReleaseFailed(d)
  BY <1>2, <1>6, SendReleaseKeeps DEF ReleaseFailed
<1> QED BY <1>4, <1>5, <1>6

-----------------------------------------------------------------------------
(* Steps that take a reply.                                                 *)

\* A process takes the lease of a reply over, in `validate_active_projection`.
LEMMA ReplyTaken ==
    ASSUME NEW b, NEW s, NEW t, NEW ran, NEW safe, NEW n,
           BridgeSound(b, s, t, ran, safe, n), b.stage # "releasing",
           NEW x \in b.reply, x.ok, x.status = "Active", x.at = x.version,
           x.sequence \in 1 .. MaxVersion,
           NEW l \in x.lease, l.session_id \in SessionsOf(b),
           NEW p \in Resting, p.cursor = {CursorFrom(x, l)},
           p.stage = "opening" =>
              b.stage = "claiming" \/ (b.stage = "opening" /\ (b.browser => p.browser))
    PROVE  BridgeSound(p, s, t, ran, safe, n) /\ SessionsOf(p) \subseteq SessionsOf(b)
<1>1. ProcessSound(b) /\ RepliesSound(b)
  BY DEF BridgeSound
<1>2. PICK k : k = CursorFrom(x, l)
  OBVIOUS
<1>3. k \in Cursor /\ k.session_id = l.session_id /\ k.pending = {}
  <2>1. l \in CoordinatorLease /\ x.version \in 1 .. MaxVersion
    BY <1>1 DEF RepliesSound
  <2> QED BY <1>2, <2>1 DEF CursorFrom, CoordinatorLease, Cursor
<1>4. /\ p.cursor = {k} /\ p.call = {} /\ p.reply = {} /\ p.browser \in BOOLEAN
      /\ p.stage \in {"opening", "running", "saving", "failed"}
  BY <1>2 DEF Resting
<1>5. SessionsOf(p) = {k.session_id}
  BY <1>4 DEF SessionsOf
<1>6. ProcessSound(p)
  <2>1. p \in [stage : Stage, browser : BOOLEAN, healthy : BOOLEAN,
               cursor : SUBSET Cursor, call : SUBSET Message, reply : {p.reply},
               retried : BOOLEAN, next : Time]
    BY DEF Resting, Stage
  <2> QED BY <1>3, <1>4, <1>5, <2>1 DEF ProcessSound, IsOption
<1>7. Confirmed(k, s, t)
  BY <1>2 DEF BridgeSound, WindowsHold
<1>8. p.stage = "opening" => Accounted(k.session_id, s, safe)
  <2>1. CASE b.stage = "claiming"
    BY <1>3, <2>1 DEF BridgeSound, OpeningsSound
  <2>2. CASE b.stage = "opening"
    <3>1. PICK j \in b.cursor : TRUE
      BY <1>1, <2>2 DEF ProcessSound
    <3>2. j.session_id \in SessionsOf(b)
      BY DEF SessionsOf
    <3>3. j.session_id = l.session_id
      BY <1>1, <3>2 DEF ProcessSound, IsOption
    <3> QED BY <1>3, <2>2, <3>1, <3>3 DEF BridgeSound, OpeningsSound
  <2> QED BY <2>1, <2>2
<1>9. NotYetRun(p, ran)
  <2> SUFFICES ASSUME p.stage = "opening", ~p.browser
               PROVE  k.session_id \notin ran
    BY <1>4, <1>5 DEF NotYetRun
  <2>1. b.browser \in BOOLEAN
    BY <1>1 DEF ProcessSound
  <2> QED BY <1>3, <2>1 DEF BridgeSound, NotYetRun
<1>10. SessionsOf(p) \subseteq SessionsOf(b)
  BY <1>3, <1>5
<1> QED BY <1>4, <1>5, <1>6, <1>7, <1>8, <1>9, <1>10
        DEF BridgeSound, RepliesSound, WindowsHold, OpeningsSound

\* What an accepted reply says.
LEMMA ReplyAccepted ==
    ASSUME SessionInv, NEW d \in Bridges, NEW x \in bridge[d].reply, NEW id,
           bridge[d].call # {}, x.ok, x.status = "Active", x.at = x.version,
           x.sequence = RequestOf(d).sequence, \E l \in x.lease : l.session_id = id
    PROVE  /\ x.ok /\ x.status = "Active" /\ x.at = x.version
           /\ x.sequence \in 1 .. MaxVersion
           /\ \E l \in x.lease : l.session_id = id /\ x.lease = {l}
<1>1. RequestOf(d) \in Request /\ RepliesSound(bridge[d])
  BY OwnProcess DEF BridgeSound
<1>2. x.sequence \in 1 .. MaxVersion
  BY <1>1 DEF Request
<1>3. IsOption(x.lease)
  BY <1>1 DEF RepliesSound
<1> QED BY <1>2, <1>3 DEF IsOption

\* The answer to a claim.
LEMMA ClaimReplyKeeps ==
    ASSUME SessionInv, NEW d \in Bridges, ClaimReply(d)
    PROVE  SessionInv'
<1>1. PICK b, id : b = bridge[d] /\ id = RequestOf(d).body.session_id
  OBVIOUS
<1>2. /\ ProcessSound(b) /\ b.stage = "claiming"
      /\ BridgeSound(b, state, clock, used, committed \cup excused, minted)
      /\ bridge = [e \in Bridges |-> bridge[e]]
      /\ UNCHANGED <<state, gate, stray, network, clock, minted, history>>
  BY <1>1, OwnProcess DEF ClaimReply
<1>3. PICK q : q = [b EXCEPT !.call = {}, !.reply = {}]
  OBVIOUS
<1>4. PICK x \in b.reply :
         bridge' = [bridge EXCEPT ![d] =
            IF ActiveReply(d, x, "LeaseClaimed", id, RequestOf(d).sequence, FALSE)
            THEN [q EXCEPT !.stage = "opening",
                           !.cursor = {CursorFrom(x, l) : l \in x.lease}]
            ELSE Closed]
  BY <1>1, <1>2, <1>3 DEF ClaimReply, Answered
<1>5. b.call # {} /\ id \in SessionsOf(b)
  <2>1. b.call # {}
    BY <1>2, <1>4 DEF ProcessSound
  <2> QED BY <1>1, <2>1, OwnProcess
<1>6. CASE ActiveReply(d, x, "LeaseClaimed", id, RequestOf(d).sequence, FALSE)
  <2>1. /\ x.ok /\ x.status = "Active" /\ x.at = x.version
        /\ x.sequence \in 1 .. MaxVersion
        /\ \E l \in x.lease : l.session_id = id /\ x.lease = {l}
    <3>1. /\ x.ok /\ x.status = "Active" /\ x.at = x.version
          /\ x.sequence = RequestOf(d).sequence /\ \E l \in x.lease : l.session_id = id
      BY <1>6 DEF ActiveReply
    <3> QED BY <1>1, <1>4, <1>5, <3>1, ReplyAccepted
  <2>2. PICK l \in x.lease : l.session_id = id /\ x.lease = {l}
    BY <2>1
  <2>3. PICK p : p = [q EXCEPT !.stage = "opening",
                               !.cursor = {CursorFrom(x, y) : y \in x.lease}]
    OBVIOUS
  <2>4. {CursorFrom(x, y) : y \in x.lease} = {CursorFrom(x, l)}
    BY <2>2
  <2>5. CursorFrom(x, l) \in Cursor
    <3>1. l \in CoordinatorLease /\ x.version \in 1 .. MaxVersion
      BY <1>2, <2>1 DEF BridgeSound, RepliesSound
    <3> QED BY <2>1, <3>1 DEF CursorFrom, CoordinatorLease, Cursor
  <2>6. p \in Resting /\ p.cursor = {CursorFrom(x, l)} /\ p.stage = "opening"
    <3>1. q \in [stage : Stage, browser : BOOLEAN, healthy : BOOLEAN,
                 cursor : SUBSET Cursor, call : {{}}, reply : {{}},
                 retried : BOOLEAN, next : Time]
      BY <1>2, <1>3 DEF ProcessSound
    <3>2. p = [q EXCEPT !.stage = "opening", !.cursor = {CursorFrom(x, l)}]
      BY <2>3, <2>4
    <3> QED BY <2>5, <3>1, <3>2 DEF Resting
  <2>7. /\ BridgeSound(p, state, clock, used, committed \cup excused, minted)
        /\ SessionsOf(p) \subseteq SessionsOf(b)
    BY <1>2, <1>5, <2>1, <2>2, <2>6, ReplyTaken
  <2>8. bridge' = [bridge EXCEPT ![d] = p] /\ bridge'[d] = p
    BY <1>2, <1>4, <1>6, <2>3
  <2> QED BY <1>1, <1>2, <2>7, <2>8, ProcessMoveKeeps DEF history
<1>7. CASE ~ActiveReply(d, x, "LeaseClaimed", id, RequestOf(d).sequence, FALSE)
  BY <1>2, <1>4, <1>7, ProcessEnds
<1> QED BY <1>6, <1>7

\* A confirmed heartbeat, in `heartbeat_lease`.
LEMMA HeartbeatConfirmedKeeps ==
    ASSUME SessionInv, NEW d \in Bridges, HeartbeatConfirmed(d)
    PROVE  SessionInv'
<1>1. PICK b, id : b = bridge[d] /\ id = Cur(d).session_id
  OBVIOUS
<1>2. /\ ProcessSound(b) /\ b.stage \in {"opening", "running", "saving"}
      /\ BridgeSound(b, state, clock, used, committed \cup excused, minted)
      /\ bridge = [e \in Bridges |-> bridge[e]]
      /\ UNCHANGED <<state, gate, stray, network, clock, minted, history>>
      /\ b.call # {} /\ b.cursor # {}
  <2>1. /\ ProcessSound(b) /\ b.stage \in {"opening", "running", "saving"}
        /\ BridgeSound(b, state, clock, used, committed \cup excused, minted)
        /\ bridge = [e \in Bridges |-> bridge[e]]
        /\ UNCHANGED <<state, gate, stray, network, clock, minted, history>>
        /\ b.call # {}
    BY <1>1, OwnProcess DEF HeartbeatConfirmed, InHeartbeat
  <2> QED BY <2>1 DEF ProcessSound
<1>3. id \in SessionsOf(b)
  BY <1>1, <1>2, OwnProcess
<1>4. PICK q : q = [b EXCEPT !.call = {}, !.reply = {}]
  OBVIOUS
<1>5. PICK x \in b.reply :
         /\ Confirms(d, x)
         /\ LET k == CHOOSE c \in {CursorFrom(x, l) : l \in x.lease} : TRUE
                a == [q EXCEPT !.cursor = {k}, !.retried = FALSE]
            IN  bridge' = [bridge EXCEPT ![d] =
                  IF a.stage # "running" THEN a
                  ELSE IF LoopGoesOn(a.next, Deadline(k))
                       THEN [a EXCEPT !.next = NextHeartbeat(a.next, Deadline(k))]
                       ELSE Closed]
  BY <1>1, <1>4 DEF HeartbeatConfirmed, Answered
<1>6. /\ x.ok /\ x.status = "Active" /\ x.at = x.version
      /\ x.sequence \in 1 .. MaxVersion
      /\ \E l \in x.lease : l.session_id = id /\ x.lease = {l}
  <2>1. /\ x.ok /\ x.status = "Active" /\ x.at = x.version
        /\ x.sequence = RequestOf(d).sequence /\ \E l \in x.lease : l.session_id = id
    BY <1>1, <1>5 DEF Confirms, ActiveReply
  <2> QED BY <1>1, <1>2, <1>5, <2>1, ReplyAccepted
<1>7. PICK l \in x.lease : l.session_id = id /\ x.lease = {l}
  BY <1>6
<1>8. PICK k : k = CursorFrom(x, l)
  OBVIOUS
<1>9. (CHOOSE c \in {CursorFrom(x, y) : y \in x.lease} : TRUE) = k
  <2>1. {CursorFrom(x, y) : y \in x.lease} = {k}
    BY <1>7, <1>8
  <2> QED BY <2>1
<1>10. PICK a : a = [q EXCEPT !.cursor = {k}, !.retried = FALSE]
  OBVIOUS
<1>11. PICK p : /\ bridge' = [bridge EXCEPT ![d] = p]
                /\ \/ p = a
                   \/ /\ LoopGoesOn(a.next, Deadline(k))
                      /\ p = [a EXCEPT !.next = NextHeartbeat(a.next, Deadline(k))]
                   \/ p = Closed
  BY <1>5, <1>9, <1>10
<1>12. k \in Cursor /\ Deadline(k) \in Time
  <2>1. l \in CoordinatorLease /\ x.version \in 1 .. MaxVersion
    BY <1>2, <1>6 DEF BridgeSound, RepliesSound
  <2>2. k \in Cursor
    BY <1>6, <1>8, <2>1 DEF CursorFrom, CoordinatorLease, Cursor
  <2> QED BY <2>2 DEF Cursor, Deadline, Least
<1>13. a \in Resting /\ a.cursor = {k} /\ a.stage = b.stage /\ a.browser = b.browser
  BY <1>2, <1>4, <1>10, <1>12 DEF ProcessSound, Resting
<1>14. ASSUME NEW c \in Resting, c.cursor = {k}, c.stage = b.stage, c.browser = b.browser,
              bridge' = [bridge EXCEPT ![d] = c]
       PROVE  SessionInv'
  <2>1. /\ BridgeSound(c, state, clock, used, committed \cup excused, minted)
        /\ SessionsOf(c) \subseteq SessionsOf(b)
    <3>1. b.stage # "releasing" /\ l.session_id \in SessionsOf(b)
      BY <1>2, <1>3, <1>7
    <3>2. c.stage = "opening" => b.stage = "opening" /\ (b.browser => c.browser)
      BY <1>14
    <3> QED BY <1>2, <1>6, <1>8, <1>14, <3>1, <3>2, ReplyTaken
  <2>2. bridge'[d] = c
    BY <1>2, <1>14
  <2> QED BY <1>1, <1>2, <1>14, <2>1, <2>2, ProcessMoveKeeps DEF history
<1>15. CASE p = a
  BY <1>11, <1>13, <1>14, <1>15
<1>16. CASE /\ LoopGoesOn(a.next, Deadline(k))
            /\ p = [a EXCEPT !.next = NextHeartbeat(a.next, Deadline(k))]
  <2>1. a.next \in Time
    BY <1>13 DEF Resting
  <2>2. PICK at : at = NextHeartbeat(a.next, Deadline(k))
    OBVIOUS
  <2>3. at \in Time
    BY <1>12, <1>16, <2>1, <2>2, HeartbeatTimes
  <2>4. p \in Resting /\ p.cursor = {k} /\ p.stage = b.stage /\ p.browser = b.browser
    BY <1>13, <1>16, <2>2, <2>3 DEF Resting
  <2> QED BY <1>11, <1>14, <2>4
<1>17. CASE p = Closed
  BY <1>2, <1>11, <1>17, ProcessEnds
<1> QED BY <1>11, <1>15, <1>16, <1>17

\* Every step of a Bridge keeps the invariant.
LEMMA BridgeStepKeeps ==
    ASSUME SessionInv, NEW d \in Bridges, BridgeStep(d)
    PROVE  SessionInv'
<1>1. CASE CallEnds(d) \/ Exit(d)
  BY <1>1, ProcessEnds DEF CallEnds, Exit
<1>2. CASE BeginCommit(d)
  <2>1. /\ UNCHANGED <<bridge, minted, used, network, clock, committed, excused>>
        /\ gate' \in BOOLEAN /\ stray' \in BOOLEAN /\ state' = state
    BY <1>2 DEF BeginCommit, history, SessionInv
  <2> QED BY <2>1, ObjectKeeps
<1>3. CASE FailBeforeUse(d) \/ ReleaseSaved(d) \/ ReleaseFailed(d)
  BY <1>3, ReleasesKeep
<1> QED BY <1>1, <1>2, <1>3, SendClaimKeeps, SendHeartbeatKeeps, ClaimReplyKeeps,
        HeartbeatConfirmedKeeps, HeartbeatRefusedKeeps, HeartbeatUncertainKeeps,
        LaunchKeeps, ReadyKeeps, KeepaliveEndsKeeps, StopBrowserKeeps,
        CloseBrowserKeeps DEF BridgeStep

\* The coordinator, the Bridges and the network start sound.
LEMMA SessionStarts ==
    ASSUME SessionInit
    PROVE  SessionInv
<1>1. /\ state = NewCoordinator /\ gate = FALSE /\ stray = FALSE /\ network = {}
      /\ bridge = [d \in Bridges |-> Closed] /\ clock = 0 /\ minted = 0
      /\ used = {} /\ committed = {} /\ excused = {}
  BY DEF SessionInit
<1>2. SoundBy(state, clock)
  <2>1. /\ Checkpoint(NewCoordinator) = NewCoordinator
        /\ NewCoordinator = WithReceipts(NewCoordinator, NewCoordinator.receipts)
        /\ NewCoordinator.last_observed_at = 0
    BY DEF NewCoordinator, Checkpoint, WithReceipts
  <2> QED BY <1>1, <2>1, NewCoordinatorSound DEF SoundBy
<1>3. ASSUME NEW d \in Bridges
      PROVE  /\ bridge[d] = Closed /\ SessionsOf(bridge[d]) = {}
             /\ BridgeSound(bridge[d], state, clock, used, committed \cup excused, minted)
  BY <1>1, ClosedSound
<1>4. Cardinality(Sessions) \in Nat /\ MaxClock \in Nat
  BY MintAssumption, FS_CardinalityType, SessionAssumption, BoundAssumption DEF Time
<1>5. gate \in BOOLEAN /\ stray \in BOOLEAN
  BY <1>1
<1>6. /\ clock \in 0 .. MaxClock /\ minted \in 0 .. Cardinality(Sessions)
      /\ used \subseteq 1 .. minted
      /\ \A id \in used : Accounted(id, state, committed \cup excused)
  BY <1>1, <1>4
<1>7. SessionsApart
  BY <1>3 DEF SessionsApart
<1>8. bridge = [d \in Bridges |-> bridge[d]]
  BY <1>1
<1> QED BY <1>1, <1>2, <1>3, <1>5, <1>6, <1>7, <1>8
        DEF SessionInv

-----------------------------------------------------------------------------
(* The theorems about the Bridge and its lease.                             *)

\* SessionInv is an inductive invariant.
THEOREM SessionInductive == SessionSpec => []SessionInv
<1>1. SessionInit => SessionInv
  BY SessionStarts
<1>2. SessionInv /\ [SessionNext]_sessionVars => SessionInv'
  <2> SUFFICES ASSUME SessionInv, [SessionNext]_sessionVars PROVE SessionInv'
    OBVIOUS
  <2>1. CASE UNCHANGED sessionVars
    <3>1. /\ UNCHANGED <<state, gate, stray, bridge, network, clock, minted, used,
                         committed, excused>>
      BY <2>1 DEF sessionVars
    <3> QED BY <3>1 DEF SessionInv, SessionsApart
  <2>2. CASE \E d \in Bridges : BridgeStep(d)
    BY <2>2, BridgeStepKeeps
  <2>3. CASE /\ SessionNext
             /\ ~\E d \in Bridges : BridgeStep(d)
    BY <2>3, EnvironmentActionsKeep DEF SessionNext
  <2> QED BY <2>1, <2>2, <2>3
<1> QED BY <1>1, <1>2, PTL DEF SessionSpec

\* The session's variables keep their types.
THEOREM SessionsTyped == SessionSpec => []SessionTypeOK
<1>1. SessionInv => SessionTypeOK
  <2> SUFFICES ASSUME SessionInv PROVE SessionTypeOK
    OBVIOUS
  <2>1. clock \in Time /\ clock \in Nat /\ SoundBy(state, clock)
    BY SessionAssumption, BoundAssumption DEF SessionInv, Time
  <2>2. state.version \in 1 .. MaxVersion /\ state.status \in Status
    BY <2>1, SoundShape
  <2>3. ASSUME NEW d \in Bridges
        PROVE  /\ bridge[d].stage \in Stage
               /\ bridge[d].browser \in BOOLEAN /\ bridge[d].healthy \in BOOLEAN
               /\ bridge[d].retried \in BOOLEAN /\ bridge[d].next \in Time
               /\ bridge[d].cursor \subseteq Cursor /\ IsOption(bridge[d].cursor)
               /\ bridge[d].call \subseteq Message /\ IsOption(bridge[d].call)
    BY OwnProcess DEF ProcessSound
  <2>4. network \subseteq Message
    BY DEF SessionInv, MessageSound
  <2>5. gate \in BOOLEAN /\ stray \in BOOLEAN /\ minted \in 0 .. Cardinality(Sessions)
    BY DEF SessionInv
  <2> QED BY <2>1, <2>2, <2>3, <2>4, <2>5 DEF SessionTypeOK
<1> QED BY <1>1, SessionInductive, PTL

\* Until the deadline it was last told, a Bridge's lease is its own.
THEOREM WindowsExclusive == SessionSpec => []ConfirmedWindowIsExclusive
<1>1. SessionInv => ConfirmedWindowIsExclusive
  <2> SUFFICES ASSUME SessionInv, NEW d \in Bridges, NEW k \in bridge[d].cursor,
                      clock < Deadline(k), bridge[d].stage # "releasing"
               PROVE  \E l \in state.active_lease :
                         /\ AcceptsWriter(l, k)
                         /\ k.idle <= l.idle_expires_at
                         /\ k.hard <= l.hard_expires_at
    BY DEF ConfirmedWindowIsExclusive
  <2>1. Confirmed(k, state, clock)
    BY OwnProcess DEF BridgeSound, WindowsHold
  <2> QED BY <2>1 DEF Confirmed, Backs
<1> QED BY <1>1, SessionInductive, PTL

\* An idle coordinator means that every browser that ran was saved, or that a person
\* gave its data up.
THEOREM UnsavedStaysKnown == SessionSpec => []UnsavedNeverIdle
<1>1. SessionInv => UnsavedNeverIdle
  <2> SUFFICES ASSUME SessionInv, state.status = "Idle", NEW id \in used
               PROVE  id \in committed \cup excused
    BY DEF UnsavedNeverIdle
  <2>1. Accounted(id, state, committed \cup excused)
    BY DEF SessionInv
  <2>2. clock \in Nat /\ SoundBy(state, clock)
    BY SessionAssumption, BoundAssumption DEF SessionInv, Time
  <2>3. state.active_lease = {}
    BY <2>2, SoundShape
  <2> QED BY <2>1, <2>3 DEF Accounted, Unsettled
<1> QED BY <1>1, SessionInductive, PTL
=============================================================================
