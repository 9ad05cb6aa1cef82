------------------------ MODULE GenerationCommitProofs ------------------------
(***************************************************************************)
(* What GenerationCommit promises of a save, for every number of requests, *)
(* generations, devices and for every timeout.                             *)
(***************************************************************************)
EXTENDS GenerationCommit, WellFoundedInduction, TLAPS

-----------------------------------------------------------------------------
(* The gate.                                                               *)

\* For as long as a gate is stored, the object holds the lease, at the
\* version, for which the save behind the gate was validated, unless a command
\* that was waiting when the gate was stored has been applied since.
GateHolds == \A g \in gate : LeaseHeld(g) \/ overtaken

\* No gate is stored at first.
LEMMA GateInit == Init => GateHolds
BY DEF Init, GateHolds

\* A command that is applied under a gate was waiting when the gate was stored
\* and is noted, the alarm changes the lease only when there is no gate, a
\* reservation stores a gate only for a live authority, and whatever else a
\* request, D1 or time does leaves the lease alone.
LEMMA GateStep == GateHolds /\ [Next]_vars => GateHolds'
<1> SUFFICES ASSUME GateHolds, [Next]_vars PROVE GateHolds'
  OBVIOUS
<1>1. ASSUME NEW k \in Commanders, Command(k) PROVE GateHolds'
  <2>1. CASE gate = {}
    BY <1>1, <2>1 DEF Command, GateHolds
  <2>2. CASE gate # {}
    <3>1. k \in waiting
      BY <1>1, <2>2 DEF Command, PassesGate
    <3>2. overtaken'
      BY <1>1, <3>1 DEF Command
    <3> QED
      BY <3>2 DEF GateHolds
  <2> QED
    BY <2>1, <2>2
<1>2. ASSUME coord' = coord, gate' \subseteq gate,
             gate' = {} \/ overtaken' = overtaken
      PROVE  GateHolds'
  BY <1>2 DEF GateHolds, LeaseHeld
<1>3. ASSUME NEW w \in Workers, Reserve(w) PROVE GateHolds'
  <2>1. AuthorityLive(call[w].request, AuthorizedAt)
    BY <1>3 DEF Reserve, Admissible
  <2>2. /\ coord' = coord
        /\ gate' = {[request |-> call[w].request, authorized_at |-> AuthorizedAt]}
    BY <1>3 DEF Reserve
  <2>3. /\ coord.version = call[w].request.version
        /\ \E l \in coord.active_lease : AcceptsWriter(l, call[w].request)
    BY <2>1 DEF AuthorityLive
  <2> QED
    BY <2>2, <2>3 DEF GateHolds, LeaseHeld
<1>4. CASE AlarmTick
  BY <1>4 DEF AlarmTick, GateHolds
<1>5. ASSUME NEW w \in Workers,
             ProveAuthority(w) \/ RefuseReservation(w) \/ D1Answers(w) \/ Finish(w)
      PROVE  GateHolds'
  BY <1>2, <1>5 DEF ProveAuthority, RefuseReservation, D1Answers, D1Apply, D1Refuse,
     D1Revoked, D1Confirm, D1Unavailable, Finish, object
<1>6. ASSUME \/ AlarmGated \/ Evict \/ Tock
             \/ \E u \in unprojected : Project(u) \/ LoseProjection(u)
      PROVE  GateHolds'
  BY <1>2, <1>6 DEF AlarmGated, Evict, Tock, Project, LoseProjection, object
<1>7. CASE UNCHANGED vars
  BY <1>2, <1>7 DEF vars
<1> QED
  BY <1>1, <1>3, <1>4, <1>5, <1>6, <1>7 DEF Next

\* A row is added under the lease the object holds, as long as the gate of its
\* save is stored, or else a command that profile_coordinator.rs let in before
\* that gate has been applied in between: no alarm and no later command ends
\* the lease between the validation of a save and the answer of D1.
THEOREM CommitsUnderLiveLease == Spec => CommitUnderLiveLease
<1> DEFINE Added == \A x \in successors' \ successors :
                       (\E g \in gate : g.request = x.request)
                           => LeaseHeld(x) \/ overtaken
<1>1. GateHolds => Added
  BY DEF GateHolds, LeaseHeld
<1>2. Spec => []GateHolds
  BY GateInit, GateStep, PTL DEF Spec
<1> QED
  BY <1>2, <1>1, PTL DEF CommitUnderLiveLease

-----------------------------------------------------------------------------
(* The history of the head.                                                *)

\* The generations D1 has rows for.
Saved == {x.request.generation : x \in successors}

\* What a request knows of D1 stays true: a row it saw applied is there, and
\* only a save whose row is there is reported as done.
CallSound(c) ==
    /\ c.stage \in {"apply", "confirm"} => c = [stage |-> c.stage, row |-> c.row]
    /\ c.stage = "confirm" => c.row \in successors
    /\ c.stage = "finish" /\ c.result \in {"Activated", "AlreadyActive"}
          => c.request.generation \in Saved

\* Every request is sound, and there is one per ingress request.
CallsSound ==
    /\ call = [w \in Workers |-> call[w]]
    /\ \A w \in Workers : CallSound(call[w])

\* The inductive invariant of the history.
HistoryInv == CallsSound /\ ConfirmedSavesKept

\* Nothing has been saved at first.
LEMMA HistoryInit == Init => HistoryInv
<1> SUFFICES ASSUME Init PROVE HistoryInv
  OBVIOUS
<1>1. CallsSound
  <2>1. \A w \in Workers : call[w] = [stage |-> "idle"]
    BY DEF Init, Idle
  <2> QED
    BY <2>1 DEF Init, CallsSound, CallSound
<1> QED
  BY <1>1 DEF Init, HistoryInv, ConfirmedSavesKept

\* A step of a request that adds no row and reports only what is there.
LEMMA RequestStep ==
  ASSUME HistoryInv, NEW w \in Workers, NEW c,
         call' = [call EXCEPT ![w] = c], CallSound(c),
         UNCHANGED <<head, successors>>,
         confirmed' \subseteq confirmed \cup Saved
  PROVE  HistoryInv'
<1>1. ConfirmedSavesKept'
  BY DEF HistoryInv, ConfirmedSavesKept, Saved
<1>2. call' = [v \in Workers |-> call'[v]]
  BY DEF HistoryInv, CallsSound
<1>3. \A v \in Workers : CallSound(call'[v])
  BY DEF HistoryInv, CallsSound
<1>4. \A v \in Workers : CallSound(call[v])'
  BY <1>3 DEF CallSound, Saved
<1> QED
  BY <1>1, <1>2, <1>4 DEF HistoryInv, CallsSound

\* D1Apply: the row extends the head, so the former head keeps a successor,
\* and its base had none.
LEMMA ApplyStep ==
  ASSUME HistoryInv, NEW w \in Workers, D1Apply(w)
  PROVE  HistoryInv'
<1> DEFINE row == call[w].row
<1>1. /\ call[w] = [stage |-> "apply", row |-> row]
      /\ row.request.base = head.generation
      /\ \A x \in successors : x.request.base # row.request.base
  BY DEF HistoryInv, CallsSound, CallSound, D1Apply, Applicable, ExtendsHead, RowsFor
<1>2. /\ successors' = successors \cup {row}
      /\ head'.generation = row.request.generation
      /\ confirmed' = confirmed
  BY DEF D1Apply
<1>3. call' = [call EXCEPT ![w] = [stage |-> "confirm", row |-> row]]
  BY <1>1 DEF D1Apply
<1>4. ConfirmedSavesKept'
  <2>1. confirmed' \subseteq Saved'
    BY <1>2 DEF HistoryInv, ConfirmedSavesKept, Saved
  <2>2. \A x, y \in successors' : x.request.base = y.request.base => x = y
    BY <1>1, <1>2 DEF HistoryInv, ConfirmedSavesKept
  <2>3. \A x \in successors' :
          \/ x.request.generation = head'.generation
          \/ \E y \in successors' : y.request.base = x.request.generation
    BY <1>1, <1>2 DEF HistoryInv, ConfirmedSavesKept
  <2> QED
    BY <2>1, <2>2, <2>3 DEF ConfirmedSavesKept, Saved
<1>5. CallsSound'
  <2>1. call' = [v \in Workers |-> call'[v]]
    BY <1>3 DEF HistoryInv, CallsSound
  <2>2. Saved \subseteq Saved'
    BY <1>2 DEF Saved
  <2>3. ASSUME NEW v \in Workers, v # w PROVE CallSound(call[v])'
    <3>1. call'[v] = call[v] /\ CallSound(call[v])
      BY <1>3, <2>3 DEF HistoryInv, CallsSound
    <3> QED
      BY <1>2, <2>2, <3>1 DEF CallSound
  <2>4. CallSound(call[w])'
    <3>1. call'[w] = [stage |-> "confirm", row |-> row]
      BY <1>3 DEF HistoryInv, CallsSound
    <3> QED
      BY <1>2, <3>1 DEF CallSound
  <2> QED
    BY <2>1, <2>3, <2>4 DEF CallsSound
<1> QED
  BY <1>4, <1>5 DEF HistoryInv

\* The other answers of D1 and their handling by the object.
LEMMA AnswerStep ==
  ASSUME HistoryInv, NEW w \in Workers,
         \/ D1Refuse(w) \/ D1Revoked(w) \/ D1Confirm(w)
         \/ D1Unavailable(w) \/ Finish(w)
  PROVE  HistoryInv'
<1> DEFINE row == call[w].row
<1>0. CallSound(call[w])
  BY DEF HistoryInv, CallsSound
<1>1. ASSUME NEW result, Answered(w, result), UNCHANGED <<catalog, confirmed>>,
             result \in {"Activated", "AlreadyActive"} => row \in successors
      PROVE  HistoryInv'
  <2> DEFINE c == [stage |-> "finish", result |-> result, request |-> row.request]
  <2>1. CallSound(c)
    BY <1>1 DEF CallSound, Saved
  <2>2. call' = [call EXCEPT ![w] = c] /\ UNCHANGED <<head, successors, confirmed>>
    BY <1>1 DEF Answered, catalog
  <2> HIDE DEF c
  <2> QED
    BY <2>1, <2>2, RequestStep
<1>2. CASE D1Refuse(w)
  BY <1>1, <1>2 DEF D1Refuse, Classify
<1>3. CASE D1Revoked(w)
  BY <1>1, <1>3 DEF D1Revoked
<1>4. CASE D1Confirm(w)
  BY <1>0, <1>1, <1>4 DEF D1Confirm, CallSound
<1>5. CASE D1Unavailable(w)
  BY <1>1, <1>5 DEF D1Unavailable
<1>6. CASE Finish(w)
  <2>1. confirmed' \subseteq confirmed \cup Saved
    BY <1>0, <1>6 DEF Finish, CallSound
  <2>2. CallSound(Idle)
    BY DEF CallSound, Idle
  <2>3. call' = [call EXCEPT ![w] = Idle] /\ UNCHANGED <<head, successors>>
    BY <1>6 DEF Finish, catalog
  <2> QED
    BY <2>1, <2>2, <2>3, RequestStep
<1> QED
  BY <1>2, <1>3, <1>4, <1>5, <1>6

\* The steps of a request before it asks D1, and the loss of the requests in
\* an evicted object.
LEMMA EarlyStep ==
  ASSUME HistoryInv,
         \/ Evict
         \/ \E w \in Workers : \/ ProveAuthority(w) \/ Reserve(w)
                                \/ RefuseReservation(w)
  PROVE  HistoryInv'
<1>1. ASSUME NEW w \in Workers, NEW c, call' = [call EXCEPT ![w] = c],
             UNCHANGED <<catalog, confirmed>>,
             \/ c.stage \in {"idle", "proved"}
             \/ c.stage = "apply" /\ c = [stage |-> "apply", row |-> c.row]
      PROVE  HistoryInv'
  <2>1. CallSound(c)
    BY <1>1 DEF CallSound
  <2>2. UNCHANGED <<head, successors, confirmed>>
    BY <1>1 DEF catalog
  <2> QED
    BY <1>1, <2>1, <2>2, RequestStep
<1>2. CASE Evict
  <2>1. UNCHANGED <<head, successors, confirmed>>
    BY <1>2 DEF Evict, catalog
  <2>2. call' = [v \in Workers |-> call'[v]]
    BY <1>2 DEF Evict
  <2>3. ASSUME NEW v \in Workers PROVE CallSound(call[v])'
    <3>1. call'[v].stage \in {"idle", "proved"}
      BY <1>2 DEF Evict, Idle
    <3> QED
      BY <3>1 DEF CallSound
  <2> QED
    BY <2>1, <2>2, <2>3 DEF HistoryInv, CallsSound, ConfirmedSavesKept
<1>3. ASSUME NEW w \in Workers, ProveAuthority(w) PROVE HistoryInv'
  <2>1. PICK r : call' = [call EXCEPT ![w] = [stage |-> "proved", request |-> r]]
    BY <1>3 DEF ProveAuthority
  <2>2. UNCHANGED <<catalog, confirmed>>
    BY <1>3 DEF ProveAuthority
  <2> QED
    BY <1>1, <2>1, <2>2
<1>4. ASSUME NEW w \in Workers, Reserve(w) PROVE HistoryInv'
  <2>1. PICK r : call' = [call EXCEPT ![w] = [stage |-> "apply", row |-> r]]
    BY <1>4 DEF Reserve
  <2>2. UNCHANGED <<catalog, confirmed>>
    BY <1>4 DEF Reserve
  <2> QED
    BY <1>1, <2>1, <2>2
<1>5. ASSUME NEW w \in Workers, RefuseReservation(w) PROVE HistoryInv'
  BY <1>1, <1>5 DEF RefuseReservation, Idle
<1> QED
  BY <1>2, <1>3, <1>4, <1>5

\* Commands, alarms, projections and time touch neither requests nor rows.
LEMMA HistoryStep == HistoryInv /\ [Next]_vars => HistoryInv'
<1> SUFFICES ASSUME HistoryInv, [Next]_vars PROVE HistoryInv'
  OBVIOUS
<1>1. ASSUME UNCHANGED <<call, head, successors, confirmed>> PROVE HistoryInv'
  BY <1>1 DEF HistoryInv, CallsSound, CallSound, Saved, ConfirmedSavesKept
<1>2. ASSUME \/ \E k \in Commanders : Command(k)
             \/ AlarmTick \/ AlarmGated \/ Tock
             \/ \E u \in unprojected : Project(u) \/ LoseProjection(u)
      PROVE  UNCHANGED <<call, head, successors, confirmed>>
  BY <1>2 DEF Command, AlarmTick, AlarmGated, Tock, Project, LoseProjection, catalog
<1>3. CASE UNCHANGED vars
  BY <1>1, <1>3 DEF vars
<1> QED
  BY <1>1, <1>2, <1>3, EarlyStep, ApplyStep, AnswerStep DEF Next, D1Answers

\* A save that was reported as done is in the catalog, and the rows of the
\* catalog are one unforked history that ends at the head: whatever replies
\* are lost, however many requests save the same or different content, and
\* wherever the object of profile_coordinator.rs is evicted.
THEOREM SavesAreKept == Spec => []ConfirmedSavesKept
<1>1. HistoryInv => ConfirmedSavesKept
  BY DEF HistoryInv
<1> QED
  BY <1>1, HistoryInit, HistoryStep, PTL DEF Spec


-----------------------------------------------------------------------------
(* The alarm.                                                              *)

\* A set of times that is not empty has an earliest one.
LEMMA EarliestTime ==
  ASSUME NEW T, T \subseteq Nat, T # {}
  PROVE  \E t \in T : \A u \in T : t <= u
<1>1. PICK t \in T : \A u \in T : ~ (<<u, t>> \in OpToRel(<, Nat))
  BY NatLessThanWellFounded, WFMin
<1>2. \A u \in T : ~(u < t)
  BY <1>1 DEF OpToRel
<1> QED
  BY <1>2

\* A coordinator the object can have stored.
Stored(s) ==
    /\ s \in ProfileCoordinatorState
    /\ s.version = s.last_sequence + 1

\* What a command of each kind makes of a stored state has its type.
LEMMA LaunchTyped ==
  ASSUME NEW s \in ProfileCoordinatorState, NEW c \in LaunchCommand
  PROVE  /\ IssueLaunchIntentEffect(s, c) \in ProfileCoordinatorState
         /\ RecoverAndIssueEffect(s, c) \in ProfileCoordinatorState
<1>1. {IntentOf(c)} \in SUBSET PendingLaunchIntent
  BY DEF IntentOf, PendingLaunchIntent, LaunchCommand
<1>2. "Idle" \in Status
  BY DEF Status
<1> QED
  BY <1>1, <1>2
     DEF IssueLaunchIntentEffect, RecoverAndIssueEffect, ProfileCoordinatorState

LEMMA ClaimTyped ==
  ASSUME NEW s \in ProfileCoordinatorState, NEW c \in ClaimCommand,
         ClaimAccepted(s, c)
  PROVE  ClaimEffect(s, c) \in ProfileCoordinatorState
<1> DEFINE l == LeaseAt(c, s.next_epoch + 1)
<1>1. c.now \in Time
  BY DEF ClaimCommand
<1>2. c.now + IdleTimeoutMs \in Time /\ c.now + HardTimeoutMs \in Time
  BY <1>1, ConfigAssumption, BoundAssumption DEF ClaimAccepted, Fits, Time
<1>3. s.next_epoch \in 0 .. MaxVersion
  BY DEF ProfileCoordinatorState
<1>4. s.next_epoch + 1 \in 1 .. MaxVersion /\ s.next_epoch + 1 \in 0 .. MaxVersion
  BY <1>3, BoundAssumption DEF ClaimAccepted
<1>5. {l} \in SUBSET CoordinatorLease
  BY <1>1, <1>2, <1>4 DEF LeaseAt, CoordinatorLease, ClaimCommand
<1>6. "Active" \in Status
  BY DEF Status
<1> HIDE DEF l
<1>7. ClaimEffect(s, c) =
        [s EXCEPT !.next_epoch = s.next_epoch + 1, !.status = "Active",
                  !.recovery_claim_pending = FALSE, !.pending_intent = {},
                  !.active_lease = {l}, !.drain_deadline = {}]
  BY DEF ClaimEffect, l
<1> QED
  BY <1>4, <1>5, <1>6, <1>7 DEF ProfileCoordinatorState

\* A lease that timed out leaves nothing behind.
LEMMA TimedOutTyped ==
  ASSUME NEW s \in ProfileCoordinatorState
  PROVE  TimedOut(s) \in ProfileCoordinatorState
BY DEF TimedOut, ProfileCoordinatorState, Status

LEMMA HeartbeatTyped ==
  ASSUME NEW s \in ProfileCoordinatorState, NEW c \in HeartbeatCommand,
         HeartbeatAccepted(s, c)
  PROVE  HeartbeatEffect(s, c) \in ProfileCoordinatorState
<1> DEFINE after == {RefreshedLease(l, c) : l \in s.active_lease}
<1>1. CASE TimeoutDue(s, c.now)
  BY <1>1, TimedOutTyped DEF HeartbeatEffect, UnlessTimedOut
<1>2. CASE ~TimeoutDue(s, c.now)
  <2>1. c.now \in Time
    BY DEF HeartbeatCommand
  <2>2. /\ c.now + IdleTimeoutMs \in Time
        /\ c.type = "RenewLease" => c.now + HardTimeoutMs \in Time
    BY <1>2, <2>1, ConfigAssumption, BoundAssumption
       DEF HeartbeatAccepted, Fits, Time
  <2>3. ASSUME NEW l \in s.active_lease PROVE RefreshedLease(l, c) \in CoordinatorLease
    <3> DEFINE hard == IF c.type = "RenewLease" THEN c.now + HardTimeoutMs
                                                ELSE l.hard_expires_at
               idle == Least(c.now + IdleTimeoutMs, hard)
    <3>1. l \in CoordinatorLease
      BY DEF ProfileCoordinatorState
    <3>2. hard \in Time
      BY <2>2, <3>1 DEF CoordinatorLease
    <3>3. idle \in Time
      BY <2>2, <3>2 DEF Least
    <3>4. RefreshedLease(l, c) =
            [l EXCEPT !.last_heartbeat_at = c.now, !.hard_expires_at = hard,
                      !.idle_expires_at = idle]
      BY DEF RefreshedLease
    <3> HIDE DEF hard, idle
    <3> QED
      BY <2>1, <3>1, <3>2, <3>3, <3>4 DEF CoordinatorLease
  <2>4. after \in SUBSET CoordinatorLease
    BY <2>3
  <2>5. HeartbeatEffect(s, c) = [s EXCEPT !.active_lease = after]
    BY <1>2 DEF HeartbeatEffect, UnlessTimedOut
  <2> HIDE DEF after
  <2> QED
    BY <2>4, <2>5 DEF ProfileCoordinatorState
<1> QED
  BY <1>1, <1>2

LEMMA EndingTyped ==
  ASSUME NEW s \in ProfileCoordinatorState
  PROVE  /\ \A c \in ReleaseCommand : ReleaseEffect(s, c) \in ProfileCoordinatorState
         /\ \A c : MarkRecoveredEffect(s, c) \in ProfileCoordinatorState
         /\ \A c : TickEffect(s, c) \in ProfileCoordinatorState
<1>1. ASSUME NEW c \in ReleaseCommand
      PROVE  ReleaseEffect(s, c) \in ProfileCoordinatorState
  <2>1. c.disposition \in Disposition
    BY DEF ReleaseCommand
  <2>2. (IF c.disposition = "Clean" THEN "Idle" ELSE c.disposition) \in Status
    BY <2>1 DEF Status, Disposition
  <2> QED
    BY <2>2, TimedOutTyped DEF ReleaseEffect, UnlessTimedOut, ProfileCoordinatorState
<1>2. \A c : MarkRecoveredEffect(s, c) \in ProfileCoordinatorState
  BY DEF MarkRecoveredEffect, ProfileCoordinatorState, Status
<1>3. \A c : TickEffect(s, c) \in ProfileCoordinatorState
  BY TimedOutTyped DEF TickEffect, UnlessTimedOut, ProfileCoordinatorState
<1> QED
  BY <1>1, <1>2, <1>3

LEMMA BeginDrainTyped ==
  ASSUME NEW s \in ProfileCoordinatorState, NEW c \in PlainCommand,
         BeginDrainAccepted(s, c)
  PROVE  BeginDrainEffect(s, c) \in ProfileCoordinatorState
<1> DEFINE ends == {Least(c.now + DrainTimeoutMs, l.hard_expires_at)
                      : l \in s.active_lease}
<1>1. CASE TimeoutDue(s, c.now)
  BY <1>1, TimedOutTyped DEF BeginDrainEffect, UnlessTimedOut
<1>2. CASE ~TimeoutDue(s, c.now)
  <2>1. c.now \in Time
    BY DEF PlainCommand
  <2>2. c.now + DrainTimeoutMs \in Time
    BY <1>2, <2>1, ConfigAssumption, BoundAssumption
       DEF BeginDrainAccepted, Fits, Time
  <2>3. \A l \in s.active_lease : l.hard_expires_at \in Time
    BY DEF ProfileCoordinatorState, CoordinatorLease
  <2>4. ends \in SUBSET Time
    BY <2>2, <2>3 DEF Least
  <2>5. BeginDrainEffect(s, c) =
          [s EXCEPT !.status = "Draining", !.drain_deadline = ends]
    BY <1>2 DEF BeginDrainEffect, UnlessTimedOut
  <2> HIDE DEF ends
  <2> QED
    BY <2>4, <2>5 DEF ProfileCoordinatorState, Status
<1> QED
  BY <1>1, <1>2

\* A command is of one of the kinds, and so is what it makes of the state.
LEMMA EffectTyped ==
  ASSUME NEW s \in ProfileCoordinatorState, NEW c \in CoordinatorCommand,
         CommandAccepted(s, c)
  PROVE  c.now \in Time /\ CommandEffect(s, c) \in ProfileCoordinatorState
<1>1. CASE c \in LaunchCommand
  <2>1. c.now \in Time /\ c.type \in {"IssueLaunchIntent", "RecoverAndIssueLaunchIntent"}
    BY <1>1 DEF LaunchCommand
  <2> QED
    BY <1>1, <2>1, LaunchTyped DEF CommandEffect
<1>2. CASE c \in ClaimCommand
  <2>1. c.now \in Time /\ c.type = "Claim"
    BY <1>2 DEF ClaimCommand
  <2> QED
    BY <1>2, <2>1, ClaimTyped DEF CommandEffect, CommandAccepted
<1>3. CASE c \in HeartbeatCommand
  <2>1. c.now \in Time /\ c.type \in {"Heartbeat", "RenewLease"}
    BY <1>3 DEF HeartbeatCommand
  <2> QED
    BY <1>3, <2>1, HeartbeatTyped DEF CommandEffect, CommandAccepted
<1>4. CASE c \in ReleaseCommand
  <2>1. c.now \in Time /\ c.type = "Release"
    BY <1>4 DEF ReleaseCommand
  <2> QED
    BY <1>4, <2>1, EndingTyped DEF CommandEffect
<1>5. CASE c \in PlainCommand
  <2>1. c.now \in Time /\ c.type \in {"BeginDrain", "Tick", "MarkRecovered"}
    BY <1>5 DEF PlainCommand
  <2> QED
    BY <1>5, <2>1, BeginDrainTyped, EndingTyped DEF CommandEffect, CommandAccepted
<1> QED
  BY <1>1, <1>2, <1>3, <1>4, <1>5 DEF CoordinatorCommand

\* An accepted command leaves a state the object can store.
LEMMA StepStored ==
  ASSUME Stored(coord), NEW c \in CoordinatorCommand, Step(c)
  PROVE  Stored(coord')
<1> DEFINE e == NextEnvelope(coord, CHOOSE k \in Keys : TRUE, c)
           m == CommandEffect(coord, c)
           q == Remember(coord.receipts, ReceiptOf(coord, e))
<1>1. e.command = c /\ e.sequence = coord.last_sequence + 1
      /\ e.expected_version = coord.version
  BY DEF NextEnvelope
<1>2. NewlyAccepted(coord, e) /\ coord' = Checkpoint(Accept(coord, e))
  BY DEF Step
<1>3. CommandAccepted(coord, c) /\ coord.version < MaxVersion
  BY <1>1, <1>2 DEF NewlyAccepted, InOrder, Expected
<1>4. m \in ProfileCoordinatorState /\ c.now \in Time
  BY <1>3, EffectTyped DEF Stored
<1>5. coord' = [[m EXCEPT !.version = coord.version + 1,
                          !.last_sequence = coord.last_sequence + 1,
                          !.last_observed_at = c.now, !.receipts = q]
                 EXCEPT !.receipts = << >>]
  BY <1>1, <1>2 DEF Checkpoint, Accept
<1>6. /\ coord.version + 1 \in 1 .. MaxVersion
      /\ coord.last_sequence + 1 \in 0 .. MaxVersion
      /\ coord.version + 1 = (coord.last_sequence + 1) + 1
  BY <1>3, BoundAssumption DEF Stored, ProfileCoordinatorState
<1>7. << >> \in Seq(CommandReceipt)
  OBVIOUS
<1> HIDE DEF m, q, e
<1>8. coord' = [m EXCEPT !.version = coord.version + 1,
                         !.last_sequence = coord.last_sequence + 1,
                         !.last_observed_at = c.now, !.receipts = << >>]
  BY <1>4, <1>5 DEF ProfileCoordinatorState
<1> QED
  BY <1>4, <1>6, <1>7, <1>8 DEF Stored, ProfileCoordinatorState

\* The alarm that a command leaves is the earliest of the deadlines.
LEMMA AlarmSet ==
  ASSUME NEW s \in ProfileCoordinatorState
  PROVE  /\ NextAlarmAt(s) \subseteq Time
         /\ Deadlines(s) # {} =>
               \E t \in NextAlarmAt(s) : \A d \in Deadlines(s) : t <= d
<1>1. Deadlines(s) \subseteq Time
  BY DEF Deadlines, ProfileCoordinatorState, PendingLaunchIntent, CoordinatorLease
<1>2. ASSUME Deadlines(s) # {}
      PROVE  \E t \in Deadlines(s) : \A d \in Deadlines(s) : t <= d
  BY <1>1, <1>2, EarliestTime, BoundAssumption DEF Time
<1> QED
  BY <1>1, <1>2 DEF NextAlarmAt

\* The inductive invariant of the alarm.
AlarmInv == Stored(coord) /\ clock \in Time /\ alarm \subseteq Time /\ AlarmArmed

\* Nothing can expire at first.
LEMMA AlarmInit == Init => AlarmInv
<1> SUFFICES ASSUME Init PROVE AlarmInv
  OBVIOUS
<1>1. Stored(coord)
  BY BoundAssumption DEF Init, NewCoordinator, Stored, ProfileCoordinatorState,
                         Status, Time
<1>2. Deadlines(coord) = {}
  BY DEF Init, NewCoordinator, Deadlines
<1> QED
  BY <1>1, <1>2, BoundAssumption DEF Init, AlarmInv, AlarmArmed, Time

\* A command and the alarm's own Tick set the alarm anew; an alarm that meets a
\* gate, and a save whose outcome is uncertain, move it one retry ahead.
LEMMA AlarmStep == AlarmInv /\ [Next]_vars => AlarmInv'
<1> SUFFICES ASSUME AlarmInv, [Next]_vars PROVE AlarmInv'
  OBVIOUS
<1>1. clock \in Nat /\ GateRetryMs \in Nat
  BY BoundAssumption, SaveAssumption DEF AlarmInv, Time
<1>2. ASSUME NEW c \in CoordinatorCommand, Step(c), alarm' = NextAlarmAt(coord'),
             clock' = clock
      PROVE  AlarmInv'
  <2>1. Stored(coord')
    BY <1>2, StepStored DEF AlarmInv
  <2>2. AlarmArmed'
    <3> SUFFICES ASSUME Deadlines(coord') # {}
                 PROVE  \E t \in alarm' : \A d \in Deadlines(coord') : t <= d
      BY DEF AlarmArmed
    <3> QED
      BY <1>2, <2>1, AlarmSet DEF Stored
  <2>3. alarm' \subseteq Time
    BY <1>2, <2>1, AlarmSet DEF Stored
  <2> QED
    BY <1>2, <2>1, <2>2, <2>3 DEF AlarmInv
<1>3. ASSUME coord' = coord, clock' = clock, alarm' \in {alarm, GateRetryAlarm}
      PROVE  AlarmInv'
  <2>1. CASE alarm' = alarm
    BY <1>3, <2>1 DEF AlarmInv, AlarmArmed
  <2>2. CASE alarm' = GateRetryAlarm
    <3>1. /\ Least(clock + GateRetryMs, MaxMillis) <= clock + GateRetryMs
          /\ Least(clock + GateRetryMs, MaxMillis) \in Time
      BY <1>1, BoundAssumption DEF Least, Time
    <3> QED
      BY <1>3, <2>2, <3>1 DEF AlarmInv, AlarmArmed, GateRetryAlarm
  <2> QED
    BY <1>3, <2>1, <2>2
<1>4. ASSUME NEW k \in Commanders, Command(k) PROVE AlarmInv'
  <2>1. ClientCommands \subseteq CoordinatorCommand
    BY DEF ClientCommands, CoordinatorCommand
  <2> QED
    BY <1>2, <1>4, <2>1 DEF Command
<1>5. CASE AlarmTick
  <2>1. [type |-> "Tick", now |-> clock] \in CoordinatorCommand
    BY DEF AlarmInv, CoordinatorCommand, PlainCommand
  <2> QED
    BY <1>2, <1>5, <2>1 DEF AlarmTick
<1>6. CASE AlarmGated
  BY <1>3, <1>6 DEF AlarmGated
<1>7. ASSUME NEW w \in Workers,
             \/ ProveAuthority(w) \/ Reserve(w) \/ RefuseReservation(w)
             \/ D1Answers(w) \/ Finish(w)
      PROVE  AlarmInv'
  BY <1>3, <1>7 DEF ProveAuthority, Reserve, RefuseReservation, D1Answers, D1Apply,
     D1Refuse, D1Revoked, D1Confirm, D1Unavailable, Finish, object
<1>8. CASE Evict \/ \E u \in unprojected : Project(u) \/ LoseProjection(u)
  BY <1>3, <1>8 DEF Evict, Project, LoseProjection, object
<1>9. CASE Tock
  <2>1. /\ UNCHANGED <<coord, alarm>> /\ clock' = clock + 1 /\ clock' \in Time
    BY <1>1, <1>9, BoundAssumption DEF Tock, object, Time
  <2>2. AlarmArmed'
    <3> SUFFICES ASSUME Deadlines(coord) # {}
                 PROVE  \E t \in alarm : \A d \in Deadlines(coord) :
                           t <= d \/ t <= clock' + GateRetryMs
      BY <2>1 DEF AlarmArmed, Deadlines
    <3>1. PICK t \in alarm : \A d \in Deadlines(coord) :
                                t <= d \/ t <= clock + GateRetryMs
      BY DEF AlarmInv, AlarmArmed
    <3>2. t \in Nat /\ clock' = clock + 1
      BY <2>1, BoundAssumption DEF AlarmInv, Time
    <3>3. \A d \in Deadlines(coord) : t <= d \/ t <= clock' + GateRetryMs
      BY <1>1, <3>1, <3>2
    <3> QED
      BY <3>3
  <2> QED
    BY <2>1, <2>2 DEF AlarmInv, Stored
<1>10. CASE UNCHANGED vars
  BY <1>3, <1>10 DEF vars
<1> QED
  BY <1>4, <1>5, <1>6, <1>7, <1>8, <1>9, <1>10 DEF Next

\* For as long as a lease or an intent can expire, the object's alarm is set:
\* at its earliest deadline, or no later than one gate retry from now, whatever
\* command, alarm, commit or eviction comes in between (set_alarm and
\* schedule_gate_retry_alarm of profile_coordinator.rs).
THEOREM AlarmStaysArmed == Spec => []AlarmArmed
<1>1. Spec => []AlarmInv
  BY AlarmInit, AlarmStep, PTL DEF Spec
<1> QED
  BY <1>1, PTL DEF AlarmInv

=============================================================================
