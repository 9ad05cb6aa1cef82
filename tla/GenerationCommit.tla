--------------------------- MODULE GenerationCommit ---------------------------
(***************************************************************************)
(* Saving a profile generation: the ProfileCoordinator Durable Object      *)
(* (apps/control-plane-worker/src/profile_coordinator.rs), the ingress     *)
(* Worker in front of it, and the D1 catalog behind it.                    *)
(*                                                                         *)
(* A save proves its writer authority to the object, comes back with a     *)
(* commit request, and the object, having validated the request against    *)
(* the lease, stores a commit gate and calls D1.  While it waits for D1    *)
(* the object takes other requests: the gate is all that keeps commands    *)
(* and the alarm from ending the lease under a commit in flight.  D1 moves *)
(* the profile's head if the request matches the coordinator state that    *)
(* was last projected into D1, which happens after each command, late or   *)
(* never, and not after an alarm.                                          *)
(*                                                                         *)
(* Each action is one run of a handler between two waits on something      *)
(* outside the object; storage operations do not let others in.  Commands  *)
(* and proofs of authority look at the gate, then wait for their body, and *)
(* do not look again.  While no gate is stored such a wait makes no        *)
(* difference, so only a save that stores a gate notes which requests had  *)
(* passed by then.  A D1 call that fails either took effect before it      *)
(* failed or never will.  The coordinator is the state that the stored     *)
(* document replays to.  Its receipts are left out: the ingress stamps     *)
(* each request with the time anew, so a repeated one equals its receipt   *)
(* only within one millisecond, and then changes nothing.                  *)
(***************************************************************************)
EXTENDS CoordinatorDomain, FiniteSets

CONSTANTS
    Workers,         \* ingress requests that can be saving at the same time
    Commanders,      \* commands that can wait for their body at the same time
    Generations,     \* generation identities a save may propose
    FirstGeneration, \* the head before any save
    IntentTtl,       \* expires_in_ms of a launch intent
    GateRetryMs,     \* GATE_ALARM_RETRY_MS
    ClientKinds,     \* the types of the commands that clients send
    ClientVersions,  \* clients issue commands up to this version (a bound)
    MaxUnprojected   \* projections on their way to D1 at once (a bound)

ASSUME SaveAssumption ==
    /\ FirstGeneration \notin Generations
    /\ Workers \cap Commanders = {}
    /\ IntentTtl \in Nat \ {0}
    /\ GateRetryMs \in Nat \ {0}
    /\ "Tick" \notin ClientKinds
    /\ ClientVersions \in 1 .. MaxVersion
    /\ MaxUnprojected \in Nat \ {0}

VARIABLES
    coord,        \* ProfileCoordinatorState, as the stored document replays
    alarm,        \* the Durable Object's alarm, an option
    gate,         \* the stored commit gate, an option
    waiting,      \* requests that passed before the gate was stored
    call,         \* what each ingress request is doing
    projection,   \* D1: the row of profile_coordinator_projections
    unprojected,  \* results of commands on their way to D1
    head,         \* D1: the profile's active generation and version
    successors,   \* D1: rows of profile_generation_successor_commands
    clock,        \* Date::now
    confirmed,    \* history: generations reported as saved
    overtaken     \* history: a waiting command was applied under the gate

object == <<coord, alarm, gate, waiting, overtaken>>
catalog == <<projection, unprojected, head, successors>>
vars == <<coord, alarm, gate, waiting, call, projection, unprojected, head,
          successors, clock, confirmed, overtaken>>

-----------------------------------------------------------------------------
(* Requests and D1 rows.                                                   *)

\* ProfileGenerationSuccessorCommitRequest.  The authority digest covers every
\* field here, so two requests have the same digest when they are equal.  The
\* actor is the one who claimed the lease (active_claim_matches refuses any
\* other, see ClaimProvenance in CoordinatorDocument.tla) and is left out, as
\* are the tenant and the descriptor of the object, one per generation.
CommitRequest ==
    [generation : Generations, base : Generations \cup {FirstGeneration},
     expected_profile_version : 1 .. (Cardinality(Generations) + 1),
     device_id : Devices, session_id : Sessions, epoch : 1 .. MaxVersion,
     fencing_token : Fences, version : 1 .. MaxVersion,
     sequence : 0 .. MaxVersion]

Gate == [request : CommitRequest, authorized_at : Time]

Row == [request : CommitRequest, executed_at : Time]

Result == {"Activated", "AlreadyActive", "StaleAuthority", "VersionConflict",
           "IntegrityFailure", "DependencyUnavailable"}

Idle == [stage |-> "idle"]

Call ==
    {Idle} \cup [stage : {"proved"}, request : CommitRequest]
           \cup [stage : {"apply", "confirm"}, row : Row]
           \cup [stage : {"finish"}, request : CommitRequest, result : Result]

\* CoordinatorProjection::from_state.
ProjectionOf(s) ==
    [status |-> s.status, version |-> s.version, sequence |-> s.last_sequence,
     lease |-> s.active_lease, drain_deadline |-> s.drain_deadline]

Projection ==
    [state : [status : Status, version : 1 .. MaxVersion,
              sequence : 0 .. MaxVersion, lease : SUBSET CoordinatorLease,
              drain_deadline : SUBSET Time],
     projected_at : Time]

\* The profile version at which a known generation was the head.
Versions ==
    {<<FirstGeneration, 1>>} \cup
    {<<r.request.generation, r.request.expected_profile_version + 1>>
        : r \in successors}

-----------------------------------------------------------------------------
(* The object: authority, alarm and commands.                              *)

\* coordinator_generation_authority_is_live.
AuthorityLive(r, at) ==
    /\ coord.status \in {"Active", "Draining"}
    /\ coord.version = r.version
    /\ coord.last_sequence = r.sequence
    /\ at >= coord.last_observed_at
    /\ \E l \in coord.active_lease :
          /\ l.device_id = r.device_id
          /\ AcceptsWriter(l, r)
          /\ at < l.idle_expires_at
          /\ at < l.hard_expires_at
    /\ coord.status = "Draining" => \E d \in coord.drain_deadline : at < d

\* The deadlines next_alarm_at looks at; the alarm is set to the earliest.
Deadlines(s) ==
    {i.expires_at : i \in s.pending_intent}
        \cup {l.idle_expires_at : l \in s.active_lease}
        \cup {l.hard_expires_at : l \in s.active_lease}
        \cup {d \in s.drain_deadline : s.active_lease # {}}

NextAlarmAt(s) == {t \in Deadlines(s) : \A u \in Deadlines(s) : t <= u}

\* schedule_gate_retry_alarm; the last instant of the model repeats.
GateRetryAlarm == {Least(clock + GateRetryMs, MaxMillis)}

\* The commands clients can have sent, at a time up to now: an intent lives for
\* IntentTtl, and writers present the credentials of the lease there is (others
\* are refused).
ClientCommands ==
    LET Sent(c) == c.type \in ClientKinds /\ c.now <= clock
        OfTheLease(c) == \E l \in coord.active_lease : AcceptsWriter(l, c)
    IN  {c \in LaunchCommand : Sent(c) /\ c.expires_at = c.now + IntentTtl}
            \cup {c \in HeartbeatCommand \cup ReleaseCommand :
                    Sent(c) /\ OfTheLease(c)}
            \cup {c \in ClaimCommand \cup PlainCommand : Sent(c)}

Step(c) ==
    LET e == NextEnvelope(coord, CHOOSE k \in Keys : TRUE, c)
    IN  /\ NewlyAccepted(coord, e)
        /\ coord' = Checkpoint(Accept(coord, e))

\* A request gets past the gate when there is none, or came before it.
PassesGate(k) == gate = {} \/ k \in waiting

\* Mutant: commands do not look at the gate.
CommandUngated(k) ==
    /\ coord.version <= ClientVersions
    /\ Cardinality(unprojected) < MaxUnprojected
    /\ \E c \in ClientCommands : Step(c)
    /\ alarm' = NextAlarmAt(coord')
    /\ unprojected' = unprojected \cup
                         {[state |-> ProjectionOf(coord'), projected_at |-> clock]}
    /\ waiting' = waiting \ {k}
    /\ overtaken' = (overtaken \/ k \in waiting)
    /\ UNCHANGED <<gate, call, projection, head, successors, clock, confirmed>>

\* /command, and the ingress that will project its result.
Command(k) ==
    /\ PassesGate(k)
    /\ coord.version <= ClientVersions
    /\ Cardinality(unprojected) < MaxUnprojected
    /\ \E c \in ClientCommands : Step(c)
    /\ alarm' = NextAlarmAt(coord')
    /\ unprojected' = unprojected \cup
                         {[state |-> ProjectionOf(coord'), projected_at |-> clock]}
    /\ waiting' = waiting \ {k}
    /\ overtaken' = (overtaken \/ k \in waiting)
    /\ UNCHANGED <<gate, call, projection, head, successors, clock, confirmed>>

AlarmDue == \E t \in alarm : t <= clock

\* The alarm finds no gate: a Tick, which is not projected.
AlarmTick ==
    /\ AlarmDue
    /\ gate = {}
    /\ Step([type |-> "Tick", now |-> clock])
    /\ alarm' = NextAlarmAt(coord')
    /\ UNCHANGED <<gate, waiting, overtaken, call, catalog, clock, confirmed>>

\* Mutant: the alarm gives up when it meets a gate.
AlarmGatedDropped ==
    /\ AlarmDue
    /\ gate # {}
    /\ alarm' = {}
    /\ UNCHANGED <<coord, gate, waiting, overtaken, call, catalog, clock, confirmed>>

\* The alarm finds a gate and comes back later.
AlarmGated ==
    /\ AlarmDue
    /\ gate # {}
    /\ alarm' = GateRetryAlarm
    /\ UNCHANGED <<coord, gate, waiting, overtaken, call, catalog, clock, confirmed>>

-----------------------------------------------------------------------------
(* A save: ingress, object, D1, object.                                    *)

\* The ingress has the object prove the writer of a save, which a gate prevents,
\* and forms the commit request.
ProveAuthority(w) ==
    /\ call[w] = Idle
    /\ PassesGate(w)
    /\ \E g \in Generations, v \in Versions, l \in coord.active_lease :
          LET r == [generation |-> g, base |-> v[1],
                    expected_profile_version |-> v[2], device_id |-> l.device_id,
                    session_id |-> l.session_id, epoch |-> l.epoch,
                    fencing_token |-> l.fencing_token, version |-> coord.version,
                    sequence |-> coord.last_sequence]
          IN  /\ g # r.base
              /\ AuthorityLive(r, clock)
              /\ call' = [call EXCEPT ![w] = [stage |-> "proved", request |-> r]]
    /\ waiting' = waiting \ {w}
    /\ UNCHANGED <<coord, alarm, gate, overtaken, catalog, clock, confirmed>>

\* When the object authorized the request: the gate's time if there is one.
AuthorizedAt == IF gate = {} THEN clock
                ELSE (CHOOSE x \in gate : TRUE).authorized_at

Admissible(r) ==
    /\ \A x \in gate : x.request = r
    /\ AuthorityLive(r, AuthorizedAt)

\* The requests that can be past the gate, waiting for their body.
Passing == Commanders \cup {w \in Workers : call[w] = Idle}

\* profile_generation_successor up to its call of D1.
Reserve(w) ==
    /\ call[w].stage = "proved"
    /\ Admissible(call[w].request)
    /\ gate' = {[request |-> call[w].request, authorized_at |-> AuthorizedAt]}
    /\ call' = [call EXCEPT ![w] =
                  [stage |-> "apply", row |-> [request |-> call[w].request,
                                               executed_at |-> AuthorizedAt]]]
    /\ IF gate = {} THEN waiting' \in SUBSET Passing /\ overtaken' = FALSE
                    ELSE UNCHANGED <<waiting, overtaken>>
    /\ UNCHANGED <<coord, alarm, catalog, clock, confirmed>>

\* The request is refused before D1 is called; a gate there is stays.
RefuseReservation(w) ==
    /\ call[w].stage = "proved"
    /\ ~Admissible(call[w].request)
    /\ call' = [call EXCEPT ![w] = Idle]
    /\ UNCHANGED <<object, catalog, clock, confirmed>>

\* committed_state_is_exact.
CommittedExact(row) ==
    /\ head.generation = row.request.generation
    /\ head.version = row.request.expected_profile_version + 1

RowsFor(base) == {x \in successors : x.request.base = base}

\* The coordinator part of profile_generation_successor_command_validate.
ProjectionLive(row) ==
    LET r == row.request
    IN  \E q \in projection : LET p == q.state IN
          /\ p.status \in {"Active", "Draining"}
          /\ p.version = r.version
          /\ p.sequence = r.sequence
          /\ q.projected_at <= row.executed_at
          /\ \E l \in p.lease :
                /\ l.session_id = r.session_id
                /\ l.device_id = r.device_id
                /\ l.epoch = r.epoch
                /\ row.executed_at < l.idle_expires_at
                /\ row.executed_at < l.hard_expires_at
          /\ p.status = "Draining" =>
                \E d \in p.drain_deadline : row.executed_at < d

\* The request still extends the head with a generation D1 does not know.
ExtendsHead(row) ==
    LET r == row.request
    IN  /\ head.generation = r.base
        /\ head.version = r.expected_profile_version
        /\ head.updated_at <= row.executed_at
        /\ r.generation # FirstGeneration
        /\ \A x \in successors : x.request.generation # r.generation

\* Mutant: any successor of the base counts as this one.
ClassifyAnyRow(row) ==
    IF RowsFor(row.request.base) # {} THEN "AlreadyActive"
    ELSE IF ExtendsHead(row) THEN "StaleAuthority" ELSE "VersionConflict"

\* What D1 answers when it applies nothing: classify_existing for a base that
\* has a successor, otherwise the failed test of the validation trigger.
Classify(row) ==
    IF RowsFor(row.request.base) # {}
    THEN IF row \in successors /\ CommittedExact(row) THEN "AlreadyActive"
                                                      ELSE "VersionConflict"
    ELSE IF ExtendsHead(row) THEN "StaleAuthority" ELSE "VersionConflict"

Applicable(row) ==
    RowsFor(row.request.base) = {} /\ ExtendsHead(row) /\ ProjectionLive(row)

Answered(w, result) ==
    call' = [call EXCEPT ![w] = [stage |-> "finish", result |-> result,
                                 request |-> call[w].row.request]]

\* D1 applies the command: the triggers move the head.
D1Apply(w) ==
    /\ call[w].stage = "apply"
    /\ Applicable(call[w].row)
    /\ successors' = successors \cup {call[w].row}
    /\ head' = [generation |-> call[w].row.request.generation,
                version |-> head.version + 1,
                updated_at |-> call[w].row.executed_at]
    /\ call' = [call EXCEPT ![w] = [stage |-> "confirm", row |-> call[w].row]]
    /\ UNCHANGED <<object, projection, unprojected, clock, confirmed>>

\* D1 applies nothing and says why.
D1Refuse(w) ==
    /\ call[w].stage = "apply"
    /\ ~Applicable(call[w].row)
    /\ Answered(w, Classify(call[w].row))
    /\ UNCHANGED <<object, catalog, clock, confirmed>>

\* Membership, grant or device authorization was revoked in the meantime.
D1Revoked(w) ==
    /\ call[w].stage = "apply"
    /\ RowsFor(call[w].row.request.base) = {}
    /\ Answered(w, "StaleAuthority")
    /\ UNCHANGED <<object, catalog, clock, confirmed>>

\* The row is read back after the insert.
D1Confirm(w) ==
    /\ call[w].stage = "confirm"
    /\ Answered(w, IF CommittedExact(call[w].row) THEN "Activated"
                                                  ELSE "IntegrityFailure")
    /\ UNCHANGED <<object, catalog, clock, confirmed>>

\* D1 cannot be reached, before the insert or after it.
D1Unavailable(w) ==
    /\ call[w].stage \in {"apply", "confirm"}
    /\ Answered(w, "DependencyUnavailable")
    /\ UNCHANGED <<object, catalog, clock, confirmed>>

\* The object gets the answer of D1.  An uncertain one keeps the gate.
Finish(w) ==
    /\ call[w].stage = "finish"
    /\ IF call[w].result \in {"IntegrityFailure", "DependencyUnavailable"}
       THEN alarm' = GateRetryAlarm /\ UNCHANGED <<gate, waiting, overtaken>>
       ELSE gate' = {} /\ waiting' = {} /\ overtaken' = FALSE /\ alarm' = alarm
    /\ confirmed' = IF call[w].result \in {"Activated", "AlreadyActive"}
                    THEN confirmed \cup {call[w].request.generation}
                    ELSE confirmed
    /\ call' = [call EXCEPT ![w] = Idle]
    /\ UNCHANGED <<coord, catalog, clock>>

\* The object is evicted: requests in it are lost, its storage is not.
Evict ==
    /\ waiting # {} \/ \E w \in Workers : call[w].stage \notin {"idle", "proved"}
    /\ waiting' = {}
    /\ call' = [w \in Workers |->
                  IF call[w].stage = "proved" THEN call[w] ELSE Idle]
    /\ UNCHANGED <<coord, alarm, gate, overtaken, catalog, clock, confirmed>>

-----------------------------------------------------------------------------
(* Projection into D1, and time.                                           *)

\* The ingress projects the result of a command, stamped with a time after
\* the command; an older result is refused.
Project(u) ==
    /\ u \in unprojected
    /\ unprojected' = unprojected \ {u}
    /\ \/ /\ \E p \in projection : p.state.sequence >= u.state.sequence
          /\ UNCHANGED projection
       \/ /\ \A p \in projection : p.state.sequence < u.state.sequence
          /\ \E at \in u.projected_at .. clock :
                projection' = {[u EXCEPT !.projected_at = at]}
    /\ UNCHANGED <<object, call, head, successors, clock, confirmed>>

\* The ingress fails before it has projected the result.
LoseProjection(u) ==
    /\ u \in unprojected
    /\ unprojected' = unprojected \ {u}
    /\ UNCHANGED <<object, call, projection, head, successors, clock, confirmed>>

Tock ==
    /\ clock < MaxMillis
    /\ clock' = clock + 1
    /\ UNCHANGED <<object, call, catalog, confirmed>>

Init ==
    /\ coord = NewCoordinator
    /\ alarm = {}
    /\ gate = {}
    /\ call = [w \in Workers |-> Idle]
    /\ projection = {}
    /\ unprojected = {}
    /\ head = [generation |-> FirstGeneration, version |-> 1, updated_at |-> 0]
    /\ successors = {}
    /\ clock = 0
    /\ confirmed = {}
    /\ waiting = {}
    /\ overtaken = FALSE

D1Answers(w) ==
    D1Apply(w) \/ D1Refuse(w) \/ D1Revoked(w) \/ D1Confirm(w) \/ D1Unavailable(w)

Next ==
    \/ \E k \in Commanders : Command(k)
    \/ AlarmTick
    \/ AlarmGated
    \/ \E w \in Workers :
          \/ ProveAuthority(w)
          \/ Reserve(w)
          \/ RefuseReservation(w)
          \/ D1Answers(w)
          \/ Finish(w)
    \/ Evict
    \/ \E u \in unprojected : Project(u) \/ LoseProjection(u)
    \/ Tock

Spec == Init /\ [][Next]_vars

\* Time passes, due alarms fire, D1 calls return and their results are
\* handled.  Nothing else has to happen.
Fairness ==
    /\ WF_vars(Tock)
    /\ WF_vars(AlarmTick)
    /\ \A w \in Workers : WF_vars(D1Answers(w)) /\ WF_vars(Finish(w))

FairSpec == Spec /\ Fairness

\* As well, clients go on saving for as long as the object lets them.
RetryingSpec ==
    /\ FairSpec
    /\ \A w \in Workers : WF_vars(ProveAuthority(w)) /\ WF_vars(Reserve(w))

-----------------------------------------------------------------------------
(* Properties.                                                             *)

\* Every variable has its type.
TypeOK ==
    /\ coord \in ProfileCoordinatorState
    /\ alarm \subseteq Time /\ IsOption(alarm)
    /\ gate \subseteq Gate /\ IsOption(gate)
    /\ call \in [Workers -> Call]
    /\ projection \cup unprojected \subseteq Projection /\ IsOption(projection)
    /\ head \in [generation : Generations \cup {FirstGeneration},
                 version : 1 .. (Cardinality(Generations) + 1),
                 updated_at : Time]
    /\ successors \subseteq Row
    /\ clock \in Time
    /\ confirmed \subseteq Generations
    /\ waiting \subseteq Passing
    /\ overtaken \in BOOLEAN

\* A save that was reported as done is in the catalog and stays part of the
\* history of the head: no two rows extend the same generation, and every
\* saved generation was extended or is the head.
ConfirmedSavesKept ==
    /\ confirmed \subseteq {x.request.generation : x \in successors}
    /\ \A x, y \in successors : x.request.base = y.request.base => x = y
    /\ \A x \in successors :
          \/ x.request.generation = head.generation
          \/ \E y \in successors : y.request.base = x.request.generation

\* Whatever holds up the alarm, it stays armed: while a lease or an intent can
\* expire there is an alarm at its deadline or one gate retry from now.
AlarmArmed ==
    Deadlines(coord) # {} =>
        \E t \in alarm : \A d \in Deadlines(coord) :
            t <= d \/ t <= clock + GateRetryMs

\* The object still holds the lease, and the version, that the row names.
LeaseHeld(row) ==
    /\ coord.version = row.request.version
    /\ \E l \in coord.active_lease : AcceptsWriter(l, row.request)

\* While the gate of a save is stored, the lease the save was validated for
\* holds up to the moment the head moves: neither the alarm nor any command
\* that comes after the gate ends it, whatever becomes of the requests that
\* share the gate.  The one way the head moves under a lease that is over is a
\* command that was in the object before the gate, and only waited for its body.
CommitUnderLiveLease ==
    [][\A x \in successors' \ successors :
          (\E g \in gate : g.request = x.request) => LeaseHeld(x) \/ overtaken]_vars

\* Without that exception: not what the object does.
EveryCommitUnderLiveLease ==
    [][\A x \in successors' \ successors :
          (\E g \in gate : g.request = x.request) => LeaseHeld(x)]_vars

\* The coordinator contract: "Once ownership turns over, every prior writer is
\* permanently fenced from refreshing or committing against the coordinator."
PriorWriterFenced ==
    \A x \in successors' \ successors : x.request.epoch = coord.next_epoch

PriorWritersNeverCommit == [][PriorWriterFenced]_vars

LeaseDue == TimeoutDue(coord, clock)
NoLease == coord.active_lease = {}

\* An expired lease ends without anybody's help, as long as no commit keeps the
\* gate for ever.
LeaseEndsUnlessGated == []<>(gate = {}) => (LeaseDue ~> NoLease)

\* The promise of the alarm: an expired lease ends.
ExpiredLeaseEnds == LeaseDue ~> NoLease
=============================================================================
