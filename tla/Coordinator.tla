----------------------------- MODULE Coordinator -----------------------------
(***************************************************************************)
(* ProfileCoordinatorState as a state machine: one aggregate per profile,  *)
(* changed by command envelopes that any number of clients (operators, the *)
(* Profile Bridge of each device, the Durable Object's own alarm) submit   *)
(* in any order, late, twice, or with somebody else's credentials.  Each   *)
(* action is one call of `apply`; a refused call changes nothing.          *)
(***************************************************************************)
EXTENDS CoordinatorDomain

VARIABLES
    coord,    \* the ProfileCoordinatorState
    retired   \* history: the writer credentials of every lease that ended

vars == <<coord, retired>>

\* What a client must present to act as the writer of a lease.
Writer == [session_id : Sessions, epoch : 1 .. MaxVersion, fencing_token : Fences]

WriterOf(l) == [session_id |-> l.session_id, epoch |-> l.epoch,
                fencing_token |-> l.fencing_token]

WritersOf(s) == {WriterOf(l) : l \in s.active_lease}

Init == coord = NewCoordinator /\ retired = {}

\* `apply` with one of the commands in C under some key.  An envelope that
\* does not carry the expected sequence and version is refused whatever else
\* it carries.
Submit(C) ==
    \E key \in Keys, c \in C :
        /\ NewlyAccepted(coord, NextEnvelope(coord, key, c))
        /\ coord' = Accept(coord, NextEnvelope(coord, key, c))
        /\ retired' = retired \cup (WritersOf(coord) \ WritersOf(coord'))

OfType(C, type) == {c \in C : c.type = type}

IssueLaunchIntent == Submit(OfType(LaunchCommand, "IssueLaunchIntent"))
RecoverAndIssueLaunchIntent ==
    Submit(OfType(LaunchCommand, "RecoverAndIssueLaunchIntent"))
Claim == Submit(ClaimCommand)
Heartbeat == Submit(OfType(HeartbeatCommand, "Heartbeat"))
RenewLease == Submit(OfType(HeartbeatCommand, "RenewLease"))
Release == Submit(ReleaseCommand)
BeginDrain == Submit(OfType(PlainCommand, "BeginDrain"))
Tick == Submit(OfType(PlainCommand, "Tick"))
MarkRecovered == Submit(OfType(PlainCommand, "MarkRecovered"))

Next ==
    \/ IssueLaunchIntent
    \/ RecoverAndIssueLaunchIntent
    \/ Claim
    \/ Heartbeat
    \/ RenewLease
    \/ Release
    \/ BeginDrain
    \/ Tick
    \/ MarkRecovered

Spec == Init /\ [][Next]_vars

-----------------------------------------------------------------------------
(* Properties.                                                             *)

\* Every field has the type it has in the code, with at most one pending
\* intent, lease and drain deadline.
TypeOK ==
    /\ coord \in ProfileCoordinatorState
    /\ IsOption(coord.pending_intent)
    /\ IsOption(coord.active_lease)
    /\ IsOption(coord.drain_deadline)
    /\ Len(coord.receipts) <= ReceiptLimit
    /\ retired \subseteq Writer

\* Whatever commands were accepted, the checkpoint of the coordinator passes
\* every test of restore_checkpoint and CoordinatorLease::restored.  A state
\* that failed one would make the compacted journal unreadable, and with it
\* every later request for the profile.
CheckpointRestorable == Restorable(Checkpoint(coord))

\* A lease that ended stays fenced: no later lease is granted under the
\* session, epoch and token of an earlier one, so a writer of an earlier
\* turnover is refused by accepts_writer for ever, even if the clients and
\* the token generator repeat themselves.
RetiredWritersFenced == WritersOf(coord) \cap retired = {}

\* A step that observes a time at or past a deadline of the lease ends it.
DueLeaseEnds ==
    \A l \in coord.active_lease :
        (\/ coord'.last_observed_at >= l.idle_expires_at
         \/ coord'.last_observed_at >= l.hard_expires_at
         \/ \E d \in coord.drain_deadline : coord'.last_observed_at >= d)
        => coord'.active_lease = {} /\ coord'.status = "Uncertain"

\* A command that observes a time at or past any deadline of the lease leaves
\* no writer and an Uncertain profile, whatever it asked for: a late Clean
\* release or heartbeat does not get in before the alarm.
ExpiredLeaseEndsUncertain == [][DueLeaseEnds]_vars

\* A step of a draining coordinator ends the lease or keeps the drain.
DrainKept ==
    coord.status = "Draining" =>
        \/ coord'.active_lease = {}
        \/ /\ coord'.status = "Draining"
           /\ coord'.drain_deadline = coord.drain_deadline
           /\ WritersOf(coord') = WritersOf(coord)

\* A drain ends only with the lease: neither heartbeats, renewals nor a second
\* drain request return the lease to Active or move the drain deadline.
DrainIsFinal == [][DrainKept]_vars

\* A silent writer loses the lease in time: the deadlines never lie further
\* from the last accepted heartbeat than the configured timeouts, and a drain
\* never outlives the hard deadline.
LeaseDeadlinesBounded ==
    \A l \in coord.active_lease :
        /\ l.last_heartbeat_at <= coord.last_observed_at
        /\ l.idle_expires_at <= l.last_heartbeat_at + IdleTimeoutMs
        /\ l.hard_expires_at <= l.last_heartbeat_at + HardTimeoutMs
        /\ \A d \in coord.drain_deadline : d <= l.hard_expires_at

\* The idempotency window holds exactly the last ReceiptLimit accepted
\* commands, in order and under distinct keys, so a retry within the window
\* finds its own decision and never another command's.
ReceiptWindow ==
    LET r == coord.receipts
    IN  /\ Len(r) = Least(coord.last_sequence, ReceiptLimit)
        /\ \A i \in 1 .. Len(r) :
              r[i].sequence = coord.last_sequence - Len(r) + i
        /\ \A i, j \in 1 .. Len(r) :
              r[i].idempotency_key = r[j].idempotency_key => i = j

\* The coordinator contract of docs/PROFILE_COORDINATOR.md: a claim issues "a
\* non-extendable hard deadline".  RenewLease moves it.
HardDeadlineNotExtended ==
    \A l \in coord.active_lease :
        l.hard_expires_at <= l.claimed_at + HardTimeoutMs
=============================================================================
