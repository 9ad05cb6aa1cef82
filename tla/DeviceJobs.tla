------------------------------ MODULE DeviceJobs ------------------------------
(***************************************************************************)
(* A durable device job: the DeviceJob aggregate                           *)
(* (crates/device-domain/src/job.rs, claim.rs), the use cases around it    *)
(* (crates/use-cases-devices/src/jobs.rs) and its row in D1, for one job.  *)
(*                                                                         *)
(* A request notes the time, waits for authentication, authorization and   *)
(* preconditions, reads the row, applies one operation of the aggregate to *)
(* its copy and writes the copy back if the row still has the version that *)
(* was read.  Between these steps other requests run.  Device, operator    *)
(* and recovery requests all go through the same steps.  Beside them, the  *)
(* commit of a dirty generation ends the job inside D1, by a trigger that  *)
(* knows nothing of the aggregate.                                         *)
(*                                                                         *)
(* An Option is a set of at most one element.  Claim identities are left   *)
(* out: the claims of a job differ in their fence, and a request must      *)
(* present both.                                                           *)
(***************************************************************************)
EXTENDS Integers

CONSTANTS
    Requests,      \* requests that can be in progress at the same time
    AttemptLimit,  \* MAX_DEVICE_JOB_ATTEMPTS
    LeaseMs,       \* DEVICE_CLAIM_LEASE_MS
    RetryLimitMs,  \* MAX_DEVICE_RETRY_DELAY_MS
    MaxMillis,     \* the largest UnixMillis
    MaxVersion     \* the largest AggregateVersion

ASSUME JobAssumption ==
    /\ AttemptLimit \in Nat \ {0}
    /\ LeaseMs \in Nat \ {0}
    /\ RetryLimitMs \in Nat \ {0}
    /\ MaxMillis \in Nat
    /\ MaxVersion \in Nat \ {0}

VARIABLES
    job,       \* D1: the row of device_jobs, an option
    journal,   \* D1: the row of device_generation_commit_commands, an option
    call,      \* what each request is doing
    clock,     \* Date::now
    ended      \* history: how the claim of each fence ended

vars == <<job, journal, call, clock, ended>>

-----------------------------------------------------------------------------
(* Types.                                                                  *)

Time == 0 .. MaxMillis

Result == {"Succeeded", "RetryScheduled", "ProfileBusy", "AuthRequired",
           "RecoveryRequired", "Failed"}
Status == Result \cup {"PendingDevice", "Running", "Cancelled"}
Terminal == {"Succeeded", "Failed", "Cancelled"}
Delayed == {"ProfileBusy", "RetryScheduled"}

DeviceClaim ==
    [fence : 1 .. AttemptLimit, claimed_at : Time, last_heartbeat_at : Time,
     lease_expires_at : Time]

DeviceJob ==
    [version : 1 .. MaxVersion, status : Status, attempt : 0 .. AttemptLimit,
     max_attempts : 1 .. AttemptLimit, last_fence : 0 .. AttemptLimit,
     active_claim : SUBSET DeviceClaim, retry_at : SUBSET Time,
     updated_at : Time]

CommitRow == [expected_job_version : 1 .. MaxVersion,
              claim_fence : 1 .. AttemptLimit, executed_at : Time]

\* The commands of the use cases.  retry_at is what the Worker makes of the
\* delay that a device asks for, or what the recovering caller asks for.
ClaimCommand == [type : {"Claim"}]
HeartbeatCommand == [type : {"Heartbeat"}, fence : 1 .. AttemptLimit]
OutcomeCommand ==
    [type : {"Outcome"}, fence : 1 .. AttemptLimit, result : Result,
     retry_at : {{}} \cup {{t} : t \in Time}]
ExpireCommand == [type : {"Expire"}, retry_at : Time]
PlainCommand == [type : {"Resume", "Cancel"}]

Command == ClaimCommand \cup HeartbeatCommand \cup OutcomeCommand
               \cup ExpireCommand \cup PlainCommand

End == [fence : 1 .. AttemptLimit,
        by : Result \cup {"Expired", "Cancelled", "Committed"}]

Idle == [stage |-> "idle"]

Call ==
    {Idle} \cup [stage : {"authorizing"}, observed_at : Time]
        \cup [stage : {"writing"}, expected_version : 1 .. MaxVersion,
              next : DeviceJob, ends : SUBSET End]

\* o holds at most one value.
IsOption(o) == \A x, y \in o : x = y

-----------------------------------------------------------------------------
(* The aggregate.  Each operation refuses a time before updated_at and a   *)
(* version that cannot advance.                                            *)

CanAdvance(j, now) == j.updated_at <= now /\ j.version < MaxVersion

Advanced(j, now) == [j EXCEPT !.version = @ + 1, !.updated_at = now]

\* checked_future, for the lease of a claim.
LeaseFits(now) == now + LeaseMs <= MaxMillis

ClaimAccepted(j, now) ==
    /\ CanAdvance(j, now)
    /\ j.status \in {"PendingDevice"} \cup Delayed
    /\ \A t \in j.retry_at : t <= now
    /\ j.active_claim = {}
    /\ j.attempt < j.max_attempts
    /\ LeaseFits(now)

ClaimAt(fence, now) ==
    [fence |-> fence, claimed_at |-> now, last_heartbeat_at |-> now,
     lease_expires_at |-> now + LeaseMs]

ClaimEffect(j, now) ==
    Advanced([j EXCEPT !.attempt = @ + 1, !.last_fence = @ + 1,
                       !.active_claim = {ClaimAt(j.last_fence + 1, now)},
                       !.retry_at = {}, !.status = "Running"], now)

\* current_claim_mut: the claim of this fence runs and has not expired.
HoldsClaim(j, fence, now) ==
    /\ j.status = "Running"
    /\ \E l \in j.active_claim : l.fence = fence /\ now < l.lease_expires_at

\* DeviceClaim::heartbeat only accepts a later expiry, so a heartbeat in the
\* millisecond of the claim is refused.
HeartbeatAccepted(j, fence, now) ==
    /\ CanAdvance(j, now)
    /\ HoldsClaim(j, fence, now)
    /\ LeaseFits(now)
    /\ \A l \in j.active_claim :
          l.last_heartbeat_at <= now /\ l.lease_expires_at < now + LeaseMs

Extended(l, now) ==
    [l EXCEPT !.last_heartbeat_at = now, !.lease_expires_at = now + LeaseMs]

HeartbeatEffect(j, now) ==
    Advanced([j EXCEPT !.active_claim = {Extended(l, now) : l \in @}], now)

\* The retry time the Worker computes, before any wait, from the delay of a
\* request; only the two delayed results carry one.
RetryAsked(result, retry_at, now) ==
    IF result \in Delayed
    THEN \E d \in 1 .. RetryLimitMs : retry_at = {now + d}
    ELSE retry_at = {}

OutcomeAccepted(j, fence, result, retry_at, now) ==
    /\ CanAdvance(j, now)
    /\ HoldsClaim(j, fence, now)
    /\ RetryAsked(result, retry_at, now)
    /\ result = "RetryScheduled" => j.attempt < j.max_attempts
    /\ \A t \in retry_at : now < t

OutcomeEffect(j, result, retry_at, now) ==
    Advanced([j EXCEPT !.active_claim = {}, !.status = result,
                       !.retry_at = retry_at], now)

ExpireAccepted(j, retry_at, now) ==
    /\ CanAdvance(j, now)
    /\ j.status = "Running"
    /\ \E l \in j.active_claim : l.lease_expires_at <= now
    /\ j.attempt < j.max_attempts => now < retry_at

ExpireEffect(j, retry_at, now) ==
    IF j.attempt < j.max_attempts
    THEN OutcomeEffect(j, "RetryScheduled", {retry_at}, now)
    ELSE OutcomeEffect(j, "Failed", {}, now)

ResumeAccepted(j, now) ==
    /\ CanAdvance(j, now)
    /\ j.status \in {"AuthRequired", "RecoveryRequired"}
    /\ j.active_claim = {}

ResumeEffect(j, now) == Advanced([j EXCEPT !.status = "PendingDevice"], now)

\* Mutant: a finished job can be cancelled.
CancelAcceptedAnytime(j, now) == CanAdvance(j, now)

CancelAccepted(j, now) == CanAdvance(j, now) /\ j.status \notin Terminal

CancelEffect(j, now) ==
    Advanced([j EXCEPT !.active_claim = {}, !.retry_at = {},
                       !.status = "Cancelled"], now)

Accepted(j, c, now) ==
    CASE c.type = "Claim" -> ClaimAccepted(j, now)
      [] c.type = "Heartbeat" -> HeartbeatAccepted(j, c.fence, now)
      [] c.type = "Outcome" ->
            OutcomeAccepted(j, c.fence, c.result, c.retry_at, now)
      [] c.type = "Expire" -> ExpireAccepted(j, c.retry_at, now)
      [] c.type = "Resume" -> ResumeAccepted(j, now)
      [] c.type = "Cancel" -> CancelAccepted(j, now)

Effect(j, c, now) ==
    CASE c.type = "Claim" -> ClaimEffect(j, now)
      [] c.type = "Heartbeat" -> HeartbeatEffect(j, now)
      [] c.type = "Outcome" -> OutcomeEffect(j, c.result, c.retry_at, now)
      [] c.type = "Expire" -> ExpireEffect(j, c.retry_at, now)
      [] c.type = "Resume" -> ResumeEffect(j, now)
      [] c.type = "Cancel" -> CancelEffect(j, now)

\* DeviceClaim::restore and DeviceJob::restore.  The CHECKs of the table
\* device_jobs ask for the same.
RestorableClaim(l) ==
    /\ l.fence > 0
    /\ l.claimed_at <= l.last_heartbeat_at
    /\ l.last_heartbeat_at < l.lease_expires_at

Restorable(j) ==
    /\ j.attempt <= j.max_attempts
    /\ j.last_fence = j.attempt
    /\ j.version > j.attempt
    /\ j.status \in Result \cup {"Running"} => j.attempt > 0
    /\ j.status = "Running" <=> j.active_claim # {}
    /\ j.status \in Delayed <=> j.retry_at # {}
    /\ \A t \in j.retry_at : j.updated_at < t
    /\ \A l \in j.active_claim :
          /\ RestorableClaim(l)
          /\ l.fence = j.last_fence
          /\ l.last_heartbeat_at = j.updated_at
          /\ j.updated_at < l.lease_expires_at

-----------------------------------------------------------------------------
(* Requests.                                                               *)

\* execute_issue_device_job and INSERT_DEVICE_JOB.
Issue ==
    /\ job = {}
    /\ \E n \in 1 .. AttemptLimit, now \in 0 .. clock :
          job' = {[version |-> 1, status |-> "PendingDevice", attempt |-> 0,
                   max_attempts |-> n, last_fence |-> 0, active_claim |-> {},
                   retry_at |-> {}, updated_at |-> now]}
    /\ UNCHANGED <<journal, call, clock, ended>>

\* The Worker reads the clock and starts to wait.
Begin(r) ==
    /\ call[r] = Idle
    /\ call' = [call EXCEPT ![r] = [stage |-> "authorizing",
                                    observed_at |-> clock]]
    /\ UNCHANGED <<job, journal, clock, ended>>

\* How a command ends the claim of j, if it does.
HowEnded(c) == CASE c.type = "Outcome" -> c.result
                 [] c.type = "Expire" -> "Expired"
                 [] OTHER -> "Cancelled"

EndedBy(j, by) == {[fence |-> l.fence, by |-> by] : l \in j.active_claim}

EndsOf(j, c) == IF c.type \in {"Outcome", "Expire", "Cancel"}
                THEN EndedBy(j, HowEnded(c))
                ELSE {}

\* load_exact_job and the operation on the loaded copy.  The fields of the
\* command were chosen by the caller; a command that names another version is
\* refused, so the expected version is the one that was read.
Load(r) ==
    /\ call[r].stage = "authorizing"
    /\ \E j \in job, c \in Command :
          /\ Accepted(j, c, call[r].observed_at)
          /\ call' = [call EXCEPT ![r] =
                [stage |-> "writing", expected_version |-> j.version,
                 next |-> Effect(j, c, call[r].observed_at),
                 ends |-> EndsOf(j, c)]]
    /\ UNCHANGED <<job, journal, clock, ended>>

\* Mutant: the update has lost its version condition.
SwapUnconditional(r) == job # {}

\* CAS_DEVICE_JOB.
SwapApplies(r) == \E j \in job : j.version = call[r].expected_version

\* compare_and_swap_device_job.  The caller may or may not learn the result;
\* a version conflict changes nothing.
Write(r) ==
    /\ call[r].stage = "writing"
    /\ IF SwapApplies(r)
       THEN job' = {call[r].next} /\ ended' = ended \cup call[r].ends
       ELSE UNCHANGED <<job, ended>>
    /\ call' = [call EXCEPT ![r] = Idle]
    /\ UNCHANGED <<journal, clock>>

\* The request ends without a write: it was refused by authentication,
\* authorization, preconditions or the aggregate, or D1 could not be reached.
GiveUp(r) ==
    /\ call[r] # Idle
    /\ call' = [call EXCEPT ![r] = Idle]
    /\ UNCHANGED <<job, journal, clock, ended>>

\* device_generation_commit_command_validate, as far as the job goes.  The
\* time is that of the commit gate, which may be older than the request.
CommitValid(j, row) ==
    /\ j.version = row.expected_job_version
    /\ j.status = "Running"
    /\ j.last_fence = row.claim_fence
    /\ j.updated_at <= row.executed_at
    /\ \E l \in j.active_claim :
          /\ l.fence = row.claim_fence
          /\ l.last_heartbeat_at <= row.executed_at
          /\ row.executed_at < l.lease_expires_at

\* Mutant: the trigger does not advance the version.
CommitEffectSameVersion(j, row) ==
    [j EXCEPT !.status = "Succeeded", !.active_claim = {}, !.retry_at = {},
              !.updated_at = row.executed_at]

\* device_generation_commit_command_apply.
CommitEffect(j, row) ==
    [j EXCEPT !.version = @ + 1, !.status = "Succeeded", !.active_claim = {},
              !.retry_at = {}, !.updated_at = row.executed_at]

\* The insert of a commit command and its triggers, one transaction in D1.
\* Whether profile and coordinator agree is the subject of GenerationCommit.
Commit ==
    /\ journal = {}
    /\ \E j \in job, row \in CommitRow :
          /\ row.executed_at <= clock
          /\ j.version < MaxVersion
          /\ CommitValid(j, row)
          /\ job' = {CommitEffect(j, row)}
          /\ journal' = {row}
          /\ ended' = ended \cup {[fence |-> row.claim_fence,
                                   by |-> "Committed"]}
    /\ UNCHANGED <<call, clock>>

Tock == clock < MaxMillis /\ clock' = clock + 1
            /\ UNCHANGED <<job, journal, call, ended>>

Init ==
    /\ job = {}
    /\ journal = {}
    /\ call = [r \in Requests |-> Idle]
    /\ clock = 0
    /\ ended = {}

Next ==
    \/ Issue
    \/ Commit
    \/ Tock
    \/ \E r \in Requests : Begin(r) \/ Load(r) \/ Write(r) \/ GiveUp(r)

Spec == Init /\ [][Next]_vars

-----------------------------------------------------------------------------
(* Properties.                                                             *)

\* Rows and requests have the types of the code; there is one row of each kind
\* at most, with at most one claim and one retry time.
TypeOK ==
    /\ job \subseteq DeviceJob /\ IsOption(job)
    /\ \A j \in job : IsOption(j.active_claim) /\ IsOption(j.retry_at)
    /\ journal \subseteq CommitRow /\ IsOption(journal)
    /\ call \in [Requests -> Call]
    /\ clock \in Time
    /\ ended \subseteq End

\* Whatever requests and commits interleave, the stored row is one that
\* DeviceJob::restore accepts and the table's CHECKs allow.  A row that failed
\* would make the job unreadable, or a legal operation fail in D1.
StoredJobRestorable == \A j \in job : Restorable(j)

\* Each claim ends exactly once: no result is accepted for an attempt that
\* already expired, was cancelled, committed or reported another result, and
\* no attempt begins before the previous one has ended, however requests
\* that read the same row overtake each other.
AttemptsEndOnce ==
    \A j \in job :
        /\ {e.fence : e \in ended} =
               (1 .. j.last_fence) \ {l.fence : l \in j.active_claim}
        /\ \A e, f \in ended : e.fence = f.fence => e = f

\* A job that reported success, through the use case or through a committed
\* generation, stays Succeeded, and nobody works on it again.
SuccessIsFinal ==
    \A e \in ended, j \in job :
        e.by \in {"Succeeded", "Committed"} =>
            j.status = "Succeeded" /\ j.last_fence = e.fence

\* Once a commit is in the journal, the job is, from then on, as
\* committed_state_is_exact expects it: no request that had read the row before
\* the commit can change it and so hide the commit from a device that lost the
\* reply and asks again.
CommittedStateExact ==
    \A row \in journal, j \in job :
        /\ j.status = "Succeeded"
        /\ j.version = row.expected_job_version + 1
        /\ j.active_claim = {} /\ j.retry_at = {}
        /\ j.updated_at = row.executed_at
=============================================================================
