---------------------------- MODULE MailboxJobs ----------------------------
(***************************************************************************)
(* Scheduled mailbox checks: the jobs of one mailbox binding in D1, the    *)
(* scheduled handler that publishes the due ones, the at-least-once queue, *)
(* the consumers that take a leased and fenced execution, call the         *)
(* provider and write its result, and the owner who runs a job by hand     *)
(* meanwhile.                                                              *)
(*                                                                         *)
(* Every statement sent to D1 is one step.  A consumer reads its clock     *)
(* once, when the message arrives, and uses that time to the end.          *)
(***************************************************************************)
EXTENDS Naturals, FiniteSets

CONSTANTS
    Jobs,            \* jobs of the binding
    Actors,          \* members of the tenant that may become its owner
    Workers,         \* concurrent consumers and requests
    MaxAttempts,     \* max_attempts of every job
    Lease,           \* EXECUTION_LEASE_MS
    RetryBase,       \* RETRY_BASE_DELAY_MS
    RetryMax,        \* RETRY_MAX_DELAY_MS
    QueueRetries,    \* retries before the queue dead-letters a message
    MaxClock,        \* bound: time
    MaxFaults,       \* bound: crashes, failed calls, duplicate deliveries
    MaxTransfers     \* bound: transfers of the tenant's ownership

ASSUME MailboxAssumption ==
    /\ Actors # {} /\ MaxAttempts \in 1..10
    /\ Lease \in Nat \ {0} /\ RetryBase \in Nat \ {0} /\ RetryMax >= RetryBase
    /\ RetryMax \in Nat /\ QueueRetries \in Nat /\ MaxClock \in Nat
    /\ MaxFaults \in Nat /\ MaxTransfers \in Nat

VARIABLES
    clock,       \* the time every worker reads
    owner,       \* the tenant's one active TENANT_OWNER membership
    transfers,   \* owner_transfer_commands so far
    binding,     \* mailbox_bindings
    job,         \* mailbox_jobs
    journal,     \* mailbox_job_run_commands_v2, with its idempotency record
    dispatched,  \* mailbox_job_queue_dispatches
    lease,       \* mailbox_job_execution_leases
    queue,       \* messages of MAILBOX_JOBS
    cron,        \* the scheduled handler
    work,        \* queue consumers and run requests
    faults       \* failures so far

vars == <<clock, owner, transfers, binding, job, journal, dispatched, lease,
          queue, cron, work, faults>>

-----------------------------------------------------------------------------
(* State *)

\* A run moves the version by three: queue, start and the outcome.
VersionAfter(n) == 1 + 3 * n

Versions == {VersionAfter(n) : n \in 0..MaxAttempts}

Time == 0..MaxClock

Lower(a, b) == IF a < b THEN a ELSE b

Higher(a, b) == IF a < b THEN b ELSE a

\* A deadline; at the bound of the clock every deadline has passed.
Later(t, delay) == Lower(t + delay, MaxClock)

Pending == {"SCHEDULED", "RETRY_PENDING"}

Settled == {"SUCCEEDED", "FAILED", "AUTH_REQUIRED", "SUSPENDED"}

MailboxJob == [status: Pending \cup Settled \cup {"ABSENT"},
               attempt: 0..MaxAttempts, version: Versions, next: Time]

Dispatch == [job: Jobs, ver: Versions, actor: Actors]

Message == [job: Jobs, ver: Versions, actor: Actors, at: Time,
            tries: 0..QueueRetries]

\* What a call to the provider returns; "hint" is a retryable failure with a
\* retry time of its own.
Outcomes == {"ok", "retry", "hint", "auth", "suspend", "terminal"}

NoMessage == [job |-> "none"]

Idle == [pc |-> "idle", via |-> "none", msg |-> NoMessage, now |-> 0,
         fence |-> 0]

QuietCron == [pc |-> "idle", batch |-> {}, cur |-> NoMessage]

Executable == binding.status = "ACTIVE" /\ binding.exec = "ACTIVE"

Init ==
    /\ clock = 0 /\ owner \in Actors /\ transfers = 0 /\ faults = 0
    /\ binding = [status |-> "ACTIVE", exec |-> "ACTIVE"]
    /\ job = [j \in Jobs |-> [status |-> "ABSENT", attempt |-> 0, version |-> 1,
                              next |-> 0]]
    /\ journal = {} /\ dispatched = {} /\ queue = {}
    /\ lease = [j \in Jobs |-> [v \in Versions |->
                   [state |-> "NONE", fence |-> 0, expires |-> 0]]]
    /\ cron = QuietCron
    /\ work = [w \in Workers |-> Idle]

-----------------------------------------------------------------------------
(* The owner *)

\* Creates a job, due now or a little later, on a binding that is not revoked;
\* the trigger does not ask whether the binding can execute.  The same command
\* again is answered from its idempotency record.
CreateJob(j) ==
    /\ job[j].status = "ABSENT"
    /\ binding.status = "ACTIVE"
    /\ \E delay \in {0, RetryBase} :
          job' = [job EXCEPT ![j].status = "SCHEDULED", ![j].next = Later(clock, delay)]
    /\ UNCHANGED <<clock, owner, transfers, binding, journal, dispatched, lease,
                   queue, cron, work, faults>>

RevokeBinding ==
    /\ binding.status = "ACTIVE"
    /\ binding' = [binding EXCEPT !.status = "REVOKED"]
    /\ UNCHANGED <<clock, owner, transfers, job, journal, dispatched, lease, queue,
                   cron, work, faults>>

\* A tenant has exactly one active owner; the transfer swaps it in one step.
TransferOwnership ==
    /\ transfers < MaxTransfers
    /\ \E next \in Actors \ {owner} : owner' = next
    /\ transfers' = transfers + 1
    /\ UNCHANGED <<clock, binding, job, journal, dispatched, lease, queue, cron,
                   work, faults>>

-----------------------------------------------------------------------------
(* The scheduled handler: publish, then remember that it was published *)

\* The job at this version can run at time t.
Runnable(j, v, t) ==
    /\ job[j].version = v /\ job[j].status \in Pending
    /\ job[j].next <= t
    /\ job[j].attempt < MaxAttempts
    /\ Executable

DueDispatches ==
    {[job |-> j, ver |-> job[j].version, actor |-> owner] :
        j \in {i \in Jobs : /\ Runnable(i, job[i].version, clock)
                            /\ <<i, job[i].version>> \notin dispatched}}

\* load_due_dispatches; its limit of 50 rows is never met by one binding.
CronLoad ==
    /\ cron.pc = "idle" /\ DueDispatches # {}
    /\ cron' = [pc |-> "publish", batch |-> DueDispatches, cur |-> NoMessage]
    /\ UNCHANGED <<clock, owner, transfers, binding, job, journal, dispatched,
                   lease, queue, work, faults>>

CronPublish ==
    /\ cron.pc = "publish"
    /\ \E d \in cron.batch :
          /\ queue' = queue \cup {[job |-> d.job, ver |-> d.ver, actor |-> d.actor,
                                   at |-> clock, tries |-> 0]}
          /\ cron' = [pc |-> "mark", batch |-> cron.batch \ {d}, cur |-> d]
    /\ UNCHANGED <<clock, owner, transfers, binding, job, journal, dispatched,
                   lease, work, faults>>

CronMark ==
    /\ cron.pc = "mark"
    /\ dispatched' = dispatched \cup {<<cron.cur.job, cron.cur.ver>>}
    /\ cron' = IF cron.batch = {} THEN QuietCron
               ELSE [cron EXCEPT !.pc = "publish", !.cur = NoMessage]
    /\ UNCHANGED <<clock, owner, transfers, binding, job, journal, lease, queue,
                   work, faults>>

\* A failed call, or the end of the isolate, abandons the rest of the batch.
CronFails ==
    /\ cron.pc # "idle" /\ faults < MaxFaults
    /\ cron' = QuietCron
    /\ faults' = faults + 1
    /\ UNCHANGED <<clock, owner, transfers, binding, job, journal, dispatched,
                   lease, queue, work>>

-----------------------------------------------------------------------------
(* The queue *)

Held(m) == \E w \in Workers : work[w].via = "queue" /\ work[w].msg = m

\* A message whose delay is over reaches a free consumer.  Its due time needs no
\* check of its own: the job was due before the message was published.
Deliver(w) ==
    /\ work[w].pc = "idle"
    /\ \E m \in queue :
          /\ m.at <= clock /\ ~Held(m)
          /\ work' = [work EXCEPT ![w] = [Idle EXCEPT !.pc = "claim", !.via = "queue",
                                                      !.msg = m, !.now = clock]]
    /\ UNCHANGED <<clock, owner, transfers, binding, job, journal, dispatched,
                   lease, queue, cron, faults>>

\* At-least-once delivery: a second consumer gets a message in process.
DeliverTwice(w) ==
    /\ work[w].pc = "idle" /\ faults < MaxFaults
    /\ \E m \in queue :
          /\ Held(m)
          /\ work' = [work EXCEPT ![w] = [Idle EXCEPT !.pc = "claim", !.via = "queue",
                                                      !.msg = m, !.now = clock]]
    /\ faults' = faults + 1
    /\ UNCHANGED <<clock, owner, transfers, binding, job, journal, dispatched,
                   lease, queue, cron>>

\* The message comes back at "at", unless it was retried too often: then it goes
\* to the dead-letter queue, which no code of the repository reads.
Requeued(m, at) ==
    IF m \notin queue THEN queue
    ELSE (queue \ {m}) \cup
         (IF m.tries >= QueueRetries THEN {}
          ELSE {[m EXCEPT !.at = at, !.tries = m.tries + 1]})

\* The end of a consumer or of a request.
Ack(w) ==
    /\ queue' = queue \ {work[w].msg}
    /\ work' = [work EXCEPT ![w] = Idle]

Retry(w, at) ==
    /\ queue' = IF work[w].via = "queue" THEN Requeued(work[w].msg, at) ELSE queue
    /\ work' = [work EXCEPT ![w] = Idle]

Go(w, pc) ==
    /\ work' = [work EXCEPT ![w].pc = pc]
    /\ UNCHANGED queue

-----------------------------------------------------------------------------
(* A consumer takes the execution lease *)

Job(w) == work[w].msg.job

Ver(w) == work[w].msg.ver

\* A consumer may claim only for an actor that still owns the tenant.
MayClaim(w) == Runnable(Job(w), Ver(w), work[w].now) /\ owner = work[w].msg.actor

\* Mutant: a takeover keeps the fence.
AcquiredSameFence(w, fence) ==
    /\ lease' = [lease EXCEPT ![Job(w)][Ver(w)] =
                    [state |-> "ACTIVE", fence |-> 1,
                     expires |-> Later(work[w].now, Lease)]]
    /\ work' = [work EXCEPT ![w].pc = "replay", ![w].fence = 1]
    /\ UNCHANGED queue

Acquired(w, fence) ==
    /\ lease' = [lease EXCEPT ![Job(w)][Ver(w)] =
                    [state |-> "ACTIVE", fence |-> fence,
                     expires |-> Later(work[w].now, Lease)]]
    /\ work' = [work EXCEPT ![w].pc = "replay", ![w].fence = fence]
    /\ UNCHANGED queue

\* INSERT_EXECUTION_CLAIM: the first lease of this version.
InsertClaim(w) ==
    /\ work[w].pc = "claim"
    /\ IF lease[Job(w)][Ver(w)].state = "NONE" /\ MayClaim(w)
       THEN Acquired(w, 1)
       ELSE Go(w, "examine") /\ UNCHANGED lease
    /\ UNCHANGED <<clock, owner, transfers, binding, job, journal, dispatched,
                   cron, faults>>

\* load_lease: no lease or a completed one ends the message, a running one
\* delays it to the lease's end.
ExamineLease(w) ==
    LET row == lease[Job(w)][Ver(w)]
    IN  /\ work[w].pc = "examine"
        /\ \/ row.state \in {"NONE", "COMPLETED"} /\ Ack(w)
           \/ /\ row.state = "ACTIVE" /\ row.expires > work[w].now
              /\ Retry(w, row.expires)
           \/ /\ row.state = "ACTIVE" /\ row.expires <= work[w].now
              /\ Go(w, "reclaim")
        /\ UNCHANGED <<clock, owner, transfers, binding, job, journal, dispatched,
                       lease, cron, faults>>

\* The lease can be taken over.
LeaseLapsed(w) ==
    /\ lease[Job(w)][Ver(w)].state = "ACTIVE"
    /\ lease[Job(w)][Ver(w)].expires <= work[w].now

\* RECLAIM_EXECUTION_LEASE: the next fence.
ReclaimLease(w) ==
    /\ work[w].pc = "reclaim"
    /\ IF LeaseLapsed(w) /\ MayClaim(w)
       THEN Acquired(w, lease[Job(w)][Ver(w)].fence + 1)
       ELSE Go(w, "classify") /\ UNCHANGED lease
    /\ UNCHANGED <<clock, owner, transfers, binding, job, journal, dispatched,
                   cron, faults>>

\* classify_existing_lease: a lapsed lease nobody may reclaim is stale.
ClassifyLease(w) ==
    LET row == lease[Job(w)][Ver(w)]
    IN  /\ work[w].pc = "classify"
        /\ IF row.state = "ACTIVE" /\ row.expires > work[w].now
           THEN Retry(w, row.expires)
           ELSE Ack(w)
        /\ UNCHANGED <<clock, owner, transfers, binding, job, journal, dispatched,
                       lease, cron, faults>>

-----------------------------------------------------------------------------
(* execute_run_mailbox_job *)

\* The owner runs the job by hand, one request at a time, naming the version it
\* was shown.
RequestRun(w) ==
    /\ work[w].pc = "idle" /\ \A x \in Workers : work[x].via # "http"
    /\ \E j \in Jobs :
          /\ job[j].status # "ABSENT"
          /\ work' = [work EXCEPT ![w] =
                        [Idle EXCEPT !.pc = "replay", !.via = "http", !.now = clock,
                             !.msg = [job |-> j, ver |-> job[j].version, actor |-> owner]]]
    /\ UNCHANGED <<clock, owner, transfers, binding, job, journal, dispatched,
                   lease, queue, cron, faults>>

\* Success: a consumer still completes its lease, a request is answered.
Succeeded(w) == IF work[w].via = "queue" THEN Go(w, "complete") ELSE Ack(w)

\* The command's idempotency key is made of the actor, the job and the version.
Replayed(w) ==
    \E row \in journal : /\ row.via = work[w].via /\ row.actor = work[w].msg.actor
                         /\ row.job = Job(w) /\ row.ver = Ver(w)

DecideReplay(w) ==
    /\ work[w].pc = "replay"
    /\ IF Replayed(w) THEN Succeeded(w) ELSE Go(w, "load")
    /\ UNCHANGED <<clock, owner, transfers, binding, job, journal, dispatched,
                   lease, cron, faults>>

\* find_binding, find_job, the version check, queue and start.  The binding is
\* read first; it never becomes executable again, so reading both at once
\* leaves out no outcome.
LoadAndStart(w) ==
    /\ work[w].pc = "load"
    /\ IF Runnable(Job(w), Ver(w), work[w].now) THEN Go(w, "call") ELSE Ack(w)
    /\ UNCHANGED <<clock, owner, transfers, binding, job, journal, dispatched,
                   lease, cron, faults>>

\* The provider answers; which answer it is shows when the run is written, where
\* it is first used.  One that fails its integrity check is an error the queue
\* retries.
CallProvider(w) ==
    /\ work[w].pc = "call"
    /\ \/ Go(w, "write") /\ UNCHANGED faults
       \/ /\ faults < MaxFaults /\ faults' = faults + 1
          /\ Retry(w, Later(clock, 1))
    /\ UNCHANGED <<clock, owner, transfers, binding, job, journal, dispatched,
                   lease, cron>>

\* bounded_retry_at, for a provider that asks for the longest wait or for none.
RetryAt(t, attempt, hinted) ==
    LET policy == Lower(RetryBase * 2^Lower(attempt - 1, 5), RetryMax)
    IN  Later(t, IF hinted THEN Lower(Higher(RetryMax, policy), RetryMax) ELSE policy)

\* The row after the run: apply_provider_result and the trigger that stores it.
AfterRun(j, t, out) ==
    LET attempt == job[j].attempt + 1
        retryable == out \in {"retry", "hint"}
        again == retryable /\ attempt < MaxAttempts
    IN  [status |-> CASE out = "ok" -> "SUCCEEDED"
                      [] again -> "RETRY_PENDING"
                      [] out = "auth" -> "AUTH_REQUIRED"
                      [] out = "suspend" -> "SUSPENDED"
                      [] OTHER -> "FAILED",
         attempt |-> attempt,
         version |-> job[j].version + 3,
         next |-> IF again THEN RetryAt(t, attempt, out = "hint") ELSE job[j].next]

\* Mutant: the write does not compare the version.
RunAcceptedAnyVersion(w) ==
    Runnable(Job(w), job[Job(w)].version, work[w].now)

\* The run write's triggers after the check of the owner.
RunAccepted(w) == Runnable(Job(w), Ver(w), work[w].now)

\* Mutant: a refused write counts as done.
WriteRunOrSkip(w, out) ==
    LET after == AfterRun(Job(w), work[w].now, out)
    IN  /\ work[w].pc = "write"
        /\ IF owner = work[w].msg.actor /\ RunAccepted(w)
           THEN /\ job' = [job EXCEPT ![Job(w)] = after]
                /\ journal' = journal \cup
                      {[job |-> Job(w), ver |-> Ver(w), actor |-> work[w].msg.actor,
                        via |-> work[w].via]}
           ELSE UNCHANGED <<job, journal>>
        /\ Succeeded(w)
        /\ UNCHANGED <<clock, owner, transfers, binding, dispatched, lease, cron,
                       faults>>

\* run_job: one batch with the command row, the job, the binding and the
\* idempotency record.  Without the owner it fails as a dependency would and is
\* retried; a binding or a version that moved ends the message.
WriteRun(w, out) ==
    LET after == AfterRun(Job(w), work[w].now, out)
    IN  /\ work[w].pc = "write"
        /\ \/ /\ owner # work[w].msg.actor
              /\ Retry(w, Later(clock, 1))
              /\ UNCHANGED <<job, journal, binding>>
           \/ /\ owner = work[w].msg.actor /\ ~RunAccepted(w)
              /\ Ack(w)
              /\ UNCHANGED <<job, journal, binding>>
           \/ /\ owner = work[w].msg.actor /\ RunAccepted(w)
              /\ job' = [job EXCEPT ![Job(w)] = after]
              /\ journal' = journal \cup
                    {[job |-> Job(w), ver |-> Ver(w), actor |-> work[w].msg.actor,
                      via |-> work[w].via]}
              /\ binding' = [binding EXCEPT !.exec =
                                IF after.status \in {"AUTH_REQUIRED", "SUSPENDED"}
                                THEN after.status ELSE @]
              /\ Succeeded(w)
        /\ UNCHANGED <<clock, owner, transfers, dispatched, lease, cron, faults>>

\* COMPLETE_EXECUTION_LEASE, unless another consumer has taken the lease over.
CompleteLease(w) ==
    LET row == lease[Job(w)][Ver(w)]
    IN  /\ work[w].pc = "complete"
        /\ lease' = IF row.state = "ACTIVE" /\ row.fence = work[w].fence
                    THEN [lease EXCEPT ![Job(w)][Ver(w)].state = "COMPLETED"]
                    ELSE lease
        /\ Ack(w)
        /\ UNCHANGED <<clock, owner, transfers, binding, job, journal, dispatched,
                       cron, faults>>

\* A call to D1 that fails, or the end of the isolate: the message returns.
WorkerFails(w) ==
    /\ work[w].pc # "idle" /\ faults < MaxFaults
    /\ Retry(w, Later(clock, 1))
    /\ faults' = faults + 1
    /\ UNCHANGED <<clock, owner, transfers, binding, job, journal, dispatched,
                   lease, cron>>

-----------------------------------------------------------------------------
(* Specification *)

Tick ==
    /\ clock < MaxClock
    /\ clock' = clock + 1
    /\ UNCHANGED <<owner, transfers, binding, job, journal, dispatched, lease, queue,
                   cron, work, faults>>

WorkerStep(w) ==
    \/ InsertClaim(w) \/ ExamineLease(w) \/ ReclaimLease(w) \/ ClassifyLease(w)
    \/ DecideReplay(w) \/ LoadAndStart(w) \/ CallProvider(w)
    \/ \E out \in Outcomes : WriteRun(w, out)
    \/ CompleteLease(w)

CronStep == CronLoad \/ CronPublish \/ CronMark

Next ==
    \/ \E j \in Jobs : CreateJob(j)
    \/ RevokeBinding \/ TransferOwnership
    \/ CronStep \/ CronFails
    \/ \E w \in Workers : \/ Deliver(w) \/ DeliverTwice(w) \/ RequestRun(w)
                          \/ WorkerStep(w) \/ WorkerFails(w)
    \/ Tick

Spec == Init /\ [][Next]_vars

\* The cron trigger fires again, the queue delivers what it holds, a started
\* consumer goes on and time passes.
Fairness ==
    /\ WF_vars(CronStep)
    /\ WF_vars(Tick)
    /\ \A w \in Workers : SF_vars(Deliver(w)) /\ WF_vars(WorkerStep(w))

FairSpec == Spec /\ Fairness

-----------------------------------------------------------------------------
(* Properties *)

\* Every table holds rows of its shape.
TypeOK ==
    /\ clock \in 0..MaxClock /\ owner \in Actors
    /\ transfers \in 0..MaxTransfers /\ faults \in 0..MaxFaults
    /\ binding \in [status: {"ACTIVE", "REVOKED"},
                    exec: {"ACTIVE", "AUTH_REQUIRED", "SUSPENDED"}]
    /\ job \in [Jobs -> MailboxJob]
    /\ journal \subseteq [job: Jobs, ver: Versions, actor: Actors,
                          via: {"queue", "http"}]
    /\ dispatched \subseteq Jobs \X Versions
    /\ lease \in [Jobs -> [Versions -> [state: {"NONE", "ACTIVE", "COMPLETED"},
                                        fence: Nat, expires: Time]]]
    /\ queue \subseteq Message
    /\ cron \in [pc: {"idle", "publish", "mark"}, batch: SUBSET Dispatch,
                 cur: Dispatch \cup {NoMessage}]
    /\ work \in [Workers ->
          [pc: {"idle", "claim", "examine", "reclaim", "classify", "replay", "load",
                "call", "write", "complete"},
           via: {"none", "queue", "http"}, msg: Message \cup Dispatch \cup {NoMessage},
           now: 0..MaxClock, fence: Nat]]

\* Duplicate deliveries, takeovers and runs by hand never give one version of a
\* job two results, and the row counts the results: each moved the version by
\* three and used up one of the job's attempts.
OneResultPerVersion ==
    \A j \in Jobs :
        LET rows == {r \in journal : r.job = j}
        IN  /\ \A r, s \in rows : r.ver = s.ver => r = s
            /\ job[j].attempt = Cardinality(rows)
            /\ job[j].version = VersionAfter(job[j].attempt)
            /\ job[j].attempt <= MaxAttempts

\* A lease is completed only for a version whose result is in the journal: a
\* consumer that failed never closes the execution of a job still to be run.
CompletedHasResult ==
    \A j \in Jobs : \A v \in Versions :
        lease[j][v].state = "COMPLETED" =>
            \E r \in journal : r.job = j /\ r.ver = v

\* Consumers that hold an execution of the same version.
Holding(w) ==
    /\ work[w].via = "queue"
    /\ work[w].pc \in {"replay", "load", "call", "write", "complete"}

\* Two consumers work on one version of a job only when the lease of the one
\* with the lower fence has run out.
LeaseExcludes ==
    \A w, x \in Workers :
        w # x /\ Holding(w) /\ Holding(x) /\ Job(w) = Job(x) /\ Ver(w) = Ver(x) =>
            /\ work[w].fence # work[x].fence
            /\ work[w].fence < work[x].fence =>
                  Later(work[w].now, Lease) <= clock

\* A job that D1 shows as waiting to run is eventually run to an outcome, unless
\* its binding stops being executable.
EveryJobSettles ==
    \A j \in Jobs :
        job[j].status \in Pending ~> (job[j].status \in Settled \/ ~Executable)

=============================================================================
