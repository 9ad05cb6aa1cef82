---------------------------- MODULE MailboxProofs ----------------------------
(***************************************************************************)
(* For any number of jobs, consumers, owners, attempts and retries of the  *)
(* queue: a version of a mailbox job has one result, a completed execution *)
(* has its result, and two consumers hold one execution only when the      *)
(* lease of the earlier one has run out.  And for any number of requests,  *)
(* bodies and attempts: an outbound mail is sent at most once, and what    *)
(* its callers are told stays true.                                        *)
(*                                                                         *)
(* The two halves share no state; the second begins at IdleIsCall.         *)
(***************************************************************************)
EXTENDS MailboxJobs, OutboundMail, FiniteSetTheorems, TLAPS

\* A consumer in process carries a message of the queue, a request a dispatch
\* of its own, and neither has read a time that is still to come.
CallsTyped ==
    /\ \A w \in Workers :
          /\ work[w].pc # "idle" => work[w].msg \in Message \cup Dispatch
          /\ work[w].pc # "idle" => work[w].via # "none"
          /\ work[w].via = "queue" => work[w].msg \in Message
          /\ work[w].pc \in {"claim", "examine", "reclaim", "classify", "complete"}
                => work[w].via = "queue"
          /\ work[w].now <= clock
    /\ cron.pc # "idle" => cron.batch \subseteq Dispatch
    /\ cron.pc = "mark" => cron.cur \in Dispatch

\* The result of a version was written while the job was at that version, and
\* moved it on.
ResultsPassed ==
    /\ IsFiniteSet(journal)
    /\ \A r \in journal : r.ver < job[r.job].version

\* A consumer completes an execution only after its result was written.
CompletingHaveResults ==
    \A w \in Workers :
        work[w].pc = "complete" =>
            \E r \in journal : r.job = Job(w) /\ r.ver = Ver(w)

\* What a holder was granted against the lease as it is now: the current
\* fence goes with the current deadline, an earlier one with a deadline that has
\* passed.
HoldersFenced ==
    \A w \in Workers : Holding(w) =>
        LET row == lease[Job(w)][Ver(w)]
        IN  /\ row.state # "NONE"
            /\ work[w].fence <= row.fence
            /\ work[w].fence = row.fence => row.expires = Later(work[w].now, Lease)
            /\ work[w].fence < row.fence => Later(work[w].now, Lease) <= clock

IInv ==
    /\ TypeOK
    /\ CallsTyped
    /\ ResultsPassed
    /\ OneResultPerVersion
    /\ CompletingHaveResults
    /\ CompletedHasResult
    /\ HoldersFenced
    /\ LeaseExcludes

-----------------------------------------------------------------------------
(* The operators of the model *)

\* A deadline is a time, whatever the delay.
LEMMA LaterIsTime ==
  ASSUME NEW t \in Time, NEW d \in Nat
  PROVE  Later(t, d) \in Time
  BY MailboxAssumption DEF Later, Lower, Time

\* The policy's delay before a retry is a time.
LEMMA RetryAtIsTime ==
  ASSUME NEW t \in Time, NEW n \in 1 .. MaxAttempts, NEW hinted \in BOOLEAN
  PROVE  RetryAt(t, n, hinted) \in Time
  <1> DEFINE k == Lower(n - 1, 5)
             policy == Lower(RetryBase * 2^k, RetryMax)
  <1>1. k \in 0 .. 5
    BY MailboxAssumption DEF Lower
  <1>2. 2^k \in Nat
    <2>1. k = 0 \/ k = 1 \/ k = 2 \/ k = 3 \/ k = 4 \/ k = 5
      BY <1>1
    <2>2. /\ 2^0 \in Nat /\ 2^1 \in Nat /\ 2^2 \in Nat /\ 2^3 \in Nat
          /\ 2^4 \in Nat /\ 2^5 \in Nat
      OBVIOUS
    <2> HIDE DEF k
    <2> QED
      BY <2>1, <2>2
  <1>3. RetryBase * 2^k \in Nat
    <2> DEFINE m == 2^k
    <2>1. m \in Nat
      BY <1>2
    <2> HIDE DEF m
    <2>2. RetryBase * m \in Nat
      BY <2>1, MailboxAssumption
    <2> QED
      BY <2>2 DEF m
  <1>4. policy \in Nat
    <2> DEFINE m == RetryBase * 2^k
    <2>1. m \in Nat
      BY <1>3
    <2> HIDE DEF m
    <2>2. Lower(m, RetryMax) \in Nat
      BY <2>1, MailboxAssumption DEF Lower
    <2> QED
      BY <2>2 DEF m
  <1>5. RetryAt(t, n, hinted)
          = Later(t, IF hinted THEN Lower(Higher(RetryMax, policy), RetryMax)
                     ELSE policy)
    BY DEF RetryAt
  <1> HIDE DEF policy
  <1>6. (IF hinted THEN Lower(Higher(RetryMax, policy), RetryMax) ELSE policy) \in Nat
    BY <1>4, MailboxAssumption DEF Lower, Higher
  <1> QED
    BY <1>5, <1>6, LaterIsTime

\* The versions a job can have.
LEMMA VersionFacts ==
  /\ Versions \subseteq Nat
  /\ \A n \in 0 .. MaxAttempts : VersionAfter(n) \in Versions
  BY MailboxAssumption DEF Versions, VersionAfter

\* A requeued message is a message, later by one retry.
LEMMA RequeuedTyped ==
  ASSUME queue \subseteq Message, NEW m \in Message, NEW at \in Time
  PROVE  Requeued(m, at) \subseteq Message
  <1>1. CASE m \notin queue
    BY <1>1 DEF Requeued
  <1>2. CASE m \in queue /\ m.tries >= QueueRetries
    BY <1>2 DEF Requeued
  <1>3. CASE m \in queue /\ ~(m.tries >= QueueRetries)
    <2>1. m.tries \in 0 .. QueueRetries /\ m.tries + 1 \in 0 .. QueueRetries
      BY <1>3, MailboxAssumption DEF Message
    <2>2. [m EXCEPT !.at = at, !.tries = m.tries + 1] \in Message
      BY <2>1 DEF Message
    <2> QED
      BY <1>3, <2>2 DEF Requeued
  <1> QED
    BY <1>1, <1>2, <1>3

-----------------------------------------------------------------------------
(* Types *)

Places == {"idle", "claim", "examine", "reclaim", "classify", "replay", "load",
           "call", "write", "complete"}

Calls == [pc: Places, via: {"none", "queue", "http"},
          msg: Message \cup Dispatch \cup {NoMessage}, now: 0..MaxClock, fence: Nat]

\* What a call in process carries: the first part of CallsTyped for one of them.
CallOK(c, t) ==
    /\ c.pc # "idle" => c.msg \in Message \cup Dispatch
    /\ c.pc # "idle" => c.via # "none"
    /\ c.via = "queue" => c.msg \in Message
    /\ c.pc \in {"claim", "examine", "reclaim", "classify", "complete"}
          => c.via = "queue"
    /\ c.now <= t

\* A worker at rest is well-formed.
LEMMA IdleTyped == Idle \in Calls /\ \A t \in Nat : CallOK(Idle, t)
  BY MailboxAssumption DEF Idle, Calls, Places, CallOK

\* The types of a worker in process.
LEMMA WorkerFacts ==
  ASSUME TypeOK, CallsTyped, NEW w \in Workers
  PROVE  /\ work[w] \in Calls /\ CallOK(work[w], clock)
         /\ work[w].pc # "idle" => /\ Job(w) \in Jobs /\ Ver(w) \in Versions
                                   /\ work[w].msg.actor \in Actors
         /\ work[w].now \in Time /\ clock \in Time
  <1>1. work[w] \in Calls /\ clock \in Time
    BY DEF TypeOK, Calls, Places, Time
  <1>2. CallOK(work[w], clock)
    BY DEF CallsTyped, CallOK
  <1>3. work[w].now \in Time
    BY <1>1 DEF Calls, Time
  <1>4. ASSUME work[w].pc # "idle"
        PROVE  Job(w) \in Jobs /\ Ver(w) \in Versions /\ work[w].msg.actor \in Actors
    BY <1>4, <1>2 DEF CallOK, Message, Dispatch, Job, Ver
  <1> QED
    BY <1>1, <1>2, <1>3, <1>4

\* A step that changes one worker into a well-formed one keeps the types of all.
LEMMA OneWorkerTyped ==
  ASSUME TypeOK, CallsTyped, NEW w \in Workers, NEW c \in Calls, CallOK(c, clock),
         work' = [work EXCEPT ![w] = c], clock' = clock, cron' = cron
  PROVE  work' \in [Workers -> Calls] /\ CallsTyped'
  <1>1. work \in [Workers -> Calls]
    BY DEF TypeOK, Calls, Places
  <1>2. work' \in [Workers -> Calls]
    BY <1>1
  <1>3. \A x \in Workers : CallOK(work'[x], clock')
    <2> TAKE x \in Workers
    <2>1. CASE x = w
      BY <1>1, <2>1
    <2>2. CASE x # w
      BY <1>1, <2>2 DEF CallsTyped, CallOK
    <2> QED
      BY <2>1, <2>2
  <1> QED
    BY <1>2, <1>3 DEF CallsTyped, CallOK

\* Going on to another place.
LEMMA GoTyped ==
  ASSUME TypeOK, CallsTyped, NEW w \in Workers, NEW p \in Places \ {"idle"},
         work[w].pc # "idle",
         p \in {"claim", "examine", "reclaim", "classify", "complete"}
            => work[w].via = "queue",
         Go(w, p), clock' = clock, cron' = cron
  PROVE  work' \in [Workers -> Calls] /\ CallsTyped' /\ queue' \subseteq Message
  <1> DEFINE c == [work[w] EXCEPT !.pc = p]
  <1>1. work[w] \in Calls /\ CallOK(work[w], clock)
    BY WorkerFacts
  <1>2. c \in Calls /\ CallOK(c, clock)
    BY <1>1 DEF Calls, CallOK
  <1>3. work' = [work EXCEPT ![w] = c]
    BY DEF Go
  <1> HIDE DEF c
  <1>4. work' \in [Workers -> Calls] /\ CallsTyped'
    BY <1>2, <1>3, OneWorkerTyped
  <1> QED
    BY <1>4 DEF Go, TypeOK

\* Ending a consumer or a request.
LEMMA EndTyped ==
  ASSUME TypeOK, CallsTyped, NEW w \in Workers, NEW at \in Time,
         Ack(w) \/ Retry(w, at), clock' = clock, cron' = cron
  PROVE  work' \in [Workers -> Calls] /\ CallsTyped' /\ queue' \subseteq Message
  <1>1. work' = [work EXCEPT ![w] = Idle]
    BY DEF Ack, Retry
  <1>2. clock \in Nat
    BY MailboxAssumption DEF TypeOK
  <1>3. work' \in [Workers -> Calls] /\ CallsTyped'
    BY <1>1, <1>2, IdleTyped, OneWorkerTyped
  <1>4. queue' \subseteq Message
    <2>1. CASE Ack(w)
      BY <2>1 DEF Ack, TypeOK
    <2>2. CASE Retry(w, at) /\ work[w].via = "queue"
      <3>1. work[w].msg \in Message
        BY <2>2 DEF CallsTyped
      <3>2. queue' = Requeued(work[w].msg, at) /\ queue \subseteq Message
        BY <2>2 DEF Retry, TypeOK
      <3> QED
        BY <3>1, <3>2, RequeuedTyped
    <2>3. CASE Retry(w, at) /\ work[w].via # "queue"
      BY <2>3 DEF Retry, TypeOK
    <2> QED
      BY <2>1, <2>2, <2>3
  <1> QED
    BY <1>3, <1>4

\* A step of a worker keeps the types when it keeps those of the rows it writes.
LEMMA WorkerTyped ==
  ASSUME TypeOK, CallsTyped, work' \in [Workers -> Calls], CallsTyped',
         queue' \subseteq Message,
         UNCHANGED <<clock, owner, transfers, dispatched, cron>>,
         faults' \in 0..MaxFaults,
         binding' \in [status: {"ACTIVE", "REVOKED"},
                       exec: {"ACTIVE", "AUTH_REQUIRED", "SUSPENDED"}],
         job' \in [Jobs -> MailboxJob],
         journal' \subseteq [job: Jobs, ver: Versions, actor: Actors,
                             via: {"queue", "http"}],
         lease' \in [Jobs -> [Versions -> [state: {"NONE", "ACTIVE", "COMPLETED"},
                                           fence: Nat, expires: Time]]]
  PROVE  TypeOK' /\ CallsTyped'
  BY DEF TypeOK, Calls, Places

\* The same for a step that writes no row.
LEMMA ReaderTyped ==
  ASSUME TypeOK, CallsTyped, work' \in [Workers -> Calls], CallsTyped',
         queue' \subseteq Message,
         UNCHANGED <<clock, owner, transfers, dispatched, cron, binding, job, journal,
                     lease>>,
         faults' \in 0..MaxFaults
  PROVE  TypeOK' /\ CallsTyped'
  BY DEF TypeOK, Calls, Places

\* Acquiring the lease of the version in the message.
LEMMA AcquiredTyped ==
  ASSUME TypeOK, CallsTyped, NEW w \in Workers, NEW f \in Nat,
         work[w].pc \in {"claim", "reclaim"}, Acquired(w, f),
         UNCHANGED <<clock, owner, transfers, dispatched, cron, binding, job, journal,
                     faults>>
  PROVE  TypeOK' /\ CallsTyped'
  <1> DEFINE c == [work[w] EXCEPT !.pc = "replay", !.fence = f]
  <1>1. /\ work[w] \in Calls /\ CallOK(work[w], clock)
        /\ Job(w) \in Jobs /\ Ver(w) \in Versions /\ work[w].now \in Time
    BY WorkerFacts
  <1>2. c \in Calls /\ CallOK(c, clock)
    BY <1>1 DEF Calls, CallOK, Places
  <1>3. work' = [work EXCEPT ![w] = c]
    BY <1>1 DEF Acquired, TypeOK
  <1> HIDE DEF c
  <1>4. work' \in [Workers -> Calls] /\ CallsTyped'
    BY <1>2, <1>3, OneWorkerTyped
  <1>5. Later(work[w].now, Lease) \in Time
    BY <1>1, LaterIsTime, MailboxAssumption
  <1>6. [state |-> "ACTIVE", fence |-> f, expires |-> Later(work[w].now, Lease)]
          \in [state: {"NONE", "ACTIVE", "COMPLETED"}, fence: Nat, expires: Time]
    BY <1>5
  <1>7. lease' \in [Jobs -> [Versions -> [state: {"NONE", "ACTIVE", "COMPLETED"},
                                          fence: Nat, expires: Time]]]
    BY <1>1, <1>6 DEF Acquired, TypeOK
  <1>8. queue' \subseteq Message
    BY DEF Acquired, TypeOK
  <1> QED
    BY <1>4, <1>7, <1>8, WorkerTyped DEF TypeOK

\* Success is a place or an end.
LEMMA SucceededTyped ==
  ASSUME TypeOK, CallsTyped, NEW w \in Workers, work[w].pc # "idle", Succeeded(w),
         clock' = clock, cron' = cron
  PROVE  work' \in [Workers -> Calls] /\ CallsTyped' /\ queue' \subseteq Message
  <1>1. CASE work[w].via = "queue"
    BY <1>1, GoTyped DEF Succeeded, Places
  <1>2. CASE work[w].via # "queue"
    <2>1. clock \in Time
      BY WorkerFacts
    <2> QED
      BY <1>2, <2>1, EndTyped DEF Succeeded
  <1> QED
    BY <1>1, <1>2

\* The row after a run, at the next version.
LEMMA AfterRunTyped ==
  ASSUME TypeOK, OneResultPerVersion, NEW j \in Jobs, NEW t \in Time,
         NEW out \in Outcomes, job[j].attempt < MaxAttempts
  PROVE  /\ AfterRun(j, t, out) \in MailboxJob
         /\ AfterRun(j, t, out).attempt = job[j].attempt + 1
         /\ AfterRun(j, t, out).version = job[j].version + 3
         /\ AfterRun(j, t, out).version = VersionAfter(job[j].attempt + 1)
         /\ AfterRun(j, t, out).status \in {"AUTH_REQUIRED", "SUSPENDED"} \cup
                                           {"SUCCEEDED", "RETRY_PENDING", "FAILED"}
  <1> DEFINE n == job[j].attempt + 1
             a == AfterRun(j, t, out)
  <1>1. job[j] \in MailboxJob
    BY DEF TypeOK
  <1>2. n \in 1 .. MaxAttempts /\ n \in 0 .. MaxAttempts
    BY <1>1, MailboxAssumption DEF MailboxJob
  <1>3. job[j].version = VersionAfter(job[j].attempt)
    BY DEF OneResultPerVersion
  <1>4. job[j].version + 3 = VersionAfter(n)
    BY <1>1, <1>3 DEF VersionAfter, MailboxJob
  <1>5. job[j].version + 3 \in Versions
    BY <1>2, <1>4, VersionFacts
  <1>6. RetryAt(t, n, out = "hint") \in Time
    BY <1>2, RetryAtIsTime
  <1>7. a.status \in {"AUTH_REQUIRED", "SUSPENDED", "SUCCEEDED", "RETRY_PENDING", "FAILED"}
    BY DEF AfterRun
  <1>8. a.next \in Time
    BY <1>1, <1>6 DEF AfterRun, MailboxJob
  <1>9. /\ a.attempt = n /\ a.version = job[j].version + 3
        /\ a = [status |-> a.status, attempt |-> n, version |-> job[j].version + 3,
                next |-> a.next]
    BY DEF AfterRun
  <1> HIDE DEF a
  <1>10. a \in MailboxJob
    BY <1>2, <1>5, <1>7, <1>8, <1>9 DEF MailboxJob, Pending, Settled
  <1> QED
    BY <1>4, <1>7, <1>9, <1>10 DEF a

\* Taking a message or a request up.
LEMMA StartTyped ==
  ASSUME TypeOK, CallsTyped, NEW w \in Workers,
         Deliver(w) \/ DeliverTwice(w) \/ RequestRun(w)
  PROVE  TypeOK' /\ CallsTyped'
  <1>1. clock \in Time /\ clock \in 0 .. MaxClock /\ clock \in Nat
    BY MailboxAssumption DEF TypeOK, Time
  <1>2. ASSUME NEW c \in Calls, CallOK(c, clock), work' = [work EXCEPT ![w] = c],
               UNCHANGED <<clock, owner, transfers, dispatched, cron, binding, job,
                           journal, lease, queue>>,
               faults' \in 0 .. MaxFaults
        PROVE  TypeOK' /\ CallsTyped'
    <2>1. work' \in [Workers -> Calls] /\ CallsTyped'
      BY <1>2, OneWorkerTyped
    <2>2. queue' \subseteq Message
      BY <1>2 DEF TypeOK
    <2> QED
      BY <1>2, <2>1, <2>2, ReaderTyped
  <1>3. CASE Deliver(w) \/ DeliverTwice(w)
    <2>1. PICK m \in queue :
             work' = [work EXCEPT ![w] = [Idle EXCEPT !.pc = "claim", !.via = "queue",
                                                      !.msg = m, !.now = clock]]
      BY <1>3 DEF Deliver, DeliverTwice
    <2> DEFINE c == [Idle EXCEPT !.pc = "claim", !.via = "queue", !.msg = m, !.now = clock]
    <2>2. m \in Message
      BY DEF TypeOK
    <2>3. c \in Calls
      BY <1>1, <2>2, IdleTyped DEF Calls, Places
    <2>4. CallOK(c, clock)
      BY <1>1, <2>2, IdleTyped DEF Calls, CallOK
    <2>5. work' = [work EXCEPT ![w] = c]
      BY <2>1
    <2> HIDE DEF c
    <2>6. faults' \in 0 .. MaxFaults
      <3>1. faults' = faults \/ (faults < MaxFaults /\ faults' = faults + 1)
        BY <1>3 DEF Deliver, DeliverTwice
      <3> QED
        BY <3>1, MailboxAssumption DEF TypeOK
    <2> QED
      BY <1>2, <1>3, <2>3, <2>4, <2>5, <2>6 DEF Deliver, DeliverTwice
  <1>4. CASE RequestRun(w)
    <2>1. PICK j \in Jobs :
             work' = [work EXCEPT ![w] =
                        [Idle EXCEPT !.pc = "replay", !.via = "http", !.now = clock,
                             !.msg = [job |-> j, ver |-> job[j].version, actor |-> owner]]]
      BY <1>4 DEF RequestRun
    <2> DEFINE m == [job |-> j, ver |-> job[j].version, actor |-> owner]
               c == [Idle EXCEPT !.pc = "replay", !.via = "http", !.now = clock, !.msg = m]
    <2>2. m \in Dispatch
      BY DEF TypeOK, MailboxJob, Dispatch
    <2> HIDE DEF m
    <2>3. c \in Calls
      BY <1>1, <2>2, IdleTyped DEF Calls, Places
    <2>4. CallOK(c, clock)
      BY <1>1, <2>2, IdleTyped DEF Calls, CallOK
    <2>5. work' = [work EXCEPT ![w] = c]
      BY <2>1 DEF m
    <2> HIDE DEF c
    <2> QED
      BY <1>2, <1>4, <2>3, <2>4, <2>5 DEF RequestRun, TypeOK
  <1> QED
    BY <1>3, <1>4

\* The steps of a worker that write neither job nor lease.
LEMMA ReadStepTyped ==
  ASSUME TypeOK, CallsTyped, NEW w \in Workers,
         \/ ExamineLease(w) \/ ClassifyLease(w) \/ DecideReplay(w)
         \/ LoadAndStart(w) \/ CallProvider(w) \/ WorkerFails(w)
  PROVE  TypeOK' /\ CallsTyped'
  <1>1. /\ CallOK(work[w], clock) /\ clock \in Time
        /\ work[w].pc # "idle" => Job(w) \in Jobs /\ Ver(w) \in Versions
    BY WorkerFacts
  <1>2. work[w].pc # "idle" => lease[Job(w)][Ver(w)].expires \in Time
    BY <1>1 DEF TypeOK
  <1>3. Later(clock, 1) \in Time
    BY <1>1, LaterIsTime
  <1>4. faults' \in 0 .. MaxFaults
    BY MailboxAssumption
    DEF TypeOK, ExamineLease, ClassifyLease, DecideReplay, LoadAndStart, CallProvider,
        WorkerFails
  <1>5. UNCHANGED <<clock, owner, transfers, dispatched, cron, binding, job, journal,
                    lease>>
    BY DEF ExamineLease, ClassifyLease, DecideReplay, LoadAndStart, CallProvider,
           WorkerFails
  <1>6. work' \in [Workers -> Calls] /\ CallsTyped' /\ queue' \subseteq Message
    <2>1. CASE ExamineLease(w)
      <3>1. work[w].pc = "examine" /\ work[w].via = "queue"
        BY <1>1, <2>1 DEF ExamineLease, CallOK
      <3>2. Ack(w) \/ Retry(w, lease[Job(w)][Ver(w)].expires) \/ Go(w, "reclaim")
        BY <2>1 DEF ExamineLease
      <3> QED
        BY <1>1, <1>2, <1>5, <3>1, <3>2, EndTyped, GoTyped DEF Places
    <2>2. CASE ClassifyLease(w)
      <3>1. work[w].pc = "classify"
        BY <2>2 DEF ClassifyLease
      <3>2. Ack(w) \/ Retry(w, lease[Job(w)][Ver(w)].expires)
        BY <2>2 DEF ClassifyLease
      <3> QED
        BY <1>1, <1>2, <1>5, <3>1, <3>2, EndTyped
    <2>3. CASE DecideReplay(w)
      <3>1. work[w].pc = "replay"
        BY <2>3 DEF DecideReplay
      <3>2. Succeeded(w) \/ Go(w, "load")
        BY <2>3 DEF DecideReplay
      <3> QED
        BY <1>5, <3>1, <3>2, SucceededTyped, GoTyped DEF Places
    <2>4. CASE LoadAndStart(w)
      <3>1. work[w].pc = "load"
        BY <2>4 DEF LoadAndStart
      <3>2. Ack(w) \/ Go(w, "call")
        BY <2>4 DEF LoadAndStart
      <3> QED
        BY <1>1, <1>5, <3>1, <3>2, EndTyped, GoTyped DEF Places
    <2>5. CASE CallProvider(w)
      <3>1. work[w].pc = "call"
        BY <2>5 DEF CallProvider
      <3>2. Retry(w, Later(clock, 1)) \/ Go(w, "write")
        BY <2>5 DEF CallProvider
      <3> QED
        BY <1>3, <1>5, <3>1, <3>2, EndTyped, GoTyped DEF Places
    <2>6. CASE WorkerFails(w)
      BY <1>3, <1>5, <2>6, EndTyped DEF WorkerFails
    <2> QED
      BY <2>1, <2>2, <2>3, <2>4, <2>5, <2>6
  <1> QED
    BY <1>4, <1>5, <1>6, ReaderTyped

\* The statements on the lease.
LEMMA LeaseStepTyped ==
  ASSUME TypeOK, CallsTyped, NEW w \in Workers,
         InsertClaim(w) \/ ReclaimLease(w) \/ CompleteLease(w)
  PROVE  TypeOK' /\ CallsTyped'
  <1>1. /\ CallOK(work[w], clock) /\ clock \in Time
        /\ Job(w) \in Jobs /\ Ver(w) \in Versions
    BY WorkerFacts DEF InsertClaim, ReclaimLease, CompleteLease
  <1>2. lease[Job(w)][Ver(w)].fence \in Nat
    BY <1>1 DEF TypeOK
  <1>3. ASSUME NEW p \in Places \ {"idle"}, work[w].pc \in {"claim", "reclaim"},
               Go(w, p),
               UNCHANGED <<clock, owner, transfers, dispatched, cron, binding, job,
                           journal, lease, faults>>
        PROVE  TypeOK' /\ CallsTyped'
    <2>1. work[w].via = "queue"
      BY <1>1, <1>3 DEF CallOK
    <2>2. work' \in [Workers -> Calls] /\ CallsTyped' /\ queue' \subseteq Message
      BY <1>3, <2>1, GoTyped
    <2> QED
      BY <1>3, <2>2, ReaderTyped DEF TypeOK
  <1>4. CASE InsertClaim(w)
    <2>1. CASE Acquired(w, 1)
      BY <1>4, <2>1, AcquiredTyped DEF InsertClaim
    <2>2. CASE Go(w, "examine") /\ UNCHANGED lease
      BY <1>3, <1>4, <2>2 DEF InsertClaim, Places
    <2> QED
      BY <1>4, <2>1, <2>2 DEF InsertClaim
  <1>5. CASE ReclaimLease(w)
    <2>1. CASE Acquired(w, lease[Job(w)][Ver(w)].fence + 1)
      <3>1. lease[Job(w)][Ver(w)].fence + 1 \in Nat
        BY <1>2
      <3> QED
        BY <1>5, <2>1, <3>1, AcquiredTyped DEF ReclaimLease
    <2>2. CASE Go(w, "classify") /\ UNCHANGED lease
      BY <1>3, <1>5, <2>2 DEF ReclaimLease, Places
    <2> QED
      BY <1>5, <2>1, <2>2 DEF ReclaimLease
  <1>6. CASE CompleteLease(w)
    <2>1. work' \in [Workers -> Calls] /\ CallsTyped' /\ queue' \subseteq Message
      BY <1>1, <1>6, EndTyped DEF CompleteLease
    <2>2. lease' \in [Jobs -> [Versions -> [state: {"NONE", "ACTIVE", "COMPLETED"},
                                            fence: Nat, expires: Time]]]
      <3> DEFINE Row == [state: {"NONE", "ACTIVE", "COMPLETED"}, fence: Nat, expires: Time]
                 new == [lease[Job(w)][Ver(w)] EXCEPT !.state = "COMPLETED"]
      <3>1. lease \in [Jobs -> [Versions -> Row]]
        BY DEF TypeOK
      <3>2. lease[Job(w)][Ver(w)] \in Row
        BY <1>1, <3>1
      <3>3. new \in Row
        BY <3>2
      <3>4. \/ lease' = lease
            \/ lease' = [lease EXCEPT ![Job(w)][Ver(w)] = new]
        BY <1>6 DEF CompleteLease
      <3> HIDE DEF Row, new
      <3>5. lease' \in [Jobs -> [Versions -> Row]]
        BY <1>1, <3>1, <3>3, <3>4
      <3> QED
        BY <3>5 DEF Row
    <2> QED
      BY <1>6, <2>1, <2>2, WorkerTyped DEF CompleteLease, TypeOK
  <1> QED
    BY <1>4, <1>5, <1>6

\* The write of a run.
LEMMA RunTyped ==
  ASSUME TypeOK, CallsTyped, OneResultPerVersion, NEW w \in Workers,
         NEW out \in Outcomes, WriteRun(w, out)
  PROVE  TypeOK' /\ CallsTyped'
  <1>1. /\ CallOK(work[w], clock) /\ clock \in Time /\ work[w].pc = "write"
        /\ Job(w) \in Jobs /\ Ver(w) \in Versions /\ work[w].msg.actor \in Actors
        /\ work[w].now \in Time
    BY WorkerFacts DEF WriteRun
  <1>2. UNCHANGED <<clock, owner, transfers, dispatched, lease, cron, faults>>
    BY DEF WriteRun
  <1>3. Later(clock, 1) \in Time
    BY <1>1, LaterIsTime
  <1>4. CASE /\ Retry(w, Later(clock, 1)) \/ Ack(w)
             /\ UNCHANGED <<job, journal, binding>>
    <2>1. work' \in [Workers -> Calls] /\ CallsTyped' /\ queue' \subseteq Message
      BY <1>1, <1>2, <1>3, <1>4, EndTyped
    <2> QED
      BY <1>2, <1>4, <2>1, ReaderTyped DEF TypeOK
  <1>5. CASE /\ owner = work[w].msg.actor /\ RunAccepted(w) /\ Succeeded(w)
             /\ job' = [job EXCEPT ![Job(w)] = AfterRun(Job(w), work[w].now, out)]
             /\ journal' = journal \cup
                    {[job |-> Job(w), ver |-> Ver(w), actor |-> work[w].msg.actor,
                      via |-> work[w].via]}
             /\ binding' = [binding EXCEPT !.exec =
                              IF AfterRun(Job(w), work[w].now, out).status
                                    \in {"AUTH_REQUIRED", "SUSPENDED"}
                              THEN AfterRun(Job(w), work[w].now, out).status ELSE @]
    <2>1. work' \in [Workers -> Calls] /\ CallsTyped' /\ queue' \subseteq Message
      BY <1>1, <1>2, <1>5, SucceededTyped
    <2>2. job[Job(w)].attempt < MaxAttempts
      BY <1>5 DEF RunAccepted, Runnable
    <2> DEFINE a == AfterRun(Job(w), work[w].now, out)
    <2>3. a \in MailboxJob
      BY <1>1, <2>2, AfterRunTyped
    <2>4. job' = [job EXCEPT ![Job(w)] = a]
      BY <1>5
    <2>5. binding' = [binding EXCEPT !.exec = IF a.status \in {"AUTH_REQUIRED", "SUSPENDED"}
                                              THEN a.status ELSE binding.exec]
      BY <1>5
    <2> HIDE DEF a
    <2>6. job' \in [Jobs -> MailboxJob]
      BY <1>1, <2>3, <2>4 DEF TypeOK
    <2>7. binding' \in [status: {"ACTIVE", "REVOKED"},
                        exec: {"ACTIVE", "AUTH_REQUIRED", "SUSPENDED"}]
      BY <2>5 DEF TypeOK
    <2>8. work[w].via \in {"queue", "http"}
      BY <1>1, WorkerFacts DEF CallOK, Calls
    <2>9. journal' \subseteq [job: Jobs, ver: Versions, actor: Actors,
                              via: {"queue", "http"}]
      BY <1>1, <1>5, <2>8 DEF TypeOK
    <2> QED
      BY <1>2, <2>1, <2>6, <2>7, <2>9, WorkerTyped DEF TypeOK
  <1> QED
    BY <1>4, <1>5 DEF WriteRun

\* The owner, the scheduled handler and time.
LEMMA OthersTyped ==
  ASSUME TypeOK, CallsTyped,
         \/ \E j \in Jobs : CreateJob(j)
         \/ RevokeBinding \/ TransferOwnership \/ CronStep \/ CronFails \/ Tick
  PROVE  TypeOK' /\ CallsTyped'
  <1>1. CASE \E j \in Jobs : CreateJob(j)
    <2>1. PICK j \in Jobs : CreateJob(j)
      BY <1>1
    <2>2. PICK delay \in {0, RetryBase} :
             job' = [job EXCEPT ![j].status = "SCHEDULED", ![j].next = Later(clock, delay)]
      BY <2>1 DEF CreateJob
    <2>3. Later(clock, delay) \in Time
      BY LaterIsTime, MailboxAssumption DEF TypeOK, Time
    <2>4. job' \in [Jobs -> MailboxJob]
      <3> DEFINE t == Later(clock, delay)
                 new == [job[j] EXCEPT !.status = "SCHEDULED", !.next = t]
      <3>1. job[j] \in MailboxJob /\ t \in Time
        BY <2>3 DEF TypeOK
      <3> HIDE DEF t
      <3>2. new \in MailboxJob
        BY <3>1 DEF MailboxJob, Pending
      <3>3. job' = [job EXCEPT ![j] = new]
        BY <2>2 DEF t, TypeOK
      <3> HIDE DEF new
      <3> QED
        BY <3>2, <3>3 DEF TypeOK
    <2> QED
      BY <2>1, <2>4 DEF CreateJob, TypeOK, CallsTyped
  <1>2. CASE RevokeBinding
    BY <1>2 DEF RevokeBinding, TypeOK, CallsTyped
  <1>3. CASE TransferOwnership
    BY <1>3, MailboxAssumption DEF TransferOwnership, TypeOK, CallsTyped
  <1>4. CASE CronLoad
    <2>1. DueDispatches \subseteq Dispatch
      <3>1. \A j \in Jobs : [job |-> j, ver |-> job[j].version, actor |-> owner] \in Dispatch
        BY DEF Dispatch, TypeOK, MailboxJob
      <3> QED
        BY <3>1 DEF DueDispatches
    <2>2. cron' = [pc |-> "publish", batch |-> DueDispatches, cur |-> NoMessage]
      BY <1>4 DEF CronLoad
    <2> QED
      BY <1>4, <2>1, <2>2 DEF CronLoad, TypeOK, CallsTyped
  <1>5. CASE CronPublish
    <2>1. PICK d \in cron.batch :
             /\ queue' = queue \cup {[job |-> d.job, ver |-> d.ver, actor |-> d.actor,
                                      at |-> clock, tries |-> 0]}
             /\ cron' = [pc |-> "mark", batch |-> cron.batch \ {d}, cur |-> d]
      BY <1>5 DEF CronPublish
    <2>2. d \in Dispatch /\ cron.batch \subseteq Dispatch
      BY DEF TypeOK
    <2>3. [job |-> d.job, ver |-> d.ver, actor |-> d.actor, at |-> clock, tries |-> 0]
            \in Message
      BY <2>2, MailboxAssumption DEF Dispatch, Message, TypeOK, Time
    <2> QED
      BY <1>5, <2>1, <2>2, <2>3 DEF CronPublish, TypeOK, CallsTyped
  <1>6. CASE CronMark
    <2>1. cron.cur \in Dispatch
      BY <1>6 DEF CronMark, CallsTyped
    <2>2. dispatched' \subseteq Jobs \X Versions
      BY <1>6, <2>1 DEF CronMark, TypeOK, Dispatch
    <2>3. /\ cron' \in [pc: {"idle", "publish", "mark"}, batch: SUBSET Dispatch,
                        cur: Dispatch \cup {NoMessage}]
          /\ cron'.pc # "mark"
      BY <1>6 DEF CronMark, TypeOK, QuietCron
    <2> QED
      BY <1>6, <2>2, <2>3 DEF CronMark, TypeOK, CallsTyped
  <1>7. CASE CronFails
    BY <1>7, MailboxAssumption DEF CronFails, TypeOK, CallsTyped, QuietCron
  <1>8. CASE Tick
    BY <1>8, MailboxAssumption DEF Tick, TypeOK, CallsTyped
  <1> QED
    BY <1>1, <1>2, <1>3, <1>4, <1>5, <1>6, <1>7, <1>8 DEF CronStep

-----------------------------------------------------------------------------
(* The invariant *)

\* A step that writes no result and no lease, and by which nobody comes to hold
\* an execution, keeps the invariant.
LEMMA QuietStep ==
  ASSUME IInv, TypeOK', CallsTyped', UNCHANGED <<journal, lease>>,
         \A j \in Jobs : job'[j].attempt = job[j].attempt
                        /\ job'[j].version = job[j].version,
         clock <= clock',
         \A x \in Workers : Holding(x)' => /\ Holding(x)
                                          /\ work'[x].msg = work[x].msg
                                          /\ work'[x].now = work[x].now
                                          /\ work'[x].fence = work[x].fence,
         \A x \in Workers : work'[x].pc = "complete" =>
            \E r \in journal : r.job = Job(x)' /\ r.ver = Ver(x)'
  PROVE  IInv'
  <1>1. ResultsPassed'
    BY DEF IInv, ResultsPassed, TypeOK
  <1>2. OneResultPerVersion'
    BY DEF IInv, OneResultPerVersion
  <1>3. CompletingHaveResults'
    BY DEF CompletingHaveResults
  <1>4. CompletedHasResult'
    BY DEF IInv, CompletedHasResult
  <1>5. HoldersFenced'
    <2> SUFFICES ASSUME NEW x \in Workers, Holding(x)'
                 PROVE  LET row == lease[Job(x)'][Ver(x)'] IN
                        /\ row.state # "NONE"
                        /\ work'[x].fence <= row.fence
                        /\ work'[x].fence = row.fence
                              => row.expires = Later(work'[x].now, Lease)
                        /\ work'[x].fence < row.fence
                              => Later(work'[x].now, Lease) <= clock'
      BY DEF HoldersFenced, Later, Lower
    <2>1. Holding(x) /\ Job(x)' = Job(x) /\ Ver(x)' = Ver(x)
          /\ work'[x].now = work[x].now /\ work'[x].fence = work[x].fence
      BY DEF Job, Ver
    <2>2. work[x].now \in Time /\ clock \in Nat /\ clock' \in Nat
      BY MailboxAssumption DEF IInv, TypeOK, Time
    <2>3. Later(work[x].now, Lease) \in Nat
      <3>1. Later(work[x].now, Lease) \in Time
        BY <2>2, LaterIsTime, MailboxAssumption
      <3> QED
        BY <3>1, MailboxAssumption DEF Time
    <2> QED
      BY <2>1, <2>2, <2>3 DEF IInv, HoldersFenced
  <1>6. LeaseExcludes'
    <2> SUFFICES ASSUME NEW w \in Workers, NEW x \in Workers, w # x,
                        Holding(w)', Holding(x)', Job(w)' = Job(x)', Ver(w)' = Ver(x)'
                 PROVE  /\ work'[w].fence # work'[x].fence
                        /\ work'[w].fence < work'[x].fence =>
                              Later(work'[w].now, Lease) <= clock'
      BY DEF LeaseExcludes, Later, Lower
    <2>1. /\ Holding(w) /\ Job(w)' = Job(w) /\ Ver(w)' = Ver(w)
          /\ work'[w].now = work[w].now /\ work'[w].fence = work[w].fence
          /\ Holding(x) /\ Job(x)' = Job(x) /\ Ver(x)' = Ver(x)
          /\ work'[x].fence = work[x].fence
          /\ Job(w) = Job(x) /\ Ver(w) = Ver(x)
      BY DEF Job, Ver
    <2>2. work[w].now \in Time /\ clock \in Nat /\ clock' \in Nat
      BY MailboxAssumption DEF IInv, TypeOK, Time
    <2>3. Later(work[w].now, Lease) \in Nat
      <3>1. Later(work[w].now, Lease) \in Time
        BY <2>2, LaterIsTime, MailboxAssumption
      <3> QED
        BY <3>1, MailboxAssumption DEF Time
    <2>4. /\ work[w].fence # work[x].fence
          /\ work[w].fence < work[x].fence => Later(work[w].now, Lease) <= clock
      BY <2>1 DEF IInv, LeaseExcludes
    <2> QED
      BY <2>1, <2>2, <2>3, <2>4
  <1> QED
    BY <1>1, <1>2, <1>3, <1>4, <1>5, <1>6 DEF IInv

\* The same for a step of one worker, which ends or goes on.
LEMMA QuietWorker ==
  ASSUME IInv, TypeOK', CallsTyped', NEW w \in Workers,
         UNCHANGED <<job, journal, lease, clock>>,
         \/ work' = [work EXCEPT ![w] = Idle]
         \/ \E p \in Places :
               /\ work' = [work EXCEPT ![w].pc = p]
               /\ p = "complete" => \E r \in journal : r.job = Job(w) /\ r.ver = Ver(w)
               /\ p \in {"replay", "load", "call", "write", "complete"} =>
                     work[w].pc \in {"replay", "load", "call", "write", "complete"}
  PROVE  IInv'
  <1>1. work \in [Workers -> Calls] /\ clock \in Nat
    BY MailboxAssumption DEF IInv, TypeOK, Calls, Places
  <1>2. \A x \in Workers : Holding(x)' => /\ Holding(x)
                                         /\ work'[x].msg = work[x].msg
                                         /\ work'[x].now = work[x].now
                                         /\ work'[x].fence = work[x].fence
    BY <1>1 DEF Holding, Idle, Calls
  <1>3. ASSUME NEW x \in Workers, work'[x].pc = "complete"
        PROVE  \E r \in journal : r.job = Job(x)' /\ r.ver = Ver(x)'
    <2>1. CASE x # w
      BY <1>1, <1>3, <2>1 DEF IInv, CompletingHaveResults, Job, Ver
    <2>2. CASE x = w
      <3>1. work' # [work EXCEPT ![w] = Idle]
        BY <1>1, <1>3, <2>2 DEF Idle
      <3>2. PICK p \in Places :
               /\ work' = [work EXCEPT ![w].pc = p]
               /\ p = "complete" => \E r \in journal : r.job = Job(w) /\ r.ver = Ver(w)
        BY <3>1
      <3>3. p = "complete" /\ work'[w].msg = work[w].msg
        BY <1>1, <1>3, <2>2, <3>2 DEF Calls
      <3> QED
        BY <2>2, <3>2, <3>3 DEF Job, Ver
    <2> QED
      BY <2>1, <2>2
  <1> QED
    BY <1>1, <1>2, <1>3, QuietStep

\* A new lease, on a version that has none or whose lease has run out for the
\* consumer that takes it over: every other holder is behind it.
LEMMA AcquiredStep ==
  ASSUME IInv, TypeOK', CallsTyped', NEW w \in Workers, NEW f \in Nat,
         work[w].pc \in {"claim", "reclaim"}, Acquired(w, f),
         \/ lease[Job(w)][Ver(w)].state = "NONE"
         \/ LeaseLapsed(w) /\ f = lease[Job(w)][Ver(w)].fence + 1,
         UNCHANGED <<job, journal, clock>>
  PROVE  IInv'
  <1> DEFINE J == Job(w)
             V == Ver(w)
             t == Later(work[w].now, Lease)
             new == [state |-> "ACTIVE", fence |-> f, expires |-> t]
  <1>1. /\ work[w] \in Calls /\ J \in Jobs /\ V \in Versions
        /\ work[w].now \in Time /\ CallOK(work[w], clock)
    BY WorkerFacts DEF IInv
  <1>2. work \in [Workers -> Calls] /\ clock \in Nat
    BY MailboxAssumption DEF IInv, TypeOK, Calls, Places
  <1>3. lease' = [lease EXCEPT ![J][V] = new]
    BY DEF Acquired
  <1>4. /\ lease'[J][V] = new
        /\ \A j \in Jobs, v \in Versions : j # J \/ v # V => lease'[j][v] = lease[j][v]
    BY <1>1, <1>3 DEF IInv, TypeOK
  <1>5. /\ work'[w].pc = "replay" /\ work'[w].fence = f
        /\ work'[w].msg = work[w].msg /\ work'[w].now = work[w].now
        /\ work'[w].via = work[w].via
        /\ \A x \in Workers : x # w => work'[x] = work[x]
    BY <1>2 DEF Acquired, Calls
  <1>6. /\ Job(w)' = J /\ Ver(w)' = V
        /\ \A x \in Workers : x # w => Job(x)' = Job(x) /\ Ver(x)' = Ver(x)
                                     /\ (Holding(x)' <=> Holding(x))
    BY <1>5 DEF Job, Ver, Holding
  <1>7. new.state = "ACTIVE" /\ new.fence = f /\ new.expires = t
    OBVIOUS
  <1> HIDE DEF J, V, new
  <1>8. ASSUME NEW x \in Workers, x # w, Holding(x)', Job(x)' = J, Ver(x)' = V
        PROVE  work'[x].fence < f /\ Later(work'[x].now, Lease) <= clock'
    <2>1. Holding(x) /\ Job(x) = J /\ Ver(x) = V /\ work'[x] = work[x]
      BY <1>5, <1>6, <1>8
    <2> DEFINE row == lease[J][V]
    <2>2. /\ row.state # "NONE"
          /\ work[x].fence <= row.fence
          /\ work[x].fence = row.fence => row.expires = Later(work[x].now, Lease)
          /\ work[x].fence < row.fence => Later(work[x].now, Lease) <= clock
      BY <2>1 DEF IInv, HoldersFenced
    <2>3. row.expires <= work[w].now /\ f = row.fence + 1
      BY <2>2 DEF LeaseLapsed, J, V
    <2>4. row.fence \in Nat /\ row.expires \in Nat /\ work[x].fence \in Nat
      BY <1>1, MailboxAssumption DEF IInv, TypeOK, Time
    <2>5. work[w].now <= clock /\ work[w].now \in Nat
      BY <1>1, MailboxAssumption DEF CallOK, Time
    <2>6. Later(work[x].now, Lease) <= clock
      BY <1>2, <2>2, <2>3, <2>4, <2>5
    <2> QED
      BY <2>1, <2>2, <2>3, <2>4, <2>6
  <1>9. HoldersFenced'
    <2> SUFFICES ASSUME NEW x \in Workers, Holding(x)'
                 PROVE  LET row == lease'[Job(x)'][Ver(x)'] IN
                        /\ row.state # "NONE"
                        /\ work'[x].fence <= row.fence
                        /\ work'[x].fence = row.fence
                              => row.expires = Later(work'[x].now, Lease)
                        /\ work'[x].fence < row.fence
                              => Later(work'[x].now, Lease) <= clock'
      BY DEF HoldersFenced, Later, Lower
    <2>1. CASE x = w
      BY <1>4, <1>5, <1>6, <1>7, <2>1
    <2>2. CASE x # w /\ Job(x)' = J /\ Ver(x)' = V
      <3>1. work'[x].fence < f /\ Later(work'[x].now, Lease) <= clock'
        BY <1>8, <2>2
      <3>2. work'[x].fence \in Nat
        BY DEF TypeOK
      <3> QED
        BY <1>4, <1>7, <2>2, <3>1, <3>2
    <2>3. CASE x # w /\ ~(Job(x)' = J /\ Ver(x)' = V)
      <3>1. Holding(x) /\ Job(x)' = Job(x) /\ Ver(x)' = Ver(x) /\ work'[x] = work[x]
        BY <1>5, <1>6, <2>3
      <3>2. Job(x) \in Jobs /\ Ver(x) \in Versions
        BY <3>1, WorkerFacts DEF IInv, Holding
      <3>3. lease'[Job(x)'][Ver(x)'] = lease[Job(x)][Ver(x)]
        BY <1>4, <2>3, <3>1, <3>2
      <3> QED
        BY <3>1, <3>3 DEF IInv, HoldersFenced
    <2> QED
      BY <2>1, <2>2, <2>3
  <1>10. LeaseExcludes'
    <2> SUFFICES ASSUME NEW x \in Workers, NEW y \in Workers, x # y,
                        Holding(x)', Holding(y)', Job(x)' = Job(y)', Ver(x)' = Ver(y)'
                 PROVE  /\ work'[x].fence # work'[y].fence
                        /\ work'[x].fence < work'[y].fence =>
                              Later(work'[x].now, Lease) <= clock'
      BY DEF LeaseExcludes, Later, Lower
    <2>1. work'[x].fence \in Nat /\ work'[y].fence \in Nat
      BY DEF TypeOK
    <2>2. CASE x = w
      <3>1. work'[y].fence < f
        BY <1>6, <1>8, <2>2
      <3> QED
        BY <1>5, <2>1, <2>2, <3>1
    <2>3. CASE y = w
      <3>1. work'[x].fence < f /\ Later(work'[x].now, Lease) <= clock'
        BY <1>6, <1>8, <2>3
      <3> QED
        BY <1>5, <2>1, <2>3, <3>1
    <2>4. CASE x # w /\ y # w
      <3>1. /\ Holding(x) /\ Holding(y) /\ work'[x] = work[x] /\ work'[y] = work[y]
            /\ Job(x) = Job(y) /\ Ver(x) = Ver(y)
        BY <1>5, <1>6, <2>4
      <3> QED
        BY <3>1 DEF IInv, LeaseExcludes
    <2> QED
      BY <2>2, <2>3, <2>4
  <1>11. CompletedHasResult'
    <2> SUFFICES ASSUME NEW j \in Jobs, NEW v \in Versions,
                        lease'[j][v].state = "COMPLETED"
                 PROVE  \E r \in journal : r.job = j /\ r.ver = v
      BY DEF CompletedHasResult
    <2>1. lease'[j][v] = lease[j][v]
      BY <1>4, <1>7
    <2> QED
      BY <2>1 DEF IInv, CompletedHasResult
  <1>12. CompletingHaveResults'
    BY <1>5, <1>6 DEF IInv, CompletingHaveResults
  <1>13. ResultsPassed' /\ OneResultPerVersion'
    BY DEF IInv, ResultsPassed, OneResultPerVersion
  <1> QED
    BY <1>9, <1>10, <1>11, <1>12, <1>13 DEF IInv

\* The completion of a lease, by a consumer whose result is written.
LEMMA CompletedStep ==
  ASSUME IInv, TypeOK', CallsTyped', NEW w \in Workers, CompleteLease(w)
  PROVE  IInv'
  <1> DEFINE J == Job(w)
             V == Ver(w)
             new == [lease[J][V] EXCEPT !.state = "COMPLETED"]
  <1>1. J \in Jobs /\ V \in Versions /\ work[w].pc = "complete"
    BY WorkerFacts DEF IInv, CompleteLease
  <1>2. work \in [Workers -> Calls] /\ clock \in Nat
    BY MailboxAssumption DEF IInv, TypeOK, Calls, Places
  <1>3. \/ lease' = lease
        \/ lease' = [lease EXCEPT ![J][V] = new]
    BY DEF CompleteLease
  <1>4. /\ lease[J][V] \in [state: {"NONE", "ACTIVE", "COMPLETED"}, fence: Nat,
                            expires: Time]
        /\ lease \in [Jobs -> [Versions -> [state: {"NONE", "ACTIVE", "COMPLETED"},
                                            fence: Nat, expires: Time]]]
    BY <1>1 DEF IInv, TypeOK
  <1>5. /\ new.state = "COMPLETED" /\ new.fence = lease[J][V].fence
        /\ new.expires = lease[J][V].expires
    BY <1>4
  <1> HIDE DEF new, J, V
  <1>6. \A j \in Jobs, v \in Versions :
          \/ lease'[j][v] = lease[j][v]
          \/ j = J /\ v = V /\ lease'[j][v] = new
    BY <1>1, <1>3, <1>4
  <1>7. /\ work' = [work EXCEPT ![w] = Idle]
        /\ UNCHANGED <<clock, job, journal>>
    BY DEF CompleteLease, Ack
  <1>8. \A x \in Workers : Holding(x)' \/ work'[x].pc = "complete" =>
          /\ Holding(x)' => Holding(x)
          /\ work'[x] = work[x] /\ Job(x)' = Job(x) /\ Ver(x)' = Ver(x)
    BY <1>2, <1>7 DEF Holding, Job, Ver, Idle
  <1>9. HoldersFenced'
    <2> SUFFICES ASSUME NEW x \in Workers, Holding(x)'
                 PROVE  LET row == lease'[Job(x)'][Ver(x)'] IN
                        /\ row.state # "NONE"
                        /\ work'[x].fence <= row.fence
                        /\ work'[x].fence = row.fence
                              => row.expires = Later(work'[x].now, Lease)
                        /\ work'[x].fence < row.fence
                              => Later(work'[x].now, Lease) <= clock'
      BY DEF HoldersFenced, Later, Lower
    <2>1. Holding(x) /\ work'[x] = work[x] /\ Job(x)' = Job(x) /\ Ver(x)' = Ver(x)
      BY <1>8
    <2>2. Job(x) \in Jobs /\ Ver(x) \in Versions
      BY <2>1, WorkerFacts DEF IInv, Holding
    <2> DEFINE row == lease[Job(x)][Ver(x)]
               row2 == lease'[Job(x)][Ver(x)]
    <2>3. /\ row.state # "NONE"
          /\ work[x].fence <= row.fence
          /\ work[x].fence = row.fence => row.expires = Later(work[x].now, Lease)
          /\ work[x].fence < row.fence => Later(work[x].now, Lease) <= clock
      BY <2>1 DEF IInv, HoldersFenced
    <2>4. row2 = row \/ (row2.state = "COMPLETED" /\ row2.fence = row.fence
                        /\ row2.expires = row.expires)
      BY <1>5, <1>6, <2>2
    <2> HIDE DEF row, row2
    <2>5. /\ row2.state # "NONE"
          /\ work[x].fence <= row2.fence
          /\ work[x].fence = row2.fence => row2.expires = Later(work[x].now, Lease)
          /\ work[x].fence < row2.fence => Later(work[x].now, Lease) <= clock
      BY <2>3, <2>4
    <2> QED
      BY <1>7, <2>1, <2>5 DEF row2
  <1>10. LeaseExcludes'
    <2> SUFFICES ASSUME NEW x \in Workers, NEW y \in Workers, x # y,
                        Holding(x)', Holding(y)', Job(x)' = Job(y)', Ver(x)' = Ver(y)'
                 PROVE  /\ work'[x].fence # work'[y].fence
                        /\ work'[x].fence < work'[y].fence =>
                              Later(work'[x].now, Lease) <= clock'
      BY DEF LeaseExcludes, Later, Lower
    <2>1. /\ Holding(x) /\ Holding(y) /\ work'[x] = work[x] /\ work'[y] = work[y]
          /\ Job(x) = Job(y) /\ Ver(x) = Ver(y)
      BY <1>8
    <2> QED
      BY <1>7, <2>1 DEF IInv, LeaseExcludes
  <1>11. \E r \in journal : r.job = J /\ r.ver = V
    BY <1>1 DEF IInv, CompletingHaveResults, J, V
  <1>12. CompletedHasResult'
    BY <1>6, <1>7, <1>11 DEF IInv, CompletedHasResult
  <1>13. CompletingHaveResults'
    BY <1>7, <1>8 DEF IInv, CompletingHaveResults
  <1>14. ResultsPassed' /\ OneResultPerVersion'
    BY <1>7 DEF IInv, ResultsPassed, OneResultPerVersion
  <1> QED
    BY <1>9, <1>10, <1>12, <1>13, <1>14 DEF IInv

\* An accepted run adds the result of the job's current version, which has none
\* yet, and moves the job past it.
LEMMA AcceptedStep ==
  ASSUME IInv, TypeOK', CallsTyped', NEW w \in Workers, NEW out \in Outcomes,
         work[w].pc = "write", RunAccepted(w), Succeeded(w),
         job' = [job EXCEPT ![Job(w)] = AfterRun(Job(w), work[w].now, out)],
         journal' = journal \cup
            {[job |-> Job(w), ver |-> Ver(w), actor |-> work[w].msg.actor,
              via |-> work[w].via]},
         UNCHANGED <<clock, lease>>
  PROVE  IInv'
  <1> DEFINE J == Job(w)
             V == Ver(w)
             after == AfterRun(Job(w), work[w].now, out)
             row == [job |-> Job(w), ver |-> Ver(w), actor |-> work[w].msg.actor,
                     via |-> work[w].via]
  <1>1. J \in Jobs /\ V \in Versions /\ work[w].now \in Time
    BY WorkerFacts DEF IInv
  <1>2. job[J].version = V /\ job[J].attempt < MaxAttempts
    BY DEF RunAccepted, Runnable
  <1>3. after.attempt = job[J].attempt + 1 /\ after.version = job[J].version + 3
        /\ after.version = VersionAfter(job[J].attempt + 1)
    BY <1>1, <1>2, AfterRunTyped DEF IInv
  <1>4. row.job = J /\ row.ver = V
    OBVIOUS
  <1>5. journal' = journal \cup {row}
    OBVIOUS
  <1>6. job'[J] = after /\ \A j \in Jobs : j # J => job'[j] = job[j]
    BY <1>1 DEF IInv, TypeOK
  <1>7. \A j \in Jobs : job[j].version \in Nat /\ job[j].attempt \in Nat
    <2> TAKE j \in Jobs
    <2>1. job[j] \in MailboxJob
      BY DEF IInv, TypeOK
    <2>2. job[j].version \in Versions /\ job[j].attempt \in 0..MaxAttempts
      BY <2>1 DEF MailboxJob
    <2>3. MaxAttempts \in Nat
      BY MailboxAssumption
    <2>4. job[j].attempt \in Nat
      BY <2>2, <2>3
    <2> QED
      BY <2>2, <2>4, VersionFacts
  <1> HIDE DEF J, V, after, row
  <1>8. \A r \in journal : r.job \in Jobs /\ r.ver \in Nat /\ r.ver < job[r.job].version
    BY VersionFacts DEF IInv, TypeOK, ResultsPassed
  <1>9. \A r \in journal : r.job = J => r.ver # V
    BY <1>1, <1>2, <1>7, <1>8
  <1>10. ResultsPassed'
    <2>1. IsFiniteSet(journal')
      BY <1>5, FS_AddElement DEF IInv, ResultsPassed
    <2>2. ASSUME NEW r \in journal'
          PROVE  r.ver < job'[r.job].version
      <3>1. CASE r = row
        BY <1>1, <1>2, <1>3, <1>4, <1>6, <1>7, <3>1
      <3>2. CASE r \in journal
        BY <1>1, <1>3, <1>6, <1>7, <1>8, <3>2
      <3> QED
        BY <1>5, <3>1, <3>2
    <2> QED
      BY <2>1, <2>2 DEF ResultsPassed
  <1>11. OneResultPerVersion'
    <2> SUFFICES ASSUME NEW j \in Jobs
                 PROVE  LET rows == {r \in journal' : r.job = j}
                        IN  /\ \A r, q \in rows : r.ver = q.ver => r = q
                            /\ job'[j].attempt = Cardinality(rows)
                            /\ job'[j].version = VersionAfter(job'[j].attempt)
                            /\ job'[j].attempt <= MaxAttempts
      BY DEF OneResultPerVersion, VersionAfter
    <2> DEFINE old == {r \in journal : r.job = j}
               rows == {r \in journal' : r.job = j}
    <2>1. /\ \A r, q \in old : r.ver = q.ver => r = q
          /\ job[j].attempt = Cardinality(old)
          /\ job[j].version = VersionAfter(job[j].attempt)
          /\ job[j].attempt <= MaxAttempts
      BY DEF IInv, OneResultPerVersion
    <2>2. IsFiniteSet(old)
      BY FS_Subset DEF IInv, ResultsPassed
    <2>3. CASE j # J
      <3>1. rows = old
        BY <1>4, <1>5, <2>3
      <3> QED
        BY <1>6, <2>1, <2>3, <3>1
    <2>4. CASE j = J
      <3>1. rows = old \cup {row} /\ row \notin old
        BY <1>4, <1>5, <1>9, <2>4
      <3>2. Cardinality(rows) = Cardinality(old) + 1
        BY <2>2, <3>1, FS_AddElement
      <3>3. \A r, q \in rows : r.ver = q.ver => r = q
        BY <1>4, <1>9, <2>1, <2>4, <3>1
      <3>4. /\ job'[j].attempt = Cardinality(rows)
            /\ job'[j].version = VersionAfter(job'[j].attempt)
        BY <1>3, <1>6, <2>1, <2>4, <3>2
      <3>5. job'[j].attempt <= MaxAttempts
        BY <1>2, <1>3, <1>6, <1>7, <2>4, MailboxAssumption
      <3> QED
        BY <3>3, <3>4, <3>5
    <2> QED
      BY <2>3, <2>4
  <1>12. work \in [Workers -> Calls] /\ clock \in Nat
    BY MailboxAssumption DEF IInv, TypeOK, Calls, Places
  <1>13. /\ work' = [work EXCEPT ![w] = Idle] \/ work' = [work EXCEPT ![w].pc = "complete"]
    BY DEF Succeeded, Go, Ack
  <1>14. \A x \in Workers :
           /\ Holding(x)' => /\ Holding(x) /\ work'[x].now = work[x].now
                             /\ work'[x].fence = work[x].fence
           /\ Holding(x)' \/ work'[x].pc = "complete" =>
                 Job(x)' = Job(x) /\ Ver(x)' = Ver(x)
           /\ x # w => work'[x] = work[x]
    BY <1>12, <1>13 DEF Holding, Job, Ver, Idle, Calls
  <1>15. CompletingHaveResults'
    <2> SUFFICES ASSUME NEW x \in Workers, work'[x].pc = "complete"
                 PROVE  \E r \in journal' : r.job = Job(x)' /\ r.ver = Ver(x)'
      BY DEF CompletingHaveResults
    <2>1. CASE x = w
      <3>1. row \in journal' /\ row.job = Job(x)' /\ row.ver = Ver(x)'
        BY <1>4, <1>5, <1>14, <2>1 DEF J, V
      <3> QED
        BY <3>1
    <2>2. CASE x # w
      BY <1>5, <1>14, <2>2 DEF IInv, CompletingHaveResults
    <2> QED
      BY <2>1, <2>2
  <1>16. CompletedHasResult'
    BY <1>5 DEF IInv, CompletedHasResult
  <1>17. HoldersFenced'
    <2> SUFFICES ASSUME NEW x \in Workers, Holding(x)'
                 PROVE  LET r == lease[Job(x)'][Ver(x)'] IN
                        /\ r.state # "NONE"
                        /\ work'[x].fence <= r.fence
                        /\ work'[x].fence = r.fence
                              => r.expires = Later(work'[x].now, Lease)
                        /\ work'[x].fence < r.fence
                              => Later(work'[x].now, Lease) <= clock'
      BY DEF HoldersFenced, Later, Lower
    <2> QED
      BY <1>14 DEF IInv, HoldersFenced
  <1>18. LeaseExcludes'
    <2> SUFFICES ASSUME NEW x \in Workers, NEW y \in Workers, x # y,
                        Holding(x)', Holding(y)', Job(x)' = Job(y)', Ver(x)' = Ver(y)'
                 PROVE  /\ work'[x].fence # work'[y].fence
                        /\ work'[x].fence < work'[y].fence =>
                              Later(work'[x].now, Lease) <= clock'
      BY DEF LeaseExcludes, Later, Lower
    <2>1. /\ Holding(x) /\ Holding(y) /\ Job(x) = Job(y) /\ Ver(x) = Ver(y)
          /\ work'[x].fence = work[x].fence /\ work'[y].fence = work[y].fence
          /\ work'[x].now = work[x].now
      BY <1>14
    <2> QED
      BY <2>1 DEF IInv, LeaseExcludes
  <1> QED
    BY <1>10, <1>11, <1>15, <1>16, <1>17, <1>18 DEF IInv

\* The write of a run, accepted or refused.
LEMMA RunStep ==
  ASSUME IInv, NEW w \in Workers, NEW out \in Outcomes, WriteRun(w, out)
  PROVE  IInv'
  <1>1. TypeOK' /\ CallsTyped'
    BY RunTyped DEF IInv
  <1>2. work[w].pc = "write" /\ UNCHANGED <<clock, lease>>
    BY DEF WriteRun
  <1>3. CASE /\ Retry(w, Later(clock, 1)) \/ Ack(w)
             /\ UNCHANGED <<job, journal, binding>>
    <2>1. work' = [work EXCEPT ![w] = Idle]
      BY <1>3 DEF Retry, Ack
    <2> QED
      BY <1>1, <1>2, <1>3, <2>1, QuietWorker
  <1>4. CASE /\ RunAccepted(w) /\ Succeeded(w)
             /\ job' = [job EXCEPT ![Job(w)] = AfterRun(Job(w), work[w].now, out)]
             /\ journal' = journal \cup
                    {[job |-> Job(w), ver |-> Ver(w), actor |-> work[w].msg.actor,
                      via |-> work[w].via]}
    BY <1>1, <1>2, <1>4, AcceptedStep
  <1> QED
    BY <1>3, <1>4 DEF WriteRun

\* Deliveries and requests: the worker holds nothing, or is a request.
LEMMA StartStep ==
  ASSUME IInv, NEW w \in Workers, Deliver(w) \/ DeliverTwice(w) \/ RequestRun(w)
  PROVE  IInv'
  <1>1. TypeOK' /\ CallsTyped'
    BY StartTyped DEF IInv
  <1>2. work \in [Workers -> Calls] /\ clock \in Nat
    BY MailboxAssumption DEF IInv, TypeOK, Calls, Places
  <1>3. UNCHANGED <<job, journal, lease, clock>>
    BY DEF Deliver, DeliverTwice, RequestRun
  <1>4. /\ work'[w].pc = "claim" \/ (work'[w].pc = "replay" /\ work'[w].via = "http")
        /\ \A x \in Workers : x # w => work'[x] = work[x]
    <2>1. ASSUME NEW m PROVE [Idle EXCEPT !.pc = "claim", !.via = "queue",
                                          !.msg = m, !.now = clock].pc = "claim"
      BY IdleTyped DEF Calls
    <2>2. ASSUME NEW m
          PROVE  /\ [Idle EXCEPT !.pc = "replay", !.via = "http", !.now = clock,
                                 !.msg = m].pc = "replay"
                 /\ [Idle EXCEPT !.pc = "replay", !.via = "http", !.now = clock,
                                 !.msg = m].via = "http"
      BY IdleTyped DEF Calls
    <2>3. CASE Deliver(w) \/ DeliverTwice(w)
      <3>1. PICK m : work' = [work EXCEPT ![w] =
                        [Idle EXCEPT !.pc = "claim", !.via = "queue", !.msg = m,
                                     !.now = clock]]
        BY <2>3 DEF Deliver, DeliverTwice
      <3> DEFINE c == [Idle EXCEPT !.pc = "claim", !.via = "queue", !.msg = m,
                                   !.now = clock]
      <3>2. work' = [work EXCEPT ![w] = c] /\ c.pc = "claim"
        BY <2>1, <3>1
      <3> HIDE DEF c
      <3> QED
        BY <1>2, <3>2
    <2>4. CASE RequestRun(w)
      <3>1. PICK m : work' = [work EXCEPT ![w] =
                        [Idle EXCEPT !.pc = "replay", !.via = "http", !.now = clock,
                                     !.msg = m]]
        BY <2>4 DEF RequestRun
      <3> DEFINE c == [Idle EXCEPT !.pc = "replay", !.via = "http", !.now = clock,
                                   !.msg = m]
      <3>2. work' = [work EXCEPT ![w] = c] /\ c.pc = "replay" /\ c.via = "http"
        BY <2>2, <3>1
      <3> HIDE DEF c
      <3> QED
        BY <1>2, <3>2
    <2> QED
      BY <2>3, <2>4
  <1>5. ~Holding(w)' /\ work'[w].pc # "complete"
    BY <1>4 DEF Holding
  <1>6. \A x \in Workers : Holding(x)' => /\ Holding(x)
                                         /\ work'[x].msg = work[x].msg
                                         /\ work'[x].now = work[x].now
                                         /\ work'[x].fence = work[x].fence
    BY <1>4, <1>5 DEF Holding
  <1>7. \A x \in Workers : work'[x].pc = "complete" =>
          \E r \in journal : r.job = Job(x)' /\ r.ver = Ver(x)'
    BY <1>4, <1>5 DEF IInv, CompletingHaveResults, Job, Ver
  <1> QED
    BY <1>1, <1>2, <1>3, <1>6, <1>7, QuietStep

\* The steps of a worker that write neither job nor lease.
LEMMA ReadStep ==
  ASSUME IInv, NEW w \in Workers,
         \/ ExamineLease(w) \/ ClassifyLease(w) \/ DecideReplay(w)
         \/ LoadAndStart(w) \/ CallProvider(w) \/ WorkerFails(w)
  PROVE  IInv'
  <1>1. TypeOK' /\ CallsTyped'
    BY ReadStepTyped DEF IInv
  <1>2. UNCHANGED <<clock, job, journal, lease>>
    BY DEF ExamineLease, ClassifyLease, DecideReplay, LoadAndStart, CallProvider,
           WorkerFails
  <1> DEFINE Ends == work' = [work EXCEPT ![w] = Idle]
             Goes(p) == work' = [work EXCEPT ![w].pc = p]
  <1>3. CASE ExamineLease(w)
    <2>1. Ends \/ Goes("reclaim")
      BY <1>3 DEF ExamineLease, Ack, Retry, Go
    <2> QED
      BY <1>1, <1>2, <2>1, QuietWorker DEF Places
  <1>4. CASE ClassifyLease(w)
    <2>1. Ends
      BY <1>4 DEF ClassifyLease, Ack, Retry
    <2> QED
      BY <1>1, <1>2, <2>1, QuietWorker
  <1>5. CASE DecideReplay(w)
    <2>1. work[w].pc = "replay"
      BY <1>5 DEF DecideReplay
    <2>2. \/ Ends \/ Goes("load")
          \/ /\ Goes("complete")
             /\ \E r \in journal : r.job = Job(w) /\ r.ver = Ver(w)
      BY <1>5 DEF DecideReplay, Succeeded, Replayed, Ack, Go
    <2> QED
      BY <1>1, <1>2, <2>1, <2>2, QuietWorker DEF Places
  <1>6. CASE LoadAndStart(w)
    <2>1. work[w].pc = "load" /\ (Ends \/ Goes("call"))
      BY <1>6 DEF LoadAndStart, Ack, Go
    <2> QED
      BY <1>1, <1>2, <2>1, QuietWorker DEF Places
  <1>7. CASE CallProvider(w)
    <2>1. work[w].pc = "call" /\ (Ends \/ Goes("write"))
      BY <1>7 DEF CallProvider, Retry, Go
    <2> QED
      BY <1>1, <1>2, <2>1, QuietWorker DEF Places
  <1>8. CASE WorkerFails(w)
    <2>1. Ends
      BY <1>8 DEF WorkerFails, Retry
    <2> QED
      BY <1>1, <1>2, <2>1, QuietWorker
  <1> QED
    BY <1>3, <1>4, <1>5, <1>6, <1>7, <1>8

\* The statements on the lease.
LEMMA LeaseStep ==
  ASSUME IInv, NEW w \in Workers,
         InsertClaim(w) \/ ReclaimLease(w) \/ CompleteLease(w)
  PROVE  IInv'
  <1>1. TypeOK' /\ CallsTyped'
    BY LeaseStepTyped DEF IInv
  <1>2. CASE InsertClaim(w)
    <2>1. work[w].pc = "claim" /\ UNCHANGED <<clock, job, journal>>
      BY <1>2 DEF InsertClaim
    <2>2. CASE lease[Job(w)][Ver(w)].state = "NONE" /\ Acquired(w, 1)
      BY <1>1, <2>1, <2>2, AcquiredStep
    <2>3. CASE Go(w, "examine") /\ UNCHANGED lease
      <3>1. work' = [work EXCEPT ![w].pc = "examine"]
        BY <2>3 DEF Go
      <3> QED
        BY <1>1, <2>1, <2>3, <3>1, QuietWorker DEF Places
    <2> QED
      BY <1>2, <2>2, <2>3 DEF InsertClaim
  <1>3. CASE ReclaimLease(w)
    <2>1. work[w].pc = "reclaim" /\ UNCHANGED <<clock, job, journal>>
      BY <1>3 DEF ReclaimLease
    <2>2. CASE LeaseLapsed(w) /\ Acquired(w, lease[Job(w)][Ver(w)].fence + 1)
      <3>1. Job(w) \in Jobs /\ Ver(w) \in Versions
        BY <2>1, WorkerFacts DEF IInv
      <3>2. lease[Job(w)][Ver(w)].fence + 1 \in Nat
        BY <3>1 DEF IInv, TypeOK
      <3> QED
        BY <1>1, <2>1, <2>2, <3>2, AcquiredStep
    <2>3. CASE Go(w, "classify") /\ UNCHANGED lease
      <3>1. work' = [work EXCEPT ![w].pc = "classify"]
        BY <2>3 DEF Go
      <3> QED
        BY <1>1, <2>1, <2>3, <3>1, QuietWorker DEF Places
    <2> QED
      BY <1>3, <2>2, <2>3 DEF ReclaimLease
  <1>4. CASE CompleteLease(w)
    BY <1>1, <1>4, CompletedStep
  <1> QED
    BY <1>2, <1>3, <1>4

\* The owner, the scheduled handler and time touch no result, lease or worker.
LEMMA OthersStep ==
  ASSUME IInv,
         \/ \E j \in Jobs : CreateJob(j)
         \/ RevokeBinding \/ TransferOwnership \/ CronStep \/ CronFails \/ Tick
  PROVE  IInv'
  <1>1. TypeOK' /\ CallsTyped'
    BY OthersTyped DEF IInv
  <1>2. UNCHANGED <<journal, lease, work>>
    BY DEF CreateJob, RevokeBinding, TransferOwnership, CronStep, CronLoad,
           CronPublish, CronMark, CronFails, Tick
  <1>3. clock <= clock'
    <2>1. clock' = clock \/ clock' = clock + 1
      BY DEF CreateJob, RevokeBinding, TransferOwnership, CronStep, CronLoad,
             CronPublish, CronMark, CronFails, Tick
    <2>2. clock \in Nat
      BY MailboxAssumption DEF IInv, TypeOK
    <2> QED
      BY <2>1, <2>2
  <1>4. \A j \in Jobs : job'[j].attempt = job[j].attempt
                        /\ job'[j].version = job[j].version
    <2>1. CASE \E j \in Jobs : CreateJob(j)
      <3>1. PICK j \in Jobs : CreateJob(j)
        BY <2>1
      <3>2. PICK t : job' = [job EXCEPT ![j].status = "SCHEDULED", ![j].next = t]
        BY <3>1 DEF CreateJob
      <3> DEFINE new == [job[j] EXCEPT !.status = "SCHEDULED", !.next = t]
      <3>3. job[j] \in MailboxJob
        BY DEF IInv, TypeOK
      <3>4. new.attempt = job[j].attempt /\ new.version = job[j].version
        BY <3>3 DEF MailboxJob
      <3>5. job' = [job EXCEPT ![j] = new]
        BY <3>2 DEF IInv, TypeOK
      <3> HIDE DEF new
      <3> QED
        BY <3>4, <3>5 DEF IInv, TypeOK
    <2>2. CASE job' = job
      BY <2>2
    <2> QED
      BY <2>1, <2>2 DEF RevokeBinding, TransferOwnership, CronStep, CronLoad,
                        CronPublish, CronMark, CronFails, Tick
  <1>5. \A x \in Workers : Holding(x)' => /\ Holding(x)
                                         /\ work'[x].msg = work[x].msg
                                         /\ work'[x].now = work[x].now
                                         /\ work'[x].fence = work[x].fence
    BY <1>2 DEF Holding
  <1>6. \A x \in Workers : work'[x].pc = "complete" =>
          \E r \in journal : r.job = Job(x)' /\ r.ver = Ver(x)'
    BY <1>2 DEF IInv, CompletingHaveResults, Job, Ver
  <1> QED
    BY <1>1, <1>2, <1>3, <1>4, <1>5, <1>6, QuietStep

\* Nothing has been written, nobody holds anything.
LEMMA InitInv == Init => IInv
  <1> SUFFICES ASSUME Init PROVE IInv
    OBVIOUS
  <1>1. 0 \in 0 .. MaxAttempts /\ 1 \in Versions /\ 0 \in Time
    <2>1. 0 \in 0 .. MaxAttempts /\ VersionAfter(0) = 1 /\ 0 \in Time
      BY MailboxAssumption DEF VersionAfter, Time
    <2> QED
      BY <2>1, VersionFacts
  <1>2. work = [w \in Workers |-> Idle] /\ Idle \in Calls
    BY IdleTyped DEF Init
  <1>3. TypeOK
    <2>1. job \in [Jobs -> MailboxJob]
      BY <1>1 DEF Init, MailboxJob
    <2>2. lease \in [Jobs -> [Versions -> [state: {"NONE", "ACTIVE", "COMPLETED"},
                                           fence: Nat, expires: Time]]]
      BY <1>1 DEF Init
    <2>3. cron \in [pc: {"idle", "publish", "mark"}, batch: SUBSET Dispatch,
                    cur: Dispatch \cup {NoMessage}]
      BY DEF Init, QuietCron
    <2>4. work \in [Workers -> Calls]
      BY <1>2
    <2> QED
      BY <2>1, <2>2, <2>3, <2>4, MailboxAssumption DEF Init, TypeOK, Calls, Places
  <1>4. \A w \in Workers : /\ work[w].pc = "idle" /\ work[w].via = "none"
                           /\ work[w].now = 0
    BY <1>2 DEF Idle
  <1>5. CallsTyped
    BY <1>4 DEF CallsTyped, Init, QuietCron
  <1>6. ResultsPassed
    BY FS_EmptySet DEF Init, ResultsPassed
  <1>7. OneResultPerVersion
    <2>1. \A j \in Jobs : {r \in journal : r.job = j} = {}
      BY DEF Init
    <2>2. \A j \in Jobs : job[j].attempt = 0 /\ job[j].version = 1
      BY DEF Init
    <2>3. 0 <= MaxAttempts /\ VersionAfter(0) = 1
      BY MailboxAssumption DEF VersionAfter
    <2> QED
      BY <2>1, <2>2, <2>3, FS_EmptySet DEF OneResultPerVersion
  <1>8. CompletedHasResult
    BY DEF Init, CompletedHasResult
  <1> QED
    BY <1>3, <1>4, <1>5, <1>6, <1>7, <1>8
    DEF IInv, CompletingHaveResults, HoldersFenced, LeaseExcludes, Holding

\* Every step keeps the invariant.
LEMMA Inductive == IInv /\ [Next]_vars => IInv'
  <1> SUFFICES ASSUME IInv, [Next]_vars PROVE IInv'
    OBVIOUS
  <1>1. CASE UNCHANGED vars
    <2>1. TypeOK' /\ CallsTyped'
      BY <1>1 DEF vars, IInv, TypeOK, CallsTyped
    <2>2. UNCHANGED <<clock, job, journal, lease, work>>
      BY <1>1 DEF vars
    <2>3. clock <= clock'
      BY <2>2, MailboxAssumption DEF IInv, TypeOK
    <2>4. \A x \in Workers : work'[x].pc = "complete" =>
            \E r \in journal : r.job = Job(x)' /\ r.ver = Ver(x)'
      BY <2>2 DEF IInv, CompletingHaveResults, Job, Ver
    <2>5. \A x \in Workers : Holding(x)' => Holding(x)
      BY <2>2 DEF Holding
    <2> QED
      BY <2>1, <2>2, <2>3, <2>4, <2>5, QuietStep
  <1>2. CASE \/ \E j \in Jobs : CreateJob(j)
             \/ RevokeBinding \/ TransferOwnership \/ CronStep \/ CronFails \/ Tick
    BY <1>2, OthersStep
  <1>3. ASSUME NEW w \in Workers,
               \/ Deliver(w) \/ DeliverTwice(w) \/ RequestRun(w)
               \/ WorkerStep(w) \/ WorkerFails(w)
        PROVE  IInv'
    <2>1. CASE Deliver(w) \/ DeliverTwice(w) \/ RequestRun(w)
      BY <2>1, StartStep
    <2>2. CASE \/ ExamineLease(w) \/ ClassifyLease(w) \/ DecideReplay(w)
               \/ LoadAndStart(w) \/ CallProvider(w) \/ WorkerFails(w)
      BY <2>2, ReadStep
    <2>3. CASE InsertClaim(w) \/ ReclaimLease(w) \/ CompleteLease(w)
      BY <2>3, LeaseStep
    <2>4. CASE \E out \in Outcomes : WriteRun(w, out)
      BY <2>4, RunStep
    <2> QED
      BY <1>3, <2>1, <2>2, <2>3, <2>4 DEF WorkerStep
  <1> QED
    BY <1>1, <1>2, <1>3 DEF Next

-----------------------------------------------------------------------------
(* The results *)

\* Whatever the cron, the queue, the consumers and the owner do, the
\* conjunction of the above holds.
LEMMA Invariance == Spec => []IInv
  BY InitInv, Inductive, PTL DEF Spec

\* Rows, messages and workers keep their types, and attempts, versions and times
\* their bounds.
THEOREM MailboxTypes == Spec => []TypeOK
  <1>1. IInv => TypeOK
    BY DEF IInv
  <1> QED
    BY <1>1, Invariance, PTL

\* However often a message is delivered, an execution taken over or a job run by
\* hand, a version of a job has at most one result in the journal, and the job's
\* attempts and version count the results (run_job and its triggers).
THEOREM OneResult == Spec => []OneResultPerVersion
  <1>1. IInv => OneResultPerVersion
    BY DEF IInv
  <1> QED
    BY <1>1, Invariance, PTL

\* An execution is marked COMPLETED only when its result is in the journal
\* (complete_execution after execute_run_mailbox_job).
THEOREM CompletionsHaveResults == Spec => []CompletedHasResult
  <1>1. IInv => CompletedHasResult
    BY DEF IInv
  <1> QED
    BY <1>1, Invariance, PTL

\* Two consumers hold the execution of one version only under different fences,
\* the lower of which belongs to a lease that has run out (claim_execution and
\* its reclaim).
THEOREM LeasesExclude == Spec => []LeaseExcludes
  <1>1. IInv => LeaseExcludes
    BY DEF IInv
  <1> QED
    BY <1>1, Invariance, PTL

-------------------------------------------------------------------------------
(* Outbound mail: how a handler goes on *)

\* A request that is not in progress is well-formed.
LEMMA IdleIsCall == NoCall \in SendCalls
  BY MaxDispatchesAssumption DEF NoCall, SendCalls, SendPlaces

\* Going on to another place, with or without a new attempt, changes that
\* request only and keeps what the provider told it.
LEMMA GoFacts ==
  ASSUME MailTypeOK, NEW r \in Requests, NEW p \in SendPlaces, NEW n \in 0 .. MaxDispatches,
         GoTo(r, p) \/ GoWithAttempt(r, p, n)
  PROVE  /\ call' \in [Requests -> SendCalls]
         /\ call'[r].at = p
         /\ call'[r].out = call[r].out
         /\ \A s \in Requests \ {r} : call'[s] = call[s]
         /\ told' = told
  BY DEF GoTo, GoWithAttempt, MailTypeOK, SendCalls

\* Ending a request, with or without a receipt, makes it idle and changes no
\* other; at most the final state of the row is reported.
LEMMA EndFacts ==
  ASSUME MailTypeOK, NEW r \in Requests,
         Report(r, intent.state) \/ Refuse(r)
  PROVE  /\ call' \in [Requests -> SendCalls]
         /\ call'[r].at = "idle"
         /\ \A s \in Requests \ {r} : call'[s] = call[s]
         /\ told' \subseteq told \union ({intent.state} \intersect Final)
         /\ told' \subseteq Final
  <1>1. call' = [call EXCEPT ![r] = NoCall]
    BY DEF Report, Refuse
  <1>2. call' \in [Requests -> SendCalls] /\ call'[r] = NoCall
        /\ \A s \in Requests \ {r} : call'[s] = call[s]
    BY <1>1, IdleIsCall DEF MailTypeOK
  <1>3. told' \subseteq told \union ({intent.state} \intersect Final)
    BY DEF Report, Refuse
  <1>4. told' \subseteq Final
    BY <1>3 DEF MailTypeOK
  <1> QED
    BY <1>2, <1>3, <1>4 DEF NoCall

-------------------------------------------------------------------------------
(* The invariant of the intent *)

\* The state before any request satisfies the invariant.
LEMMA MailInitInv == MailInit => Inv
  <1> SUFFICES ASSUME MailInit PROVE Inv
    OBVIOUS
  <1>1. MailTypeOK
    <2>1. intent \in Rows
      BY MaxDispatchesAssumption DEF MailInit, NoIntent, Rows
    <2> QED
      BY <2>1, IdleIsCall DEF MailInit, MailTypeOK
  <1>2. Holders = {}
    BY DEF MailInit, Holders, NoCall
  <1>3. intent.state = "ABSENT" /\ intent.attempts = 0 /\ delivered = 0
        /\ told = {} /\ completed = {}
    BY DEF MailInit, NoIntent
  <1> QED
    BY <1>1, <1>2, <1>3
    DEF Inv, QuietRow, OneHolder, HolderKnows, CompletedWereClaimed, AnswersStand,
        InFlight, Final

\* A step of one request that leaves the row, the completions and the provider
\* alone, takes no attempt, and tells at most the state of the row keeps the
\* invariant.
LEMMA QuietMailStep ==
  ASSUME Inv, MailTypeOK', NEW r \in Requests,
         UNCHANGED <<intent, completed, delivered>>,
         \A s \in Requests \ {r} : call'[s] = call[s],
         r \in Holders' => /\ call[r].at \in {"complete_load", "complete"}
                          /\ call'[r].at # "send"
                          /\ call'[r].out = call[r].out,
         told' \subseteq told \union ({intent.state} \intersect Final)
  PROVE  Inv'
  <1>0. Holders' \subseteq Holders
    BY DEF Holders
  <1>1. QuietRow'
    BY <1>0 DEF Inv, QuietRow, InFlight, Open
  <1>2. OneHolder'
    BY <1>0 DEF Inv, OneHolder
  <1>3. HolderKnows'
    <2> SUFFICES ASSUME NEW s \in Holders'
                 PROVE  /\ call'[s].at = "send" => delivered' = 0
                        /\ call'[s].at # "send" => delivered' \in {0, 1}
                               /\ call'[s].out \in ClassifySend(delivered')
      BY DEF HolderKnows, ClassifySend
    <2>1. s \in Holders /\ s \in Requests
      BY <1>0 DEF Holders
    <2>2. CASE s # r
      BY <2>1, <2>2 DEF Inv, HolderKnows
    <2>3. CASE s = r
      BY <2>1, <2>3 DEF Inv, HolderKnows
    <2> QED
      BY <2>2, <2>3
  <1>4. AnswersStand'
    BY DEF Inv, AnswersStand, MailTypeOK, Final, QuietRow, Open
  <1> QED
    BY <1>1, <1>2, <1>3, <1>4 DEF Inv, CompletedWereClaimed

\* A handler that reads and goes on to a place where it holds no attempt that
\* it did not hold keeps the invariant.
LEMMA GoOn ==
  ASSUME Inv, NEW r \in Requests, NEW p \in SendPlaces \ {"send", "complete_load"},
         NEW n \in 0 .. MaxDispatches,
         p = "complete" => call[r].at = "complete_load",
         GoTo(r, p) \/ GoWithAttempt(r, p, n),
         UNCHANGED <<intent, completed, expired, access, delivered>>
  PROVE  Inv'
  <1>1. /\ call' \in [Requests -> SendCalls]
        /\ call'[r].at = p
        /\ call'[r].out = call[r].out
        /\ \A s \in Requests \ {r} : call'[s] = call[s]
        /\ told' = told
    BY GoFacts DEF Inv
  <1>2. MailTypeOK'
    BY <1>1 DEF Inv, MailTypeOK
  <1>3. r \in Holders' => p = "complete"
    BY <1>1 DEF Holders
  <1> QED
    BY <1>1, <1>2, <1>3, QuietMailStep

\* A handler that ends without a write keeps the invariant.
LEMMA EndOn ==
  ASSUME Inv, NEW r \in Requests,
         Report(r, intent.state) \/ Refuse(r),
         UNCHANGED <<intent, completed, expired, access, delivered>>
  PROVE  Inv'
  <1>1. /\ call' \in [Requests -> SendCalls]
        /\ call'[r].at = "idle"
        /\ \A s \in Requests \ {r} : call'[s] = call[s]
        /\ told' \subseteq told \union ({intent.state} \intersect Final)
        /\ told' \subseteq Final
    BY EndFacts DEF Inv
  <1>2. MailTypeOK'
    BY <1>1 DEF Inv, MailTypeOK
  <1>3. r \notin Holders'
    BY <1>1 DEF Holders
  <1> QED
    BY <1>1, <1>2, <1>3, QuietMailStep

\* The handlers' reads, and their failures, keep the invariant.
LEMMA ReadsKeepInv ==
  ASSUME Inv, NEW r \in Requests,
         \/ CheckAccess(r) \/ Decide(r) \/ LoadExisting(r) \/ LoadClaim(r)
         \/ Reload(r) \/ LoadComplete(r) \/ LoadReceipt(r) \/ LoadMark(r)
         \/ StoreFails(r) \/ Crash(r)
  PROVE  Inv'
  <1>0. /\ intent.attempts \in 0 .. MaxDispatches
        /\ intent.attempts < MaxDispatches => intent.attempts + 1 \in 0 .. MaxDispatches
    BY MaxDispatchesAssumption DEF Inv, MailTypeOK, Rows
  <1>1. UNCHANGED <<intent, completed, expired, access, delivered>>
    BY DEF CheckAccess, Decide, LoadExisting, LoadClaim, Reload, LoadComplete,
           LoadReceipt, LoadMark, StoreFails, Crash
  <1>2. ASSUME Replay(r) PROVE Inv'
    BY <1>0, <1>1, <1>2, GoOn, EndOn DEF Replay, SendPlaces
  <1>3. CASE CheckAccess(r)
    BY <1>0, <1>1, <1>3, GoOn, EndOn DEF CheckAccess, SendPlaces
  <1>4. CASE Decide(r)
    BY <1>0, <1>1, <1>4, GoOn, EndOn DEF Decide, SendPlaces
  <1>5. CASE LoadExisting(r)
    BY <1>0, <1>1, <1>2, <1>5, GoOn DEF LoadExisting, SendPlaces
  <1>6. CASE LoadClaim(r)
    BY <1>0, <1>1, <1>2, <1>6, GoOn DEF LoadClaim, SendPlaces
  <1>7. CASE Reload(r)
    BY <1>2, <1>7 DEF Reload
  <1>8. CASE LoadComplete(r)
    BY <1>0, <1>1, <1>8, GoOn, EndOn DEF LoadComplete, SendPlaces
  <1>9. CASE LoadReceipt(r)
    BY <1>1, <1>9, EndOn DEF LoadReceipt
  <1>10. CASE LoadMark(r)
    BY <1>0, <1>1, <1>10, GoOn, EndOn DEF LoadMark, SendPlaces
  <1>11. CASE StoreFails(r)
    BY <1>0, <1>1, <1>11, GoOn, EndOn DEF StoreFails, SendPlaces
  <1>12. CASE Crash(r)
    BY <1>1, <1>12, EndOn DEF Crash
  <1> QED
    BY <1>3, <1>4, <1>5, <1>6, <1>7, <1>8, <1>9, <1>10, <1>11, <1>12

\* A row that is not settled has not been reported as settled.
LEMMA NothingToldYet ==
  ASSUME Inv, intent.state \notin Final
  PROVE  told = {}
  BY DEF Inv, AnswersStand, MailTypeOK, Final

\* A new request, still before its first await, keeps the invariant.
LEMMA ReceiveKeepsInv ==
  ASSUME Inv, NEW r \in Requests, Receive(r)
  PROVE  Inv'
  <1>1. PICK b \in Bodies :
          call' = [call EXCEPT ![r] = [at |-> "access", body |-> b, late |-> expired,
                                       attempt |-> 0, out |-> "NONE"]]
    BY DEF Receive
  <1>2. [at |-> "access", body |-> b, late |-> expired,
         attempt |-> 0, out |-> "NONE"] \in SendCalls
    BY MaxDispatchesAssumption DEF Inv, MailTypeOK, SendCalls, SendPlaces
  <1>3. /\ call' \in [Requests -> SendCalls]
        /\ call'[r].at = "access"
        /\ \A s \in Requests \ {r} : call'[s] = call[s]
    BY <1>1, <1>2 DEF Inv, MailTypeOK
  <1>4. UNCHANGED <<intent, completed, expired, access, delivered, told>>
    BY DEF Receive
  <1>5. MailTypeOK'
    BY <1>3, <1>4 DEF Inv, MailTypeOK
  <1>6. r \notin Holders'
    BY <1>3 DEF Holders
  <1> QED
    BY <1>3, <1>4, <1>5, <1>6, QuietMailStep

\* The reservation: the row appears while nothing has been claimed.
LEMMA ReserveKeepsInv ==
  ASSUME Inv, NEW r \in Requests, Reserve(r)
  PROVE  Inv'
  <1>1. CASE UNCHANGED intent
    BY <1>1, GoOn, EndOn, MaxDispatchesAssumption DEF Reserve, SendPlaces
  <1>2. CASE /\ intent.state = "ABSENT"
             /\ intent' = [state |-> "PENDING", attempts |-> 0, body |-> call[r].body]
             /\ GoTo(r, "claim_load")
    <2>1. UNCHANGED <<completed, expired, access, delivered>>
      BY DEF Reserve
    <2>2. /\ call' \in [Requests -> SendCalls]
          /\ call'[r].at = "claim_load"
          /\ \A s \in Requests \ {r} : call'[s] = call[s]
          /\ told' = told
      BY <1>2, GoFacts, MaxDispatchesAssumption DEF Inv, SendPlaces
    <2>3. intent' \in Rows /\ intent'.state = "PENDING"
      BY <1>2, MaxDispatchesAssumption DEF Inv, MailTypeOK, Rows, SendCalls, Open
    <2>4. MailTypeOK'
      BY <2>1, <2>2, <2>3 DEF Inv, MailTypeOK
    <2>5. Holders' = {} /\ told' = {} /\ delivered' = 0
      BY <1>2, <2>1, <2>2, NothingToldYet DEF Inv, QuietRow, Holders, InFlight, Open, Final
    <2>6. completed' = {}
      BY <1>2, <2>1, MaxDispatchesAssumption DEF Inv, MailTypeOK, CompletedWereClaimed
    <2> QED
      BY <2>3, <2>4, <2>5, <2>6
      DEF Inv, QuietRow, OneHolder, HolderKnows, CompletedWereClaimed, AnswersStand,
          InFlight, Open
  <1> QED
    BY <1>1, <1>2 DEF Reserve

\* Giving up: an open row without a holder becomes final.
LEMMA RejectExhaustedKeepsInv ==
  ASSUME Inv, NEW r \in Requests, RejectExhausted(r)
  PROVE  Inv'
  <1>1. CASE intent.state \notin Open
    BY <1>1, GoOn, MaxDispatchesAssumption DEF RejectExhausted, SendPlaces
  <1>2. CASE intent.state \in Open
    <2>1. UNCHANGED <<completed, expired, access, delivered>> /\ GoTo(r, "reload")
      BY DEF RejectExhausted
    <2>2. /\ call' \in [Requests -> SendCalls]
          /\ call'[r].at = "reload"
          /\ \A s \in Requests \ {r} : call'[s] = call[s]
          /\ told' = told
      BY <2>1, GoFacts, MaxDispatchesAssumption DEF Inv, SendPlaces
    <2>3. /\ intent' \in Rows
          /\ intent'.state = "REJECTED"
          /\ intent'.attempts = intent.attempts
      BY <1>2 DEF RejectExhausted, Inv, MailTypeOK, Rows, Final
    <2>4. MailTypeOK'
      BY <2>1, <2>2, <2>3 DEF Inv, MailTypeOK
    <2>5. Holders' = {} /\ told' = {} /\ delivered' = 0
      BY <1>2, <2>1, <2>2, NothingToldYet DEF Inv, QuietRow, Holders, InFlight, Open, Final
    <2> QED
      BY <2>1, <2>3, <2>4, <2>5
      DEF Inv, QuietRow, OneHolder, HolderKnows, CompletedWereClaimed, AnswersStand,
          InFlight, Open
  <1> QED
    BY <1>1, <1>2

\* The claim: an open row has no holder and has delivered nothing, and the next
\* attempt has no completion yet.
LEMMA ClaimKeepsInv ==
  ASSUME Inv, NEW r \in Requests, Claim(r)
  PROVE  Inv'
  <1>1. CASE UNCHANGED intent /\ (GoTo(r, "reload") \/ Refuse(r))
    BY <1>1, GoOn, EndOn, MaxDispatchesAssumption DEF Claim, SendPlaces
  <1>2. CASE /\ ClaimAccepted(call[r].attempt)
             /\ intent' = [intent EXCEPT !.state = "DISPATCHING",
                                         !.attempts = call[r].attempt]
             /\ GoTo(r, "send")
    <2>1. UNCHANGED <<completed, expired, access, delivered>>
      BY DEF Claim
    <2>2. /\ call' \in [Requests -> SendCalls]
          /\ call'[r].at = "send"
          /\ \A s \in Requests \ {r} : call'[s] = call[s]
          /\ told' = told
      BY <1>2, GoFacts, MaxDispatchesAssumption DEF Inv, SendPlaces
    <2>3. /\ intent' \in Rows
          /\ intent'.state = "DISPATCHING"
          /\ intent'.attempts = intent.attempts + 1
      BY <1>2 DEF ClaimAccepted, Inv, MailTypeOK, Rows, SendCalls, InFlight
    <2>4. MailTypeOK'
      BY <2>1, <2>2, <2>3 DEF Inv, MailTypeOK
    <2>5. Holders = {} /\ told' = {} /\ delivered' = 0
      BY <1>2, <2>1, <2>2, NothingToldYet
      DEF ClaimAccepted, Inv, QuietRow, InFlight, Open, Final
    <2>6. Holders' = {r}
      BY <2>2, <2>5 DEF Holders
    <2>7. \A n \in completed' : n <= intent.attempts /\ n \in Nat
      BY <2>1, MaxDispatchesAssumption DEF Inv, CompletedWereClaimed, MailTypeOK
    <2>8. intent.attempts \in Nat
      BY MaxDispatchesAssumption DEF Inv, MailTypeOK, Rows
    <2>9. OneHolder' /\ CompletedWereClaimed'
      BY <2>3, <2>6, <2>7, <2>8 DEF OneHolder, CompletedWereClaimed, InFlight
    <2>10. QuietRow' /\ HolderKnows' /\ AnswersStand'
      BY <2>2, <2>3, <2>5, <2>6
      DEF QuietRow, HolderKnows, AnswersStand, InFlight, Open
    <2> QED
      BY <2>4, <2>5, <2>9, <2>10 DEF Inv
  <1> QED
    BY <1>1, <1>2 DEF Claim

\* The send: nothing was delivered before, since the holder is the only one.
LEMMA SendKeepsInv ==
  ASSUME Inv, NEW r \in Requests, Send(r)
  PROVE  Inv'
  <1>0. PICK copies \in {0, 1} :
          /\ delivered' = delivered + copies
          /\ \E out \in ClassifySend(copies) :
                call' = [call EXCEPT ![r].at = "complete_load", ![r].out = out]
    BY DEF Send
  <1>1. PICK out \in ClassifySend(copies) :
          call' = [call EXCEPT ![r].at = "complete_load", ![r].out = out]
    BY <1>0
  <1>2. UNCHANGED <<intent, completed, expired, access, told>>
    BY DEF Send
  <1>3. r \in Holders /\ delivered = 0 /\ delivered' = copies
    BY <1>0 DEF Send, Holders, Inv, HolderKnows
  <1>4. /\ call' \in [Requests -> SendCalls]
        /\ call'[r].at = "complete_load" /\ call'[r].out = out
        /\ \A s \in Requests \ {r} : call'[s] = call[s]
    <2>1. out \in SendOutcomes \union {"NONE"} /\ "complete_load" \in SendPlaces
      BY <1>0, <1>1 DEF ClassifySend, SendOutcomes, SendPlaces
    <2> QED
      BY <1>1, <2>1 DEF Inv, MailTypeOK, SendCalls
  <1>5. Holders' = Holders
    BY <1>3, <1>4 DEF Holders
  <1>6. intent.state \in InFlight
    BY <1>3 DEF Inv, QuietRow
  <1>7. MailTypeOK'
    BY <1>2, <1>3, <1>4 DEF Inv, MailTypeOK
  <1>8. QuietRow'
    BY <1>2, <1>6 DEF QuietRow, InFlight, Open
  <1>9. HolderKnows'
    BY <1>1, <1>3, <1>4, <1>5 DEF Inv, OneHolder, HolderKnows, ClassifySend
  <1>10. AnswersStand'
    BY <1>2, <1>6, NothingToldYet DEF AnswersStand, InFlight, Final
  <1> QED
    BY <1>1, <1>2, <1>3, <1>5, <1>7, <1>8, <1>9, <1>10
    DEF Inv, OneHolder, CompletedWereClaimed

\* The completion: the holder writes what it knows of the provider, and is no
\* longer a holder.
LEMMA CompleteKeepsInv ==
  ASSUME Inv, NEW r \in Requests, Complete(r)
  PROVE  Inv'
  <1>1. UNCHANGED <<expired, access, delivered>> /\ GoTo(r, "completed")
    BY DEF Complete
  <1>2. CASE ~CompletionAccepted(call[r].attempt)
    BY <1>1, <1>2, GoOn, MaxDispatchesAssumption DEF Complete, SendPlaces
  <1>3. CASE CompletionAccepted(call[r].attempt)
    <2>1. /\ call' \in [Requests -> SendCalls]
          /\ call'[r].at = "completed"
          /\ \A s \in Requests \ {r} : call'[s] = call[s]
          /\ told' = told
      BY <1>1, GoFacts, MaxDispatchesAssumption DEF Inv, SendPlaces
    <2>2. r \in Holders /\ call[r].out \in ClassifySend(delivered) /\ delivered \in {0, 1}
      BY DEF Complete, Holders, Inv, HolderKnows
    <2>3. /\ intent' = [intent EXCEPT !.state = call[r].out]
          /\ completed' = completed \union {intent.attempts}
          /\ intent.state \in InFlight
      BY <1>3 DEF Complete, CompletionAccepted
    <2>4. /\ intent' \in Rows
          /\ intent'.state = call[r].out
          /\ intent'.attempts = intent.attempts
      BY <2>2, <2>3 DEF Inv, MailTypeOK, Rows, ClassifySend, Open, InFlight, Final
    <2>5. intent.attempts \in 1 .. MaxDispatches
      BY <2>3, MaxDispatchesAssumption DEF Inv, MailTypeOK, Rows, CompletedWereClaimed
    <2>6. MailTypeOK'
      BY <1>1, <2>1, <2>3, <2>4, <2>5 DEF Inv, MailTypeOK
    <2>7. Holders' = {} /\ told' = {}
      BY <2>1, <2>2, <2>3, NothingToldYet DEF Inv, OneHolder, Holders, InFlight, Final
    <2>8. QuietRow'
      BY <1>1, <2>2, <2>4, <2>7 DEF QuietRow, ClassifySend, Open
    <2>9. CompletedWereClaimed'
      BY <2>2, <2>3, <2>4, <2>5 DEF Inv, CompletedWereClaimed, ClassifySend
    <2> QED
      BY <1>1, <2>2, <2>6, <2>7, <2>8, <2>9
      DEF Inv, OneHolder, HolderKnows, AnswersStand
  <1> QED
    BY <1>2, <1>3

\* The mark: an attempt in flight stays in flight, and keeps its holder.
LEMMA MarkKeepsInv ==
  ASSUME Inv, NEW r \in Requests, Mark(r)
  PROVE  Inv'
  <1>1. /\ UNCHANGED <<completed, expired, access, delivered>>
        /\ GoTo(r, "marked")
        /\ call[r].at = "mark"
    BY DEF Mark
  <1>2. CASE UNCHANGED intent
    BY <1>1, <1>2, GoOn, MaxDispatchesAssumption DEF SendPlaces
  <1>3. CASE /\ intent.state = "DISPATCHING"
             /\ intent' = [intent EXCEPT !.state = "AMBIGUOUS"]
    <2>1. /\ call' \in [Requests -> SendCalls]
          /\ call'[r].at = "marked"
          /\ \A s \in Requests \ {r} : call'[s] = call[s]
          /\ told' = told
      BY <1>1, GoFacts, MaxDispatchesAssumption DEF Inv, SendPlaces
    <2>2. /\ intent' \in Rows
          /\ intent'.state = "AMBIGUOUS"
          /\ intent'.attempts = intent.attempts
      BY <1>3 DEF Inv, MailTypeOK, Rows, InFlight
    <2>3. MailTypeOK'
      BY <1>1, <2>1, <2>2 DEF Inv, MailTypeOK
    <2>4. Holders' = Holders /\ r \notin Holders
      BY <1>1, <2>1 DEF Holders
    <2>5. QuietRow' /\ CompletedWereClaimed'
      BY <1>1, <1>3, <2>2 DEF Inv, QuietRow, CompletedWereClaimed, InFlight, Open
    <2>6. OneHolder' /\ HolderKnows'
      BY <1>1, <2>1, <2>2, <2>4 DEF Inv, OneHolder, HolderKnows, Holders, ClassifySend
    <2>7. AnswersStand'
      BY <1>3, <2>1, NothingToldYet DEF AnswersStand, Final
    <2> QED
      BY <1>1, <2>3, <2>5, <2>6, <2>7 DEF Inv
  <1> QED
    BY <1>2, <1>3 DEF Mark

\* Steps of the surroundings do not touch what the invariant speaks of.
LEMMA SurroundingsKeepInv ==
  ASSUME Inv, AccessChanges \/ RecordExpires \/ UNCHANGED mailVars
  PROVE  Inv'
  <1>1. UNCHANGED <<intent, completed, delivered, call, told>>
    BY DEF AccessChanges, RecordExpires, mailVars
  <1>2. expired' \in BOOLEAN /\ access' \in BOOLEAN
    BY DEF AccessChanges, RecordExpires, mailVars, Inv, MailTypeOK
  <1> QED
    BY <1>1, <1>2
    DEF Inv, MailTypeOK, QuietRow, OneHolder, HolderKnows, CompletedWereClaimed,
        AnswersStand, Holders, ClassifySend

\* Every step of the requests and of their surroundings keeps the invariant.
LEMMA NextKeepsInv == Inv /\ [MailNext]_mailVars => Inv'
  <1> SUFFICES ASSUME Inv, [MailNext]_mailVars PROVE Inv'
    OBVIOUS
  <1>1. ASSUME NEW r \in Requests, Step(r) PROVE Inv'
    BY <1>1, ReadsKeepInv, ReceiveKeepsInv, ReserveKeepsInv, RejectExhaustedKeepsInv,
       ClaimKeepsInv, SendKeepsInv, CompleteKeepsInv, MarkKeepsInv
    DEF Step
  <1> QED
    BY <1>1, SurroundingsKeepInv DEF MailNext

\* The invariant holds throughout, for every number of requests and attempts.
THEOREM OutboundInvariant == MailSpec => []Inv
  BY MailInitInv, NextKeepsInv, PTL DEF MailSpec

-------------------------------------------------------------------------------
(* What it gives *)

\* The row, the completions and the handlers' locals keep their types; in
\* particular no attempt beyond MaxDispatches is ever claimed.
THEOREM OutboundTypes == MailSpec => []MailTypeOK
  <1>1. Inv => MailTypeOK
    BY DEF Inv
  <1> QED
    BY <1>1, OutboundInvariant, PTL

\* At most one request works on the attempt in flight, and that attempt has no
\* completion yet.
THEOREM OutboundOneHolder == MailSpec => []OneHolder
  <1>1. Inv => OneHolder
    BY DEF Inv
  <1> QED
    BY <1>1, OutboundInvariant, PTL

\* What any caller was told to be final stays true.
THEOREM OutboundAnswersStand == MailSpec => []AnswersStand
  <1>1. Inv => AnswersStand
    BY DEF Inv
  <1> QED
    BY <1>1, OutboundInvariant, PTL

\* Every step is a step of the promise or changes nothing of it: the send is its
\* Deliver; a completion with a final outcome, and giving up, are its Settle.
LEMMA StepsKeepPromise ==
  Inv /\ [MailNext]_mailVars => [Promise!Next]_(Promise!vars)
  <1> SUFFICES ASSUME Inv, [MailNext]_mailVars PROVE [Promise!Next]_(Promise!vars)
    OBVIOUS
  <1> USE DEF Promise!Next, Promise!vars, Promise!Deliver, Promise!Settle
  <1>1. ASSUME UNCHANGED <<delivered, intent>> PROVE UNCHANGED Promise!vars
    BY <1>1 DEF verdict
  <1>2. ASSUME NEW r \in Requests, Send(r) PROVE [Promise!Next]_(Promise!vars)
    <2>1. r \in Holders /\ delivered = 0 /\ delivered' \in {0, 1}
      BY <1>2 DEF Send, Holders, Inv, HolderKnows
    <2>2. intent.state \in InFlight /\ intent' = intent
      BY <1>2, <2>1 DEF Send, Inv, QuietRow
    <2> QED
      BY <2>1, <2>2 DEF verdict, InFlight, Final
  <1>3. ASSUME NEW r \in Requests, Complete(r) PROVE [Promise!Next]_(Promise!vars)
    <2>1. CASE UNCHANGED intent
      BY <1>1, <1>3, <2>1 DEF Complete
    <2>2. CASE intent' = [intent EXCEPT !.state = call[r].out] /\ intent.state \in InFlight
      <3>1. r \in Holders /\ call[r].out \in ClassifySend(delivered) /\ delivered \in {0, 1}
        BY <1>3 DEF Complete, Holders, Inv, HolderKnows
      <3>2. intent'.state = call[r].out /\ delivered' = delivered
        BY <1>3, <2>2 DEF Complete, Inv, MailTypeOK, Rows
      <3> QED
        BY <2>2, <3>1, <3>2 DEF verdict, ClassifySend, InFlight, Final
    <2> QED
      BY <1>3, <2>1, <2>2 DEF Complete, CompletionAccepted
  <1>4. ASSUME NEW r \in Requests, RejectExhausted(r) PROVE [Promise!Next]_(Promise!vars)
    <2>1. CASE intent.state \notin Open
      BY <1>1, <1>4, <2>1 DEF RejectExhausted
    <2>2. CASE intent.state \in Open
      <3>1. intent'.state = "REJECTED" /\ delivered = 0 /\ delivered' = 0
        BY <1>4, <2>2 DEF RejectExhausted, Inv, QuietRow, MailTypeOK, Rows
      <3> QED
        BY <2>2, <3>1 DEF verdict, Open, Final
    <2> QED
      BY <2>1, <2>2
  <1>5. ASSUME NEW r \in Requests, Reserve(r) \/ Claim(r) \/ Mark(r)
        PROVE  UNCHANGED Promise!vars
    <2>1. delivered' = delivered
      BY <1>5 DEF Reserve, Claim, Mark
    <2>2. intent' = intent \/ (intent.state \notin Final /\ intent'.state \notin Final)
      <3>1. CASE Reserve(r)
        BY <3>1 DEF Reserve, Final
      <3>2. CASE Claim(r)
        BY <3>2 DEF Claim, ClaimAccepted, Inv, MailTypeOK, Rows, Open, Final
      <3>3. CASE Mark(r)
        BY <3>3 DEF Mark, Inv, MailTypeOK, Rows, Final
      <3> QED
        BY <1>5, <3>1, <3>2, <3>3
    <2> QED
      BY <2>1, <2>2 DEF verdict
  <1>6. ASSUME NEW r \in Requests, Step(r) PROVE [Promise!Next]_(Promise!vars)
    <2>1. CASE \/ Receive(r) \/ CheckAccess(r) \/ Decide(r) \/ LoadExisting(r)
               \/ LoadClaim(r) \/ Reload(r) \/ LoadComplete(r) \/ LoadReceipt(r)
               \/ LoadMark(r) \/ StoreFails(r) \/ Crash(r)
      BY <1>1, <2>1
      DEF Receive, CheckAccess, Decide, LoadExisting, LoadClaim, Reload,
          LoadComplete, LoadReceipt, LoadMark, StoreFails, Crash
    <2> QED
      BY <1>2, <1>3, <1>4, <1>5, <1>6, <2>1 DEF Step
  <1> QED
    BY <1>1, <1>6 DEF MailNext, AccessChanges, RecordExpires, mailVars

\* The requests of one key implement the promise of a single, truthful send.
THEOREM OutboundSendsOnce == MailSpec => SendsOnce
  <1>1. MailInit => Promise!Init
    BY DEF MailInit, Promise!Init, verdict, NoIntent, Final
  <1> QED
    BY <1>1, OutboundInvariant, StepsKeepPromise, PTL
    DEF MailSpec, SendsOnce, Promise!Spec

===============================================================================
