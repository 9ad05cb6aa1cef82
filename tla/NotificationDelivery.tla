------------------------ MODULE NotificationDelivery ------------------------
(***************************************************************************)
(* From the outbox to a durable notification: the scheduled dispatcher     *)
(* that publishes pending outbox rows, the at-least-once queue, the        *)
(* consumers that turn a message into a notification under a bounded       *)
(* number of attempts, the dead letters, their replay by an operator and   *)
(* the compaction of what is finished.                                     *)
(*                                                                         *)
(* One tenant and the one consumer the worker registers.  Every statement  *)
(* sent to D1 is one step; whatever happens between two of them can be     *)
(* interrupted.  A queue message is its own process: several copies of one *)
(* event are handled concurrently.  The queue gives up on a message that   *)
(* was retried too often, whatever became of its event: the deployment     *)
(* (deploy/cloudflare/wrangler.jsonc) sets neither max_retries nor a       *)
(* dead-letter queue.                                                      *)
(***************************************************************************)
EXTENDS Naturals, FiniteSets, FiniteSetsExt

CONSTANTS
    Events,          \* outbox events, numbered in the order of their ids
    Foreign,         \* events whose type the registry does not list
    Replays,         \* ids an operator can give to a replay request
    Dispatchers,     \* overlapping runs of the scheduled handler
    AttemptLimit,    \* MAX_AUTOMATIC_DELIVERY_ATTEMPTS
    BatchLimit,      \* DISPATCH_BATCH_LIMIT
    RetentionTtl,    \* RETENTION_TTL_MS
    QueueRetries,    \* retries after which the queue discards a message
    MaxClock,        \* bound: time
    MaxCopies,       \* bound: messages in the queue for one event
    MaxFaults        \* bound: crashes, lost replies and failed calls

ASSUME DeliveryAssumption ==
    /\ Events \subseteq Nat \ {0} /\ Foreign \subseteq Events
    /\ 0 \notin Replays
    /\ AttemptLimit \in Nat \ {0} /\ BatchLimit \in Nat \ {0}
    /\ RetentionTtl \in Nat \ {0}
    /\ QueueRetries \in Nat /\ MaxClock \in Nat /\ MaxFaults \in Nat
    /\ MaxCopies \in Nat \ {0}

VARIABLES
    clock,     \* the time the worker's clock shows
    outbox,    \* outbox_events
    rows,      \* notification_deliveries
    notified,  \* notification_events
    claimed,   \* consumer_idempotency
    msg,       \* queue messages and the consumers that handle them
    job,       \* runs of the scheduled handler
    replay,    \* notification_replay_intents and _dispatches
    faults,    \* failures so far
    discarded  \* history: events given up by the queue, not sent again since

vars == <<clock, outbox, rows, notified, claimed, msg, job, replay, faults,
          discarded>>

-----------------------------------------------------------------------------
(* State *)

Time == 0..MaxClock

Copies == Events \X (1..MaxCopies)

NoReplay == [st |-> "NONE", ev |-> 0, at |-> 0, n |-> 0]

\* A delivery row; "at" is the last attempt, from which the next one follows.
DeliveryState == [st: {"ABSENT", "READY", "RETRY", "DELIVERED", "DEAD"},
                  n: 0..AttemptLimit, at: Time]

Absent == [st |-> "ABSENT", n |-> 0, at |-> 0]
Ready  == [st |-> "READY", n |-> 0, at |-> 0]

Message == [pc: {"none", "queued", "loaded", "persisted", "claimed",
                 "failed", "delivered"},
            at: Time, seen: DeliveryState, tries: 0..QueueRetries,
            from: 0..(MaxClock + 2 ^ AttemptLimit)]

NoMessage == [pc |-> "none", at |-> 0, seen |-> Absent, tries |-> 0, from |-> 0]

IdleJob == [phase |-> "idle", at |-> 0, todo |-> {}, sent |-> 0]

TypeOK ==
    /\ clock \in Time
    /\ outbox \in [Events -> [st: {"ABSENT", "PENDING", "PUBLISHED"}, at: Time]]
    /\ rows \in [Events -> DeliveryState]
    /\ notified \subseteq Events /\ claimed \subseteq Events
    /\ msg \in [Copies -> Message]
    /\ job \in [Dispatchers -> [phase: {"idle", "started", "events", "replays"},
                                at: Time,
                                todo: SUBSET (Events \cup Replays),
                                sent: {0} \cup Events \cup Replays]]
    /\ replay \in [Replays -> [st: {"NONE", "ASKED", "PENDING", "PUBLISHED",
                                    "COMPACTED"},
                               ev: {0} \cup Events, at: Time,
                               n: 0..AttemptLimit]]
    /\ faults \in 0..MaxFaults
    /\ discarded \subseteq Events

Init ==
    /\ clock = 0
    /\ outbox = [e \in Events |-> [st |-> "ABSENT", at |-> 0]]
    /\ rows = [e \in Events |-> Absent]
    /\ notified = {} /\ claimed = {}
    /\ msg = [m \in Copies |-> NoMessage]
    /\ job = [d \in Dispatchers |-> IdleJob]
    /\ replay = [r \in Replays |-> NoReplay]
    /\ faults = 0
    /\ discarded = {}

Fault == faults < MaxFaults /\ faults' = faults + 1

Tick == /\ clock < MaxClock
        /\ clock' = clock + 1
        /\ UNCHANGED <<outbox, rows, notified, claimed, msg, job, replay, faults, discarded>>

\* A command of another component commits its change with its outbox row.
Emit(e) ==
    /\ outbox[e].st = "ABSENT"
    /\ outbox' = [outbox EXCEPT ![e] = [st |-> "PENDING", at |-> clock]]
    /\ UNCHANGED <<clock, rows, notified, claimed, msg, job, replay, faults,
                   discarded>>

-----------------------------------------------------------------------------
(* The delivery state machine *)

\* 1, 2, 4 ... of the base delay; the jitter of a tenth is left out.
RetryDelay(n) == 2 ^ (n - 1)

NextAttemptAt(row) == row.at + RetryDelay(row.n)

\* At the bound of the clock everything scheduled has come.
Reached(t) == clock >= t \/ clock = MaxClock

IsDue(row) == \/ row.st = "READY"
              \/ row.st = "RETRY" /\ Reached(NextAttemptAt(row))

RecordSuccess(row, now) == [st |-> "DELIVERED", n |-> row.n + 1, at |-> now]

RecordFailure(row, now) ==
    [st |-> IF row.n + 1 = AttemptLimit THEN "DEAD" ELSE "RETRY",
     n |-> row.n + 1, at |-> now]

-----------------------------------------------------------------------------
(* The queue *)

Free(e) == {c \in 1..MaxCopies : msg[<<e, c>>].pc = "none"}

Enqueue(e) ==
    /\ Free(e) # {}
    /\ msg' = [msg EXCEPT ![<<e, Min(Free(e))>>] = [NoMessage EXCEPT !.pc = "queued"]]
    /\ discarded' = discarded \ {e}

\* Another message of the event is still to be settled.
OtherWorks(m) ==
    \E c \in (1..MaxCopies) \ {m[2]} : msg[<<m[1], c>>].pc \notin {"none", "delivered"}

Acknowledge(m) ==
    /\ msg' = [msg EXCEPT ![m] = NoMessage]
    /\ UNCHANGED discarded

\* The delivery is recorded; what is left is the realtime fan-out.
Announce(m) ==
    /\ msg' = [msg EXCEPT ![m] = [NoMessage EXCEPT !.pc = "delivered",
                                                  !.tries = msg[m].tries]]
    /\ UNCHANGED discarded

\* message.retry: the queue delivers the message again, not before "from", or
\* gives up on it; that is the end of the event if no other message works on it.
RetryMessage(m, from) ==
    IF msg[m].tries = QueueRetries
    THEN /\ msg' = [msg EXCEPT ![m] = NoMessage]
         /\ discarded' = IF OtherWorks(m) THEN discarded ELSE discarded \cup {m[1]}
    ELSE /\ msg' = [msg EXCEPT ![m] = [NoMessage EXCEPT !.pc = "queued", !.from = from,
                                                      !.tries = msg[m].tries + 1]]
         /\ UNCHANGED discarded

\* The fixed delays of the other retries are short; they count as none.
Shortly == 0

-----------------------------------------------------------------------------
(* The consumer of one message *)

\* What a consumer that lost the race for the row does with what it finds.
ReconcileAfterStale(m) ==
    LET e == m[1] IN
    /\ rows' = IF rows[e] = Absent THEN [rows EXCEPT ![e] = Ready] ELSE rows
    /\ CASE rows[e].st = "DELIVERED" -> Announce(m)
         [] rows[e].st = "DEAD" -> Acknowledge(m)
         [] rows[e].st = "RETRY" -> RetryMessage(m, NextAttemptAt(rows[e]))
         [] OTHER -> RetryMessage(m, Shortly)

CompareAndSwap(m, next, Then) ==
    LET e == m[1] IN
    IF rows[e] = msg[m].seen
    THEN rows' = [rows EXCEPT ![e] = next] /\ Then
    ELSE ReconcileAfterStale(m)

\* load_or_create_delivery, and what the state it returns decides.
Load(m) ==
    LET e == m[1]
        row == IF rows[e] = Absent THEN Ready ELSE rows[e]
    IN
    /\ msg[m].pc = "queued" /\ Reached(msg[m].from)
    /\ rows' = [rows EXCEPT ![e] = row]
    /\ CASE row.st = "DELIVERED" -> Announce(m)
         [] row.st = "DEAD" -> Acknowledge(m)
         [] IsDue(row) ->
               /\ msg' = [msg EXCEPT ![m].pc = "loaded", ![m].at = clock,
                                    ![m].seen = row, ![m].from = 0]
               /\ UNCHANGED discarded
         [] OTHER -> RetryMessage(m, NextAttemptAt(row))
    /\ UNCHANGED <<clock, outbox, notified, claimed, job, replay, faults>>

PersistNotification(m) ==
    /\ msg[m].pc = "loaded"
    /\ notified' = notified \cup {m[1]}
    /\ msg' = [msg EXCEPT ![m].pc = "persisted"]
    /\ UNCHANGED <<clock, outbox, rows, claimed, job, replay, faults, discarded>>

Claim(m) ==
    /\ msg[m].pc = "persisted"
    /\ claimed' = claimed \cup {m[1]}
    /\ msg' = [msg EXCEPT ![m].pc = "claimed"]
    /\ UNCHANGED <<clock, outbox, rows, notified, job, replay, faults, discarded>>

\* Persisting or claiming answers with an error, whether it was applied or not.
AttemptFails(m) ==
    /\ msg[m].pc \in {"loaded", "persisted"}
    /\ msg' = [msg EXCEPT ![m].pc = "failed"]
    /\ UNCHANGED <<clock, outbox, rows, notified, claimed, job, replay, faults, discarded>>

SettleSuccess(m) ==
    /\ msg[m].pc = "claimed"
    /\ CompareAndSwap(m, RecordSuccess(msg[m].seen, msg[m].at),
                      Announce(m))
    /\ UNCHANGED <<clock, outbox, notified, claimed, job, replay, faults>>

\* A plausible slip: the attempt is written without comparing the row.
SettleFailureBlind(m) ==
    /\ msg[m].pc = "failed"
    /\ rows' = [rows EXCEPT ![m[1]] = RecordFailure(msg[m].seen, msg[m].at)]
    /\ RetryMessage(m, Shortly)
    /\ UNCHANGED <<clock, outbox, notified, claimed, job, replay, faults>>

\* A plausible slip: the message is acknowledged once its failure is recorded.
SettleFailureAcked(m) ==
    /\ msg[m].pc = "failed"
    /\ CompareAndSwap(m, RecordFailure(msg[m].seen, msg[m].at), Acknowledge(m))
    /\ UNCHANGED <<clock, outbox, notified, claimed, job, replay, faults>>

SettleFailure(m) ==
    LET next == RecordFailure(msg[m].seen, msg[m].at) IN
    /\ msg[m].pc = "failed"
    /\ CompareAndSwap(m, next, IF next.st = "DEAD" THEN Acknowledge(m)
                             ELSE RetryMessage(m, NextAttemptAt(next)))
    /\ UNCHANGED <<clock, outbox, notified, claimed, job, replay, faults>>

\* Realtime is an overlay: only a synchronization race retries the message.
Fanout(m) ==
    /\ msg[m].pc = "delivered"
    /\ Acknowledge(m) \/ RetryMessage(m, Shortly)
    /\ UNCHANGED <<clock, outbox, rows, notified, claimed, job, replay, faults>>

\* A plausible slip: the message is acknowledged when the handler fails.
ConsumerFailsAcked(m) ==
    /\ msg[m].pc # "none" /\ Reached(msg[m].from)
    /\ Fault
    /\ Acknowledge(m)
    /\ UNCHANGED <<clock, outbox, rows, notified, claimed, job, replay>>

\* The worker dies, or a statement other than the attempt's own fails, the load
\* of the row with them.
ConsumerFails(m) ==
    /\ msg[m].pc # "none" /\ Reached(msg[m].from)
    /\ Fault
    /\ RetryMessage(m, Shortly)
    /\ UNCHANGED <<clock, outbox, rows, notified, claimed, job, replay>>

-----------------------------------------------------------------------------
(* The scheduled handler: events, then replays, then compaction *)

Pending == {e \in Events : outbox[e].st = "PENDING"}

Older(e, f) == \/ outbox[e].at < outbox[f].at
               \/ outbox[e].at = outbox[f].at /\ e < f

\* ORDER BY created_at_ms, outbox_event_id LIMIT
Oldest == {e \in Pending : Cardinality({f \in Pending : Older(f, e)}) < BatchLimit}

StartHandler(d) ==
    /\ job[d].phase = "idle"
    /\ job' = [job EXCEPT ![d] = [IdleJob EXCEPT !.phase = "started", !.at = clock]]
    /\ UNCHANGED <<clock, outbox, rows, notified, claimed, msg, replay, faults,
                   discarded>>

\* One row that does not decode fails the whole load and with it the handler.
LoadPending(d) ==
    /\ job[d].phase = "started"
    /\ job' = [job EXCEPT ![d] =
                 IF Oldest \cap Foreign = {}
                 THEN [@ EXCEPT !.phase = "events", !.todo = Oldest]
                 ELSE IdleJob]
    /\ UNCHANGED <<clock, outbox, rows, notified, claimed, msg, replay, faults,
                   discarded>>

Publish(d, e) ==
    /\ job[d].phase = "events" /\ job[d].sent = 0 /\ e \in job[d].todo
    /\ \A f \in job[d].todo : ~Older(f, e)
    /\ Enqueue(e)
    /\ job' = [job EXCEPT ![d].sent = e]
    /\ UNCHANGED <<clock, outbox, rows, notified, claimed, replay, faults>>

\* The next row of the batch.
NextInBatch(d) == [job[d] EXCEPT !.todo = @ \ {job[d].sent}, !.sent = 0]

\* The table refuses a publication before the event's own time, which ends
\* the handler; the handler took the time before it loaded the batch.
MarkPublished(d) ==
    LET e == job[d].sent
        refused == outbox[e].st = "PENDING" /\ job[d].at < outbox[e].at
    IN
    /\ job[d].phase = "events" /\ e # 0
    /\ outbox' = IF refused THEN outbox
                 ELSE [outbox EXCEPT ![e].st = "PUBLISHED"]
    /\ job' = [job EXCEPT ![d] = IF refused THEN IdleJob ELSE NextInBatch(d)]
    /\ UNCHANGED <<clock, rows, notified, claimed, msg, replay, faults,
                   discarded>>

LoadPendingReplays(d) ==
    /\ job[d].phase = "events" /\ job[d].todo = {} /\ job[d].sent = 0
    /\ job' = [job EXCEPT ![d].phase = "replays",
                          ![d].todo = {r \in Replays : replay[r].st = "PENDING"}]
    /\ UNCHANGED <<clock, outbox, rows, notified, claimed, msg, replay, faults,
                   discarded>>

PublishReplay(d, r) ==
    /\ job[d].phase = "replays" /\ job[d].sent = 0 /\ r \in job[d].todo
    /\ Enqueue(replay[r].ev)
    /\ job' = [job EXCEPT ![d].sent = r]
    /\ UNCHANGED <<clock, outbox, rows, notified, claimed, replay, faults>>

\* Marking twice is accepted; a publication before the request, or of a row
\* that was compacted, ends the handler.
MarkReplayPublished(d) ==
    LET r == job[d].sent
        refused == \/ replay[r].st = "PENDING" /\ job[d].at < replay[r].at
                   \/ replay[r].st = "COMPACTED"
    IN
    /\ job[d].phase = "replays" /\ r # 0
    /\ replay' = IF refused THEN replay ELSE [replay EXCEPT ![r].st = "PUBLISHED"]
    /\ job' = [job EXCEPT ![d] = IF refused THEN IdleJob ELSE NextInBatch(d)]
    /\ UNCHANGED <<clock, outbox, rows, notified, claimed, msg, faults,
                   discarded>>

\* Deletes finished deliveries and published dispatches past the retention.
\* (The dispatch's own time is at least its request's, which stands for it.)
Compact(d) ==
    LET old(at) == at + RetentionTtl < job[d].at IN
    /\ job[d].phase = "replays" /\ job[d].todo = {} /\ job[d].sent = 0
    /\ rows' = [e \in Events |->
                  IF rows[e].st = "DELIVERED" /\ old(rows[e].at) THEN Absent
                  ELSE rows[e]]
    /\ replay' = [r \in Replays |->
                    IF replay[r].st = "PUBLISHED" /\ old(replay[r].at)
                    THEN [replay[r] EXCEPT !.st = "COMPACTED"] ELSE replay[r]]
    /\ job' = [job EXCEPT ![d] = IdleJob]
    /\ UNCHANGED <<clock, outbox, notified, claimed, msg, faults,
                   discarded>>

\* A call fails or the worker dies: the rest of the run is abandoned.
DispatchFails(d) ==
    /\ job[d].phase # "idle"
    /\ Fault
    /\ job' = [job EXCEPT ![d] = IdleJob]
    /\ UNCHANGED <<clock, outbox, rows, notified, claimed, msg, replay,
                   discarded>>

-----------------------------------------------------------------------------
(* The operator's replay of a dead letter *)

\* The request is stamped, then the dead letter it names is read.
RequestReplay(r, e) ==
    /\ replay[r].st = "NONE"
    /\ rows[e].st = "DEAD"
    /\ replay' = [replay EXCEPT ![r] = [st |-> "ASKED", ev |-> e, at |-> clock,
                                        n |-> rows[e].n]]
    /\ UNCHANGED <<clock, outbox, rows, notified, claimed, msg, job, faults,
                   discarded>>

\* The insert's triggers check the dead letter again and reopen it together
\* with the dispatch; otherwise the insert is refused.
PrepareReplay(r) ==
    LET e == replay[r].ev
        valid == /\ rows[e].st = "DEAD" /\ rows[e].n = replay[r].n
                 /\ rows[e].at <= replay[r].at
    IN
    /\ replay[r].st = "ASKED"
    /\ rows' = IF valid THEN [rows EXCEPT ![e] = Ready] ELSE rows
    /\ replay' = [replay EXCEPT ![r] = IF valid THEN [@ EXCEPT !.st = "PENDING"]
                                       ELSE NoReplay]
    /\ discarded' = IF valid THEN discarded \ {e} ELSE discarded
    /\ UNCHANGED <<clock, outbox, notified, claimed, msg, job, faults>>

-----------------------------------------------------------------------------
Consume(m) ==
    \/ Load(m) \/ PersistNotification(m) \/ Claim(m) \/ AttemptFails(m)
    \/ SettleSuccess(m) \/ SettleFailure(m) \/ Fanout(m)

Dispatch(d) ==
    \/ StartHandler(d)
    \/ LoadPending(d)
    \/ \E e \in Events : Publish(d, e)
    \/ MarkPublished(d)
    \/ LoadPendingReplays(d)
    \/ \E r \in Replays : PublishReplay(d, r)
    \/ MarkReplayPublished(d)
    \/ Compact(d)

Next ==
    \/ Tick
    \/ \E e \in Events : Emit(e)
    \/ \E m \in Copies : Consume(m)
    \/ \E m \in Copies : ConsumerFails(m)
    \/ \E d \in Dispatchers : Dispatch(d)
    \/ \E d \in Dispatchers : DispatchFails(d)
    \/ \E r \in Replays, e \in Events : RequestReplay(r, e)
    \/ \E r \in Replays : PrepareReplay(r)

\* The cron trigger runs again, the queue delivers what it has not given up, and
\* time passes.
Fairness ==
    /\ WF_vars(Tick)
    /\ \A m \in Copies : WF_vars(Consume(m))
    /\ \A d \in Dispatchers : WF_vars(Dispatch(d))

Spec == Init /\ [][Next]_vars /\ Fairness

-----------------------------------------------------------------------------
(* Properties *)

Active(e) == \E c \in 1..MaxCopies : msg[<<e, c>>].pc # "none"

Open(e) == rows[e].st \in {"READY", "RETRY"}

Carried(e) ==
    \/ outbox[e].st = "PENDING"
    \/ Active(e)
    \/ \E r \in Replays : replay[r].st = "PENDING" /\ replay[r].ev = e

\* An event that was published is never left with nothing that will deliver
\* it, unless the queue itself gave up the last message that worked on it: a
\* delivery that is still open has a message, a pending replay or an unpublished
\* outbox row behind it, an event without a delivery row either has one of these
\* too or has been consumed, and a delivery that is recorded as done has its
\* notification and the consumer's claim in the database, however many copies
\* of the message raced.
NothingStranded ==
    \A e \in Events :
        /\ Open(e) => Carried(e) \/ e \in discarded
        /\ outbox[e].st = "PUBLISHED" /\ rows[e] = Absent
              => Active(e) \/ e \in notified \cap claimed \/ e \in discarded
        /\ rows[e].st = "DELIVERED" => e \in notified \cap claimed

\* Without that exception: what "bounded retries, maximum attempts, DLQ/terminal
\* handling" (docs/ARCHITECTURE.md:474) asks of the consumer, whose attempts end
\* after the queue's.
OpenIsCarried == \A e \in Events : Open(e) => Carried(e)

\* Nothing reopens a delivered event: neither a slow copy of its message that
\* fails nor a replay; its row only disappears by compaction.
DeliveredIsFinal ==
    [][\A e \in Events : rows[e].st = "DELIVERED" =>
           rows'[e] \in {rows[e], Absent}]_vars

Settled(e) ==
    \/ rows[e].st \in {"DELIVERED", "DEAD"}
    \/ rows[e] = Absent /\ e \in notified \cap claimed

\* The two ends of an event that nobody sees to: the queue gave it up, or an
\* outbox row that does not decode heads the dispatcher's batch.
GivenUp(e) == ~Active(e) /\ (e \in discarded \/ Oldest \cap Foreign # {})

\* Every event of the registry that is committed, and every delivery that is
\* reopened, ends delivered or dead-lettered, with finitely many failures
\* beside the attempts' own, or it is given up in one of these two ways and no
\* other.
EveryEventSettles ==
    \A e \in Events \ Foreign :
        (outbox[e].st = "PENDING" \/ Open(e)) ~> (Settled(e) \/ GivenUp(e))

\* The same whatever heads the batch: only the queue gives an event up.
EveryEventReallySettles ==
    \A e \in Events \ Foreign :
        (outbox[e].st = "PENDING" \/ Open(e))
            ~> (Settled(e) \/ (e \in discarded /\ ~Active(e)))

=============================================================================
