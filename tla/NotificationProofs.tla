------------------------- MODULE NotificationProofs -------------------------
(***************************************************************************)
(* For any number of events, message copies, dispatchers and replays, with *)
(* consumers and dispatchers that fail anywhere: a delivered event stays   *)
(* delivered, and nothing that was published is left without something     *)
(* that carries it, except what the queue itself gave up.                  *)
(*                                                                         *)
(* For any number of events, sockets and pages, and any change of the      *)
(* member's grants: its cursor passes nothing that the member could see    *)
(* and was not handed, and a socket that goes live leaves nothing behind.  *)
(***************************************************************************)
EXTENDS NotificationDelivery, NotificationCatchUp, FiniteSetTheorems,
        WellFoundedInduction, TLAPS

\* The types of TypeOK, except that the time before which a message is not
\* delivered again is what it was computed as.
Messages == [pc: {"none", "queued", "loaded", "persisted", "claimed",
                  "failed", "delivered"},
             at: Time, seen: DeliveryState, tries: 0..QueueRetries,
             from: {0} \cup {NextAttemptAt(row) : row \in DeliveryState}]

Jobs == [phase: {"idle", "started", "events", "replays"}, at: Time,
         todo: SUBSET (Events \cup Replays), sent: {0} \cup Events \cup Replays]

ReplayRows == [st: {"NONE", "ASKED", "PENDING", "PUBLISHED", "COMPACTED"},
               ev: {0} \cup Events, at: Time, n: 0..AttemptLimit]

Types ==
    /\ clock \in Time
    /\ outbox \in [Events -> [st: {"ABSENT", "PENDING", "PUBLISHED"}, at: Time]]
    /\ rows \in [Events -> DeliveryState]
    /\ notified \subseteq Events /\ claimed \subseteq Events
    /\ msg \in [Copies -> Messages]
    /\ job \in [Dispatchers -> Jobs]
    /\ replay \in [Replays -> ReplayRows]

\* An attempt is still possible after the state the row is in.
Attemptable(row) == row.st \in {"READY", "RETRY"} /\ row.n < AttemptLimit

\* An open delivery has an attempt left, a recorded one everything that its
\* attempt wrote before.
RowSound(e) ==
    /\ Open(e) => Attemptable(rows[e])
    /\ rows[e].st = "DELIVERED" => e \in notified \cap claimed

\* A consumer works on a row that it read as open, and what it passed is in the
\* database.
MessageSound(m) ==
    /\ msg[m].pc \in {"loaded", "persisted", "claimed", "failed"}
          => Attemptable(msg[m].seen)
    /\ msg[m].pc \in {"persisted", "claimed", "delivered"} => m[1] \in notified
    /\ msg[m].pc \in {"claimed", "delivered"} => m[1] \in claimed

Recorded ==
    /\ Types
    /\ \A e \in Events : RowSound(e)
    /\ \A m \in Copies : MessageSound(m)

-----------------------------------------------------------------------------
(* What carries an event *)

\* A dispatcher publishes what it loaded, and replays only what was requested.
JobSound(d) ==
    /\ job[d].phase \in {"idle", "started"} => job[d].sent = 0
    /\ job[d].phase = "events" => /\ job[d].todo \subseteq Events
                                  /\ job[d].sent \in {0} \cup Events
    /\ job[d].phase = "replays" =>
          /\ job[d].todo \subseteq Replays
          /\ job[d].sent \in {0} \cup job[d].todo
          /\ \A r \in job[d].todo :
                replay[r].st \in {"PENDING", "PUBLISHED", "COMPACTED"}

ReplaySound(r) == replay[r].st # "NONE" => replay[r].ev \in Events

\* A message whose consumer has not yet settled the delivery.
Working(e) ==
    \E c \in 1..MaxCopies : msg[<<e, c>>].pc \notin {"none", "delivered"}

\* A pending replay that no dispatcher has put in the queue and is about to mark.
Unsent(r) ==
    /\ replay[r].st = "PENDING"
    /\ \A d \in Dispatchers : ~(job[d].phase = "replays" /\ job[d].sent = r)

\* A message was put in the queue: the row says so, or is about to.
WasSent(e) ==
    \/ outbox[e].st = "PUBLISHED"
    \/ \E d \in Dispatchers : job[d].phase = "events" /\ job[d].sent = e

\* An open delivery needs no outbox row: what opened it carries it, a message
\* that settles it or a replay that is still to be sent.
OpenCarried(e) ==
    Open(e) => \/ Working(e)
               \/ \E r \in Replays : Unsent(r) /\ replay[r].ev = e
               \/ e \in discarded

SentCarried(e) ==
    WasSent(e) /\ rows[e] = Absent =>
        Active(e) \/ e \in notified \cap claimed \/ e \in discarded

DeliveryInv ==
    /\ Recorded
    /\ \A d \in Dispatchers : JobSound(d)
    /\ \A r \in Replays : ReplaySound(r)

CarriedInv ==
    /\ DeliveryInv
    /\ \A e \in Events : OpenCarried(e) /\ SentCarried(e)

-----------------------------------------------------------------------------
(* The operators of the model *)

\* The values that rows and messages are set to have their types.
LEMMA RowsTyped ==
  /\ Absent \in DeliveryState /\ Ready \in DeliveryState
  /\ Attemptable(Ready)
  BY DeliveryAssumption DEF Absent, Ready, DeliveryState, Time, Attemptable

LEMMA NoMessageTyped == NoMessage \in Messages
  BY RowsTyped, DeliveryAssumption DEF NoMessage, Messages, Time

LEMMA IdleJobTyped == IdleJob \in Jobs
  BY DeliveryAssumption DEF IdleJob, Jobs, Time

LEMMA NoReplayTyped == NoReplay \in ReplayRows
  BY DeliveryAssumption DEF NoReplay, ReplayRows, Time

\* An attempt on an open row is counted, and is the last one only at the limit.
LEMMA AttemptsTyped ==
  ASSUME NEW row \in DeliveryState, Attemptable(row), NEW now \in Time
  PROVE  /\ RecordSuccess(row, now) \in DeliveryState
         /\ RecordSuccess(row, now).st = "DELIVERED"
         /\ RecordFailure(row, now) \in DeliveryState
         /\ RecordFailure(row, now).st \in {"RETRY", "DEAD"}
         /\ RecordFailure(row, now).st = "RETRY"
               => Attemptable(RecordFailure(row, now))
<1>1. row.n \in 0..AttemptLimit /\ row.n < AttemptLimit
  BY DEF DeliveryState, Attemptable
<1>2. row.n + 1 \in 0..AttemptLimit
  BY <1>1, DeliveryAssumption
<1>3. CASE row.n + 1 = AttemptLimit
  BY <1>2, <1>3 DEF RecordSuccess, RecordFailure, DeliveryState, Attemptable
<1>4. CASE row.n + 1 # AttemptLimit
  <2>1. row.n + 1 < AttemptLimit
    BY <1>1, <1>4, DeliveryAssumption
  <2> QED
    BY <1>2, <1>4, <2>1 DEF RecordSuccess, RecordFailure, DeliveryState, Attemptable
<1> QED
  BY <1>3, <1>4

\* The copy that a new message takes is one that was free.
LEMMA FreeCopy ==
  ASSUME NEW e \in Events, Free(e) # {}
  PROVE  /\ <<e, Min(Free(e))>> \in Copies
         /\ msg[<<e, Min(Free(e))>>].pc = "none"
<1>1. Free(e) \subseteq Nat
  BY DeliveryAssumption DEF Free
<1>2. PICK c \in Free(e) : \A b \in Free(e) : ~ (<<b, c>> \in OpToRel(<, Nat))
  BY <1>1, NatLessThanWellFounded, WFMin
<1>3. \A b \in Free(e) : ~(b < c)
  BY <1>1, <1>2 DEF OpToRel
<1>4. c \in Free(e) /\ \A b \in Free(e) : c <= b
  BY <1>1, <1>3
<1>5. Min(Free(e)) \in Free(e)
  BY <1>4 DEF Min
<1> QED
  BY <1>5 DEF Free, Copies

-----------------------------------------------------------------------------
(* What the handler of one message does *)

\* The queue may give up on the message: another one works on its event, or the
\* event counts as discarded.
Dropped(m) == OtherWorks(m) \/ m[1] \in discarded'

\* A step of the message's consumer, or of the queue on it: it touches this
\* message and the row of its event, never a recorded row, and it drops the
\* message only when the row is settled, the message was announced, or the queue
\* gave up on it.
MessageStep(m) ==
    LET e == m[1] IN
    /\ UNCHANGED <<clock, outbox, job, replay>>
    /\ discarded \subseteq discarded'
    /\ rows' \in [Events -> DeliveryState]
    /\ notified \subseteq notified' /\ notified' \subseteq Events
    /\ claimed \subseteq claimed' /\ claimed' \subseteq Events
    /\ msg' \in [Copies -> Messages]
    /\ \A n \in Copies \ {m} : msg'[n] = msg[n]
    /\ \A f \in Events \ {e} : rows'[f] = rows[f]
    /\ MessageSound(m)' /\ RowSound(e)'
    /\ rows[e].st = "DELIVERED" => rows'[e] = rows[e]
    /\ \/ Dropped(m)
       \/ msg'[m].pc \notin {"none", "delivered"}
       \/ ~Open(e)' /\ rows'[e] # Absent
       \/ msg[m].pc = "delivered" /\ rows' = rows

\* Where a message can go: back into the queue, away, or on to the fan-out.
LEMMA MessageMoves ==
  ASSUME Types, NEW m \in Copies, NEW from \in {0} \cup {NextAttemptAt(row) : row \in DeliveryState}
  PROVE  /\ Acknowledge(m) =>
               msg' = [msg EXCEPT ![m] = NoMessage] /\ discarded \subseteq discarded'
         /\ Announce(m) =>
               \E x \in Messages : /\ x.pc = "delivered" /\ msg' = [msg EXCEPT ![m] = x]
                                   /\ discarded \subseteq discarded'
         /\ RetryMessage(m, from) =>
               \E x \in Messages : /\ x.pc \in {"none", "queued"}
                                   /\ Dropped(m) \/ x.pc = "queued"
                                   /\ msg' = [msg EXCEPT ![m] = x]
                                   /\ discarded \subseteq discarded'
<1>1. msg[m].tries \in 0..QueueRetries
  BY DEF Types, Messages
<1>2. Announce(m) =>
        \E x \in Messages : /\ x.pc = "delivered" /\ msg' = [msg EXCEPT ![m] = x]
                            /\ discarded \subseteq discarded'
  BY <1>1, NoMessageTyped DEF Announce, Messages
<1>3. ASSUME RetryMessage(m, from)
      PROVE  \E x \in Messages : /\ x.pc \in {"none", "queued"}
                                 /\ Dropped(m) \/ x.pc = "queued"
                                 /\ msg' = [msg EXCEPT ![m] = x]
                                 /\ discarded \subseteq discarded'
  <2>1. CASE msg[m].tries = QueueRetries
    <3>1. NoMessage.pc = "none"
      BY DEF NoMessage
    <3>2. msg' = [msg EXCEPT ![m] = NoMessage]
          /\ discarded' = IF OtherWorks(m) THEN discarded ELSE discarded \cup {m[1]}
      BY <1>3, <2>1 DEF RetryMessage
    <3>3. Dropped(m) /\ discarded \subseteq discarded'
      BY <3>2 DEF Dropped
    <3> QED
      BY <3>1, <3>2, <3>3, NoMessageTyped
  <2>2. CASE msg[m].tries # QueueRetries
    <3> DEFINE again == [NoMessage EXCEPT !.pc = "queued", !.from = from,
                                          !.tries = msg[m].tries + 1]
    <3>1. msg[m].tries + 1 \in 0..QueueRetries
      BY <1>1, <2>2, DeliveryAssumption
    <3>2. again \in Messages /\ again.pc = "queued"
      BY <3>1, NoMessageTyped DEF Messages
    <3>3. msg' = [msg EXCEPT ![m] = again] /\ discarded' = discarded
      BY <1>3, <2>2 DEF RetryMessage
    <3> QED
      BY <3>2, <3>3
  <2> QED
    BY <2>1, <2>2
<1> QED
  BY <1>2, <1>3 DEF Acknowledge

\* One message and one row changed.
LEMMA OneMessage ==
  ASSUME Recorded, NEW m \in Copies, NEW x \in Messages,
         msg' = [msg EXCEPT ![m] = x], discarded \subseteq discarded',
         rows' \in [Events -> DeliveryState],
         \A f \in Events \ {m[1]} : rows'[f] = rows[f],
         UNCHANGED <<clock, outbox, notified, claimed, job, replay>>,
         x.pc \in {"none", "queued", "failed", "delivered"},
         x.pc = "failed" => Attemptable(x.seen),
         x.pc = "delivered" => rows'[m[1]].st = "DELIVERED",
         RowSound(m[1])',
         rows[m[1]].st = "DELIVERED" => rows'[m[1]] = rows[m[1]],
         \/ Dropped(m)
         \/ x.pc \in {"queued", "failed"}
         \/ ~Open(m[1])' /\ rows'[m[1]] # Absent
         \/ msg[m].pc = "delivered" /\ rows' = rows
  PROVE  MessageStep(m)
<1>1. m[1] \in Events
  BY DEF Copies
<1>2. /\ msg' \in [Copies -> Messages] /\ msg'[m] = x
      /\ \A n \in Copies \ {m} : msg'[n] = msg[n]
  BY DEF Recorded, Types
<1>3. MessageSound(m)'
  BY <1>1, <1>2 DEF MessageSound, RowSound
<1> QED
  BY <1>2, <1>3 DEF MessageStep, Recorded, Types

\* The consumer that lost the race for the row acts on what it finds there.
LEMMA ReconcileMoves ==
  ASSUME Recorded, NEW m \in Copies, ReconcileAfterStale(m),
         UNCHANGED <<clock, outbox, notified, claimed, job, replay>>
  PROVE  MessageStep(m)
<1> DEFINE e == m[1]
<1>1. e \in Events /\ rows[e] \in DeliveryState /\ RowSound(e)
  BY DEF Copies, Recorded, Types
<1>2. /\ rows' \in [Events -> DeliveryState]
      /\ rows'[e] = IF rows[e] = Absent THEN Ready ELSE rows[e]
      /\ \A f \in Events \ {e} : rows'[f] = rows[f]
  BY <1>1, RowsTyped DEF ReconcileAfterStale, Recorded, Types
<1>3. RowSound(e)'
  BY <1>1, <1>2, RowsTyped DEF RowSound, Open, Ready
<1>4. Absent.st = "ABSENT"
  BY DEF Absent
<1>5. PICK x \in Messages :
        /\ msg' = [msg EXCEPT ![m] = x] /\ discarded \subseteq discarded'
        /\ \/ x.pc = "delivered" /\ rows[e].st = "DELIVERED"
           \/ x = NoMessage /\ rows[e].st = "DEAD"
           \/ x.pc \in {"none", "queued"} /\ (Dropped(m) \/ x.pc = "queued")
  <2>1. CASE rows[e].st = "DELIVERED"
    <3>1. Announce(m)
      BY <2>1 DEF ReconcileAfterStale
    <3> QED
      BY <2>1, <3>1, MessageMoves DEF Recorded
  <2>2. CASE rows[e].st = "DEAD"
    <3>1. Acknowledge(m)
      BY <2>2 DEF ReconcileAfterStale
    <3> QED
      BY <2>2, <3>1, MessageMoves, NoMessageTyped DEF Recorded
  <2>3. CASE rows[e].st = "RETRY"
    <3>1. RetryMessage(m, NextAttemptAt(rows[e]))
      BY <2>3 DEF ReconcileAfterStale
    <3> QED
      BY <1>1, <3>1, MessageMoves DEF Recorded
  <2>4. CASE rows[e].st \notin {"DELIVERED", "DEAD", "RETRY"}
    <3>1. RetryMessage(m, Shortly)
      BY <2>4 DEF ReconcileAfterStale
    <3>2. Shortly \in {0} \cup {NextAttemptAt(row) : row \in DeliveryState}
      BY DEF Shortly
    <3> QED
      BY <3>1, <3>2, MessageMoves DEF Recorded
  <2> QED
    BY <2>1, <2>2, <2>3, <2>4
<1>6. NoMessage.pc = "none"
  BY DEF NoMessage
<1> QED
  BY <1>1, <1>2, <1>3, <1>4, <1>5, <1>6, OneMessage DEF Open

\* The delivery settled by the attempt, or by what another one made of the row.
LEMMA SwapMoves ==
  ASSUME Recorded, NEW m \in Copies, Attemptable(msg[m].seen),
         NEW next \in DeliveryState, next.st # "ABSENT",
         next.st \in {"READY", "RETRY"} => Attemptable(next),
         next.st = "DELIVERED" => m[1] \in notified \cap claimed,
         NEW x \in Messages,
         rows[m[1]] = msg[m].seen,
         rows' = [rows EXCEPT ![m[1]] = next],
         msg' = [msg EXCEPT ![m] = x], discarded \subseteq discarded',
         x.pc \in {"none", "queued", "delivered"},
         x.pc = "delivered" => next.st = "DELIVERED",
         Dropped(m) \/ x.pc = "queued" \/ next.st \in {"DELIVERED", "DEAD"},
         UNCHANGED <<clock, outbox, notified, claimed, job, replay>>
  PROVE  MessageStep(m)
<1> DEFINE e == m[1]
<1>1. e \in Events
  BY DEF Copies
<1>2. /\ rows' \in [Events -> DeliveryState]
      /\ rows'[e] = next
      /\ \A f \in Events \ {e} : rows'[f] = rows[f]
  BY <1>1 DEF Recorded, Types
<1>3. RowSound(e)'
  BY <1>2 DEF RowSound, Open
<1>4. Absent.st = "ABSENT"
  BY DEF Absent
<1>5. rows[e].st # "DELIVERED"
  BY DEF Attemptable
<1> QED
  BY <1>1, <1>2, <1>3, <1>4, <1>5, OneMessage DEF Open

LEMMA SettleSuccessMoves ==
  ASSUME Recorded, NEW m \in Copies, SettleSuccess(m)
  PROVE  MessageStep(m)
<1> DEFINE next == RecordSuccess(msg[m].seen, msg[m].at)
<1>1. /\ msg[m].pc = "claimed"
      /\ CompareAndSwap(m, next, Announce(m))
      /\ UNCHANGED <<clock, outbox, notified, claimed, job, replay>>
  BY DEF SettleSuccess
<1>2. Attemptable(msg[m].seen) /\ m[1] \in notified \cap claimed
  BY <1>1 DEF Recorded, MessageSound
<1>3. next \in DeliveryState /\ next.st = "DELIVERED"
  BY <1>2, AttemptsTyped DEF Recorded, Types, Messages
<1> HIDE DEF next
<1>4. CASE rows[m[1]] = msg[m].seen
  <2>1. rows' = [rows EXCEPT ![m[1]] = next] /\ Announce(m)
    BY <1>1, <1>4 DEF CompareAndSwap
  <2>2. PICK x \in Messages : /\ x.pc = "delivered" /\ msg' = [msg EXCEPT ![m] = x]
                             /\ discarded \subseteq discarded'
    BY <2>1, MessageMoves DEF Recorded
  <2> QED
    BY <1>1, <1>2, <1>3, <1>4, <2>1, <2>2, SwapMoves
<1>5. CASE rows[m[1]] # msg[m].seen
  BY <1>1, <1>5, ReconcileMoves DEF CompareAndSwap
<1> QED
  BY <1>4, <1>5

LEMMA SettleFailureMoves ==
  ASSUME Recorded, NEW m \in Copies, SettleFailure(m)
  PROVE  MessageStep(m)
<1> DEFINE next == RecordFailure(msg[m].seen, msg[m].at)
           Then == IF next.st = "DEAD" THEN Acknowledge(m)
                   ELSE RetryMessage(m, NextAttemptAt(next))
<1>1. /\ msg[m].pc = "failed"
      /\ CompareAndSwap(m, next, Then)
      /\ UNCHANGED <<clock, outbox, notified, claimed, job, replay>>
  BY DEF SettleFailure
<1>2. Attemptable(msg[m].seen)
  BY <1>1 DEF Recorded, MessageSound
<1>3. /\ next \in DeliveryState /\ next.st \in {"RETRY", "DEAD"}
      /\ next.st = "RETRY" => Attemptable(next)
  BY <1>2, AttemptsTyped DEF Recorded, Types, Messages
<1> HIDE DEF next
<1>4. CASE rows[m[1]] = msg[m].seen
  <2>1. rows' = [rows EXCEPT ![m[1]] = next] /\ Then
    BY <1>1, <1>4 DEF CompareAndSwap
  <2>2. NoMessage.pc = "none"
    BY DEF NoMessage
  <2>3. \E x \in Messages : /\ x.pc \in {"none", "queued"}
                            /\ Dropped(m) \/ x.pc = "queued" \/ next.st = "DEAD"
                            /\ msg' = [msg EXCEPT ![m] = x]
                            /\ discarded \subseteq discarded'
    BY <1>3, <2>1, <2>2, MessageMoves, NoMessageTyped DEF Recorded
  <2> QED
    BY <1>1, <1>2, <1>3, <1>4, <2>1, <2>3, SwapMoves
<1>5. CASE rows[m[1]] # msg[m].seen
  BY <1>1, <1>5, ReconcileMoves DEF CompareAndSwap
<1> QED
  BY <1>4, <1>5

\* The row is created when it is missing; what it says decides.
LEMMA LoadMoves ==
  ASSUME Recorded, NEW m \in Copies, Load(m)
  PROVE  MessageStep(m)
<1> DEFINE e == m[1]
           row == IF rows[e] = Absent THEN Ready ELSE rows[e]
<1>1. e \in Events /\ rows[e] \in DeliveryState /\ RowSound(e)
  BY DEF Copies, Recorded, Types
<1>2. /\ row \in DeliveryState /\ row # Absent
      /\ row.st \in {"READY", "RETRY"} => Attemptable(row)
      /\ row.st = "DELIVERED" => row = rows[e]
      /\ rows[e].st = "DELIVERED" => row = rows[e]
  <2>1. Ready.st = "READY" /\ Absent.st = "ABSENT"
    BY DEF Ready, Absent
  <2> QED
    BY <1>1, <2>1, RowsTyped DEF RowSound, Open
<1> HIDE DEF row
<1>3. /\ rows' = [rows EXCEPT ![e] = row]
      /\ UNCHANGED <<clock, outbox, notified, claimed, job, replay>>
  BY DEF Load, row
<1>4. /\ rows' \in [Events -> DeliveryState] /\ rows'[e] = row
      /\ \A f \in Events \ {e} : rows'[f] = rows[f]
  BY <1>1, <1>2, <1>3 DEF Recorded, Types
<1>5. RowSound(e)'
  BY <1>1, <1>2, <1>3, <1>4 DEF RowSound, Open
<1>6. CASE row.st \in {"DELIVERED", "DEAD"}
  <2>1. (row.st = "DELIVERED" /\ Announce(m)) \/ (row.st = "DEAD" /\ Acknowledge(m))
    BY <1>6 DEF Load, row, IsDue
  <2>2. NoMessage.pc = "none"
    BY DEF NoMessage
  <2>3. \E x \in Messages : /\ x.pc \in {"none", "delivered"}
                            /\ x.pc = "delivered" => row.st = "DELIVERED"
                            /\ msg' = [msg EXCEPT ![m] = x]
                            /\ discarded \subseteq discarded'
    BY <2>1, <2>2, MessageMoves, NoMessageTyped DEF Recorded
  <2> QED
    BY <1>2, <1>3, <1>4, <1>5, <1>6, <2>3, OneMessage DEF Open
<1>7. CASE row.st \notin {"DELIVERED", "DEAD"} /\ IsDue(row)
  <2>1. /\ msg' = [msg EXCEPT ![m].pc = "loaded", ![m].at = clock,
                              ![m].seen = row, ![m].from = 0]
        /\ discarded' = discarded
    BY <1>7 DEF Load, row
  <2>2. Attemptable(row)
    BY <1>2, <1>7 DEF IsDue
  <2>3. /\ msg' \in [Copies -> Messages]
        /\ msg'[m].pc = "loaded" /\ msg'[m].seen = row
        /\ \A n \in Copies \ {m} : msg'[n] = msg[n]
    <3> DEFINE x == [msg[m] EXCEPT !.pc = "loaded", !.at = clock,
                                   !.seen = row, !.from = 0]
    <3>1. x \in Messages /\ x.pc = "loaded" /\ x.seen = row
      BY <1>2 DEF Recorded, Types, Messages
    <3>2. msg' = [msg EXCEPT ![m] = x]
      BY <2>1 DEF Recorded, Types
    <3> HIDE DEF x
    <3> QED
      BY <3>1, <3>2 DEF Recorded, Types
  <2>4. MessageSound(m)'
    BY <2>2, <2>3 DEF MessageSound
  <2> QED
    BY <1>2, <1>3, <1>4, <1>5, <2>1, <2>3, <2>4 DEF MessageStep, Recorded, Types
<1>8. CASE row.st \notin {"DELIVERED", "DEAD"} /\ ~IsDue(row)
  <2>1. RetryMessage(m, NextAttemptAt(row))
    BY <1>8 DEF Load, row
  <2>2. \E x \in Messages : /\ x.pc \in {"none", "queued"}
                            /\ Dropped(m) \/ x.pc = "queued"
                            /\ msg' = [msg EXCEPT ![m] = x]
                            /\ discarded \subseteq discarded'
    BY <1>2, <2>1, MessageMoves DEF Recorded
  <2> QED
    BY <1>2, <1>3, <1>4, <1>5, <2>2, OneMessage
<1> QED
  BY <1>6, <1>7, <1>8

\* The notification and the claim are written before the consumer relies on
\* them; an attempt that fails keeps what it read.
LEMMA AttemptMoves ==
  ASSUME Recorded, NEW m \in Copies,
         PersistNotification(m) \/ Claim(m) \/ AttemptFails(m)
  PROVE  MessageStep(m)
<1>1. m[1] \in Events
  BY DEF Copies
<1>2. PICK p \in {"persisted", "claimed", "failed"} :
        /\ msg' = [msg EXCEPT ![m].pc = p]
        /\ msg[m].pc \in {"loaded", "persisted"}
        /\ p = "persisted" => m[1] \in notified'
        /\ p = "claimed" => msg[m].pc = "persisted" /\ m[1] \in claimed'
  BY DEF PersistNotification, Claim, AttemptFails
<1>3. /\ UNCHANGED <<clock, outbox, rows, job, replay, discarded>>
      /\ notified \subseteq notified' /\ notified' \subseteq Events
      /\ claimed \subseteq claimed' /\ claimed' \subseteq Events
  BY <1>1 DEF PersistNotification, Claim, AttemptFails, Recorded, Types
<1>4. /\ msg' \in [Copies -> Messages]
      /\ msg'[m].pc = p /\ msg'[m].seen = msg[m].seen
      /\ \A n \in Copies \ {m} : msg'[n] = msg[n]
  BY <1>2 DEF Recorded, Types, Messages
<1>5. MessageSound(m) /\ RowSound(m[1])
  BY <1>1 DEF Recorded
<1>6. MessageSound(m)'
  BY <1>2, <1>3, <1>4, <1>5 DEF MessageSound
<1>7. RowSound(m[1])'
  BY <1>1, <1>3, <1>5 DEF RowSound, Open
<1> QED
  BY <1>3, <1>4, <1>6, <1>7 DEF MessageStep, Recorded, Types

\* After the fan-out, and after a failure, the message is dropped or queued.
LEMMA DoneMoves ==
  ASSUME Recorded, NEW m \in Copies, Fanout(m) \/ ConsumerFails(m)
  PROVE  MessageStep(m)
<1>1. UNCHANGED <<clock, outbox, rows, notified, claimed, job, replay>>
  BY DEF Fanout, ConsumerFails
<1>2. m[1] \in Events /\ RowSound(m[1])
  BY DEF Copies, Recorded
<1>3. RowSound(m[1])' /\ rows' \in [Events -> DeliveryState]
  BY <1>1, <1>2 DEF RowSound, Open, Recorded, Types
<1>4. (Acknowledge(m) /\ msg[m].pc = "delivered") \/ RetryMessage(m, Shortly)
  BY DEF Fanout, ConsumerFails
<1>5. NoMessage.pc = "none"
      /\ Shortly \in {0} \cup {NextAttemptAt(row) : row \in DeliveryState}
  BY DEF NoMessage, Shortly
<1>6. \E x \in Messages :
        /\ x.pc \in {"none", "queued"}
        /\ Dropped(m) \/ x.pc = "queued" \/ msg[m].pc = "delivered"
        /\ msg' = [msg EXCEPT ![m] = x]
        /\ discarded \subseteq discarded'
  BY <1>4, <1>5, MessageMoves, NoMessageTyped DEF Recorded
<1> QED
  BY <1>1, <1>3, <1>6, OneMessage

LEMMA ConsumeMoves ==
  ASSUME Recorded, NEW m \in Copies, Consume(m) \/ ConsumerFails(m)
  PROVE  MessageStep(m)
  BY LoadMoves, AttemptMoves, SettleSuccessMoves, SettleFailureMoves, DoneMoves
     DEF Consume

-----------------------------------------------------------------------------
(* What was delivered is recorded and stays so *)

LEMMA InitRecorded == Init => Recorded
<1> SUFFICES ASSUME Init PROVE Recorded
  OBVIOUS
<1>1. Types
  <2>1. outbox \in [Events -> [st: {"ABSENT", "PENDING", "PUBLISHED"}, at: Time]]
        /\ clock \in Time
    BY DeliveryAssumption DEF Init, Time
  <2>2. /\ rows \in [Events -> DeliveryState] /\ msg \in [Copies -> Messages]
        /\ job \in [Dispatchers -> Jobs] /\ replay \in [Replays -> ReplayRows]
    BY RowsTyped, NoMessageTyped, IdleJobTyped, NoReplayTyped DEF Init
  <2> QED
    BY <2>1, <2>2 DEF Init, Types
<1>2. ASSUME NEW e \in Events PROVE RowSound(e)
  BY DEF Init, RowSound, Open, Absent
<1>3. ASSUME NEW m \in Copies PROVE MessageSound(m)
  BY DEF Init, MessageSound, NoMessage
<1> QED
  BY <1>1, <1>2, <1>3 DEF Recorded

\* The other messages and rows of a step of one message stay as they are.
LEMMA MessageKeepsRecorded ==
  ASSUME Recorded, NEW m \in Copies, MessageStep(m)
  PROVE  Recorded'
<1>1. Types'
  BY DEF MessageStep, Recorded, Types
<1>2. ASSUME NEW e \in Events PROVE RowSound(e)'
  <2>1. CASE e = m[1]
    BY <2>1 DEF MessageStep
  <2>2. CASE e # m[1]
    BY <2>2 DEF MessageStep, Recorded, RowSound, Open
  <2> QED
    BY <2>1, <2>2
<1>3. ASSUME NEW n \in Copies PROVE MessageSound(n)'
  <2>1. CASE n = m
    BY <2>1 DEF MessageStep
  <2>2. CASE n # m
    BY <2>2 DEF MessageStep, Recorded, MessageSound
  <2> QED
    BY <2>1, <2>2
<1> QED
  BY <1>1, <1>2, <1>3 DEF Recorded

\* The statements of dispatchers and operators on rows: nothing is reopened but
\* a dead letter, nothing disappears but a recorded delivery.
RowStep ==
    /\ UNCHANGED <<notified, claimed>>
    /\ \A e \in Events :
          \/ rows'[e] = rows[e]
          \/ rows[e].st = "DELIVERED" /\ rows'[e] = Absent
          \/ rows[e].st = "DEAD" /\ rows'[e] = Ready

\* What they do to messages: new copies are queued.
QueueStep ==
    \A m \in Copies :
        \/ msg'[m] = msg[m]
        \/ msg[m].pc = "none" /\ msg'[m].pc = "queued"

\* A new message takes a free copy.
LEMMA EnqueueMoves ==
  ASSUME Types, NEW e \in Events, Enqueue(e)
  PROVE  /\ msg' \in [Copies -> Messages]
         /\ QueueStep
         /\ Working(e)'
<1> DEFINE m == <<e, Min(Free(e))>>
           x == [NoMessage EXCEPT !.pc = "queued"]
<1>1. m \in Copies /\ msg[m].pc = "none"
  BY FreeCopy DEF Enqueue
<1>2. x \in Messages /\ x.pc = "queued"
  BY NoMessageTyped DEF Messages
<1>3. msg' = [msg EXCEPT ![m] = x]
  BY DEF Enqueue
<1> HIDE DEF x
<1>4. /\ msg' \in [Copies -> Messages] /\ msg'[m].pc = "queued"
      /\ \A n \in Copies \ {m} : msg'[n] = msg[n]
  BY <1>1, <1>2, <1>3 DEF Types
<1>5. Min(Free(e)) \in 1..MaxCopies
  BY <1>1 DEF Copies
<1> QED
  BY <1>1, <1>4, <1>5 DEF QueueStep, Working

\* Such statements keep what is recorded.
LEMMA RowStepKeepsRecorded ==
  ASSUME Recorded, Types', RowStep, QueueStep
  PROVE  Recorded'
<1>1. Absent.st = "ABSENT" /\ Ready.st = "READY"
  BY DEF Absent, Ready
<1>2. ASSUME NEW e \in Events PROVE RowSound(e)'
  BY <1>1, RowsTyped DEF Recorded, RowStep, RowSound, Open
<1>3. ASSUME NEW m \in Copies PROVE MessageSound(m)'
  BY DEF Recorded, RowStep, QueueStep, MessageSound
<1> QED
  BY <1>2, <1>3 DEF Recorded

-----------------------------------------------------------------------------
(* What dispatchers and operators do *)

\* The parts of a step beside the messages' consumers.
PlainStep ==
    /\ Types' /\ RowStep /\ QueueStep
    /\ \A d \in Dispatchers : JobSound(d)'
    /\ \A r \in Replays : ReplaySound(r)'

\* A step of one dispatcher that leaves the replays alone.
LEMMA JobStep ==
  ASSUME DeliveryInv, NEW d \in Dispatchers, NEW j \in Jobs,
         job' = [job EXCEPT ![d] = j],
         UNCHANGED <<clock, rows, notified, claimed, replay>>,
         outbox' \in [Events -> [st: {"ABSENT", "PENDING", "PUBLISHED"}, at: Time]],
         msg' \in [Copies -> Messages], QueueStep,
         JobSound(d)'
  PROVE  PlainStep
<1>1. /\ job' \in [Dispatchers -> Jobs]
      /\ \A c \in Dispatchers \ {d} : job'[c] = job[c]
  BY DEF DeliveryInv, Recorded, Types
<1>2. Types'
  BY <1>1 DEF DeliveryInv, Recorded, Types
<1>3. RowStep
  BY DEF RowStep
<1>4. ASSUME NEW c \in Dispatchers PROVE JobSound(c)'
  BY <1>1 DEF DeliveryInv, JobSound
<1>5. ASSUME NEW r \in Replays PROVE ReplaySound(r)'
  BY DEF DeliveryInv, ReplaySound
<1> QED
  BY <1>2, <1>3, <1>4, <1>5 DEF PlainStep

\* A message that does not change is a step of the queue.
LEMMA QueueStays == ASSUME UNCHANGED msg PROVE QueueStep
  BY DEF QueueStep

\* A run of the handler starts and is given up with nothing sent.
LEMMA IdleMoves ==
  ASSUME DeliveryInv, NEW d \in Dispatchers, StartHandler(d) \/ DispatchFails(d)
  PROVE  /\ PlainStep /\ UNCHANGED <<outbox, rows, replay>>
         /\ job'[d].sent = 0
         /\ \A c \in Dispatchers \ {d} : job'[c] = job[c]
<1> DEFINE started == [IdleJob EXCEPT !.phase = "started", !.at = clock]
<1>1. /\ started \in Jobs /\ started.phase = "started" /\ started.sent = 0
      /\ IdleJob.phase = "idle" /\ IdleJob.sent = 0
  BY IdleJobTyped DEF DeliveryInv, Recorded, Types, Jobs, IdleJob
<1>2. /\ UNCHANGED <<clock, outbox, rows, notified, claimed, msg, replay>>
      /\ \/ job' = [job EXCEPT ![d] = started]
         \/ job' = [job EXCEPT ![d] = IdleJob]
  BY DEF StartHandler, DispatchFails
<1> HIDE DEF started
<1>3. PICK j \in Jobs : /\ job' = [job EXCEPT ![d] = j]
                        /\ j.phase \in {"idle", "started"} /\ j.sent = 0
  BY <1>1, <1>2, IdleJobTyped
<1>4. job'[d] = j /\ \A c \in Dispatchers \ {d} : job'[c] = job[c]
  BY <1>3 DEF DeliveryInv, Recorded, Types
<1>5. JobSound(d)'
  BY <1>3, <1>4 DEF JobSound
<1> QED
  BY <1>2, <1>3, <1>4, <1>5, JobStep, QueueStays DEF DeliveryInv, Recorded, Types

\* The batches are events, and replays that were requested.
LEMMA LoadBatchMoves ==
  ASSUME DeliveryInv, NEW d \in Dispatchers,
         LoadPending(d) \/ LoadPendingReplays(d)
  PROVE  /\ PlainStep /\ UNCHANGED <<outbox, rows, replay>>
         /\ job'[d].sent = 0
         /\ \A c \in Dispatchers \ {d} : job'[c] = job[c]
<1>1. job[d] \in Jobs /\ UNCHANGED <<clock, outbox, rows, notified, claimed, msg, replay>>
  BY DEF LoadPending, LoadPendingReplays, DeliveryInv, Recorded, Types
<1>2. Oldest \subseteq Events
  BY DEF Oldest, Pending
<1>3. \E j \in Jobs :
        /\ job' = [job EXCEPT ![d] = j]
        /\ j.sent = 0
        /\ j.phase \in {"idle", "events", "replays"}
        /\ j.phase = "events" => j.todo \subseteq Events
        /\ j.phase = "replays" => j.todo = {r \in Replays : replay[r].st = "PENDING"}
  <2>1. CASE LoadPending(d) /\ Oldest \cap Foreign = {}
    <3> DEFINE j == [job[d] EXCEPT !.phase = "events", !.todo = Oldest]
    <3>1. j \in Jobs /\ j.phase = "events" /\ j.todo = Oldest
      BY <1>1, <1>2 DEF Jobs
    <3>2. j.sent = 0
      BY <1>1, <2>1 DEF LoadPending, DeliveryInv, JobSound, Jobs
    <3>3. job' = [job EXCEPT ![d] = j]
      BY <2>1 DEF LoadPending
    <3> HIDE DEF j
    <3> QED
      BY <1>2, <3>1, <3>2, <3>3
  <2>2. CASE LoadPending(d) /\ Oldest \cap Foreign # {}
    <3>1. IdleJob.phase = "idle" /\ IdleJob.sent = 0
      BY DEF IdleJob
    <3> QED
      BY <2>2, <3>1, IdleJobTyped DEF LoadPending
  <2>3. CASE LoadPendingReplays(d)
    <3> DEFINE batch == {r \in Replays : replay[r].st = "PENDING"}
               j == [job[d] EXCEPT !.phase = "replays", !.todo = batch]
    <3>1. j \in Jobs /\ j.phase = "replays" /\ j.todo = batch
      BY <1>1 DEF Jobs
    <3>2. j.sent = 0
      BY <1>1, <2>3 DEF LoadPendingReplays, Jobs
    <3>3. job' = [job EXCEPT ![d] = j]
      BY <2>3 DEF LoadPendingReplays, DeliveryInv, Recorded, Types
    <3> HIDE DEF j
    <3> QED
      BY <3>1, <3>2, <3>3
  <2> QED
    BY <2>1, <2>2, <2>3
<1>4. PICK j \in Jobs :
        /\ job' = [job EXCEPT ![d] = j]
        /\ j.sent = 0
        /\ j.phase \in {"idle", "events", "replays"}
        /\ j.phase = "events" => j.todo \subseteq Events
        /\ j.phase = "replays" => j.todo = {r \in Replays : replay[r].st = "PENDING"}
  BY <1>3
<1>5. job'[d] = j /\ \A c \in Dispatchers \ {d} : job'[c] = job[c]
  BY <1>4 DEF DeliveryInv, Recorded, Types
<1>6. JobSound(d)'
  BY <1>1, <1>4, <1>5 DEF JobSound
<1> QED
  BY <1>1, <1>4, <1>5, <1>6, JobStep, QueueStays DEF DeliveryInv, Recorded, Types

\* A dispatcher puts what it loaded in the queue and remembers it.
LEMMA PublishMoves ==
  ASSUME DeliveryInv, NEW d \in Dispatchers, NEW e \in Events, Publish(d, e)
  PROVE  /\ PlainStep /\ Working(e)' /\ UNCHANGED <<outbox, rows, replay>>
         /\ job'[d].phase = "events" /\ job'[d].sent = e
         /\ \A c \in Dispatchers \ {d} : job'[c] = job[c]
<1> DEFINE j == [job[d] EXCEPT !.sent = e]
<1>1. /\ job[d] \in Jobs /\ job[d].phase = "events" /\ e \in job[d].todo
      /\ UNCHANGED <<clock, outbox, rows, notified, claimed, replay>>
      /\ job' = [job EXCEPT ![d] = j]
      /\ Enqueue(e)
  BY DEF Publish, DeliveryInv, Recorded, Types
<1>2. /\ j \in Jobs /\ j.phase = "events" /\ j.sent = e
      /\ j.todo = job[d].todo
  BY <1>1 DEF Jobs
<1> HIDE DEF j
<1>3. msg' \in [Copies -> Messages] /\ QueueStep /\ Working(e)'
  BY <1>1, EnqueueMoves DEF DeliveryInv, Recorded
<1>4. /\ job'[d] = j /\ JobSound(d)
      /\ \A c \in Dispatchers \ {d} : job'[c] = job[c]
  BY <1>1 DEF DeliveryInv, Recorded, Types
<1>5. JobSound(d)'
  BY <1>1, <1>2, <1>4 DEF JobSound
<1> QED
  BY <1>1, <1>2, <1>3, <1>4, <1>5, JobStep DEF DeliveryInv, Recorded, Types

LEMMA PublishReplayMoves ==
  ASSUME DeliveryInv, NEW d \in Dispatchers, NEW r \in Replays, PublishReplay(d, r)
  PROVE  /\ PlainStep /\ UNCHANGED <<outbox, rows, replay>>
         /\ \E e \in Events : replay[r].ev = e /\ Working(e)'
         /\ job'[d].phase = "replays" /\ job'[d].sent = r
         /\ \A c \in Dispatchers \ {d} : job'[c] = job[c]
<1> DEFINE j == [job[d] EXCEPT !.sent = r]
<1>1. /\ job[d] \in Jobs /\ job[d].phase = "replays" /\ r \in job[d].todo
      /\ UNCHANGED <<clock, outbox, rows, notified, claimed, replay>>
      /\ job' = [job EXCEPT ![d] = j]
      /\ Enqueue(replay[r].ev)
  BY DEF PublishReplay, DeliveryInv, Recorded, Types
<1>2. /\ j \in Jobs /\ j.phase = "replays" /\ j.sent = r
      /\ j.todo = job[d].todo
  BY <1>1 DEF Jobs
<1> HIDE DEF j
<1>3. JobSound(d) /\ replay[r].ev \in Events
  BY <1>1 DEF DeliveryInv, JobSound, ReplaySound
<1>4. PICK e \in Events : replay[r].ev = e /\ Enqueue(e)
  BY <1>1, <1>3
<1>5. msg' \in [Copies -> Messages] /\ QueueStep /\ Working(e)'
  BY <1>4, EnqueueMoves DEF DeliveryInv, Recorded
<1>6. job'[d] = j /\ \A c \in Dispatchers \ {d} : job'[c] = job[c]
  BY <1>1 DEF DeliveryInv, Recorded, Types
<1>7. JobSound(d)'
  BY <1>1, <1>2, <1>3, <1>6 DEF JobSound
<1> QED
  BY <1>1, <1>2, <1>3, <1>4, <1>5, <1>6, <1>7, JobStep DEF DeliveryInv, Recorded, Types

\* Marking ends with the next row of the batch, or with the run.
LEMMA MarkedJob ==
  ASSUME DeliveryInv, NEW d \in Dispatchers,
         \/ job' = [job EXCEPT ![d] = IdleJob]
         \/ job' = [job EXCEPT ![d] = NextInBatch(d)]
  PROVE  /\ job' \in [Dispatchers -> Jobs]
         /\ job'[d] \in Jobs /\ job' = [job EXCEPT ![d] = job'[d]]
         /\ \A c \in Dispatchers \ {d} : job'[c] = job[c]
         /\ job'[d].sent = 0
         /\ \/ job'[d].phase = "idle"
            \/ job'[d].phase = job[d].phase /\ job'[d].todo \subseteq job[d].todo
<1>1. job[d] \in Jobs
  BY DEF DeliveryInv, Recorded, Types
<1>2. /\ NextInBatch(d) \in Jobs /\ NextInBatch(d).sent = 0
      /\ NextInBatch(d).phase = job[d].phase
      /\ NextInBatch(d).todo \subseteq job[d].todo
  BY <1>1 DEF Jobs, NextInBatch
<1>3. IdleJob.phase = "idle" /\ IdleJob.sent = 0
  BY DEF IdleJob
<1> QED
  BY <1>2, <1>3, IdleJobTyped DEF DeliveryInv, Recorded, Types

LEMMA MarkPublishedMoves ==
  ASSUME DeliveryInv, NEW d \in Dispatchers, MarkPublished(d)
  PROVE  /\ PlainStep /\ UNCHANGED <<rows, replay>>
         /\ job[d].phase = "events" /\ job'[d].sent = 0
         /\ \A c \in Dispatchers \ {d} : job'[c] = job[c]
         /\ \A e \in Events \ {job[d].sent} : outbox'[e] = outbox[e]
<1> DEFINE e == job[d].sent
<1>1. /\ job[d].phase = "events" /\ e # 0
      /\ UNCHANGED <<clock, rows, notified, claimed, msg, replay>>
      /\ outbox' = outbox \/ outbox' = [outbox EXCEPT ![e].st = "PUBLISHED"]
      /\ \/ job' = [job EXCEPT ![d] = IdleJob]
         \/ job' = [job EXCEPT ![d] = NextInBatch(d)]
  BY DEF MarkPublished
<1>2. e \in Events /\ JobSound(d)
  BY <1>1 DEF DeliveryInv, JobSound
<1>3. /\ outbox' \in [Events -> [st: {"ABSENT", "PENDING", "PUBLISHED"}, at: Time]]
      /\ \A f \in Events \ {e} : outbox'[f] = outbox[f]
  BY <1>1, <1>2 DEF DeliveryInv, Recorded, Types
<1>4. /\ job'[d] \in Jobs /\ job' = [job EXCEPT ![d] = job'[d]]
      /\ job'[d].sent = 0
      /\ \A c \in Dispatchers \ {d} : job'[c] = job[c]
      /\ \/ job'[d].phase = "idle"
         \/ job'[d].phase = job[d].phase /\ job'[d].todo \subseteq job[d].todo
  BY <1>1, MarkedJob
<1>5. JobSound(d)'
  BY <1>1, <1>2, <1>4 DEF JobSound
<1>6. PlainStep
  BY <1>1, <1>3, <1>4, <1>5, JobStep, QueueStays DEF DeliveryInv, Recorded, Types
<1> QED
  BY <1>1, <1>3, <1>4, <1>6

\* Steps that change replays leave a requested one requested, for its event.
LEMMA ReplayStep ==
  ASSUME DeliveryInv,
         replay' \in [Replays -> ReplayRows],
         \A r \in Replays :
            /\ replay'[r].st # "NONE" => replay'[r].ev \in Events
            /\ replay[r].st \in {"PENDING", "PUBLISHED", "COMPACTED"}
                  => replay'[r].st \in {"PENDING", "PUBLISHED", "COMPACTED"},
         job' \in [Dispatchers -> Jobs],
         \A c \in Dispatchers : job'[c] = job[c] \/ JobSound(c)',
         UNCHANGED <<clock, outbox, notified, claimed, msg>>,
         rows' \in [Events -> DeliveryState], RowStep
  PROVE  PlainStep
<1>1. Types'
  BY DEF DeliveryInv, Recorded, Types
<1>2. ASSUME NEW c \in Dispatchers PROVE JobSound(c)'
  <2>1. CASE job'[c] = job[c]
    BY <2>1 DEF DeliveryInv, JobSound
  <2>2. CASE job'[c] # job[c]
    BY <2>2
  <2> QED
    BY <2>1, <2>2
<1>3. ASSUME NEW r \in Replays PROVE ReplaySound(r)'
  BY DEF ReplaySound
<1> QED
  BY <1>1, <1>2, <1>3, QueueStays DEF PlainStep

LEMMA MarkReplayPublishedMoves ==
  ASSUME DeliveryInv, NEW d \in Dispatchers, MarkReplayPublished(d)
  PROVE  /\ PlainStep /\ UNCHANGED <<outbox, rows>>
         /\ job[d].phase = "replays" /\ job'[d].sent = 0
         /\ \A c \in Dispatchers \ {d} : job'[c] = job[c]
         /\ \A r \in Replays \ {job[d].sent} : replay'[r] = replay[r]
         /\ \A r \in Replays : replay'[r].ev = replay[r].ev
<1> DEFINE r == job[d].sent
<1>1. /\ job[d].phase = "replays" /\ r # 0
      /\ UNCHANGED <<clock, outbox, rows, notified, claimed, msg>>
      /\ replay' = replay \/ replay' = [replay EXCEPT ![r].st = "PUBLISHED"]
      /\ \/ job' = [job EXCEPT ![d] = IdleJob]
         \/ job' = [job EXCEPT ![d] = NextInBatch(d)]
  BY DEF MarkReplayPublished
<1>2. r \in Replays /\ JobSound(d) /\ ReplaySound(r)
      /\ replay[r].st \in {"PENDING", "PUBLISHED", "COMPACTED"}
  BY <1>1 DEF DeliveryInv, JobSound
<1>3. /\ replay' \in [Replays -> ReplayRows]
      /\ replay' = replay \/ replay'[r].st = "PUBLISHED"
      /\ \A s \in Replays \ {r} : replay'[s] = replay[s]
      /\ \A s \in Replays : replay'[s].ev = replay[s].ev
  BY <1>1, <1>2 DEF DeliveryInv, Recorded, Types, ReplayRows
<1>4. /\ job' \in [Dispatchers -> Jobs] /\ job'[d].sent = 0
      /\ \A c \in Dispatchers \ {d} : job'[c] = job[c]
      /\ \/ job'[d].phase = "idle"
         \/ job'[d].phase = job[d].phase /\ job'[d].todo \subseteq job[d].todo
  BY <1>1, MarkedJob
<1>5. \A s \in Replays :
         /\ replay'[s].st # "NONE" => replay'[s].ev \in Events
         /\ replay[s].st \in {"PENDING", "PUBLISHED", "COMPACTED"}
               => replay'[s].st \in {"PENDING", "PUBLISHED", "COMPACTED"}
  BY <1>2, <1>3 DEF DeliveryInv, ReplaySound
<1>6. JobSound(d)'
  BY <1>1, <1>2, <1>4, <1>5 DEF JobSound
<1>7. RowStep /\ rows' \in [Events -> DeliveryState]
  BY <1>1 DEF RowStep, DeliveryInv, Recorded, Types
<1>8. PlainStep
  BY <1>1, <1>3, <1>4, <1>5, <1>6, <1>7, ReplayStep
<1> QED
  BY <1>1, <1>3, <1>4, <1>8

LEMMA CompactMoves ==
  ASSUME DeliveryInv, NEW d \in Dispatchers, Compact(d)
  PROVE  /\ PlainStep /\ UNCHANGED outbox
         /\ job'[d].sent = 0
         /\ \A c \in Dispatchers \ {d} : job'[c] = job[c]
         /\ \A e \in Events : rows'[e] = rows[e] \/ rows'[e] = Absent
         /\ \A r \in Replays : replay'[r] = replay[r] \/ replay[r].st = "PUBLISHED"
<1> DEFINE old(at) == at + RetentionTtl < job[d].at
<1>1. /\ rows' = [e \in Events |-> IF rows[e].st = "DELIVERED" /\ old(rows[e].at)
                                   THEN Absent ELSE rows[e]]
      /\ replay' = [r \in Replays |-> IF replay[r].st = "PUBLISHED" /\ old(replay[r].at)
                                      THEN [replay[r] EXCEPT !.st = "COMPACTED"]
                                      ELSE replay[r]]
      /\ job' = [job EXCEPT ![d] = IdleJob] /\ job[d].sent = 0
      /\ UNCHANGED <<clock, outbox, notified, claimed, msg>>
  BY DEF Compact
<1> HIDE DEF old
<1>2. /\ rows' \in [Events -> DeliveryState]
      /\ \A e \in Events : \/ rows'[e] = rows[e]
                           \/ rows[e].st = "DELIVERED" /\ rows'[e] = Absent
  BY <1>1, RowsTyped DEF DeliveryInv, Recorded, Types
<1>3. ASSUME NEW r \in Replays
      PROVE  /\ replay'[r] \in ReplayRows /\ replay'[r].ev = replay[r].ev
             /\ \/ replay'[r] = replay[r]
                \/ replay[r].st = "PUBLISHED" /\ replay'[r].st = "COMPACTED"
  <2>1. replay[r] \in ReplayRows
    BY DEF DeliveryInv, Recorded, Types
  <2>2. CASE replay'[r] = replay[r]
    BY <2>1, <2>2
  <2>3. CASE /\ replay[r].st = "PUBLISHED"
             /\ replay'[r] = [replay[r] EXCEPT !.st = "COMPACTED"]
    BY <2>1, <2>3 DEF ReplayRows
  <2> QED
    BY <1>1, <2>2, <2>3
<1>4. replay' \in [Replays -> ReplayRows]
  BY <1>1, <1>3
<1>5. IdleJob.phase = "idle" /\ IdleJob.sent = 0
  BY DEF IdleJob
<1>6. /\ job' \in [Dispatchers -> Jobs] /\ job'[d] = IdleJob
      /\ \A c \in Dispatchers \ {d} : job'[c] = job[c]
  BY <1>1, IdleJobTyped DEF DeliveryInv, Recorded, Types
<1>7. JobSound(d)'
  BY <1>5, <1>6 DEF JobSound
<1>8. RowStep
  BY <1>1, <1>2 DEF RowStep
<1>9. \A r \in Replays :
         /\ replay'[r].st # "NONE" => replay'[r].ev \in Events
         /\ replay[r].st \in {"PENDING", "PUBLISHED", "COMPACTED"}
               => replay'[r].st \in {"PENDING", "PUBLISHED", "COMPACTED"}
  BY <1>3 DEF DeliveryInv, ReplaySound
<1>10. PlainStep
  BY <1>1, <1>2, <1>4, <1>6, <1>7, <1>8, <1>9, ReplayStep
<1> QED
  BY <1>1, <1>2, <1>3, <1>5, <1>6, <1>10

\* What the operator asks for and what becomes of it; a replay that is opened
\* was not with a dispatcher before.
LEMMA OperatorMoves ==
  ASSUME DeliveryInv, NEW r \in Replays,
         (\E e \in Events : RequestReplay(r, e)) \/ PrepareReplay(r)
  PROVE  /\ PlainStep /\ UNCHANGED <<outbox, job>>
         /\ replay[r].st \in {"NONE", "ASKED"}
         /\ \A s \in Replays \ {r} : replay'[s] = replay[s]
         /\ \A e \in Events : \/ rows'[e] = rows[e]
                              \/ replay'[r].st = "PENDING" /\ replay'[r].ev = e
<1>1. UNCHANGED <<clock, outbox, notified, claimed, msg, job>>
  BY DEF RequestReplay, PrepareReplay
<1>2. /\ replay[r].st \in {"NONE", "ASKED"} /\ rows' \in [Events -> DeliveryState]
      /\ RowStep
      /\ \E x \in ReplayRows : /\ replay' = [replay EXCEPT ![r] = x]
                               /\ x.st # "NONE" => x.ev \in Events
                               /\ \A e \in Events : \/ rows'[e] = rows[e]
                                                    \/ x.st = "PENDING" /\ x.ev = e
  <2>1. CASE \E e \in Events : RequestReplay(r, e)
    <3>1. PICK e \in Events : RequestReplay(r, e)
      BY <2>1
    <3> DEFINE x == [st |-> "ASKED", ev |-> e, at |-> clock, n |-> rows[e].n]
    <3>2. x \in ReplayRows /\ x.st = "ASKED" /\ x.ev = e
      BY DEF ReplayRows, DeliveryInv, Recorded, Types, DeliveryState
    <3>3. /\ replay[r].st = "NONE" /\ UNCHANGED rows
          /\ replay' = [replay EXCEPT ![r] = x]
      BY <3>1 DEF RequestReplay
    <3> HIDE DEF x
    <3>4. RowStep /\ rows' \in [Events -> DeliveryState]
      BY <1>1, <3>3 DEF RowStep, DeliveryInv, Recorded, Types
    <3> QED
      BY <3>2, <3>3, <3>4
  <2>2. CASE PrepareReplay(r)
    <3> DEFINE e == replay[r].ev
               valid == /\ rows[e].st = "DEAD" /\ rows[e].n = replay[r].n
                        /\ rows[e].at <= replay[r].at
               x == [replay[r] EXCEPT !.st = "PENDING"]
    <3>1. replay[r].st = "ASKED" /\ e \in Events /\ replay[r] \in ReplayRows
      BY <2>2 DEF PrepareReplay, DeliveryInv, ReplaySound, Recorded, Types
    <3>2. x \in ReplayRows /\ x.st = "PENDING" /\ x.ev = e
      BY <3>1 DEF ReplayRows
    <3>3. CASE valid
      <4>1. rows' = [rows EXCEPT ![e] = Ready] /\ replay' = [replay EXCEPT ![r] = x]
        BY <2>2, <3>3 DEF PrepareReplay
      <4>2. rows[e].st = "DEAD"
        BY <3>3
      <4> HIDE DEF x, valid
      <4>3. RowStep /\ rows' \in [Events -> DeliveryState]
        BY <1>1, <3>1, <4>1, <4>2, RowsTyped DEF RowStep, DeliveryInv, Recorded, Types
      <4>4. \A f \in Events : rows'[f] = rows[f] \/ f = e
        BY <4>1 DEF DeliveryInv, Recorded, Types
      <4> QED
        BY <3>1, <3>2, <4>1, <4>3, <4>4
    <3>4. CASE ~valid
      <4>1. UNCHANGED rows /\ replay' = [replay EXCEPT ![r] = NoReplay]
        BY <2>2, <3>4 DEF PrepareReplay
      <4>2. RowStep /\ rows' \in [Events -> DeliveryState]
        BY <1>1, <4>1 DEF RowStep, DeliveryInv, Recorded, Types
      <4>3. NoReplay.st = "NONE"
        BY DEF NoReplay
      <4> QED
        BY <3>1, <4>1, <4>2, <4>3, NoReplayTyped
    <3> QED
      BY <3>3, <3>4
  <2> QED
    BY <2>1, <2>2
<1>3. PICK x \in ReplayRows :
        /\ replay' = [replay EXCEPT ![r] = x]
        /\ x.st # "NONE" => x.ev \in Events
        /\ \A e \in Events : \/ rows'[e] = rows[e]
                             \/ x.st = "PENDING" /\ x.ev = e
  BY <1>2
<1>4. /\ replay' \in [Replays -> ReplayRows] /\ replay'[r] = x
      /\ \A s \in Replays \ {r} : replay'[s] = replay[s]
  BY <1>3 DEF DeliveryInv, Recorded, Types
<1>5. \A s \in Replays :
         /\ replay'[s].st # "NONE" => replay'[s].ev \in Events
         /\ replay[s].st \in {"PENDING", "PUBLISHED", "COMPACTED"}
               => replay'[s].st \in {"PENDING", "PUBLISHED", "COMPACTED"}
  BY <1>2, <1>3, <1>4 DEF DeliveryInv, ReplaySound
<1>6. PlainStep
  BY <1>1, <1>2, <1>4, <1>5, ReplayStep DEF DeliveryInv, Recorded, Types
<1> QED
  BY <1>1, <1>2, <1>3, <1>4, <1>6

\* Time passes; a command commits its outbox row; or nothing happens.
LEMMA SurroundingMoves ==
  ASSUME DeliveryInv, Tick \/ (\E e \in Events : Emit(e)) \/ UNCHANGED vars
  PROVE  /\ PlainStep /\ UNCHANGED <<rows, job, replay>>
         /\ \A e \in Events : outbox'[e] = outbox[e] \/ outbox'[e].st = "PENDING"
<1>1. UNCHANGED <<rows, notified, claimed, msg, job, replay>>
  BY DEF Tick, Emit, vars
<1>2. clock' \in Time
  BY DeliveryAssumption DEF Tick, Emit, vars, DeliveryInv, Recorded, Types, Time
<1>3. /\ outbox' \in [Events -> [st: {"ABSENT", "PENDING", "PUBLISHED"}, at: Time]]
      /\ \A e \in Events : outbox'[e] = outbox[e] \/ outbox'[e].st = "PENDING"
  BY DEF Tick, Emit, vars, DeliveryInv, Recorded, Types
<1>4. Types'
  BY <1>1, <1>2, <1>3 DEF DeliveryInv, Recorded, Types
<1>5. RowStep /\ QueueStep
  BY <1>1 DEF RowStep, QueueStep
<1>6. /\ \A d \in Dispatchers : JobSound(d)'
      /\ \A r \in Replays : ReplaySound(r)'
  BY <1>1 DEF DeliveryInv, JobSound, ReplaySound
<1> QED
  BY <1>1, <1>3, <1>4, <1>5, <1>6 DEF PlainStep

-----------------------------------------------------------------------------
(* Deliveries are recorded and final *)

LEMMA InitDelivery == Init => DeliveryInv
<1> SUFFICES ASSUME Init PROVE DeliveryInv
  OBVIOUS
<1>1. \A d \in Dispatchers : JobSound(d)
  BY DEF Init, JobSound, IdleJob
<1>2. \A r \in Replays : ReplaySound(r)
  BY DEF Init, ReplaySound, NoReplay
<1> QED
  BY <1>1, <1>2, InitRecorded DEF DeliveryInv

\* Every step is one of a message or one beside the messages.
LEMMA StepKinds ==
  ASSUME DeliveryInv, [Next]_vars
  PROVE  (\E m \in Copies : MessageStep(m)) \/ PlainStep
<1>1. CASE \E m \in Copies : Consume(m) \/ ConsumerFails(m)
  BY <1>1, ConsumeMoves DEF DeliveryInv
<1>2. CASE \E d \in Dispatchers : Dispatch(d) \/ DispatchFails(d)
  <2>1. PICK d \in Dispatchers : Dispatch(d) \/ DispatchFails(d)
    BY <1>2
  <2> QED
    BY <2>1, IdleMoves, LoadBatchMoves, PublishMoves, MarkPublishedMoves,
       PublishReplayMoves, MarkReplayPublishedMoves, CompactMoves DEF Dispatch
<1>3. CASE \E r \in Replays : (\E e \in Events : RequestReplay(r, e)) \/ PrepareReplay(r)
  BY <1>3, OperatorMoves
<1>4. CASE Tick \/ (\E e \in Events : Emit(e)) \/ UNCHANGED vars
  BY <1>4, SurroundingMoves
<1> QED
  BY <1>1, <1>2, <1>3, <1>4 DEF Next

LEMMA NextDelivery ==
  ASSUME DeliveryInv, [Next]_vars
  PROVE  /\ DeliveryInv'
         /\ \A e \in Events : rows[e].st = "DELIVERED" =>
               rows'[e] \in {rows[e], Absent}
<1>1. CASE \E m \in Copies : MessageStep(m)
  <2>1. PICK m \in Copies : MessageStep(m)
    BY <1>1
  <2>2. Recorded'
    BY <2>1, MessageKeepsRecorded DEF DeliveryInv
  <2>3. /\ \A d \in Dispatchers : JobSound(d)'
        /\ \A r \in Replays : ReplaySound(r)'
    BY <2>1 DEF MessageStep, DeliveryInv, JobSound, ReplaySound
  <2>4. \A e \in Events : rows[e].st = "DELIVERED" => rows'[e] = rows[e]
    BY <2>1 DEF MessageStep
  <2> QED
    BY <2>2, <2>3, <2>4 DEF DeliveryInv
<1>2. CASE PlainStep
  BY <1>2, RowStepKeepsRecorded DEF PlainStep, DeliveryInv, RowStep
<1> QED
  BY <1>1, <1>2, StepKinds

\* A recorded delivery has its notification and its claim in the database, a
\* consumer works on a row it found open, dispatchers mark what they sent.
THEOREM DeliveriesRecorded == Spec => []DeliveryInv
<1>1. DeliveryInv /\ [Next]_vars => DeliveryInv'
  BY NextDelivery
<1> QED
  BY InitDelivery, <1>1, PTL DEF Spec

\* However many copies, attempts and replays race for it, whatever fails and
\* whether or not the queue gives up on messages, a delivered event is
\* never reopened (CompareAndSwap, the replay's triggers, compaction).
THEOREM DeliveriesFinal == Spec => DeliveredIsFinal
<1>1. DeliveryInv /\ [Next]_vars =>
        [\A e \in Events : rows[e].st = "DELIVERED" =>
            rows'[e] \in {rows[e], Absent}]_vars
  BY NextDelivery
<1> QED
  BY <1>1, DeliveriesRecorded, PTL DEF Spec, DeliveredIsFinal

-----------------------------------------------------------------------------
(* Nothing is stranded *)

\* What a step beside the messages does to what carries the events: a pending
\* replay stops being unsent only for a message, what is opened is opened by a
\* replay that is still to be sent, what counts as sent has its message, and an
\* event stops being discarded only for a message or for such a replay.
CarrierStep ==
    /\ \A r \in Replays, e \in Events : Unsent(r) /\ replay[r].ev = e =>
          \/ Unsent(r)' /\ replay'[r].ev = e
          \/ Working(e)'
    /\ \A e \in Events : Open(e)' =>
          Open(e) \/ \E r \in Replays : Unsent(r)' /\ replay'[r].ev = e
    /\ \A e \in Events : WasSent(e)' => WasSent(e) \/ Working(e)'
    /\ \A e \in discarded :
          \/ e \in discarded' \/ Working(e)'
          \/ rows'[e] # Absent /\ \E r \in Replays : Unsent(r)' /\ replay'[r].ev = e

\* Messages that are handled, or there at all, still are after such a step.
LEMMA MessagesStay ==
  ASSUME QueueStep, NEW e \in Events
  PROVE  /\ Working(e) => Working(e)'
         /\ Active(e) => Active(e)'
         /\ Working(e)' => Active(e)'
<1>1. \A c \in 1..MaxCopies : <<e, c>> \in Copies
  BY DEF Copies
<1>2. ASSUME NEW c \in 1..MaxCopies
      PROVE  /\ msg[<<e, c>>].pc \notin {"none", "delivered"}
                   => msg'[<<e, c>>].pc \notin {"none", "delivered"}
             /\ msg[<<e, c>>].pc # "none" => msg'[<<e, c>>].pc # "none"
  BY <1>1 DEF QueueStep
<1> QED
  BY <1>2 DEF Working, Active

LEMMA PlainKeepsCarried ==
  ASSUME CarriedInv, DeliveryInv', PlainStep, CarrierStep
  PROVE  CarriedInv'
<1> SUFFICES ASSUME NEW e \in Events
             PROVE  OpenCarried(e)' /\ SentCarried(e)'
  BY DEF CarriedInv
<1>1. /\ Working(e) => Working(e)'
      /\ Active(e) => Active(e)'
      /\ Working(e)' => Active(e)'
  BY MessagesStay DEF PlainStep
<1>2. OpenCarried(e)'
  <2>1. CASE ~Open(e)' \/ Working(e)'
    BY <2>1 DEF OpenCarried
  <2>2. CASE \E r \in Replays : Unsent(r) /\ replay[r].ev = e
    <3>1. PICK r \in Replays : Unsent(r) /\ replay[r].ev = e
      BY <2>2
    <3>2. Working(e)' \/ (Unsent(r)' /\ replay'[r].ev = e)
      BY <3>1 DEF CarrierStep
    <3> QED
      BY <3>2 DEF OpenCarried
  <2>3. CASE \E r \in Replays : Unsent(r)' /\ replay'[r].ev = e
    BY <2>3 DEF OpenCarried
  <2>4. Open(e)' => Open(e) \/ \E r \in Replays : Unsent(r)' /\ replay'[r].ev = e
    BY DEF CarrierStep
  <2>5. Open(e) => \/ Working(e)
                   \/ \E r \in Replays : Unsent(r) /\ replay[r].ev = e
                   \/ e \in discarded
    BY DEF CarriedInv, OpenCarried
  <2>6. CASE e \in discarded
    BY <2>6 DEF CarrierStep, OpenCarried
  <2> QED
    BY <1>1, <2>1, <2>2, <2>3, <2>4, <2>5, <2>6
<1>3. SentCarried(e)'
  <2>1. rows'[e] = Absent => rows[e] = Absent \/ e \in notified \cap claimed
    <3>1. Ready.st = "READY" /\ Absent.st = "ABSENT"
      BY DEF Ready, Absent
    <3> QED
      BY <3>1 DEF PlainStep, RowStep, CarriedInv, DeliveryInv, Recorded, RowSound
  <2>2. UNCHANGED <<notified, claimed>>
    BY DEF PlainStep, RowStep
  <2> QED
    BY <1>1, <2>1, <2>2 DEF CarrierStep, CarriedInv, SentCarried
<1> QED
  BY <1>2, <1>3

LEMMA MessageKeepsCarried ==
  ASSUME CarriedInv, DeliveryInv', NEW m \in Copies, MessageStep(m)
  PROVE  CarriedInv'
<1> SUFFICES ASSUME NEW e \in Events
             PROVE  OpenCarried(e)' /\ SentCarried(e)'
  BY DEF CarriedInv
<1>1. PICK f \in Events, k \in 1..MaxCopies : m = <<f, k>>
  BY DEF Copies
<1>2. \A c \in 1..MaxCopies : <<e, c>> \in Copies
  BY DEF Copies
<1>3. /\ \A r \in Replays : Unsent(r)' = Unsent(r) /\ replay'[r].ev = replay[r].ev
      /\ WasSent(e)' = WasSent(e)
  BY DEF MessageStep, Unsent, WasSent
<1>4. OpenCarried(e) /\ SentCarried(e) /\ MessageSound(m)
  BY DEF CarriedInv, DeliveryInv, Recorded
<1>5. CASE e # f
  <2>1. \A c \in 1..MaxCopies : msg'[<<e, c>>] = msg[<<e, c>>]
    BY <1>1, <1>2, <1>5 DEF MessageStep
  <2>2. rows'[e] = rows[e]
    BY <1>1, <1>5 DEF MessageStep
  <2>3. Working(e)' = Working(e) /\ Active(e)' = Active(e) /\ Open(e)' = Open(e)
    BY <2>1, <2>2 DEF Working, Active, Open
  <2> QED
    BY <1>3, <1>4, <2>2, <2>3 DEF OpenCarried, SentCarried, MessageStep
<1>6. CASE e = f /\ msg'[m].pc \notin {"none", "delivered"}
  BY <1>1, <1>6 DEF OpenCarried, SentCarried, Working, Active
<1>7. CASE e = f /\ ~Open(e)' /\ rows'[e] # Absent
  BY <1>7 DEF OpenCarried, SentCarried
<1>8. CASE e = f /\ Dropped(m)
  <2>1. \A c \in (1..MaxCopies) \ {k} : msg'[<<e, c>>] = msg[<<e, c>>]
    BY <1>1, <1>2 DEF MessageStep
  <2>2. OtherWorks(m) => Working(e)' /\ Active(e)'
    BY <1>1, <1>8, <2>1 DEF OtherWorks, Working, Active
  <2> QED
    BY <1>1, <1>8, <2>2 DEF Dropped, OpenCarried, SentCarried
<1>9. CASE e = f /\ msg[m].pc = "delivered" /\ rows' = rows
  <2>1. e \in notified' \cap claimed'
    BY <1>1, <1>4, <1>9 DEF MessageSound, MessageStep
  <2>2. ASSUME NEW c \in 1..MaxCopies, msg[<<e, c>>].pc \notin {"none", "delivered"}
        PROVE  msg'[<<e, c>>] = msg[<<e, c>>]
    BY <1>2, <1>9, <2>2 DEF MessageStep
  <2>3. Working(e) => Working(e)'
    BY <2>2 DEF Working
  <2>4. Open(e)' = Open(e)
    BY <1>9 DEF Open
  <2> QED
    BY <1>3, <1>4, <2>1, <2>3, <2>4 DEF OpenCarried, SentCarried, MessageStep
<1> QED
  BY <1>1, <1>5, <1>6, <1>7, <1>8, <1>9 DEF MessageStep

\* A dispatcher that ends a step with nothing sent leaves every replay as
\* unsent as it was; so does one that goes on with events.
LEMMA NothingSent ==
  ASSUME NEW d \in Dispatchers, UNCHANGED replay,
         \A c \in Dispatchers \ {d} : job'[c] = job[c],
         job'[d].sent = 0 \/ job'[d].phase = "events"
  PROVE  \A r \in Replays : Unsent(r) => Unsent(r)'
  BY DeliveryAssumption DEF Unsent

LEMMA DispatchCarries ==
  ASSUME CarriedInv, NEW d \in Dispatchers, Dispatch(d) \/ DispatchFails(d)
  PROVE  PlainStep /\ CarrierStep
<1>1. DeliveryInv /\ 0 \notin Events /\ 0 \notin Replays
  BY DeliveryAssumption DEF CarriedInv
<1>2. CASE \/ StartHandler(d) \/ DispatchFails(d)
           \/ LoadPending(d) \/ LoadPendingReplays(d)
  <2>1. /\ PlainStep /\ UNCHANGED <<outbox, rows, replay>>
        /\ job'[d].sent = 0
        /\ \A c \in Dispatchers \ {d} : job'[c] = job[c]
    BY <1>1, <1>2, IdleMoves, LoadBatchMoves
  <2>2. \A r \in Replays : Unsent(r) => Unsent(r)'
    BY <2>1, NothingSent
  <2>3. \A e \in Events : WasSent(e)' => WasSent(e)
    BY <1>1, <2>1 DEF WasSent
  <2>4. discarded' = discarded
    BY <1>2 DEF StartHandler, DispatchFails, LoadPending, LoadPendingReplays
  <2> QED
    BY <2>1, <2>2, <2>3, <2>4 DEF CarrierStep, Open
<1>3. ASSUME NEW e \in Events, Publish(d, e)
      PROVE  PlainStep /\ CarrierStep
  <2>1. /\ PlainStep /\ Working(e)' /\ UNCHANGED <<outbox, rows, replay>>
        /\ job'[d].phase = "events" /\ job'[d].sent = e
        /\ \A c \in Dispatchers \ {d} : job'[c] = job[c]
    BY <1>1, <1>3, PublishMoves
  <2>2. \A r \in Replays : Unsent(r) => Unsent(r)'
    BY <2>1, NothingSent
  <2>3. \A f \in Events : WasSent(f)' => WasSent(f) \/ Working(f)'
    BY <2>1 DEF WasSent
  <2>4. discarded' = discarded \ {e}
    BY <1>3 DEF Publish, Enqueue
  <2> QED
    BY <2>1, <2>2, <2>3, <2>4 DEF CarrierStep, Open
<1>4. CASE MarkPublished(d)
  <2>1. /\ PlainStep /\ UNCHANGED <<rows, replay>>
        /\ job[d].phase = "events" /\ job'[d].sent = 0
        /\ \A c \in Dispatchers \ {d} : job'[c] = job[c]
        /\ \A e \in Events \ {job[d].sent} : outbox'[e] = outbox[e]
    BY <1>1, <1>4, MarkPublishedMoves
  <2>2. \A r \in Replays : Unsent(r) => Unsent(r)'
    BY <2>1, NothingSent
  <2>3. ASSUME NEW e \in Events, WasSent(e)' PROVE WasSent(e)
    <3>1. CASE e = job[d].sent
      BY <2>1, <3>1 DEF WasSent
    <3>2. CASE e # job[d].sent
      BY <1>1, <2>1, <2>3, <3>2 DEF WasSent
    <3> QED
      BY <3>1, <3>2
  <2>4. discarded' = discarded
    BY <1>4 DEF MarkPublished
  <2> QED
    BY <2>1, <2>2, <2>3, <2>4 DEF CarrierStep, Open
<1>5. ASSUME NEW r \in Replays, PublishReplay(d, r)
      PROVE  PlainStep /\ CarrierStep
  <2>1. /\ PlainStep /\ UNCHANGED <<outbox, rows, replay>>
        /\ \E e \in Events : replay[r].ev = e /\ Working(e)'
        /\ job'[d].phase = "replays" /\ job'[d].sent = r
        /\ \A c \in Dispatchers \ {d} : job'[c] = job[c]
    BY <1>1, <1>5, PublishReplayMoves
  <2>2. \A s \in Replays : Unsent(s) => Unsent(s)' \/ s = r
    BY <2>1 DEF Unsent
  <2>3. \A f \in Events : WasSent(f)' => WasSent(f)
    BY <2>1 DEF WasSent
  <2>4. discarded' = discarded \ {replay[r].ev}
    BY <1>5 DEF PublishReplay, Enqueue
  <2> QED
    BY <2>1, <2>2, <2>3, <2>4 DEF CarrierStep, Open
<1>6. CASE MarkReplayPublished(d)
  <2>1. /\ PlainStep /\ UNCHANGED <<outbox, rows>>
        /\ job[d].phase = "replays" /\ job'[d].sent = 0
        /\ \A c \in Dispatchers \ {d} : job'[c] = job[c]
        /\ \A r \in Replays \ {job[d].sent} : replay'[r] = replay[r]
        /\ \A r \in Replays : replay'[r].ev = replay[r].ev
    BY <1>1, <1>6, MarkReplayPublishedMoves
  <2>2. \A r \in Replays : Unsent(r) => Unsent(r)'
    BY <1>1, <2>1 DEF Unsent
  <2>3. \A f \in Events : WasSent(f)' => WasSent(f)
    BY <1>1, <2>1 DEF WasSent
  <2>4. discarded' = discarded
    BY <1>6 DEF MarkReplayPublished
  <2> QED
    BY <2>1, <2>2, <2>3, <2>4 DEF CarrierStep, Open
<1>7. CASE Compact(d)
  <2>1. /\ PlainStep /\ UNCHANGED outbox
        /\ job'[d].sent = 0
        /\ \A c \in Dispatchers \ {d} : job'[c] = job[c]
        /\ \A e \in Events : rows'[e] = rows[e] \/ rows'[e] = Absent
        /\ \A r \in Replays : replay'[r] = replay[r] \/ replay[r].st = "PUBLISHED"
    BY <1>1, <1>7, CompactMoves
  <2>2. \A r \in Replays : Unsent(r) => Unsent(r)' /\ replay'[r].ev = replay[r].ev
    BY <1>1, <2>1 DEF Unsent
  <2>3. \A f \in Events : WasSent(f)' => WasSent(f)
    BY <1>1, <2>1 DEF WasSent
  <2>4. \A e \in Events : Open(e)' => Open(e)
    BY <2>1 DEF Open, Absent
  <2>5. discarded' = discarded
    BY <1>7 DEF Compact
  <2> QED
    BY <2>1, <2>2, <2>3, <2>4, <2>5 DEF CarrierStep
<1> QED
  BY <1>2, <1>3, <1>4, <1>5, <1>6, <1>7 DEF Dispatch

LEMMA OperatorCarries ==
  ASSUME CarriedInv, NEW r \in Replays,
         (\E e \in Events : RequestReplay(r, e)) \/ PrepareReplay(r)
  PROVE  PlainStep /\ CarrierStep
<1>1. DeliveryInv
  BY DEF CarriedInv
<1>2. /\ PlainStep /\ UNCHANGED <<outbox, job>>
      /\ replay[r].st \in {"NONE", "ASKED"}
      /\ \A s \in Replays \ {r} : replay'[s] = replay[s]
      /\ \A e \in Events : \/ rows'[e] = rows[e]
                           \/ replay'[r].st = "PENDING" /\ replay'[r].ev = e
  BY <1>1, OperatorMoves
<1>3. \A s \in Replays : Unsent(s) => Unsent(s)' /\ replay'[s].ev = replay[s].ev
  BY <1>2 DEF Unsent
<1>4. \A d \in Dispatchers : ~(job[d].phase = "replays" /\ job[d].sent = r)
  BY <1>1, <1>2, DeliveryAssumption DEF DeliveryInv, JobSound
<1>5. replay'[r].st = "PENDING" => Unsent(r)'
  BY <1>2, <1>4 DEF Unsent
<1>6. \A e \in Events : Open(e)' =>
          Open(e) \/ \E s \in Replays : Unsent(s)' /\ replay'[s].ev = e
  BY <1>2, <1>5 DEF Open
<1>7. \A e \in Events : WasSent(e)' => WasSent(e)
  BY <1>2 DEF WasSent
<1>8. ASSUME NEW e \in discarded, e \notin discarded'
      PROVE  rows'[e] # Absent /\ replay'[r].st = "PENDING" /\ replay'[r].ev = e
  <2>1. PrepareReplay(r) /\ replay[r].ev = e
    BY <1>8 DEF RequestReplay, PrepareReplay
  <2>2. /\ rows[e].st = "DEAD" /\ replay[r].st = "ASKED"
        /\ rows' = [rows EXCEPT ![e] = Ready]
        /\ replay' = [replay EXCEPT ![r] = [@ EXCEPT !.st = "PENDING"]]
    BY <1>8, <2>1 DEF PrepareReplay
  <2>3. e \in Events
    BY <1>1, <2>1, <2>2 DEF DeliveryInv, ReplaySound
  <2>4. Ready # Absent
    BY DEF Ready, Absent
  <2> QED
    BY <1>1, <2>1, <2>2, <2>3, <2>4 DEF DeliveryInv, Recorded, Types, ReplayRows
<1> QED
  BY <1>2, <1>3, <1>5, <1>6, <1>7, <1>8 DEF CarrierStep

LEMMA SurroundingCarries ==
  ASSUME CarriedInv, Tick \/ (\E e \in Events : Emit(e)) \/ UNCHANGED vars
  PROVE  PlainStep /\ CarrierStep
<1>1. /\ PlainStep /\ UNCHANGED <<rows, job, replay>>
      /\ \A e \in Events : outbox'[e] = outbox[e] \/ outbox'[e].st = "PENDING"
  BY SurroundingMoves DEF CarriedInv
<1>2. discarded' = discarded
  BY DEF Tick, Emit, vars
<1> QED
  BY <1>1, <1>2 DEF CarrierStep, Unsent, WasSent, Open

LEMMA InitCarried == Init => CarriedInv
<1> SUFFICES ASSUME Init, NEW e \in Events
             PROVE  OpenCarried(e) /\ SentCarried(e)
  BY InitDelivery DEF CarriedInv
<1>1. ~Open(e)
  BY DEF Init, Open, Absent
<1>2. ~WasSent(e)
  BY DEF Init, WasSent, IdleJob
<1> QED
  BY <1>1, <1>2 DEF OpenCarried, SentCarried

LEMMA NextCarried ==
  ASSUME CarriedInv, [Next]_vars
  PROVE  CarriedInv'
<1>1. DeliveryInv /\ DeliveryInv'
  BY NextDelivery DEF CarriedInv
<1>2. CASE \E m \in Copies : Consume(m) \/ ConsumerFails(m)
  BY <1>1, <1>2, ConsumeMoves, MessageKeepsCarried DEF DeliveryInv
<1>3. CASE \E d \in Dispatchers : Dispatch(d) \/ DispatchFails(d)
  BY <1>1, <1>3, DispatchCarries, PlainKeepsCarried
<1>4. CASE \E r \in Replays : (\E e \in Events : RequestReplay(r, e)) \/ PrepareReplay(r)
  BY <1>1, <1>4, OperatorCarries, PlainKeepsCarried
<1>5. CASE Tick \/ (\E e \in Events : Emit(e)) \/ UNCHANGED vars
  BY <1>1, <1>5, SurroundingCarries, PlainKeepsCarried
<1> QED
  BY <1>2, <1>3, <1>4, <1>5 DEF Next

\* However many copies, attempts, dispatchers and replays race, whatever fails,
\* and however soon the queue gives up on a message, a published event that is
\* neither consumed nor dead-lettered has something that will deliver it, unless
\* the queue gave up the last message that worked on it and nothing was sent for
\* it since (the consumer's acknowledgements, the dispatcher's marks).
THEOREM NothingIsStranded == Spec => []NothingStranded
<1>1. CarriedInv /\ [Next]_vars => CarriedInv'
  BY NextCarried
<1>2. CarriedInv => NothingStranded
  <2> SUFFICES ASSUME CarriedInv, NEW e \in Events
               PROVE  /\ Open(e) => Carried(e) \/ e \in discarded
                      /\ outbox[e].st = "PUBLISHED" /\ rows[e] = Absent
                            => Active(e) \/ e \in notified \cap claimed \/ e \in discarded
                      /\ rows[e].st = "DELIVERED" => e \in notified \cap claimed
    BY DEF NothingStranded
  <2>1. OpenCarried(e) /\ SentCarried(e) /\ RowSound(e)
    BY DEF CarriedInv, DeliveryInv, Recorded
  <2>2. Working(e) => Active(e)
    BY DEF Working, Active
  <2> QED
    BY <2>1, <2>2 DEF OpenCarried, SentCarried, RowSound, WasSent, Carried, Unsent
<1> QED
  BY InitCarried, <1>1, <1>2, PTL DEF Spec

-----------------------------------------------------------------------------
(* NotificationCatchUp: what the cursor passes                              *)

\* An event that the cursor may pass: handed over, there too late, or hidden.
Told == Handed \cup overtaken \cup withheld

\* The positions up to which everything durable was told.  What becomes durable
\* below one of them is overtaken, so they stay what they are.
ToldUpTo == {p \in {0} \cup durable : \A f \in durable : f <= p => f \in Told}

Stages == {"new", "authorized", "live", "closed"} \cup Draining

Conns == [pc: Stages, exp: Position, page: SUBSET Notices, round: Nat,
          shut: BOOLEAN]

HubTypes ==
    /\ durable \subseteq Notices
    /\ conn \in [Connections -> Conns]
    /\ shown \in [Connections -> SUBSET durable]
    /\ owed \in [Connections -> SUBSET Notices]
    /\ web \in [seen: SUBSET durable, exp: Position, next: Position]
    /\ fan \in [Notices -> {"none", "queued", "called", "checked", "done", "lost"}]
    /\ \A e \in Notices : fan[e] # "none" => e \in durable

\* What a handshake read, and may commit.  A page that is not full was the last
\* one, and then the member was told what the socket was owed.
HandshakeSound(c) ==
    /\ conn[c].pc = "page" => conn[c].exp \in ToldUpTo
    /\ conn[c].pc = "commit" =>
          /\ conn[c].page \subseteq ToldUpTo
          /\ Cardinality(conn[c].page) < PageSize => owed[c] \subseteq Told
    /\ conn[c].pc \in {"drained", "live"} => owed[c] \subseteq Told

\* The member can see what it is owed.
OwedSound == \A c \in Connections : owed[c] \subseteq Visible(0)

\* What the HTTP client was shown, and may acknowledge.
WebSound == web.seen \subseteq ToldUpTo /\ web.next \in {0} \cup web.seen

CatchUpInv ==
    /\ HubTypes
    /\ cursor \in ToldUpTo
    /\ \A c \in Connections : HandshakeSound(c)
    /\ OwedSound
    /\ WebSound

\* A finite set of numbers has a maximum: the element with the fewest above it.
LEMMA MaxIsMember ==
  ASSUME NEW S \in SUBSET Nat, IsFiniteSet(S), S # {}
  PROVE  Max(S) \in S
<1> DEFINE Above(x) == {y \in S : y > x}
           Sizes == {Cardinality(Above(x)) : x \in S}
<1>1. \A x \in S : IsFiniteSet(Above(x)) /\ Cardinality(Above(x)) \in Nat
  <2> TAKE x \in S
  <2>1. Above(x) \in SUBSET S
    OBVIOUS
  <2>2. IsFiniteSet(Above(x))
    BY <2>1, FS_Subset
  <2> QED
    BY <2>2, FS_CardinalityType
<1>2. Sizes \subseteq Nat /\ Sizes # {}
  BY <1>1
<1>3. PICK n \in Sizes : \A k \in Sizes : ~(<<k, n>> \in OpToRel(<, Nat))
  <2> HIDE DEF Sizes
  <2> QED
    BY <1>2, NatLessThanWellFounded, WFMin
<1>4. PICK x \in S : n = Cardinality(Above(x))
  BY <1>3
<1>5. ASSUME NEW y \in S, y > x
      PROVE  FALSE
  <2>1. Above(y) \in SUBSET Above(x) /\ y \in Above(x) /\ y \notin Above(y)
    <3>1. \A z \in Above(y) : z \in S /\ z > x
      BY <1>5
    <3>2. y \in Above(x) /\ ~(y > y)
      BY <1>5
    <3> QED
      BY <3>1, <3>2
  <2>2. /\ Cardinality(Above(y)) <= Cardinality(Above(x))
        /\ Cardinality(Above(y)) # Cardinality(Above(x))
    <3> HIDE DEF Above
    <3> QED
      BY <1>1, <2>1, FS_Subset
  <2>3. Cardinality(Above(y)) \in Sizes
    BY <1>5
  <2>4. ~(Cardinality(Above(y)) < n)
    <3> HIDE DEF Above
    <3> QED
      BY <1>2, <1>3, <2>3 DEF OpToRel
  <2> QED
    BY <1>1, <1>4, <1>5, <2>2, <2>4
<1>6. \A y \in S : x >= y
  BY <1>5
<1> QED
  BY <1>6 DEF Max

\* A page holds what comes first: nothing that the member sees between its start
\* and one of its events is missing.
LEMMA PageIsPrefix ==
  ASSUME HubTypes, NEW position, NEW limit \in Nat,
         NEW e \in Page(position, limit),
         NEW f \in Visible(position), f <= e
  PROVE  f \in Page(position, limit)
<1> DEFINE Before(g) == {h \in Visible(position) : h < g}
<1>1. e \in Visible(position) /\ Cardinality(Before(e)) < limit
  BY DEF Page
<1>2. Visible(position) \in SUBSET Notices
  BY DEF Visible, After, HubTypes
<1>3. Visible(position) \subseteq Nat /\ IsFiniteSet(Visible(position))
  BY <1>2, CatchUpAssumption, FS_Subset
<1>4. Before(e) \in SUBSET Visible(position) /\ Before(f) \in SUBSET Before(e)
  BY <1>1, <1>3
<1>5. /\ Cardinality(Before(f)) <= Cardinality(Before(e))
      /\ Cardinality(Before(f)) \in Nat /\ Cardinality(Before(e)) \in Nat
  <2> HIDE DEF Before
  <2> QED
    BY <1>3, <1>4, FS_Subset, FS_CardinalityType
<1>6. Cardinality(Before(f)) < limit
  <2> HIDE DEF Before
  <2> QED
    BY <1>1, <1>5
<1> QED
  BY <1>6 DEF Page

\* A page that is not full misses nothing that the member sees: before the first
\* event it would miss there are as many as fill it.
LEMMA ShortPageIsAll ==
  ASSUME HubTypes, NEW position, NEW limit \in Nat,
         Cardinality(Page(position, limit)) < limit
  PROVE  Visible(position) \subseteq Page(position, limit)
<1> DEFINE Before(g) == {h \in Visible(position) : h < g}
           Missed == Visible(position) \ Page(position, limit)
<1>1. Visible(position) \in SUBSET Notices /\ Page(position, limit) \in SUBSET Notices
  BY DEF Page, Visible, After, HubTypes
<1>2. /\ Visible(position) \subseteq Nat
      /\ IsFiniteSet(Visible(position)) /\ IsFiniteSet(Page(position, limit))
  BY <1>1, CatchUpAssumption, FS_Subset
<1> SUFFICES ASSUME Missed # {} PROVE FALSE
  OBVIOUS
<1>3. PICK f \in Missed : \A g \in Missed : ~ (<<g, f>> \in OpToRel(<, Nat))
  <2>1. Missed \subseteq Nat
    BY <1>2
  <2> HIDE DEF Missed
  <2> QED
    BY <2>1, NatLessThanWellFounded, WFMin
<1>4. \A g \in Missed : ~(g < f)
  BY <1>2, <1>3 DEF OpToRel
<1>5. Before(f) \in SUBSET Page(position, limit)
  BY <1>4
<1>6. /\ Cardinality(Before(f)) <= Cardinality(Page(position, limit))
      /\ Cardinality(Before(f)) \in Nat
      /\ Cardinality(Page(position, limit)) \in Nat
  <2> HIDE DEF Before
  <2> QED
    BY <1>2, <1>5, FS_Subset, FS_CardinalityType
<1>7. Cardinality(Before(f)) < limit
  <2> HIDE DEF Before
  <2> QED
    BY <1>6
<1> QED
  BY <1>3, <1>7 DEF Page

-----------------------------------------------------------------------------
(* NotificationCatchUp: its steps                                           *)

\* What a step may do to the history and to what was told of it.
Grows ==
    /\ durable \subseteq durable'
    /\ overtaken \subseteq overtaken' /\ withheld \subseteq withheld'
    /\ \A c \in Connections : shown[c] \subseteq shown'[c]
    /\ web.seen \subseteq web'.seen
    /\ \A f \in durable' \ durable :
          (\E g \in durable : g > f) => f \in overtaken'

LEMMA ReachedStays ==
  ASSUME HubTypes, HubTypes', Grows
  PROVE  Told \subseteq Told' /\ ToldUpTo \subseteq ToldUpTo'
<1>1. Told \subseteq Told'
  BY DEF Told, Handed, Grows
<1>a. SUFFICES ToldUpTo \subseteq ToldUpTo'
  BY <1>1
<1>2. durable' \subseteq Nat \ {0}
  BY CatchUpAssumption DEF HubTypes
<1> SUFFICES ASSUME NEW p \in ToldUpTo, NEW f \in durable', f <= p
             PROVE  f \in Told'
  BY DEF ToldUpTo, Grows
<1>3. CASE f \in durable
  BY <1>1, <1>3 DEF ToldUpTo
<1>4. CASE f \notin durable
  <2>1. p \in durable /\ p > f
    BY <1>2, <1>4 DEF ToldUpTo, Grows
  <2> QED
    BY <1>4, <2>1 DEF Grows, Told
<1> QED
  BY <1>3, <1>4

\* A page that starts at a reached position and is handed over is reached, and
\* what it leaves out counts as told.
LEMMA PageIsReached ==
  ASSUME HubTypes, HubTypes', NEW position \in ToldUpTo, NEW limit \in Nat,
         UNCHANGED <<durable, overtaken>>, Grows,
         Page(position, limit) \subseteq Handed',
         LeftOut(position, Page(position, limit)) \subseteq withheld'
  PROVE  Page(position, limit) \subseteq ToldUpTo'
<1> SUFFICES ASSUME NEW e \in Page(position, limit), NEW f \in durable, f <= e
             PROVE  f \in Told'
  BY DEF Page, Visible, After, ToldUpTo
<1>1. position \in Nat /\ f \in Nat
  BY CatchUpAssumption DEF HubTypes, ToldUpTo
<1>2. CASE f <= position
  BY <1>2, ReachedStays DEF ToldUpTo
<1>3. CASE f > position
  <2>1. e \in granted /\ active /\ e \in Nat
    BY CatchUpAssumption DEF Page, Visible, After, HubTypes
  <2>2. CASE f \in granted
    <3>1. f \in Visible(position)
      BY <1>3, <2>1, <2>2 DEF Visible, After
    <3> QED
      BY <3>1, PageIsPrefix DEF Told
  <2>3. CASE f \notin granted
    <3>1. f < e
      BY <1>1, <2>1, <2>3
    <3>2. f \in LeftOut(position, Page(position, limit))
      BY <1>3, <2>3, <3>1 DEF LeftOut, After
    <3> QED
      BY <3>2 DEF Told
  <2> QED
    BY <2>2, <2>3
<1> QED
  BY <1>1, <1>2, <1>3

\* When such a page is not full, everything that the member sees is told.
LEMMA ShortPageTellsAll ==
  ASSUME HubTypes, HubTypes', NEW position \in ToldUpTo, NEW limit \in Nat,
         UNCHANGED <<durable, overtaken>>, Grows,
         Page(position, limit) \subseteq Handed',
         Cardinality(Page(position, limit)) < limit
  PROVE  Visible(0) \subseteq Told'
<1> SUFFICES ASSUME NEW f \in Visible(0)
             PROVE  f \in Told'
  OBVIOUS
<1>1. f \in durable /\ f \in granted /\ active
  BY DEF Visible, After
<1>2. position \in Nat /\ f \in Nat
  BY <1>1, CatchUpAssumption DEF HubTypes, ToldUpTo
<1>3. CASE f <= position
  BY <1>1, <1>3, ReachedStays DEF ToldUpTo
<1>4. CASE f > position
  <2>1. f \in Visible(position)
    BY <1>1, <1>4 DEF Visible, After
  <2> QED
    BY <2>1, ShortPageIsAll DEF Told
<1> QED
  BY <1>2, <1>3, <1>4

\* What the cursor is moved to by a handshake.
LEMMA LastOfPage ==
  ASSUME HubTypes, NEW c \in Connections, HandshakeSound(c),
         conn[c].pc = "commit", conn[c].page # {}
  PROVE  Max(conn[c].page) \in ToldUpTo
<1>1. conn[c].page \in SUBSET Notices
  BY DEF HubTypes, Conns
<1>2. IsFiniteSet(conn[c].page) /\ conn[c].page \in SUBSET Nat
  BY <1>1, CatchUpAssumption, FS_Subset
<1> QED
  BY <1>2, MaxIsMember DEF HandshakeSound

\* Nothing durable is at or below no row.
LEMMA NoRowIsReached ==
  ASSUME HubTypes
  PROVE  0 \in ToldUpTo
BY CatchUpAssumption DEF HubTypes, ToldUpTo

\* The records that the steps of a handshake make.
LEMMA ConnEdits ==
  /\ NoConn \in Conns /\ Closed \in Conns /\ [NoConn EXCEPT !.pc = "live"] \in Conns
  /\ \A k \in Conns, pc \in Stages, exp \in Position, page \in SUBSET Notices :
        /\ [k EXCEPT !.pc = pc] \in Conns
        /\ [k EXCEPT !.shut = TRUE] \in Conns
        /\ [k EXCEPT !.pc = pc, !.exp = exp] \in Conns
        /\ [k EXCEPT !.pc = pc, !.page = page] \in Conns
        /\ [k EXCEPT !.pc = pc, !.page = {}, !.exp = 0] \in Conns
        /\ [k EXCEPT !.pc = pc, !.page = {}, !.exp = 0, !.round = k.round + 1] \in Conns
        /\ [k EXCEPT !.pc = pc, !.page = {}, !.exp = 0, !.round = k.round] \in Conns
<1>1. NoConn \in Conns /\ Closed \in Conns /\ [NoConn EXCEPT !.pc = "live"] \in Conns
  BY DEF Conns, NoConn, Closed, Stages, Position
<1> SUFFICES ASSUME NEW k \in Conns, NEW pc \in Stages, NEW exp \in Position,
                    NEW page \in SUBSET Notices
             PROVE  /\ [k EXCEPT !.pc = pc] \in Conns
                    /\ [k EXCEPT !.shut = TRUE] \in Conns
                    /\ [k EXCEPT !.pc = pc, !.exp = exp] \in Conns
                    /\ [k EXCEPT !.pc = pc, !.page = page] \in Conns
                    /\ [k EXCEPT !.pc = pc, !.page = {}, !.exp = 0] \in Conns
                    /\ [k EXCEPT !.pc = pc, !.page = {}, !.exp = 0,
                                 !.round = k.round + 1] \in Conns
                    /\ [k EXCEPT !.pc = pc, !.page = {}, !.exp = 0,
                                 !.round = k.round] \in Conns
  BY <1>1
<1>2. [k EXCEPT !.pc = pc] \in Conns /\ [k EXCEPT !.shut = TRUE] \in Conns
  BY DEF Conns
<1>3. /\ [k EXCEPT !.pc = pc, !.exp = exp] \in Conns
      /\ [k EXCEPT !.pc = pc, !.page = page] \in Conns
  BY DEF Conns
<1>4. [k EXCEPT !.pc = pc, !.page = {}, !.exp = 0] \in Conns
  BY DEF Conns, Position
<1>5. [k EXCEPT !.pc = pc, !.page = {}, !.exp = 0, !.round = k.round + 1] \in Conns
  <2>1. k.round + 1 \in Nat
    BY DEF Conns
  <2> QED
    BY <2>1 DEF Conns, Position
<1>6. [k EXCEPT !.pc = pc, !.page = {}, !.exp = 0, !.round = k.round] \in Conns
  BY DEF Conns, Position
<1> QED
  BY <1>2, <1>3, <1>4, <1>5, <1>6

\* The types, and that the history and what was told only grow, step by step.
LEMMA HandshakeTypes ==
  ASSUME HubTypes, cursor \in ToldUpTo, NEW c \in Connections,
         Handshake(c) \/ SendFails(c) \/ CatchUpFails(c) \/ Disconnect(c)
  PROVE  HubTypes' /\ Grows
<1> {"new", "authorized", "live", "closed", "load", "page", "commit", "drained"} \subseteq Stages
  BY DEF Stages, Draining
<1>p. cursor \in Position
  BY DEF ToldUpTo, HubTypes, Position
<1>1. CASE Authorize(c)
  <2>1. conn' \in [Connections -> Conns]
    BY <1>1, ConnEdits DEF Authorize, HubTypes, Position
  <2> QED
    BY <1>1, <2>1 DEF Authorize, HubTypes, Grows, marks, member
<1>2. CASE Accept(c)
  <2>1. conn' \in [Connections -> Conns]
    BY <1>2, ConnEdits DEF Accept, HubTypes, Position
  <2>2. owed' \in [Connections -> SUBSET Notices]
    BY <1>2 DEF Accept, HubTypes, Visible, After
  <2> QED
    BY <1>2, <2>1, <2>2 DEF Accept, HubTypes, Grows, marks, member
<1>3. CASE LoadCursor(c)
  <2>1. conn' \in [Connections -> Conns]
    <3>1. CASE active
      <4>1. conn' = [conn EXCEPT ![c] = [conn[c] EXCEPT !.pc = "page", !.exp = cursor]]
        BY <1>3, <3>1 DEF LoadCursor
      <4>2. [conn[c] EXCEPT !.pc = "page", !.exp = cursor] \in Conns
        BY <1>p, ConnEdits DEF HubTypes
      <4> QED
        BY <4>1, <4>2 DEF HubTypes
    <3>2. CASE ~active
      BY <1>3, <3>2, ConnEdits DEF LoadCursor, Abort, HubTypes
    <3> QED
      BY <3>1, <3>2
  <2> QED
    BY <1>3, <2>1 DEF LoadCursor, HubTypes, Grows, marks, member
<1>4. CASE LoadPage(c)
  <2> DEFINE page == Page(conn[c].exp, PageSize)
  <2>1. page \in SUBSET Notices /\ page \subseteq durable
    BY DEF Page, Visible, After, HubTypes
  <2>2. CASE page # {} /\ conn[c].shut
    <3>1. conn' \in [Connections -> Conns]
      BY <1>4, <2>2, ConnEdits DEF LoadPage, Abort, HubTypes
    <3> QED
      BY <1>4, <2>2, <3>1 DEF LoadPage, HubTypes, Grows, member
  <2>3. CASE ~(page # {} /\ conn[c].shut)
    <3>1. /\ shown' = [shown EXCEPT ![c] = @ \cup page]
          /\ conn' = [conn EXCEPT ![c].pc = "commit", ![c].page = page]
          /\ withheld \subseteq withheld'
          /\ UNCHANGED <<durable, overtaken, owed, web, fan>>
      BY <1>4, <2>3 DEF LoadPage
    <3> HIDE DEF page
    <3>2. conn' \in [Connections -> Conns]
      BY <2>1, <3>1, ConnEdits DEF HubTypes, Position
    <3> QED
      BY <2>1, <3>1, <3>2 DEF HubTypes, Grows
  <2> QED
    BY <2>2, <2>3
<1>5. CASE Commit(c)
  <2>1. conn' \in [Connections -> Conns]
    <3>1. PICK k \in Conns : conn' = [conn EXCEPT ![c] = k]
      <4>1. conn[c] \in Conns
        BY DEF HubTypes
      <4>2. CASE conn' = [conn EXCEPT ![c] = Closed]
        BY <4>2, ConnEdits
      <4>3. ASSUME NEW pc \in {"drained", "load"},
                   conn' = [conn EXCEPT ![c].pc = pc, ![c].page = {}, ![c].exp = 0,
                              ![c].round = IF pc = "load" THEN @ + 1 ELSE @]
            PROVE  \E k \in Conns : conn' = [conn EXCEPT ![c] = k]
        <5>1. CASE pc = "load"
          <6>1. conn' = [conn EXCEPT ![c] = [conn[c] EXCEPT !.pc = pc, !.page = {}, !.exp = 0, !.round = conn[c].round + 1]]
            BY <4>3, <5>1 DEF HubTypes
          <6> QED
            BY <4>1, <6>1, ConnEdits DEF Position
        <5>2. CASE pc = "drained"
          <6>1. conn' = [conn EXCEPT ![c] = [conn[c] EXCEPT !.pc = pc, !.page = {}, !.exp = 0, !.round = conn[c].round]]
            BY <4>3, <5>2 DEF HubTypes
          <6> QED
            BY <4>1, <6>1, ConnEdits DEF Position
        <5> QED
          BY <4>3, <5>1, <5>2
      <4> QED
        BY <1>5, <4>2, <4>3 DEF Commit, Abort
    <3> QED
      BY <3>1 DEF HubTypes
  <2> QED
    BY <1>5, <2>1 DEF Commit, HubTypes, Grows, marks, member
<1>6. CASE GoLive(c)
  <2>1. conn' \in [Connections -> Conns]
    BY <1>6, ConnEdits DEF GoLive, HubTypes
  <2> QED
    BY <1>6, <2>1 DEF GoLive, HubTypes, Grows, marks, member
<1>7. CASE SendFails(c)
  <2>1. conn' \in [Connections -> Conns]
    BY <1>7, ConnEdits DEF SendFails, Abort, HubTypes
  <2>2. PICK part \in SUBSET durable : shown' = [shown EXCEPT ![c] = @ \cup part]
    BY <1>7 DEF SendFails, Page, Visible, After
  <2>3. UNCHANGED <<durable, marks, web, fan>>
    BY <1>7 DEF SendFails
  <2> QED
    BY <2>1, <2>2, <2>3 DEF HubTypes, Grows, marks
<1>8. CASE Disconnect(c)
  <2>1. conn' \in [Connections -> Conns]
    BY <1>8, ConnEdits DEF Disconnect, HubTypes
  <2> QED
    BY <1>8, <2>1 DEF Disconnect, HubTypes, Grows, marks, member
<1>9. CASE CatchUpFails(c)
  <2>1. conn' \in [Connections -> Conns]
    BY <1>9, ConnEdits DEF CatchUpFails, Abort, HubTypes
  <2> QED
    BY <1>9, <2>1 DEF CatchUpFails, HubTypes, Grows, marks, member
<1> QED
  BY <1>1, <1>2, <1>3, <1>4, <1>5, <1>6, <1>7, <1>8, <1>9 DEF Handshake

LEMMA HubTypesStep ==
  ASSUME HubTypes, cursor \in ToldUpTo, [HubNext]_hubVars
  PROVE  HubTypes' /\ Grows
<1>1. CASE HubTick \/ CompactCursor \/ AlarmFires
  BY <1>1 DEF HubTick, CompactCursor, AlarmFires, HubTypes, Grows, hub, marks, member
<1>m. CASE ChangeMembership \/ ChangeGrants
  <2>1. /\ UNCHANGED <<durable, overtaken, withheld, fan, conn, shown, web>>
        /\ owed' \in [Connections -> SUBSET Notices]
    <3>1. \A c \in Connections : owed[c] \in SUBSET Notices
      BY DEF HubTypes
    <3> QED
      BY <1>m, <3>1 DEF ChangeMembership, ChangeGrants, hub
  <2> QED
    BY <2>1 DEF HubTypes, Grows
<1>2. CASE HubCrash
  <2>1. conn' \in [Connections -> Conns]
    BY <1>2, ConnEdits DEF HubCrash
  <2> QED
    BY <1>2, <2>1 DEF HubCrash, HubTypes, Grows, marks, member
<1>3. ASSUME NEW e \in Notices, Persist(e)
      PROVE  HubTypes' /\ Grows
  <2>1. HubTypes'
    BY <1>3 DEF Persist, HubTypes, hub, member
  <2>2. \A f \in durable' \ durable : f = e
    BY <1>3 DEF Persist
  <2>3. (\E g \in durable : g > e) => e \in overtaken'
    BY <1>3 DEF Persist
  <2> QED
    BY <1>3, <2>1, <2>2, <2>3 DEF Persist, Grows, hub, member
<1>4. ASSUME NEW e \in Notices, Live(e) \/ PublishFails(e)
      PROVE  HubTypes' /\ Grows
  <2>1. CASE PublishAudience(e) \/ PublishRefused(e) \/ PublishCheck(e) \/ PublishFails(e)
    BY <2>1 DEF PublishAudience, PublishRefused, PublishCheck, PublishFails,
         HubTypes, Grows, hub, marks, member
  <2>2. CASE PublishSend(e)
    <3>1. e \in durable
      BY <2>2 DEF PublishSend, HubTypes
    <3> QED
      BY <2>2, <3>1 DEF PublishSend, HubTypes, Grows, marks, member
  <2> QED
    BY <1>4, <2>1, <2>2 DEF Live
<1>5. ASSUME NEW c \in Connections, Handshake(c) \/ SendFails(c) \/ CatchUpFails(c) \/ Disconnect(c)
      PROVE  HubTypes' /\ Grows
  BY <1>5, HandshakeTypes
<1>6. CASE AlarmAnswer \/ AlarmFails
  <2>1. \A c \in Connections : Shut(c) \in Conns /\ conn[c] \in Conns
    <3> TAKE c \in Connections
    <3>1. conn[c] \in Conns /\ [conn[c] EXCEPT !.shut = TRUE] \in Conns
      BY ConnEdits DEF HubTypes, Position, Stages
    <3> QED
      BY <3>1, ConnEdits DEF Shut
  <2> QED
    BY <1>6, <2>1 DEF AlarmAnswer, AlarmFails, HubTypes, Grows, marks, member
<1>7. CASE Fetch
  BY <1>7 DEF Fetch, Page, Visible, After, HubTypes, Grows, hub, member
<1>8. CASE AcknowledgeCheck
  <2>1. cursor \in Position
    BY DEF ToldUpTo, HubTypes, Position
  <2>2. web' \in [seen: SUBSET durable, exp: Position, next: Position]
    <3>1. PICK e \in web.seen : web' = [web EXCEPT !.exp = cursor, !.next = e]
      BY <1>8 DEF AcknowledgeCheck
    <3>2. e \in Position /\ web \in [seen: SUBSET durable, exp: Position, next: Position]
      BY DEF HubTypes, Position
    <3> QED
      BY <2>1, <3>1, <3>2
  <2> QED
    BY <1>8, <2>2 DEF AcknowledgeCheck, HubTypes, Grows, hub, marks, member
<1>9. CASE AcknowledgeCommit
  BY <1>9 DEF AcknowledgeCommit, HubTypes, Grows, Position, hub, marks, member
<1>10. CASE UNCHANGED hubVars
  BY <1>10 DEF hubVars, HubTypes, Grows, hub, marks, member
<1> QED
  BY <1>1, <1>2, <1>3, <1>4, <1>5, <1>6, <1>7, <1>8, <1>9, <1>10, <1>m DEF HubNext

-----------------------------------------------------------------------------
(* NotificationCatchUp: the invariant                                       *)

\* What a socket is owed is fixed when it is accepted, and only shrinks with what
\* the member may see.
Owes ==
    \A c \in Connections : conn'[c].pc = "load" \/ owed'[c] \subseteq owed[c]

LEMMA OwedStep ==
  ASSUME HubTypes, OwedSound, HubTypes', Grows, [HubNext]_hubVars
  PROVE  OwedSound' /\ Owes
<1>1. ASSUME UNCHANGED <<owed, active, granted>>
      PROVE  OwedSound' /\ Owes
  BY <1>1 DEF OwedSound, Owes, Visible, After, Grows
<1>2. CASE ChangeMembership
  <2>1. durable' = durable /\ granted' = granted
    BY <1>2 DEF ChangeMembership
  <2>2. \A c \in Connections : owed'[c] = IF active' THEN owed[c] ELSE {}
    BY <1>2 DEF ChangeMembership
  <2>3. active' => ~active
    BY <1>2 DEF ChangeMembership
  <2> QED
    BY <2>1, <2>2, <2>3 DEF OwedSound, Owes, Visible, After
<1>3. CASE ChangeGrants
  <2>1. durable' = durable /\ active' = active
    BY <1>3 DEF ChangeGrants
  <2>2. \A c \in Connections : owed'[c] = owed[c] \cap granted'
    BY <1>3 DEF ChangeGrants
  <2> QED
    BY <2>1, <2>2 DEF OwedSound, Owes, Visible, After
<1>4. ASSUME NEW c \in Connections, Accept(c)
      PROVE  OwedSound' /\ Owes
  <2>1. UNCHANGED <<durable, active, granted>>
    BY <1>4 DEF Accept, member
  <2>2. \A b \in Connections : owed'[b] = IF b = c THEN Visible(0) ELSE owed[b]
    BY <1>4 DEF Accept, HubTypes
  <2>3. conn'[c].pc = "load"
    BY <1>4 DEF Accept, HubTypes, Conns
  <2> QED
    BY <2>1, <2>2, <2>3 DEF OwedSound, Owes, Visible, After
<1>5. CASE \/ UNCHANGED hubVars
           \/ HubTick \/ CompactCursor \/ HubCrash
           \/ AlarmFires \/ AlarmAnswer \/ AlarmFails
           \/ Fetch \/ AcknowledgeCheck \/ AcknowledgeCommit
  BY <1>1, <1>5 DEF hubVars, HubTick, CompactCursor, HubCrash, AlarmFires, AlarmAnswer,
     AlarmFails, Fetch, AcknowledgeCheck, AcknowledgeCommit, marks, member
<1>6. ASSUME NEW e \in Notices, Persist(e) \/ Live(e) \/ PublishFails(e)
      PROVE  OwedSound' /\ Owes
  BY <1>1, <1>6 DEF Persist, Live, PublishAudience, PublishRefused, PublishCheck,
     PublishSend, PublishFails, marks, member
<1>7. ASSUME NEW c \in Connections,
             \/ Authorize(c) \/ LoadCursor(c) \/ LoadPage(c) \/ Commit(c) \/ GoLive(c)
             \/ SendFails(c) \/ CatchUpFails(c) \/ Disconnect(c)
      PROVE  OwedSound' /\ Owes
  BY <1>1, <1>7 DEF Authorize, LoadCursor, LoadPage, Commit, GoLive, SendFails,
     CatchUpFails, Disconnect, marks, member
<1> QED
  BY <1>2, <1>3, <1>4, <1>5, <1>6, <1>7 DEF HubNext, Handshake

\* A step that does not touch the pages and positions of the handshakes keeps
\* them sound, because reached positions stay reached.
LEMMA HandshakesStay ==
  ASSUME CatchUpInv, Told \subseteq Told', ToldUpTo \subseteq ToldUpTo', Owes,
         \A c \in Connections :
            \/ conn'[c].pc \notin {"page", "commit", "drained", "live"}
            \/ /\ conn'[c].pc = conn[c].pc
               /\ conn'[c].exp = conn[c].exp /\ conn'[c].page = conn[c].page
  PROVE  \A c \in Connections : HandshakeSound(c)'
<1> TAKE c \in Connections
<1>1. HandshakeSound(c)
  BY DEF CatchUpInv
<1> QED
  BY <1>1 DEF HandshakeSound, Owes

\* The steps of one handshake.
LEMMA HandshakeKeeps ==
  ASSUME CatchUpInv, HubTypes', Grows, Told \subseteq Told', ToldUpTo \subseteq ToldUpTo',
         OwedSound', Owes,
         NEW c \in Connections, Handshake(c) \/ SendFails(c) \/ CatchUpFails(c) \/ Disconnect(c)
  PROVE  CatchUpInv'
<1>t. HubTypes /\ conn[c] \in Conns /\ HandshakeSound(c) /\ cursor \in ToldUpTo
  BY DEF CatchUpInv, HubTypes
<1>w. web' = web
  BY DEF Handshake, Authorize, Accept, LoadCursor, LoadPage, Commit, GoLive,
         SendFails, CatchUpFails, Disconnect
<1>1. WebSound'
  BY <1>w DEF CatchUpInv, WebSound
<1>o. ASSUME NEW b \in Connections \ {c}
      PROVE  conn'[b] = conn[b]
  BY <1>t DEF Handshake, Authorize, Accept, LoadCursor, LoadPage, Commit, GoLive,
         SendFails, CatchUpFails, Disconnect, Abort, HubTypes
<1>2. cursor' \in ToldUpTo' /\ HandshakeSound(c)'
  <2>1. CASE Authorize(c) \/ Accept(c) \/ Disconnect(c)
    <3>1. cursor' = cursor /\ conn'[c].pc \notin {"page", "commit", "drained", "live"}
      BY <1>t, <2>1 DEF Authorize, Accept, Disconnect, Closed, NoConn, HubTypes, Conns
    <3> QED
      BY <1>t, <3>1 DEF HandshakeSound
  <2>6. CASE GoLive(c)
    <3>1. cursor' = cursor /\ conn[c].pc = "drained" /\ conn'[c].pc \in {"closed", "live"}
      BY <1>t, <2>6 DEF GoLive, Closed, NoConn, HubTypes, Conns
    <3>2. owed'[c] \subseteq owed[c]
      BY <3>1 DEF Owes
    <3> QED
      BY <1>t, <3>1, <3>2 DEF HandshakeSound
  <2>2. CASE LoadCursor(c)
    <3>1. cursor' = cursor
      BY <2>2 DEF LoadCursor
    <3>2. \/ conn'[c].pc = "closed"
          \/ conn'[c].pc = "page" /\ conn'[c].exp = cursor
      BY <1>t, <2>2 DEF LoadCursor, Abort, Closed, NoConn, HubTypes, Conns
    <3> QED
      BY <1>t, <3>1, <3>2 DEF HandshakeSound
  <2>3. CASE LoadPage(c)
    <3> DEFINE page == Page(conn[c].exp, PageSize)
    <3>1. cursor' = cursor /\ UNCHANGED <<durable, overtaken>>
      BY <2>3 DEF LoadPage
    <3>2. CASE page # {} /\ conn[c].shut
      <4>1. conn'[c].pc = "closed"
        BY <1>t, <2>3, <3>2 DEF LoadPage, Abort, Closed, NoConn, HubTypes
      <4> QED
        BY <1>t, <3>1, <4>1 DEF HandshakeSound
    <3>3. CASE ~(page # {} /\ conn[c].shut)
      <4>1. /\ shown' = [shown EXCEPT ![c] = @ \cup page]
            /\ conn' = [conn EXCEPT ![c].pc = "commit", ![c].page = page]
        BY <2>3, <3>3 DEF LoadPage
      <4>2. conn[c].exp \in ToldUpTo /\ PageSize \in Nat
        BY <1>t, <2>3, CatchUpAssumption DEF LoadPage, HandshakeSound
      <4>3. conn'[c].pc = "commit" /\ conn'[c].page = page
        BY <1>t, <4>1 DEF HubTypes, Conns
      <4>4. page \subseteq Handed' /\ LeftOut(conn[c].exp, page) \subseteq withheld'
        BY <1>t, <2>3, <3>3, <4>1 DEF Handed, HubTypes, LoadPage
      <4>5. page \subseteq ToldUpTo'
        BY <1>t, <3>1, <4>2, <4>4, PageIsReached
      <4>6. owed'[c] \subseteq Visible(0)
        BY <2>3 DEF LoadPage, CatchUpInv, OwedSound
      <4>7. Cardinality(page) < PageSize => owed'[c] \subseteq Told'
        BY <1>t, <3>1, <4>2, <4>4, <4>6, ShortPageTellsAll
      <4> HIDE DEF page
      <4> QED
        BY <1>t, <3>1, <4>3, <4>5, <4>7 DEF HandshakeSound
    <3> QED
      BY <3>2, <3>3
  <2>4. CASE Commit(c)
    <3>1. cursor' \in ToldUpTo'
      <4>1. CASE cursor' = cursor
        BY <1>t, <4>1
      <4>2. CASE cursor' # cursor
        <5>1. conn[c].pc = "commit" /\ conn[c].page # {} /\ cursor' = Max(conn[c].page)
          BY <2>4, <4>2 DEF Commit, Advance
        <5> QED
          BY <1>t, <5>1, LastOfPage
      <4> QED
        BY <4>1, <4>2
    <3>2. \/ conn'[c].pc \in {"closed", "load"}
          \/ /\ conn'[c].pc = "drained"
             /\ conn[c].page = {} \/ Cardinality(conn[c].page) < PageSize
      BY <1>t, <2>4 DEF Commit, Again, Abort, Closed, NoConn, HubTypes, Conns
    <3>3. conn[c].page = {} => Cardinality(conn[c].page) < PageSize
      BY CatchUpAssumption, FS_EmptySet
    <3>4. CASE conn'[c].pc = "drained"
      <4>1. conn[c].pc = "commit" /\ Cardinality(conn[c].page) < PageSize
        BY <2>4, <3>2, <3>3, <3>4 DEF Commit
      <4>2. owed'[c] \subseteq owed[c]
        BY <3>4 DEF Owes
      <4> QED
        BY <1>t, <3>1, <3>4, <4>1, <4>2 DEF HandshakeSound
    <3> QED
      BY <3>1, <3>2, <3>4 DEF HandshakeSound
  <2>5. CASE SendFails(c) \/ CatchUpFails(c)
    <3>1. conn'[c].pc = "closed"
      BY <1>t, <2>5 DEF SendFails, CatchUpFails, Abort, Closed, NoConn, HubTypes
    <3>2. \/ cursor' = cursor
          \/ /\ conn[c].pc = "commit" /\ conn[c].page # {}
             /\ cursor' = Max(conn[c].page)
      BY <2>5 DEF SendFails, CatchUpFails, Advance
    <3>3. cursor' \in ToldUpTo'
      BY <1>t, <3>2, LastOfPage
    <3> QED
      BY <3>1, <3>3 DEF HandshakeSound
  <2> QED
    BY <2>1, <2>2, <2>3, <2>4, <2>5, <2>6 DEF Handshake
<1>3. \A b \in Connections : HandshakeSound(b)'
  <2> TAKE b \in Connections
  <2>1. CASE b = c
    BY <1>2, <2>1
  <2>2. CASE b # c
    <3>1. HandshakeSound(b)
      BY DEF CatchUpInv
    <3> QED
      BY <1>o, <2>2, <3>1 DEF HandshakeSound, Owes
  <2> QED
    BY <2>1, <2>2
<1> QED
  BY <1>1, <1>2, <1>3 DEF CatchUpInv

LEMMA CatchUpStep ==
  ASSUME CatchUpInv, [HubNext]_hubVars
  PROVE  CatchUpInv'
<1>t. HubTypes /\ cursor \in ToldUpTo /\ WebSound
  BY DEF CatchUpInv
<1>g. HubTypes' /\ Grows
  BY <1>t, HubTypesStep
<1>r. Told \subseteq Told' /\ ToldUpTo \subseteq ToldUpTo'
  BY <1>t, <1>g, ReachedStays
<1>d. OwedSound' /\ Owes
  BY <1>t, <1>g, OwedStep DEF CatchUpInv
<1>w. ASSUME web' = web
      PROVE  WebSound'
  BY <1>t, <1>r, <1>w DEF WebSound
<1>c. ASSUME conn' = conn
      PROVE  \A c \in Connections : HandshakeSound(c)'
  BY <1>r, <1>d, <1>c, HandshakesStay
<1>1. CASE HubTick \/ ChangeMembership \/ ChangeGrants \/ AlarmFires \/ UNCHANGED hubVars
  <2>1. web' = web /\ conn' = conn /\ cursor' = cursor
    BY <1>1 DEF HubTick, ChangeMembership, ChangeGrants, AlarmFires, hubVars, hub, member
  <2> QED
    BY <1>t, <1>g, <1>r, <1>d, <1>w, <1>c, <2>1 DEF CatchUpInv
<1>2. CASE CompactCursor
  <2>1. web' = web /\ conn' = conn /\ cursor' = 0
    BY <1>2 DEF CompactCursor, hub
  <2>2. 0 \in ToldUpTo
    BY <1>t, NoRowIsReached
  <2> QED
    BY <1>g, <1>r, <1>d, <1>w, <1>c, <2>1, <2>2 DEF CatchUpInv
<1>3. CASE HubCrash
  <2>1. web' = web /\ cursor' = cursor
    BY <1>3 DEF HubCrash
  <2>2. \A c \in Connections : conn'[c].pc \in {"new", "closed"}
    BY <1>3 DEF HubCrash, NoConn, Closed
  <2>3. \A c \in Connections : HandshakeSound(c)'
    BY <2>2 DEF HandshakeSound
  <2> QED
    BY <1>t, <1>g, <1>r, <1>d, <1>w, <2>1, <2>3 DEF CatchUpInv
<1>4. ASSUME NEW e \in Notices, Persist(e) \/ Live(e) \/ PublishFails(e)
      PROVE  CatchUpInv'
  <2>1. web' = web /\ conn' = conn /\ cursor' = cursor
    BY <1>4 DEF Persist, Live, PublishAudience, PublishRefused, PublishCheck,
       PublishSend, PublishFails, hub
  <2> QED
    BY <1>t, <1>g, <1>r, <1>d, <1>w, <1>c, <2>1 DEF CatchUpInv
<1>5. ASSUME NEW c \in Connections, Handshake(c) \/ SendFails(c) \/ CatchUpFails(c) \/ Disconnect(c)
      PROVE  CatchUpInv'
  BY <1>g, <1>r, <1>d, <1>5, HandshakeKeeps
<1>6. CASE AlarmAnswer \/ AlarmFails
  <2>1. web' = web /\ cursor' = cursor
    BY <1>6 DEF AlarmAnswer, AlarmFails
  <2>2. ASSUME NEW c \in Connections
        PROVE  \/ conn'[c].pc \notin {"page", "commit", "drained", "live"}
               \/ /\ conn'[c].pc = conn[c].pc
                  /\ conn'[c].exp = conn[c].exp /\ conn'[c].page = conn[c].page
    <3>1. conn[c] \in Conns /\ conn'[c] \in {conn[c], Shut(c)}
      BY <1>t, <1>6 DEF AlarmAnswer, AlarmFails, HubTypes
    <3> QED
      BY <3>1 DEF Shut, Closed, NoConn, Conns
  <2>3. \A c \in Connections : HandshakeSound(c)'
    BY <1>r, <1>d, <2>2, HandshakesStay
  <2> QED
    BY <1>t, <1>g, <1>r, <1>d, <1>w, <2>1, <2>3 DEF CatchUpInv
<1>7. CASE Fetch
  <2> DEFINE page == Page(cursor, Cardinality(Notices))
  <2>1. /\ web' = [web EXCEPT !.seen = @ \cup page]
        /\ conn' = conn /\ cursor' = cursor /\ UNCHANGED <<durable, overtaken>>
    BY <1>7 DEF Fetch, hub
  <2>6. LeftOut(cursor, page) \subseteq withheld'
    BY <1>7 DEF Fetch
  <2>2. web'.seen = web.seen \cup page /\ web'.next = web.next
    BY <1>t, <2>1 DEF HubTypes
  <2>3. page \subseteq ToldUpTo'
    <3>1. Cardinality(Notices) \in Nat
      BY CatchUpAssumption, FS_CardinalityType
    <3>2. page \subseteq Handed'
      <4>1. web'.seen \subseteq Handed'
        BY DEF Handed
      <4> QED
        BY <2>2, <4>1
    <3> QED
      BY <1>t, <1>g, <2>1, <2>6, <3>1, <3>2, PageIsReached
  <2>4. WebSound'
    BY <1>t, <1>r, <2>2, <2>3 DEF WebSound
  <2> QED
    BY <1>t, <1>g, <1>r, <1>d, <1>c, <2>1, <2>4 DEF CatchUpInv
<1>8. CASE AcknowledgeCheck
  <2>1. conn' = conn /\ cursor' = cursor
    BY <1>8 DEF AcknowledgeCheck, hub
  <2>2. web'.seen = web.seen /\ web'.next \in web.seen
    BY <1>t, <1>8 DEF AcknowledgeCheck, HubTypes
  <2>3. WebSound'
    BY <1>t, <1>r, <2>2 DEF WebSound
  <2> QED
    BY <1>t, <1>g, <1>r, <1>d, <1>c, <2>1, <2>3 DEF CatchUpInv
<1>9. CASE AcknowledgeCommit
  <2>1. conn' = conn /\ cursor' \in {cursor, web.next} /\ web.next # 0
    BY <1>9 DEF AcknowledgeCommit, Advance, hub
  <2>2. cursor' \in ToldUpTo'
    BY <1>t, <1>r, <2>1 DEF WebSound
  <2>3. web'.seen = web.seen /\ web'.next = 0
    BY <1>t, <1>9 DEF AcknowledgeCommit, HubTypes
  <2>4. WebSound'
    BY <1>t, <1>r, <2>3 DEF WebSound
  <2> QED
    BY <1>g, <1>d, <1>c, <2>1, <2>2, <2>4 DEF CatchUpInv
<1> QED
  BY <1>1, <1>2, <1>3, <1>4, <1>5, <1>6, <1>7, <1>8, <1>9 DEF HubNext

LEMMA CatchUpStart ==
  ASSUME HubInit
  PROVE  CatchUpInv
<1>1. HubTypes
  BY ConnEdits DEF HubInit, HubTypes, NoWeb, Position
<1>2. cursor \in ToldUpTo
  BY <1>1, NoRowIsReached DEF HubInit
<1>3. WebSound
  BY DEF HubInit, NoWeb, WebSound
<1>4. OwedSound
  BY DEF HubInit, OwedSound
<1> QED
  BY <1>1, <1>2, <1>3, <1>4 DEF HubInit, HandshakeSound, NoConn, CatchUpInv

\* Everything that a handshake or the HTTP client may move the cursor to is a
\* position up to which the member was told everything that was there in time
\* (commit_catch_up, acknowledge_catch_up).
THEOREM CatchUpsAreSound == HubSpec => []CatchUpInv
<1>1. HubInit => CatchUpInv
  BY CatchUpStart
<1>2. CatchUpInv /\ [HubNext]_hubVars => CatchUpInv'
  BY CatchUpStep
<1> QED
  BY <1>1, <1>2, PTL DEF HubSpec

\* For any number of events, sockets and pages, whatever sends and statements
\* fail, however grants change and however often the hub or the member is lost:
\* the cursor passes an event only after the event was handed over, unless it
\* became durable after a later one, or the member could not see it when the page
\* was read (Page, LeftOut).
THEOREM PassedWasHanded == HubSpec => []PassedWasShown
<1>1. CatchUpInv => PassedWasShown
  BY DEF CatchUpInv, ToldUpTo, Told, PassedWasShown, Passed
<1> QED
  BY <1>1, CatchUpsAreSound, PTL

\* Under the same conditions, a socket goes live only when the member was told of
\* everything that it could see from the socket's acceptance on (drain_catch_up):
\* whoever moves the cursor meanwhile, moves it over what was handed over.
THEOREM LiveWasCaughtUp == HubSpec => []LiveIsCaughtUp
<1>1. CatchUpInv => LiveIsCaughtUp
  BY DEF CatchUpInv, HandshakeSound, Told, LiveIsCaughtUp
<1> QED
  BY <1>1, CatchUpsAreSound, PTL

=============================================================================
