# Verification of the profile platform

This directory holds TLA+ modules for the parts of the platform in which several
actors, failures or restarts meet, TLC configurations that check them on small
instances, and TLAPS proofs. It is read beside the repository; every path below
is relative to the repository root, and `PROJECT.json` maps each definition to
the lines it models.

## 1. The system

The platform lets tenants keep browser profiles as encrypted *generations* in
object storage and open them on paired Windows devices. A Cloudflare Worker
(control plane) with a D1 database (catalog) and one Durable Object per profile
decides who may open a profile; the Profile Bridge on the device opens it, runs
the browser and saves the next generation. Beside this the Worker runs
scheduled mailbox checks, sends mail, and delivers notifications.

| Component | State it keeps | Operations | Hard behaviour |
|---|---|---|---|
| Session coordinator domain (`crates/session-domain`) | version, sequence, epoch, status, one launch intent, one lease, drain deadline, 32 receipts | 9 commands through `apply`; checkpoint and restore | any order of commands from several clients, retries, timeouts observed late, a checkpoint reader with its own rules |
| Stored document (`crates/cloudflare-adapters/src/profile_coordinator.rs`) | checkpoint, journal, last claimant | apply, replay, compaction, provenance | receipts are lost in a checkpoint; the claim may be folded away; a refused compaction locks the profile |
| Durable Object (`apps/control-plane-worker/src/profile_coordinator.rs`) | the document, the commit gate, one alarm | command, alarm, writer authority, successor commit, device commit | other requests run while it waits for D1; eviction; one alarm slot for two purposes |
| Successor ingress (`profile_generation_successor_ingress.rs`) | none | verify the object, prove authority, commit; observe; retry decision; retire; material | authority read before two waits and used after them |
| D1 journals and triggers (`migrations/`, `d1_*.rs`) | profile head, generations, append-only command tables, coordinator projection | insert validated and applied by triggers | validates against a projection that may be late or missing; lost replies |
| Coordinator ingress (`crates/use-cases/src/coordinator_ingress.rs`) | none | stamp a command, execute, project | crash between executing and projecting; a retry is stamped anew |
| Bridge session (`shipping_control_plane.rs`, `shipping_composition.rs`, `operator_flow.rs`) | cursor (version, sequence, deadlines, pending heartbeat), browser, keepalive | claim, heartbeat and retry, launch, close, save, release | requests that arrive after the Bridge gave them up, lost replies, death at any time |
| Bridge save (`shipping_save_attempt.rs`, `shipping_generation_successor_control.rs`) | intent, staged files, clone, checkpoint, binding, rescue reserve on disk | save, resume, complete, rescue | a crash between any two writes; a commit whose outcome is unknown; another device meanwhile |
| Windows delivery (`windows_delivery*.rs`, `local_profile/quiescence.rs`) | a journal of snapshots and one pending file, the staged releases, the lock of the profile root | prepare, install, activate, arrive, open, confirm, recover | two processes and a helper; death between pending file and rename; a release replaced while a profile opens |
| Device pairing and application sessions (`windows_device_pairing.rs`, `d1_device_*.rs`, `0034_device_application_authority.sql`) | keys and a binding file on the computer; pairings, bindings, sessions in D1 | pair/start, pair/complete, renew, request check, suspend, revoke | two browser links at once; completion and file are two writes; rows read before a revocation and used after it |
| Device jobs (`crates/device-domain`, `use-cases-devices`) | per job a version, status, attempt, fence, claim, retry time | issue, claim, heartbeat, outcome, expire, resume, cancel, commit | requests that read the same row; expiry against a late result; a trigger that ends the job beside the aggregate |
| Mailbox jobs (`use-cases-mailboxes/src/scheduled.rs`, `d1_mailbox_*.rs`) | jobs, dispatch rows, leases, run journal, queue | cron, claim, reclaim, run, complete; run by hand | at-least-once queue, a consumer slower than its lease, a result written and its lease not completed |
| Outbound mail (`outbound_mail.rs`, `d1_outbound_mail_intents/`, `gmail_outbound_mail.rs`) | an intent row, claims, completions, marks | reserve, claim, send, complete, mark ambiguous | a send whose answer is lost must not be repeated |
| Notifications (`crates/notification-domain`, `use-cases-notifications`, `realtime_notifications.rs`) | outbox, deliveries, notifications, replays; cursors, sockets, a synchronization gate, an alarm | publish, consume, retry, dead-letter, replay, compact; catch up, fan out, acknowledge, disconnect | duplicated and delayed messages; a hub that dies with its gate stored; checks that are stale after a wait on D1 |
| Encrypted generations, certification, runtime bundles, identity, clients | versioned records | governed commands | mostly validation of one record at a time |

What makes the system correct: at most one writer per profile; a writer whose
lease ended is never accepted again; an expired lease ends, and ends
`Uncertain`; a profile whose local data is uncertain goes back to the device
that has it; a save that was confirmed is never lost, and what a browser wrote
is never dropped silently; no state is reachable that the program itself cannot
read back; a job ends once and a mail is sent once; an update is confirmed by
its own browser or rolled back; every accepted request rests on an authority
that is still there; every event reaches an end.

`PROJECT.json` lists all components, those left out included, and under
`hazards` each place where this can go wrong and the property that watches it.

## 2. Modules

| Module | Models |
|---|---|
| `CoordinatorDomain` | the pure transition function: for each command the condition under which `apply_new` accepts it and the state it leads to; `apply`; checkpoint and restore |
| `Coordinator` | that function as a state machine, one action per command, and its properties |
| `CoordinatorDocument` | checkpoint, journal, compaction and admission of the stored document; refines `Coordinator` |
| `GenerationCommit` | the Durable Object with its alarm and gate, the ingress of a save, the D1 journal and projection, and time |
| `BridgeSession` | Bridges with their cursor and browser, the network, the ingress, and the coordinator of `CoordinatorDomain` |
| `BridgeSave` | what a save writes to disk, step by step, the commit request, and what the next open makes of it |
| `DeviceJobs` | the device job aggregate, concurrent requests on its row, and the commit trigger that ends it |
| `DevicePairing` | pairing, binding, application sessions and their check |
| `MailboxJobs` | scheduled mailbox checks: cron, queue, leases, runs |
| `SendOnce` | abstract: a message goes out at most once and its verdict stands |
| `OutboundMail` | the requests of one idempotency key, the intent row and the provider; refines `SendOnce` |
| `NotificationDelivery` | from the outbox to a durable notification, with retries, dead letters, replay and compaction |
| `NotificationCatchUp` | the cursor, the member's grants, the catch-up of a socket, live fan-out, the hub's gate and alarm |
| `WindowsDelivery` | installation, activation, transfer, health and rollback over the journal on disk |
| `MC...` | symmetry and constants for the runs |
| `CoordinatorProofs`, `GenerationCommitProofs`, `BridgeSaveProofs`, `DeviceJobsProofs`, `DevicePairingProofs`, `MailboxProofs`, `NotificationProofs`, `WindowsDeliveryProofs` | the theorems; `CoordinatorProofs` has those of the coordinator, its document and the Bridge's session |

`BridgeSession` composes the coordinator with its clients; `GenerationCommit`
composes it with the object, the ingress and D1. A definition introduced by a
comment "Mutant" or "A plausible slip" is a wrong variant of the definition
after it. No specification uses one: each is there to show that the property
named in `PROJECT.json` would notice.

**CoordinatorDomain, Coordinator.** The record `coord` has the fields of
`ProfileCoordinatorState`; an `Option` is a set of at most one element. `apply`
searches the receipts, checks sequence, version and time, and calls one handler;
the operators `...Accepted` and `...Effect` are the early returns and the
assignments of that handler, in particular the timeout preflight
(`timeout_if_due`) in front of heartbeat, release and drain. A refused command
changes nothing and is no step. `MaxMillis` and `MaxVersion` stand for
`u64::MAX`: the code's additions are checked, so a command that would pass them
is refused in the model too. An envelope with another sequence or version than
the expected one is refused whatever else it holds, so `Submit` only tries the
expected ones. `retired` is a history variable.

**CoordinatorDocument.** `doc` is `StoredCoordinatorDocument`; the coordinator is
never stored, `Replay(doc)` recomputes it as every request does. `ApplyEnvelope` is
`StoredCoordinatorDocument::apply`: replay, the admission tests for recovery,
the domain's `apply`, the append, and the compaction with its verification,
which refuses the command if it fails. JSON conversion between stored and domain
types is field by field and is left out; the checks it makes on the way
(`into_domain`, `CoordinatorLease::restored`, `restore_checkpoint`) are
`Restorable`.

**GenerationCommit.** Each action is one run of a handler between two waits on
something outside the object. `Command` and `ProveAuthority` test the gate before
they wait for the body of the request and not after it; `waiting` is the set of
requests that had passed when a gate was stored, and `PassesGate` lets them go on
under it. (A wait while no gate is stored makes no difference.) A save goes through `ProveAuthority` (ingress and
`profile_generation_writer_authority`), `Reserve` or `RefuseReservation`
(`profile_generation_successor` up to D1), one of the `D1...` actions (journal
and triggers; an insert and the read after it are two steps), and `Finish`
(gate and alarm). `D1Unavailable` before or after the insert is a failed call;
`Evict` loses the requests inside the object. The results of commands reach D1
through `Project`, late and only if newer, or are lost (`LoseProjection`); the
alarm's `Tick` is never projected, as in the code. `ProjectionLive` and
`ExtendsHead` are the validation trigger, `Classify` what the adapter makes of a
refused insert. `D1Revoked` stands for the membership, grant and device tests of
the trigger. Receipts are left out: the ingress stamps a repeated request with
a new time, so it equals its receipt only within one millisecond, and then it
changes nothing.

**BridgeSession.** `bridge[d]` is the process: its stage, its cursor, the call in
progress and when the next heartbeat is due. A request is put on `network` with
`Send` (by `SendClaim`, `SendHeartbeat` or `SendRelease`), may be delivered (`Deliver`: the ingress stamps it, tests the device
policy and applies it to `state`, the coordinator) after the Bridge gave up on it, or be dropped;
`ClaimReply`, `HeartbeatConfirmed`, `HeartbeatRefused` and `HeartbeatUncertain`
are what the Bridge makes of an answer or of none, with the validation of
replies and the retry with the same key. `Launch`, `CloseBrowser`, `Release...`,
`Exit` are the session; the save is `BeginCommit` and `EndCommit` as far as the
object's gate is concerned. `AlarmGated` and `stray` are the alarm that a gate
leaves behind. `used`, `committed` and `excused` are history.

**BridgeSave.** `disk[d]` is what survives a crash; every file that is staged,
linked or unlinked is a step, and `Crash` is possible between any two. Content is the
set of edits a workspace holds, digests are equalities of content. The server
side is `Apply` (with the writer's epoch and base compared) or `Lose`. `Recovery`
is the next open: an exact checkpoint is resumed, a lone intent is sealed, a
successor that became the head is completed, everything else blocks, and a
snapshot over the limit goes through the native rescue. `closed` and `saved` are
history. `EvidenceIsTakenUp` asks of every stage of a recovery under a live lease
that it can go on, up to the release or the rescue's launch. Three interruptions
do block: a record that was staged and not linked, a workspace of which a clone or
reserve was cut short (`TargetAlreadyExists`, `operator_flow.rs:2062`), both in
`TornBefore`, and a head that another device has moved elsewhere.

**DeviceJobs.** One job: its row, the journal of device commits, and requests
that each read the time (`Begin`), wait, read the row and apply one operation of
the aggregate to the copy (`Load`), and write the copy under the version that was
read (`Write`), or end somewhere on the way (`GiveUp`). `Commit` is the insert into
`device_generation_commit_commands` with its triggers, as far as they touch the
job. `Restorable` is `DeviceJob::restore`, and the table's CHECKs. `ended` is a
history variable.

**DevicePairing.** `proc[q]` is a Bridge command or a request with what it read;
pair/start creates a key and a pairing, the page authorizes it, pair/complete
proves the key, the completion's statements and triggers publish a binding
version, revoke the one before and its sessions, and the file is written last.
`RenewRead`/`RenewWrite` and `RequestRead`/`RequestDevice` are the two statements
of a renewal and of a request check, with the acts of the tenant owner
(`Suspend`, `Reinstate`, `RevokeBinding`, `BindCertificate`) in between. The check of
the request's signature (`bridge_machine.rs:107`) waits once more after the second
statement and reads nothing; it is part of `RequestDevice`, so a grant has the
date of that statement, not of the moment the handler goes on.

**MailboxJobs.** Every statement is a step: the cron loads, publishes and marks;
a consumer inserts its claim or examines, waits for or reclaims a lease, runs the
provider and writes the run, which moves the job's version by three, and then
completes the lease. `WorkerFails` and `DeliverTwice` are the faults.

**OutboundMail, SendOnce.** The handler step by step: access, reservation, claim
of an attempt, the provider's call, completion, and the fallback that marks the
attempt in flight ambiguous. A request can die anywhere, the store can fail at
every write, access can change, and the idempotency record can expire.

**NotificationDelivery, NotificationCatchUp.** The first has the scheduled
handler, the queue with its copies and the consumers; every write of a delivery
row is a compare and swap. The queue discards a message after `QueueRetries`
retries, whatever became of its event; `discarded` remembers the events that lost
their last message so. The second has the hub's handlers, cut where they
wait for D1: the handshake with its gate and pages, publication, the alarm that
disconnects suspended members, and the HTTP client's acknowledgement. `granted` is
what the member's role and grants let it see (`Grants`: whatever is not `Grantable`,
and any of what is) and is changed by `ChangeGrants`; a page is the first events of
what is `Visible`, an event's audience is read before the hub is called
(`PublishAudience`) and its authorization before the broadcast (`PublishSend`). A call that meets a fresh gate (`PublishRefused`)
is retried by the queue or given up. `withheld` is history: what a page left out
below its last event for want of a grant. The two modules meet in one event
becoming durable (`Persist`).

**WindowsDelivery.** `journal` is the sequence of snapshots, `pending` the file
that is renamed into it; whoever opens the journal finalises a pending file it
finds. `ValidState`, `ValidEvidence` are what a snapshot is tested for when it is
written and read. A process goes through its todo list of writes; an opening
holds the root lock shared from the workspace lock to the browser's end, a
command holds it exclusively, `Crash` loses only the lock.

## 3. Runs

| Run | Checks | Question |
|---|---|---|
| `coordinator` | `CheckpointRestorable`, `RetiredWritersFenced`, `ReceiptWindow`, `ExpiredLeaseEndsUncertain` | Is every reachable coordinator readable, are retired writers fenced, is the idempotency window exact, do timeouts come first and end `Uncertain`? |
| `document` | `DocumentReadable`, `ClaimProvenance`, `UncertainReservedForClaimant`, `DocumentImplementsCoordinator` (refinement) | Is compaction invisible and never refused, and does provenance survive it? |
| `commit` | `ConfirmedSavesKept`, `AlarmArmed`, `CommitUnderLiveLease` | Do a command that waits for its body, two saves at once, an eviction and late projections lose a confirmed save, the alarm, or the lease under a gate in any way but one? |
| `device_jobs` | `AttemptsEndOnce`, `SuccessIsFinal`, `CommittedStateExact` | Can requests that read the same row, an expiry, a late result and a commit end an attempt twice or undo a success? |
| `bridge_session` | `ConfirmedWindowIsExclusive`, `UnsavedNeverIdle` | Is what a Bridge was last told a lower bound of what the coordinator grants, and can unsaved data come to look clean? |
| `bridge_save` | `SavedInHead`, `ClosedIsTracked`, `OneSuccessor`, `EvidenceIsTakenUp`, `LaunchSeesClosed` | Is anything a browser wrote dropped or forgotten by a save that is interrupted anywhere? |
| `notification_delivery` | `NothingStranded`, `DeliveredIsFinal`, `EveryEventSettles` | Is anything reopened after it was delivered, or left open in any way but two: given up by the queue, or behind a row that does not decode? |
| `notification_catch_up` | `PassedWasShown`, `LiveIsCaughtUp`, `FanoutEnds`, `SuspendedIsDisconnected` | Was what the cursor passed handed over, was a socket told of everything it was owed before it goes live, does fan-out end, is a suspended member cut off? |
| `mailbox_jobs` | `OneResultPerVersion`, `LeaseExcludes`, `CompletedHasResult` | Do leases and versions make an at-least-once queue write one result? |
| `outbound_mail` | `SendsOnce` (refinement of `SendOnce`) | Is a mail sent at most once and are the final answers true? |
| `windows_delivery` | `OneJournal`, `HealthProven`, `AttemptNotSuperseded`, `TransferSettles` | Does an update keep one history, a proven fallback, and an end to every transfer, across deaths? |
| `device_pairing` | `OneAuthority`, `StoredBindingWasMade`, `SessionsBacked`, `GrantedWhileBacked` | Do races of pairings, renewals and revocations leave an authority that nobody granted? |

Every property is listed in `PROJECT.json` with a mutant: a plausible slip in the code
that breaks it in the same run. The modules with
an action per operation also define `TypeOK` (in `WindowsDelivery` `ValidState`, the code's
own test of a snapshot, takes its place); it holds on all these instances and is
proved where section 4 says so (`SessionTypeOK` and `HubTypeOK` in `BridgeSession` and
`NotificationCatchUp`).

### Disagreements observed while modelling

Each line is a sentence of the repository that the model of the code violates. The
formula is defined in the module, and the configuration (not among the runs)
makes TLC print the counterexample. Where a configuration names two formulas TLC
stops at the first it finds violated; leave that one out to see the other.

* `CoordinatorHardDeadline.cfg`, `HardDeadlineNotExtended`. `RenewLease` restarts
  the hard deadline (`crates/session-domain/src/coordinator.rs:841`), and a unit
  test expects it to; `docs/PROFILE_COORDINATOR.md:36` speaks of "a non-extendable
  hard deadline". What does hold is `LeaseDeadlinesBounded`.
* `GenerationCommitTurnover.cfg`, `EveryCommitUnderLiveLease`. A command tests the gate,
  waits for its body (`apps/control-plane-worker/src/profile_coordinator.rs:123-126`)
  and does not test again; a save that stores its gate meanwhile is committed after
  the command has ended its lease, against the same sentence as the next line. It is
  the one exception of `CommitUnderLiveLease`, named `overtaken`.
* `GenerationCommitTurnover.cfg`, `PriorWritersNeverCommit`. Two handlers of one
  save share a gate and the first to finish deletes it unconditionally
  (`apps/control-plane-worker/src/profile_coordinator.rs:390`). With a late and a
  lost projection the second applies its save for the prior epoch;
  `docs/PROFILE_COORDINATOR.md:45-47` says "every prior writer is permanently
  fenced". While the gate is stored, later commands and the alarm are kept out:
  `CommitUnderLiveLease`.
* `GenerationCommitStuckGate.cfg`, `ExpiredLeaseEnds`. A commit that ends
  `DependencyUnavailable` keeps its gate for a retry, but an interactive retry
  first proves its authority, which is refused while a gate is stored. Nothing
  else clears it and the alarm only reschedules itself (`:78`), so the lease
  outlives its deadlines;
  `docs/evidence/2026-08-06-repository-step-5-profile-coordinator.md:51-53`
  promises an ordinary `Tick`. `GenerationCommitLiveness.cfg` passes:
  `LeaseEndsUnlessGated`.
* `BridgeSessionLostReply.cfg`, `LostReplyRecovered`. The ingress stamps every
  delivery anew (`crates/use-cases/src/coordinator_ingress.rs:208`), so an exact
  retry of an applied heartbeat differs from its receipt, is refused as an
  idempotency conflict, and the Bridge kills the browser.
  `apps/profile-bridge/src/shipping_composition.rs:350-353`: "The shared
  coordinator retains the same command and proves a replay against fresh DO
  state".
* `BridgeSaveOvertaken.cfg`, `NextOpenCompletes`. A recovery commits N+1 and
  releases; if another device saves N+2 first, the checkpoint that still waits for
  completion matches nothing and blocks the profile on that device, although its
  edits are all in the head. `shipping_composition.rs:817`: "A new claim selects
  and completes the authoritative exact N+1 on the next Open."
* `NotificationPoison.cfg`, `EveryEventReallySettles`. The pending batch is decoded as one
  collection; a committed row whose type the registry does not list (such as
  `client.contact_saved.v1`) fails every later run. `docs/ARCHITECTURE.md:474`:
  "bounded retries, maximum attempts, DLQ/terminal handling".
* `NotificationPoison.cfg`, `OpenIsCarried`. D1 counts six attempts, the queue
  is configured with neither `max_retries` nor a dead letter queue
  (`deploy/cloudflare/wrangler.jsonc:79-84`) and drops the message after the
  platform's default of three; the row stays `RETRY_SCHEDULED`. Same sentence. The
  runs therefore let the queue give up, and check that this is the only gap.
* `NotificationSkipped.cfg`, `NothingSkipped`. History is ordered by commit time and
  grows in the order the queue is consumed; an event that becomes durable after
  the cursor passed it is in no page. `docs/REALTIME_NOTIFICATIONS.md:42`: "cannot
  skip durable history". `LiveAfterCatchUp` (`:44`, "prevents live fan-out from
  crossing an in-progress reconnect catch-up") fails too when the gate is stored
  after publication tested it. What does hold is that a socket goes live only after it
  was told of everything it was owed, with the exceptions of `PassedWasShown`:
  `LiveIsCaughtUp`.
* `MailboxOwnerTransfer.cfg`, `EveryJobSettles`. A published message names the owner
  of that moment; after a transfer its claim is stale, the message is acknowledged
  and the dispatch row keeps the cron from publishing the job again.
  `docs/ARCHITECTURE_REBASELINE_V3_AR2.md:77`: "keeps D1 job/binding/version state
  as authority with bounded Queue retry". `MailboxJobsSettle.cfg` passes: without
  a transfer every job settles.
* `WindowsDeliveryRestoredRelease.cfg`, `RestoredReleaseOpens`. After a rollback the
  last activation names the failed release, `exact_health_state`
  (`windows_delivery_runtime.rs:337`) refuses every opening of the restored one, and
  the installer refuses updates. `docs/PRODUCT.md:198` makes rollback and recovery
  mandatory.
* `WindowsDeliveryStaleOpening.cfg`, `BrowserRunsActive`. An opening compares its
  executable with the active release before the network claim and takes the lock
  after it; a release installed in between is not noticed.
  `windows_delivery_runtime.rs:528` calls that an error.
* `DevicePairingKeyLost.cfg`, `SavedBindingReturns` and `ConnectedOnce`. A failed pair/start deletes the key it created although a second
  command has paired with it; a second completion revokes the binding whose file the
  first is about to write. Both leave a computer that is not connected and cannot
  be, against `docs/UI_ARCHITECTURE.md:113-116`. `DeviceConnects.cfg` passes: with one
  command at a time, connecting completes.

### Observations no document speaks about

* A device job that reports `ProfileBusy` in its last attempt, or is resumed after it,
  waits for a claim that `attempt < max_attempts` refuses; nothing calls the expiry,
  resumption or cancellation use cases.
* Heartbeats during a commit gate are answered 409; a release under a stale cursor is
  refused; the browser is launched whatever the state of the keepalive; the safety of
  a drain rests on its timeout (60 s) not being shorter than the idle one (30 s),
  `DrainAssumption`.
* A torn staged file or binding file, or a partial clone, blocks until a person acts.
  Edits of a session that crashed before its close was recorded are abandoned if
  another device saves meanwhile.
* The replay request of an operator is stamped anew and so conflicts with itself
  when repeated. The cursor advances when a page was handed to the socket, not when
  it was read by the person.
* A member's cursor is one position over everything: it passes the events that a page
  left out for want of a grant (`withheld`), and a grant that comes later does not bring
  them back into a page. `crates/use-cases-notifications/src/catch_up.rs:100`, "it cannot
  skip hidden or unauthorized events", speaks of the cursor a client may name. A D1
  failure in the hub's alarm closes the sockets and sets no further alarm.
* A mailbox job on a binding that needs authorization or is suspended never runs, and
  waiting for a running lease consumes the queue's retries. An outbound mail whose
  request died stays `DISPATCHING` until it is repeated.
* `RECOVERY_REQUIRED` of the Windows delivery is unreachable; a death between the
  creation of the state directory and its first snapshot blocks the setup; a release
  cannot be installed again after an interrupted health attempt.
* A computer whose binding was revoked or replaced keeps its file and cannot be
  paired again without deleting it. A revoked session stays cached in the Bridge, which
  costs one refused request.

### Bounds

* **Clocks** stop at `MaxMillis` or `MaxClock`; a bound on time counts as every
  deadline having passed where the module says so, so that nothing waits for
  ever. Timeouts of one to three ticks make deadlines distinct or coincide.
* `coordinator`: two devices, a window of two receipts over three keys, seven versions:
  two turnovers, and keys that return after they were evicted.
* `document`: one entry kept, compaction at three, a window of one, so that every second
  command compacts; the code's 32, 64 and 32 satisfy the same `CompactionAssumption`.
* `commit`: two saves and a command at a time, two generations (a save on top of a save,
  two saves of one base), four client versions (issue, claim, heartbeat, release), one
  result on its way to D1. `GenerationCommitLeases.cfg`, which is not among the runs
  and passes too, checks `ConfirmedSavesKept` with two commands at a time and five client
  versions (issue, claim, release, issue, claim: a turnover), with the four commands
  that this takes.
* `device_jobs`: two requests, as a third could only be a second stale one; two attempts
  and five ticks: a claim, its expiry, another claim, a late result of the first.
* `bridge_session`: two Bridges, two requests in flight, six versions, idle 2, hard 3,
  drain 2, three ticks: a session, its loss and another one on the other device.
* `bridge_save`: two devices, four leases, three edits, the first of which exceeds the
  snapshot limit: a save interrupted twice, another device in between, and a rescue.
* `notification_delivery`: two events, one of another type, in two copies, three attempts
  of which the queue's one retry lets two happen, one replay, one failure.
* `notification_catch_up`: two events on pages of one, at most two pages, one connection
  beside the HTTP client, a gate that is stale after one tick, one failure, and one
  change of the membership or of the grant for the first event, which may be missing
  from the start. `NotificationLive.cfg`, which is not among the runs and passes
  too, checks `FanoutEnds` and `SuspendedIsDisconnected` with two connections.
* `mailbox_jobs`: two consumers, two possible owners, two attempts, two retries of
  the queue, one failure, one transfer.
* `outbound_mail`: three requests, two bodies, three attempts (the code's number), and no
  bound on failures.
* `windows_delivery`: two releases, two processes beside the helper, two activations,
  two faults: a death inside the recovery from a death.
* `device_pairing`: two members, one computer with one device id, two links, two
  commands, one failure, two acts of the owner.

Deadlock is not checked: clients may stop, and bounded clocks and counters end.

### Fairness

Fairness is only assumed of what the platform or the program does by itself.
Failures are finitely many in every module that states fairness.

* `GenerationCommit` (`FairSpec`): time passes, a due alarm is delivered, a D1 call
  returns, if only with an error, and the object handles the answer. Nothing obliges
  clients to act, the ingress to project, or D1 to be available. `RetryingSpec` adds clients
  that go on saving, so that the counterexample to `ExpiredLeaseEnds` is not a
  client that gave up.
* `NotificationDelivery`: the cron runs again, the queue delivers what it has not given
  up, and a handler that started goes on. How often the queue retries is the constant
  `QueueRetries`; nothing assumes that it is enough. `NotificationCatchUp`: time passes,
  handlers that wait for D1 go on, the alarm is delivered and its handler ends, and the
  queue goes on with some fan-out that it holds, retrying a refused one or giving it up.
* `MailboxJobs` (`FairSpec`, for `MailboxJobsSettle.cfg`): time, cron, queue and consumers.
* `WindowsDelivery` (`FairSpec`): a process goes on, a browser is closed at some time, a
  waiting helper and a recovering opening do not meet a held lock for ever (strong
  fairness), and the person opens a profile again with each installed release.
* `DevicePairing` (`FairSpec`, for `DeviceConnects.cfg`): processes go on, pairings expire,
  and the person starts, authorizes and finishes.

## 4. Proofs

The proofs hold for every value of the constants that satisfies the named
assumptions, in particular for any number of actors and any length of behaviour.

**CoordinatorProofs** (`ConfigAssumption`, `BoundAssumption`): `TypeCorrect`,
`CheckpointsRestorable`, `WritersFenced`, `DeadlinesBounded`, `WindowExact`,
`ExpiredLeasesEnd`, `DrainsFinal`. They follow from one inductive invariant `IInv`:
types, the restorable shape of the state, and what makes the rest inductive.
`RetiredWritersFenced` needs that all epochs granted so far, in the lease and in
`retired`, are at most `next_epoch`; `CheckpointRestorable` needs that the idle
deadline was capped by the hard one and that heartbeats are not later than the
last observed time; the window needs version = sequence + 1. There is one lemma
per command that its effect keeps the shape, one that `Accept` keeps the
invariant, and one step that combines them.

**CoordinatorProofs**, the document (`CompactionAssumption`): `DocumentsReadable`,
`ClaimsProvenance`, `UncertainReserved`, and `DocumentImplements`, the refinement of
`Coordinator`, for a journal of any length. `Replay` is a recursive function of the
journal, so a property of every prefix is proved by the choice of the least prefix
that lacks it (`WellFoundedInduction` on the naturals, without an operator parameter).
The heart is compaction: replaying the retained entries from the new checkpoint
agrees with replaying all of them up to the receipts (`Alike`), because the
transition reads no receipt but to recognise a key (`ReceiptsUnread`), and the window of
the retained entries is then the same. `DocumentInv` says that the document is
`Stored` (each entry is accepted by the state before it), that its last claimant is
the one of journal and checkpoint, and relates both to the history variables.

**CoordinatorProofs**, the Bridge's session (`SessionAssumption`, `MintAssumption`,
`DrainAssumption`): `WindowsExclusive`, `UnsavedStaysKnown` and `SessionsTyped`, for any number
of devices, sessions and messages, in any order, lost or late. What the code relies on
is a claim about a coordinator the Bridge cannot see, so the invariant `SessionInv`
relates three places. The coordinator is `SoundBy` the clock: it has the shape that
`IInv` gives it. Each process is `BridgeSound`: every window it was told of, and each
that a reply under way would tell it of, is still `Confirmed`, that is, over or backed by
the lease it was granted under with deadlines not earlier, and no drain ends it sooner
(`Backs`; here `DrainAssumption` is needed); and a session whose browser is about to run
is `Accounted` for: it has the lease or left the profile `Uncertain` (`Unsettled`), or its
data is safe. Each request on the network is `MessageSound`, a Clean release concerns no
unsaved session, and a Bridge whose release is under way is `releasing` (`Withdrawn`),
which is why a window can only end by expiry. Two lemmas about the transition carry
the argument: inside a window no command but a release of the same session ends the
lease (`WindowKept`), and no command but a Clean release of its own or a recovery settles a
session (`UnsettledKept`). Steps are of two kinds, each treated once: a step of anything
but the Bridges keeps windows and accounts (`EnvironmentStep`), and a step of one Bridge
changes one process under sessions nobody else has (`BridgeMoves`, `SessionsApart`).

**GenerationCommitProofs** (`SaveAssumption` beside the coordinator's):
`CommitsUnderLiveLease`, `SavesAreKept` and `AlarmStaysArmed`, with D1 unavailable, replies lost, the object evicted and projections late or lost. The first
rests on `GateHolds`: as long as a gate is stored, the object still has the lease
and the version the gate was validated for, because the alarm and every command
that comes after the gate are refused, or else a command that came before it has
been applied (`overtaken`). The second rests on `HistoryInv`: what every request in progress was told
(`CallsSound`) and what was confirmed lies on the one path that leads to the head,
which an accepted row only extends. The third, `AlarmInv`, adds that the stored state
is typed, so that its deadlines have an earliest one, and that an alarm is a time:
every command and the alarm's own `Tick` set it anew from the state they leave, and
whatever meets a gate moves it at most one retry ahead.

**BridgeSaveProofs** (`SaveBounds`): `ClosesAreTracked`, `SavedStaysInHead`,
`LaunchesSeeClosed` and `SuccessorsAreUnique`, with a death between any two writes,
requests that arrive late and leases that turn over. The first layer, `IInv`, relates
three places. `Coherent` is what a disk satisfies whatever its process does: one intent
and one checkpoint at most, and evidence that leads forward from its base. `Points` is
what the place of the process says about its disk, for instance that a process which
works on an intent has no checkpoint, and that after the commit the checkpoint's
content is in the head. `Journal` and `Leases` are what the server knows: applied
requests are in the head, a lease belongs to one process, and until that process sends
a request nothing moves the head it claimed. Without the last one, recovery could
remove its evidence for a head that had moved elsewhere, so it is what
`ClosedIsTracked` turns on. `OneSuccessor` needs a second layer, `NameInv`: every
generation that exists or can still be made from evidence has a content of its own,
because a running session's workspace has an edit that is recorded nowhere else
(`Private`) until its close is.

**NotificationProofs** (`DeliveryAssumption`, `CatchUpAssumption`): `NothingIsStranded` and
`DeliveriesFinal` for any number of events, copies, attempts and replays and any limit
of the queue, `CatchUpsAreSound`, `PassedWasHanded` and `LiveWasCaughtUp` for any number
of notices, connections, pages and changes of grants. `DeliveryInv` says that
an open row has an attempt left, that a consumer works on a row it read as open and
has written what it passed, and that a dispatcher publishes only what it loaded;
`DeliveriesFinal` follows, as every write of a row is a compare and swap. `CarriedInv`
strengthens it: an open delivery needs no outbox row but a message that has not settled
it or a replay still to be sent (`OpenCarried`), or it was given up by the queue with no
other message left (`Dropped` is the step that does this), which is more than
`NothingStranded` asks and is what each step keeps. For the cursor, `CatchUpInv` says that the cursor and every
position somebody is about to move it to, in a page of a handshake or in the HTTP
client, is one up to which everything durable was handed over, withheld or overtaken
(`ToldUpTo`); what becomes durable below such a position is overtaken, so it stays one.
For sockets, `OwedSound` keeps what a socket is owed within what its member can see, and
`HandshakeSound` says that a handshake which has drained its pages has told of all of it:
its last page was short and read from the cursor that it then moved, so nothing
visible lies beyond it.

**DeviceJobsProofs** (`JobAssumption`): `TypeCorrect`, `JobsRestorable`,
`ClaimsEndOnce`, `SuccessFinal`, `CommitsExact`. What makes them inductive is
`CallsCurrent`: the version a writing request read is at most that of the row and,
if it is the same, what it will write follows from the row by one accepted
operation. Each operation raises the version, so every other request in progress
becomes stale. The commit trigger is shown to be a release of the claim with
success (`CommitSound`), which is why it may bypass the aggregate.

**MailboxProofs**, outbound mail (`NoBodyAssumption`, `MaxDispatchesAssumption`):
`OutboundTypes`, `OutboundOneHolder`, `OutboundAnswersStand`, and `OutboundSendsOnce`, the
refinement of `SendOnce`. The invariant: a row that is not in flight is held by
nobody (`QuietRow`), one in flight by at most one request (`OneHolder`), which knows its
attempt and whether the message went out (`HolderKnows`); completions belong to
attempts that were claimed (`CompletedWereClaimed`). So only the holder can send, and
only before a copy was delivered.

**DevicePairingProofs** (`PairingAssumption`): `AuthorityIsOne`, `SessionsAreBacked`,
`GrantsAreBacked`, `AuthorizationsAreSpentOnce`, from an invariant that also says what
a request in progress has read (`Calls`), that a binding version came from an
authorization (`LinksAuthorized`) and that no key is active for two members
(`KeyedMembers`). `StoredBindingsWereMade` adds `FilesMade`: what a command is about to write
into the binding file (`Made`) was published before, and published bindings are revoked
but never taken away.

**MailboxProofs**, jobs (`MailboxAssumption`): `MailboxTypes`, `OneResult`,
`CompletionsHaveResults`, `LeasesExclude`, for any number of jobs, consumers, copies and
transfers. `OneResult` needs `ResultsPassed`: a result was written when the job was at
its version and moved it on, so the version the job is at has none; that the attempts
are the number of results needs the journal to be finite. `CompletionsHaveResults` needs
that a consumer about to complete has seen the result (`CompletingHaveResults`).
`LeasesExclude` needs `HoldersFenced`, which compares each holder with the lease row and
not with the other holders: the row's fence goes with the row's deadline, a lower fence
with a deadline that has passed. `CallsTyped` gives what a call in progress carries.

**WindowsDeliveryProofs** (`ReleaseAssumption`, `BoundAssumption`): `JournalIsOne`,
`HealthIsProven`, `AttemptStands`, for any releases and any number of overlapping
processes that may die anywhere. Every snapshot in the journal, in the pending file and
on a todo list is `Sound`: it passes the store's validation, the release to fall back
to is older than the active one and an activation names a release (`Ranked`, which the
validation does not test and without which a rollback or an activation could write a
state that is refused), and the health it claims was seen (`Proven`). One lemma per
transition shows that it keeps this. `Exclusion` and `Current` say that a command about
to write has the journal to itself and writes on top of what it read. Openings share
the lock and may write together; `Proves` says why that is harmless: as long as one of
them is proving an activation, that activation is the recorded one, whatever is pending
is its one next step (`Follows`), and that step is what each of them writes at the
revision it read, whoever publishes it. A process that finalises somebody else's
pending file (`Publishing`) therefore changes nothing for the others.

Each inductive invariant was an invariant of a run before it was proved, with the set
of all sequences or functions in its type part replaced by a test of the elements.

Only model-checked: `EvidenceIsTakenUp`, which asks whether a recovery is `ENABLED`, and
all liveness (`EveryEventSettles`, `FanoutEnds`, `SuspendedIsDisconnected`,
`TransferSettles`), both out of the prover's reach. Every other
property of a run is stated by a theorem.

## 5. Not modelled

* The commit of a device job behind the gate, upload and download capabilities,
  retirement of generations and working proofs.
* The redemption of a launch code (one conditional update), mailbox onboarding, client
  associations, contact keys, profile assignments, a device's profile authorizations.
* Encrypted generations: the container format and the cryptography have no state
  machine; a generation is a model value wherever it is used.
* Certification, runtime bundles, the browser execution domain, the capability policy:
  validation of one document at a time. The `camouhost` process and the frontend: the
  operating system's and the browser's behaviour.
* The secret resolver and the operations tools keep no state of the system.

The modules cover a small share of the repository's lines. Most of the remainder is
validation, encoding, SQL text, transport types, tests inside source files, tools and user
interface: it has no interleaving or failure of its own, and a model of it would say
nothing that its unit tests do not. What has is in section 6.

## 6. Plan

1. `GenerationCommit`: the device-job commit as a second kind of save behind the
   same gate; its retry with an unchanged digest, which the interactive path lacks.
2. Generation retirement against the head and the working proofs.
3. `LaunchRedemption`; mailbox onboarding; the abstract save (a new head, at most once,
   never lost) that `BridgeSave` on top of `GenerationCommit` should refine.
4. Proofs: the guards behind `EvidenceIsTakenUp` as a state predicate; the refinement
   between `BridgeSave` and `GenerationCommit`, once the abstract save is there.
