------------------------------ MODULE BridgeSave ------------------------------
(***************************************************************************)
(* The Bridge's crash-safe save of one profile: what it writes to the      *)
(* device's disk between the browser's close and the confirmed save        *)
(* (apps/profile-bridge/src/shipping_save_attempt.rs), and what the next   *)
(* open does with what it finds there (operator_flow.rs,                   *)
(* shipping_generation_successor_control.rs).                              *)
(*                                                                         *)
(* After a close the Bridge publishes a LOCAL_UNSYNCED intent, clones the  *)
(* workspace into the one successor that the intent determines, seals the  *)
(* clone into an exact checkpoint, retires the intent, uploads and commits *)
(* under the lease, binds the clone, releases the lease and retires the    *)
(* checkpoint.  The process may die between any two of these writes, and   *)
(* the commit request may be lost, late, or applied with its reply lost.   *)
(*                                                                         *)
(* Content is the set of edits a workspace holds: each browser session     *)
(* adds one.  Digests are equalities of content.  A lease is known by its  *)
(* epoch, which stands for its session and fence; how a lease is kept and  *)
(* ends is the matter of BridgeSession.tla, where the browser never runs   *)
(* past it.  An I/O error ends the process like a crash does.              *)
(***************************************************************************)
EXTENDS Naturals, FiniteSets

CONSTANTS
    Devices,    \* devices the profile is opened on
    MaxEpoch,   \* claims granted (a bound)
    MaxEdits,   \* browser sessions (a bound)
    LargeEdits, \* edits after which the snapshot exceeds its limit
    NoDevice    \* nobody holds the lease

ASSUME SaveBounds ==
    /\ MaxEpoch \in Nat
    /\ MaxEdits \in Nat
    /\ LargeEdits \subseteq 1 .. MaxEdits
    /\ NoDevice \notin Devices

VARIABLES
    server,  \* the lease, the head, the committed successors, requests in flight
    disk,    \* what survives a crash of each device
    proc,    \* what the Bridge process of each device is doing
    edits,   \* browser sessions so far
    closed,  \* history: per device, edits whose close was durably recorded
    saved    \* history: edits reported as Saved

vars == <<server, disk, proc, edits, closed, saved>>

Edits == 1 .. MaxEdits
Content == SUBSET Edits

\* A generation's directory, or the directory of a rescue reserve.  The id of a
\* successor is a digest of the intent it is made from.
Dir == [kind : {"generation", "reserve"}, epoch : 0 .. MaxEpoch, content : Content]
Gen == [kind : {"generation"}, epoch : 0 .. MaxEpoch, content : Content]
FirstGen == [kind |-> "generation", epoch |-> 0, content |-> {}]

\* LocalUnsyncedIntent; an option of a rescue, with the reserve it rests on.
Rescue == [reserve : Dir, phase : {"Editing", "Closed"}]
Intent == [base : Gen, epoch : 1 .. MaxEpoch, content : Content,
           rescue : SUBSET Rescue]

\* AttemptHeader; origin is the epoch of the intent when another lease sealed it.
Attempt == [base : Gen, successor : Gen, epoch : 1 .. MaxEpoch, content : Content,
            origin : SUBSET (1 .. MaxEpoch)]

Request == [base : Gen, successor : Gen, epoch : 1 .. MaxEpoch]

Pc == {"down", "claimed", "browsing", "closed", "staged", "linked", "retained",
       "cloning", "cloned", "sealing", "sealed", "publishing", "committing",
       "committed", "bound", "released", "completing", "rebound", "rescue",
       "reserving", "reserved"}

\* An option is a set of at most one element.
IsOption(x, S) == x \subseteq S /\ Cardinality(x) <= 1

\* ws maps each directory to its content, {} while its copy is incomplete.
DiskOK(k) ==
    /\ DOMAIN k.ws \subseteq Dir
    /\ \A g \in DOMAIN k.ws : IsOption(k.ws[g], Content)
    /\ k.bound \subseteq Gen
    /\ IsOption(k.intent, Intent)
    /\ \A i \in k.intent : IsOption(i.rescue, Rescue)
    /\ IsOption(k.attempt, Attempt)
    /\ \A a \in k.attempt : IsOption(a.origin, 1 .. MaxEpoch)
    /\ k.stage \in BOOLEAN

\* Types, and that the history runs no further than the edits made.
TypeOK ==
    /\ server.epoch \in 0 .. MaxEpoch
    /\ server.holder \in Devices \cup {NoDevice}
    /\ server.head \in Gen
    /\ server.rows \subseteq Request
    /\ server.wire \subseteq Request
    /\ \A d \in Devices :
          /\ DiskOK(disk[d])
          /\ proc[d].pc \in Pc
          /\ proc[d].mode \in {"save", "recover"}
          /\ proc[d].epoch \in 0 .. server.epoch
          /\ proc[d].selected \in Gen
          /\ closed[d] \subseteq 1 .. edits
    /\ edits \in 0 .. MaxEdits
    /\ saved \subseteq UNION {closed[d] : d \in Devices}

Down == [pc |-> "down", mode |-> "save", epoch |-> 0, selected |-> FirstGen]

Init ==
    /\ server = [epoch |-> 0, holder |-> NoDevice, head |-> FirstGen,
                 rows |-> {}, wire |-> {}]
    /\ disk = [d \in Devices |->
                 [ws |-> [g \in {} |-> {}], bound |-> {}, intent |-> {},
                  attempt |-> {}, stage |-> FALSE]]
    /\ proc = [d \in Devices |-> Down]
    /\ edits = 0
    /\ closed = [d \in Devices |-> {}]
    /\ saved = {}

-----------------------------------------------------------------------------
(* What is on a disk.                                                      *)

At(d, pc) == proc[d].pc = pc
Goto(d, pc) == proc' = [proc EXCEPT ![d].pc = pc]
Stop(d) == proc' = [proc EXCEPT ![d] = Down]

Holds(k, g, c) == g \in DOMAIN k.ws /\ k.ws[g] = {c}
WithDir(k, g, x) ==
    [k EXCEPT !.ws = [h \in DOMAIN @ \cup {g} |-> IF h = g THEN x ELSE @[h]]]

TooLarge(c) == \E e \in c \cap LargeEdits : \A f \in c : f <= e

\* deterministic_lone_successor.
Successor(i) == [kind |-> "generation", epoch |-> i.epoch, content |-> i.content]

\* The id reserve_original_native_for_rescue derives from the intent.
Reserve(i) == [kind |-> "reserve", epoch |-> i.epoch, content |-> i.content]

\* has_unresolved_save_attempt_for_profile.
Unresolved(k) == k.intent # {} \/ k.attempt # {} \/ k.stage

\* The generations that the evidence starts from or leads to.
Reachable(k) ==
    UNION {{i.base} : i \in k.intent}
        \cup UNION {{a.base, a.successor} : a \in k.attempt}

Editing(i) == \E r \in i.rescue : r.phase = "Editing"

\* matching_local_unsynced_for_header.
Matches(k, i, a) ==
    /\ i.base = a.base
    /\ i.content = a.content
    /\ Holds(k, i.base, i.content)
    /\ \/ a.origin = {} /\ a.epoch = i.epoch
       \/ /\ a.origin = {i.epoch}
          /\ a.epoch > i.epoch
          /\ a.successor = Successor(i)

\* discover_unresolved_streaming_exact_save_attempt: the checkpoint, if it is
\* the only one, nothing is staged, both workspaces are as it recorded them and
\* an intent beside it is its own.
Exact(k) ==
    {a \in k.attempt :
        /\ ~k.stage
        /\ Holds(k, a.base, a.content)
        /\ Holds(k, a.successor, a.content)
        /\ \A i \in k.intent : Matches(k, i, a)}

\* classify_scoped_pending_save_evidence = LocalUnsynced.
LoneIntent(k) ==
    {i \in k.intent :
        /\ ~k.stage
        /\ k.attempt = {}
        /\ ~Editing(i)
        /\ Holds(k, i.base, i.content)}

\* native_rescue_interrupted_under_fresh_lease.
InterruptedRescue(k, epoch, selected) ==
    {i \in k.intent :
        /\ Editing(i)
        /\ ~k.stage
        /\ k.attempt = {}
        /\ i.base = selected
        /\ epoch > i.epoch
        /\ \A r \in i.rescue : Holds(k, r.reserve, r.reserve.content)}

-----------------------------------------------------------------------------
(* The server: the coordinator's lease and the D1 journal.                 *)

\* A proof of writer authority: the lease of this epoch is live.
WriterLive(d, epoch) == server.holder = d /\ server.epoch = epoch

\* exact_unapplied_successor_is_retryable, after the authority was proved.
NotAppliedRetryable(d, base) ==
    /\ WriterLive(d, proc[d].epoch)
    /\ server.head = base
    /\ \A r \in server.rows : r.base # base

\* A lease ends by release, expiry or revocation, and the profile is reopened
\* for a claim; not while its browser runs.
LeaseEnds ==
    /\ server.holder # NoDevice
    /\ ~At(server.holder, "browsing")
    /\ server' = [server EXCEPT !.holder = NoDevice]
    /\ UNCHANGED <<disk, proc, edits, closed, saved>>

\* The D1 commit: compare and swap of the head under the live lease.
Apply(r) ==
    /\ r \in server.wire
    /\ LET fits == /\ server.holder # NoDevice
                   /\ server.epoch = r.epoch
                   /\ server.head = r.base
       IN server' = [server EXCEPT
              !.wire = @ \ {r},
              !.head = IF fits THEN r.successor ELSE @,
              !.rows = IF fits THEN @ \cup {r} ELSE @]
    /\ UNCHANGED <<disk, proc, edits, closed, saved>>

Lose(r) ==
    /\ r \in server.wire
    /\ server' = [server EXCEPT !.wire = @ \ {r}]
    /\ UNCHANGED <<disk, proc, edits, closed, saved>>

-----------------------------------------------------------------------------
(* Opening.                                                                *)

\* open_with_materialization up to the claim: a fresh lease on the generation
\* that the server selects.
Claim(d) ==
    /\ At(d, "down")
    /\ server.holder = NoDevice
    /\ server.epoch < MaxEpoch
    /\ server' = [server EXCEPT !.holder = d, !.epoch = @ + 1]
    /\ proc' = [proc EXCEPT ![d] =
                  [pc |-> "claimed", mode |-> "recover",
                   epoch |-> server.epoch + 1, selected |-> server.head]]
    /\ UNCHANGED <<disk, edits, closed, saved>>

\* The process dies, an error or a refusal ends what it does, or the browser is
\* stopped with its lease.
Crash(d) ==
    /\ ~At(d, "down")
    /\ Stop(d)
    /\ UNCHANGED <<server, disk, edits, closed, saved>>

\* Writes of the browser; the edit is on disk from its start.
Browse(d, k) ==
    /\ edits < MaxEdits
    /\ edits' = edits + 1
    /\ disk' = [disk EXCEPT ![d] =
                  [k EXCEPT !.ws[proc[d].selected] = {c \cup {edits'} : c \in @}]]
    /\ proc' = [proc EXCEPT ![d].pc = "browsing", ![d].mode = "save"]
    /\ UNCHANGED <<server, closed, saved>>

\* Mutant: evidence that does not concern the selected generation is ignored.
LaunchOvertaken(d) ==
    /\ At(d, "claimed")
    /\ proc[d].selected \notin Reachable(disk[d])
    /\ WriterLive(d, proc[d].epoch)
    /\ LET g == proc[d].selected IN
       \/ /\ g \in disk[d].bound
          /\ Browse(d, disk[d])
       \/ /\ g \notin DOMAIN disk[d].ws
          /\ Browse(d, [WithDir(disk[d], g, {g.content}) EXCEPT !.bound = @ \cup {g}])

\* ensure_authoritative_generation and the launch: a bound workspace is used as
\* it is, with whatever a crashed session left in it; an absent one is built
\* from the cloud; an unbound one only if it equals the cloud's.
Launch(d) ==
    /\ At(d, "claimed")
    /\ ~Unresolved(disk[d])
    /\ WriterLive(d, proc[d].epoch)
    /\ LET g == proc[d].selected IN
       \/ /\ g \in disk[d].bound
          /\ Browse(d, disk[d])
       \/ /\ g \notin DOMAIN disk[d].ws \/ Holds(disk[d], g, g.content)
          /\ g \notin disk[d].bound
          /\ Browse(d, [WithDir(disk[d], g, {g.content}) EXCEPT !.bound = @ \cup {g}])

-----------------------------------------------------------------------------
(* Closing: the durable intent.                                            *)

CloseBrowser(d) ==
    /\ At(d, "browsing")
    /\ Goto(d, "closed")
    /\ UNCHANGED <<server, disk, edits, closed, saved>>

\* The intent of the closed workspace under the session's own lease.
IntentOf(d) ==
    LET g == proc[d].selected IN
    {[base |-> g, epoch |-> proc[d].epoch, content |-> c, rescue |-> {}]
        : c \in disk[d].ws[g]}

\* persist_local_unsynced_intent without an intent on disk: the record is
\* staged and synced, linked to its name, and the stage is removed.
StageIntent(d) ==
    /\ At(d, "closed")
    /\ disk[d].intent = {}
    /\ disk' = [disk EXCEPT ![d].stage = TRUE]
    /\ Goto(d, "staged")
    /\ UNCHANGED <<server, edits, closed, saved>>

LinkIntent(d) ==
    /\ At(d, "staged")
    /\ disk' = [disk EXCEPT ![d].intent = IntentOf(d)]
    /\ closed' = [closed EXCEPT ![d] = @ \cup UNION disk[d].ws[proc[d].selected]]
    /\ Goto(d, "linked")
    /\ UNCHANGED <<server, edits, saved>>

UnstageIntent(d) ==
    /\ At(d, "linked")
    /\ disk' = [disk EXCEPT ![d].stage = FALSE]
    /\ Goto(d, "retained")
    /\ UNCHANGED <<server, edits, closed, saved>>

\* The same over the Editing intent of this session's rescue: one rename.
ReplaceIntent(d) ==
    /\ At(d, "closed")
    /\ \E i \in disk[d].intent, n \in IntentOf(d), r \in UNION {j.rescue : j \in disk[d].intent} :
          /\ r.phase = "Editing"
          /\ i.base = n.base
          /\ i.epoch = n.epoch
          /\ Holds(disk[d], r.reserve, r.reserve.content)
          /\ disk' = [disk EXCEPT ![d].intent =
                        {[n EXCEPT !.rescue = {[r EXCEPT !.phase = "Closed"]}]}]
          /\ closed' = [closed EXCEPT ![d] = @ \cup n.content]
    /\ Goto(d, "retained")
    /\ UNCHANGED <<server, edits, saved>>

-----------------------------------------------------------------------------
(* The successor: clone and seal.  In mode "save" the session that closed   *)
(* the browser works under its own lease; in mode "recover" a later one     *)
(* works under a fresh lease on the same base.                              *)

\* Mutant: the successor is named after the lease at hand.
SourceByLease(d) ==
    {[i EXCEPT !.epoch = proc[d].epoch] : i \in LoneIntent(disk[d])}

\* original_local_unsynced_successor and deterministic_lone_unsynced_successor.
Source(d) ==
    {i \in LoneIntent(disk[d]) :
        /\ i.base = proc[d].selected
        /\ IF proc[d].mode = "save" THEN i.epoch = proc[d].epoch
                                    ELSE i.epoch < proc[d].epoch}

\* RecoveryClone::create copies into the successor's own directory.
StartClone(d) ==
    /\ At(d, "retained")
    /\ \E i \in Source(d) :
          /\ ~TooLarge(i.content)
          /\ Successor(i) \notin DOMAIN disk[d].ws
          /\ disk' = [disk EXCEPT ![d] = WithDir(@, Successor(i), {})]
    /\ Goto(d, "cloning")
    /\ UNCHANGED <<server, edits, closed, saved>>

FinishClone(d) ==
    /\ At(d, "cloning")
    /\ \E i \in Source(d) :
          disk' = [disk EXCEPT ![d] = WithDir(@, Successor(i), {i.content})]
    /\ Goto(d, "cloned")
    /\ UNCHANGED <<server, edits, closed, saved>>

\* A clone left by an interrupted attempt is reused if it is complete.
ReuseClone(d) ==
    /\ At(d, "retained")
    /\ \E i \in Source(d) :
          /\ ~TooLarge(i.content)
          /\ Holds(disk[d], Successor(i), i.content)
    /\ Goto(d, "cloned")
    /\ UNCHANGED <<server, disk, edits, closed, saved>>

\* persist_streaming_exact_save_attempt_*: the sealing material comes from the
\* server under the lease; then stage, link, unstage.
StageAttempt(d) ==
    /\ At(d, "cloned")
    /\ WriterLive(d, proc[d].epoch)
    /\ disk' = [disk EXCEPT ![d].stage = TRUE]
    /\ Goto(d, "sealing")
    /\ UNCHANGED <<server, edits, closed, saved>>

\* Mutant: a recovery's checkpoint does not say which close it continues.
LinkAttemptNoOrigin(d) ==
    /\ At(d, "sealing")
    /\ \E i \in disk[d].intent :
          disk' = [disk EXCEPT ![d].attempt =
             {[base |-> i.base, successor |-> Successor(i), content |-> i.content,
               epoch |-> proc[d].epoch, origin |-> {}]}]
    /\ Goto(d, "sealed")
    /\ UNCHANGED <<server, edits, closed, saved>>

LinkAttempt(d) ==
    /\ At(d, "sealing")
    /\ \E i \in disk[d].intent :
          disk' = [disk EXCEPT ![d].attempt =
             {[base |-> i.base, successor |-> Successor(i), content |-> i.content,
               epoch |-> proc[d].epoch,
               origin |-> IF proc[d].mode = "save" THEN {} ELSE {i.epoch}]}]
    /\ Goto(d, "sealed")
    /\ UNCHANGED <<server, edits, closed, saved>>

UnstageAttempt(d) ==
    /\ At(d, "sealed")
    /\ disk' = [disk EXCEPT ![d].stage = FALSE]
    /\ Goto(d, "publishing")
    /\ UNCHANGED <<server, edits, closed, saved>>

-----------------------------------------------------------------------------
(* Publication of the exact checkpoint.                                    *)

\* retire_local_unsynced_after_streamed_checkpoint; a recovery keeps the intent
\* until the committed successor is completed.
RetireIntent(d) ==
    /\ At(d, "publishing")
    /\ proc[d].mode = "save"
    /\ disk[d].intent # {}
    /\ Exact(disk[d]) # {}
    /\ disk' = [disk EXCEPT ![d].intent = {}]
    /\ UNCHANGED <<server, proc, edits, closed, saved>>

\* publish_streamed_exact_under_writer up to the commit request.
MayPublish(d, a) ==
    /\ a.base = proc[d].selected
    /\ proc[d].epoch >= a.epoch
    /\ NotAppliedRetryable(d, a.base)

SendCommit(d) ==
    /\ At(d, "publishing")
    /\ proc[d].mode = "save" => disk[d].intent = {}
    /\ \E a \in Exact(disk[d]) :
          /\ MayPublish(d, a)
          /\ server' = [server EXCEPT !.wire = @ \cup
                {[base |-> a.base, successor |-> a.successor, epoch |-> proc[d].epoch]}]
    /\ Goto(d, "committing")
    /\ UNCHANGED <<disk, edits, closed, saved>>

\* The request of a device, while it waits for the reply.
RequestOf(d) ==
    {[base |-> a.base, successor |-> a.successor, epoch |-> proc[d].epoch]
        : a \in disk[d].attempt}

\* Mutant: any answer counts as the commit's.
CommitReplyAssumed(d) ==
    /\ At(d, "committing")
    /\ Goto(d, "committed")
    /\ UNCHANGED <<server, disk, edits, closed, saved>>

\* The reply Activated, or AlreadyActive.
CommitReply(d) ==
    /\ At(d, "committing")
    /\ RequestOf(d) \cap server.wire = {}
    /\ RequestOf(d) \subseteq server.rows
    /\ Goto(d, "committed")
    /\ UNCHANGED <<server, disk, edits, closed, saved>>

\* No reply: the retained save comes back through the reconnect loop, which
\* asks for the decision again before it repeats anything; a recovery gives up.
CommitUncertain(d) ==
    /\ At(d, "committing")
    /\ IF proc[d].mode = "save" THEN Goto(d, "publishing") ELSE Stop(d)
    /\ UNCHANGED <<server, disk, edits, closed, saved>>

-----------------------------------------------------------------------------
(* After the commit.                                                       *)

\* complete_committed_streamed_successor: bind the clone,
BindSuccessor(d) ==
    /\ At(d, "committed")
    /\ proc[d].mode = "save"
    /\ \E a \in disk[d].attempt :
          /\ Holds(disk[d], a.successor, a.content)
          /\ disk' = [disk EXCEPT ![d].bound = @ \cup {a.successor}]
    /\ Goto(d, "bound")
    /\ UNCHANGED <<server, edits, closed, saved>>

\* release the lease Clean (close_confirmed_save),
ReleaseSaved(d) ==
    /\ At(d, "bound")
    /\ WriterLive(d, proc[d].epoch)
    /\ server' = [server EXCEPT !.holder = NoDevice]
    /\ Goto(d, "released")
    /\ UNCHANGED <<disk, edits, closed, saved>>

\* Mutant: the checkpoint goes once the commit was sent.
RetireEarly(d) ==
    /\ At(d, "committing")
    /\ disk' = [disk EXCEPT ![d].attempt = {}]
    /\ Stop(d)
    /\ UNCHANGED <<server, edits, closed, saved>>

\* and, all that done, retire the checkpoint: only now is it Saved.
RetireSaved(d) ==
    /\ At(d, "released")
    /\ \E a \in disk[d].attempt :
          /\ a.successor \in disk[d].bound
          /\ saved' = saved \cup a.content
    /\ disk' = [disk EXCEPT ![d].attempt = {}]
    /\ Stop(d)
    /\ UNCHANGED <<server, edits, closed>>

\* A recovery never opens the base it claimed: it releases the lease, and a
\* new claim finds the successor selected.
ReleaseRecovered(d) ==
    /\ At(d, "committed")
    /\ proc[d].mode = "recover"
    /\ WriterLive(d, proc[d].epoch)
    /\ server' = [server EXCEPT !.holder = NoDevice]
    /\ Stop(d)
    /\ UNCHANGED <<disk, edits, closed, saved>>

-----------------------------------------------------------------------------
(* Recovery, at an open that finds evidence.                               *)

\* complete_active_exact_after_restart for a checkpoint of the claimed base.
ResumeExact(d) ==
    /\ At(d, "claimed")
    /\ \E a \in Exact(disk[d]) :
          /\ a.base = proc[d].selected
          /\ proc[d].epoch > a.epoch
          /\ NotAppliedRetryable(d, a.base)
    /\ Goto(d, "publishing")
    /\ UNCHANGED <<server, disk, edits, closed, saved>>

\* resume_lone_local_unsynced_under_fresh_lease.
ResumeLone(d) ==
    /\ At(d, "claimed")
    /\ \E i \in Source(d) :
          /\ NotAppliedRetryable(d, i.base)
          /\ ~TooLarge(i.content)
    /\ Goto(d, "retained")
    /\ UNCHANGED <<server, disk, edits, closed, saved>>

\* ACTIVE_EXACT: the claimed generation is the checkpoint's successor.  The
\* intent goes first, then the clone is bound, the checkpoint goes last.
CompleteActive(d) ==
    /\ At(d, "claimed")
    /\ \E a \in Exact(disk[d]) :
          /\ a.successor = proc[d].selected
          /\ server.head = a.successor
          /\ \E r \in server.rows : r.base = a.base /\ r.successor = a.successor
    /\ disk' = [disk EXCEPT ![d].intent = {}]
    /\ Goto(d, "completing")
    /\ UNCHANGED <<server, edits, closed, saved>>

BindActive(d) ==
    /\ At(d, "completing")
    /\ disk' = [disk EXCEPT ![d].bound = @ \cup {proc[d].selected}]
    /\ Goto(d, "rebound")
    /\ UNCHANGED <<server, edits, closed, saved>>

RetireActive(d) ==
    /\ At(d, "rebound")
    /\ disk' = [disk EXCEPT ![d].attempt = {}]
    /\ Goto(d, "claimed")
    /\ UNCHANGED <<server, edits, closed, saved>>

\* Every other evidence blocks the open: the lease is released as Uncertain.
Blocked(d) ==
    /\ At(d, "claimed")
    /\ Unresolved(disk[d])
    /\ Stop(d)
    /\ UNCHANGED <<server, disk, edits, closed, saved>>

-----------------------------------------------------------------------------
(* Native rescue: a workspace too large to seal is opened again, under a    *)
(* fresh lease, so that its user can make it smaller.                       *)

\* NativeRescueRequired, from an oversize lone intent or an interrupted rescue.
NeedRescue(d) ==
    /\ At(d, "claimed")
    /\ \/ \E i \in Source(d) :
             NotAppliedRetryable(d, i.base) /\ TooLarge(i.content)
       \/ \E i \in InterruptedRescue(disk[d], proc[d].epoch, proc[d].selected) :
             NotAppliedRetryable(d, i.base)
    /\ Goto(d, "rescue")
    /\ UNCHANGED <<server, disk, edits, closed, saved>>

\* reserve_original_native_for_rescue: a copy of the original first.
StartReserve(d) ==
    /\ At(d, "rescue")
    /\ \E i \in Source(d) :
          /\ i.rescue = {}
          /\ Reserve(i) \notin DOMAIN disk[d].ws
          /\ disk' = [disk EXCEPT ![d] = WithDir(@, Reserve(i), {})]
    /\ Goto(d, "reserving")
    /\ UNCHANGED <<server, edits, closed, saved>>

FinishReserve(d) ==
    /\ At(d, "reserving")
    /\ \E i \in Source(d) :
          disk' = [disk EXCEPT ![d] = WithDir(@, Reserve(i), {i.content})]
    /\ Goto(d, "rescue")
    /\ UNCHANGED <<server, edits, closed, saved>>

\* The reserve an intent rests on, or the one made for it.
ReserveOf(i) ==
    IF i.rescue = {} THEN Reserve(i) ELSE (CHOOSE r \in i.rescue : TRUE).reserve

\* begin_native_rescue_edit: the Editing record replaces the intent.
BeginRescue(d) ==
    /\ At(d, "rescue")
    /\ \E i \in Source(d) \cup InterruptedRescue(disk[d], proc[d].epoch, proc[d].selected) :
          /\ Holds(disk[d], ReserveOf(i), ReserveOf(i).content)
          /\ disk' = [disk EXCEPT ![d].intent =
                {[i EXCEPT !.epoch = proc[d].epoch,
                           !.rescue = {[reserve |-> ReserveOf(i), phase |-> "Editing"]}]}]
    /\ Goto(d, "reserved")
    /\ UNCHANGED <<server, edits, closed, saved>>

LaunchRescue(d) ==
    /\ At(d, "reserved")
    /\ WriterLive(d, proc[d].epoch)
    /\ Browse(d, disk[d])

-----------------------------------------------------------------------------
Recovery(d) ==
    \/ ResumeExact(d) \/ ResumeLone(d) \/ CompleteActive(d) \/ BindActive(d)
    \/ RetireActive(d)

Save(d) ==
    \/ StageIntent(d) \/ LinkIntent(d) \/ UnstageIntent(d) \/ ReplaceIntent(d)
    \/ StartClone(d) \/ FinishClone(d) \/ ReuseClone(d)
    \/ StageAttempt(d) \/ LinkAttempt(d) \/ UnstageAttempt(d)
    \/ RetireIntent(d) \/ SendCommit(d) \/ CommitReply(d)
    \/ BindSuccessor(d) \/ ReleaseSaved(d) \/ RetireSaved(d) \/ ReleaseRecovered(d)

NativeRescue(d) ==
    \/ NeedRescue(d) \/ StartReserve(d) \/ FinishReserve(d) \/ BeginRescue(d)
    \/ LaunchRescue(d)

Device(d) ==
    \/ Claim(d) \/ Launch(d) \/ CloseBrowser(d) \/ Crash(d) \/ Blocked(d)
    \/ CommitUncertain(d) \/ Save(d) \/ Recovery(d) \/ NativeRescue(d)

Next ==
    \/ LeaseEnds
    \/ \E r \in server.wire : Apply(r) \/ Lose(r)
    \/ \E d \in Devices : Device(d)

Spec == Init /\ [][Next]_vars

-----------------------------------------------------------------------------
(* Properties.                                                             *)

\* What the browser was closed on is never dropped: until the edits of a
\* recorded close are part of the head, the device keeps a record of them, an
\* intent or a checkpoint, that leads to them (the order of the writes and
\* removals in save_retained_successor_streaming and its recoveries).
ClosedIsTracked ==
    \A d \in Devices : \A e \in closed[d] :
        \/ e \in server.head.content
        \/ \E i \in disk[d].intent : e \in i.content
        \/ \E a \in disk[d].attempt : e \in a.content

\* A browser never starts on a workspace that lacks edits closed on the same
\* device before, whichever generation the server selected meanwhile and
\* whatever was interrupted ("launching it as a clean browser could discard
\* newer local SQLite/WAL", operator_flow.rs:1241).
LaunchSeesClosed ==
    [][\A d \in Devices :
         proc[d].pc # "browsing" /\ proc'[d].pc = "browsing" =>
            \A c \in disk'[d].ws[proc[d].selected] : closed[d] \subseteq c]_vars

\* Saved is only reported of edits that the server's head holds, then and ever
\* after (is_saved, operator_flow.rs:341).
SavedInHead == saved \subseteq server.head.content

\* One close has one successor: however often the save is interrupted and taken
\* up again, under whichever lease, no second directory is made of the same
\* content ("can never silently choose N+2 after a partly created N+1",
\* shipping_save_attempt.rs:919).
OneSuccessor ==
    \A d \in Devices : \A g, h \in DOMAIN disk[d].ws \cap Gen :
        g.content = h.content => g = h

\* A copy of the workspace, as a clone or a reserve, that a crash cut short.
HalfCopied(k) ==
    \E i \in k.intent : \E g \in {Successor(i), Reserve(i)} \cap DOMAIN k.ws : k.ws[g] = {}

\* An open that goes through the evidence of an earlier one, with a live lease.
\* Not at "committing", where the answer of the server decides, nor at
\* "reserved", where only the launch is left.
Recovering(d) ==
    /\ proc[d].mode = "recover"
    /\ proc[d].pc \notin {"down", "committing", "reserved"}
    /\ WriterLive(d, proc[d].epoch)
    /\ At(d, "claimed") => Unresolved(disk[d]) /\ proc[d].selected \in Reachable(disk[d])

\* The interruptions that an open does not get over, and blocks at every time:
\* a record that was staged and not linked, a workspace that was half copied
\* ("TargetAlreadyExists", operator_flow.rs:2062).
TornBefore(d) ==
    \/ disk[d].stage /\ proc[d].pc \notin {"sealing", "sealed"}
    \/ HalfCopied(disk[d]) /\ proc[d].pc \notin {"cloning", "reserving"}

\* Any other interruption leaves evidence that the next open takes all the way
\* to the head: an open that claims a profile on a generation the evidence
\* starts from or leads to can go on at each stage of the recovery, up to the
\* release that ends it or the launch of a rescue.  (It blocks if a save from
\* another device has moved the head elsewhere.)
EvidenceIsTakenUp ==
    \A d \in Devices : Recovering(d) /\ ~TornBefore(d) =>
        ENABLED (Save(d) \/ Recovery(d) \/ NativeRescue(d))

\* After a recovery's commit "a new claim selects and completes the
\* authoritative exact N+1 on the next Open" (shipping_composition.rs:817): the
\* head is the successor for as long as its checkpoint waits for completion.
NextOpenCompletes ==
    \A d \in Devices : \A a \in disk[d].attempt : \A r \in server.rows :
        /\ r.successor = a.successor
        /\ r.epoch > r.successor.epoch  \* committed by a later lease than the close's
        => server.head = a.successor

=============================================================================
