-------------------------- MODULE WindowsDelivery --------------------------
(***************************************************************************)
(* The installed Profile Bridge updates itself: a signed release is staged *)
(* beside the running one, activated while nobody runs a browser, handed   *)
(* over to (a helper starts the new executable once the old process is     *)
(* gone), and confirmed healthy by the first browser it opens.  A transfer *)
(* that was begun and did not arrive is rolled back to the last release    *)
(* that was confirmed.                                                     *)
(*                                                                         *)
(* The delivery state lives in a journal of snapshots: each one is written *)
(* to a pending file and then renamed, and whoever opens the journal       *)
(* finalises a pending file it finds.  A process is one run of             *)
(* profile-bridge.exe: the installer's preparation, the installation or    *)
(* activation command, the arrival of a successor, or the opening of a     *)
(* profile.  Commands hold the exclusive lock of the profile root, an      *)
(* opening holds it shared from the workspace lock until the browser is    *)
(* closed, and a process that dies loses its lock and nothing else.        *)
(***************************************************************************)
EXTENDS Integers, Sequences, FiniteSets

CONSTANTS
    Releases,        \* signed releases: <<sequence, manifest>> pairs
    None,            \* no release
    Procs,           \* runs of the executable that may overlap
    MaxGeneration,   \* bound: activations
    MaxFaults        \* bound: dead processes, lost helpers, failed spawns

ASSUME ReleaseAssumption ==
    /\ \A r \in Releases : r[1] \in Nat
    /\ None \notin Releases

ASSUME BoundAssumption == MaxGeneration \in Nat

VARIABLES
    journal,         \* the published snapshots, one per revision
    pending,         \* the pending file, or NoFile
    forked,          \* two snapshots carry one revision, or two files are pending
    unpacked,        \* releases whose verified files are in the staging root
    proc,            \* the running processes
    helper,          \* the release a waiting helper starts when its parent ends
    ready,           \* history: <<release, attempt>> of browsers that came up
    faults

vars == <<journal, pending, forked, unpacked, proc, helper, ready, faults>>

-----------------------------------------------------------------------------
(* The delivery state and its transitions (windows_delivery.rs).           *)

NoActivation == [attempt |-> 0, candidate |-> None, outcome |-> "None"]
NoFailure == [candidate |-> None, kind |-> "None"]

EmptyState ==
    [active |-> None, confirmed |-> FALSE, lkg |-> None, staged |-> None,
     generation |-> 0, activation |-> NoActivation, failure |-> NoFailure]

Older(r, s) == r[1] < s[1]

\* What every snapshot has to satisfy before it is written and when it is read.
ValidState(s) ==
    LET a == s.activation IN
    /\ s.confirmed \/ s.lkg # None => s.active # None
    /\ s.active # None => s.active # s.lkg
    /\ s.active # None /\ s.staged # None =>
         s.staged = s.active \/ Older(s.active, s.staged)
    /\ IF a = NoActivation
       THEN s.generation = 0 /\ s.failure = NoFailure
       ELSE a.attempt \in 1 .. s.generation
    /\ a.outcome \in {"PendingHealth", "HealthAttemptStarted"} =>
         s.active = a.candidate /\ ~s.confirmed
    /\ a.outcome = "Healthy" =>
         s.active = a.candidate /\ s.confirmed /\ s.failure = NoFailure
    /\ a.outcome = "RolledBack" => s.active # a.candidate /\ s.confirmed
    /\ a.outcome = "RecoveryRequired" => s.active = None /\ ~s.confirmed
    /\ s.failure # NoFailure =>
         /\ s.failure.candidate = a.candidate
         /\ a.outcome \in {"RolledBack", "RecoveryRequired"}

\* The highest release accepted so far, against which a new one is judged.
Floor(s) ==
    IF s.staged # None /\ (s.active = None \/ ~Older(s.staged, s.active))
    THEN s.staged ELSE s.active

Admissible(s, r) ==
    Floor(s) # None => r = Floor(s) \/ Older(Floor(s), r)

\* Mutant: the runtime that is replaced becomes the fallback, proven or not.
ActivatedTrusting(s) ==
    [s EXCEPT
       !.active = s.staged, !.confirmed = FALSE, !.lkg = s.active, !.staged = None,
       !.generation = s.generation + 1,
       !.activation = [attempt |-> s.generation + 1,
                       candidate |-> s.staged, outcome |-> "PendingHealth"],
       !.failure = NoFailure]

Activated(s) ==
    IF s.staged = s.active THEN [s EXCEPT !.staged = None]
    ELSE [s EXCEPT
            !.active = s.staged,
            !.confirmed = FALSE,
            !.lkg = IF s.confirmed THEN s.active ELSE s.lkg,
            !.staged = None,
            !.generation = s.generation + 1,
            !.activation = [attempt |-> s.generation + 1,
                            candidate |-> s.staged, outcome |-> "PendingHealth"],
            !.failure = NoFailure]

HealthStarted(s) == [s EXCEPT !.activation.outcome = "HealthAttemptStarted"]

HealthConfirmed(s) ==
    [s EXCEPT !.activation.outcome = "Healthy", !.confirmed = TRUE,
              !.failure = NoFailure]

RolledBack(s) ==
    [s EXCEPT
       !.active = s.lkg,
       !.confirmed = s.lkg # None,
       !.lkg = None,
       !.staged = None,
       !.failure = [candidate |-> s.active, kind |-> "InterruptedHandoff"],
       !.activation.outcome =
          IF s.lkg # None THEN "RolledBack" ELSE "RecoveryRequired"]

-----------------------------------------------------------------------------
(* Evidence of a transfer between two processes (windows_delivery_store).  *)

NoHandoff == [kind |-> "None", source |-> None, attempt |-> 0,
              target |-> None, outcome |-> "None"]

ActivationStarted(s, r) ==
    [kind |-> "Activation", source |-> r, attempt |-> s.generation,
     target |-> r, outcome |-> "Started"]

RecoveryStarted(s, failed, attempt, r) ==
    [kind |-> "Recovery", source |-> failed, attempt |-> attempt,
     target |-> r, outcome |-> "Started"]

Arrived(h) == [h EXCEPT !.outcome = "Arrived"]

ValidEvidence(h, s) ==
    LET a == s.activation IN
    h # NoHandoff =>
      /\ h.attempt # 0 /\ s.active = h.target /\ a.attempt = h.attempt
      /\ a.candidate = h.source
      /\ \/ /\ h.kind = "Activation" /\ h.source = h.target
            /\ s.generation = h.attempt
            /\ \/ /\ h.outcome = "Started"
                  /\ ~s.confirmed /\ s.staged = None
                  /\ a.outcome = "PendingHealth"
               \/ /\ h.outcome = "Arrived"
                  /\ \/ a.outcome = "Healthy" /\ s.confirmed
                     \/ /\ a.outcome \in {"PendingHealth", "HealthAttemptStarted"}
                        /\ ~s.confirmed
         \/ /\ h.kind = "Recovery" /\ h.source # h.target
            /\ s.confirmed /\ a.outcome = "RolledBack"
            /\ s.failure.candidate = h.source

ValidSnapshot(n) == ValidState(n.state) /\ ValidEvidence(n.handoff, n.state)

\* The installer may set up a fresh root, or update an arrived installation;
\* an interrupted health attempt only with a newer release.
InstallationAdmitted(s, h, r) ==
    IF s.active = None
    THEN s = [EmptyState EXCEPT !.staged = s.staged] /\ h = NoHandoff
    ELSE /\ h = Arrived(ActivationStarted(s, s.active))
         /\ s.failure = NoFailure
         /\ s.activation.attempt = s.generation
         /\ s.activation.candidate = s.active
         /\ \/ s.activation.outcome \in {"PendingHealth", "Healthy"}
            \/ /\ s.activation.outcome = "HealthAttemptStarted"
               /\ r # None /\ Older(s.active, r)

-----------------------------------------------------------------------------
(* The journal on disk.                                                    *)

NoFile == [revision |-> 0, complete |-> FALSE]
Snapshot(s, h) == [state |-> s, handoff |-> h]

Latest == journal[Len(journal)]

\* Opening refuses a fork and a pending file whose bytes are not all there;
\* it finalises a complete one.
Readable ==
    /\ ~forked
    /\ pending # NoFile =>
         pending.complete /\ pending.revision = Len(journal) + 1

Opened == IF pending = NoFile THEN Latest ELSE pending.snapshot
OpenedRevision == IF pending = NoFile THEN Len(journal) ELSE pending.revision

Finalise ==
    /\ journal' = IF pending = NoFile THEN journal
                  ELSE Append(journal, pending.snapshot)
    /\ pending' = NoFile

\* What opening does to the disk, whatever its caller makes of it.
OpenJournal == IF Readable THEN Finalise ELSE UNCHANGED <<journal, pending>>

-----------------------------------------------------------------------------
(* Processes and the lock of the profile root.                             *)

Idle == [pc |-> "idle", exe |-> None, lock |-> "none", revision |-> 0,
         todo |-> <<>>, then |-> "exit", token |-> 0]

Write(s, h) == [op |-> "write", snapshot |-> Snapshot(s, h)]
Schedule(r) == [op |-> "schedule", target |-> r]

ExclusiveFree(p) == \A q \in Procs \ {p} : proc[q].lock = "none"

\* Mutant: an opening does not ask for the profile root.
SharedAlways(p) == p \in Procs

SharedFree(p) == \A q \in Procs \ {p} : proc[q].lock # "exclusive"


Exit(p) == proc' = [proc EXCEPT ![p] = Idle]
Goto(p, pc) == proc' = [proc EXCEPT ![p].pc = pc]

Startable(p) == proc[p] = Idle /\ helper[p] = None

\* A command under the exclusive lock: it opens the journal and then does what
\* it decided on, one effect after the other, keeping the lock until it ends.
Command(p, exe, todo) ==
    /\ ExclusiveFree(p) /\ Readable
    /\ Finalise
    /\ proc' = [proc EXCEPT ![p] =
                 [Idle EXCEPT !.pc = "work", !.exe = exe, !.lock = "exclusive",
                              !.revision = OpenedRevision, !.todo = todo]]

\* --delivery-prepare: verify the signed release against the floor, unpack it
\* beside the others and record it as staged.
Prepare(p, r) ==
    LET s == Opened.state
        next == [s EXCEPT !.staged = r] IN
    /\ Startable(p)
    /\ Admissible(s, r)
    /\ InstallationAdmitted(s, Opened.handoff, r)
    /\ s.active # r /\ next # s
    /\ unpacked' = unpacked \cup {r}
    /\ Command(p, None, <<Write(next, Opened.handoff)>>)
    /\ UNCHANGED <<forked, helper, ready, faults>>

\* --delivery-install-staged, run by the staged executable itself: activation
\* and arrival are one snapshot.
CompleteInstallation(p, exe) ==
    LET s == Opened.state
        next == Activated(s) IN
    /\ Startable(p) /\ exe \in unpacked
    /\ s.staged = exe
    /\ s.generation < MaxGeneration
    /\ InstallationAdmitted(s, Opened.handoff, s.staged)
    /\ Command(p, exe,
               <<Write(next, Arrived(ActivationStarted(next, exe)))>>)
    /\ UNCHANGED <<forked, unpacked, helper, ready, faults>>

\* --delivery-activate-staged, run by the confirmed active executable: the
\* helper is created first, then activation and transfer are one snapshot.
StartActivation(p, exe) ==
    LET s == Opened.state
        next == Activated(s) IN
    /\ Startable(p) /\ exe \in unpacked
    /\ s.generation < MaxGeneration
    /\ Opened.handoff.outcome # "Started"
    /\ s.staged \notin {None, exe}
    /\ s.active = exe /\ s.confirmed
    /\ Command(p, exe, <<Schedule(s.staged),
                         Write(next, ActivationStarted(next, s.staged))>>)
    /\ UNCHANGED <<forked, unpacked, helper, ready, faults>>

\* --delivery-handoff-arrived: the helper starts the successor once its parent
\* is gone.  A successor that cannot record its arrival just ends.
HelperStarts(p) ==
    LET h == Opened.handoff IN
    /\ helper[p] # None /\ proc[p] = Idle
    /\ helper' = [helper EXCEPT ![p] = None]
    /\ IF ExclusiveFree(p) /\ Readable
       THEN IF h.outcome = "Started" /\ h.target = helper[p]
            THEN Command(p, helper[p], <<Write(Opened.state, Arrived(h))>>)
            ELSE Finalise /\ UNCHANGED proc
       ELSE UNCHANGED <<journal, pending, proc>>
    /\ UNCHANGED <<forked, unpacked, ready, faults>>

-----------------------------------------------------------------------------
(* What a command still has to do.                                         *)

Job(p) == Head(proc[p].todo)
Working(p, op) ==
    /\ proc[p].pc = "work"
    /\ proc[p].todo # <<>>
    /\ Job(p).op = op

\* The waiting helper is spawned; a failure ends the command.
SpawnHelper(p) ==
    /\ Working(p, "schedule")
    /\ helper' = [helper EXCEPT ![p] = Job(p).target]
    /\ proc' = [proc EXCEPT ![p].todo = Tail(@)]
    /\ UNCHANGED <<journal, pending, forked, unpacked, ready, faults>>

SpawnFails(p) ==
    /\ Working(p, "schedule")
    /\ faults < MaxFaults
    /\ faults' = faults + 1
    /\ Exit(p)
    /\ UNCHANGED <<journal, pending, forked, unpacked, helper, ready>>

\* The pending file is created under a name made of revision and content; it
\* is refused when that very snapshot is already there, pending or published.
CreatePending(p) ==
    LET next == proc[p].revision + 1
        snapshot == Job(p).snapshot
        published == next <= Len(journal) /\ journal[next] = snapshot
        there == pending # NoFile /\ pending.revision = next
                   /\ pending.snapshot = snapshot IN
    /\ Working(p, "write")
    /\ IF ~ValidSnapshot(snapshot)
       THEN Exit(p) /\ UNCHANGED <<pending, forked>>
       ELSE IF published \/ there
       THEN Goto(p, "reopen") /\ UNCHANGED <<pending, forked>>
       ELSE /\ pending' = [revision |-> next, complete |-> FALSE,
                           snapshot |-> snapshot]
            /\ forked' = (forked \/ pending # NoFile)
            /\ Goto(p, "written")
    /\ UNCHANGED <<journal, unpacked, helper, ready, faults>>

Mine(p) == /\ pending # NoFile
           /\ pending.revision = proc[p].revision + 1
           /\ pending.snapshot = Job(p).snapshot

SyncPending(p) ==
    /\ proc[p].pc = "written"
    /\ pending' = IF Mine(p) THEN [pending EXCEPT !.complete = TRUE] ELSE pending
    /\ Goto(p, "synced")
    /\ UNCHANGED <<journal, forked, unpacked, helper, ready, faults>>

\* The rename publishes; it fails when an opener has already finalised.
Rename(p) ==
    /\ proc[p].pc = "synced"
    /\ Goto(p, "reopen")
    /\ IF Mine(p)
       THEN /\ pending' = NoFile
            /\ IF pending.revision = Len(journal) + 1
               THEN journal' = Append(journal, pending.snapshot) /\ UNCHANGED forked
               ELSE forked' = TRUE /\ UNCHANGED journal
       ELSE UNCHANGED <<journal, pending, forked>>
    /\ UNCHANGED <<unpacked, helper, ready, faults>>

\* Whether or not the write reported success, the journal is opened again and
\* decides: the snapshot has to be the one that was meant.
Reopen(p) ==
    LET rest == Tail(proc[p].todo) IN
    /\ proc[p].pc = "reopen"
    /\ IF Readable /\ Opened = Job(p).snapshot
       THEN proc' = [proc EXCEPT ![p].todo = rest,
                       ![p].revision = OpenedRevision,
                       ![p].pc = IF rest = <<>> THEN proc[p].then ELSE "work"]
       ELSE Exit(p)
    /\ OpenJournal
    /\ UNCHANGED <<forked, unpacked, helper, ready, faults>>

\* A command that has nothing left to do ends, and its lock with it.
End(p) ==
    /\ \/ proc[p].pc = "exit"
       \/ proc[p].pc = "work" /\ proc[p].todo = <<>>
    /\ Exit(p)
    /\ UNCHANGED <<journal, pending, forked, unpacked, helper, ready, faults>>

-----------------------------------------------------------------------------
(* Opening a profile.                                                      *)

\* Before anything else: is there an unfinished transfer to recover?
RecoveryPending(n) ==
    \/ n.handoff.outcome = "Started"
    \/ n.handoff = NoHandoff /\ n.state.failure.kind = "InterruptedHandoff"

OpenProfile(p, exe) ==
    /\ Startable(p) /\ exe \in unpacked /\ Readable
    /\ Finalise
    /\ proc' = [proc EXCEPT ![p] =
                 [Idle EXCEPT !.exe = exe,
                    !.pc = IF RecoveryPending(Opened) THEN "recover" ELSE "resolve"]]
    /\ UNCHANGED <<forked, unpacked, helper, ready, faults>>

\* Mutant: a recovery that was begun is taken to be somebody else's business.
ResumeNothing(h) == <<>>

ResumeTransfer(h) == <<Schedule(h.target)>>

\* A begun activation is rolled back and the last known good release is given
\* the transfer; a begun recovery is scheduled again; a rollback without
\* evidence of its transfer gets it.
RecoveryJobs(exe, n) ==
    LET s == n.state
        h == n.handoff
        back == RolledBack(s)
        evidence(state, failed, attempt) ==
            RecoveryStarted(state, failed, attempt, state.active) IN
    CASE h.kind = "Activation" /\ h.outcome = "Started" /\ exe \in {h.source, s.lkg} ->
           <<Write(back, NoHandoff)>> \o
           (IF s.lkg = None THEN <<>>
            ELSE <<Schedule(s.lkg),
                   Write(back, evidence(back, h.source, h.attempt))>>)
      [] h.kind = "Recovery" /\ h.outcome = "Started" /\ exe \in {h.source, h.target} ->
           ResumeTransfer(h)
      [] /\ h = NoHandoff /\ s.failure.kind = "InterruptedHandoff"
         /\ s.activation.outcome = "RolledBack"
         /\ exe \in {s.failure.candidate, s.active} ->
           <<Schedule(s.active),
             Write(s, evidence(s, s.failure.candidate, s.activation.attempt))>>
      [] OTHER -> <<>>

RecoverOrResume(p) ==
    LET exe == proc[p].exe IN
    /\ proc[p].pc = "recover"
    /\ IF ExclusiveFree(p) /\ Readable
       THEN IF RecoveryPending(Opened)
            THEN Command(p, exe, RecoveryJobs(exe, Opened))
            ELSE Finalise /\ Goto(p, "resolve")
       ELSE Exit(p) /\ UNCHANGED <<journal, pending>>
    /\ UNCHANGED <<forked, unpacked, helper, ready, faults>>

\* The health of one exact activation of one exact release.
HealthState(s, exe, attempt) ==
    IF /\ attempt # 0 /\ s.active = exe /\ s.generation = attempt
       /\ s.activation.attempt = attempt /\ s.activation.candidate = exe
       /\ s.confirmed = (s.activation.outcome = "Healthy")
       /\ s.activation.outcome \in {"PendingHealth", "HealthAttemptStarted", "Healthy"}
    THEN s.activation.outcome ELSE "Refused"

ArrivedHere(h, exe, attempt) ==
    h = [kind |-> "Activation", source |-> exe, attempt |-> attempt,
         target |-> exe, outcome |-> "Arrived"]

\* The executable may open profiles only while it is the active release; an
\* attempt that was started and never confirmed needs repair.
Resolves(n, exe) ==
    \/ HealthState(n.state, exe, n.state.generation) = "Healthy"
    \/ /\ HealthState(n.state, exe, n.state.generation) = "PendingHealth"
       /\ ArrivedHere(n.handoff, exe, n.state.generation)

Resolve(p) ==
    LET exe == proc[p].exe
        s == Opened.state IN
    /\ proc[p].pc = "resolve"
    /\ IF Readable /\ Resolves(Opened, exe)
       THEN proc' = [proc EXCEPT ![p].pc = "admit",
                       ![p].token = IF s.confirmed THEN 0 ELSE s.generation]
       ELSE Exit(p)
    /\ OpenJournal
    /\ UNCHANGED <<forked, unpacked, helper, ready, faults>>

\* The workspace lock takes the profile root shared, some network calls later.
Admit(p) ==
    /\ proc[p].pc = "admit"
    /\ IF SharedFree(p)
       THEN proc' = [proc EXCEPT ![p].lock = "shared", ![p].pc = "start"]
       ELSE Exit(p)
    /\ UNCHANGED <<journal, pending, forked, unpacked, helper, ready, faults>>

\* Mutant: what was resolved before the lock is taken to hold under it.
StartHealthTrusting(p) ==
    /\ proc[p].pc = "start" /\ proc[p].token # 0
    /\ IF Readable /\ Opened.state.activation.outcome = "PendingHealth"
       THEN proc' = [proc EXCEPT ![p].pc = "work", ![p].revision = OpenedRevision,
                       ![p].then = "launch",
                       ![p].todo = <<Write(HealthStarted(Opened.state), Opened.handoff)>>]
       ELSE Exit(p)
    /\ OpenJournal
    /\ UNCHANGED <<forked, unpacked, helper, ready, faults>>

\* A pending activation is marked as attempted before its runtime is spawned.
StartHealth(p) ==
    LET exe == proc[p].exe
        attempt == proc[p].token
        health == HealthState(Opened.state, exe, attempt) IN
    /\ proc[p].pc = "start" /\ attempt # 0
    /\ IF Readable /\ ArrivedHere(Opened.handoff, exe, attempt)
            /\ health \in {"PendingHealth", "HealthAttemptStarted"}
       THEN proc' = [proc EXCEPT ![p] =
              IF health = "HealthAttemptStarted" THEN [@ EXCEPT !.pc = "launch"]
              ELSE [@ EXCEPT !.pc = "work", !.revision = OpenedRevision,
                      !.then = "launch",
                      !.todo = <<Write(HealthStarted(Opened.state), Opened.handoff)>>]]
       ELSE Exit(p)
    /\ OpenJournal
    /\ UNCHANGED <<forked, unpacked, helper, ready, faults>>

StartConfirmed(p) ==
    /\ proc[p].pc = "start" /\ proc[p].token = 0
    /\ Goto(p, "launch")
    /\ UNCHANGED <<journal, pending, forked, unpacked, helper, ready, faults>>

BrowserReady(p) ==
    /\ proc[p].pc = "launch"
    /\ ready' = ready \cup
         (IF proc[p].token = 0 THEN {} ELSE {<<proc[p].exe, proc[p].token>>})
    /\ Goto(p, IF proc[p].token = 0 THEN "open" ELSE "confirm")
    /\ UNCHANGED <<journal, pending, forked, unpacked, helper, faults>>

BrowserFails(p) ==
    /\ proc[p].pc = "launch"
    /\ Exit(p)
    /\ UNCHANGED <<journal, pending, forked, unpacked, helper, ready, faults>>

ConfirmHealth(p) ==
    LET exe == proc[p].exe
        attempt == proc[p].token
        health == HealthState(Opened.state, exe, attempt) IN
    /\ proc[p].pc = "confirm"
    /\ IF Readable /\ ArrivedHere(Opened.handoff, exe, attempt)
            /\ health \in {"HealthAttemptStarted", "Healthy"}
       THEN proc' = [proc EXCEPT ![p] =
              IF health = "Healthy" THEN [@ EXCEPT !.pc = "open"]
              ELSE [@ EXCEPT !.pc = "work", !.revision = OpenedRevision,
                      !.then = "open",
                      !.todo = <<Write(HealthConfirmed(Opened.state), Opened.handoff)>>]]
       ELSE Exit(p)
    /\ OpenJournal
    /\ UNCHANGED <<forked, unpacked, helper, ready, faults>>

Close(p) ==
    /\ proc[p].pc = "open"
    /\ Exit(p)
    /\ UNCHANGED <<journal, pending, forked, unpacked, helper, ready, faults>>

-----------------------------------------------------------------------------
(* Faults.                                                                 *)

\* A process dies where it stands: its locks go, what it wrote stays.
Crash(p) ==
    /\ proc[p].pc # "idle" /\ faults < MaxFaults
    /\ faults' = faults + 1
    /\ Exit(p)
    /\ UNCHANGED <<journal, pending, forked, unpacked, helper, ready>>

\* The helper finds its parent gone before it could watch it, or dies.
HelperLost(p) ==
    /\ helper[p] # None /\ faults < MaxFaults
    /\ faults' = faults + 1
    /\ helper' = [helper EXCEPT ![p] = None]
    /\ UNCHANGED <<journal, pending, forked, unpacked, proc, ready>>

-----------------------------------------------------------------------------

Init ==
    /\ journal = <<Snapshot(EmptyState, NoHandoff)>>
    /\ pending = NoFile
    /\ forked = FALSE
    /\ unpacked = {}
    /\ proc = [p \in Procs |-> Idle]
    /\ helper = [p \in Procs |-> None]
    /\ ready = {}
    /\ faults = 0

Step(p) ==
    \/ HelperStarts(p)
    \/ SpawnHelper(p)
    \/ CreatePending(p)
    \/ SyncPending(p)
    \/ Rename(p)
    \/ Reopen(p)
    \/ End(p)
    \/ RecoverOrResume(p)
    \/ Resolve(p)
    \/ Admit(p)
    \/ StartHealth(p)
    \/ StartConfirmed(p)
    \/ BrowserReady(p)
    \/ BrowserFails(p)
    \/ ConfirmHealth(p)
    \/ Close(p)

Next ==
    \E p \in Procs :
       \/ Step(p)
       \/ SpawnFails(p)
       \/ Crash(p)
       \/ HelperLost(p)
       \/ \E r \in Releases :
            \/ Prepare(p, r)
            \/ CompleteInstallation(p, r)
            \/ StartActivation(p, r)
            \/ OpenProfile(p, r)

Spec == Init /\ [][Next]_vars

\* A process that runs goes on, browsers are closed, a helper whose parent is
\* gone starts its target, the operator opens a profile again with each release
\* that is installed, and neither the helper nor the openings that would finish
\* a transfer always meet somebody else's lock.
FairSpec ==
    /\ Spec
    /\ \A p \in Procs : WF_vars(Step(p))
    /\ \A p \in Procs : SF_vars(HelperStarts(p) /\ ExclusiveFree(p))
    /\ \A r \in Releases :
          SF_vars(\E p \in Procs : OpenProfile(p, r) /\ ExclusiveFree(p))
    /\ SF_vars(\E p \in Procs : /\ ExclusiveFree(p) /\ RecoverOrResume(p)
                               /\ RecoveryJobs(proc[p].exe, Opened) # <<>>)

-----------------------------------------------------------------------------
(* Properties.                                                             *)

\* The journal keeps one history: openings that overlap only ever write the
\* same snapshot at a revision, the commands that write others are kept apart by
\* the lock of the profile root, and what a command sets out to write is a
\* snapshot the journal takes, so that no update or recovery is refused half
\* way, after its helper was spawned.
OneJournal ==
    /\ ~forked
    /\ \A p \in Procs : \A i \in DOMAIN proc[p].todo :
          proc[p].todo[i].op = "write" => ValidSnapshot(proc[p].todo[i].snapshot)

\* A release is called confirmed, or kept as the one to fall back to, only
\* after a browser of its own came up in an activation of it, and "Healthy" is
\* said of the activation whose browser came up: not of a later one that took
\* its place while the browser was being opened.
HealthProven ==
    /\ \A r \in {Latest.state.lkg, IF Latest.state.confirmed THEN Latest.state.active
                                   ELSE None} \ {None} :
          \E attempt \in 1 .. MaxGeneration : <<r, attempt>> \in ready
    /\ Latest.state.activation.outcome = "Healthy" =>
          <<Latest.state.activation.candidate, Latest.state.activation.attempt>>
             \in ready

\* While the first browser of an activation is on its way, nothing supersedes
\* that activation or rolls it back.
AttemptNotSuperseded ==
    \A p \in Procs :
       proc[p].token # 0 /\ proc[p].pc \in {"launch", "confirm"} =>
          /\ Latest.state.active = proc[p].exe
          /\ Latest.state.generation = proc[p].token
          /\ Latest.state.activation.outcome \in {"HealthAttemptStarted", "Healthy"}

Torn == pending # NoFile /\ ~pending.complete

\* A transfer that was begun is finished or undone, and the release it fell
\* back to has arrived; only a pending file left half written ends it.
TransferSettles ==
    [](RecoveryPending(Latest) => <>(~RecoveryPending(Latest) \/ []Torn))

\* A release that the state calls active and confirmed, with no transfer under
\* way, can open a profile: the tests of the recovery end in such a state.
RestoredReleaseOpens ==
    Latest.state.confirmed /\ ~RecoveryPending(Latest) =>
       Resolves(Latest, Latest.state.active)

\* A browser runs on the active release: "running Profile Bridge is not the
\* persisted active delivery executable" is an error of the opening.
BrowserRunsActive ==
    \A p \in Procs : proc[p].pc = "open" => Latest.state.active = proc[p].exe

=============================================================================
