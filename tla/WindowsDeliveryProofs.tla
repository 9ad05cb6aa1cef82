----------------------- MODULE WindowsDeliveryProofs -----------------------
(***************************************************************************)
(* Proofs about WindowsDelivery.tla for any releases, any number of runs   *)
(* of the executable, activations and faults: the journal keeps one        *)
(* history and takes what is meant for it, health is only said of what was *)
(* seen healthy, and an activation is not superseded while its first       *)
(* browser is on its way.                                                  *)
(***************************************************************************)
EXTENDS WindowsDelivery, TLAPS

-----------------------------------------------------------------------------
(* The inductive invariant *)

Release == Releases \cup {None}

Outcome == {"None", "PendingHealth", "HealthAttemptStarted", "Healthy",
            "RolledBack", "RecoveryRequired"}

State == [active : Release, confirmed : BOOLEAN, lkg : Release, staged : Release,
          generation : 0 .. MaxGeneration,
          activation : [attempt : Nat, candidate : Release, outcome : Outcome],
          failure : [candidate : Release, kind : {"None", "InterruptedHandoff"}]]

Handoff == [kind : {"None", "Activation", "Recovery"}, source : Release,
            attempt : Nat, target : Release,
            outcome : {"None", "Started", "Arrived"}]

\* What health a state claims was seen: a browser of that release came up, for
\* "Healthy" in that very activation.
Proven(s, seen) ==
    /\ s.lkg # None => \E k \in 1 .. MaxGeneration : <<s.lkg, k>> \in seen
    /\ s.confirmed => \E k \in 1 .. MaxGeneration : <<s.active, k>> \in seen
    /\ s.activation.outcome = "Healthy" =>
          <<s.activation.candidate, s.activation.attempt>> \in seen

\* The release to fall back to is older than the active one, and an activation
\* is of some release.
Ranked(s) ==
    /\ s.lkg # None => Older(s.lkg, s.active)
    /\ s.activation.outcome # "None" => s.activation.candidate # None

\* A snapshot the journal takes: what is validated, and what the validation
\* leaves to the transitions.
Sound(n, seen) ==
    /\ ValidSnapshot(n)
    /\ Ranked(n.state)
    /\ Proven(n.state, seen)

Snapshots(seen) == {n \in [state : State, handoff : Handoff] : Sound(n, seen)}

Jobs(seen) == [op : {"write"}, snapshot : Snapshots(seen)]
                 \cup [op : {"schedule"}, target : Release]

File(seen) == {NoFile} \cup
    [revision : Nat, complete : BOOLEAN, snapshot : Snapshots(seen)]

Process(seen) ==
    [pc : {"idle", "work", "written", "synced", "reopen", "exit", "recover",
           "resolve", "admit", "start", "launch", "confirm", "open"},
     exe : Release, lock : {"none", "shared", "exclusive"}, revision : Nat,
     todo : Seq(Jobs(seen)), then : {"exit", "launch", "open"},
     token : 0 .. MaxGeneration]

Types ==
    /\ ready \in SUBSET (Releases \X (1 .. MaxGeneration))
    /\ journal \in Seq(Snapshots(ready)) /\ journal # <<>>
    /\ pending \in File(ready)
    /\ unpacked \in SUBSET Releases
    /\ helper \in [Procs -> Release]
    /\ proc \in [Procs -> Process(ready)]

\* One history: a pending file continues the journal.
Disk ==
    /\ forked = FALSE
    /\ pending # NoFile => pending.revision = Len(journal) + 1

Writing == {"work", "written", "synced", "reopen"}

\* Where a process is says which lock it holds.
Locked(x) ==
    /\ x.lock = "none" => x.pc \in {"idle", "recover", "resolve", "admit"}
    /\ x.lock = "shared" =>
          x.pc \in Writing \cup {"start", "launch", "confirm", "open"}
    /\ x.lock = "exclusive" => x.pc \in Writing \cup {"exit"} /\ x.then = "exit"
    /\ x.pc \in {"recover", "resolve", "admit"} \/ x.lock = "shared" =>
          x.exe \in Releases
    /\ x.lock = "shared" /\ x.pc \in Writing \cup {"confirm"} => x.token # 0
    /\ x.pc \in Writing \ {"work"} => x.todo # <<>> /\ Head(x.todo).op = "write"

\* The exclusive lock keeps everybody else away from the profile root.
Exclusion ==
    \A p, q \in Procs :
       p # q /\ proc[p].lock = "exclusive" => proc[q].lock = "none"

\* A command that is about to write does so on top of what it read.
Current(x, log, file) ==
    x.lock = "exclusive" /\ x.pc = "work" =>
       file = NoFile /\ x.revision = Len(log)

\* The one snapshot that may follow while an activation is being proven.
Health(s) == IF s.activation.outcome = "PendingHealth" THEN HealthStarted(s)
             ELSE HealthConfirmed(s)

Follows(n) == Snapshot(Health(n.state), n.handoff)

\* The activation that x proves is the one n records.
Proving(x, n) ==
    /\ HealthState(n.state, x.exe, x.token) # "Refused"
    /\ ArrivedHere(n.handoff, x.exe, x.token)

Engaged(x) == /\ x.lock = "shared" /\ x.token # 0
              /\ x.pc \in Writing \cup {"launch", "confirm"}

\* An opening that proves an activation: that activation stands, what is
\* pending can only be its next step, and what the opening itself writes is the
\* step that follows the revision it read, whoever publishes it.
Proves(x, log, file) ==
    Engaged(x) =>
      /\ Proving(x, log[Len(log)])
      /\ file # NoFile =>
            /\ log[Len(log)].state.activation.outcome # "Healthy"
            /\ file.snapshot = Follows(log[Len(log)])
      /\ x.pc \in {"launch", "confirm"} =>
            log[Len(log)].state.activation.outcome
               \in {"HealthAttemptStarted", "Healthy"}
      /\ x.pc \in Writing =>
            /\ x.revision \in 1 .. Len(log)
            /\ Proving(x, log[x.revision])
            /\ x.then \in {"launch", "open"}
            /\ log[x.revision].state.activation.outcome =
                  IF x.then = "launch" THEN "PendingHealth"
                  ELSE "HealthAttemptStarted"
            /\ x.todo = <<[op |-> "write", snapshot |-> Follows(log[x.revision])]>>
            /\ x.revision < Len(log) =>
                  log[x.revision + 1] = Follows(log[x.revision])

\* A browser that is to be reported was seen.
Seen(x, seen) == x.pc = "confirm" => <<x.exe, x.token>> \in seen

Processes ==
    \A p \in Procs :
       /\ Locked(proc[p])
       /\ Current(proc[p], journal, pending)
       /\ Proves(proc[p], journal, pending)
       /\ Seen(proc[p], ready)

IInv == Types /\ Disk /\ Exclusion /\ Processes

-----------------------------------------------------------------------------
(* The transitions of the delivery state keep a snapshot sound. *)

\* What the validations of a snapshot amount to, with their types at hand.
LEMMA SoundParts ==
    ASSUME NEW seen, NEW n \in Snapshots(seen)
    PROVE  /\ n.state \in State /\ n.handoff \in Handoff
           /\ n = Snapshot(n.state, n.handoff)
           /\ ValidState(n.state) /\ ValidEvidence(n.handoff, n.state)
           /\ Ranked(n.state)
           /\ Proven(n.state, seen)
  BY DEF Snapshots, Sound, ValidSnapshot, Snapshot

LEMMA PartsSound ==
    ASSUME NEW seen, NEW s \in State, NEW h \in Handoff,
           ValidState(s), ValidEvidence(h, s),
           Ranked(s), Proven(s, seen)
    PROVE  Snapshot(s, h) \in Snapshots(seen)
  BY DEF Snapshots, Sound, ValidSnapshot, Snapshot

\* Releases are ordered by their sequence numbers.
LEMMA Order ==
    ASSUME NEW a \in Releases, NEW b \in Releases, NEW c \in Releases
    PROVE  /\ Older(a, b) => a # b /\ ~Older(b, a)
           /\ Older(a, b) /\ Older(b, c) => Older(a, c)
           /\ a # None
  BY ReleaseAssumption DEF Older

LEMMA EmptySound ==
    ASSUME NEW seen
    PROVE  Snapshot(EmptyState, NoHandoff) \in Snapshots(seen)
  <1>1. EmptyState \in State
    BY BoundAssumption DEF EmptyState, State, Release, NoActivation, NoFailure, Outcome
  <1>2. NoHandoff \in Handoff
    BY DEF NoHandoff, Handoff, Release
  <1>3. ValidState(EmptyState)
    BY DEF ValidState, EmptyState, NoActivation, NoFailure
  <1>4. ValidEvidence(NoHandoff, EmptyState)
    BY DEF ValidEvidence
  <1>5. Ranked(EmptyState) /\ Proven(EmptyState, seen)
    BY DEF Ranked, Proven, EmptyState, NoActivation
  <1> QED BY <1>1, <1>2, <1>3, <1>4, <1>5, PartsSound

\* A release that is staged is newer than the active one.
LEMMA StagedSound ==
    ASSUME NEW seen, NEW n \in Snapshots(seen), NEW r \in Releases,
           Admissible(n.state, r), InstallationAdmitted(n.state, n.handoff, r),
           n.state.active # r
    PROVE  Snapshot([n.state EXCEPT !.staged = r], n.handoff) \in Snapshots(seen)
  <1> DEFINE s == n.state
             h == n.handoff
             t == [s EXCEPT !.staged = r]
  <1>0. /\ s \in State /\ h \in Handoff /\ ValidState(s) /\ ValidEvidence(h, s)
        /\ Ranked(s)
        /\ Proven(s, seen)
    BY SoundParts
  <1>1. t \in State
    BY <1>0 DEF State, Release
  <1>a. /\ t.active = s.active /\ t.confirmed = s.confirmed /\ t.lkg = s.lkg
        /\ t.generation = s.generation /\ t.activation = s.activation
        /\ t.failure = s.failure /\ t.staged = r
    BY <1>0 DEF State
  <1>2. s.active # None => Older(s.active, r)
    <2> SUFFICES ASSUME s.active # None PROVE Older(s.active, r)
      OBVIOUS
    <2>1. s.active \in Releases /\ (s.staged = None \/ s.staged \in Releases)
      BY <1>0 DEF State, Release
    <2>2. Floor(s) # None /\ (Floor(s) = s.active \/ Floor(s) = s.staged)
      BY <2>1, ReleaseAssumption DEF Floor
    <2>3. r = Floor(s) \/ Older(Floor(s), r)
      BY <2>2 DEF Admissible
    <2>4. Floor(s) = s.staged => s.staged = s.active \/ Older(s.active, s.staged)
      BY <1>0, <2>2 DEF ValidState
    <2> QED BY <2>1, <2>2, <2>3, <2>4, Order
  <1>3. ValidState(t)
    BY <1>0, <1>a, <1>2 DEF ValidState
  <1>4. ValidEvidence(h, t)
    <2>1. h = NoHandoff \/ h.outcome = "Arrived"
      <3>1. CASE s.active = None
        BY <3>1 DEF InstallationAdmitted
      <3>2. CASE s.active # None
        BY <3>2 DEF InstallationAdmitted, Arrived, ActivationStarted
      <3> QED BY <3>1, <3>2
    <2> HIDE DEF t
    <2> QED BY <1>0, <1>a, <2>1 DEF ValidEvidence
  <1>5. Proven(t, seen) /\ Ranked(t)
    BY <1>0, <1>a DEF Proven, Ranked
  <1>6. Snapshot(t, h) \in Snapshots(seen)
    <2> HIDE DEF s, h, t
    <2> QED BY <1>0, <1>1, <1>3, <1>4, <1>5, <1>a, PartsSound
  <1> QED BY <1>6

\* The activated release replaces one that is older, and the release to fall
\* back to is older still.
LEMMA ActivatedParts ==
    ASSUME NEW seen, NEW n \in Snapshots(seen),
           n.state.staged # None, n.state.staged # n.state.active,
           n.state.generation < MaxGeneration
    PROVE  LET s == n.state
               t == Activated(s) IN
           /\ t \in State /\ ValidState(t) /\ Proven(t, seen)
           /\ Ranked(t)
           /\ t.active = s.staged /\ ~t.confirmed /\ t.staged = None
           /\ t.generation = s.generation + 1
           /\ t.activation = [attempt |-> s.generation + 1, candidate |-> s.staged,
                              outcome |-> "PendingHealth"]
  <1> DEFINE s == n.state
             t == Activated(s)
             g == s.generation + 1
             a == [attempt |-> g, candidate |-> s.staged, outcome |-> "PendingHealth"]
             l == IF s.confirmed THEN s.active ELSE s.lkg
  <1>0. /\ s \in State /\ ValidState(s)
        /\ Ranked(s)
        /\ Proven(s, seen)
    BY SoundParts
  <1>1. t = [s EXCEPT !.active = s.staged, !.confirmed = FALSE, !.lkg = l,
                      !.staged = None, !.generation = g, !.activation = a,
                      !.failure = NoFailure]
    BY DEF Activated
  <1>2. /\ g \in 1 .. MaxGeneration /\ a.attempt = g /\ a.candidate = s.staged
        /\ a.outcome = "PendingHealth" /\ l \in Release /\ s.staged \in Releases
        /\ a \in [attempt : Nat, candidate : Release, outcome : Outcome]
        /\ NoFailure \in [candidate : Release, kind : {"None", "InterruptedHandoff"}]
    BY <1>0, BoundAssumption DEF State, Release, Outcome, NoFailure
  <1>3. /\ t.active = s.staged /\ t.confirmed = FALSE /\ t.lkg = l /\ t.staged = None
        /\ t.generation = g /\ t.activation = a /\ t.failure = NoFailure
    <2> HIDE DEF g, a, l, t
    <2> QED BY <1>0, <1>1 DEF State
  <1>4. t \in State
    <2>1. t = [active |-> s.staged, confirmed |-> FALSE, lkg |-> l, staged |-> None,
               generation |-> g, activation |-> a, failure |-> NoFailure]
      <3> HIDE DEF g, a, l, t
      <3> QED BY <1>0, <1>1 DEF State
    <2>2. g \in 0 .. MaxGeneration /\ s.staged \in Release /\ None \in Release
      <3> HIDE DEF g
      <3> QED BY <1>2 DEF Release
    <2> HIDE DEF g, a, l, t
    <2> QED BY <1>2, <2>1, <2>2 DEF State
  <1>5. l # None => Older(l, s.staged)
    <2> SUFFICES ASSUME l # None PROVE Older(l, s.staged)
      OBVIOUS
    <2>1. s.active # None
      BY <1>0 DEF ValidState
    <2>2. Older(s.active, s.staged) /\ s.active \in Releases
      BY <1>0, <2>1 DEF ValidState, State, Release
    <2>3. l = s.active \/ Older(l, s.active)
      BY <1>0 DEF Ranked
    <2> HIDE DEF l
    <2> QED BY <1>2, <2>2, <2>3, Order DEF Release
  <1>6. l # s.staged
    <2> HIDE DEF l
    <2> QED BY <1>2, <1>5, Order, ReleaseAssumption DEF Release
  <1>7. ValidState(t)
    <2>1. a # NoActivation
      BY DEF NoActivation
    <2> HIDE DEF g, a, l, t
    <2> QED BY <1>2, <1>3, <1>6, <2>1 DEF ValidState
  <1>8. Proven(t, seen)
    <2>1. l # None => \E k \in 1 .. MaxGeneration : <<l, k>> \in seen
      BY <1>0 DEF Proven
    <2> HIDE DEF g, a, l, t
    <2> QED BY <1>2, <1>3, <2>1 DEF Proven
  <1>9. Ranked(t)
    <2> HIDE DEF a, l, t
    <2> QED BY <1>2, <1>3, <1>5 DEF Ranked
  <1> QED BY <1>3, <1>4, <1>7, <1>8, <1>9

\* The installer's activation: the successor has arrived with it.
LEMMA InstalledSound ==
    ASSUME NEW seen, NEW n \in Snapshots(seen), n.state.staged \in Releases,
           InstallationAdmitted(n.state, n.handoff, n.state.staged),
           n.state.generation < MaxGeneration
    PROVE  LET t == Activated(n.state) IN
           Snapshot(t, Arrived(ActivationStarted(t, n.state.staged)))
              \in Snapshots(seen)
  <1> DEFINE s == n.state
             t == Activated(s)
             h == Arrived(ActivationStarted(t, s.staged))
  <1>0. /\ s \in State /\ n.handoff \in Handoff /\ ValidState(s)
        /\ ValidEvidence(n.handoff, s)
        /\ Ranked(s)
        /\ Proven(s, seen)
    BY SoundParts
  <1>h. ASSUME t \in State
        PROVE  /\ h \in Handoff /\ h.attempt = t.generation /\ h.outcome = "Arrived"
               /\ h.source = s.staged /\ h.target = s.staged /\ h.kind = "Activation"
    <2> HIDE DEF t
    <2> QED BY <1>h, <1>0, BoundAssumption
            DEF State, Release, Handoff, Arrived, ActivationStarted
  <1>1. CASE s.staged = s.active
    <2>1. t = [s EXCEPT !.staged = None]
      BY <1>1 DEF Activated
    <2>2. /\ t \in State /\ t.active = s.active /\ t.confirmed = s.confirmed
          /\ t.lkg = s.lkg /\ t.staged = None /\ t.generation = s.generation
          /\ t.activation = s.activation /\ t.failure = s.failure
      <3> HIDE DEF t
      <3> QED BY <1>0, <2>1 DEF State, Release
    <2>3. s.active # None /\ s.active \in Releases
      BY <1>1, ReleaseAssumption
    <2>4. /\ n.handoff = Arrived(ActivationStarted(s, s.active))
          /\ s.activation.outcome \in {"PendingHealth", "Healthy"}
      BY <2>3, <1>1, Order DEF InstallationAdmitted
    <2>5. h = n.handoff
      <3> HIDE DEF t
      <3> QED BY <2>4, <2>2, <1>1 DEF Arrived, ActivationStarted
    <2>6. ValidState(t) /\ Proven(t, seen) /\ Ranked(t)
      <3> HIDE DEF t
      <3> QED BY <1>0, <2>2, <2>3 DEF ValidState, Proven, Ranked
    <2>7. ValidEvidence(h, t)
      <3>1. h.outcome = "Arrived"
        BY <2>2, <1>h
      <3> HIDE DEF t, h
      <3> QED BY <1>0, <2>2, <2>5, <3>1 DEF ValidEvidence
    <2>8. Snapshot(t, h) \in Snapshots(seen)
      <3>1. h \in Handoff
        BY <2>2, <1>h
      <3> HIDE DEF t, h
      <3> QED BY <1>0, <2>2, <2>6, <2>7, <3>1, PartsSound
    <2> QED BY <2>8
  <1>2. CASE s.staged # s.active
    <2>0. s.staged # None
      BY ReleaseAssumption
    <2>1. /\ t \in State /\ ValidState(t) /\ Proven(t, seen)
          /\ Ranked(t)
          /\ t.active = s.staged /\ ~t.confirmed /\ t.staged = None
          /\ t.generation = s.generation + 1
          /\ t.activation = [attempt |-> s.generation + 1, candidate |-> s.staged,
                             outcome |-> "PendingHealth"]
      BY <1>2, <2>0, ActivatedParts
    <2>2. s.generation + 1 # 0
      BY <1>0 DEF State
    <2>3. ValidEvidence(h, t)
      <3>1. /\ h.attempt = t.generation /\ h.outcome = "Arrived"
            /\ h.source = s.staged /\ h.target = s.staged /\ h.kind = "Activation"
        BY <2>1, <1>h
      <3> HIDE DEF t, h
      <3> QED BY <2>1, <2>2, <3>1 DEF ValidEvidence
    <2>4. Snapshot(t, h) \in Snapshots(seen)
      <3>1. h \in Handoff
        BY <2>1, <1>h
      <3> HIDE DEF t, h
      <3> QED BY <2>1, <2>3, <3>1, PartsSound
    <2> QED BY <2>4
  <1> QED BY <1>1, <1>2

\* The activation that hands over to its successor.
LEMMA TransferSound ==
    ASSUME NEW seen, NEW n \in Snapshots(seen), n.state.staged # None,
           n.state.staged # n.state.active, n.state.generation < MaxGeneration
    PROVE  LET t == Activated(n.state) IN
           Snapshot(t, ActivationStarted(t, n.state.staged)) \in Snapshots(seen)
  <1> DEFINE s == n.state
             t == Activated(s)
             h == ActivationStarted(t, s.staged)
  <1>0. s \in State
    BY SoundParts
  <1>1. /\ t \in State /\ ValidState(t) /\ Proven(t, seen)
        /\ Ranked(t)
        /\ t.active = s.staged /\ ~t.confirmed /\ t.staged = None
        /\ t.generation = s.generation + 1
        /\ t.activation = [attempt |-> s.generation + 1, candidate |-> s.staged,
                           outcome |-> "PendingHealth"]
    BY ActivatedParts
  <1>2. s.generation + 1 # 0 /\ s.generation + 1 \in Nat
    BY <1>0 DEF State
  <1>3. /\ h \in Handoff /\ h.attempt = t.generation /\ h.outcome = "Started"
        /\ h.source = s.staged /\ h.target = s.staged /\ h.kind = "Activation"
    <2> HIDE DEF t
    <2> QED BY <1>0, <1>1, <1>2 DEF State, Handoff, ActivationStarted
  <1>4. ValidEvidence(h, t)
    <2> HIDE DEF t, h
    <2> QED BY <1>1, <1>2, <1>3 DEF ValidEvidence
  <1>5. Snapshot(t, h) \in Snapshots(seen)
    <2> HIDE DEF t, h
    <2> QED BY <1>1, <1>3, <1>4, PartsSound
  <1> QED BY <1>5

\* A transfer that was begun may arrive.
LEMMA ArrivedSound ==
    ASSUME NEW seen, NEW n \in Snapshots(seen), n.handoff.outcome = "Started"
    PROVE  Snapshot(n.state, Arrived(n.handoff)) \in Snapshots(seen)
  <1> DEFINE s == n.state
             h == n.handoff
             k == Arrived(h)
  <1>0. /\ s \in State /\ h \in Handoff /\ ValidState(s) /\ ValidEvidence(h, s)
        /\ Ranked(s)
        /\ Proven(s, seen)
    BY SoundParts
  <1>1. /\ k \in Handoff /\ k.kind = h.kind /\ k.source = h.source
        /\ k.attempt = h.attempt /\ k.target = h.target /\ k.outcome = "Arrived"
    BY <1>0 DEF Handoff, Arrived
  <1>2. ValidEvidence(k, s)
    <2>1. h # NoHandoff
      BY DEF NoHandoff
    <2> HIDE DEF k
    <2> QED BY <1>0, <1>1, <2>1 DEF ValidEvidence
  <1>3. Snapshot(s, k) \in Snapshots(seen)
    <2> HIDE DEF s, h, k
    <2> QED BY <1>0, <1>1, <1>2, PartsSound
  <1> QED BY <1>3

\* An activation whose transfer was begun is rolled back to the release that
\* was proven before it, or to none.
LEMMA RolledBackParts ==
    ASSUME NEW seen, NEW n \in Snapshots(seen),
           n.handoff.kind = "Activation", n.handoff.outcome = "Started"
    PROVE  LET s == n.state
               t == RolledBack(s) IN
           /\ t \in State /\ ValidState(t) /\ Proven(t, seen) /\ Ranked(t)
           /\ t.active = s.lkg
           /\ s.lkg # None => t.confirmed /\ t.activation.outcome = "RolledBack"
           /\ t.activation.attempt = n.handoff.attempt
           /\ t.activation.candidate = n.handoff.source
           /\ t.failure.candidate = n.handoff.source
           /\ n.handoff.attempt # 0
           /\ n.handoff.source # s.lkg
  <1> DEFINE s == n.state
             h == n.handoff
             t == RolledBack(s)
             o == IF s.lkg # None THEN "RolledBack" ELSE "RecoveryRequired"
             c == s.lkg # None
             a == [s.activation EXCEPT !.outcome = o]
             f == [candidate |-> s.active, kind |-> "InterruptedHandoff"]
  <1>0. /\ s \in State /\ h \in Handoff /\ ValidState(s) /\ ValidEvidence(h, s)
        /\ Proven(s, seen) /\ Ranked(s)
    BY SoundParts
  <1>1. /\ s.activation.outcome = "PendingHealth"
        /\ h.attempt # 0 /\ s.active = h.target /\ s.activation.attempt = h.attempt
        /\ s.activation.candidate = h.source /\ h.source = h.target
        /\ s.generation = h.attempt
    <2>1. h # NoHandoff
      BY DEF NoHandoff
    <2> QED BY <1>0, <2>1 DEF ValidEvidence
  <1>2. /\ a \in [attempt : Nat, candidate : Release, outcome : Outcome]
        /\ a.attempt = h.attempt /\ a.candidate = h.source /\ a.outcome = o
        /\ f \in [candidate : Release, kind : {"None", "InterruptedHandoff"}]
        /\ f.candidate = h.source /\ f.kind = "InterruptedHandoff"
        /\ c \in BOOLEAN
    BY <1>0, <1>1 DEF State, Outcome
  <1>3. t = [active |-> s.lkg, confirmed |-> c, lkg |-> None, staged |-> None,
             generation |-> s.generation, activation |-> a, failure |-> f]
    <2>1. t = [s EXCEPT !.active = s.lkg, !.confirmed = c, !.lkg = None,
                        !.staged = None, !.failure = f, !.activation = a]
      BY <1>0 DEF RolledBack, State
    <2> HIDE DEF t, a, f, c
    <2> QED BY <1>0, <2>1 DEF State
  <1>4. t \in State
    <2> HIDE DEF t, a, f, c
    <2> QED BY <1>0, <1>2, <1>3 DEF State, Release
  <1>5. /\ t.active = s.lkg /\ t.confirmed = c /\ t.lkg = None /\ t.staged = None
        /\ t.generation = s.generation /\ t.activation = a /\ t.failure = f
    <2> HIDE DEF t, a, f, c
    <2> QED BY <1>3
  <1>6. /\ s.lkg # h.source
        /\ s.generation \in Nat
    <2>1. s.active # s.lkg
      <3>1. h.attempt \in Nat /\ s.active \in Release /\ s.lkg \in Release
        BY <1>0 DEF State, Handoff
      <3>2. CASE s.active # None
        BY <1>0, <3>2 DEF ValidState
      <3>3. s.active # None
        BY <1>0, <1>1 DEF Ranked
      <3> QED BY <3>2, <3>3
    <2> QED BY <1>0, <1>1, <2>1 DEF State
  <1>7. ValidState(t)
    <2>1. a # NoActivation /\ f # NoFailure
      BY <1>2 DEF NoActivation, NoFailure
    <2>2. c <=> s.lkg # None
      OBVIOUS
    <2>3. o = IF s.lkg # None THEN "RolledBack" ELSE "RecoveryRequired"
      OBVIOUS
    <2>4. h.attempt \in 1 .. s.generation
      BY <1>0, <1>1 DEF State, Handoff
    <2> HIDE DEF t, a, f, c, o
    <2> QED BY <1>1, <1>2, <1>5, <1>6, <2>1, <2>2, <2>3, <2>4 DEF ValidState
  <1>8. Proven(t, seen)
    <2>1. o # "Healthy" /\ (c <=> s.lkg # None)
      OBVIOUS
    <2> HIDE DEF t, a, f, c, o
    <2> QED BY <1>0, <1>2, <1>5, <2>1 DEF Proven
  <1>9. Ranked(t)
    <2> HIDE DEF t, a, f, c, o
    <2> QED BY <1>0, <1>1, <1>2, <1>5 DEF Ranked
  <1> QED BY <1>1, <1>2, <1>4, <1>5, <1>6, <1>7, <1>8, <1>9

LEMMA RolledBackSound ==
    ASSUME NEW seen, NEW n \in Snapshots(seen),
           n.handoff.kind = "Activation", n.handoff.outcome = "Started"
    PROVE  Snapshot(RolledBack(n.state), NoHandoff) \in Snapshots(seen)
  <1> DEFINE t == RolledBack(n.state)
  <1>1. t \in State /\ ValidState(t) /\ Proven(t, seen) /\ Ranked(t)
    BY RolledBackParts
  <1>2. NoHandoff \in Handoff /\ ValidEvidence(NoHandoff, t)
    BY DEF NoHandoff, Handoff, Release, ValidEvidence
  <1>3. Snapshot(t, NoHandoff) \in Snapshots(seen)
    <2> HIDE DEF t
    <2> QED BY <1>1, <1>2, PartsSound
  <1> QED BY <1>3

\* The transfer back to the release that was proven.
LEMMA RecoverySound ==
    ASSUME NEW seen, NEW s \in State, ValidState(s), Proven(s, seen),
           Ranked(s),
           s.activation.outcome = "RolledBack", s.confirmed,
           s.failure.candidate = s.activation.candidate
    PROVE  Snapshot(s, RecoveryStarted(s, s.activation.candidate,
                                       s.activation.attempt, s.active))
              \in Snapshots(seen)
  <1> DEFINE h == RecoveryStarted(s, s.activation.candidate,
                                  s.activation.attempt, s.active)
  <1>1. /\ h \in Handoff /\ h.kind = "Recovery" /\ h.source = s.activation.candidate
        /\ h.attempt = s.activation.attempt /\ h.target = s.active
    BY DEF State, Handoff, RecoveryStarted
  <1>2. s.activation.attempt # 0 /\ s.active # s.activation.candidate
    <2>1. s.activation # NoActivation
      BY DEF NoActivation
    <2> QED BY <2>1 DEF ValidState, State
  <1>3. ValidEvidence(h, s)
    <2> HIDE DEF h
    <2> QED BY <1>1, <1>2 DEF ValidEvidence
  <1>4. Snapshot(s, h) \in Snapshots(seen)
    <2> HIDE DEF h
    <2> QED BY <1>1, <1>3, PartsSound
  <1> QED BY <1>4

\* What the health of an activation means for the state that records it.
LEMMA ProvingParts ==
    ASSUME NEW x, NEW n, Proving(x, n)
    PROVE  LET s == n.state
               o == s.activation.outcome IN
           /\ x.token # 0 /\ s.active = x.exe /\ s.generation = x.token
           /\ s.activation.attempt = x.token /\ s.activation.candidate = x.exe
           /\ s.confirmed = (o = "Healthy")
           /\ o \in {"PendingHealth", "HealthAttemptStarted", "Healthy"}
           /\ HealthState(s, x.exe, x.token) = o
           /\ ArrivedHere(n.handoff, x.exe, x.token)
  BY DEF Proving, HealthState

\* The next step of a health attempt concerns the same activation.
LEMMA FollowsProving ==
    ASSUME NEW seen, NEW n \in Snapshots(seen), NEW x, Proving(x, n),
           n.state.activation.outcome # "Healthy"
    PROVE  /\ Proving(x, Follows(n))
           /\ Follows(n).state.activation.outcome =
                 IF n.state.activation.outcome = "PendingHealth"
                 THEN "HealthAttemptStarted" ELSE "Healthy"
  <1> DEFINE s == n.state
             t == Health(s)
             o == IF s.activation.outcome = "PendingHealth"
                  THEN "HealthAttemptStarted" ELSE "Healthy"
  <1>0. s \in State
    BY SoundParts
  <1>1. /\ s.active = x.exe /\ s.generation = x.token /\ x.token # 0
        /\ s.activation.attempt = x.token /\ s.activation.candidate = x.exe
        /\ s.confirmed = FALSE
        /\ s.activation.outcome \in {"PendingHealth", "HealthAttemptStarted"}
        /\ ArrivedHere(n.handoff, x.exe, x.token)
    BY ProvingParts
  <1>2. /\ t.active = s.active /\ t.generation = s.generation
        /\ t.activation.attempt = s.activation.attempt
        /\ t.activation.candidate = s.activation.candidate
        /\ t.activation.outcome = o
        /\ t.confirmed = (o = "Healthy")
    <2>1. CASE s.activation.outcome = "PendingHealth"
      BY <1>0, <1>1, <2>1 DEF State, Health, HealthStarted
    <2>2. CASE s.activation.outcome # "PendingHealth"
      BY <1>0, <1>1, <2>2 DEF State, Health, HealthConfirmed
    <2> QED BY <2>1, <2>2
  <1>3. Follows(n).state = t /\ Follows(n).handoff = n.handoff
    BY DEF Follows, Snapshot
  <1>4. HealthState(t, x.exe, x.token) # "Refused"
    <2>1. o \in {"HealthAttemptStarted", "Healthy"}
      OBVIOUS
    <2> HIDE DEF t, o
    <2> QED BY <1>1, <1>2, <2>1 DEF HealthState
  <1> HIDE DEF t
  <1> QED BY <1>1, <1>2, <1>3, <1>4 DEF Proving

\* It is a snapshot the journal takes, once the browser was seen when it says
\* so.
LEMMA FollowsSound ==
    ASSUME NEW seen, NEW n \in Snapshots(seen), NEW x, Proving(x, n),
           x.token \in 1 .. MaxGeneration,
           \/ n.state.activation.outcome = "PendingHealth"
           \/ /\ n.state.activation.outcome = "HealthAttemptStarted"
              /\ <<x.exe, x.token>> \in seen
    PROVE  Follows(n) \in Snapshots(seen)
  <1> DEFINE s == n.state
             t == Health(s)
             h == n.handoff
  <1>0. /\ s \in State /\ h \in Handoff /\ ValidState(s) /\ ValidEvidence(h, s)
        /\ Ranked(s) /\ Proven(s, seen)
    BY SoundParts
  <1>1. /\ s.active = x.exe /\ s.generation = x.token /\ x.token # 0
        /\ s.activation.attempt = x.token /\ s.activation.candidate = x.exe
        /\ s.confirmed = FALSE
        /\ ArrivedHere(h, x.exe, x.token)
    BY ProvingParts
  <1>2. /\ t \in State /\ t.active = s.active /\ t.generation = s.generation
        /\ t.lkg = s.lkg /\ t.staged = s.staged
        /\ t.activation.attempt = s.activation.attempt
        /\ t.activation.candidate = s.activation.candidate
        /\ \/ /\ t.activation.outcome = "HealthAttemptStarted" /\ t.confirmed = FALSE
              /\ t.failure = s.failure
           \/ /\ t.activation.outcome = "Healthy" /\ t.confirmed = TRUE
              /\ t.failure = NoFailure /\ <<x.exe, x.token>> \in seen
    <2>1. CASE s.activation.outcome = "PendingHealth"
      BY <1>0, <1>1, <2>1 DEF State, Health, HealthStarted, Outcome
    <2>2. CASE s.activation.outcome # "PendingHealth"
      BY <1>0, <1>1, <2>2
         DEF State, Health, HealthConfirmed, Outcome, NoFailure, Release
    <2> QED BY <2>1, <2>2
  <1>3. ValidState(t)
    <2>1. s.activation # NoActivation /\ t.activation # NoActivation
      <3> HIDE DEF t
      <3> QED BY <1>1, <1>2 DEF NoActivation
    <2>2. s.active # None
      BY <1>0, <1>1 DEF Ranked
    <2>3. s.failure = NoFailure
      BY <1>0 DEF ValidState
    <2> HIDE DEF t
    <2> QED BY <1>0, <1>1, <1>2, <2>1, <2>2, <2>3 DEF ValidState
  <1>4. ValidEvidence(h, t)
    <2>1. /\ h.kind = "Activation" /\ h.source = x.exe /\ h.target = x.exe
          /\ h.attempt = x.token /\ h.outcome = "Arrived"
      BY <1>1 DEF ArrivedHere
    <2> HIDE DEF t
    <2> QED BY <1>1, <1>2, <2>1 DEF ValidEvidence
  <1>5. Ranked(t) /\ Proven(t, seen)
    <2>1. s.active # None
      BY <1>0, <1>1 DEF Ranked
    <2> HIDE DEF t
    <2> QED BY <1>0, <1>1, <1>2, <2>1 DEF Ranked, Proven
  <1>6. Snapshot(t, h) \in Snapshots(seen)
    <2> HIDE DEF t, h
    <2> QED BY <1>0, <1>2, <1>3, <1>4, <1>5, PartsSound
  <1> QED BY <1>6 DEF Follows

-----------------------------------------------------------------------------
(* The journal *)

LEMMA Appending ==
    ASSUME NEW S, NEW log \in Seq(S), NEW n \in S
    PROVE  /\ Append(log, n) \in Seq(S) /\ Append(log, n) # <<>>
           /\ Len(Append(log, n)) = Len(log) + 1 /\ Len(log) \in Nat
           /\ \A i \in 1 .. Len(log) : Append(log, n)[i] = log[i]
           /\ Append(log, n)[Len(log) + 1] = n
           /\ log # <<>> => Len(log) \in 1 .. Len(log) /\ log[Len(log)] \in S
           /\ \A i \in 1 .. Len(log) : log[i] \in S
  OBVIOUS

\* Whoever publishes the pending file, the openings that prove an activation
\* find its next step.
LEMMA Publishing ==
    ASSUME NEW seen, NEW log \in Seq(Snapshots(seen)), log # <<>>,
           NEW file, file # NoFile, file.snapshot \in Snapshots(seen),
           NEW x, Proves(x, log, file)
    PROVE  Proves(x, Append(log, file.snapshot), NoFile)
  <1> DEFINE new == Append(log, file.snapshot)
             last == log[Len(log)]
  <1>1. /\ new \in Seq(Snapshots(seen)) /\ Len(new) = Len(log) + 1
        /\ Len(log) \in Nat /\ Len(log) \in 1 .. Len(log) /\ last \in Snapshots(seen)
        /\ \A i \in 1 .. Len(log) : new[i] = log[i]
        /\ new[Len(new)] = file.snapshot
    BY Appending
  <1> HIDE DEF new
  <1> SUFFICES ASSUME Engaged(x) PROVE Proves(x, new, NoFile)
    BY DEF Proves, new
  <1>2. /\ Proving(x, last) /\ last.state.activation.outcome # "Healthy"
        /\ file.snapshot = Follows(last)
    BY DEF Proves
  <1>3. /\ Proving(x, new[Len(new)])
        /\ new[Len(new)].state.activation.outcome =
              IF last.state.activation.outcome = "PendingHealth"
              THEN "HealthAttemptStarted" ELSE "Healthy"
    BY <1>1, <1>2, FollowsProving
  <1>4. ASSUME x.pc \in Writing
        PROVE  /\ x.revision \in 1 .. Len(new)
               /\ Proving(x, new[x.revision])
               /\ x.then \in {"launch", "open"}
               /\ new[x.revision].state.activation.outcome =
                     IF x.then = "launch" THEN "PendingHealth"
                     ELSE "HealthAttemptStarted"
               /\ x.todo = <<[op |-> "write", snapshot |-> Follows(new[x.revision])]>>
               /\ x.revision < Len(new) =>
                     new[x.revision + 1] = Follows(new[x.revision])
    <2>1. /\ x.revision \in 1 .. Len(log)
          /\ Proving(x, log[x.revision])
          /\ x.then \in {"launch", "open"}
          /\ log[x.revision].state.activation.outcome =
                IF x.then = "launch" THEN "PendingHealth"
                ELSE "HealthAttemptStarted"
          /\ x.todo = <<[op |-> "write", snapshot |-> Follows(log[x.revision])]>>
          /\ x.revision < Len(log) => log[x.revision + 1] = Follows(log[x.revision])
      BY <1>4 DEF Proves
    <2>2. new[x.revision] = log[x.revision] /\ x.revision \in 1 .. Len(new)
      BY <1>1, <2>1
    <2>3. new[x.revision + 1] = Follows(log[x.revision])
      <3>1. CASE x.revision < Len(log)
        <4>1. x.revision + 1 \in 1 .. Len(log)
          BY <1>1, <2>1, <3>1
        <4> QED BY <1>1, <2>1, <3>1, <4>1
      <3>2. CASE x.revision = Len(log)
        BY <1>1, <1>2, <3>2
      <3> QED BY <1>1, <2>1, <3>1, <3>2
    <2> QED BY <2>1, <2>2, <2>3
  <1> QED BY <1>3, <1>4 DEF Proves

\* The disk as every opening of the journal leaves it.
DiskStep ==
    /\ journal' \in Seq(Snapshots(ready)) /\ journal' # <<>>
    /\ pending' \in File(ready)
    /\ pending' # NoFile => pending'.revision = Len(journal') + 1
    /\ \A q \in Procs : /\ Current(proc[q], journal', pending')
                        /\ Proves(proc[q], journal', pending')

LEMMA PendingParts ==
    ASSUME IInv, pending # NoFile
    PROVE  /\ pending.revision = Len(journal) + 1 /\ pending.complete \in BOOLEAN
           /\ pending.snapshot \in Snapshots(ready)
           /\ pending = [revision |-> pending.revision, complete |-> pending.complete,
                         snapshot |-> pending.snapshot]
  BY DEF IInv, Types, Disk, File

LEMMA OpenedSound ==
    ASSUME IInv
    PROVE  /\ Opened \in Snapshots(ready)
           /\ OpenedRevision \in Nat /\ OpenedRevision # 0
           /\ Latest \in Snapshots(ready) /\ Len(journal) \in Nat
  <1>1. /\ journal \in Seq(Snapshots(ready)) /\ journal # <<>>
        /\ Len(journal) \in Nat /\ Len(journal) # 0
    BY DEF IInv, Types
  <1>2. Latest \in Snapshots(ready)
    BY <1>1 DEF Latest
  <1>3. CASE pending = NoFile
    BY <1>1, <1>2, <1>3 DEF Opened, OpenedRevision
  <1>4. CASE pending # NoFile
    BY <1>1, <1>2, <1>4, PendingParts DEF Opened, OpenedRevision
  <1> QED BY <1>1, <1>2, <1>3, <1>4

LEMMA Publish ==
    ASSUME IInv, pending # NoFile,
           journal' = Append(journal, pending.snapshot), pending' = NoFile
    PROVE  /\ DiskStep /\ Len(journal') = Len(journal) + 1
           /\ journal'[Len(journal')] = pending.snapshot
  <1>1. journal \in Seq(Snapshots(ready)) /\ journal # <<>>
    BY DEF IInv, Types
  <1>2. pending.snapshot \in Snapshots(ready)
    BY PendingParts
  <1>3. /\ journal' \in Seq(Snapshots(ready)) /\ journal' # <<>>
        /\ Len(journal') = Len(journal) + 1
        /\ journal'[Len(journal')] = pending.snapshot
    BY <1>1, <1>2, Appending
  <1>4. ASSUME NEW q \in Procs
        PROVE  Current(proc[q], journal', pending') /\ Proves(proc[q], journal', pending')
    <2>1. Current(proc[q], journal, pending) /\ Proves(proc[q], journal, pending)
      BY DEF IInv, Processes
    <2>2. Proves(proc[q], journal', pending')
      BY <1>1, <1>2, <2>1, Publishing
    <2>3. Current(proc[q], journal', pending')
      BY <2>1 DEF Current
    <2> QED BY <2>2, <2>3
  <1> QED BY <1>3, <1>4 DEF DiskStep, File

LEMMA Finalising ==
    ASSUME IInv, Finalise
    PROVE  /\ DiskStep /\ pending' = NoFile
           /\ journal'[Len(journal')] = Opened
           /\ Len(journal') = OpenedRevision
  <1>1. CASE pending = NoFile
    <2>1. journal' = journal /\ pending' = NoFile
      BY <1>1 DEF Finalise
    <2>2. DiskStep
      BY <1>1, <2>1 DEF DiskStep, IInv, Types, Processes, File
    <2> QED BY <1>1, <2>1, <2>2 DEF Opened, OpenedRevision, Latest
  <1>2. CASE pending # NoFile
    <2>1. journal' = Append(journal, pending.snapshot) /\ pending' = NoFile
      BY <1>2 DEF Finalise
    <2>2. pending.revision = Len(journal) + 1
      BY <1>2, PendingParts
    <2> QED BY <1>2, <2>1, <2>2, Publish DEF Opened, OpenedRevision
  <1> QED BY <1>1, <1>2

LEMMA Unmoved ==
    ASSUME IInv, UNCHANGED <<journal, pending>>
    PROVE  DiskStep
  BY DEF IInv, Types, Disk, Processes, DiskStep

LEMMA OpeningJournal ==
    ASSUME IInv, OpenJournal
    PROVE  /\ DiskStep
           /\ Readable => /\ pending' = NoFile
                          /\ journal'[Len(journal')] = Opened
                          /\ Len(journal') = OpenedRevision
  <1>1. CASE Readable
    BY <1>1, Finalising DEF OpenJournal
  <1>2. CASE ~Readable
    BY <1>2, Unmoved DEF OpenJournal
  <1> QED BY <1>1, <1>2

-----------------------------------------------------------------------------
(* The processes *)

\* What a process may become on the disk of the next state.
Fits(p, x) ==
    /\ x \in Process(ready)
    /\ Locked(x) /\ Seen(x, ready)
    /\ Current(x, journal', pending') /\ Proves(x, journal', pending')
    /\ x.lock = "exclusive" => ExclusiveFree(p)
    /\ x.lock = "shared" => SharedFree(p)

\* The disk as the step of p leaves it to the others.
DiskFor(p) ==
    /\ journal' \in Seq(Snapshots(ready)) /\ journal' # <<>>
    /\ pending' \in File(ready)
    /\ pending' # NoFile => pending'.revision = Len(journal') + 1
    /\ \A q \in Procs \ {p} : /\ Current(proc[q], journal', pending')
                             /\ Proves(proc[q], journal', pending')

LEMMA Moving ==
    ASSUME IInv, NEW p \in Procs, DiskFor(p), NEW x, Fits(p, x),
           proc' = [proc EXCEPT ![p] = x],
           ready' = ready, forked' = forked,
           unpacked' \in SUBSET Releases, helper' \in [Procs -> Release]
    PROVE  IInv'
  <1>0. /\ proc \in [Procs -> Process(ready)]
        /\ x \in Process(ready)
        /\ \A q \in Procs : proc'[q] = IF q = p THEN x ELSE proc[q]
        /\ proc' \in [Procs -> Process(ready)]
    <2>1. proc \in [Procs -> Process(ready)] /\ x \in Process(ready)
      BY DEF IInv, Types, Fits
    <2> QED BY <2>1
  <1>1. Types'
    BY <1>0 DEF IInv, Types, DiskFor
  <1>2. Disk'
    BY DEF IInv, Disk, DiskFor
  <1>3. Exclusion'
    <2> SUFFICES ASSUME NEW a \in Procs, NEW b \in Procs, a # b,
                        proc'[a].lock = "exclusive"
                 PROVE  proc'[b].lock = "none"
      BY DEF Exclusion
    <2>1. CASE a = p
      BY <1>0, <2>1 DEF Fits, ExclusiveFree
    <2>2. CASE b = p
      <3>1. proc[a].lock = "exclusive"
        BY <1>0, <2>2
      <3>2. x.lock \notin {"exclusive", "shared"}
        BY <2>2, <3>1 DEF Fits, ExclusiveFree, SharedFree
      <3> QED BY <1>0, <2>2, <3>2 DEF Process
    <2>3. CASE a # p /\ b # p
      BY <1>0, <2>3 DEF IInv, Exclusion
    <2> QED BY <2>1, <2>2, <2>3
  <1>4. Processes'
    <2> SUFFICES ASSUME NEW q \in Procs
                 PROVE  /\ Locked(proc'[q])
                        /\ Current(proc'[q], journal', pending')
                        /\ Proves(proc'[q], journal', pending')
                        /\ Seen(proc'[q], ready')
      BY DEF Processes
    <2>1. CASE q = p
      BY <1>0, <2>1 DEF Fits
    <2>2. CASE q # p
      BY <1>0, <2>2 DEF IInv, Processes, DiskFor
    <2> QED BY <2>1, <2>2
  <1> QED BY <1>1, <1>2, <1>3, <1>4 DEF IInv

LEMMA ProcessMoves ==
    ASSUME IInv, DiskStep, NEW p \in Procs, NEW x, Fits(p, x),
           proc' = [proc EXCEPT ![p] = x],
           ready' = ready, forked' = forked,
           unpacked' \in SUBSET Releases, helper' \in [Procs -> Release]
    PROVE  IInv'
  <1>1. DiskFor(p)
    BY DEF DiskStep, DiskFor
  <1> QED BY <1>1, Moving

LEMMA IdleParts ==
    /\ Idle \in Process(ready) /\ Idle.pc = "idle" /\ Idle.exe = None
    /\ Idle.lock = "none" /\ Idle.then = "exit" /\ Idle.token = 0
  BY BoundAssumption DEF Idle, Process, Release

LEMMA IdleFits ==
    ASSUME IInv, NEW p \in Procs
    PROVE  Fits(p, Idle)
  BY IdleParts DEF Fits, Locked, Seen, Current, Proves, Engaged, Writing

\* A process that ends leaves the rest as it finds it.
LEMMA Ending ==
    ASSUME IInv, DiskStep, NEW p \in Procs, Exit(p),
           UNCHANGED <<forked, unpacked, ready>>, helper' \in [Procs -> Release]
    PROVE  IInv'
  <1>1. /\ proc' = [proc EXCEPT ![p] = Idle]
        /\ ready' = ready /\ forked' = forked /\ unpacked' \in SUBSET Releases
    BY DEF Exit, IInv, Types
  <1>2. Fits(p, Idle)
    BY IdleFits
  <1> QED BY <1>1, <1>2, ProcessMoves

LEMMA ProcParts ==
    ASSUME IInv, NEW p \in Procs
    PROVE  /\ proc[p] \in Process(ready) /\ Locked(proc[p]) /\ Seen(proc[p], ready)
           /\ Current(proc[p], journal, pending) /\ Proves(proc[p], journal, pending)
           /\ proc[p].lock = "exclusive" => ExclusiveFree(p)
           /\ proc[p].lock = "shared" => SharedFree(p)
           /\ helper[p] \in Release
  <1>1. /\ proc[p] \in Process(ready) /\ Locked(proc[p]) /\ Seen(proc[p], ready)
        /\ Current(proc[p], journal, pending) /\ Proves(proc[p], journal, pending)
        /\ helper[p] \in Release
    BY DEF IInv, Types, Processes
  <1>2. proc[p].lock = "exclusive" => ExclusiveFree(p)
    BY DEF IInv, Exclusion, ExclusiveFree
  <1>3. proc[p].lock = "shared" => SharedFree(p)
    BY DEF IInv, Exclusion, SharedFree
  <1> QED BY <1>1, <1>2, <1>3

\* A command under the exclusive lock.
LEMMA Commanding ==
    ASSUME IInv, NEW p \in Procs, NEW exe \in Release,
           NEW todo \in Seq(Jobs(ready)), Command(p, exe, todo),
           UNCHANGED <<forked, ready>>,
           unpacked' \in SUBSET Releases, helper' \in [Procs -> Release]
    PROVE  IInv'
  <1> DEFINE x == [Idle EXCEPT !.pc = "work", !.exe = exe, !.lock = "exclusive",
                               !.revision = OpenedRevision, !.todo = todo]
  <1>1. /\ DiskStep /\ pending' = NoFile /\ Len(journal') = OpenedRevision
        /\ OpenedRevision \in Nat
    BY Finalising, OpenedSound DEF Command
  <1>2. /\ x.pc = "work" /\ x.exe = exe /\ x.lock = "exclusive"
        /\ x.revision = OpenedRevision /\ x.todo = todo /\ x.then = "exit"
        /\ x.token = 0 /\ x \in Process(ready)
    BY <1>1, IdleParts DEF Process
  <1>3. ExclusiveFree(p) /\ proc' = [proc EXCEPT ![p] = x]
    BY DEF Command
  <1> HIDE DEF x
  <1>4. Fits(p, x)
    BY <1>1, <1>2, <1>3 DEF Fits, Locked, Seen, Current, Proves, Engaged, Writing
  <1> QED BY <1>1, <1>3, <1>4, ProcessMoves

-----------------------------------------------------------------------------
(* The commands *)

LEMMA WriteJob ==
    ASSUME NEW seen, NEW s, NEW h, Snapshot(s, h) \in Snapshots(seen)
    PROVE  Write(s, h) \in Jobs(seen)
  BY DEF Write, Jobs

LEMMA ScheduleJob ==
    ASSUME NEW seen, NEW r \in Release
    PROVE  Schedule(r) \in Jobs(seen)
  BY DEF Schedule, Jobs

LEMMA TodoLists ==
    ASSUME NEW S
    PROVE  /\ <<>> \in Seq(S)
           /\ \A a \in S : <<a>> \in Seq(S)
           /\ \A a, b \in S : <<a, b>> \in Seq(S)
           /\ \A s, t \in Seq(S) : s \o t \in Seq(S)
  OBVIOUS

LEMMA PrepareStep ==
    ASSUME IInv, NEW p \in Procs, NEW r \in Releases, Prepare(p, r)
    PROVE  IInv'
  <1> DEFINE next == [Opened.state EXCEPT !.staged = r]
             todo == <<Write(next, Opened.handoff)>>
  <1>1. /\ Opened \in Snapshots(ready) /\ Command(p, None, todo)
        /\ Admissible(Opened.state, r) /\ Opened.state.active # r
        /\ InstallationAdmitted(Opened.state, Opened.handoff, r)
        /\ UNCHANGED <<forked, ready, helper>> /\ unpacked' = unpacked \cup {r}
    BY OpenedSound DEF Prepare
  <1>2. Snapshot(next, Opened.handoff) \in Snapshots(ready)
    BY <1>1, StagedSound
  <1>3. todo \in Seq(Jobs(ready))
    BY <1>2, WriteJob, TodoLists
  <1>4. unpacked' \in SUBSET Releases /\ helper' \in [Procs -> Release] /\ None \in Release
    BY <1>1 DEF IInv, Types, Release
  <1> HIDE DEF todo
  <1> QED BY <1>1, <1>3, <1>4, Commanding

LEMMA CompleteInstallationStep ==
    ASSUME IInv, NEW p \in Procs, NEW exe \in Releases, CompleteInstallation(p, exe)
    PROVE  IInv'
  <1> DEFINE next == Activated(Opened.state)
             todo == <<Write(next, Arrived(ActivationStarted(next, exe)))>>
  <1>1. /\ Opened \in Snapshots(ready) /\ Command(p, exe, todo)
        /\ Opened.state.staged = exe /\ Opened.state.generation < MaxGeneration
        /\ InstallationAdmitted(Opened.state, Opened.handoff, Opened.state.staged)
        /\ UNCHANGED <<forked, ready, helper, unpacked>>
    BY OpenedSound DEF CompleteInstallation
  <1>2. Snapshot(next, Arrived(ActivationStarted(next, exe))) \in Snapshots(ready)
    BY <1>1, InstalledSound
  <1>3. todo \in Seq(Jobs(ready))
    BY <1>2, WriteJob, TodoLists
  <1>4. unpacked' \in SUBSET Releases /\ helper' \in [Procs -> Release] /\ exe \in Release
    BY <1>1 DEF IInv, Types, Release
  <1> HIDE DEF todo
  <1> QED BY <1>1, <1>3, <1>4, Commanding

LEMMA StartActivationStep ==
    ASSUME IInv, NEW p \in Procs, NEW exe \in Releases, StartActivation(p, exe)
    PROVE  IInv'
  <1> DEFINE s == Opened.state
             next == Activated(s)
             todo == <<Schedule(s.staged), Write(next, ActivationStarted(next, s.staged))>>
  <1>1. /\ Opened \in Snapshots(ready) /\ Command(p, exe, todo)
        /\ s.staged # None /\ s.staged # s.active /\ s.generation < MaxGeneration
        /\ UNCHANGED <<forked, ready, helper, unpacked>>
    BY OpenedSound DEF StartActivation
  <1>2. Snapshot(next, ActivationStarted(next, s.staged)) \in Snapshots(ready)
    BY <1>1, TransferSound
  <1>3. s.staged \in Release
    BY <1>1, SoundParts DEF State
  <1>4. todo \in Seq(Jobs(ready))
    BY <1>2, <1>3, WriteJob, ScheduleJob, TodoLists
  <1>5. unpacked' \in SUBSET Releases /\ helper' \in [Procs -> Release] /\ exe \in Release
    BY <1>1 DEF IInv, Types, Release
  <1> HIDE DEF todo
  <1> QED BY <1>1, <1>4, <1>5, Commanding

LEMMA HelperStartsStep ==
    ASSUME IInv, NEW p \in Procs, HelperStarts(p)
    PROVE  IInv'
  <1> DEFINE h == Opened.handoff
             todo == <<Write(Opened.state, Arrived(h))>>
  <1>1. /\ Opened \in Snapshots(ready) /\ helper[p] \in Release
        /\ UNCHANGED <<forked, ready, unpacked>>
        /\ unpacked' \in SUBSET Releases /\ helper' \in [Procs -> Release]
        /\ proc[p] = Idle
    <2>1. helper \in [Procs -> Release] /\ None \in Release
      BY DEF IInv, Types, Release
    <2> QED BY <2>1, OpenedSound DEF HelperStarts, IInv, Types
  <1>2. CASE Command(p, helper[p], todo) /\ h.outcome = "Started"
    <2>1. todo \in Seq(Jobs(ready))
      BY <1>1, <1>2, ArrivedSound, WriteJob, TodoLists
    <2> HIDE DEF todo
    <2> QED BY <1>1, <1>2, <2>1, Commanding
  <1>3. CASE (Finalise \/ UNCHANGED <<journal, pending>>) /\ UNCHANGED proc
    <2>1. DiskStep
      BY <1>3, Finalising, Unmoved
    <2>2. Exit(p)
      <3>1. proc \in [Procs -> Process(ready)]
        BY DEF IInv, Types
      <3> QED BY <1>1, <1>3, <3>1 DEF Exit
    <2> QED BY <1>1, <2>1, <2>2, Ending
  <1> QED BY <1>2, <1>3 DEF HelperStarts

LEMMA RecoveryJobsSound ==
    ASSUME NEW seen, NEW n \in Snapshots(seen), NEW exe
    PROVE  RecoveryJobs(exe, n) \in Seq(Jobs(seen))
  <1> DEFINE s == n.state
             h == n.handoff
             back == RolledBack(s)
             sent == RecoveryStarted(back, h.source, h.attempt, back.active)
             again == RecoveryStarted(s, s.failure.candidate, s.activation.attempt,
                                      s.active)
  <1>0. /\ s \in State /\ h \in Handoff /\ ValidState(s) /\ Ranked(s)
        /\ Proven(s, seen)
    BY SoundParts
  <1>a. /\ s.lkg \in Release /\ s.active \in Release /\ h.target \in Release
        /\ <<>> \in Seq(Jobs(seen))
    BY <1>0, TodoLists DEF State, Handoff
  <1>1. CASE h.kind = "Activation" /\ h.outcome = "Started" /\ exe \in {h.source, s.lkg}
    <2>0. h # NoHandoff
      BY <1>1 DEF NoHandoff
    <2>1. RecoveryJobs(exe, n) =
            <<Write(back, NoHandoff)>> \o
            (IF s.lkg = None THEN <<>> ELSE <<Schedule(s.lkg), Write(back, sent)>>)
      BY <1>1, <2>0 DEF RecoveryJobs
    <2>2. <<Write(back, NoHandoff)>> \in Seq(Jobs(seen))
      BY <1>1, RolledBackSound, WriteJob, TodoLists
    <2>3. ASSUME s.lkg # None
          PROVE  <<Schedule(s.lkg), Write(back, sent)>> \in Seq(Jobs(seen))
      <3>1. /\ back \in State /\ ValidState(back) /\ Proven(back, seen) /\ Ranked(back)
            /\ back.confirmed /\ back.activation.outcome = "RolledBack"
            /\ back.activation.attempt = h.attempt
            /\ back.activation.candidate = h.source
            /\ back.failure.candidate = h.source
        BY <1>1, <2>3, RolledBackParts
      <3>2. Snapshot(back, sent) \in Snapshots(seen)
        <4> HIDE DEF back, h
        <4> QED BY <3>1, RecoverySound
      <3> QED BY <1>a, <3>2, WriteJob, ScheduleJob, TodoLists
    <2>4. (IF s.lkg = None THEN <<>> ELSE <<Schedule(s.lkg), Write(back, sent)>>)
             \in Seq(Jobs(seen))
      BY <1>a, <2>3
    <2> QED BY <2>1, <2>2, <2>4, TodoLists
  <1>2. CASE /\ ~(h.kind = "Activation" /\ h.outcome = "Started"
                    /\ exe \in {h.source, s.lkg})
             /\ h.kind = "Recovery" /\ h.outcome = "Started"
             /\ exe \in {h.source, h.target}
    <2>1. h # NoHandoff
      BY <1>2 DEF NoHandoff
    <2>2. RecoveryJobs(exe, n) = ResumeTransfer(h)
      BY <1>2, <2>1 DEF RecoveryJobs
    <2> QED BY <1>a, <2>2, ScheduleJob, TodoLists DEF ResumeTransfer
  <1>3. CASE /\ h = NoHandoff /\ s.failure.kind = "InterruptedHandoff"
             /\ s.activation.outcome = "RolledBack"
             /\ exe \in {s.failure.candidate, s.active}
    <2>1. h.kind = "None"
      BY <1>3 DEF NoHandoff
    <2>2. RecoveryJobs(exe, n) = <<Schedule(s.active), Write(s, again)>>
      BY <1>3, <2>1 DEF RecoveryJobs
    <2>3. s.confirmed /\ s.failure.candidate = s.activation.candidate
      <3>1. s.failure # NoFailure
        BY <1>3 DEF NoFailure
      <3> QED BY <1>0, <1>3, <3>1 DEF ValidState
    <2>4. Snapshot(s, again) \in Snapshots(seen)
      <3> HIDE DEF s
      <3> QED BY <1>0, <1>3, <2>3, RecoverySound
    <2> QED BY <1>a, <2>2, <2>4, WriteJob, ScheduleJob, TodoLists
  <1>4. CASE /\ ~(h.kind = "Activation" /\ h.outcome = "Started"
                    /\ exe \in {h.source, s.lkg})
             /\ ~(h.kind = "Recovery" /\ h.outcome = "Started"
                    /\ exe \in {h.source, h.target})
             /\ ~(h = NoHandoff /\ s.failure.kind = "InterruptedHandoff"
                    /\ s.activation.outcome = "RolledBack"
                    /\ exe \in {s.failure.candidate, s.active})
    <2>1. RecoveryJobs(exe, n) = <<>>
      BY <1>4 DEF RecoveryJobs
    <2> QED BY <1>a, <2>1
  <1> QED BY <1>1, <1>2, <1>3, <1>4

At(x, c) == [x EXCEPT !.pc = c]

\* A process that goes on to another place and changes nothing else of itself.
LEMMA Going ==
    ASSUME IInv, DiskStep, NEW p \in Procs, NEW c, Goto(p, c),
           c \in {"idle", "work", "written", "synced", "reopen", "exit", "recover",
                  "resolve", "admit", "start", "launch", "confirm", "open"},
           Locked(At(proc[p], c)), Seen(At(proc[p], c), ready),
           Current(At(proc[p], c), journal', pending'),
           Proves(At(proc[p], c), journal', pending'),
           UNCHANGED <<forked, unpacked, helper, ready>>
    PROVE  IInv'
  <1> DEFINE y == At(proc[p], c)
  <1>1. /\ proc[p] \in Process(ready)
        /\ proc[p].lock = "exclusive" => ExclusiveFree(p)
        /\ proc[p].lock = "shared" => SharedFree(p)
    BY ProcParts
  <1>2. y \in Process(ready) /\ y.lock = proc[p].lock
    BY <1>1 DEF At, Process
  <1>3. proc' = [proc EXCEPT ![p] = y]
    BY DEF Goto, At
  <1>4. unpacked' \in SUBSET Releases /\ helper' \in [Procs -> Release]
    BY DEF IInv, Types
  <1>5. Fits(p, y)
    <2> HIDE DEF y
    <2> QED BY <1>1, <1>2 DEF Fits, y
  <1> HIDE DEF y
  <1> QED BY <1>3, <1>4, <1>5, ProcessMoves

LEMMA AtParts ==
    ASSUME NEW seen, NEW x \in Process(seen), NEW c
    PROVE  LET y == At(x, c) IN
           /\ y.pc = c /\ y.exe = x.exe /\ y.lock = x.lock
           /\ y.revision = x.revision /\ y.todo = x.todo /\ y.then = x.then
           /\ y.token = x.token
  BY DEF At, Process

LEMMA RecoverOrResumeStep ==
    ASSUME IInv, NEW p \in Procs, RecoverOrResume(p)
    PROVE  IInv'
  <1> DEFINE exe == proc[p].exe
             todo == RecoveryJobs(exe, Opened)
  <1>1. /\ Opened \in Snapshots(ready) /\ proc[p].pc = "recover"
        /\ proc[p] \in Process(ready) /\ Locked(proc[p])
        /\ UNCHANGED <<forked, unpacked, helper, ready>>
        /\ unpacked' \in SUBSET Releases /\ helper' \in [Procs -> Release]
    BY OpenedSound, ProcParts DEF RecoverOrResume, IInv, Types
  <1>2. exe \in Releases /\ exe \in Release /\ proc[p].lock = "none"
    BY <1>1 DEF Locked, Release, Process, Writing
  <1>3. CASE Command(p, exe, todo)
    <2>1. todo \in Seq(Jobs(ready))
      BY <1>1, RecoveryJobsSound
    <2> HIDE DEF todo, exe
    <2> QED BY <1>1, <1>2, <1>3, <2>1, Commanding
  <1>4. CASE Finalise /\ Goto(p, "resolve")
    <2>1. DiskStep
      BY <1>4, Finalising
    <2> DEFINE y == At(proc[p], "resolve")
    <2>2. /\ y.pc = "resolve" /\ y.exe = exe /\ y.lock = "none"
          /\ y.todo = proc[p].todo
      BY <1>1, <1>2, AtParts
    <2> HIDE DEF y
    <2>3. /\ Locked(y) /\ Seen(y, ready) /\ Current(y, journal', pending')
          /\ Proves(y, journal', pending')
      BY <1>2, <2>2 DEF Locked, Seen, Current, Proves, Engaged, Writing
    <2> USE DEF y
    <2> QED BY <1>1, <1>4, <2>1, <2>3, Going
  <1>5. CASE Exit(p) /\ UNCHANGED <<journal, pending>>
    BY <1>1, <1>5, Unmoved, Ending
  <1> QED BY <1>3, <1>4, <1>5 DEF RecoverOrResume

-----------------------------------------------------------------------------
(* Writing a snapshot *)

LEMMA JobParts ==
    ASSUME IInv, NEW p \in Procs, proc[p].todo # <<>>
    PROVE  /\ Job(p) \in Jobs(ready) /\ Tail(proc[p].todo) \in Seq(Jobs(ready))
           /\ Job(p).op = "write" => Job(p).snapshot \in Snapshots(ready)
           /\ Job(p).op = "schedule" => Job(p).target \in Release
  <1>1. proc[p].todo \in Seq(Jobs(ready))
    BY ProcParts DEF Process
  <1>2. Job(p) \in Jobs(ready) /\ Tail(proc[p].todo) \in Seq(Jobs(ready))
    BY <1>1 DEF Job
  <1> QED BY <1>2 DEF Jobs

\* An opening that writes has the next step of its activation to write.
LEMMA WriterParts ==
    ASSUME IInv, NEW p \in Procs, proc[p].pc \in Writing, proc[p].lock = "shared"
    PROVE  LET x == proc[p] IN
           /\ Engaged(x)
           /\ Proving(x, Latest) /\ Latest \in Snapshots(ready)
           /\ pending # NoFile =>
                 /\ Latest.state.activation.outcome # "Healthy"
                 /\ pending.snapshot = Follows(Latest)
           /\ x.revision \in 1 .. Len(journal)
           /\ x.then \in {"launch", "open"}
           /\ journal[x.revision].state.activation.outcome =
                 IF x.then = "launch" THEN "PendingHealth" ELSE "HealthAttemptStarted"
           /\ Job(p).snapshot = Follows(journal[x.revision])
           /\ Job(p).op = "write" /\ Tail(x.todo) = <<>>
           /\ x.todo = <<Job(p)>>
           /\ x.revision < Len(journal) => journal[x.revision + 1] = Job(p).snapshot
  <1>1. Engaged(proc[p]) /\ Proves(proc[p], journal, pending)
    BY ProcParts DEF Engaged, Locked
  <1>2. Latest \in Snapshots(ready)
    BY OpenedSound
  <1>3. proc[p].todo = <<[op |-> "write",
                          snapshot |-> Follows(journal[proc[p].revision])]>>
    BY <1>1 DEF Proves
  <1>4. /\ Job(p).op = "write" /\ Tail(proc[p].todo) = <<>>
        /\ Job(p).snapshot = Follows(journal[proc[p].revision])
        /\ proc[p].todo = <<Job(p)>>
    BY <1>3 DEF Job
  <1> QED BY <1>1, <1>2, <1>4 DEF Proves, Latest

LEMMA SpawnHelperStep ==
    ASSUME IInv, NEW p \in Procs, SpawnHelper(p)
    PROVE  IInv'
  <1> DEFINE x == proc[p]
             y == [x EXCEPT !.todo = Tail(x.todo)]
  <1>1. /\ x.pc = "work" /\ x.todo # <<>> /\ Job(p).op = "schedule"
        /\ proc' = [proc EXCEPT ![p] = y]
        /\ UNCHANGED <<journal, pending, forked, unpacked, ready>>
    BY DEF SpawnHelper, Working
  <1>2. x \in Process(ready) /\ Locked(x) /\ Current(x, journal, pending)
    BY ProcParts
  <1>3. x.lock = "exclusive" /\ ExclusiveFree(p) /\ x.then = "exit"
    <2>1. x.lock # "shared"
      BY <1>1, WriterParts DEF Writing
    <2>2. x.lock = "exclusive"
      BY <1>1, <1>2, <2>1 DEF Locked, Process
    <2> QED BY <1>2, <2>2, ProcParts DEF Locked
  <1>4. DiskStep
    BY <1>1, Unmoved
  <1>5. /\ Tail(x.todo) \in Seq(Jobs(ready)) /\ Job(p).target \in Release
    BY <1>1, JobParts
  <1>6. unpacked' \in SUBSET Releases /\ helper' \in [Procs -> Release]
    BY <1>1, <1>5 DEF IInv, Types, SpawnHelper
  <1>7. /\ y \in Process(ready) /\ y.pc = "work" /\ y.lock = "exclusive"
        /\ y.then = "exit" /\ y.revision = x.revision
    BY <1>1, <1>2, <1>3, <1>5 DEF Process
  <1> HIDE DEF y
  <1>8. Fits(p, y)
    BY <1>1, <1>2, <1>3, <1>7
       DEF Fits, Locked, Seen, Current, Proves, Engaged, Writing
  <1> QED BY <1>1, <1>4, <1>6, <1>8, ProcessMoves

\* A process that goes on with its write.
LEMMA WritingOn ==
    ASSUME IInv, DiskStep, NEW p \in Procs, proc[p].pc \in Writing,
           proc[p].todo # <<>>, Job(p).op = "write",
           NEW c \in Writing \ {"work"}, Goto(p, c),
           UNCHANGED <<forked, unpacked, helper, ready>>
    PROVE  IInv'
  <1> DEFINE x == proc[p]
             y == At(x, c)
  <1>1. x \in Process(ready) /\ Locked(x) /\ Proves(x, journal', pending')
    BY ProcParts DEF DiskStep
  <1>2. /\ y.pc = c /\ y.exe = x.exe /\ y.lock = x.lock
        /\ y.revision = x.revision /\ y.todo = x.todo /\ y.then = x.then
        /\ y.token = x.token
    BY <1>1, AtParts
  <1>3. Head(x.todo).op = "write"
    BY DEF Job
  <1> HIDE DEF y
  <1>4. Locked(y)
    BY <1>1, <1>2, <1>3 DEF Locked, Writing
  <1>5. Seen(y, ready) /\ Current(y, journal', pending')
    BY <1>2 DEF Seen, Current, Writing
  <1>6. Proves(y, journal', pending')
    <2> SUFFICES ASSUME Engaged(y) PROVE Proves(y, journal', pending')
      BY DEF Proves
    <2>1. Engaged(x) /\ y.pc \in Writing /\ y.pc \notin {"launch", "confirm"}
      BY <1>2 DEF Engaged, Writing
    <2>2. \A n : Proving(x, n) = Proving(y, n)
      BY <1>2 DEF Proving
    <2> QED BY <1>1, <1>2, <2>1, <2>2 DEF Proves
  <1>7. c \in {"idle", "work", "written", "synced", "reopen", "exit", "recover",
               "resolve", "admit", "start", "launch", "confirm", "open"}
    BY DEF Writing
  <1> USE DEF y
  <1> QED BY <1>4, <1>5, <1>6, <1>7, Going

\* A command writes on top of what it read; an opening finds its snapshot
\* pending or published, or is the first to write it.
LEMMA CreatesOnTop ==
    ASSUME IInv, NEW p \in Procs, Working(p, "write"),
           ~(/\ proc[p].revision + 1 <= Len(journal)
             /\ journal[proc[p].revision + 1] = Job(p).snapshot),
           ~(/\ pending # NoFile /\ pending.revision = proc[p].revision + 1
             /\ pending.snapshot = Job(p).snapshot)
    PROVE  /\ pending = NoFile /\ proc[p].revision = Len(journal)
           /\ proc[p].lock \in {"shared", "exclusive"}
           /\ proc[p].lock = "shared" =>
                /\ Job(p).snapshot = Follows(Latest)
                /\ Latest.state.activation.outcome # "Healthy"
  <1>1. /\ proc[p].pc = "work" /\ proc[p].pc \in Writing
    BY DEF Working, Writing
  <1>2. /\ proc[p] \in Process(ready) /\ Locked(proc[p])
        /\ Current(proc[p], journal, pending)
    BY ProcParts
  <1>3. proc[p].lock \in {"shared", "exclusive"}
    BY <1>1, <1>2 DEF Locked, Process
  <1>4. CASE proc[p].lock = "exclusive"
    BY <1>1, <1>2, <1>4 DEF Current
  <1>5. CASE proc[p].lock = "shared"
    <2>1. /\ proc[p].revision \in 1 .. Len(journal) /\ Len(journal) \in Nat
          /\ proc[p].revision < Len(journal) =>
                journal[proc[p].revision + 1] = Job(p).snapshot
          /\ Job(p).snapshot = Follows(journal[proc[p].revision])
          /\ pending # NoFile => pending.snapshot = Follows(Latest)
          /\ journal[proc[p].revision].state.activation.outcome # "Healthy"
      BY <1>1, <1>5, WriterParts, OpenedSound
    <2>2. proc[p].revision = Len(journal)
      BY <2>1
    <2>3. /\ Job(p).snapshot = Follows(Latest)
          /\ Latest.state.activation.outcome # "Healthy"
      BY <2>1, <2>2 DEF Latest
    <2>4. pending = NoFile
      BY <2>1, <2>2, <2>3, PendingParts
    <2> QED BY <1>5, <2>2, <2>3, <2>4
  <1> QED BY <1>3, <1>4, <1>5

LEMMA CreatePendingStep ==
    ASSUME IInv, NEW p \in Procs, CreatePending(p)
    PROVE  IInv'
  <1> DEFINE x == proc[p]
             snapshot == Job(p).snapshot
             next == x.revision + 1
  <1>1. /\ x.pc = "work" /\ x.todo # <<>> /\ Job(p).op = "write" /\ x.pc \in Writing
        /\ Working(p, "write")
        /\ UNCHANGED <<journal, unpacked, helper, ready>>
    BY DEF CreatePending, Working, Writing
  <1>2. /\ snapshot \in Snapshots(ready) /\ x \in Process(ready) /\ Locked(x)
        /\ Proves(x, journal, pending) /\ Seen(x, ready)
        /\ x.lock = "exclusive" => ExclusiveFree(p)
        /\ x.lock = "shared" => SharedFree(p)
    BY <1>1, JobParts, ProcParts
  <1>3. /\ unpacked' \in SUBSET Releases /\ helper' \in [Procs -> Release]
        /\ journal \in Seq(Snapshots(ready)) /\ journal # <<>> /\ Len(journal) \in Nat
    BY <1>1, OpenedSound DEF IInv, Types
  <1>4. CASE Exit(p) /\ UNCHANGED <<pending, forked>>
    BY <1>1, <1>3, <1>4, Unmoved, Ending
  <1>5. CASE Goto(p, "reopen") /\ UNCHANGED <<pending, forked>>
    BY <1>1, <1>5, Unmoved, WritingOn DEF Writing
  <1>6. CASE /\ ~(next <= Len(journal) /\ journal[next] = snapshot)
             /\ ~(/\ pending # NoFile /\ pending.revision = next
                  /\ pending.snapshot = snapshot)
             /\ pending' = [revision |-> next, complete |-> FALSE,
                            snapshot |-> snapshot]
             /\ forked' = (forked \/ pending # NoFile)
             /\ Goto(p, "written")
    <2>1. /\ pending = NoFile /\ x.revision = Len(journal)
          /\ x.lock \in {"shared", "exclusive"}
          /\ x.lock = "shared" => /\ snapshot = Follows(Latest)
                                  /\ Latest.state.activation.outcome # "Healthy"
      BY <1>1, <1>6, CreatesOnTop
    <2>2. /\ pending' \in File(ready) /\ pending'.revision = Len(journal') + 1
          /\ pending'.snapshot = snapshot /\ pending' # NoFile
      BY <1>1, <1>2, <1>3, <1>6, <2>1 DEF File, NoFile
    <2>3. forked' = forked
      BY <1>6, <2>1 DEF IInv, Disk
    <2>4. ASSUME NEW q \in Procs, x.lock = "exclusive" => q # p
          PROVE  Proves(proc[q], journal', pending')
      <3>1. CASE x.lock = "exclusive"
        <4>1. proc[q].lock = "none"
          BY <1>2, <2>4, <3>1 DEF ExclusiveFree
        <4> QED BY <4>1 DEF Proves, Engaged
      <3>2. CASE x.lock = "shared"
        <4>1. Proves(proc[q], journal, NoFile)
          BY <2>1, ProcParts
        <4> QED BY <1>1, <2>1, <2>2, <3>2, <4>1 DEF Proves, Latest
      <3> QED BY <2>1, <3>1, <3>2
    <2>5. ASSUME NEW q \in Procs \ {p}
          PROVE  Current(proc[q], journal', pending') /\ Proves(proc[q], journal', pending')
      <3>1. proc[q].lock # "exclusive"
        BY <1>2, <2>1, <2>5 DEF ExclusiveFree, SharedFree
      <3> QED BY <2>4, <2>5, <3>1 DEF Current
    <2>6. DiskFor(p)
      BY <1>1, <1>3, <2>2, <2>5 DEF DiskFor
    <2> DEFINE y == At(x, "written")
    <2>7. /\ y.pc = "written" /\ y.exe = x.exe /\ y.lock = x.lock
          /\ y.revision = x.revision /\ y.todo = x.todo /\ y.then = x.then
          /\ y.token = x.token /\ y \in Process(ready)
      BY <1>2, AtParts DEF At, Process
    <2>8. proc' = [proc EXCEPT ![p] = y]
      BY <1>6 DEF Goto, At
    <2>9. Head(x.todo).op = "write"
      BY <1>1 DEF Job
    <2> HIDE DEF y
    <2>10. Locked(y) /\ Seen(y, ready) /\ Current(y, journal', pending')
      BY <1>1, <1>2, <2>7, <2>9 DEF Locked, Seen, Current, Writing
    <2>11. Proves(y, journal', pending')
      <3> SUFFICES ASSUME Engaged(y) PROVE Proves(y, journal', pending')
        BY DEF Proves
      <3>1. /\ Engaged(x) /\ x.lock = "shared" /\ y.pc \in Writing
            /\ y.pc \notin {"launch", "confirm"}
        BY <1>1, <2>7 DEF Engaged, Writing
      <3>2. \A n : Proving(x, n) = Proving(y, n)
        BY <2>7 DEF Proving
      <3>3. Proves(x, journal', pending')
        BY <3>1, <2>4
      <3> QED BY <1>1, <2>7, <3>1, <3>2, <3>3 DEF Proves
    <2>12. Fits(p, y)
      BY <1>2, <2>7, <2>10, <2>11 DEF Fits
    <2> QED BY <1>1, <1>3, <2>3, <2>6, <2>8, <2>12, Moving
  <1> QED BY <1>4, <1>5, <1>6 DEF CreatePending

LEMMA SyncPendingStep ==
    ASSUME IInv, NEW p \in Procs, SyncPending(p)
    PROVE  IInv'
  <1>1. /\ proc[p].pc = "written" /\ proc[p].pc \in Writing /\ Goto(p, "synced")
        /\ UNCHANGED <<journal, forked, unpacked, helper, ready>>
        /\ "synced" \in Writing \ {"work"}
    BY DEF SyncPending, Writing
  <1>2. proc[p].todo # <<>> /\ Job(p).op = "write"
    BY <1>1, ProcParts DEF Locked, Job, Writing
  <1>3. DiskStep
    <2>1. CASE pending' = pending
      BY <1>1, <2>1, Unmoved
    <2>2. CASE pending # NoFile /\ pending' = [pending EXCEPT !.complete = TRUE]
      <3>1. /\ pending.revision = Len(journal) + 1
            /\ pending.snapshot \in Snapshots(ready)
            /\ pending = [revision |-> pending.revision, complete |-> pending.complete,
                          snapshot |-> pending.snapshot]
            /\ Len(journal) \in Nat
        BY <2>2, PendingParts, OpenedSound
      <3>2. pending' = [revision |-> pending.revision, complete |-> TRUE,
                        snapshot |-> pending.snapshot]
        BY <2>2, <3>1
      <3>3. /\ pending' \in File(ready) /\ pending'.revision = Len(journal') + 1
            /\ pending'.snapshot = pending.snapshot /\ pending' # NoFile
        BY <1>1, <3>1, <3>2 DEF File, NoFile
      <3>4. ASSUME NEW q \in Procs
            PROVE  /\ Current(proc[q], journal', pending')
                   /\ Proves(proc[q], journal', pending')
        <4>1. Current(proc[q], journal, pending) /\ Proves(proc[q], journal, pending)
          BY ProcParts
        <4> QED BY <1>1, <2>2, <3>3, <4>1 DEF Current, Proves
      <3> QED BY <1>1, <3>3, <3>4 DEF DiskStep, IInv, Types
    <2> QED BY <2>1, <2>2 DEF SyncPending, Mine
  <1> QED BY <1>1, <1>2, <1>3, WritingOn

LEMMA RenameStep ==
    ASSUME IInv, NEW p \in Procs, Rename(p)
    PROVE  IInv'
  <1>1. /\ proc[p].pc = "synced" /\ proc[p].pc \in Writing /\ Goto(p, "reopen")
        /\ UNCHANGED <<unpacked, helper, ready>>
        /\ "reopen" \in Writing \ {"work"}
    BY DEF Rename, Writing
  <1>2. proc[p].todo # <<>> /\ Job(p).op = "write"
    BY <1>1, ProcParts DEF Locked, Job, Writing
  <1>3. CASE Mine(p)
    <2>1. pending # NoFile /\ pending.revision = Len(journal) + 1
      BY <1>3, PendingParts DEF Mine
    <2>2. /\ journal' = Append(journal, pending.snapshot) /\ pending' = NoFile
          /\ forked' = forked
      BY <1>3, <2>1 DEF Rename
    <2> QED BY <1>1, <1>2, <2>1, <2>2, Publish, WritingOn
  <1>4. CASE ~Mine(p)
    <2>1. UNCHANGED <<journal, pending, forked>>
      BY <1>4 DEF Rename
    <2> QED BY <1>1, <1>2, <2>1, Unmoved, WritingOn
  <1> QED BY <1>3, <1>4

LEMMA ReopenStep ==
    ASSUME IInv, NEW p \in Procs, Reopen(p)
    PROVE  IInv'
  <1> DEFINE x == proc[p]
             rest == Tail(x.todo)
             c == IF rest = <<>> THEN x.then ELSE "work"
             y == [x EXCEPT !.todo = rest, !.revision = OpenedRevision, !.pc = c]
  <1>1. /\ x.pc = "reopen" /\ x.pc \in Writing /\ OpenJournal
        /\ UNCHANGED <<forked, unpacked, helper, ready>>
        /\ unpacked' \in SUBSET Releases /\ helper' \in [Procs -> Release]
    BY DEF Reopen, Writing, IInv, Types
  <1>2. /\ x \in Process(ready) /\ Locked(x) /\ x.todo # <<>>
        /\ x.lock = "exclusive" => ExclusiveFree(p)
        /\ x.lock = "shared" => SharedFree(p)
        /\ rest \in Seq(Jobs(ready))
    BY <1>1, ProcParts, JobParts DEF Locked, Writing
  <1>3. CASE Exit(p)
    BY <1>1, <1>3, OpeningJournal, Ending
  <1>4. CASE /\ Readable /\ Opened = Job(p).snapshot
             /\ proc' = [proc EXCEPT ![p] = y]
    <2>1. /\ DiskStep /\ pending' = NoFile /\ journal'[Len(journal')] = Opened
          /\ Len(journal') = OpenedRevision /\ OpenedRevision \in Nat
      BY <1>1, <1>4, OpeningJournal, OpenedSound
    <2>2. /\ y.exe = x.exe /\ y.lock = x.lock /\ y.then = x.then
          /\ y.token = x.token /\ y.revision = OpenedRevision /\ y.todo = rest
          /\ y.pc = c /\ y \in Process(ready)
      <3>1. c \in {"exit", "launch", "open", "work"}
        BY <1>2 DEF Process
      <3> HIDE DEF c, rest
      <3> QED BY <1>2, <2>1, <3>1 DEF Process
    <2>3. CASE x.lock = "exclusive"
      <3>1. c \in {"exit", "work"} /\ x.then = "exit"
        BY <1>2, <2>3 DEF Locked
      <3> HIDE DEF c, y
      <3>2. Fits(p, y)
        BY <1>2, <2>1, <2>2, <2>3, <3>1
           DEF Fits, Locked, Seen, Current, Proves, Engaged, Writing
      <3> QED BY <1>1, <1>4, <2>1, <3>2, ProcessMoves DEF y
    <2>4. CASE x.lock = "shared"
      <3>1. /\ Engaged(x) /\ rest = <<>> /\ x.then \in {"launch", "open"}
            /\ Proves(x, journal', pending')
            /\ journal[x.revision].state.activation.outcome =
                  IF x.then = "launch" THEN "PendingHealth"
                  ELSE "HealthAttemptStarted"
            /\ Job(p).snapshot = Follows(journal[x.revision])
            /\ x.revision \in 1 .. Len(journal)
        BY <1>1, <2>1, <2>4, WriterParts DEF DiskStep
      <3>2. c = x.then
        BY <3>1
      <3>3. journal[x.revision] \in Snapshots(ready)
        BY <3>1 DEF IInv, Types
      <3>4. Proving(x, journal[x.revision]) /\ Proving(x, journal'[Len(journal')])
        <4>1. Proves(x, journal, pending)
          BY ProcParts
        <4> QED BY <1>1, <3>1, <4>1 DEF Proves
      <3>5. x.then = "launch" =>
               Opened.state.activation.outcome = "HealthAttemptStarted"
        BY <1>4, <3>1, <3>3, <3>4, FollowsProving
      <3> HIDE DEF c, y
      <3>6. Locked(y) /\ Seen(y, ready) /\ Current(y, journal', pending')
        BY <1>2, <2>2, <2>4, <3>1, <3>2 DEF Locked, Seen, Current, Writing
      <3>7. Proves(y, journal', pending')
        <4>1. Proving(y, journal'[Len(journal')])
          BY <2>2, <3>4 DEF Proving
        <4> QED BY <2>1, <2>2, <3>1, <3>2, <3>5, <4>1 DEF Proves, Engaged, Writing
      <3>8. Fits(p, y)
        BY <1>2, <2>2, <2>4, <3>6, <3>7 DEF Fits
      <3> QED BY <1>1, <1>4, <2>1, <3>8, ProcessMoves DEF y
    <2> QED BY <1>1, <1>2, <2>3, <2>4 DEF Locked, Process, Writing
  <1> QED BY <1>3, <1>4 DEF Reopen

\* The steps that only end a process.
LEMMA EndingSteps ==
    ASSUME IInv, NEW p \in Procs,
           \/ End(p) \/ BrowserFails(p) \/ Close(p) \/ SpawnFails(p) \/ Crash(p)
    PROVE  IInv'
  <1>1. /\ Exit(p)
        /\ UNCHANGED <<journal, pending, forked, unpacked, helper, ready>>
    BY DEF End, BrowserFails, Close, SpawnFails, Crash
  <1>2. helper' \in [Procs -> Release]
    BY <1>1 DEF IInv, Types
  <1> QED BY <1>1, <1>2, Unmoved, Ending

LEMMA HelperLostStep ==
    ASSUME IInv, NEW p \in Procs, HelperLost(p)
    PROVE  IInv'
  <1>1. /\ UNCHANGED <<journal, pending, forked, unpacked, proc, ready>>
        /\ helper' = [helper EXCEPT ![p] = None]
    BY DEF HelperLost
  <1>2. helper' \in [Procs -> Release]
    BY <1>1 DEF IInv, Types, Release
  <1> QED BY <1>1, <1>2 DEF IInv, Types, Disk, Exclusion, Processes

-----------------------------------------------------------------------------
(* Opening a profile *)

LEMMA OpenProfileStep ==
    ASSUME IInv, NEW p \in Procs, NEW exe \in Releases, OpenProfile(p, exe)
    PROVE  IInv'
  <1> DEFINE c == IF RecoveryPending(Opened) THEN "recover" ELSE "resolve"
             y == [Idle EXCEPT !.exe = exe, !.pc = c]
  <1>1. /\ Finalise /\ proc' = [proc EXCEPT ![p] = y]
        /\ UNCHANGED <<forked, unpacked, helper, ready>>
        /\ unpacked' \in SUBSET Releases /\ helper' \in [Procs -> Release]
    BY DEF OpenProfile, IInv, Types
  <1>2. c \in {"recover", "resolve"}
    OBVIOUS
  <1> HIDE DEF c
  <1>3. /\ y \in Process(ready) /\ y.exe = exe /\ y.pc = c /\ y.lock = "none"
    BY <1>2, IdleParts DEF Process, Release
  <1> HIDE DEF y
  <1>4. Fits(p, y)
    BY <1>2, <1>3 DEF Fits, Locked, Seen, Current, Proves, Engaged, Writing
  <1> QED BY <1>1, <1>4, Finalising, ProcessMoves

LEMMA ResolveStep ==
    ASSUME IInv, NEW p \in Procs, Resolve(p)
    PROVE  IInv'
  <1> DEFINE x == proc[p]
             t == IF Opened.state.confirmed THEN 0 ELSE Opened.state.generation
             y == [x EXCEPT !.pc = "admit", !.token = t]
  <1>1. /\ x.pc = "resolve" /\ OpenJournal
        /\ UNCHANGED <<forked, unpacked, helper, ready>>
        /\ unpacked' \in SUBSET Releases /\ helper' \in [Procs -> Release]
    BY DEF Resolve, IInv, Types
  <1>2. x \in Process(ready) /\ Locked(x)
    BY ProcParts
  <1>3. CASE Exit(p)
    BY <1>1, <1>3, OpeningJournal, Ending
  <1>4. CASE proc' = [proc EXCEPT ![p] = y]
    <2>1. t \in 0 .. MaxGeneration
      BY OpenedSound, SoundParts, BoundAssumption DEF State
    <2> HIDE DEF t
    <2>2. /\ y \in Process(ready) /\ y.pc = "admit" /\ y.exe = x.exe
          /\ y.lock = x.lock
      BY <1>2, <2>1 DEF Process
    <2>3. x.lock = "none" /\ x.exe \in Releases
      BY <1>1, <1>2 DEF Locked, Writing, Process
    <2> HIDE DEF y
    <2>4. Fits(p, y)
      BY <2>2, <2>3 DEF Fits, Locked, Seen, Current, Proves, Engaged, Writing
    <2> QED BY <1>1, <1>4, <2>4, OpeningJournal, ProcessMoves
  <1> QED BY <1>3, <1>4 DEF Resolve

LEMMA AdmitStep ==
    ASSUME IInv, NEW p \in Procs, Admit(p)
    PROVE  IInv'
  <1> DEFINE x == proc[p]
             y == [x EXCEPT !.lock = "shared", !.pc = "start"]
  <1>1. /\ x.pc = "admit"
        /\ UNCHANGED <<journal, pending, forked, unpacked, helper, ready>>
        /\ unpacked' \in SUBSET Releases /\ helper' \in [Procs -> Release]
    BY DEF Admit, IInv, Types
  <1>2. x \in Process(ready) /\ Locked(x)
    BY ProcParts
  <1>3. CASE Exit(p)
    BY <1>1, <1>3, Unmoved, Ending
  <1>4. CASE SharedFree(p) /\ proc' = [proc EXCEPT ![p] = y]
    <2>1. /\ y \in Process(ready) /\ y.pc = "start" /\ y.exe = x.exe
          /\ y.lock = "shared"
      BY <1>2 DEF Process
    <2>2. x.exe \in Releases
      BY <1>1, <1>2 DEF Locked
    <2> HIDE DEF y
    <2>3. Fits(p, y)
      BY <1>4, <2>1, <2>2 DEF Fits, Locked, Seen, Current, Proves, Engaged, Writing
    <2> QED BY <1>1, <1>4, <2>3, Unmoved, ProcessMoves
  <1> QED BY <1>3, <1>4 DEF Admit

LEMMA StartConfirmedStep ==
    ASSUME IInv, NEW p \in Procs, StartConfirmed(p)
    PROVE  IInv'
  <1> DEFINE x == proc[p]
             y == At(x, "launch")
  <1>1. /\ x.pc = "start" /\ x.token = 0 /\ Goto(p, "launch")
        /\ UNCHANGED <<journal, pending, forked, unpacked, helper, ready>>
    BY DEF StartConfirmed
  <1>2. x \in Process(ready) /\ Locked(x)
    BY ProcParts
  <1>3. x.lock = "shared" /\ x.exe \in Releases
    BY <1>1, <1>2 DEF Locked, Process, Writing
  <1>4. /\ y.pc = "launch" /\ y.exe = x.exe /\ y.lock = x.lock /\ y.token = 0
    BY <1>1, <1>2, AtParts
  <1> HIDE DEF y
  <1>5. /\ Locked(y) /\ Seen(y, ready) /\ Current(y, journal', pending')
        /\ Proves(y, journal', pending')
    BY <1>3, <1>4 DEF Locked, Seen, Current, Proves, Engaged, Writing
  <1> USE DEF y
  <1> QED BY <1>1, <1>5, Unmoved, Going

\* The next step of an activation that the opening has to record.
LEMMA RecordsHealth ==
    ASSUME IInv, NEW p \in Procs, Readable, OpenJournal,
           proc[p].lock = "shared", proc[p].token # 0, Proving(proc[p], Opened),
           NEW then \in {"launch", "open"},
           Opened.state.activation.outcome =
              IF then = "launch" THEN "PendingHealth" ELSE "HealthAttemptStarted",
           then = "open" => <<proc[p].exe, proc[p].token>> \in ready,
           proc' = [proc EXCEPT ![p] =
                      [proc[p] EXCEPT !.pc = "work", !.revision = OpenedRevision,
                         !.then = then,
                         !.todo = <<[op |-> "write", snapshot |-> Follows(Opened)]>>]],
           UNCHANGED <<forked, unpacked, helper, ready>>
    PROVE  IInv'
  <1> DEFINE x == proc[p]
             todo == <<[op |-> "write", snapshot |-> Follows(Opened)]>>
             y == [x EXCEPT !.pc = "work", !.revision = OpenedRevision,
                            !.then = then, !.todo = todo]
  <1>1. /\ DiskStep /\ pending' = NoFile /\ journal'[Len(journal')] = Opened
        /\ Len(journal') = OpenedRevision /\ OpenedRevision \in Nat
        /\ OpenedRevision # 0 /\ Opened \in Snapshots(ready)
    BY OpeningJournal, OpenedSound
  <1>2. x \in Process(ready) /\ Locked(x) /\ SharedFree(p)
    BY ProcParts
  <1>3. x.token \in 1 .. MaxGeneration /\ x.exe \in Releases
    BY <1>2, BoundAssumption DEF Process, Locked
  <1>4. Follows(Opened) \in Snapshots(ready)
    BY <1>1, <1>3, FollowsSound
  <1>5. todo \in Seq(Jobs(ready))
    <2>1. [op |-> "write", snapshot |-> Follows(Opened)] \in Jobs(ready)
      BY <1>4 DEF Jobs
    <2> QED BY <2>1, TodoLists
  <1> HIDE DEF todo
  <1>6. /\ y \in Process(ready) /\ y.pc = "work" /\ y.exe = x.exe
        /\ y.lock = "shared" /\ y.token = x.token /\ y.then = then
        /\ y.revision = OpenedRevision /\ y.todo = todo
    BY <1>1, <1>2, <1>5 DEF Process
  <1>7. unpacked' \in SUBSET Releases /\ helper' \in [Procs -> Release]
    BY DEF IInv, Types
  <1>8. proc' = [proc EXCEPT ![p] = y]
    BY DEF todo
  <1> HIDE DEF y
  <1>9. Locked(y) /\ Seen(y, ready) /\ Current(y, journal', pending')
    BY <1>3, <1>6 DEF Locked, Seen, Current, Writing
  <1>10. Proves(y, journal', pending')
    <2>1. Proving(y, Opened)
      BY <1>6 DEF Proving
    <2>2. OpenedRevision \in 1 .. Len(journal') /\ ~(OpenedRevision < Len(journal'))
      BY <1>1
    <2> QED BY <1>1, <1>6, <2>1, <2>2 DEF Proves, Engaged, Writing, todo
  <1>11. Fits(p, y)
    BY <1>2, <1>6, <1>9, <1>10 DEF Fits
  <1> QED BY <1>1, <1>7, <1>8, <1>11, ProcessMoves

\* The health that is not refused is that of the recorded activation.
LEMMA HealthKnown ==
    ASSUME NEW x, NEW n, ArrivedHere(n.handoff, x.exe, x.token),
           HealthState(n.state, x.exe, x.token) # "Refused"
    PROVE  /\ Proving(x, n)
           /\ HealthState(n.state, x.exe, x.token) = n.state.activation.outcome
  BY DEF Proving, HealthState

LEMMA StartHealthStep ==
    ASSUME IInv, NEW p \in Procs, StartHealth(p)
    PROVE  IInv'
  <1> DEFINE x == proc[p]
             health == HealthState(Opened.state, x.exe, x.token)
             job == Write(HealthStarted(Opened.state), Opened.handoff)
             y == [x EXCEPT !.pc = "work", !.revision = OpenedRevision,
                            !.then = "launch", !.todo = <<job>>]
  <1>1. /\ x.pc = "start" /\ x.token # 0 /\ OpenJournal
        /\ UNCHANGED <<forked, unpacked, helper, ready>>
        /\ helper' \in [Procs -> Release]
    BY DEF StartHealth, IInv, Types
  <1>2. x \in Process(ready) /\ Locked(x)
    BY ProcParts
  <1>3. x.lock = "shared" /\ x.exe \in Releases
    BY <1>1, <1>2 DEF Locked, Process, Writing
  <1>4. CASE Exit(p)
    BY <1>1, <1>4, OpeningJournal, Ending
  <1>5. CASE /\ Readable /\ ArrivedHere(Opened.handoff, x.exe, x.token)
             /\ health \in {"PendingHealth", "HealthAttemptStarted"}
             /\ proc' = [proc EXCEPT ![p] =
                    IF health = "HealthAttemptStarted" THEN At(x, "launch") ELSE y]
    <2>1. Proving(x, Opened) /\ health = Opened.state.activation.outcome
      BY <1>5, HealthKnown
    <2>2. CASE health = "HealthAttemptStarted"
      <3>1. Goto(p, "launch")
        BY <1>5, <2>2 DEF Goto, At
      <3>2. /\ DiskStep /\ pending' = NoFile /\ journal'[Len(journal')] = Opened
        BY <1>1, <1>5, OpeningJournal
      <3> DEFINE z == At(x, "launch")
      <3>3. /\ z.pc = "launch" /\ z.exe = x.exe /\ z.lock = "shared"
            /\ z.token = x.token
        BY <1>2, <1>3, AtParts
      <3> HIDE DEF z
      <3>4. Locked(z) /\ Seen(z, ready) /\ Current(z, journal', pending')
        BY <1>3, <3>3 DEF Locked, Seen, Current, Writing
      <3>5. Proves(z, journal', pending')
        <4>1. Proving(z, Opened)
          BY <2>1, <3>3 DEF Proving
        <4> QED BY <2>1, <2>2, <3>2, <3>3, <4>1 DEF Proves, Writing
      <3> USE DEF z
      <3> QED BY <1>1, <3>1, <3>2, <3>4, <3>5, Going
    <2>3. CASE health = "PendingHealth"
      <3>1. job = [op |-> "write", snapshot |-> Follows(Opened)]
        BY <2>1, <2>3 DEF Write, Follows, Health
      <3>2. proc' = [proc EXCEPT ![p] =
                      [x EXCEPT !.pc = "work", !.revision = OpenedRevision,
                         !.then = "launch",
                         !.todo = <<[op |-> "write", snapshot |-> Follows(Opened)]>>]]
        BY <1>5, <2>3, <3>1
      <3> HIDE DEF health
      <3> QED BY <1>1, <1>3, <1>5, <2>1, <2>3, <3>2, RecordsHealth
    <2> QED BY <1>5, <2>2, <2>3
  <1> QED BY <1>4, <1>5 DEF StartHealth, At

LEMMA ConfirmHealthStep ==
    ASSUME IInv, NEW p \in Procs, ConfirmHealth(p)
    PROVE  IInv'
  <1> DEFINE x == proc[p]
             health == HealthState(Opened.state, x.exe, x.token)
             job == Write(HealthConfirmed(Opened.state), Opened.handoff)
             y == [x EXCEPT !.pc = "work", !.revision = OpenedRevision,
                            !.then = "open", !.todo = <<job>>]
  <1>1. /\ x.pc = "confirm" /\ OpenJournal
        /\ UNCHANGED <<forked, unpacked, helper, ready>>
        /\ helper' \in [Procs -> Release]
    BY DEF ConfirmHealth, IInv, Types
  <1>2. x \in Process(ready) /\ Locked(x) /\ Seen(x, ready)
    BY ProcParts
  <1>3. /\ x.lock = "shared" /\ x.exe \in Releases /\ x.token # 0
        /\ <<x.exe, x.token>> \in ready
    BY <1>1, <1>2 DEF Locked, Process, Writing, Seen
  <1>4. CASE Exit(p)
    BY <1>1, <1>4, OpeningJournal, Ending
  <1>5. CASE /\ Readable /\ ArrivedHere(Opened.handoff, x.exe, x.token)
             /\ health \in {"HealthAttemptStarted", "Healthy"}
             /\ proc' = [proc EXCEPT ![p] =
                    IF health = "Healthy" THEN At(x, "open") ELSE y]
    <2>1. Proving(x, Opened) /\ health = Opened.state.activation.outcome
      BY <1>5, HealthKnown
    <2>2. CASE health = "Healthy"
      <3>1. Goto(p, "open")
        BY <1>5, <2>2 DEF Goto, At
      <3>2. DiskStep
        BY <1>1, OpeningJournal
      <3> DEFINE z == At(x, "open")
      <3>3. z.pc = "open" /\ z.exe = x.exe /\ z.lock = "shared"
        BY <1>2, <1>3, AtParts
      <3> HIDE DEF z
      <3>4. /\ Locked(z) /\ Seen(z, ready) /\ Current(z, journal', pending')
            /\ Proves(z, journal', pending')
        BY <1>3, <3>3 DEF Locked, Seen, Current, Proves, Engaged, Writing
      <3> USE DEF z
      <3> QED BY <1>1, <3>1, <3>2, <3>4, Going
    <2>3. CASE health = "HealthAttemptStarted"
      <3>1. job = [op |-> "write", snapshot |-> Follows(Opened)]
        BY <2>1, <2>3 DEF Write, Follows, Health
      <3>2. proc' = [proc EXCEPT ![p] =
                      [x EXCEPT !.pc = "work", !.revision = OpenedRevision,
                         !.then = "open",
                         !.todo = <<[op |-> "write", snapshot |-> Follows(Opened)]>>]]
        BY <1>5, <2>3, <3>1
      <3> HIDE DEF health
      <3> QED BY <1>1, <1>3, <1>5, <2>1, <2>3, <3>2, RecordsHealth
    <2> QED BY <1>5, <2>2, <2>3
  <1> QED BY <1>4, <1>5 DEF ConfirmHealth, At

LEMMA SeenGrows ==
    ASSUME NEW seen, NEW more, seen \subseteq more
    PROVE  /\ Snapshots(seen) \subseteq Snapshots(more)
           /\ Seq(Snapshots(seen)) \subseteq Seq(Snapshots(more))
           /\ File(seen) \subseteq File(more)
           /\ Process(seen) \subseteq Process(more)
  <1>1. Snapshots(seen) \subseteq Snapshots(more)
    BY DEF Snapshots, Sound, Proven
  <1>2. File(seen) \subseteq File(more)
    BY <1>1 DEF File
  <1>3. Jobs(seen) \subseteq Jobs(more)
    BY <1>1 DEF Jobs
  <1>4. \A S, T : S \subseteq T => Seq(S) \subseteq Seq(T)
    OBVIOUS
  <1>5. Seq(Jobs(seen)) \subseteq Seq(Jobs(more))
    BY <1>3, <1>4
  <1>6. Process(seen) \subseteq Process(more)
    BY <1>5 DEF Process
  <1> QED BY <1>1, <1>2, <1>4, <1>6

LEMMA BrowserReadyStep ==
    ASSUME IInv, NEW p \in Procs, BrowserReady(p)
    PROVE  IInv'
  <1> DEFINE x == proc[p]
             c == IF x.token = 0 THEN "open" ELSE "confirm"
             y == At(x, c)
  <1>1. /\ x.pc = "launch" /\ Goto(p, c)
        /\ ready' = ready \cup (IF x.token = 0 THEN {} ELSE {<<x.exe, x.token>>})
        /\ UNCHANGED <<journal, pending, forked, unpacked, helper>>
    BY DEF BrowserReady
  <1>2. x \in Process(ready) /\ Locked(x) /\ Proves(x, journal, pending)
    BY ProcParts
  <1>3. x.lock = "shared" /\ x.exe \in Releases
    BY <1>1, <1>2 DEF Locked, Process, Writing
  <1>4. c \in {"open", "confirm"} /\ (c = "confirm" => x.token # 0)
    OBVIOUS
  <1>5. /\ y.pc = c /\ y.exe = x.exe /\ y.lock = "shared" /\ y.token = x.token
        /\ y \in Process(ready)
    <2> HIDE DEF c
    <2> QED BY <1>2, <1>3, <1>4, AtParts DEF At, Process
  <1>6. proc' = [proc EXCEPT ![p] = y]
    BY <1>1 DEF Goto, At
  <1>7. /\ ready \subseteq ready'
        /\ ready' \in SUBSET (Releases \X (1 .. MaxGeneration))
        /\ x.token # 0 => <<x.exe, x.token>> \in ready'
    <2>1. x.token # 0 => <<x.exe, x.token>> \in Releases \X (1 .. MaxGeneration)
      BY <1>2, <1>3, BoundAssumption DEF Process
    <2> QED BY <1>1, <2>1 DEF IInv, Types
  <1> HIDE DEF c, y
  <1>8. \A q \in Procs : proc'[q] = IF q = p THEN y ELSE proc[q]
    BY <1>6 DEF IInv, Types
  <1>9. Types'
    <2>1. proc' \in [Procs -> Process(ready)]
      BY <1>5, <1>6 DEF IInv, Types
    <2>2. proc' \in [Procs -> Process(ready')]
      BY <1>7, <2>1, SeenGrows
    <2> QED BY <1>1, <1>7, <2>2, SeenGrows DEF IInv, Types
  <1>10. Disk' /\ Exclusion'
    <2>1. \A q \in Procs : proc'[q].lock = proc[q].lock
      BY <1>3, <1>5, <1>8
    <2> QED BY <1>1, <2>1 DEF IInv, Disk, Exclusion
  <1>11. Processes'
    <2> SUFFICES ASSUME NEW q \in Procs
                 PROVE  /\ Locked(proc'[q])
                        /\ Current(proc'[q], journal, pending)
                        /\ Proves(proc'[q], journal, pending)
                        /\ Seen(proc'[q], ready')
      BY <1>1 DEF Processes
    <2>1. CASE q = p
      <3>1. Locked(y) /\ Seen(y, ready') /\ Current(y, journal, pending)
        BY <1>3, <1>4, <1>5, <1>7 DEF Locked, Seen, Current, Writing
      <3>2. Proves(y, journal, pending)
        <4> SUFFICES ASSUME Engaged(y) PROVE Proves(y, journal, pending)
          BY DEF Proves
        <4>1. c = "confirm" /\ Engaged(x)
          BY <1>1, <1>3, <1>4, <1>5 DEF Engaged, Writing
        <4>2. \A n : Proving(x, n) = Proving(y, n)
          BY <1>5 DEF Proving
        <4> QED BY <1>1, <1>2, <1>5, <4>1, <4>2 DEF Proves, Writing
      <3> QED BY <1>8, <2>1, <3>1, <3>2
    <2>2. CASE q # p
      BY <1>7, <1>8, <2>2, ProcParts DEF Seen
    <2> QED BY <2>1, <2>2
  <1> QED BY <1>9, <1>10, <1>11 DEF IInv

-----------------------------------------------------------------------------
(* The theorems *)

LEMMA Initially == Init => IInv
  <1> SUFFICES ASSUME Init PROVE IInv
    OBVIOUS
  <1>1. Types
    <2>1. <<Snapshot(EmptyState, NoHandoff)>> \in Seq(Snapshots({}))
      BY EmptySound, TodoLists
    <2>2. Idle \in Process({})
      BY BoundAssumption DEF Idle, Process, Release
    <2> QED BY <2>1, <2>2 DEF Init, Types, File, Release
  <1>2. Disk /\ Exclusion
    BY DEF Init, Disk, Exclusion, Idle
  <1>3. Processes
    <2>1. /\ Idle.lock = "none" /\ Idle.pc = "idle"
      BY DEF Idle
    <2> QED BY <2>1 DEF Init, Processes, Locked, Current, Proves, Engaged, Seen, Writing
  <1> QED BY <1>1, <1>2, <1>3 DEF IInv

LEMMA StepKeeps == IInv /\ Next => IInv'
  <1> SUFFICES ASSUME IInv, Next PROVE IInv'
    OBVIOUS
  <1>1. PICK p \in Procs :
           \/ Step(p) \/ SpawnFails(p) \/ Crash(p) \/ HelperLost(p)
           \/ \E r \in Releases : \/ Prepare(p, r) \/ CompleteInstallation(p, r)
                                  \/ StartActivation(p, r) \/ OpenProfile(p, r)
    BY DEF Next
  <1>2. CASE Step(p)
    <2>1. CASE HelperStarts(p) \/ SpawnHelper(p)
      BY <2>1, HelperStartsStep, SpawnHelperStep
    <2>2. CASE CreatePending(p) \/ SyncPending(p) \/ Rename(p) \/ Reopen(p)
      BY <2>2, CreatePendingStep, SyncPendingStep, RenameStep, ReopenStep
    <2>3. CASE End(p) \/ BrowserFails(p) \/ Close(p)
      BY <2>3, EndingSteps
    <2>4. CASE RecoverOrResume(p) \/ Resolve(p) \/ Admit(p)
      BY <2>4, RecoverOrResumeStep, ResolveStep, AdmitStep
    <2>5. CASE StartHealth(p) \/ StartConfirmed(p) \/ BrowserReady(p) \/ ConfirmHealth(p)
      BY <2>5, StartHealthStep, StartConfirmedStep, BrowserReadyStep, ConfirmHealthStep
    <2> QED BY <1>2, <2>1, <2>2, <2>3, <2>4, <2>5 DEF Step
  <1>3. CASE SpawnFails(p) \/ Crash(p) \/ HelperLost(p)
    BY <1>3, EndingSteps, HelperLostStep
  <1>4. ASSUME NEW r \in Releases,
               \/ Prepare(p, r) \/ CompleteInstallation(p, r)
               \/ StartActivation(p, r) \/ OpenProfile(p, r)
        PROVE  IInv'
    BY <1>4, PrepareStep, CompleteInstallationStep, StartActivationStep, OpenProfileStep
  <1> QED BY <1>1, <1>2, <1>3, <1>4

LEMMA StutterKeeps == IInv /\ UNCHANGED vars => IInv'
  BY DEF vars, IInv, Types, Disk, Exclusion, Processes

\* The invariant holds however installer, commands, helpers and openings
\* interleave and wherever one of them dies.
THEOREM Invariance == Spec => []IInv
  <1>1. IInv /\ [Next]_vars => IInv'
    BY StepKeeps, StutterKeeps
  <1> QED BY Initially, <1>1, PTL DEF Spec

\* The journal of the delivery store never forks, and every snapshot that a
\* command or an opening sets out to write passes the store's own validation.
THEOREM JournalIsOne == Spec => []OneJournal
  <1>1. IInv => OneJournal
    <2> SUFFICES ASSUME IInv PROVE OneJournal
      OBVIOUS
    <2>1. ~forked
      BY DEF IInv, Disk
    <2>2. ASSUME NEW p \in Procs, NEW i \in DOMAIN proc[p].todo,
                 proc[p].todo[i].op = "write"
          PROVE  ValidSnapshot(proc[p].todo[i].snapshot)
      <3>1. proc[p].todo \in Seq(Jobs(ready))
        BY ProcParts DEF Process
      <3>2. proc[p].todo[i] \in Jobs(ready)
        BY <3>1
      <3>3. proc[p].todo[i].snapshot \in Snapshots(ready)
        BY <2>2, <3>2 DEF Jobs
      <3> QED BY <3>3 DEF Snapshots, Sound
    <2> QED BY <2>1, <2>2 DEF OneJournal
  <1> QED BY Invariance, <1>1, PTL

\* A release is called confirmed, healthy or known good only after a browser
\* of its own came up in one of its activations, for "Healthy" in that one.
THEOREM HealthIsProven == Spec => []HealthProven
  <1>1. IInv => HealthProven
    <2> SUFFICES ASSUME IInv PROVE HealthProven
      OBVIOUS
    <2>1. Proven(Latest.state, ready)
      BY OpenedSound, SoundParts
    <2> QED BY <2>1 DEF HealthProven, Proven
  <1> QED BY Invariance, <1>1, PTL

\* While the first browser of an activation starts, no installer, activation
\* or recovery takes the active release away from under it.
THEOREM AttemptStands == Spec => []AttemptNotSuperseded
  <1>1. IInv => AttemptNotSuperseded
    <2> SUFFICES ASSUME IInv, NEW p \in Procs, proc[p].token # 0,
                        proc[p].pc \in {"launch", "confirm"}
                 PROVE  /\ Latest.state.active = proc[p].exe
                        /\ Latest.state.generation = proc[p].token
                        /\ Latest.state.activation.outcome
                              \in {"HealthAttemptStarted", "Healthy"}
      BY DEF AttemptNotSuperseded
    <2>1. Engaged(proc[p]) /\ Proves(proc[p], journal, pending)
      BY ProcParts DEF Engaged, Locked, Writing, Process
    <2>2. /\ Proving(proc[p], Latest)
          /\ Latest.state.activation.outcome \in {"HealthAttemptStarted", "Healthy"}
      BY <2>1 DEF Proves, Latest
    <2> QED BY <2>2, ProvingParts
  <1> QED BY Invariance, <1>1, PTL

=============================================================================
