---------------------------- MODULE DevicePairing ----------------------------
(***************************************************************************)
(* How a Windows computer becomes a member's device, and the application   *)
(* sessions it then opens: the two Bridge commands the browser starts      *)
(* (pair/start and pair/complete), the device keys and the one binding     *)
(* file they keep on the computer, the control plane's pairing, challenge, *)
(* binding and session rows with their triggers, the tenant owner who      *)
(* revokes meanwhile, and the check every later request of the Bridge has  *)
(* to pass.                                                                *)
(*                                                                         *)
(* One tenant.  Every statement sent to D1 is one step, and so is every    *)
(* call that changes the key store or the binding file.  Times are left    *)
(* out: a row is live until it expires, at any moment.  A handler reads    *)
(* its clock once, before its first statement, so what was live when it    *)
(* read is still live for its write.                                       *)
(***************************************************************************)
EXTENDS Naturals, Sequences, FiniteSets

CONSTANTS
    Actors,         \* members of the tenant
    Machines,       \* computers with an installed Bridge
    Devices,        \* device ids the pages may have drawn
    MachineOf,      \* the computer whose browser drew each device id
    Slots,          \* pairing tokens in use at a time
    Procs,          \* Bridge processes, with the requests they sent
    NoActor,        \* authorized_actor_id IS NULL
    NoFile,         \* no binding file
    Torn,           \* a binding file that does not parse
    MaxVersion,     \* bound: bindings of one actor
    MaxFaults,      \* bound: lost replies, deaths, deadlines missed
    MaxChanges      \* bound: acts of the tenant owner

ASSUME PairingAssumption ==
    /\ MachineOf \in [Devices -> Machines]
    /\ NoActor \notin Actors
    /\ NoFile # Torn
    /\ MaxVersion \in Nat /\ MaxFaults \in Nat /\ MaxChanges \in Nat

VARIABLES
    active,      \* memberships.status = 'ACTIVE'
    epoch,       \* device_user_authorization_state.auth_epoch, 0 without a row
    bindings,    \* device_actor_bindings of each actor, in order of version
    pairing,     \* device_pairing_transactions with their one challenge
    sessions,    \* device_application_sessions neither revoked nor expired
    keystore,    \* the CNG key of each device id, 0 without one
    drawn,       \* keys created so far
    file,        \* the binding file of each computer
    held,        \* the application session the Bridge keeps in memory
    proc,        \* Bridge processes
    faults,      \* failures so far
    changes      \* acts of the tenant owner so far

server == <<active, epoch, bindings, pairing, sessions>>
computer == <<keystore, drawn, file, held>>
vars == <<server, computer, proc, faults, changes>>

-----------------------------------------------------------------------------
(* State *)

\* A certificate of the governed bind command: not a P-256 key.
Certificate == 0

Keys == 1..(MaxFaults + Cardinality(Devices))

\* A binding's version is its place in the sequence.
Binding(d, k) == [device |-> d, key |-> k, active |-> TRUE]

Session(a, v, e) == [actor |-> a, version |-> v, epoch |-> e]

NoSession == Session(NoActor, 0, 0)

NoPairing == [live |-> FALSE]

Idle == [pc |-> "idle"]

Usable(p) == pairing[p] # NoPairing /\ pairing[p].live /\ ~pairing[p].consumed

Refers(q, p) == proc[q].pc \in {"created", "complete", "write"} /\ proc[q].p = p

Referred(p) == \E q \in Procs : Refers(q, p)

\* A token slot that can stand for another transaction.
Free(p) == ~Usable(p) /\ ~Referred(p)

Readable(m) == file[m] \notin {NoFile, Torn}

\* The latest version of every actor is the only one that can be active.
Latest(a) == Len(bindings[a])

ActiveVersion(a, v) == v \in 1..Latest(a) /\ bindings[a][v].active

\* A session as every read of it checks it: the membership, the epoch and
\* the binding version it was issued for are all still in force.
Backed(s) ==
    /\ s.actor \in Actors
    /\ active[s.actor]
    /\ epoch[s.actor] = s.epoch
    /\ ActiveVersion(s.actor, s.version)
    /\ bindings[s.actor][s.version].key # Certificate

\* LOAD_ACTIVE_DEVICE: the rows a device id resolves to.
ActiveDevice(d) ==
    {r \in Actors \X (1..MaxVersion) :
        /\ active[r[1]] /\ epoch[r[1]] > 0
        /\ ActiveVersion(r[1], r[2])
        /\ bindings[r[1]][r[2]].device = d
        /\ bindings[r[1]][r[2]].key # Certificate}

Init ==
    /\ active = [a \in Actors |-> TRUE]
    /\ epoch = [a \in Actors |-> 0]
    /\ bindings = [a \in Actors |-> <<>>]
    /\ pairing = [p \in Slots |-> NoPairing]
    /\ sessions = {}
    /\ keystore = [d \in Devices |-> 0]
    /\ drawn = 0
    /\ file = [m \in Machines |-> NoFile]
    /\ held = [m \in Machines |-> NoSession]
    /\ proc = [q \in Procs |-> Idle]
    /\ faults = 0
    /\ changes = 0

-----------------------------------------------------------------------------
(* pair/start *)

\* The Bridge finds no binding file and opens the key of the device id the
\* page drew, or creates it.
StartOpen(q, d) ==
    /\ proc[q] = Idle
    /\ \E p \in Slots : Free(p)
    /\ file[MachineOf[d]] = NoFile
    /\ LET made == keystore[d] = 0
           k == IF made THEN drawn + 1 ELSE keystore[d]
       IN /\ k \in Keys
          /\ keystore' = [keystore EXCEPT ![d] = k]
          /\ drawn' = IF made THEN k ELSE drawn
          /\ proc' = [proc EXCEPT ![q] =
                        [pc |-> "create", d |-> d, key |-> k, made |-> made]]
    /\ UNCHANGED <<server, file, held, faults, changes>>

\* The control plane stores the transaction under a token nobody has yet.
CreatePairing(q) ==
    /\ proc[q].pc = "create"
    /\ \E p \in Slots :
        /\ Free(p)
        /\ pairing' = [pairing EXCEPT ![p] =
             [device |-> proc[q].d, key |-> proc[q].key, actor |-> NoActor,
              consumed |-> FALSE, live |-> TRUE, opened |-> FALSE, link |-> FALSE]]
        /\ proc' = [proc EXCEPT ![q] =
             [pc |-> "created", d |-> proc[q].d, key |-> proc[q].key,
              made |-> proc[q].made, p |-> p]]
    /\ UNCHANGED <<active, epoch, bindings, sessions, computer, faults, changes>>

\* The token arrives and the browser opens the page that authorizes it.
StartReturns(q) ==
    /\ proc[q].pc = "created"
    /\ pairing[proc[q].p].live
    /\ pairing' = [pairing EXCEPT ![proc[q].p].opened = TRUE]
    /\ proc' = [proc EXCEPT ![q] = Idle]
    /\ UNCHANGED <<active, epoch, bindings, sessions, computer, faults, changes>>

\* A failed start takes its key back if it created it.
EndStart(q) ==
    /\ keystore' = IF proc[q].made THEN [keystore EXCEPT ![proc[q].d] = 0]
                                   ELSE keystore
    /\ proc' = [proc EXCEPT ![q] = Idle]
    /\ UNCHANGED <<server, drawn, file, held, changes>>

\* The request or its reply is lost, or the browser does not open.
StartFails(q) ==
    /\ proc[q].pc \in {"create", "created"}
    /\ faults < MaxFaults
    /\ faults' = faults + 1
    /\ EndStart(q)

\* The reply comes when the pairing has already expired.
StartTooLate(q) ==
    /\ proc[q].pc = "created"
    /\ ~pairing[proc[q].p].live
    /\ EndStart(q)
    /\ UNCHANGED faults

-----------------------------------------------------------------------------
(* The page *)

\* A signed-in member authorizes the pairing; the same batch stores the
\* challenge.  The link that finishes the pairing needs the reply.
Authorize(p, a, replied) ==
    /\ Usable(p) /\ pairing[p].opened
    /\ pairing[p].actor = NoActor
    /\ active[a]
    /\ replied \/ faults < MaxFaults
    /\ faults' = IF replied THEN faults ELSE faults + 1
    /\ epoch' = [epoch EXCEPT ![a] = IF @ = 0 THEN 1 ELSE @]
    /\ pairing' = [pairing EXCEPT ![p].actor = a, ![p].link = replied]
    /\ UNCHANGED <<active, bindings, sessions, computer, proc, changes>>

\* The link would still bind the computer.
Pressable(p) ==
    /\ Usable(p) /\ pairing[p].link
    /\ file[MachineOf[pairing[p].device]] = NoFile
    /\ keystore[pairing[p].device] = pairing[p].key

\* Five minutes after the pairing, or one after the challenge; a fault when a
\* request or the person at the page was too slow.  No statement finds the
\* row again once the last request that names it has ended.
ExpirePairing(p) ==
    /\ pairing[p].live
    /\ LET late == Referred(p) \/ Pressable(p)
       IN /\ late => faults < MaxFaults
          /\ faults' = IF late THEN faults + 1 ELSE faults
    /\ pairing' = IF Referred(p) THEN [pairing EXCEPT ![p].live = FALSE]
                                 ELSE [pairing EXCEPT ![p] = NoPairing]
    /\ UNCHANGED <<active, epoch, bindings, sessions, computer, proc, changes>>

-----------------------------------------------------------------------------
(* pair/complete *)

\* A mutant: the binding file is written before the completion is sent.
FinishSavesFirst(q, p) ==
    /\ proc[q] = Idle
    /\ pairing[p] # NoPairing /\ pairing[p].live /\ pairing[p].link
    /\ LET d == pairing[p].device
       IN /\ file[MachineOf[d]] = NoFile
          /\ keystore[d] # 0
          /\ file' = [file EXCEPT ![MachineOf[d]] =
                        [actor |-> pairing[p].actor, device |-> d]]
          /\ proc' = [proc EXCEPT ![q] =
               [pc |-> "complete", p |-> p, d |-> d, key |-> keystore[d],
                waits |-> TRUE]]
    /\ UNCHANGED <<server, keystore, drawn, held, faults, changes>>

\* The Bridge finds no binding file, the challenge unexpired and the key in
\* the store, signs and sends.
FinishOpen(q, p) ==
    /\ proc[q] = Idle
    /\ pairing[p] # NoPairing /\ pairing[p].live /\ pairing[p].link
    /\ LET d == pairing[p].device
       IN /\ file[MachineOf[d]] = NoFile
          /\ keystore[d] # 0
          /\ proc' = [proc EXCEPT ![q] =
               [pc |-> "complete", p |-> p, d |-> d, key |-> keystore[d],
                waits |-> TRUE]]
    /\ UNCHANGED <<server, computer, faults, changes>>

\* LOAD_PAIRING_PROOF and the signature: what the write will compare with.
ProofAccepted(q) ==
    LET r == pairing[proc[q].p]
    IN /\ r.live /\ ~r.consumed
       /\ active[r.actor] /\ epoch[r.actor] > 0
       /\ r.key = proc[q].key

CompleteRead(q) ==
    /\ proc[q].pc = "complete"
    /\ LET a == pairing[proc[q].p].actor
       IN proc' = [proc EXCEPT ![q] =
            IF ProofAccepted(q)
            THEN [pc |-> "write", p |-> @.p, d |-> @.d, key |-> @.key,
                  waits |-> @.waits, prev |-> Latest(a), ep |-> epoch[a]]
            ELSE Idle]
    /\ UNCHANGED <<server, computer, faults, changes>>

\* The row a binding update or a revocation takes its sessions with.
RevokeActive(a) == [v \in 1..Latest(a) |-> [bindings[a][v] EXCEPT !.active = FALSE]]

\* A mutant: the trigger that revokes the sessions is missing.
SessionsSurvive(a) == {}

SessionsOfActive(a) ==
    {s \in sessions : s.actor = a /\ ActiveVersion(a, s.version)}

\* A mutant: the unique index over active keys is missing.
AdmittedSharedKey(q) ==
    LET r == pairing[proc[q].p]
    IN /\ ~r.consumed
       /\ active[r.actor]
       /\ epoch[r.actor] = proc[q].ep
       /\ Latest(r.actor) = proc[q].prev

CompletionAdmitted(q) ==
    LET r == pairing[proc[q].p]
    IN /\ ~r.consumed
       /\ active[r.actor]
       /\ epoch[r.actor] = proc[q].ep
       /\ Latest(r.actor) = proc[q].prev
       /\ \A b \in Actors \ {r.actor} : \A v \in 1..Latest(b) :
            ~(bindings[b][v].active /\ bindings[b][v].key = r.key)

Spent(p) == [pairing EXCEPT ![p].consumed = TRUE]

\* The completion command with its triggers: the former binding revoked with
\* its sessions, the new one published, the pairing spent, a session issued.
CompleteWrite(q) ==
    /\ proc[q].pc = "write"
    /\ LET p == proc[q].p
           r == pairing[p]
           a == r.actor
       IN IF CompletionAdmitted(q)
          THEN /\ proc[q].prev < MaxVersion
               /\ bindings' = [bindings EXCEPT ![a] =
                     Append(RevokeActive(a), Binding(r.device, r.key))]
               /\ pairing' = Spent(p)
               /\ sessions' = (sessions \ SessionsOfActive(a))
                     \union {Session(a, proc[q].prev + 1, proc[q].ep)}
               /\ proc' = [proc EXCEPT ![q] =
                     IF proc[q].waits
                     THEN [pc |-> "persist", d |-> r.device, a |-> a]
                     ELSE Idle]
          ELSE /\ proc' = [proc EXCEPT ![q] = Idle]
               /\ UNCHANGED <<bindings, pairing, sessions>>
    /\ UNCHANGED <<active, epoch, computer, faults, changes>>

\* The reply arrived: the binding file is created, never overwritten.
Persist(q) ==
    /\ proc[q].pc = "persist"
    /\ LET m == MachineOf[proc[q].d]
       IN file' = [file EXCEPT ![m] =
            IF @ = NoFile THEN [actor |-> proc[q].a, device |-> proc[q].d] ELSE @]
    /\ proc' = [proc EXCEPT ![q] = Idle]
    /\ UNCHANGED <<server, keystore, drawn, held, faults, changes>>

\* curl gives up after twenty seconds; the control plane goes on.
GiveUp(q) ==
    /\ proc[q].pc \in {"complete", "write"} /\ proc[q].waits
    /\ faults < MaxFaults
    /\ faults' = faults + 1
    /\ proc' = [proc EXCEPT ![q].waits = FALSE]
    /\ UNCHANGED <<server, computer, changes>>

\* The process dies or its reply is lost; while it writes the binding file
\* it may leave a part of it.
Dies(q) ==
    /\ proc[q].pc \in {"create", "created", "persist"}
    /\ faults < MaxFaults
    /\ faults' = faults + 1
    /\ proc' = [proc EXCEPT ![q] = Idle]
    /\ LET m == MachineOf[proc[q].d]
       IN \/ UNCHANGED file
          \/ /\ proc[q].pc = "persist" /\ file[m] = NoFile
             /\ file' = [file EXCEPT ![m] = Torn]
    /\ UNCHANGED <<server, keystore, drawn, held, changes>>

-----------------------------------------------------------------------------
(* Application sessions *)

\* The Bridge asks for a challenge for the device of its file.  The device
\* resolves to one binding or to none; the insertion checks it again, so the
\* two statements act as one.
RenewChallenge(q, m) ==
    /\ proc[q] = Idle
    /\ Readable(m) /\ keystore[file[m].device] # 0
    /\ \E r \in ActiveDevice(file[m].device) :
        /\ ActiveDevice(file[m].device) = {r}
        /\ proc' = [proc EXCEPT ![q] =
             [pc |-> "renew", m |-> m, a |-> r[1], v |-> r[2],
              signer |-> file[m].actor, key |-> keystore[file[m].device]]]
    /\ UNCHANGED <<server, computer, faults, changes>>

\* LOAD_SESSION_PROOF and the signature over the actor the file names.
RenewRead(q) ==
    /\ proc[q].pc = "renew"
    /\ LET a == proc[q].a
           v == proc[q].v
       IN proc' = [proc EXCEPT ![q] =
            IF /\ active[a] /\ ActiveVersion(a, v)
               /\ @.signer = a /\ @.key = bindings[a][v].key
            THEN [pc |-> "renewWrite", m |-> @.m, s |-> Session(a, v, epoch[a])]
            ELSE Idle]
    /\ UNCHANGED <<server, computer, faults, changes>>

RenewalAdmitted(s) == Backed(s)

\* The renewal command with its triggers.
RenewWrite(q) ==
    /\ proc[q].pc = "renewWrite"
    /\ LET s == proc[q].s
       IN IF RenewalAdmitted(s)
          THEN /\ sessions' = sessions \union {s}
               /\ proc' = [proc EXCEPT ![q] = [pc |-> "hold", m |-> @.m, s |-> s]]
          ELSE /\ proc' = [proc EXCEPT ![q] = Idle]
               /\ UNCHANGED sessions
    /\ UNCHANGED <<active, epoch, bindings, pairing, computer, faults, changes>>

\* The token arrives, or not.
RenewReturns(q) ==
    /\ proc[q].pc = "hold"
    /\ \/ held' = [held EXCEPT ![proc[q].m] = proc[q].s] /\ UNCHANGED faults
       \/ faults < MaxFaults /\ faults' = faults + 1 /\ UNCHANGED held
    /\ proc' = [proc EXCEPT ![q] = Idle]
    /\ UNCHANGED <<server, keystore, drawn, file, changes>>

ExpireSession(s) ==
    /\ s \in sessions
    /\ sessions' = sessions \ {s}
    /\ UNCHANGED <<active, epoch, bindings, pairing, computer, proc, faults, changes>>

\* A later request of the Bridge: the session is resolved first ...
RequestRead(q, m) ==
    /\ proc[q] = Idle
    /\ Readable(m) /\ keystore[file[m].device] # 0
    /\ held[m] \in sessions /\ Backed(held[m])
    /\ proc' = [proc EXCEPT ![q] =
         [pc |-> "device", s |-> held[m], key |-> keystore[file[m].device]]]
    /\ UNCHANGED <<server, computer, faults, changes>>

\* A mutant: only the member is compared.
SameMember(s, r) == r[1] = s.actor

\* ... then the device of the session, and the two are compared.
SameAuthority(s, r) ==
    /\ r[1] = s.actor
    /\ r[2] = s.version
    /\ epoch[r[1]] = s.epoch

\* The request is granted, or refused, as of this statement: the check of its
\* signature (bridge_machine.rs:107) waits once more, but reads nothing.
RequestDevice(q) ==
    /\ proc[q].pc = "device"
    /\ LET s == proc[q].s
           d == bindings[s.actor][s.version].device
           granted == \E r \in ActiveDevice(d) :
                        /\ ActiveDevice(d) = {r}
                        /\ SameAuthority(s, r)
                        /\ bindings[r[1]][r[2]].key = proc[q].key
       IN proc' = [proc EXCEPT ![q] =
            IF granted THEN [pc |-> "granted", s |-> s] ELSE Idle]
    /\ UNCHANGED <<server, computer, faults, changes>>

\* The request is served as the device it was granted for.
RequestServed(q) ==
    /\ proc[q].pc = "granted"
    /\ proc' = [proc EXCEPT ![q] = Idle]
    /\ UNCHANGED <<server, computer, faults, changes>>

-----------------------------------------------------------------------------
(* The tenant owner *)

Change ==
    /\ changes < MaxChanges
    /\ changes' = changes + 1

\* A member is suspended or revoked: the epoch moves, the binding and every
\* session of the member go.
Suspend(a) ==
    /\ Change
    /\ active[a]
    /\ active' = [active EXCEPT ![a] = FALSE]
    /\ epoch' = [epoch EXCEPT ![a] = IF @ = 0 THEN 0 ELSE @ + 1]
    /\ bindings' = [bindings EXCEPT ![a] = RevokeActive(a)]
    /\ sessions' = {s \in sessions : s.actor # a}
    /\ UNCHANGED <<pairing, computer, proc, faults>>

Reinstate(a) ==
    /\ Change
    /\ ~active[a]
    /\ active' = [active EXCEPT ![a] = TRUE]
    /\ UNCHANGED <<epoch, bindings, pairing, sessions, computer, proc, faults>>

\* device.binding.revoke, naming the latest version.
RevokeBinding(a) ==
    /\ Change
    /\ Latest(a) > 0 /\ bindings[a][Latest(a)].active
    /\ bindings' = [bindings EXCEPT ![a] = RevokeActive(a)]
    /\ sessions' = sessions \ SessionsOfActive(a)
    /\ UNCHANGED <<active, epoch, pairing, computer, proc, faults>>

\* device.binding.bind: a certificate takes the place of the key.
BindCertificate(a, d) ==
    /\ Change
    /\ active[a]
    /\ Latest(a) < MaxVersion
    /\ bindings' = [bindings EXCEPT ![a] = Append(RevokeActive(a), Binding(d, Certificate))]
    /\ sessions' = sessions \ SessionsOfActive(a)
    /\ UNCHANGED <<active, epoch, pairing, computer, proc, faults>>

-----------------------------------------------------------------------------
(* The specification *)

Start(q) ==
    \/ \E d \in Devices : StartOpen(q, d)
    \/ CreatePairing(q)
    \/ StartReturns(q)
    \/ StartFails(q)
    \/ StartTooLate(q)

Complete(q) ==
    \/ \E p \in Slots : FinishOpen(q, p)
    \/ CompleteRead(q)
    \/ CompleteWrite(q)
    \/ Persist(q)
    \/ GiveUp(q)
    \/ Dies(q)

Renew(q) ==
    \/ \E m \in Machines : RenewChallenge(q, m)
    \/ RenewRead(q)
    \/ RenewWrite(q)
    \/ RenewReturns(q)

Ask(q) ==
    \/ \E m \in Machines : RequestRead(q, m)
    \/ RequestDevice(q)
    \/ RequestServed(q)

Page(p) ==
    \/ \E a \in Actors, replied \in BOOLEAN : Authorize(p, a, replied)
    \/ ExpirePairing(p)

Govern(a) ==
    \/ Suspend(a)
    \/ Reinstate(a)
    \/ RevokeBinding(a)
    \/ \E d \in Devices : BindCertificate(a, d)

Next ==
    \/ \E q \in Procs : Start(q) \/ Complete(q) \/ Renew(q) \/ Ask(q)
    \/ \E p \in Slots : Page(p)
    \/ \E s \in sessions : ExpireSession(s)
    \/ \E a \in Actors : Govern(a)

Spec == Init /\ [][Next]_vars

\* What a started command or request still has to do.
Proceed(q) ==
    \/ CreatePairing(q) \/ StartReturns(q) \/ StartTooLate(q)
    \/ CompleteRead(q) \/ CompleteWrite(q) \/ Persist(q)
    \/ RenewRead(q) \/ RenewWrite(q) \/ RenewReturns(q)
    \/ RequestDevice(q) \/ RequestServed(q)

\* Processes and handlers go on and time passes.  A person who wants the
\* computer connected follows the page: starts again, authorizes what the
\* page shows and presses its link, not always too late.
FairSpec ==
    /\ Spec
    /\ \A q \in Procs : WF_vars(Proceed(q))
    /\ \A m \in Machines :
        SF_vars(\E q \in Procs, d \in Devices : MachineOf[d] = m /\ StartOpen(q, d))
    /\ \A p \in Slots :
        /\ SF_vars(ExpirePairing(p))
        /\ SF_vars(\E a \in Actors : Authorize(p, a, TRUE))
        /\ SF_vars(\E q \in Procs : FinishOpen(q, p))

-----------------------------------------------------------------------------
(* Properties *)

Pcs == {"idle", "create", "created", "complete", "write", "persist", "renew",
        "renewWrite", "hold", "device", "granted"}

SessionType == [actor : Actors, version : 1..MaxVersion, epoch : 1..(MaxChanges + 1)]

\* The rows, keys and files have the shape the schema and the code give them.
TypeOK ==
    /\ active \in [Actors -> BOOLEAN]
    /\ epoch \in [Actors -> 0..(MaxChanges + 1)]
    /\ \A a \in Actors :
        /\ Latest(a) <= MaxVersion
        /\ \A v \in 1..Latest(a) :
            bindings[a][v] \in
                [device : Devices, key : Keys \union {Certificate}, active : BOOLEAN]
    /\ \A p \in Slots : pairing[p] # NoPairing =>
        pairing[p] \in [device : Devices, key : Keys, actor : Actors \union {NoActor},
                        consumed : BOOLEAN, live : BOOLEAN, opened : BOOLEAN,
                        link : BOOLEAN]
    /\ sessions \subseteq SessionType
    /\ keystore \in [Devices -> Keys \union {0}]
    /\ drawn \in Keys \union {0}
    /\ \A m \in Machines :
        /\ Readable(m) => file[m] \in [actor : Actors, device : Devices]
        /\ held[m] \in SessionType \union {NoSession}
    /\ \A q \in Procs : proc[q].pc \in Pcs
    /\ faults \in 0..MaxFaults
    /\ changes \in 0..MaxChanges

\* No application session outlives the authority it was issued under: the
\* triggers of device_actor_bindings and memberships end it with the binding
\* version, with the membership and with the epoch, whatever pairing,
\* renewal or revocation was under way.
SessionsBacked == \A s \in sessions : Backed(s)

\* Only the newest binding of a member can be active, and no device key is
\* active for two members: two pairings completed at once, a repeated
\* completion and a certificate bound meanwhile leave one authority.
OneAuthority ==
    /\ \A a \in Actors : \A v \in 1..Latest(a) :
        bindings[a][v].active => v = Latest(a)
    /\ \A a, b \in Actors : \A v \in 1..Latest(a), w \in 1..Latest(b) :
        /\ bindings[a][v].active /\ bindings[b][w].active
        /\ bindings[a][v].key = bindings[b][w].key
        /\ bindings[a][v].key # Certificate
        => a = b

\* A binding file names a member and a device the control plane bound to
\* each other: the Bridge never reports a connection that a failed or lost
\* completion did not make.
StoredBindingWasMade ==
    \A m \in Machines : Readable(m) =>
        \E v \in 1..Latest(file[m].actor) :
            /\ bindings[file[m].actor][v].device = file[m].device
            /\ bindings[file[m].actor][v].key # Certificate

\* A member's authorization binds one key once: of all completions sent with
\* one link, in whatever order they are read and written, one publishes a
\* binding, and it is the key and the device that the link's page showed.
AuthorizationSpentOnce ==
    [][\A a \in Actors :
        /\ Len(bindings'[a]) > Latest(a)
        /\ bindings'[a][Len(bindings'[a])].key # Certificate
        => \E p \in Slots :
            /\ pairing[p] # NoPairing /\ ~pairing[p].consumed
            /\ pairing[p].actor = a
            /\ pairing'[p].consumed
            /\ bindings'[a][Len(bindings'[a])] =
                 Binding(pairing[p].device, pairing[p].key)]_vars

\* Resolving the session and then the device is as good as one read: when a
\* request is granted, its session is still backed at that moment, although
\* a revocation or a new pairing may have come between the two reads.
GrantedWhileBacked ==
    [][\A q \in Procs :
        proc[q].pc # "granted" /\ proc'[q].pc = "granted" => Backed(proc[q].s)]_vars

\* The computer holds what its file names: an active binding and its key.
Connected(m) ==
    /\ Readable(m)
    /\ LET a == file[m].actor
           d == file[m].device
       IN /\ Latest(a) > 0 /\ bindings[a][Latest(a)].active
          /\ bindings[a][Latest(a)].device = d
          /\ bindings[a][Latest(a)].key = keystore[d]

\* A computer somebody wants connected ends up connected, through lost
\* replies, dead processes and expired links, unless a process died inside
\* the write of the binding file: no abandoned attempt locks the device key
\* or the member out of a new pairing.
ConnectCompletes ==
    \A m \in Machines : <>[](Connected(m) \/ file[m] = Torn)

\* docs/UI_ARCHITECTURE.md:114 says of a computer with a saved binding that
\* a repeated "Connect this computer" returns its existing device id, without
\* a new key or pairing.  The return signs with the device key.
SavedBindingReturns ==
    \A m \in Machines : Readable(m) => keystore[file[m].device] # 0

\* docs/UI_ARCHITECTURE.md:113: connect once, then open profiles.  With one
\* computer, no revocation and its key in place, a saved binding is the one
\* the control plane holds active.
ConnectedOnce ==
    \A m \in Machines :
        Readable(m) /\ keystore[file[m].device] # 0 => Connected(m)
=============================================================================
