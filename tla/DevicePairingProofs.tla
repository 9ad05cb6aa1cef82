------------------------- MODULE DevicePairingProofs -------------------------
(***************************************************************************)
(* For any number of members, computers, device ids, tokens and Bridge     *)
(* processes: who may act for a member, and for how long.                  *)
(***************************************************************************)
EXTENDS DevicePairing, TLAPS

-----------------------------------------------------------------------------
(* The inductive invariant *)

BindingRow == [device : Devices, key : Nat, active : BOOLEAN]

PairingRow ==
    [device : Devices, key : Keys, actor : Actors \union {NoActor},
     consumed : BOOLEAN, live : BOOLEAN, opened : BOOLEAN, link : BOOLEAN]

Completing ==
    [pc : {"complete"}, p : Slots, d : Devices, key : Nat, waits : BOOLEAN]

Writing ==
    [pc : {"write"}, p : Slots, d : Devices, key : Nat, waits : BOOLEAN,
     prev : Nat, ep : Nat \ {0}]

Types ==
    /\ active \in [Actors -> BOOLEAN]
    /\ epoch \in [Actors -> Nat]
    /\ bindings \in [Actors -> Seq(BindingRow)]
    /\ pairing \in [Slots -> PairingRow \union {NoPairing}]
    /\ keystore \in [Devices -> Nat]
    /\ proc = [q \in Procs |-> proc[q]]

\* What a command under way remembers is right about rows that cannot change
\* under it.
CallOK(x) ==
    /\ x.pc = "create" => x.key \in Keys /\ x.d \in Devices
    /\ x.pc = "created" => x.p \in Slots /\ pairing[x.p] # NoPairing /\ x.d \in Devices
    /\ x.pc = "complete" => x \in Completing
    /\ x.pc = "write" => x \in Writing
    /\ x.pc \in {"complete", "write"} =>
        pairing[x.p] # NoPairing /\ pairing[x.p].actor \in Actors

Calls == \A q \in Procs : CallOK(proc[q])

\* A page shows the finishing link only to the member who authorized it.
LinksAuthorized ==
    \A p \in Slots : pairing[p] # NoPairing /\ pairing[p].link => pairing[p].actor \in Actors

\* A member with a device key has an authorization epoch.
KeyedMembers ==
    \A a \in Actors : \A v \in 1..Latest(a) :
        bindings[a][v].key # Certificate => epoch[a] > 0

IInv ==
    /\ Types /\ Calls /\ LinksAuthorized /\ KeyedMembers
    /\ OneAuthority /\ SessionsBacked

-----------------------------------------------------------------------------
(* Rows *)

\* A device key is a number other than the mark of a certificate.
LEMMA KeysAreKeys == \A k \in Keys : k \in Nat /\ k # Certificate
  BY DEF Keys, Certificate

\* No pairing row is the absent one.
LEMMA RowIsThere == \A r \in PairingRow : r # NoPairing
  <1> SUFFICES ASSUME NEW r \in PairingRow, r = NoPairing PROVE FALSE
    OBVIOUS
  <1>1. "key" \in DOMAIN r
    BY DEF PairingRow
  <1>2. DOMAIN NoPairing = {"live"}
    BY DEF NoPairing
  <1> QED
    BY <1>1, <1>2

\* The update that revokes a member's active binding changes nothing else.
LEMMA Revoked ==
  ASSUME Types, NEW a \in Actors
  PROVE  /\ RevokeActive(a) \in Seq(BindingRow)
         /\ Len(RevokeActive(a)) = Latest(a)
         /\ Latest(a) \in Nat
         /\ \A v \in 1..Latest(a) :
              /\ RevokeActive(a)[v].active = FALSE
              /\ RevokeActive(a)[v].key = bindings[a][v].key
              /\ RevokeActive(a)[v].device = bindings[a][v].device
  <1>1. bindings[a] \in Seq(BindingRow) /\ Latest(a) \in Nat
    BY DEF Types, Latest
  <1>2. \A v \in 1..Latest(a) : bindings[a][v] \in BindingRow
    BY <1>1 DEF Latest
  <1>3. \A v \in 1..Latest(a) :
            [bindings[a][v] EXCEPT !.active = FALSE] \in BindingRow
    BY <1>2 DEF BindingRow
  <1>4. RevokeActive(a) \in [1..Latest(a) -> BindingRow]
    BY <1>3 DEF RevokeActive
  <1>5. RevokeActive(a) \in Seq(BindingRow) /\ Len(RevokeActive(a)) = Latest(a)
    BY <1>1, <1>4
  <1>6. ASSUME NEW v \in 1..Latest(a)
        PROVE  /\ RevokeActive(a)[v].active = FALSE
               /\ RevokeActive(a)[v].key = bindings[a][v].key
               /\ RevokeActive(a)[v].device = bindings[a][v].device
    BY <1>2 DEF RevokeActive, BindingRow
  <1> QED
    BY <1>1, <1>5, <1>6

\* Publishing a binding adds one active version after the revoked ones.
LEMMA Published ==
  ASSUME Types, NEW a \in Actors, NEW b \in BindingRow
  PROVE  LET s == Append(RevokeActive(a), b)
         IN /\ s \in Seq(BindingRow)
            /\ Len(s) = Latest(a) + 1
            /\ s[Latest(a) + 1] = b
            /\ \A v \in 1..Latest(a) :
                 /\ s[v].active = FALSE
                 /\ s[v].key = bindings[a][v].key
                 /\ s[v].device = bindings[a][v].device
  <1> DEFINE R == RevokeActive(a)
  <1>1. R \in Seq(BindingRow) /\ Len(R) = Latest(a) /\ Latest(a) \in Nat
    BY Revoked
  <1>2. \A v \in 1..Latest(a) : Append(R, b)[v] = R[v]
    BY <1>1
  <1>3. Append(R, b) \in Seq(BindingRow) /\ Len(Append(R, b)) = Latest(a) + 1
        /\ Append(R, b)[Latest(a) + 1] = b
    BY <1>1
  <1> QED
    BY <1>2, <1>3, Revoked

-----------------------------------------------------------------------------
(* What steps leave alone *)

\* The rows of members and bindings stay, and no session is added.
LEMMA AuthorityKept ==
  ASSUME IInv, UNCHANGED <<active, epoch, bindings>>, sessions' \subseteq sessions
  PROVE  KeyedMembers' /\ OneAuthority' /\ SessionsBacked'
  <1>1. KeyedMembers' /\ OneAuthority'
    BY DEF IInv, KeyedMembers, OneAuthority, Latest
  <1>2. SessionsBacked'
    BY DEF IInv, SessionsBacked, Backed, ActiveVersion, Latest
  <1> QED
    BY <1>1, <1>2

\* A command that goes on changes no other command.
LEMMA OtherCalls ==
  ASSUME Types, NEW q \in Procs, NEW x, proc' = [proc EXCEPT ![q] = x]
  PROVE  /\ proc' = [r \in Procs |-> proc'[r]]
         /\ proc'[q] = x
         /\ \A r \in Procs \ {q} : proc'[r] = proc[r]
  BY DEF Types

\* A step of one command that changes no row of the control plane.
LEMMA LocalStep ==
  ASSUME IInv, NEW q \in Procs, NEW x, proc' = [proc EXCEPT ![q] = x],
         UNCHANGED server, keystore' \in [Devices -> Nat], CallOK(x)
  PROVE  IInv'
  <1>1. KeyedMembers' /\ OneAuthority' /\ SessionsBacked'
    BY AuthorityKept DEF server
  <1>2. Types'
    BY OtherCalls DEF IInv, Types, server
  <1>3. Calls'
    BY OtherCalls DEF IInv, Calls, CallOK, server
  <1>4. LinksAuthorized'
    BY DEF IInv, LinksAuthorized, server
  <1> QED
    BY <1>1, <1>2, <1>3, <1>4 DEF IInv

\* Commands that no longer name a pairing, or not yet.
LEMMA PlainCall ==
  ASSUME NEW x, x.pc \notin {"create", "created", "complete", "write"}
  PROVE  CallOK(x)
  BY DEF CallOK

\* Opening or creating the key of a device id.
LEMMA StartOpenInv ==
  ASSUME IInv, NEW q \in Procs, NEW d \in Devices, StartOpen(q, d)
  PROVE  IInv'
  <1> DEFINE made == keystore[d] = 0
             k == IF made THEN drawn + 1 ELSE keystore[d]
             x == [pc |-> "create", d |-> d, key |-> k, made |-> made]
  <1>1. k \in Keys /\ keystore' = [keystore EXCEPT ![d] = k]
        /\ proc' = [proc EXCEPT ![q] = x] /\ UNCHANGED server
    BY DEF StartOpen
  <1>2. keystore' \in [Devices -> Nat]
    BY <1>1, KeysAreKeys DEF IInv, Types
  <1>3. CallOK(x)
    BY <1>1 DEF CallOK
  <1> HIDE DEF x
  <1> QED
    BY <1>1, <1>2, <1>3, LocalStep

\* A failed start, with or without the deletion of its key.
LEMMA EndStartInv ==
  ASSUME IInv, NEW q \in Procs, proc[q].pc \in {"create", "created"}, EndStart(q)
  PROVE  IInv'
  <1>1. proc' = [proc EXCEPT ![q] = Idle] /\ UNCHANGED server
    BY DEF EndStart
  <1>2. proc[q].d \in Devices
    BY DEF IInv, Calls, CallOK
  <1>3. keystore' \in [Devices -> Nat]
    BY <1>2 DEF IInv, Types, EndStart
  <1>4. CallOK(Idle)
    BY PlainCall DEF Idle
  <1> QED
    BY <1>1, <1>3, <1>4, LocalStep

\* A finishing link read by the Bridge names an authorized pairing.
LEMMA FinishOpenInv ==
  ASSUME IInv, NEW q \in Procs, NEW p \in Slots, FinishOpen(q, p)
  PROVE  IInv'
  <1> DEFINE d == pairing[p].device
             x == [pc |-> "complete", p |-> p, d |-> d, key |-> keystore[d],
                   waits |-> TRUE]
  <1>1. pairing[p] # NoPairing /\ pairing[p].link
        /\ proc' = [proc EXCEPT ![q] = x] /\ UNCHANGED <<server, computer>>
    BY DEF FinishOpen
  <1>2. d \in Devices /\ keystore[d] \in Nat
    BY <1>1 DEF IInv, Types, PairingRow
  <1>3. x \in Completing
    BY <1>2 DEF Completing
  <1>4. pairing[p].actor \in Actors
    BY <1>1 DEF IInv, LinksAuthorized
  <1>5. CallOK(x)
    BY <1>1, <1>3, <1>4 DEF CallOK
  <1>6. keystore' \in [Devices -> Nat]
    BY <1>1 DEF computer, IInv, Types
  <1> HIDE DEF x
  <1> QED
    BY <1>1, <1>5, <1>6, LocalStep

\* What a completion reads is what its write compares with.
LEMMA CompleteReadInv ==
  ASSUME IInv, NEW q \in Procs, CompleteRead(q)
  PROVE  IInv'
  <1> DEFINE c == proc[q]
             a == pairing[c.p].actor
             y == [pc |-> "write", p |-> c.p, d |-> c.d, key |-> c.key,
                   waits |-> c.waits, prev |-> Latest(a), ep |-> epoch[a]]
             x == IF ProofAccepted(q) THEN y ELSE Idle
  <1>1. c.pc = "complete" /\ UNCHANGED <<server, computer>>
    BY DEF CompleteRead
  <1>2. proc' = [proc EXCEPT ![q] = x]
    BY DEF CompleteRead, IInv, Types
  <1>3. c \in Completing /\ pairing[c.p] # NoPairing /\ a \in Actors
    BY <1>1 DEF IInv, Calls, CallOK
  <1>4. CallOK(y) \/ ~ProofAccepted(q)
    <2> SUFFICES ASSUME ProofAccepted(q) PROVE CallOK(y)
      OBVIOUS
    <2>0. epoch[a] > 0
      BY DEF ProofAccepted
    <2>1. Latest(a) \in Nat /\ epoch[a] \in Nat \ {0}
      <3> HIDE DEF a
      <3>1. Latest(a) \in Nat
        BY <1>3, Revoked DEF IInv
      <3>2. epoch[a] \in Nat
        BY <1>3 DEF IInv, Types
      <3> QED
        BY <2>0, <3>1, <3>2
    <2>2. y \in Writing
      BY <1>3, <2>1 DEF Completing, Writing
    <2> QED
      BY <1>3, <2>2 DEF CallOK
  <1>5. CallOK(Idle)
    BY PlainCall DEF Idle
  <1>6. CallOK(x)
    <2> HIDE DEF y
    <2> QED
      BY <1>4, <1>5
  <1>7. keystore' \in [Devices -> Nat]
    BY <1>1 DEF computer, IInv, Types
  <1> HIDE DEF x
  <1> QED
    BY <1>1, <1>2, <1>6, <1>7, LocalStep

\* A client that gives up leaves its request under way.
LEMMA GiveUpInv ==
  ASSUME IInv, NEW q \in Procs, GiveUp(q)
  PROVE  IInv'
  <1> DEFINE x == [proc[q] EXCEPT !.waits = FALSE]
  <1>1. proc[q].pc \in {"complete", "write"} /\ UNCHANGED <<server, computer>>
        /\ proc' = [proc EXCEPT ![q] = x]
    BY DEF GiveUp
  <1>2. proc[q] \in Completing \/ proc[q] \in Writing
    BY <1>1 DEF IInv, Calls, CallOK
  <1>3. x.pc = proc[q].pc /\ x.p = proc[q].p
        /\ (proc[q].pc = "complete" => x \in Completing)
        /\ (proc[q].pc = "write" => x \in Writing)
    BY <1>2 DEF Completing, Writing
  <1>4. CallOK(x)
    BY <1>1, <1>3 DEF IInv, Calls, CallOK
  <1>5. keystore' \in [Devices -> Nat]
    BY <1>1 DEF computer, IInv, Types
  <1> HIDE DEF x
  <1> QED
    BY <1>1, <1>4, <1>5, LocalStep

\* A command that goes on without a pairing.
LEMMA PlainStep ==
  ASSUME IInv, NEW q \in Procs, NEW x, proc' = [proc EXCEPT ![q] = x],
         x.pc \notin {"create", "created", "complete", "write"},
         UNCHANGED <<server, keystore>>
  PROVE  IInv'
  <1>1. keystore' \in [Devices -> Nat]
    BY DEF IInv, Types
  <1> QED
    BY <1>1, PlainCall, LocalStep

\* The remaining steps of commands and requests that change no row.
LEMMA QuietInv ==
  ASSUME IInv, NEW q \in Procs,
         \/ Persist(q) \/ Dies(q) \/ RenewRead(q) \/ RenewReturns(q)
         \/ RequestDevice(q) \/ RequestServed(q)
         \/ \E m \in Machines : RenewChallenge(q, m) \/ RequestRead(q, m)
  PROVE  IInv'
  <1> USE DEF computer
  <1>1. CASE Persist(q)
    BY <1>1, PlainStep DEF Persist, Idle
  <1>2. CASE Dies(q)
    BY <1>2, PlainStep DEF Dies, Idle
  <1>3. CASE RenewRead(q)
    <2> DEFINE x == IF /\ active[proc[q].a] /\ ActiveVersion(proc[q].a, proc[q].v)
                       /\ proc[q].signer = proc[q].a
                       /\ proc[q].key = bindings[proc[q].a][proc[q].v].key
                    THEN [pc |-> "renewWrite", m |-> proc[q].m,
                          s |-> Session(proc[q].a, proc[q].v, epoch[proc[q].a])]
                    ELSE Idle
    <2>1. proc' = [proc EXCEPT ![q] = x] /\ UNCHANGED <<server, keystore>>
      BY <1>3 DEF RenewRead, IInv, Types
    <2>2. x.pc \in {"renewWrite", "idle"}
      BY DEF Idle
    <2> HIDE DEF x
    <2> QED
      BY <2>1, <2>2, PlainStep
  <1>4. CASE RenewReturns(q)
    BY <1>4, PlainStep DEF RenewReturns, Idle
  <1>5. CASE RequestDevice(q)
    <2> DEFINE t == proc[q].s
               d == bindings[t.actor][t.version].device
               G == \E r \in ActiveDevice(d) :
                        /\ ActiveDevice(d) = {r}
                        /\ SameAuthority(t, r)
                        /\ bindings[r[1]][r[2]].key = proc[q].key
               x == IF G THEN [pc |-> "granted", s |-> t] ELSE Idle
    <2>1. proc' = [proc EXCEPT ![q] = x] /\ UNCHANGED <<server, keystore>>
      BY <1>5 DEF RequestDevice
    <2> HIDE DEF G
    <2>2. x.pc \in {"granted", "idle"}
      BY DEF Idle
    <2> HIDE DEF x
    <2> QED
      BY <2>1, <2>2, PlainStep
  <1>6. CASE RequestServed(q)
    BY <1>6, PlainStep DEF RequestServed, Idle
  <1>7. CASE \E m \in Machines : RenewChallenge(q, m) \/ RequestRead(q, m)
    <2>1. PICK m \in Machines : RenewChallenge(q, m) \/ RequestRead(q, m)
      BY <1>7
    <2>2. CASE RenewChallenge(q, m)
      <3>1. PICK r \in ActiveDevice(file[m].device) :
               proc' = [proc EXCEPT ![q] =
                 [pc |-> "renew", m |-> m, a |-> r[1], v |-> r[2],
                  signer |-> file[m].actor, key |-> keystore[file[m].device]]]
        BY <2>2 DEF RenewChallenge
      <3> QED
        BY <2>2, <3>1, PlainStep DEF RenewChallenge
    <2>3. CASE RequestRead(q, m)
      BY <2>3, PlainStep DEF RequestRead
    <2> QED
      BY <2>1, <2>2, <2>3
  <1> QED
    BY <1>1, <1>2, <1>3, <1>4, <1>5, <1>6, <1>7

-----------------------------------------------------------------------------
(* Pairing rows *)

\* A row of a pairing changes while a command may name it: it stays a row,
\* and an authorized one stays authorized.
LEMMA PairingStep ==
  ASSUME IInv, UNCHANGED <<active, epoch, bindings, sessions, keystore>>,
         NEW p \in Slots, NEW r \in PairingRow,
         pairing' = [pairing EXCEPT ![p] = r],
         r.link => r.actor \in Actors,
         pairing[p] # NoPairing /\ pairing[p].actor \in Actors /\ Referred(p)
             => r.actor \in Actors,
         UNCHANGED proc
  PROVE  IInv'
  <1>1. KeyedMembers' /\ OneAuthority' /\ SessionsBacked'
    BY AuthorityKept
  <1>2. Types'
    BY DEF IInv, Types
  <1>3. pairing'[p] = r /\ r # NoPairing
        /\ \A o \in Slots \ {p} : pairing'[o] = pairing[o]
    BY RowIsThere DEF IInv, Types
  <1>4. LinksAuthorized'
    BY <1>3 DEF IInv, LinksAuthorized
  <1>5. ASSUME NEW q \in Procs PROVE CallOK(proc[q])'
    <2>1. CallOK(proc[q])
      BY DEF IInv, Calls
    <2>2. proc[q].pc \in {"complete", "write"} => proc[q].p \in Slots
      BY <2>1 DEF CallOK, Completing, Writing
    <2>3. proc[q].pc \in {"complete", "write"} /\ proc[q].p = p => Referred(p)
      BY DEF Referred, Refers
    <2> QED
      BY <1>3, <2>1, <2>2, <2>3 DEF CallOK
  <1> QED
    BY <1>1, <1>2, <1>4, <1>5 DEF IInv, Calls

\* A new transaction takes a token that no request names.
LEMMA CreatePairingInv ==
  ASSUME IInv, NEW q \in Procs, CreatePairing(q)
  PROVE  IInv'
  <1> DEFINE Row == [device |-> proc[q].d, key |-> proc[q].key, actor |-> NoActor,
                     consumed |-> FALSE, live |-> TRUE, opened |-> FALSE, link |-> FALSE]
  <1>1. PICK p \in Slots :
           /\ Free(p)
           /\ pairing' = [pairing EXCEPT ![p] = Row]
           /\ proc' = [proc EXCEPT ![q] =
                [pc |-> "created", d |-> proc[q].d, key |-> proc[q].key,
                 made |-> proc[q].made, p |-> p]]
    BY DEF CreatePairing
  <1>2. proc[q].pc = "create"
        /\ UNCHANGED <<active, epoch, bindings, sessions, keystore>>
    BY DEF CreatePairing, computer
  <1>3. proc[q].d \in Devices /\ proc[q].key \in Keys
    BY <1>2 DEF IInv, Calls, CallOK
  <1>4. Row \in PairingRow
    BY <1>3 DEF PairingRow
  <1>5. pairing'[p] = Row /\ Row # NoPairing
        /\ \A o \in Slots \ {p} : pairing'[o] = pairing[o]
    BY <1>1, <1>4, RowIsThere DEF IInv, Types
  <1> DEFINE x == [pc |-> "created", d |-> proc[q].d, key |-> proc[q].key,
                   made |-> proc[q].made, p |-> p]
  <1>6. /\ proc' = [r \in Procs |-> proc'[r]]
        /\ proc'[q] = x
        /\ \A r \in Procs \ {q} : proc'[r] = proc[r]
    BY <1>1, OtherCalls DEF IInv
  <1>7. KeyedMembers' /\ OneAuthority' /\ SessionsBacked'
    BY <1>2, AuthorityKept
  <1>8. Types'
    BY <1>1, <1>2, <1>4, <1>6 DEF IInv, Types
  <1>9. LinksAuthorized'
    BY <1>5 DEF IInv, LinksAuthorized
  <1>10. ASSUME NEW r \in Procs PROVE CallOK(proc[r])'
    <2>1. CASE r = q
      BY <1>3, <1>5, <1>6, <2>1 DEF CallOK
    <2>2. CASE r # q
      <3>1. CallOK(proc[r]) /\ proc'[r] = proc[r]
        BY <1>6, <2>2 DEF IInv, Calls
      <3>2. proc[r].pc \in {"created", "complete", "write"} => proc[r].p # p
        BY <1>1 DEF Free, Referred, Refers
      <3>3. proc[r].pc \in {"created", "complete", "write"} => proc[r].p \in Slots
        BY <3>1 DEF CallOK, Completing, Writing
      <3> QED
        BY <1>5, <3>1, <3>2, <3>3 DEF CallOK
    <2> QED
      BY <2>1, <2>2
  <1> QED
    BY <1>7, <1>8, <1>9, <1>10 DEF IInv, Calls

\* The page of a new pairing opens.
LEMMA StartReturnsInv ==
  ASSUME IInv, NEW q \in Procs, StartReturns(q)
  PROVE  IInv'
  <1> DEFINE p == proc[q].p
             Row == [pairing[p] EXCEPT !.opened = TRUE]
  <1>1. proc[q].pc = "created" /\ pairing' = [pairing EXCEPT ![p] = Row]
        /\ proc' = [proc EXCEPT ![q] = Idle]
        /\ UNCHANGED <<active, epoch, bindings, sessions, keystore>>
    BY DEF StartReturns, computer
  <1>2. p \in Slots /\ pairing[p] # NoPairing
    BY <1>1 DEF IInv, Calls, CallOK
  <1>3. pairing[p] \in PairingRow
    BY <1>2 DEF IInv, Types
  <1>4. Row \in PairingRow /\ Row.actor = pairing[p].actor /\ Row.link = pairing[p].link
    BY <1>3 DEF PairingRow
  <1> HIDE DEF p, Row
  <1>5. pairing'[p] = Row /\ Row # NoPairing
        /\ \A o \in Slots \ {p} : pairing'[o] = pairing[o]
    BY <1>1, <1>2, <1>4, RowIsThere DEF IInv, Types
  <1>6. /\ proc' = [r \in Procs |-> proc'[r]]
        /\ proc'[q] = Idle
        /\ \A r \in Procs \ {q} : proc'[r] = proc[r]
    BY <1>1, OtherCalls DEF IInv
  <1>7. KeyedMembers' /\ OneAuthority' /\ SessionsBacked'
    BY <1>1, AuthorityKept
  <1>8. Types'
    BY <1>1, <1>2, <1>4, <1>6 DEF IInv, Types
  <1>9. LinksAuthorized'
    BY <1>2, <1>4, <1>5 DEF IInv, LinksAuthorized
  <1>10. ASSUME NEW r \in Procs PROVE CallOK(proc[r])'
    <2>1. CASE r = q
      BY <1>6, <2>1 DEF CallOK, Idle
    <2>2. CASE r # q
      <3>1. CallOK(proc[r]) /\ proc'[r] = proc[r]
        BY <1>6, <2>2 DEF IInv, Calls
      <3>2. proc[r].pc \in {"created", "complete", "write"} => proc[r].p \in Slots
        BY <3>1 DEF CallOK, Completing, Writing
      <3> QED
        BY <1>4, <1>5, <3>1, <3>2 DEF CallOK
    <2> QED
      BY <2>1, <2>2
  <1> QED
    BY <1>7, <1>8, <1>9, <1>10 DEF IInv, Calls

\* Authorizing creates the epoch of a member who has none, and so no session.
LEMMA AuthorizeInv ==
  ASSUME IInv, NEW p \in Slots, NEW a \in Actors, NEW replied \in BOOLEAN,
         Authorize(p, a, replied)
  PROVE  IInv'
  <1> DEFINE Row == [pairing[p] EXCEPT !.actor = a, !.link = replied]
  <1>1. pairing[p] # NoPairing /\ pairing' = [pairing EXCEPT ![p] = Row]
        /\ epoch' = [epoch EXCEPT ![a] = IF @ = 0 THEN 1 ELSE @]
        /\ UNCHANGED <<active, bindings, sessions, keystore, proc>>
    BY DEF Authorize, Usable, computer
  <1>2. pairing[p] \in PairingRow
    BY <1>1 DEF IInv, Types
  <1>3. Row \in PairingRow /\ Row.actor = a
    BY <1>2 DEF PairingRow
  <1> HIDE DEF Row
  <1>4. pairing'[p] = Row /\ Row # NoPairing
        /\ \A o \in Slots \ {p} : pairing'[o] = pairing[o]
    BY <1>1, <1>3, RowIsThere DEF IInv, Types
  <1>5. /\ epoch' \in [Actors -> Nat]
        /\ \A b \in Actors : epoch[b] > 0 => epoch'[b] = epoch[b]
    BY <1>1 DEF IInv, Types
  <1>6. Types'
    BY <1>1, <1>3, <1>5 DEF IInv, Types
  <1>7. LinksAuthorized'
    BY <1>3, <1>4 DEF IInv, LinksAuthorized
  <1>8. ASSUME NEW q \in Procs PROVE CallOK(proc[q])'
    <2>1. CallOK(proc[q]) /\ proc'[q] = proc[q]
      BY <1>1 DEF IInv, Calls
    <2>2. proc[q].pc \in {"created", "complete", "write"} => proc[q].p \in Slots
      BY <2>1 DEF CallOK, Completing, Writing
    <2> QED
      BY <1>3, <1>4, <2>1, <2>2 DEF CallOK
  <1>9. KeyedMembers' /\ OneAuthority'
    BY <1>1, <1>5 DEF IInv, KeyedMembers, OneAuthority, Latest
  <1>10. ASSUME NEW s \in sessions' PROVE Backed(s)'
    <2>1. Backed(s)
      BY <1>1 DEF IInv, SessionsBacked
    <2>2. epoch[s.actor] > 0
      BY <2>1 DEF Backed, ActiveVersion, IInv, KeyedMembers
    <2> QED
      BY <1>1, <1>5, <2>1, <2>2 DEF Backed, ActiveVersion, Latest
  <1> QED
    BY <1>6, <1>7, <1>8, <1>9, <1>10 DEF IInv, Calls, SessionsBacked

\* A pairing expires, under a request or not.
LEMMA ExpirePairingInv ==
  ASSUME IInv, NEW p \in Slots, ExpirePairing(p)
  PROVE  IInv'
  <1> DEFINE Row == [pairing[p] EXCEPT !.live = FALSE]
  <1>1. UNCHANGED <<active, epoch, bindings, sessions, keystore, proc>>
    BY DEF ExpirePairing, computer
  <1>2. pairing[p] \in PairingRow
    BY DEF ExpirePairing, IInv, Types, NoPairing
  <1>3. Row \in PairingRow /\ Row.actor = pairing[p].actor /\ Row.link = pairing[p].link
    BY <1>2 DEF PairingRow
  <1>4. CASE Referred(p)
    <2>1. pairing' = [pairing EXCEPT ![p] = Row]
      BY <1>4 DEF ExpirePairing
    <2>2. Row.link => Row.actor \in Actors
      BY <1>2, <1>3, RowIsThere DEF IInv, LinksAuthorized
    <2> HIDE DEF Row
    <2> QED
      BY <1>1, <1>3, <2>1, <2>2, PairingStep
  <1>5. CASE ~Referred(p)
    <2>1. pairing' = [pairing EXCEPT ![p] = NoPairing]
      BY <1>5 DEF ExpirePairing
    <2>2. pairing'[p] = NoPairing
          /\ \A o \in Slots \ {p} : pairing'[o] = pairing[o]
      BY <2>1 DEF IInv, Types
    <2>3. Types'
      BY <1>1, <2>1 DEF IInv, Types
    <2>4. LinksAuthorized'
      BY <2>2 DEF IInv, LinksAuthorized
    <2>5. ASSUME NEW q \in Procs PROVE CallOK(proc[q])'
      <3>1. CallOK(proc[q]) /\ proc'[q] = proc[q]
        BY <1>1 DEF IInv, Calls
      <3>2. proc[q].pc \in {"created", "complete", "write"}
              => proc[q].p \in Slots \ {p}
        BY <1>5, <3>1 DEF CallOK, Completing, Writing, Referred, Refers
      <3> QED
        BY <2>2, <3>1, <3>2 DEF CallOK
    <2> QED
      BY <1>1, <2>3, <2>4, <2>5, AuthorityKept DEF IInv, Calls
  <1> QED
    BY <1>4, <1>5

-----------------------------------------------------------------------------
(* Bindings and sessions *)

\* The bindings of one member are revoked, and a new one may be published
\* whose key no other member holds.
LEMMA Republished ==
  ASSUME IInv, NEW a \in Actors, NEW B \in Seq(BindingRow),
         bindings' = [bindings EXCEPT ![a] = B],
         \A b \in Actors : epoch[b] > 0 => epoch'[b] > 0,
         Len(B) = Latest(a) \/ Len(B) = Latest(a) + 1,
         \A v \in 1..Latest(a) : B[v].active = FALSE /\ B[v].key = bindings[a][v].key,
         Len(B) = Latest(a) + 1 /\ B[Latest(a) + 1].key # Certificate =>
             /\ epoch'[a] > 0
             /\ \A b \in Actors \ {a} : \A v \in 1..Latest(b) :
                  ~(bindings[b][v].active /\ bindings[b][v].key = B[Latest(a) + 1].key)
  PROVE  KeyedMembers' /\ OneAuthority' /\ bindings' \in [Actors -> Seq(BindingRow)]
  <1>1. bindings' \in [Actors -> Seq(BindingRow)]
        /\ bindings'[a] = B /\ \A b \in Actors \ {a} : bindings'[b] = bindings[b]
    BY DEF IInv, Types
  <1>2. Latest(a) \in Nat /\ Len(B) \in Nat
    <2>1. Latest(a) \in Nat
      BY Revoked DEF IInv
    <2>2. Len(B) \in Nat
      OBVIOUS
    <2> QED
      BY <2>1, <2>2
  <1>3. \A b \in Actors \ {a} : Latest(b)' = Latest(b)
    BY <1>1 DEF Latest
  <1>4. Latest(a)' = Len(B)
    BY <1>1 DEF Latest
  <1>5. \A v \in 1..Len(B) : v \in 1..Latest(a) \/ (v = Latest(a) + 1 /\ v = Len(B))
    BY <1>2
  <1>6. KeyedMembers'
    <2> SUFFICES ASSUME NEW b \in Actors, NEW v \in 1..Latest(b)',
                        bindings'[b][v].key # Certificate
                 PROVE  epoch'[b] > 0
      BY DEF KeyedMembers
    <2>1. CASE b # a
      BY <1>1, <1>3, <2>1 DEF IInv, KeyedMembers
    <2>2. CASE b = a
      BY <1>1, <1>4, <1>5, <2>2 DEF IInv, KeyedMembers
    <2> QED
      BY <2>1, <2>2
  <1>7. \A v \in 1..Len(B) : B[v].active => v = Latest(a) + 1 /\ v = Len(B)
    BY <1>5
  <1>8. ASSUME NEW b \in Actors, NEW v \in 1..Latest(b)', bindings'[b][v].active
        PROVE  v = Latest(b)'
    <2>1. CASE b # a
      BY <1>1, <1>3, <1>8, <2>1 DEF IInv, OneAuthority
    <2>2. CASE b = a
      BY <1>1, <1>4, <1>7, <1>8, <2>2
    <2> QED
      BY <2>1, <2>2
  <1>9. ASSUME NEW b \in Actors, NEW c \in Actors,
               NEW v \in 1..Latest(b)', NEW w \in 1..Latest(c)',
               bindings'[b][v].active, bindings'[c][w].active,
               bindings'[b][v].key = bindings'[c][w].key,
               bindings'[b][v].key # Certificate
        PROVE  b = c
    <2>1. CASE b # a /\ c # a
      BY <1>1, <1>3, <1>9, <2>1 DEF IInv, OneAuthority
    <2>2. CASE b = a /\ c # a
      BY <1>1, <1>3, <1>4, <1>7, <1>9, <2>2
    <2>3. CASE b # a /\ c = a
      BY <1>1, <1>3, <1>4, <1>7, <1>9, <2>3
    <2> QED
      BY <2>1, <2>2, <2>3
  <1>10. OneAuthority'
    BY <1>8, <1>9 DEF OneAuthority
  <1> QED
    BY <1>1, <1>6, <1>10

\* What happens to one member leaves the sessions of the others backed.
LEMMA OthersBacked ==
  ASSUME IInv, NEW a \in Actors, NEW s \in sessions, s.actor # a,
         \A b \in Actors \ {a} :
             active'[b] = active[b] /\ epoch'[b] = epoch[b] /\ bindings'[b] = bindings[b]
  PROVE  Backed(s)'
  BY DEF IInv, SessionsBacked, Backed, ActiveVersion, Latest

\* The sessions a binding takes with it are all the sessions of its member.
LEMMA AllOfMember ==
  ASSUME IInv, NEW a \in Actors, NEW s \in sessions \ SessionsOfActive(a)
  PROVE  s.actor # a
  BY DEF IInv, SessionsBacked, Backed, SessionsOfActive

\* The completion command with its triggers.
LEMMA CompleteWriteInv ==
  ASSUME IInv, NEW q \in Procs, CompleteWrite(q)
  PROVE  IInv'
  <1> DEFINE c == proc[q]
             p == c.p
             r == pairing[p]
  <1>1. c.pc = "write" /\ UNCHANGED <<active, epoch, keystore>>
    BY DEF CompleteWrite, Spent, computer
  <1>2. c \in Writing /\ p \in Slots /\ r # NoPairing /\ r.actor \in Actors
        /\ c.prev \in Nat /\ c.ep \in Nat \ {0}
    BY <1>1 DEF IInv, Calls, CallOK, Writing
  <1>3. r \in PairingRow
    BY <1>2 DEF IInv, Types
  <1> PICK a \in Actors : a = r.actor
    BY <1>2
  <1>4. CASE ~CompletionAdmitted(q)
    <2>1. proc' = [proc EXCEPT ![q] = Idle] /\ UNCHANGED <<server, keystore>>
      BY <1>1, <1>4 DEF CompleteWrite, Spent, server
    <2> QED
      BY <2>1, PlainStep DEF Idle
  <1>5. CASE CompletionAdmitted(q)
    <2> DEFINE b == Binding(r.device, r.key)
               B == Append(RevokeActive(a), b)
               n == Session(a, c.prev + 1, c.ep)
               x == IF c.waits THEN [pc |-> "persist", d |-> r.device, a |-> a] ELSE Idle
               Row == [r EXCEPT !.consumed = TRUE]
    <2>1. /\ bindings' = [bindings EXCEPT ![a] = B]
          /\ pairing' = [pairing EXCEPT ![p] = Row]
          /\ sessions' = (sessions \ SessionsOfActive(a)) \union {n}
          /\ proc' = [proc EXCEPT ![q] = x]
      BY <1>5 DEF CompleteWrite, Spent
    <2>2. b \in BindingRow /\ b.key = r.key /\ b.active = TRUE
          /\ b.key # Certificate
      BY <1>3, KeysAreKeys DEF PairingRow, BindingRow, Binding
    <2>3. /\ active[a] /\ epoch[a] = c.ep /\ Latest(a) = c.prev
          /\ \A d \in Actors \ {a} : \A v \in 1..Latest(d) :
                 ~(bindings[d][v].active /\ bindings[d][v].key = b.key)
      BY <1>5, <2>2 DEF CompletionAdmitted
    <2>4. Row \in PairingRow /\ Row.actor = a /\ Row.link = r.link
      BY <1>3 DEF PairingRow
    <2>5. x.pc \in {"persist", "idle"}
      BY DEF Idle
    <2> HIDE DEF b, x, Row, r, p, c
    <2>6. /\ B \in Seq(BindingRow) /\ Len(B) = Latest(a) + 1 /\ B[Latest(a) + 1] = b
          /\ \A v \in 1..Latest(a) : B[v].active = FALSE /\ B[v].key = bindings[a][v].key
      <3>1. Types /\ b \in BindingRow
        BY <2>2 DEF IInv
      <3> QED
        BY <3>1, Published
    <2> HIDE DEF B
    <2>7. KeyedMembers' /\ OneAuthority' /\ bindings' \in [Actors -> Seq(BindingRow)]
      <3>1. epoch'[a] > 0 /\ \A d \in Actors : epoch[d] > 0 => epoch'[d] > 0
        BY <1>1, <1>2, <2>3
      <3>2. \A d \in Actors \ {a} : \A v \in 1..Latest(d) :
               ~(bindings[d][v].active /\ bindings[d][v].key = B[Latest(a) + 1].key)
        BY <2>3, <2>6
      <3> QED
        BY <2>1, <2>6, <3>1, <3>2, Republished
    <2>8. bindings'[a] = B /\ \A d \in Actors \ {a} : bindings'[d] = bindings[d]
      BY <1>2, <2>1 DEF IInv, Types
    <2>9. pairing'[p] = Row /\ Row # NoPairing
          /\ \A o \in Slots \ {p} : pairing'[o] = pairing[o]
      BY <1>2, <2>1, <2>4, RowIsThere DEF IInv, Types
    <2>10. /\ proc' = [z \in Procs |-> proc'[z]]
           /\ proc'[q] = x
           /\ \A z \in Procs \ {q} : proc'[z] = proc[z]
      BY <2>1, OtherCalls DEF IInv
    <2>11. Types'
      BY <1>1, <2>1, <2>4, <2>7, <2>10 DEF IInv, Types
    <2>12. LinksAuthorized'
      BY <1>2, <2>4, <2>9 DEF IInv, LinksAuthorized
    <2>13. ASSUME NEW z \in Procs PROVE CallOK(proc[z])'
      <3>1. CASE z = q
        BY <2>5, <2>10, <3>1 DEF CallOK
      <3>2. CASE z # q
        <4>1. CallOK(proc[z]) /\ proc'[z] = proc[z]
          BY <2>10, <3>2 DEF IInv, Calls
        <4>2. proc[z].pc \in {"created", "complete", "write"} => proc[z].p \in Slots
          BY <4>1 DEF CallOK, Completing, Writing
        <4> QED
          BY <1>2, <2>4, <2>9, <4>1, <4>2 DEF CallOK
      <3> QED
        BY <3>1, <3>2
    <2>14. ASSUME NEW s \in sessions' PROVE Backed(s)'
      <3>1. CASE s \in sessions \ SessionsOfActive(a)
        BY <1>1, <1>2, <2>8, <3>1, AllOfMember, OthersBacked
      <3>2. CASE s = n
        <4>1. s.actor = a /\ s.version = Latest(a) + 1 /\ s.epoch = c.ep
          BY <2>3, <3>2 DEF Session
        <4>2. Latest(a) \in Nat
          BY <1>2, <2>3
        <4>3. Latest(a)' = Latest(a) + 1
          BY <2>6, <2>8 DEF Latest
        <4>4. ActiveVersion(s.actor, s.version)'
          BY <2>2, <2>6, <2>8, <4>1, <4>2, <4>3 DEF ActiveVersion
        <4> QED
          BY <1>1, <1>2, <2>2, <2>3, <2>6, <2>8, <4>1, <4>4 DEF Backed
      <3> QED
        BY <2>1, <3>1, <3>2
    <2> QED
      BY <2>7, <2>11, <2>12, <2>13, <2>14 DEF IInv, Calls, SessionsBacked
  <1> QED
    BY <1>4, <1>5

\* The renewal command checks again what it rests on.
LEMMA RenewWriteInv ==
  ASSUME IInv, NEW q \in Procs, RenewWrite(q)
  PROVE  IInv'
  <1> DEFINE n == proc[q].s
             x == [pc |-> "hold", m |-> proc[q].m, s |-> n]
  <1>1. UNCHANGED <<active, epoch, bindings, pairing, keystore>>
    BY DEF RenewWrite, computer
  <1>2. CASE ~RenewalAdmitted(n)
    <2>1. proc' = [proc EXCEPT ![q] = Idle] /\ UNCHANGED sessions
      BY <1>2 DEF RenewWrite
    <2> QED
      BY <1>1, <2>1, PlainStep DEF Idle, server
  <1>3. CASE RenewalAdmitted(n)
    <2>1. sessions' = sessions \union {n} /\ proc' = [proc EXCEPT ![q] = x]
      BY <1>3 DEF RenewWrite, IInv, Types
    <2>2. ASSUME NEW s \in sessions' PROVE Backed(s)'
      <3>1. Backed(s)
        BY <1>3, <2>1 DEF IInv, SessionsBacked, RenewalAdmitted
      <3> QED
        BY <1>1, <3>1 DEF Backed, ActiveVersion, Latest
    <2>3. KeyedMembers' /\ OneAuthority'
      BY <1>1 DEF IInv, KeyedMembers, OneAuthority, Latest
    <2>4. /\ proc' = [z \in Procs |-> proc'[z]]
          /\ proc'[q] = x
          /\ \A z \in Procs \ {q} : proc'[z] = proc[z]
      BY <2>1, OtherCalls DEF IInv
    <2>5. Types' /\ LinksAuthorized'
      BY <1>1, <2>4 DEF IInv, Types, LinksAuthorized
    <2>6. Calls'
      BY <1>1, <2>4 DEF IInv, Calls, CallOK
    <2> QED
      BY <2>2, <2>3, <2>5, <2>6 DEF IInv, SessionsBacked
  <1> QED
    BY <1>2, <1>3

\* A step that leaves pairings, keys and commands alone.
LEMMA GovernStep ==
  ASSUME IInv, UNCHANGED <<pairing, keystore, proc>>,
         active' \in [Actors -> BOOLEAN], epoch' \in [Actors -> Nat],
         bindings' \in [Actors -> Seq(BindingRow)],
         KeyedMembers', OneAuthority', SessionsBacked'
  PROVE  IInv'
  <1>1. Types' /\ LinksAuthorized'
    BY DEF IInv, Types, LinksAuthorized
  <1>2. Calls'
    BY DEF IInv, Calls, CallOK
  <1> QED
    BY <1>1, <1>2 DEF IInv

\* An expired session.
LEMMA ExpireSessionInv ==
  ASSUME IInv, NEW s \in sessions, ExpireSession(s)
  PROVE  IInv'
  <1>1. UNCHANGED <<active, epoch, bindings, pairing, keystore, proc>>
        /\ sessions' \subseteq sessions
    BY DEF ExpireSession, computer
  <1>2. KeyedMembers' /\ OneAuthority' /\ SessionsBacked'
    BY <1>1, AuthorityKept
  <1> QED
    BY <1>1, <1>2, GovernStep DEF IInv, Types

\* Suspension takes the binding and every session of the member.
LEMMA SuspendInv ==
  ASSUME IInv, NEW a \in Actors, Suspend(a)
  PROVE  IInv'
  <1> DEFINE B == RevokeActive(a)
  <1>1. /\ UNCHANGED <<pairing, keystore, proc>>
        /\ active' = [active EXCEPT ![a] = FALSE]
        /\ epoch' = [epoch EXCEPT ![a] = IF @ = 0 THEN 0 ELSE @ + 1]
        /\ bindings' = [bindings EXCEPT ![a] = B]
        /\ sessions' = {s \in sessions : s.actor # a}
    BY DEF Suspend, computer
  <1>2. /\ active' \in [Actors -> BOOLEAN] /\ epoch' \in [Actors -> Nat]
        /\ \A b \in Actors : epoch[b] > 0 => epoch'[b] > 0
        /\ \A b \in Actors \ {a} : active'[b] = active[b] /\ epoch'[b] = epoch[b]
        /\ \A b \in Actors \ {a} : bindings'[b] = bindings[b]
    BY <1>1 DEF IInv, Types
  <1>3. /\ B \in Seq(BindingRow) /\ Len(B) = Latest(a) /\ Latest(a) \in Nat
        /\ \A v \in 1..Latest(a) : B[v].active = FALSE /\ B[v].key = bindings[a][v].key
    <2>1. Types
      BY DEF IInv
    <2> QED
      BY <2>1, Revoked
  <1>4. Len(B) # Latest(a) + 1
    BY <1>3
  <1> HIDE DEF B
  <1>5. KeyedMembers' /\ OneAuthority' /\ bindings' \in [Actors -> Seq(BindingRow)]
    BY <1>1, <1>2, <1>3, <1>4, Republished
  <1>6. SessionsBacked'
    BY <1>1, <1>2, OthersBacked DEF SessionsBacked
  <1> QED
    BY <1>1, <1>2, <1>5, <1>6, GovernStep

\* A reinstated member has no session left.
LEMMA ReinstateInv ==
  ASSUME IInv, NEW a \in Actors, Reinstate(a)
  PROVE  IInv'
  <1>1. /\ UNCHANGED <<epoch, bindings, sessions, pairing, keystore, proc>>
        /\ active' = [active EXCEPT ![a] = TRUE]
    BY DEF Reinstate, computer
  <1>2. active' \in [Actors -> BOOLEAN]
        /\ \A b \in Actors : active[b] => active'[b]
    BY <1>1 DEF IInv, Types
  <1>3. KeyedMembers' /\ OneAuthority'
    BY <1>1 DEF IInv, KeyedMembers, OneAuthority, Latest
  <1>4. SessionsBacked'
    BY <1>1, <1>2 DEF IInv, SessionsBacked, Backed, ActiveVersion, Latest
  <1> QED
    BY <1>1, <1>2, <1>3, <1>4, GovernStep DEF IInv, Types

\* Revocation takes the sessions of the binding.
LEMMA RevokeBindingInv ==
  ASSUME IInv, NEW a \in Actors, RevokeBinding(a)
  PROVE  IInv'
  <1> DEFINE B == RevokeActive(a)
  <1>1. /\ UNCHANGED <<active, epoch, pairing, keystore, proc>>
        /\ bindings' = [bindings EXCEPT ![a] = B]
        /\ sessions' = sessions \ SessionsOfActive(a)
    BY DEF RevokeBinding, computer
  <1>2. \A b \in Actors \ {a} : bindings'[b] = bindings[b]
    BY <1>1 DEF IInv, Types
  <1>3. /\ B \in Seq(BindingRow) /\ Len(B) = Latest(a) /\ Latest(a) \in Nat
        /\ \A v \in 1..Latest(a) : B[v].active = FALSE /\ B[v].key = bindings[a][v].key
    <2>1. Types
      BY DEF IInv
    <2> QED
      BY <2>1, Revoked
  <1>4. Len(B) # Latest(a) + 1
    BY <1>3
  <1> HIDE DEF B
  <1>5. KeyedMembers' /\ OneAuthority' /\ bindings' \in [Actors -> Seq(BindingRow)]
    BY <1>1, <1>3, <1>4, Republished
  <1>6. SessionsBacked'
    BY <1>1, <1>2, AllOfMember, OthersBacked DEF SessionsBacked
  <1> QED
    BY <1>1, <1>5, <1>6, GovernStep DEF IInv, Types

\* A certificate bound in the place of a key takes its sessions.
LEMMA BindCertificateInv ==
  ASSUME IInv, NEW a \in Actors, NEW d \in Devices, BindCertificate(a, d)
  PROVE  IInv'
  <1> DEFINE c == Binding(d, Certificate)
             B == Append(RevokeActive(a), c)
  <1>1. /\ UNCHANGED <<active, epoch, pairing, keystore, proc>>
        /\ bindings' = [bindings EXCEPT ![a] = B]
        /\ sessions' = sessions \ SessionsOfActive(a)
    BY DEF BindCertificate, computer
  <1>2. \A b \in Actors \ {a} : bindings'[b] = bindings[b]
    BY <1>1 DEF IInv, Types
  <1>3. c \in BindingRow /\ c.key = Certificate
    BY DEF Binding, BindingRow, Certificate
  <1> HIDE DEF c
  <1>4. /\ B \in Seq(BindingRow) /\ Len(B) = Latest(a) + 1 /\ B[Latest(a) + 1] = c
        /\ \A v \in 1..Latest(a) : B[v].active = FALSE /\ B[v].key = bindings[a][v].key
    <2>1. Types
      BY DEF IInv
    <2> QED
      BY <1>3, <2>1, Published
  <1> HIDE DEF B
  <1>5. KeyedMembers' /\ OneAuthority' /\ bindings' \in [Actors -> Seq(BindingRow)]
    BY <1>1, <1>3, <1>4, Republished
  <1>6. SessionsBacked'
    BY <1>1, <1>2, AllOfMember, OthersBacked DEF SessionsBacked
  <1> QED
    BY <1>1, <1>5, <1>6, GovernStep DEF IInv, Types

-----------------------------------------------------------------------------
(* The specification *)

\* Nothing is bound, paired or under way at first.
LEMMA InitIInv == Init => IInv
  <1> SUFFICES ASSUME Init PROVE IInv
    OBVIOUS
  <1>1. Types
    BY DEF Init, Types
  <1>2. Calls
    BY DEF Init, Calls, CallOK, Idle
  <1>3. LinksAuthorized
    BY DEF Init, LinksAuthorized
  <1>4. \A a \in Actors : Latest(a) = 0
    BY DEF Init, Latest
  <1>5. KeyedMembers /\ OneAuthority
    BY <1>4 DEF KeyedMembers, OneAuthority
  <1>6. SessionsBacked
    BY DEF Init, SessionsBacked
  <1> QED
    BY <1>1, <1>2, <1>3, <1>5, <1>6 DEF IInv

\* Every step keeps the invariant.
LEMMA NextIInv == IInv /\ [Next]_vars => IInv'
  <1> SUFFICES ASSUME IInv, [Next]_vars PROVE IInv'
    OBVIOUS
  <1>1. ASSUME NEW q \in Procs, Start(q) PROVE IInv'
    <2>1. CASE \E d \in Devices : StartOpen(q, d)
      BY <2>1, StartOpenInv
    <2>2. CASE CreatePairing(q)
      BY <2>2, CreatePairingInv
    <2>3. CASE StartReturns(q)
      BY <2>3, StartReturnsInv
    <2>4. CASE StartFails(q)
      BY <2>4, EndStartInv DEF StartFails
    <2>5. CASE StartTooLate(q)
      BY <2>5, EndStartInv DEF StartTooLate
    <2> QED
      BY <1>1, <2>1, <2>2, <2>3, <2>4, <2>5 DEF Start
  <1>2. ASSUME NEW q \in Procs, Complete(q) PROVE IInv'
    BY <1>2, FinishOpenInv, CompleteReadInv, CompleteWriteInv, GiveUpInv, QuietInv
    DEF Complete
  <1>3. ASSUME NEW q \in Procs, Renew(q) \/ Ask(q) PROVE IInv'
    BY <1>3, RenewWriteInv, QuietInv DEF Renew, Ask
  <1>4. ASSUME NEW p \in Slots, Page(p) PROVE IInv'
    BY <1>4, AuthorizeInv, ExpirePairingInv DEF Page
  <1>5. ASSUME NEW a \in Actors, Govern(a) PROVE IInv'
    BY <1>5, SuspendInv, ReinstateInv, RevokeBindingInv, BindCertificateInv DEF Govern
  <1>6. CASE UNCHANGED vars
    <2>1. UNCHANGED <<active, epoch, bindings, sessions, pairing, keystore, proc>>
      BY <1>6 DEF vars, server, computer
    <2>2. KeyedMembers' /\ OneAuthority' /\ SessionsBacked'
      BY <2>1, AuthorityKept
    <2> QED
      BY <2>1, <2>2, GovernStep DEF IInv, Types
  <1> QED
    BY <1>1, <1>2, <1>3, <1>4, <1>5, <1>6, ExpireSessionInv DEF Next

\* In every reachable state, for any number of members, computers, tokens and
\* processes, every application session rests on an active membership, the
\* epoch and the active binding version it was issued for.
THEOREM SessionsAreBacked == Spec => []SessionsBacked
  <1>1. IInv => SessionsBacked
    BY DEF IInv
  <1> QED
    BY <1>1, InitIInv, NextIInv, PTL DEF Spec

\* In every reachable state only the newest binding of a member is active, and
\* no device key is active for two members.
THEOREM AuthorityIsOne == Spec => []OneAuthority
  <1>1. IInv => OneAuthority
    BY DEF IInv
  <1> QED
    BY <1>1, InitIInv, NextIInv, PTL DEF Spec

-----------------------------------------------------------------------------
(* What a step may never do *)

\* A command that goes on to anything but a grant or a binding file to be
\* written brings no other command there.
LEMMA NotEntered ==
  ASSUME IInv, NEW r \in Procs, NEW x, proc' = [proc EXCEPT ![r] = x],
         x.pc \notin {"granted", "persist"}, NEW place \in {"granted", "persist"},
         NEW q \in Procs, proc[q].pc # place
  PROVE  proc'[q].pc # place
  BY OtherCalls DEF IInv

\* The second read of a request finds the authority of its session.
LEMMA GrantIsBacked ==
  ASSUME IInv, NEW r \in Procs, RequestDevice(r), NEW q \in Procs,
         proc[q].pc # "granted", proc'[q].pc = "granted"
  PROVE  Backed(proc[q].s)
  <1> DEFINE t == proc[r].s
             d == bindings[t.actor][t.version].device
             G == \E z \in ActiveDevice(d) :
                      /\ ActiveDevice(d) = {z}
                      /\ SameAuthority(t, z)
                      /\ bindings[z[1]][z[2]].key = proc[r].key
             x == IF G THEN [pc |-> "granted", s |-> t] ELSE Idle
  <1>1. proc' = [proc EXCEPT ![r] = x]
    BY DEF RequestDevice
  <1>2. proc'[r] = x /\ \A z \in Procs \ {r} : proc'[z] = proc[z]
    BY <1>1, OtherCalls DEF IInv
  <1>3. q = r
    BY <1>2
  <1>4. G
    <2> HIDE DEF G
    <2> QED
      BY <1>2, <1>3 DEF Idle
  <1>5. PICK z \in ActiveDevice(d) : SameAuthority(t, z)
    BY <1>4
  <1>6. /\ z[1] \in Actors /\ active[z[1]] /\ ActiveVersion(z[1], z[2])
        /\ bindings[z[1]][z[2]].key # Certificate
    BY <1>5 DEF ActiveDevice
  <1>7. z[1] = t.actor /\ z[2] = t.version /\ epoch[z[1]] = t.epoch
    BY <1>5 DEF SameAuthority
  <1> QED
    BY <1>3, <1>6, <1>7 DEF Backed

\* Only the second read of a request grants one, and only the completion that
\* published a binding goes on to write the binding file.
LEMMA EntersBy ==
  ASSUME IInv, [Next]_vars, NEW q \in Procs, NEW place \in {"granted", "persist"},
         proc[q].pc # place, proc'[q].pc = place
  PROVE  \/ place = "granted" /\ \E r \in Procs : RequestDevice(r)
         \/ place = "persist" /\ CompleteWrite(q)
  <1> SUFFICES ASSUME ~(place = "granted" /\ \E r \in Procs : RequestDevice(r)),
                      ~(place = "persist" /\ CompleteWrite(q))
               PROVE  FALSE
    OBVIOUS
  <1>1. ASSUME NEW r \in Procs, Start(r) PROVE FALSE
    <2>1. \E x : proc' = [proc EXCEPT ![r] = x] /\ x.pc \in {"create", "created", "idle"}
      <3>1. CASE \E d \in Devices : StartOpen(r, d)
        <4>1. PICK d \in Devices : StartOpen(r, d)
          BY <3>1
        <4> DEFINE k == IF keystore[d] = 0 THEN drawn + 1 ELSE keystore[d]
                   x == [pc |-> "create", d |-> d, key |-> k, made |-> keystore[d] = 0]
        <4>2. proc' = [proc EXCEPT ![r] = x]
          BY <4>1 DEF StartOpen
        <4>3. x.pc = "create"
          OBVIOUS
        <4> HIDE DEF x
        <4> QED
          BY <4>2, <4>3
      <3>2. CASE CreatePairing(r)
        <4>1. PICK p \in Slots : proc' = [proc EXCEPT ![r] =
                 [pc |-> "created", d |-> proc[r].d, key |-> proc[r].key,
                  made |-> proc[r].made, p |-> p]]
          BY <3>2 DEF CreatePairing
        <4> DEFINE x == [pc |-> "created", d |-> proc[r].d, key |-> proc[r].key,
                         made |-> proc[r].made, p |-> p]
        <4>2. x.pc = "created" /\ proc' = [proc EXCEPT ![r] = x]
          BY <4>1
        <4> HIDE DEF x
        <4> QED
          BY <4>2
      <3>3. CASE StartReturns(r) \/ StartFails(r) \/ StartTooLate(r)
        <4>1. proc' = [proc EXCEPT ![r] = Idle]
          BY <3>3 DEF StartReturns, StartFails, StartTooLate, EndStart
        <4>2. Idle.pc = "idle"
          BY DEF Idle
        <4> QED
          BY <4>1, <4>2
      <3> QED
        BY <1>1, <3>1, <3>2, <3>3 DEF Start
    <2> QED
      BY <2>1, NotEntered
  <1>2. ASSUME NEW r \in Procs, Complete(r) PROVE FALSE
    <2>1. CASE \E p \in Slots : FinishOpen(r, p)
      <3>1. PICK p \in Slots : FinishOpen(r, p)
        BY <2>1
      <3> DEFINE d == pairing[p].device
                 x == [pc |-> "complete", p |-> p, d |-> d, key |-> keystore[d],
                       waits |-> TRUE]
      <3>2. proc' = [proc EXCEPT ![r] = x] /\ x.pc = "complete"
        BY <3>1 DEF FinishOpen
      <3> HIDE DEF x
      <3> QED
        BY <3>2, NotEntered
    <2>2. CASE CompleteRead(r)
      <3> DEFINE c == proc[r]
                 a == pairing[c.p].actor
                 x == IF ProofAccepted(r)
                      THEN [pc |-> "write", p |-> c.p, d |-> c.d, key |-> c.key,
                            waits |-> c.waits, prev |-> Latest(a), ep |-> epoch[a]]
                      ELSE Idle
      <3>1. proc' = [proc EXCEPT ![r] = x]
        BY <2>2 DEF CompleteRead, IInv, Types
      <3>2. x.pc \notin {"granted", "persist"}
        BY DEF Idle
      <3> HIDE DEF x
      <3> QED
        BY <3>1, <3>2, NotEntered
    <2>3. CASE CompleteWrite(r)
      <3> DEFINE R == pairing[proc[r].p]
                 y == IF proc[r].waits
                      THEN [pc |-> "persist", d |-> R.device, a |-> R.actor] ELSE Idle
      <3>1. proc' = [proc EXCEPT ![r] = y] \/ proc' = [proc EXCEPT ![r] = Idle]
        BY <2>3 DEF CompleteWrite, Spent
      <3>2. y.pc # "granted" /\ Idle.pc \notin {"granted", "persist"}
        BY DEF Idle
      <3> HIDE DEF y
      <3>3. CASE proc' = [proc EXCEPT ![r] = Idle]
        BY <3>2, <3>3, NotEntered
      <3>4. CASE proc' = [proc EXCEPT ![r] = y]
        <4>1. CASE q = r
          BY <2>3, <3>2, <3>4, <4>1, OtherCalls DEF IInv
        <4>2. CASE q # r
          BY <3>4, <4>2, OtherCalls DEF IInv
        <4> QED
          BY <4>1, <4>2
      <3> QED
        BY <3>1, <3>3, <3>4
    <2>4. CASE Persist(r) \/ Dies(r)
      <3>1. proc' = [proc EXCEPT ![r] = Idle] /\ Idle.pc \notin {"granted", "persist"}
        BY <2>4 DEF Persist, Dies, Idle
      <3> QED
        BY <3>1, NotEntered
    <2>5. CASE GiveUp(r)
      <3> DEFINE x == [proc[r] EXCEPT !.waits = FALSE]
      <3>1. proc[r].pc \in {"complete", "write"} /\ proc' = [proc EXCEPT ![r] = x]
        BY <2>5 DEF GiveUp
      <3>2. proc[r] \in Completing \/ proc[r] \in Writing
        BY <3>1 DEF IInv, Calls, CallOK
      <3>3. x.pc \notin {"granted", "persist"}
        BY <3>2 DEF Completing, Writing
      <3> HIDE DEF x
      <3> QED
        BY <3>1, <3>3, NotEntered
    <2> QED
      BY <1>2, <2>1, <2>2, <2>3, <2>4, <2>5 DEF Complete
  <1>3. ASSUME NEW r \in Procs, Renew(r) PROVE FALSE
    <2>1. CASE \E m \in Machines : RenewChallenge(r, m)
      <3>1. PICK m \in Machines : RenewChallenge(r, m)
        BY <2>1
      <3>2. PICK z \in ActiveDevice(file[m].device) :
               proc' = [proc EXCEPT ![r] =
                 [pc |-> "renew", m |-> m, a |-> z[1], v |-> z[2],
                  signer |-> file[m].actor, key |-> keystore[file[m].device]]]
        BY <3>1 DEF RenewChallenge
      <3> DEFINE x == [pc |-> "renew", m |-> m, a |-> z[1], v |-> z[2],
                       signer |-> file[m].actor, key |-> keystore[file[m].device]]
      <3>3. proc' = [proc EXCEPT ![r] = x] /\ x.pc = "renew"
        BY <3>2
      <3> HIDE DEF x
      <3> QED
        BY <3>3, NotEntered
    <2>2. CASE RenewRead(r)
      <3> DEFINE x == IF /\ active[proc[r].a] /\ ActiveVersion(proc[r].a, proc[r].v)
                         /\ proc[r].signer = proc[r].a
                         /\ proc[r].key = bindings[proc[r].a][proc[r].v].key
                      THEN [pc |-> "renewWrite", m |-> proc[r].m,
                            s |-> Session(proc[r].a, proc[r].v, epoch[proc[r].a])]
                      ELSE Idle
      <3>1. proc' = [proc EXCEPT ![r] = x]
        BY <2>2 DEF RenewRead, IInv, Types
      <3>2. x.pc \notin {"granted", "persist"}
        BY DEF Idle
      <3> HIDE DEF x
      <3> QED
        BY <3>1, <3>2, NotEntered
    <2>3. CASE RenewWrite(r)
      <3> DEFINE x == [pc |-> "hold", m |-> proc[r].m, s |-> proc[r].s]
      <3>1. proc' = [proc EXCEPT ![r] = x] \/ proc' = [proc EXCEPT ![r] = Idle]
        BY <2>3 DEF RenewWrite, IInv, Types
      <3>2. x.pc \notin {"granted", "persist"} /\ Idle.pc \notin {"granted", "persist"}
        BY DEF Idle
      <3> HIDE DEF x
      <3> QED
        BY <3>1, <3>2, NotEntered
    <2>4. CASE RenewReturns(r)
      <3>1. proc' = [proc EXCEPT ![r] = Idle] /\ Idle.pc \notin {"granted", "persist"}
        BY <2>4 DEF RenewReturns, Idle
      <3> QED
        BY <3>1, NotEntered
    <2> QED
      BY <1>3, <2>1, <2>2, <2>3, <2>4 DEF Renew
  <1>4. ASSUME NEW r \in Procs, Ask(r) PROVE FALSE
    <2>1. CASE \E m \in Machines : RequestRead(r, m)
      <3>1. PICK m \in Machines : RequestRead(r, m)
        BY <2>1
      <3> DEFINE x == [pc |-> "device", s |-> held[m], key |-> keystore[file[m].device]]
      <3>2. proc' = [proc EXCEPT ![r] = x] /\ x.pc = "device"
        BY <3>1 DEF RequestRead
      <3> HIDE DEF x
      <3> QED
        BY <3>2, NotEntered
    <2>2. CASE RequestDevice(r)
      <3> DEFINE g == [pc |-> "granted", s |-> proc[r].s]
      <3>1. proc' = [proc EXCEPT ![r] = g] \/ proc' = [proc EXCEPT ![r] = Idle]
        BY <2>2 DEF RequestDevice
      <3>2. place = "persist"
        BY <2>2
      <3>3. g.pc # "persist" /\ Idle.pc # "persist"
        BY DEF Idle
      <3> HIDE DEF g
      <3> QED
        BY <3>1, <3>2, <3>3, OtherCalls DEF IInv
    <2>3. CASE RequestServed(r)
      <3>1. proc' = [proc EXCEPT ![r] = Idle] /\ Idle.pc \notin {"granted", "persist"}
        BY <2>3 DEF RequestServed, Idle
      <3> QED
        BY <3>1, NotEntered
    <2> QED
      BY <1>4, <2>1, <2>2, <2>3 DEF Ask
  <1>5. ASSUME UNCHANGED proc PROVE FALSE
    BY <1>5
  <1>6. ASSUME NEW p \in Slots, Page(p) PROVE FALSE
    BY <1>5, <1>6 DEF Page, Authorize, ExpirePairing
  <1>7. ASSUME NEW s \in sessions, ExpireSession(s) PROVE FALSE
    BY <1>5, <1>7 DEF ExpireSession
  <1>8. ASSUME NEW a \in Actors, Govern(a) PROVE FALSE
    BY <1>5, <1>8 DEF Govern, Suspend, Reinstate, RevokeBinding, BindCertificate
  <1>9. CASE UNCHANGED vars
    BY <1>5, <1>9 DEF vars
  <1> QED
    BY <1>1, <1>2, <1>3, <1>4, <1>6, <1>7, <1>8, <1>9 DEF Next

\* The second read of a request grants it, and only while it is backed.
LEMMA StepGrants ==
  ASSUME IInv, [Next]_vars, NEW q \in Procs,
         proc[q].pc # "granted", proc'[q].pc = "granted"
  PROVE  Backed(proc[q].s)
  <1>1. PICK r \in Procs : RequestDevice(r)
    BY EntersBy
  <1> QED
    BY <1>1, GrantIsBacked

\* Whatever revocation or pairing falls between the two reads of a request,
\* it is granted only while its session is backed.
THEOREM GrantsAreBacked == Spec => GrantedWhileBacked
  <1>1. IInv /\ [Next]_vars =>
          [\A q \in Procs :
             proc[q].pc # "granted" /\ proc'[q].pc = "granted" => Backed(proc[q].s)]_vars
    BY StepGrants
  <1> QED
    BY <1>1, InitIInv, NextIInv, PTL DEF Spec, GrantedWhileBacked

\* The completion that publishes a member's binding spends the pairing the
\* member authorized, and binds what it shows.
LEMMA CompletionSpends ==
  ASSUME IInv, NEW q \in Procs, CompleteWrite(q), NEW a \in Actors,
         Len(bindings'[a]) > Latest(a)
  PROVE  \E p \in Slots :
            /\ pairing[p] # NoPairing /\ ~pairing[p].consumed
            /\ pairing[p].actor = a
            /\ pairing'[p].consumed
            /\ bindings'[a][Len(bindings'[a])] = Binding(pairing[p].device, pairing[p].key)
  <1> DEFINE c == proc[q]
             p == c.p
             r == pairing[p]
             b == Binding(r.device, r.key)
             Row == [r EXCEPT !.consumed = TRUE]
  <1>1. Latest(a) \in Nat /\ Types
    BY Revoked DEF IInv
  <1>2. CompletionAdmitted(q)
    <2> SUFFICES ASSUME ~CompletionAdmitted(q) PROVE FALSE
      OBVIOUS
    <2>1. bindings' = bindings
      BY DEF CompleteWrite, Spent
    <2> QED
      BY <1>1, <2>1 DEF Latest
  <1>3. c.pc = "write"
    BY DEF CompleteWrite, Spent
  <1>4. p \in Slots /\ r # NoPairing /\ r.actor \in Actors
    BY <1>3 DEF IInv, Calls, CallOK, Writing
  <1>5. r \in PairingRow /\ ~r.consumed
    BY <1>2, <1>4 DEF IInv, Types, CompletionAdmitted
  <1>6. /\ bindings' = [bindings EXCEPT ![r.actor] = Append(RevokeActive(r.actor), b)]
        /\ pairing' = [pairing EXCEPT ![p] = Row]
    BY <1>2 DEF CompleteWrite, Spent
  <1>7. r.actor = a
    <2> SUFFICES ASSUME r.actor # a PROVE FALSE
      OBVIOUS
    <2>1. bindings'[a] = bindings[a]
      BY <1>1, <1>6 DEF Types
    <2> QED
      BY <1>1, <2>1 DEF Latest
  <1>8. Row.consumed
    BY <1>5 DEF PairingRow
  <1>9. pairing'[p] = Row
    BY <1>1, <1>4, <1>6 DEF Types
  <1>10. b \in BindingRow
    BY <1>5, KeysAreKeys DEF Binding, PairingRow, BindingRow
  <1>11. bindings'[a] = Append(RevokeActive(a), b)
    BY <1>1, <1>6, <1>7 DEF Types
  <1> HIDE DEF b, Row
  <1>12. bindings'[a][Len(bindings'[a])] = b
    BY <1>1, <1>10, <1>11, Published
  <1> QED
    BY <1>4, <1>5, <1>7, <1>8, <1>9, <1>12 DEF b

\* No other step publishes a device key.
LEMMA OnlyCompletions ==
  ASSUME IInv, [Next]_vars, NEW a \in Actors,
         Len(bindings'[a]) > Latest(a),
         bindings'[a][Len(bindings'[a])].key # Certificate
  PROVE  \E q \in Procs : CompleteWrite(q)
  <1> SUFFICES ASSUME \A q \in Procs : ~CompleteWrite(q) PROVE FALSE
    OBVIOUS
  <1>1. Latest(a) \in Nat /\ Types
    BY Revoked DEF IInv
  <1>2. ASSUME bindings' = bindings PROVE FALSE
    BY <1>1, <1>2 DEF Latest
  <1>3. ASSUME NEW q \in Procs, Start(q) PROVE FALSE
    BY <1>2, <1>3 DEF Start, StartOpen, CreatePairing, StartReturns, StartFails,
       StartTooLate, EndStart, server
  <1>4. ASSUME NEW q \in Procs, Complete(q) PROVE FALSE
    BY <1>2, <1>4 DEF Complete, FinishOpen, CompleteRead, Persist, GiveUp, Dies, server
  <1>5. ASSUME NEW q \in Procs, Renew(q) PROVE FALSE
    BY <1>2, <1>5 DEF Renew, RenewChallenge, RenewRead, RenewWrite, RenewReturns, server
  <1>6. ASSUME NEW q \in Procs, Ask(q) PROVE FALSE
    BY <1>2, <1>6 DEF Ask, RequestRead, RequestDevice, RequestServed, server
  <1>7. ASSUME NEW p \in Slots, Page(p) PROVE FALSE
    BY <1>2, <1>7 DEF Page, Authorize, ExpirePairing
  <1>8. ASSUME NEW s \in sessions, ExpireSession(s) PROVE FALSE
    BY <1>2, <1>8 DEF ExpireSession
  <1>9. ASSUME NEW b \in Actors, Suspend(b) \/ RevokeBinding(b) PROVE FALSE
    <2>1. bindings' = [bindings EXCEPT ![b] = RevokeActive(b)]
      BY <1>9 DEF Suspend, RevokeBinding
    <2>2. Len(RevokeActive(b)) = Latest(b)
      BY <1>1, Revoked
    <2>3. Len(bindings'[a]) = Latest(a)
      BY <1>1, <2>1, <2>2 DEF Types, Latest
    <2> QED
      BY <1>1, <2>3
  <1>10. ASSUME NEW b \in Actors, NEW d \in Devices, BindCertificate(b, d) PROVE FALSE
    <2> DEFINE c == Binding(d, Certificate)
               B == Append(RevokeActive(b), c)
    <2>1. bindings' = [bindings EXCEPT ![b] = B]
      BY <1>10 DEF BindCertificate
    <2>2. c \in BindingRow /\ c.key = Certificate
      BY DEF Binding, BindingRow, Certificate
    <2> HIDE DEF c
    <2>3. Len(B) = Latest(b) + 1 /\ B[Latest(b) + 1] = c
      BY <1>1, <2>2, Published
    <2> HIDE DEF B
    <2>4. CASE a = b
      <3>1. bindings'[a] = B
        BY <1>1, <2>1, <2>4 DEF Types
      <3> QED
        BY <2>2, <2>3, <2>4, <3>1
    <2>5. CASE a # b
      <3>1. bindings'[a] = bindings[a]
        BY <1>1, <2>1, <2>5 DEF Types
      <3> QED
        BY <1>1, <3>1 DEF Latest
    <2> QED
      BY <2>4, <2>5
  <1>11. ASSUME NEW b \in Actors, Govern(b) PROVE FALSE
    BY <1>2, <1>9, <1>10, <1>11 DEF Govern, Reinstate
  <1>12. CASE UNCHANGED vars
    BY <1>2, <1>12 DEF vars, server
  <1> QED
    BY <1>3, <1>4, <1>5, <1>6, <1>7, <1>8, <1>11, <1>12 DEF Next

\* Of all completions sent with one authorization, in whatever order they are
\* read and written, one publishes a binding, and it is the device and the key
\* the member authorized.
THEOREM AuthorizationsAreSpentOnce == Spec => AuthorizationSpentOnce
  <1> DEFINE A == \A a \in Actors :
        /\ Len(bindings'[a]) > Latest(a)
        /\ bindings'[a][Len(bindings'[a])].key # Certificate
        => \E p \in Slots :
            /\ pairing[p] # NoPairing /\ ~pairing[p].consumed
            /\ pairing[p].actor = a
            /\ pairing'[p].consumed
            /\ bindings'[a][Len(bindings'[a])] =
                 Binding(pairing[p].device, pairing[p].key)
  <1>1. ASSUME IInv, [Next]_vars PROVE A
    <2> SUFFICES ASSUME NEW a \in Actors, Len(bindings'[a]) > Latest(a),
                        bindings'[a][Len(bindings'[a])].key # Certificate
                 PROVE  \E p \in Slots :
                          /\ pairing[p] # NoPairing /\ ~pairing[p].consumed
                          /\ pairing[p].actor = a
                          /\ pairing'[p].consumed
                          /\ bindings'[a][Len(bindings'[a])] =
                               Binding(pairing[p].device, pairing[p].key)
      OBVIOUS
    <2>1. PICK q \in Procs : CompleteWrite(q)
      BY <1>1, OnlyCompletions
    <2> QED
      BY <1>1, <2>1, CompletionSpends
  <1>2. IInv /\ [Next]_vars => [A]_vars
    BY <1>1
  <1> HIDE DEF A
  <1>3. Spec => [][A]_vars
    BY <1>2, InitIInv, NextIInv, PTL DEF Spec
  <1> QED
    BY <1>3 DEF A, AuthorizationSpentOnce

-----------------------------------------------------------------------------
(* The binding file *)

\* The members and the devices that the control plane bound to each other by a
\* key of the device.
Made ==
    {x \in Actors \X Devices :
        \E v \in 1..Latest(x[1]) : /\ bindings[x[1]][v].device = x[2]
                                   /\ bindings[x[1]][v].key # Certificate}

\* What a command is about to write into the binding file was made, and so was
\* what the files say.
FilesMade ==
    /\ file = [m \in Machines |-> file[m]]
    /\ \A m \in Machines : Readable(m) => <<file[m].actor, file[m].device>> \in Made
    /\ \A q \in Procs : proc[q].pc = "persist" => <<proc[q].a, proc[q].d>> \in Made

\* A member's bindings are revoked, never taken away.
LEMMA MadeStays ==
  ASSUME IInv, NEW b \in Actors, NEW B,
         bindings' = [bindings EXCEPT ![b] = B],
         Len(B) \in Nat, Latest(b) <= Len(B),
         \A v \in 1..Latest(b) : /\ B[v].key = bindings[b][v].key
                                 /\ B[v].device = bindings[b][v].device
  PROVE  Made \subseteq Made'
  <1> SUFFICES ASSUME NEW x \in Made PROVE x \in Made'
    OBVIOUS
  <1>1. /\ x \in Actors \X Devices /\ x[1] \in Actors
        /\ Latest(b) \in Nat
    BY Revoked DEF Made, IInv
  <1>2. PICK v \in 1..Latest(x[1]) : /\ bindings[x[1]][v].device = x[2]
                                     /\ bindings[x[1]][v].key # Certificate
    BY DEF Made
  <1>3. /\ bindings'[b] = B
        /\ x[1] # b => bindings'[x[1]] = bindings[x[1]]
    BY <1>1 DEF IInv, Types
  <1>4. CASE x[1] # b
    <2>1. v \in 1..Len(bindings'[x[1]])
      BY <1>2, <1>3, <1>4 DEF Latest
    <2> QED
      BY <1>1, <1>2, <1>3, <1>4, <2>1 DEF Made, Latest
  <1>5. CASE x[1] = b
    <2>1. v \in 1..Len(B) /\ B[v].device = x[2] /\ B[v].key # Certificate
      BY <1>1, <1>2, <1>5
    <2> QED
      BY <1>1, <1>3, <1>5, <2>1 DEF Made, Latest
  <1> QED
    BY <1>4, <1>5

\* The completion command keeps the bindings there were and publishes the one
\* its Bridge goes on to write down.
LEMMA CompletionMakes ==
  ASSUME IInv, NEW q \in Procs, CompleteWrite(q)
  PROVE  /\ Made \subseteq Made'
         /\ proc'[q].pc = "persist" => <<proc'[q].a, proc'[q].d>> \in Made'
  <1> DEFINE c == proc[q]
             p == c.p
             r == pairing[p]
             a == r.actor
  <1>1. c.pc = "write"
    BY DEF CompleteWrite
  <1>2. p \in Slots /\ r # NoPairing /\ a \in Actors
    BY <1>1 DEF IInv, Calls, CallOK, Writing
  <1>3. r \in PairingRow
    BY <1>2 DEF IInv, Types
  <1>4. CASE ~CompletionAdmitted(q)
    <2>1. proc' = [proc EXCEPT ![q] = Idle] /\ bindings' = bindings
      BY <1>4 DEF CompleteWrite, Spent
    <2>2. proc'[q].pc = "idle"
      BY <2>1, OtherCalls DEF IInv, Idle
    <2> QED
      BY <2>1, <2>2 DEF Made, Latest
  <1>5. CASE CompletionAdmitted(q)
    <2> DEFINE b == Binding(r.device, r.key)
               B == Append(RevokeActive(a), b)
               x == IF c.waits THEN [pc |-> "persist", d |-> r.device, a |-> a] ELSE Idle
    <2>1. bindings' = [bindings EXCEPT ![a] = B] /\ proc' = [proc EXCEPT ![q] = x]
      BY <1>5 DEF CompleteWrite, Spent
    <2>2. /\ b \in BindingRow /\ b.device = r.device /\ b.key # Certificate
          /\ r.device \in Devices
      BY <1>3, KeysAreKeys DEF PairingRow, BindingRow, Binding
    <2>3. x.pc = "persist" => x.a = a /\ x.d = r.device
      BY DEF Idle
    <2> HIDE DEF b, x
    <2>4. /\ Len(B) = Latest(a) + 1 /\ B[Latest(a) + 1] = b /\ Latest(a) \in Nat
          /\ \A v \in 1..Latest(a) : /\ B[v].key = bindings[a][v].key
                                     /\ B[v].device = bindings[a][v].device
      BY <1>2, <2>2, Published, Revoked DEF IInv
    <2> HIDE DEF B
    <2>5. Made \subseteq Made'
      <3>1. Len(B) \in Nat /\ Latest(a) <= Len(B)
        BY <2>4
      <3> HIDE DEF a
      <3> QED
        BY <1>2, <2>1, <2>4, <3>1, MadeStays
    <2>6. bindings'[a] = B /\ proc'[q] = x
      BY <1>2, <2>1, OtherCalls DEF IInv, Types
    <2>7. <<a, r.device>> \in Made'
      <3>1. /\ Latest(a) + 1 \in 1..Len(bindings'[a])
            /\ bindings'[a][Latest(a) + 1] = b
        BY <2>4, <2>6
      <3> HIDE DEF a
      <3> QED
        BY <1>2, <2>2, <3>1 DEF Made, Latest
    <2> QED
      BY <2>3, <2>5, <2>6, <2>7
  <1> QED
    BY <1>4, <1>5

\* Whatever happens, what was bound stays in the history of its member.
LEMMA MadeForEver ==
  ASSUME IInv, [Next]_vars
  PROVE  Made \subseteq Made'
  <1>1. ASSUME bindings' = bindings PROVE Made \subseteq Made'
    BY <1>1 DEF Made, Latest
  <1>2. ASSUME NEW q \in Procs, Start(q) PROVE Made \subseteq Made'
    BY <1>1, <1>2 DEF Start, StartOpen, CreatePairing, StartReturns, StartFails,
       StartTooLate, EndStart, server
  <1>3. ASSUME NEW q \in Procs, Complete(q) PROVE Made \subseteq Made'
    <2>1. CASE CompleteWrite(q)
      BY <2>1, CompletionMakes
    <2>2. CASE ~CompleteWrite(q)
      <3>1. bindings' = bindings
        BY <1>3, <2>2 DEF Complete, FinishOpen, CompleteRead, Persist, GiveUp, Dies,
           server
      <3> QED
        BY <1>1, <3>1
    <2> QED
      BY <2>1, <2>2
  <1>4. ASSUME NEW q \in Procs, Renew(q) PROVE Made \subseteq Made'
    BY <1>1, <1>4 DEF Renew, RenewChallenge, RenewRead, RenewWrite, RenewReturns, server
  <1>5. ASSUME NEW q \in Procs, Ask(q) PROVE Made \subseteq Made'
    BY <1>1, <1>5 DEF Ask, RequestRead, RequestDevice, RequestServed, server
  <1>6. ASSUME NEW p \in Slots, Page(p) PROVE Made \subseteq Made'
    BY <1>1, <1>6 DEF Page, Authorize, ExpirePairing
  <1>7. ASSUME NEW s \in sessions, ExpireSession(s) PROVE Made \subseteq Made'
    BY <1>1, <1>7 DEF ExpireSession
  <1>8. ASSUME NEW b \in Actors, Suspend(b) \/ RevokeBinding(b) PROVE Made \subseteq Made'
    <2> DEFINE B == RevokeActive(b)
    <2>1. bindings' = [bindings EXCEPT ![b] = B]
      BY <1>8 DEF Suspend, RevokeBinding
    <2>2. /\ Len(B) = Latest(b) /\ Latest(b) \in Nat
          /\ \A v \in 1..Latest(b) :
               /\ B[v].key = bindings[b][v].key
               /\ B[v].device = bindings[b][v].device
      BY Revoked DEF IInv
    <2> HIDE DEF B
    <2>3. Len(B) \in Nat /\ Latest(b) <= Len(B)
      BY <2>2
    <2> QED
      BY <2>1, <2>2, <2>3, MadeStays
  <1>9. ASSUME NEW b \in Actors, NEW e \in Devices, BindCertificate(b, e)
        PROVE  Made \subseteq Made'
    <2> DEFINE c == Binding(e, Certificate)
               B == Append(RevokeActive(b), c)
    <2>1. bindings' = [bindings EXCEPT ![b] = B]
      BY <1>9 DEF BindCertificate
    <2>2. c \in BindingRow
      BY DEF Binding, BindingRow, Certificate
    <2> HIDE DEF c
    <2>3. /\ Len(B) = Latest(b) + 1 /\ Latest(b) \in Nat
          /\ \A v \in 1..Latest(b) : /\ B[v].key = bindings[b][v].key
                                     /\ B[v].device = bindings[b][v].device
      BY <2>2, Published, Revoked DEF IInv
    <2> HIDE DEF B
    <2>4. Len(B) \in Nat /\ Latest(b) <= Len(B)
      BY <2>3
    <2> QED
      BY <2>1, <2>3, <2>4, MadeStays
  <1>10. ASSUME NEW b \in Actors, Govern(b) PROVE Made \subseteq Made'
    BY <1>1, <1>8, <1>9, <1>10 DEF Govern, Reinstate
  <1>11. CASE UNCHANGED vars
    BY <1>1, <1>11 DEF vars, server
  <1> QED
    BY <1>2, <1>3, <1>4, <1>5, <1>6, <1>7, <1>10, <1>11 DEF Next

\* A command that has published leaves "persist" by writing the file or dying.
LEMMA PersistLeaves ==
  ASSUME IInv, [Next]_vars, NEW q \in Procs, proc[q].pc = "persist"
  PROVE  proc'[q] = proc[q] \/ Persist(q) \/ Dies(q)
  <1> USE DEF IInv, Types
  <1>1. ASSUME NEW r \in Procs, Start(r) PROVE proc'[q] = proc[q] \/ Dies(q)
    <2>1. proc[r].pc # "persist"
      BY <1>1 DEF Start, StartOpen, CreatePairing, StartReturns, StartFails,
         StartTooLate, EndStart, Idle
    <2> QED
      BY <1>1, <2>1 DEF Start, StartOpen, CreatePairing, StartReturns, StartFails,
         StartTooLate, EndStart
  <1>2. ASSUME NEW r \in Procs, Complete(r) PROVE proc'[q] = proc[q] \/ Persist(q) \/ Dies(q)
    <2>1. CASE r = q
      BY <1>2, <2>1 DEF Complete, FinishOpen, CompleteRead, CompleteWrite, GiveUp, Idle
    <2>2. CASE r # q
      BY <1>2, <2>2 DEF Complete, FinishOpen, CompleteRead, CompleteWrite, GiveUp,
         Persist, Dies
    <2> QED
      BY <2>1, <2>2
  <1>3. ASSUME NEW r \in Procs, Renew(r) PROVE proc'[q] = proc[q]
    <2>1. proc[r].pc # "persist"
      BY <1>3 DEF Renew, RenewChallenge, RenewRead, RenewWrite, RenewReturns, Idle
    <2> QED
      BY <1>3, <2>1 DEF Renew, RenewChallenge, RenewRead, RenewWrite, RenewReturns
  <1>4. ASSUME NEW r \in Procs, Ask(r) PROVE proc'[q] = proc[q]
    <2>1. proc[r].pc # "persist"
      BY <1>4 DEF Ask, RequestRead, RequestDevice, RequestServed, Idle
    <2> QED
      BY <1>4, <2>1 DEF Ask, RequestRead, RequestDevice, RequestServed
  <1>5. ASSUME NEW p \in Slots, Page(p) PROVE proc' = proc
    BY <1>5 DEF Page, Authorize, ExpirePairing
  <1>6. ASSUME NEW s \in sessions, ExpireSession(s) PROVE proc' = proc
    BY <1>6 DEF ExpireSession
  <1>7. ASSUME NEW a \in Actors, Govern(a) PROVE proc' = proc
    BY <1>7 DEF Govern, Suspend, Reinstate, RevokeBinding, BindCertificate
  <1>8. CASE UNCHANGED vars
    BY <1>8 DEF vars
  <1> QED
    BY <1>1, <1>2, <1>3, <1>4, <1>5, <1>6, <1>7, <1>8 DEF Next

\* A command at "persist" was there before, unchanged, or has just published.
LEMMA PersistersMade ==
  ASSUME IInv, FilesMade, [Next]_vars, NEW q \in Procs, proc'[q].pc = "persist"
  PROVE  <<proc'[q].a, proc'[q].d>> \in Made'
  <1>1. CASE CompleteWrite(q)
    BY <1>1, CompletionMakes
  <1>2. CASE ~CompleteWrite(q)
    <2>1. proc[q].pc = "persist"
      BY <1>2, EntersBy
    <2>2. ASSUME Persist(q) \/ Dies(q) PROVE FALSE
      <3>1. proc' = [proc EXCEPT ![q] = Idle]
        BY <2>2 DEF Persist, Dies
      <3> QED
        BY <3>1, OtherCalls DEF IInv, Idle
    <2>3. proc'[q] = proc[q]
      BY <2>1, <2>2, PersistLeaves
    <2> QED
      BY <2>1, <2>3, MadeForEver DEF FilesMade
  <1> QED
    BY <1>1, <1>2

\* Files are written by commands that published the binding, or torn.
LEMMA FilesStep == IInv /\ FilesMade /\ [Next]_vars => FilesMade'
  <1> SUFFICES ASSUME IInv, FilesMade, [Next]_vars PROVE FilesMade'
    OBVIOUS
  <1>1. /\ \A q \in Procs : proc'[q].pc = "persist" => <<proc'[q].a, proc'[q].d>> \in Made'
        /\ Made \subseteq Made'
    BY PersistersMade, MadeForEver
  <1>2. CASE file' = file
    BY <1>1, <1>2 DEF FilesMade, Readable
  <1>3. ASSUME NEW n \in Machines, NEW x, file' = [file EXCEPT ![n] = x],
               x \notin {NoFile, Torn} => <<x.actor, x.device>> \in Made
        PROVE  FilesMade'
    <2>1. /\ file' = [m \in Machines |-> file'[m]]
          /\ \A m \in Machines : file'[m] = IF m = n THEN x ELSE file[m]
      BY <1>3 DEF FilesMade
    <2>2. \A m \in Machines : Readable(m)' => <<file'[m].actor, file'[m].device>> \in Made'
      <3> SUFFICES ASSUME NEW m \in Machines, file'[m] \notin {NoFile, Torn}
                   PROVE  <<file'[m].actor, file'[m].device>> \in Made'
        BY DEF Readable
      <3> QED
        BY <1>1, <1>3, <2>1 DEF FilesMade, Readable
    <2> QED
      BY <1>1, <2>1, <2>2 DEF FilesMade
  <1>4. ASSUME NEW q \in Procs, proc[q].pc = "persist"
        PROVE  /\ MachineOf[proc[q].d] \in Machines
               /\ <<proc[q].a, proc[q].d>> \in Made
    BY <1>4, PairingAssumption DEF FilesMade, Made
  <1>5. ASSUME NEW q \in Procs, Persist(q) PROVE FilesMade'
    <2> DEFINE m == MachineOf[proc[q].d]
               new == [actor |-> proc[q].a, device |-> proc[q].d]
               x == IF file[m] = NoFile THEN new ELSE file[m]
    <2>1. proc[q].pc = "persist" /\ file' = [file EXCEPT ![m] = x]
      BY <1>5 DEF Persist
    <2>2. m \in Machines /\ <<new.actor, new.device>> \in Made
      BY <1>4, <2>1
    <2>3. x \notin {NoFile, Torn} => <<x.actor, x.device>> \in Made
      BY <2>2 DEF FilesMade, Readable
    <2> HIDE DEF m, x
    <2> QED
      BY <1>3, <2>1, <2>2, <2>3
  <1>6. ASSUME NEW q \in Procs, Dies(q) PROVE FilesMade'
    <2> DEFINE m == MachineOf[proc[q].d]
    <2>1. file' = file \/ (proc[q].pc = "persist" /\ file' = [file EXCEPT ![m] = Torn])
      BY <1>6 DEF Dies
    <2>2. proc[q].pc = "persist" => m \in Machines
      BY <1>4
    <2> HIDE DEF m
    <2> QED
      BY <1>2, <1>3, <2>1, <2>2
  <1>7. ASSUME file' # file
        PROVE  \E q \in Procs : Persist(q) \/ Dies(q)
    BY <1>7
    DEF Next, Start, StartOpen, CreatePairing, StartReturns, StartFails,
        StartTooLate, EndStart, Complete, FinishOpen, CompleteRead, CompleteWrite,
        GiveUp, Renew, RenewChallenge, RenewRead, RenewWrite, RenewReturns, Ask,
        RequestRead, RequestDevice, RequestServed, Page, Authorize, ExpirePairing,
        ExpireSession, Govern, Suspend, Reinstate, RevokeBinding, BindCertificate,
        computer, vars
  <1> QED
    BY <1>2, <1>5, <1>6, <1>7

\* Every binding file names a member and a device that the control plane bound
\* to each other by the device's key: a completion that was refused, or whose
\* reply was lost, leaves no file, and no revocation takes the history away.
THEOREM StoredBindingsWereMade == Spec => []StoredBindingWasMade
  <1>1. Init => IInv /\ FilesMade
    <2>1. Init => FilesMade
      BY DEF Init, FilesMade, Readable, Idle
    <2> QED
      BY <2>1, InitIInv
  <1>2. IInv /\ FilesMade /\ [Next]_vars => (IInv /\ FilesMade)'
    BY NextIInv, FilesStep
  <1>3. FilesMade => StoredBindingWasMade
    BY DEF FilesMade, Made, StoredBindingWasMade
  <1> QED
    BY <1>1, <1>2, <1>3, PTL DEF Spec

=============================================================================
