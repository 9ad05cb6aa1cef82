--------------------------- MODULE BridgeSaveProofs ---------------------------
(***************************************************************************)
(* Proofs about BridgeSave.tla for any number of devices, leases and       *)
(* browser sessions: what was closed is tracked until the head holds it,   *)
(* Saved is only said of what the head holds, a browser never starts       *)
(* behind what its device closed, and one close has one successor.         *)
(***************************************************************************)
EXTENDS BridgeSave, TLAPS

-----------------------------------------------------------------------------
(* The inductive invariant *)

Workspaces == UNION {[S -> SUBSET Content] : S \in SUBSET Dir}

Disk == [ws : Workspaces, bound : SUBSET Gen, intent : SUBSET Intent,
         attempt : SUBSET Attempt, stage : BOOLEAN]

Process == [pc : Pc, mode : {"save", "recover"}, epoch : 0 .. MaxEpoch,
            selected : Gen]

Server == [epoch : 0 .. MaxEpoch, holder : Devices \cup {NoDevice}, head : Gen,
           rows : SUBSET Request, wire : SUBSET Request]

Types ==
    /\ server \in Server
    /\ disk \in [Devices -> Disk]
    /\ proc \in [Devices -> Process]
    /\ edits \in 0 .. MaxEdits
    /\ closed \in [Devices -> SUBSET Edits]
    /\ saved \in SUBSET Edits

\* What a disk holds, whatever its process does: one intent and one checkpoint
\* at most, workspaces that contain what their generation is named for, and
\* evidence that leads forward from its base.
Coherent(k) ==
    /\ \A i, j \in k.intent : i = j
    /\ \A a, b \in k.attempt : a = b
    /\ k.bound \subseteq DOMAIN k.ws
    /\ \A g \in DOMAIN k.ws : \A b, c \in k.ws[g] : b = c
    /\ \A g \in DOMAIN k.ws : g \in Gen => \A c \in k.ws[g] : g.content \subseteq c
    /\ \A i \in k.intent :
          /\ i.base \in DOMAIN k.ws
          /\ i.base.content \subseteq i.content
          /\ \A c \in k.ws[i.base] : i.content \subseteq c
    /\ \A a \in k.attempt :
          /\ a.successor.content = a.content
          /\ a.base.content \subseteq a.content

Running == {"browsing", "closed", "staged"}
Making == {"linked", "retained", "cloning", "cloned", "sealing"}
Rescuing == {"rescue", "reserving", "reserved"}
Settling == {"claimed", "completing", "rebound"} \cup Rescuing
Landed == {"committed", "bound", "released", "completing", "rebound"}

\* What the place of the process says about the disk.
Points(k, p, head) ==
    /\ p.pc \in Running => p.selected \in DOMAIN k.ws
    /\ p.pc = "staged" => k.intent = {}
    /\ p.pc \in Running \cup Making \cup Rescuing => k.attempt = {}
    /\ p.pc \in Making => \A i \in k.intent : ~Editing(i)
    /\ p.pc = "cloning" => \A i \in k.intent : /\ Successor(i) \in DOMAIN k.ws
                                               /\ k.ws[Successor(i)] = {}
    /\ p.pc \in Rescuing => \A i \in k.intent : i.base = p.selected
    /\ p.pc = "reserved" => k.intent # {}
    /\ p.pc = "completing" => p.selected \in DOMAIN k.ws
    /\ p.pc \in Landed => \A a \in k.attempt : a.content \subseteq head.content

\* Requests lead forward, and what was applied is part of the head.
Journal ==
    /\ \A r \in server.wire : /\ r.base.content \subseteq r.successor.content
                              /\ r.epoch <= server.epoch
    /\ \A r \in server.rows : r.successor.content \subseteq server.head.content

\* A lease belongs to one process, and until that process has sent a request
\* nothing moves the head it claimed.
Leases ==
    /\ \A d \in Devices :
          /\ proc[d].epoch <= server.epoch
          /\ proc[d].pc # "down" => proc[d].epoch >= 1
          /\ proc[d].pc \in Settling /\ proc[d].epoch = server.epoch =>
                /\ proc[d].selected = server.head
                /\ \A r \in server.wire : r.epoch # server.epoch
    /\ \A d, e \in Devices :
          /\ proc[d].pc # "down" /\ proc[e].pc # "down"
          /\ proc[d].epoch = proc[e].epoch
          => d = e

IInv ==
    /\ Types
    /\ \A d \in Devices : Coherent(disk[d]) /\ Points(disk[d], proc[d], server.head)
    /\ Journal
    /\ Leases
    /\ ClosedIsTracked
    /\ SavedInHead

-----------------------------------------------------------------------------
(* Records of the state and what a write does to them *)

LEMMA WorkspacesAre ==
  \A w : w \in Workspaces <=> /\ DOMAIN w \subseteq Dir
                              /\ w \in [DOMAIN w -> SUBSET Content]
  BY DEF Workspaces

LEMMA MovedTo ==
  ASSUME NEW p \in Process, NEW pc \in Pc
  PROVE  LET q == [p EXCEPT !.pc = pc]
         IN /\ q \in Process
            /\ q.pc = pc
            /\ q.mode = p.mode /\ q.epoch = p.epoch /\ q.selected = p.selected
  BY DEF Process

LEMMA DownIs ==
  /\ Down \in Process
  /\ Down.pc = "down" /\ Down.epoch = 0
  BY SaveBounds DEF Down, Process, Pc, FirstGen, Gen, Content

LEMMA StageSet ==
  ASSUME NEW k \in Disk, NEW b \in BOOLEAN
  PROVE  LET n == [k EXCEPT !.stage = b]
         IN /\ n \in Disk
            /\ n.ws = k.ws /\ n.bound = k.bound /\ n.intent = k.intent
            /\ n.attempt = k.attempt
  BY DEF Disk

LEMMA IntentSet ==
  ASSUME NEW k \in Disk, NEW I \in SUBSET Intent
  PROVE  LET n == [k EXCEPT !.intent = I]
         IN /\ n \in Disk
            /\ n.ws = k.ws /\ n.bound = k.bound /\ n.intent = I
            /\ n.attempt = k.attempt
  BY DEF Disk

LEMMA AttemptSet ==
  ASSUME NEW k \in Disk, NEW A \in SUBSET Attempt
  PROVE  LET n == [k EXCEPT !.attempt = A]
         IN /\ n \in Disk
            /\ n.ws = k.ws /\ n.bound = k.bound /\ n.intent = k.intent
            /\ n.attempt = A
  BY DEF Disk

LEMMA BoundSet ==
  ASSUME NEW k \in Disk, NEW B \in SUBSET Gen
  PROVE  LET n == [k EXCEPT !.bound = B]
         IN /\ n \in Disk
            /\ n.ws = k.ws /\ n.bound = B /\ n.intent = k.intent
            /\ n.attempt = k.attempt
  BY DEF Disk

LEMMA DirMade ==
  ASSUME NEW k \in Disk, NEW g \in Dir, NEW x \in SUBSET Content
  PROVE  LET n == WithDir(k, g, x)
         IN /\ n \in Disk
            /\ DOMAIN n.ws = DOMAIN k.ws \cup {g}
            /\ n.ws[g] = x
            /\ \A h \in DOMAIN k.ws : h # g => n.ws[h] = k.ws[h]
            /\ n.bound = k.bound /\ n.intent = k.intent /\ n.attempt = k.attempt
  <1> DEFINE w == [h \in DOMAIN k.ws \cup {g} |-> IF h = g THEN x ELSE k.ws[h]]
             n == [k EXCEPT !.ws = w]
  <1>1. k.ws \in Workspaces
    BY DEF Disk
  <1>2. DOMAIN k.ws \subseteq Dir /\ \A h \in DOMAIN k.ws : k.ws[h] \in SUBSET Content
    BY <1>1, WorkspacesAre
  <1>3. DOMAIN w \subseteq Dir /\ w \in [DOMAIN w -> SUBSET Content]
    BY <1>2
  <1>4. w \in Workspaces
    BY <1>3, WorkspacesAre
  <1>5. /\ DOMAIN w = DOMAIN k.ws \cup {g} /\ w[g] = x
        /\ \A h \in DOMAIN k.ws : h # g => w[h] = k.ws[h]
    OBVIOUS
  <1> HIDE DEF w
  <1>6. /\ n \in Disk /\ n.ws = w
        /\ n.bound = k.bound /\ n.intent = k.intent /\ n.attempt = k.attempt
    BY <1>4 DEF Disk
  <1>7. WithDir(k, g, x) = n
    BY DEF WithDir, w
  <1> QED
    BY <1>5, <1>6, <1>7

\* The one directory that a browser writes to.
LEMMA DirWritten ==
  ASSUME NEW k \in Disk, NEW g \in DOMAIN k.ws, NEW e \in Edits
  PROVE  LET n == [k EXCEPT !.ws[g] = {c \cup {e} : c \in @}]
         IN /\ n \in Disk
            /\ DOMAIN n.ws = DOMAIN k.ws
            /\ n.ws[g] = {c \cup {e} : c \in k.ws[g]}
            /\ \A h \in DOMAIN k.ws : h # g => n.ws[h] = k.ws[h]
            /\ n.bound = k.bound /\ n.intent = k.intent /\ n.attempt = k.attempt
  <1> DEFINE x == {c \cup {e} : c \in k.ws[g]}
             w == [k.ws EXCEPT ![g] = x]
             n == [k EXCEPT !.ws = w]
  <1>1. k.ws \in Workspaces
    BY DEF Disk
  <1>2. DOMAIN k.ws \subseteq Dir /\ k.ws \in [DOMAIN k.ws -> SUBSET Content]
    BY <1>1, WorkspacesAre
  <1>3. x \in SUBSET Content
    BY <1>2 DEF Content
  <1>4. [k EXCEPT !.ws[g] = {c \cup {e} : c \in @}] = n
    OBVIOUS
  <1> HIDE DEF x
  <1>5. /\ DOMAIN w = DOMAIN k.ws /\ w[g] = x
        /\ \A h \in DOMAIN k.ws : h # g => w[h] = k.ws[h]
        /\ w \in [DOMAIN w -> SUBSET Content]
    BY <1>2, <1>3
  <1>6. w \in Workspaces
    BY <1>2, <1>5, WorkspacesAre
  <1> HIDE DEF w
  <1>7. /\ n \in Disk /\ n.ws = w
        /\ n.bound = k.bound /\ n.intent = k.intent /\ n.attempt = k.attempt
    BY <1>6 DEF Disk
  <1> QED
    BY <1>4, <1>5, <1>7 DEF x

-----------------------------------------------------------------------------
(* Steps of one device *)

\* A step of a device that leaves the head alone keeps the invariant if what it
\* leaves on its disk is coherent, fits the place it goes to, and tracks what
\* was closed.
LEMMA DeviceStep ==
  ASSUME IInv, NEW d \in Devices, NEW k \in Disk, NEW p \in Process, NEW C,
         disk' = [disk EXCEPT ![d] = k], proc' = [proc EXCEPT ![d] = p],
         closed' = [closed EXCEPT ![d] = C], C \in SUBSET Edits,
         edits' \in 0 .. MaxEdits,
         saved' \in SUBSET Edits, saved' \subseteq server.head.content,
         server' \in Server, server'.head = server.head,
         Journal', Leases',
         Coherent(k), Points(k, p, server.head),
         \A e \in C : \/ e \in server.head.content
                      \/ \E i \in k.intent : e \in i.content
                      \/ \E a \in k.attempt : e \in a.content
  PROVE  IInv'
  <1>1. /\ disk' \in [Devices -> Disk] /\ disk'[d] = k
        /\ \A e \in Devices : e # d => disk'[e] = disk[e]
    BY DEF IInv, Types
  <1>2. /\ proc' \in [Devices -> Process] /\ proc'[d] = p
        /\ \A e \in Devices : e # d => proc'[e] = proc[e]
    BY DEF IInv, Types
  <1>3. /\ closed' \in [Devices -> SUBSET Edits] /\ closed'[d] = C
        /\ \A e \in Devices : e # d => closed'[e] = closed[e]
    BY DEF IInv, Types
  <1>4. Types'
    BY <1>1, <1>2, <1>3 DEF Types
  <1>5. \A e \in Devices : /\ Coherent(disk'[e])
                           /\ Points(disk'[e], proc'[e], server'.head)
    <2> SUFFICES ASSUME NEW e \in Devices
                 PROVE  /\ Coherent(disk'[e])
                        /\ Points(disk'[e], proc'[e], server'.head)
      OBVIOUS
    <2>1. CASE e = d
      BY <1>1, <1>2, <2>1
    <2>2. CASE e # d
      BY <1>1, <1>2, <2>2 DEF IInv
    <2> QED
      BY <2>1, <2>2
  <1>6. ClosedIsTracked'
    <2> SUFFICES ASSUME NEW f \in Devices, NEW e \in closed'[f]
                 PROVE  \/ e \in server'.head.content
                        \/ \E i \in disk'[f].intent : e \in i.content
                        \/ \E a \in disk'[f].attempt : e \in a.content
      BY DEF ClosedIsTracked
    <2>1. CASE f = d
      BY <1>1, <1>3, <2>1
    <2>2. CASE f # d
      BY <1>1, <1>3, <2>2 DEF IInv, ClosedIsTracked
    <2> QED
      BY <2>1, <2>2
  <1>7. SavedInHead'
    BY DEF SavedInHead
  <1> QED
    BY <1>4, <1>5, <1>6, <1>7 DEF IInv

\* A process that keeps its lease, and does not turn back to the generation it
\* claimed, or that stops.
Keeps(p, q) ==
    \/ q.pc = "down" /\ q.epoch = 0
    \/ /\ p.pc # "down"
       /\ q.epoch = p.epoch /\ q.selected = p.selected
       /\ q.pc \in Settling => p.pc \in Settling

\* Nothing sent and nothing claimed leaves journal and leases as they are.
LEMMA ServerKept ==
  ASSUME IInv, NEW d \in Devices, NEW p \in Process,
         proc' = [proc EXCEPT ![d] = p], Keeps(proc[d], p),
         server'.epoch = server.epoch, server'.head = server.head,
         server'.wire = server.wire, server'.rows = server.rows
  PROVE  Journal' /\ Leases'
  <1>1. Journal'
    BY DEF IInv, Journal
  <1>2. /\ proc'[d] = p
        /\ \A e \in Devices : e # d => proc'[e] = proc[e]
    BY DEF IInv, Types
  <1>3. /\ server.epoch \in Nat
        /\ \A e \in Devices : proc[e].epoch \in Nat
    BY SaveBounds DEF IInv, Types, Server, Process
  <1>4. \A e \in Devices :
           /\ proc'[e].epoch <= server'.epoch
           /\ proc'[e].pc # "down" => proc'[e].epoch >= 1
           /\ proc'[e].pc \in Settling /\ proc'[e].epoch = server'.epoch =>
                 /\ proc'[e].selected = server'.head
                 /\ \A r \in server'.wire : r.epoch # server'.epoch
    <2> SUFFICES ASSUME NEW e \in Devices
                 PROVE  /\ proc'[e].epoch <= server'.epoch
                        /\ proc'[e].pc # "down" => proc'[e].epoch >= 1
                        /\ proc'[e].pc \in Settling /\ proc'[e].epoch = server'.epoch =>
                              /\ proc'[e].selected = server'.head
                              /\ \A r \in server'.wire : r.epoch # server'.epoch
      OBVIOUS
    <2>1. CASE e # d
      BY <1>2, <2>1 DEF IInv, Leases
    <2>2. CASE e = d /\ p.pc = "down" /\ p.epoch = 0
      BY <1>2, <1>3, <2>2 DEF Settling, Rescuing
    <2>3. CASE /\ e = d /\ proc[d].pc # "down"
               /\ p.epoch = proc[d].epoch /\ p.selected = proc[d].selected
               /\ p.pc \in Settling => proc[d].pc \in Settling
      BY <1>2, <2>3 DEF IInv, Leases
    <2> QED
      BY <2>1, <2>2, <2>3 DEF Keeps
  <1>5. \A e, f \in Devices :
           /\ proc'[e].pc # "down" /\ proc'[f].pc # "down"
           /\ proc'[e].epoch = proc'[f].epoch
           => e = f
    BY <1>2 DEF IInv, Leases, Keeps
  <1> QED
    BY <1>1, <1>4, <1>5 DEF Leases

\* The step of a device that neither the server nor the histories notice.
LEMMA LocalStep ==
  ASSUME IInv, NEW d \in Devices, NEW k \in Disk, NEW p \in Process,
         disk' = [disk EXCEPT ![d] = k], proc' = [proc EXCEPT ![d] = p],
         Keeps(proc[d], p), Coherent(k), Points(k, p, server.head),
         UNCHANGED <<server, edits, closed, saved>>,
         \A e \in closed[d] : \/ e \in server.head.content
                              \/ \E i \in k.intent : e \in i.content
                              \/ \E a \in k.attempt : e \in a.content
  PROVE  IInv'
  <1>1. Journal' /\ Leases'
    BY ServerKept
  <1>2. closed' = [closed EXCEPT ![d] = closed[d]] /\ closed[d] \in SUBSET Edits
    BY DEF IInv, Types
  <1>3. /\ edits' \in 0 .. MaxEdits /\ saved' \in SUBSET Edits
        /\ saved' \subseteq server.head.content
        /\ server' \in Server /\ server'.head = server.head
    BY DEF IInv, Types, SavedInHead
  <1> QED
    BY <1>1, <1>2, <1>3, DeviceStep

\* What is known of the device that steps.
LEMMA Known ==
  ASSUME IInv, NEW d \in Devices
  PROVE  /\ disk[d] \in Disk /\ proc[d] \in Process
         /\ Coherent(disk[d]) /\ Points(disk[d], proc[d], server.head)
         /\ proc[d].pc # "down" => proc[d].epoch \in 1 .. MaxEpoch
         /\ \A e \in closed[d] : \/ e \in server.head.content
                                 \/ \E i \in disk[d].intent : e \in i.content
                                 \/ \E a \in disk[d].attempt : e \in a.content
         /\ proc = [proc EXCEPT ![d] = proc[d]] /\ disk = [disk EXCEPT ![d] = disk[d]]
  BY SaveBounds DEF IInv, Types, Leases, ClosedIsTracked, Process

\* A process that only moves on keeps its disk coherent with its place.
LEMMA MoveStep ==
  ASSUME IInv, NEW d \in Devices, NEW pc \in Pc, Goto(d, pc), proc[d].pc # "down",
         UNCHANGED <<server, disk, edits, closed, saved>>,
         pc \in Settling => proc[d].pc \in Settling,
         Points(disk[d], [proc[d] EXCEPT !.pc = pc], server.head)
  PROVE  IInv'
  <1> DEFINE p == [proc[d] EXCEPT !.pc = pc]
  <1>1. proc' = [proc EXCEPT ![d] = p]
    BY DEF Goto
  <1>2. /\ p \in Process /\ Keeps(proc[d], p)
    BY Known, MovedTo DEF Keeps
  <1> HIDE DEF p
  <1>3. disk' = [disk EXCEPT ![d] = disk[d]]
    BY Known
  <1> QED
    BY <1>1, <1>2, <1>3, Known, LocalStep DEF p

LEMMA StopStep ==
  ASSUME IInv, NEW d \in Devices, Stop(d), UNCHANGED <<server, disk, edits, closed, saved>>
  PROVE  IInv'
  <1>1. proc' = [proc EXCEPT ![d] = Down]
    BY DEF Stop
  <1>2. Down \in Process /\ Keeps(proc[d], Down)
    BY DownIs DEF Keeps
  <1>3. Points(disk[d], Down, server.head)
    BY DownIs DEF Points, Running, Making, Rescuing, Landed
  <1>4. disk' = [disk EXCEPT ![d] = disk[d]]
    BY Known
  <1> QED
    BY <1>1, <1>2, <1>3, <1>4, Known, LocalStep

\* Steps that write nothing.
LEMMA QuietStep ==
  ASSUME IInv, NEW d \in Devices,
         \/ CloseBrowser(d) \/ Crash(d) \/ Blocked(d) \/ ReuseClone(d)
         \/ CommitReply(d) \/ CommitUncertain(d)
         \/ ResumeExact(d) \/ ResumeLone(d) \/ NeedRescue(d)
  PROVE  IInv'
  <1> DEFINE k == disk[d]
             P(pc) == [proc[d] EXCEPT !.pc = pc]
  <1> USE DEF Running, Making, Rescuing, Landed, Settling
  <1>1. /\ \A pc \in Pc : P(pc).pc = pc /\ P(pc).selected = proc[d].selected
        /\ k \in Disk /\ Coherent(k) /\ Points(k, proc[d], server.head)
    BY Known, MovedTo
  <1>2. CASE CloseBrowser(d)
    <2>1. proc[d].pc = "browsing" /\ Goto(d, "closed") /\ "closed" \in Pc
      BY <1>2 DEF CloseBrowser, At, Pc
    <2>2. Points(k, P("closed"), server.head)
      BY <1>1, <2>1 DEF Points
    <2> QED
      BY <1>2, <2>1, <2>2, MoveStep DEF CloseBrowser
  <1>3. CASE Crash(d) \/ Blocked(d)
    BY <1>3, StopStep DEF Crash, Blocked
  <1>4. CASE ReuseClone(d)
    <2>1. proc[d].pc = "retained" /\ Goto(d, "cloned") /\ "cloned" \in Pc
      BY <1>4 DEF ReuseClone, At, Pc
    <2>2. Points(k, P("cloned"), server.head)
      BY <1>1, <2>1 DEF Points
    <2> QED
      BY <1>4, <2>1, <2>2, MoveStep DEF ReuseClone
  <1>5. CASE CommitReply(d)
    <2>1. proc[d].pc = "committing" /\ Goto(d, "committed") /\ "committed" \in Pc
      BY <1>5 DEF CommitReply, At, Pc
    <2>2. \A a \in k.attempt : a.content \subseteq server.head.content
      <3> SUFFICES ASSUME NEW a \in k.attempt
                   PROVE  a.content \subseteq server.head.content
        OBVIOUS
      <3> DEFINE r == [base |-> a.base, successor |-> a.successor, epoch |-> proc[d].epoch]
      <3>1. r \in server.rows
        BY <1>5 DEF CommitReply, RequestOf
      <3>2. r.successor.content \subseteq server.head.content
        BY <3>1 DEF IInv, Journal
      <3> QED
        BY <1>1, <3>2 DEF Coherent
    <2>3. Points(k, P("committed"), server.head)
      BY <1>1, <2>1, <2>2 DEF Points
    <2> QED
      BY <1>5, <2>1, <2>3, MoveStep DEF CommitReply
  <1>6. CASE CommitUncertain(d)
    <2>1. CASE proc[d].mode = "save"
      <3>1. proc[d].pc = "committing" /\ Goto(d, "publishing") /\ "publishing" \in Pc
        BY <1>6, <2>1 DEF CommitUncertain, At, Pc
      <3>2. Points(k, P("publishing"), server.head)
        BY <1>1, <3>1 DEF Points
      <3> QED
        BY <1>6, <3>1, <3>2, MoveStep DEF CommitUncertain
    <2>2. CASE proc[d].mode # "save"
      BY <1>6, <2>2, StopStep DEF CommitUncertain
    <2> QED
      BY <2>1, <2>2
  <1>7. CASE ResumeExact(d)
    <2>1. proc[d].pc = "claimed" /\ Goto(d, "publishing") /\ "publishing" \in Pc
      BY <1>7 DEF ResumeExact, At, Pc
    <2>2. Points(k, P("publishing"), server.head)
      BY <1>1, <2>1 DEF Points
    <2> QED
      BY <1>7, <2>1, <2>2, MoveStep DEF ResumeExact
  <1>8. CASE ResumeLone(d)
    <2>1. proc[d].pc = "claimed" /\ Goto(d, "retained") /\ "retained" \in Pc
      BY <1>8 DEF ResumeLone, At, Pc
    <2>2. PICK i \in k.intent : k.attempt = {} /\ ~Editing(i)
      BY <1>8 DEF ResumeLone, Source, LoneIntent
    <2>3. \A j \in k.intent : j = i
      BY <1>1 DEF Coherent
    <2>4. Points(k, P("retained"), server.head)
      BY <1>1, <2>1, <2>2, <2>3 DEF Points
    <2> QED
      BY <1>8, <2>1, <2>4, MoveStep DEF ResumeLone
  <1>9. CASE NeedRescue(d)
    <2>1. proc[d].pc = "claimed" /\ Goto(d, "rescue") /\ "rescue" \in Pc
      BY <1>9 DEF NeedRescue, At, Pc
    <2>2. PICK i \in k.intent : k.attempt = {} /\ i.base = proc[d].selected
      BY <1>9 DEF NeedRescue, Source, LoneIntent, InterruptedRescue
    <2>3. \A j \in k.intent : j = i
      BY <1>1 DEF Coherent
    <2>4. Points(k, P("rescue"), server.head)
      BY <1>1, <2>1, <2>2, <2>3 DEF Points
    <2> QED
      BY <1>9, <2>1, <2>4, MoveStep DEF NeedRescue
  <1> QED
    BY <1>2, <1>3, <1>4, <1>5, <1>6, <1>7, <1>8, <1>9

\* A step that moves on and writes the disk.
LEMMA WriteStep ==
  ASSUME IInv, NEW d \in Devices, NEW k \in Disk, NEW pc \in Pc,
         disk' = [disk EXCEPT ![d] = k], Goto(d, pc), proc[d].pc # "down",
         UNCHANGED <<server, edits, closed, saved>>,
         pc \in Settling => proc[d].pc \in Settling,
         Coherent(k), Points(k, [proc[d] EXCEPT !.pc = pc], server.head),
         \A e \in closed[d] : \/ e \in server.head.content
                              \/ \E i \in k.intent : e \in i.content
                              \/ \E a \in k.attempt : e \in a.content
  PROVE  IInv'
  <1> DEFINE p == [proc[d] EXCEPT !.pc = pc]
  <1>1. proc' = [proc EXCEPT ![d] = p]
    BY DEF Goto
  <1>2. /\ p \in Process /\ Keeps(proc[d], p)
    BY Known, MovedTo DEF Keeps
  <1> HIDE DEF p
  <1> QED
    BY <1>1, <1>2, LocalStep DEF p

\* The stage of a record comes and goes.
LEMMA StagingStep ==
  ASSUME IInv, NEW d \in Devices,
         \/ StageIntent(d) \/ UnstageIntent(d) \/ StageAttempt(d) \/ UnstageAttempt(d)
  PROVE  IInv'
  <1> DEFINE P(pc) == [proc[d] EXCEPT !.pc = pc]
  <1> USE DEF Running, Making, Rescuing, Landed, Settling
  <1>1. /\ \A pc \in Pc : P(pc).pc = pc /\ P(pc).selected = proc[d].selected
        /\ disk[d] \in Disk /\ Coherent(disk[d]) /\ Points(disk[d], proc[d], server.head)
    BY Known, MovedTo
  <1>2. ASSUME NEW b \in BOOLEAN, NEW pc \in Pc, disk' = [disk EXCEPT ![d].stage = b],
               Goto(d, pc), proc[d].pc # "down", pc \notin Settling,
               UNCHANGED <<server, edits, closed, saved>>,
               Points(disk[d], P(pc), server.head)
        PROVE  IInv'
    <2> DEFINE k == [disk[d] EXCEPT !.stage = b]
    <2>1. disk' = [disk EXCEPT ![d] = k]
      BY <1>2
    <2>2. /\ k \in Disk /\ k.ws = disk[d].ws /\ k.bound = disk[d].bound
          /\ k.intent = disk[d].intent /\ k.attempt = disk[d].attempt
      BY <1>1, StageSet
    <2> HIDE DEF k
    <2>3. Coherent(k)
      BY <1>1, <2>2 DEF Coherent
    <2>4. Points(k, P(pc), server.head)
      BY <1>2, <2>2 DEF Points
    <2> QED
      BY <1>2, <2>1, <2>2, <2>3, <2>4, Known, WriteStep
  <1>3. CASE StageIntent(d)
    <2>1. /\ proc[d].pc = "closed" /\ disk[d].intent = {} /\ "staged" \in Pc
          /\ disk' = [disk EXCEPT ![d].stage = TRUE] /\ Goto(d, "staged")
          /\ UNCHANGED <<server, edits, closed, saved>>
      BY <1>3 DEF StageIntent, At, Pc
    <2>2. Points(disk[d], P("staged"), server.head)
      BY <1>1, <2>1 DEF Points
    <2> QED
      BY <1>2, <2>1, <2>2
  <1>4. CASE UnstageIntent(d)
    <2>1. /\ proc[d].pc = "linked" /\ "retained" \in Pc
          /\ disk' = [disk EXCEPT ![d].stage = FALSE] /\ Goto(d, "retained")
          /\ UNCHANGED <<server, edits, closed, saved>>
      BY <1>4 DEF UnstageIntent, At, Pc
    <2>2. Points(disk[d], P("retained"), server.head)
      BY <1>1, <2>1 DEF Points
    <2> QED
      BY <1>2, <2>1, <2>2
  <1>5. CASE StageAttempt(d)
    <2>1. /\ proc[d].pc = "cloned" /\ "sealing" \in Pc
          /\ disk' = [disk EXCEPT ![d].stage = TRUE] /\ Goto(d, "sealing")
          /\ UNCHANGED <<server, edits, closed, saved>>
      BY <1>5 DEF StageAttempt, At, Pc
    <2>2. Points(disk[d], P("sealing"), server.head)
      BY <1>1, <2>1 DEF Points
    <2> QED
      BY <1>2, <2>1, <2>2
  <1>6. CASE UnstageAttempt(d)
    <2>1. /\ proc[d].pc = "sealed" /\ "publishing" \in Pc
          /\ disk' = [disk EXCEPT ![d].stage = FALSE] /\ Goto(d, "publishing")
          /\ UNCHANGED <<server, edits, closed, saved>>
      BY <1>6 DEF UnstageAttempt, At, Pc
    <2>2. Points(disk[d], P("publishing"), server.head)
      BY <1>1, <2>1 DEF Points
    <2> QED
      BY <1>2, <2>1, <2>2
  <1> QED
    BY <1>3, <1>4, <1>5, <1>6

\* The intent of a close replaces what the disk had, and holds no less.
LEMMA ClosingStep ==
  ASSUME IInv, NEW d \in Devices, NEW I \in SUBSET Intent, NEW pc \in {"linked", "retained"},
         proc[d].pc \in {"closed", "staged"},
         \A i, j \in I : i = j,
         \A i \in I : /\ i.base = proc[d].selected /\ ~Editing(i)
                      /\ i.content \in disk[d].ws[proc[d].selected],
         \A j \in disk[d].intent : \E i \in I : j.content \subseteq i.content,
         disk' = [disk EXCEPT ![d].intent = I], Goto(d, pc),
         closed' = [closed EXCEPT ![d] = closed[d] \cup UNION {i.content : i \in I}],
         UNCHANGED <<server, edits, saved>>
  PROVE  IInv'
  <1> DEFINE k == [disk[d] EXCEPT !.intent = I]
             p == [proc[d] EXCEPT !.pc = pc]
             s == proc[d].selected
             C == closed[d] \cup UNION {i.content : i \in I}
  <1> USE DEF Running, Making, Rescuing, Landed, Settling
  <1>1. /\ disk[d] \in Disk /\ Coherent(disk[d]) /\ Points(disk[d], proc[d], server.head)
        /\ proc[d] \in Process /\ s \in Gen /\ pc \in Pc /\ proc[d].pc # "down"
    BY Known DEF Process, Pc
  <1>2. /\ p \in Process /\ p.pc = pc /\ p.selected = s /\ Keeps(proc[d], p)
    BY <1>1, MovedTo DEF Keeps
  <1>3. disk' = [disk EXCEPT ![d] = k] /\ proc' = [proc EXCEPT ![d] = p]
    BY DEF Goto
  <1>4. /\ k \in Disk /\ k.ws = disk[d].ws /\ k.bound = disk[d].bound
        /\ k.intent = I /\ k.attempt = disk[d].attempt
    BY <1>1, IntentSet
  <1> HIDE DEF k, p
  <1>5. s \in DOMAIN k.ws /\ \A c \in k.ws[s] : s.content \subseteq c
    BY <1>1, <1>4 DEF Points, Coherent
  <1>6. \A i \in k.intent : /\ i.base \in DOMAIN k.ws
                            /\ i.base.content \subseteq i.content
                            /\ \A c \in k.ws[i.base] : i.content \subseteq c
    <2> SUFFICES ASSUME NEW i \in I PROVE
                  /\ i.base \in DOMAIN k.ws
                  /\ i.base.content \subseteq i.content
                  /\ \A c \in k.ws[i.base] : i.content \subseteq c
      BY <1>4
    <2>1. i.base = s /\ i.content \in k.ws[s]
      BY <1>4
    <2>2. \A c \in k.ws[s] : c = i.content
      BY <1>1, <1>4, <1>5, <2>1 DEF Coherent
    <2> QED
      BY <1>5, <2>1, <2>2
  <1>7. Coherent(k)
    BY <1>1, <1>4, <1>6 DEF Coherent
  <1>8. Points(k, p, server.head)
    BY <1>1, <1>2, <1>4 DEF Points
  <1>9. C \in SUBSET Edits
    <2>1. \A i \in I : i.content \subseteq Edits
      BY DEF Intent, Content
    <2> QED
      BY <2>1 DEF IInv, Types
  <1>10. \A e \in C : \/ e \in server.head.content
                      \/ \E i \in k.intent : e \in i.content
                      \/ \E a \in k.attempt : e \in a.content
    <2>1. \A e \in closed[d] : \/ e \in server.head.content
                               \/ \E i \in disk[d].intent : e \in i.content
                               \/ \E a \in disk[d].attempt : e \in a.content
      BY Known
    <2> QED
      BY <1>4, <2>1
  <1>11. Journal' /\ Leases'
    BY <1>2, <1>3, ServerKept
  <1>12. /\ edits' \in 0 .. MaxEdits /\ saved' \in SUBSET Edits
         /\ saved' \subseteq server.head.content
         /\ server' \in Server /\ server'.head = server.head
    BY DEF IInv, Types, SavedInHead
  <1>13. closed' = [closed EXCEPT ![d] = C]
    OBVIOUS
  <1> HIDE DEF C
  <1> QED
    BY <1>2, <1>3, <1>4, <1>7, <1>8, <1>9, <1>10, <1>11, <1>12, <1>13, DeviceStep

\* The intents that IntentOf describes.
LEMMA IntentsOf ==
  ASSUME IInv, NEW d \in Devices, proc[d].pc \in {"closed", "staged"}
  PROVE  /\ IntentOf(d) \in SUBSET Intent
         /\ \A i, j \in IntentOf(d) : i = j
         /\ \A i \in IntentOf(d) : /\ i.base = proc[d].selected
                                   /\ i.epoch = proc[d].epoch
                                   /\ i.rescue = {}
                                   /\ i.content \in disk[d].ws[proc[d].selected]
         /\ \A c \in disk[d].ws[proc[d].selected] : \E i \in IntentOf(d) : i.content = c
  <1> DEFINE s == proc[d].selected
  <1>1. /\ s \in Gen /\ proc[d].epoch \in 1 .. MaxEpoch
        /\ s \in DOMAIN disk[d].ws /\ disk[d].ws \in Workspaces
    BY Known DEF Process, Points, Running, Disk
  <1>2. disk[d].ws[s] \subseteq Content /\ \A b, c \in disk[d].ws[s] : b = c
    BY <1>1, Known, WorkspacesAre DEF Coherent
  <1> DEFINE N(c) == [base |-> s, epoch |-> proc[d].epoch, content |-> c, rescue |-> {}]
  <1>3. \A c \in Content : /\ N(c) \in Intent /\ N(c).base = s
                           /\ N(c).epoch = proc[d].epoch
                           /\ N(c).content = c /\ N(c).rescue = {}
    BY <1>1 DEF Intent
  <1>4. IntentOf(d) = {N(c) : c \in disk[d].ws[s]}
    BY DEF IntentOf
  <1> HIDE DEF N
  <1> QED
    BY <1>2, <1>3, <1>4

LEMMA CloseStep ==
  ASSUME IInv, NEW d \in Devices, LinkIntent(d) \/ ReplaceIntent(d)
  PROVE  IInv'
  <1> DEFINE s == proc[d].selected
             k == disk[d]
  <1>1. Coherent(k) /\ Points(k, proc[d], server.head) /\ k \in Disk
    BY Known
  <1>2. CASE LinkIntent(d)
    <2> DEFINE I == IntentOf(d)
    <2>1. /\ proc[d].pc = "staged" /\ disk' = [disk EXCEPT ![d].intent = I]
          /\ Goto(d, "linked") /\ UNCHANGED <<server, edits, saved>>
          /\ closed' = [closed EXCEPT ![d] = closed[d] \cup UNION k.ws[s]]
      BY <1>2 DEF LinkIntent, At
    <2>2. /\ I \in SUBSET Intent /\ \A i, j \in I : i = j
          /\ \A i \in I : /\ i.base = s /\ i.rescue = {} /\ i.content \in k.ws[s]
          /\ \A c \in k.ws[s] : \E i \in I : i.content = c
      BY <2>1, IntentsOf
    <2> HIDE DEF I
    <2>3. UNION k.ws[s] = UNION {i.content : i \in I}
      BY <2>2
    <2>4. \A i \in I : ~Editing(i)
      BY <2>2 DEF Editing
    <2>5. k.intent = {}
      BY <1>1, <2>1 DEF Points
    <2> QED
      BY <2>1, <2>2, <2>3, <2>4, <2>5, ClosingStep
  <1>3. CASE ReplaceIntent(d)
    <2>1. PICK i \in k.intent, n \in IntentOf(d), r \in UNION {j.rescue : j \in k.intent} :
             /\ i.base = n.base
             /\ disk' = [disk EXCEPT ![d].intent =
                           {[n EXCEPT !.rescue = {[r EXCEPT !.phase = "Closed"]}]}]
             /\ closed' = [closed EXCEPT ![d] = @ \cup n.content]
      BY <1>3 DEF ReplaceIntent
    <2> DEFINE q == [r EXCEPT !.phase = "Closed"]
               m == [n EXCEPT !.rescue = {q}]
               I == {m}
    <2>2. /\ proc[d].pc = "closed" /\ Goto(d, "retained")
          /\ UNCHANGED <<server, edits, saved>>
      BY <1>3 DEF ReplaceIntent, At
    <2>3. n \in Intent /\ n.base = s /\ n.content \in k.ws[s]
      BY <2>2, IntentsOf
    <2>4. r \in Rescue
      BY <1>1 DEF Disk, Intent
    <2>5. q \in Rescue /\ q.phase = "Closed"
      BY <2>4 DEF Rescue
    <2> HIDE DEF q
    <2>6. m \in Intent /\ m.base = s /\ m.content = n.content /\ m.rescue = {q}
      BY <2>3, <2>5 DEF Intent
    <2>7. disk' = [disk EXCEPT ![d].intent = I]
      BY <2>1 DEF q
    <2> HIDE DEF m
    <2>8. ~Editing(m)
      BY <2>5, <2>6 DEF Editing
    <2>9. \A j \in k.intent : j.content \subseteq m.content
      BY <1>1, <2>1, <2>3, <2>6 DEF Coherent
    <2>10. closed' = [closed EXCEPT ![d] = closed[d] \cup UNION {j.content : j \in I}]
      BY <2>1, <2>6
    <2>11. /\ I \in SUBSET Intent /\ \A i1, i2 \in I : i1 = i2
           /\ \A j \in I : j.base = s /\ ~Editing(j) /\ j.content \in k.ws[s]
           /\ \A j \in k.intent : \E l \in I : j.content \subseteq l.content
      BY <2>3, <2>6, <2>8, <2>9
    <2> HIDE DEF I
    <2> QED
      BY <2>2, <2>7, <2>10, <2>11, ClosingStep
  <1> QED
    BY <1>2, <1>3

\* An intent goes once its checkpoint is there.
LEMMA RetireStep ==
  ASSUME IInv, NEW d \in Devices, RetireIntent(d) \/ CompleteActive(d)
  PROVE  IInv'
  <1> DEFINE D == disk[d]
             k == [D EXCEPT !.intent = {}]
  <1> USE DEF Running, Making, Rescuing, Landed, Settling
  <1>1. D \in Disk /\ Coherent(D) /\ Points(D, proc[d], server.head) /\ proc[d] \in Process
    BY Known
  <1>2. disk' = [disk EXCEPT ![d] = k]
    BY DEF RetireIntent, CompleteActive
  <1>3. /\ k \in Disk /\ k.ws = D.ws /\ k.bound = D.bound /\ k.intent = {}
        /\ k.attempt = D.attempt
    BY <1>1, IntentSet
  <1> HIDE DEF k
  <1>4. Coherent(k)
    BY <1>1, <1>3 DEF Coherent
  <1>5. PICK a \in Exact(D) : CompleteActive(d) => /\ a.successor = proc[d].selected
                                                   /\ server.head = a.successor
    BY DEF RetireIntent, CompleteActive
  <1>6. /\ a \in D.attempt /\ a.successor \in DOMAIN D.ws
        /\ \A i \in D.intent : i.content = a.content
    BY <1>5 DEF Exact, Matches, Holds
  <1>7. \A e \in closed[d] : \/ e \in server.head.content
                             \/ \E i \in k.intent : e \in i.content
                             \/ \E b \in k.attempt : e \in b.content
    BY <1>3, <1>6, Known
  <1>8. CASE RetireIntent(d)
    <2>1. /\ proc[d].pc = "publishing" /\ proc' = [proc EXCEPT ![d] = proc[d]]
          /\ UNCHANGED <<server, edits, closed, saved>>
      BY <1>8, Known DEF RetireIntent, At
    <2>2. Points(k, proc[d], server.head) /\ Keeps(proc[d], proc[d])
      BY <1>1, <1>3, <2>1 DEF Points, Keeps
    <2> QED
      BY <1>1, <1>2, <1>3, <1>4, <1>7, <2>1, <2>2, LocalStep
  <1>9. CASE CompleteActive(d)
    <2> DEFINE p == [proc[d] EXCEPT !.pc = "completing"]
    <2>1. /\ proc[d].pc = "claimed" /\ Goto(d, "completing") /\ "completing" \in Pc
          /\ UNCHANGED <<server, edits, closed, saved>>
      BY <1>9 DEF CompleteActive, At, Pc
    <2>2. p.pc = "completing" /\ p.selected = proc[d].selected
      BY <1>1, <2>1, MovedTo
    <2>3. \A b \in k.attempt : b.content \subseteq server.head.content
      BY <1>1, <1>3, <1>5, <1>6, <1>9 DEF Coherent
    <2> HIDE DEF p
    <2>4. Points(k, p, server.head)
      BY <1>3, <1>5, <1>6, <1>9, <2>2, <2>3 DEF Points
    <2> QED
      BY <1>2, <1>3, <1>4, <1>7, <2>1, <2>4, WriteStep DEF p
  <1> QED
    BY <1>8, <1>9

\* The Editing record keeps the content of the intent it replaces.
LEMMA RescueBegins ==
  ASSUME IInv, NEW d \in Devices, BeginRescue(d)
  PROVE  IInv'
  <1> DEFINE D == disk[d]
             p == [proc[d] EXCEPT !.pc = "reserved"]
  <1> USE DEF Running, Making, Rescuing, Landed, Settling
  <1>1. /\ D \in Disk /\ Coherent(D) /\ Points(D, proc[d], server.head)
        /\ proc[d] \in Process
    BY Known
  <1>2. /\ proc[d].pc = "rescue" /\ Goto(d, "reserved") /\ "reserved" \in Pc
        /\ UNCHANGED <<server, edits, closed, saved>>
        /\ proc[d].epoch \in 1 .. MaxEpoch
    BY Known DEF BeginRescue, At, Pc
  <1>3. PICK i \in Source(d) \cup InterruptedRescue(D, proc[d].epoch, proc[d].selected) :
           disk' = [disk EXCEPT ![d].intent =
              {[i EXCEPT !.epoch = proc[d].epoch,
                         !.rescue = {[reserve |-> ReserveOf(i), phase |-> "Editing"]}]}]
    BY DEF BeginRescue
  <1>4. i \in D.intent /\ i \in Intent
    BY <1>1 DEF Source, LoneIntent, InterruptedRescue, Disk
  <1>5. ReserveOf(i) \in Dir
    <2>1. CASE i.rescue = {}
      BY <1>4, <2>1, SaveBounds DEF ReserveOf, Reserve, Dir, Intent
    <2>2. CASE i.rescue # {}
      <3>1. (CHOOSE r \in i.rescue : TRUE) \in Rescue
        BY <1>4, <2>2 DEF Intent
      <3> QED
        BY <2>2, <3>1 DEF ReserveOf, Rescue
    <2> QED
      BY <2>1, <2>2
  <1> DEFINE q == [reserve |-> ReserveOf(i), phase |-> "Editing"]
             n == [i EXCEPT !.epoch = proc[d].epoch, !.rescue = {q}]
             k == [D EXCEPT !.intent = {n}]
  <1>6. q \in Rescue
    BY <1>5 DEF Rescue
  <1>7. disk' = [disk EXCEPT ![d] = k]
    BY <1>3
  <1> HIDE DEF q
  <1>8. n \in Intent /\ n.base = i.base /\ n.content = i.content
    BY <1>2, <1>4, <1>6 DEF Intent
  <1> HIDE DEF n
  <1>9. /\ k \in Disk /\ k.ws = D.ws /\ k.bound = D.bound /\ k.intent = {n}
        /\ k.attempt = D.attempt
    BY <1>1, <1>8, IntentSet
  <1> HIDE DEF k
  <1>10. \A j \in D.intent : j = i
    BY <1>1, <1>4 DEF Coherent
  <1>11. Coherent(k)
    BY <1>1, <1>4, <1>8, <1>9 DEF Coherent
  <1>12. p.pc = "reserved" /\ p.selected = proc[d].selected
    BY <1>1, <1>2, MovedTo
  <1>13. n.base = proc[d].selected /\ D.attempt = {}
    BY <1>1, <1>2, <1>4, <1>8 DEF Points
  <1> HIDE DEF p
  <1>14. Points(k, p, server.head)
    BY <1>9, <1>12, <1>13 DEF Points
  <1>15. \A e \in closed[d] : \/ e \in server.head.content
                              \/ \E j \in k.intent : e \in j.content
                              \/ \E b \in k.attempt : e \in b.content
    BY <1>8, <1>9, <1>10, Known
  <1> QED
    BY <1>2, <1>7, <1>9, <1>11, <1>14, <1>15, WriteStep DEF p

\* A checkpoint is linked where there was none, of the intent that is there.
LEMMA AttemptLinked ==
  ASSUME IInv, NEW d \in Devices, LinkAttempt(d)
  PROVE  IInv'
  <1> DEFINE D == disk[d]
             p == [proc[d] EXCEPT !.pc = "sealed"]
  <1> USE DEF Running, Making, Rescuing, Landed, Settling
  <1>1. /\ D \in Disk /\ Coherent(D) /\ Points(D, proc[d], server.head)
        /\ proc[d] \in Process
    BY Known
  <1>2. /\ proc[d].pc = "sealing" /\ Goto(d, "sealed") /\ "sealed" \in Pc
        /\ UNCHANGED <<server, edits, closed, saved>>
        /\ proc[d].epoch \in 1 .. MaxEpoch
    BY Known DEF LinkAttempt, At, Pc
  <1>3. PICK i \in D.intent :
           disk' = [disk EXCEPT ![d].attempt =
             {[base |-> i.base, successor |-> Successor(i), content |-> i.content,
               epoch |-> proc[d].epoch,
               origin |-> IF proc[d].mode = "save" THEN {} ELSE {i.epoch}]}]
    BY DEF LinkAttempt
  <1> DEFINE a == [base |-> i.base, successor |-> Successor(i), content |-> i.content,
                   epoch |-> proc[d].epoch,
                   origin |-> IF proc[d].mode = "save" THEN {} ELSE {i.epoch}]
             k == [D EXCEPT !.attempt = {a}]
  <1>4. i \in Intent
    BY <1>1 DEF Disk
  <1>5. Successor(i) \in Gen /\ Successor(i).content = i.content
    BY <1>4, SaveBounds DEF Successor, Gen, Intent
  <1>6. /\ a \in Attempt /\ a.base = i.base /\ a.successor = Successor(i)
        /\ a.content = i.content
    BY <1>2, <1>4, <1>5 DEF Attempt, Intent
  <1>7. disk' = [disk EXCEPT ![d] = k]
    BY <1>3
  <1> HIDE DEF a
  <1>8. /\ k \in Disk /\ k.ws = D.ws /\ k.bound = D.bound /\ k.intent = D.intent
        /\ k.attempt = {a}
    BY <1>1, <1>6, AttemptSet
  <1> HIDE DEF k
  <1>9. Coherent(k)
    BY <1>1, <1>5, <1>6, <1>8 DEF Coherent
  <1>10. p.pc = "sealed" /\ p.selected = proc[d].selected
    BY <1>1, <1>2, MovedTo
  <1> HIDE DEF p
  <1>11. Points(k, p, server.head)
    BY <1>10 DEF Points
  <1>12. D.attempt = {}
    BY <1>1, <1>2 DEF Points
  <1>13. \A e \in closed[d] : \/ e \in server.head.content
                              \/ \E j \in k.intent : e \in j.content
                              \/ \E b \in k.attempt : e \in b.content
    BY <1>8, <1>12, Known
  <1> QED
    BY <1>2, <1>7, <1>8, <1>9, <1>11, <1>13, WriteStep DEF p

\* A checkpoint goes once the head holds it.
LEMMA AttemptRetired ==
  ASSUME IInv, NEW d \in Devices, RetireSaved(d) \/ RetireActive(d)
  PROVE  IInv'
  <1> DEFINE D == disk[d]
             k == [D EXCEPT !.attempt = {}]
  <1> USE DEF Running, Making, Rescuing, Landed, Settling
  <1>1. /\ D \in Disk /\ Coherent(D) /\ Points(D, proc[d], server.head)
        /\ proc[d] \in Process
    BY Known
  <1>2. disk' = [disk EXCEPT ![d] = k] /\ proc[d].pc \in {"released", "rebound"}
    BY DEF RetireSaved, RetireActive, At
  <1>3. /\ k \in Disk /\ k.ws = D.ws /\ k.bound = D.bound /\ k.intent = D.intent
        /\ k.attempt = {}
    BY <1>1, AttemptSet
  <1> HIDE DEF k
  <1>4. Coherent(k)
    BY <1>1, <1>3 DEF Coherent
  <1>5. \A a \in D.attempt : a.content \subseteq server.head.content
    BY <1>1, <1>2 DEF Points
  <1>6. \A e \in closed[d] : \/ e \in server.head.content
                             \/ \E i \in k.intent : e \in i.content
                             \/ \E b \in k.attempt : e \in b.content
    BY <1>3, <1>5, Known
  <1>7. CASE RetireActive(d)
    <2> DEFINE p == [proc[d] EXCEPT !.pc = "claimed"]
    <2>1. /\ proc[d].pc = "rebound" /\ Goto(d, "claimed") /\ "claimed" \in Pc
          /\ UNCHANGED <<server, edits, closed, saved>>
      BY <1>7 DEF RetireActive, At, Pc
    <2>2. p.pc = "claimed"
      BY <1>1, <2>1, MovedTo
    <2> HIDE DEF p
    <2>3. Points(k, p, server.head)
      BY <2>2 DEF Points
    <2> QED
      BY <1>2, <1>3, <1>4, <1>6, <2>1, <2>3, WriteStep DEF p
  <1>8. CASE RetireSaved(d)
    <2>1. /\ proc' = [proc EXCEPT ![d] = Down] /\ UNCHANGED <<server, edits, closed>>
      BY <1>8 DEF RetireSaved, Stop
    <2>2. PICK a \in D.attempt : saved' = saved \cup a.content
      BY <1>8 DEF RetireSaved
    <2>3. a.content \subseteq Edits
      BY <1>1 DEF Disk, Attempt, Content
    <2>4. /\ saved' \in SUBSET Edits /\ saved' \subseteq server.head.content
          /\ edits' \in 0 .. MaxEdits /\ server' \in Server
          /\ server'.head = server.head
      BY <1>5, <2>1, <2>2, <2>3 DEF IInv, Types, SavedInHead
    <2>5. closed' = [closed EXCEPT ![d] = closed[d]] /\ closed[d] \in SUBSET Edits
      BY <2>1 DEF IInv, Types
    <2>6. Down \in Process /\ Keeps(proc[d], Down) /\ Points(k, Down, server.head)
      BY DownIs DEF Keeps, Points
    <2>7. Journal' /\ Leases'
      BY <2>1, <2>6, ServerKept
    <2> QED
      BY <1>2, <1>3, <1>4, <1>6, <2>1, <2>4, <2>5, <2>6, <2>7, DeviceStep
  <1> QED
    BY <1>7, <1>8

\* A workspace is bound that is there.
LEMMA BindStep ==
  ASSUME IInv, NEW d \in Devices, BindSuccessor(d) \/ BindActive(d)
  PROVE  IInv'
  <1> USE DEF Running, Making, Rescuing, Landed, Settling
  <1> DEFINE D == disk[d]
  <1>1. /\ D \in Disk /\ Coherent(D) /\ Points(D, proc[d], server.head)
        /\ proc[d] \in Process
    BY Known
  <1>2. ASSUME NEW g \in Gen, g \in DOMAIN D.ws, NEW pc \in {"bound", "rebound"},
               proc[d].pc \in Landed, pc = "rebound" => proc[d].pc \in Settling,
               disk' = [disk EXCEPT ![d].bound = @ \cup {g}], Goto(d, pc),
               UNCHANGED <<server, edits, closed, saved>>
        PROVE  IInv'
    <2> DEFINE k == [D EXCEPT !.bound = D.bound \cup {g}]
               p == [proc[d] EXCEPT !.pc = pc]
    <2>1. disk' = [disk EXCEPT ![d] = k] /\ pc \in Pc
      BY <1>2 DEF Pc
    <2>2. D.bound \cup {g} \in SUBSET Gen
      BY <1>1 DEF Disk
    <2>3. /\ k \in Disk /\ k.ws = D.ws /\ k.bound = D.bound \cup {g}
          /\ k.intent = D.intent /\ k.attempt = D.attempt
      BY <1>1, <2>2, BoundSet
    <2> HIDE DEF k
    <2>4. Coherent(k)
      BY <1>1, <1>2, <2>3 DEF Coherent
    <2>5. p.pc = pc
      BY <1>1, <2>1, MovedTo
    <2> HIDE DEF p
    <2>6. Points(k, p, server.head)
      BY <1>1, <1>2, <2>3, <2>5 DEF Points
    <2> QED
      BY <1>2, <2>1, <2>3, <2>4, <2>6, Known, WriteStep DEF p
  <1>3. CASE BindSuccessor(d)
    <2>1. PICK a \in D.attempt :
             /\ Holds(D, a.successor, a.content)
             /\ disk' = [disk EXCEPT ![d].bound = @ \cup {a.successor}]
      BY <1>3 DEF BindSuccessor
    <2>2. a.successor \in Gen /\ a.successor \in DOMAIN D.ws
      BY <1>1, <2>1 DEF Holds, Disk, Attempt
    <2>3. /\ proc[d].pc = "committed" /\ Goto(d, "bound")
          /\ UNCHANGED <<server, edits, closed, saved>>
      BY <1>3 DEF BindSuccessor, At
    <2> QED
      BY <1>2, <2>1, <2>2, <2>3
  <1>4. CASE BindActive(d)
    <2>1. /\ proc[d].pc = "completing" /\ Goto(d, "rebound")
          /\ disk' = [disk EXCEPT ![d].bound = @ \cup {proc[d].selected}]
          /\ UNCHANGED <<server, edits, closed, saved>>
      BY <1>4 DEF BindActive, At
    <2>2. proc[d].selected \in Gen /\ proc[d].selected \in DOMAIN D.ws
      BY <1>1, <2>1 DEF Process, Points
    <2> QED
      BY <1>2, <2>1, <2>2
  <1> QED
    BY <1>3, <1>4

\* A directory for a copy, and the copy in it: nothing that was there before
\* is touched.
LEMMA CopyStep ==
  ASSUME IInv, NEW d \in Devices,
         StartClone(d) \/ FinishClone(d) \/ StartReserve(d) \/ FinishReserve(d)
  PROVE  IInv'
  <1> USE DEF Running, Making, Rescuing, Landed, Settling
  <1> DEFINE D == disk[d]
             P(pc) == [proc[d] EXCEPT !.pc = pc]
  <1>1. /\ D \in Disk /\ Coherent(D) /\ Points(D, proc[d], server.head)
        /\ proc[d] \in Process
        /\ \A pc \in Pc : P(pc).pc = pc /\ P(pc).selected = proc[d].selected
    BY Known, MovedTo
  <1>2. \A i \in Source(d) : /\ i \in D.intent /\ i \in Intent
                             /\ i.base \in DOMAIN D.ws /\ D.ws[i.base] = {i.content}
                             /\ \A j \in D.intent : j = i
    BY <1>1 DEF Source, LoneIntent, Holds, Coherent, Disk
  <1>3. \A i \in Intent : /\ i.base \in Gen /\ i.content \in Content
                          /\ Successor(i) \in Gen /\ Successor(i) \in Dir
                          /\ Successor(i).content = i.content
                          /\ Reserve(i) \in Dir /\ Reserve(i) \notin Gen
    BY SaveBounds DEF Intent, Successor, Reserve, Gen, Dir
  <1>4. ASSUME NEW i \in Source(d), NEW g \in Dir, NEW x \in {{}, {i.content}},
               NEW pc \in {"cloning", "cloned", "reserving", "rescue"},
               disk' = [disk EXCEPT ![d] = WithDir(@, g, x)], Goto(d, pc),
               UNCHANGED <<server, edits, closed, saved>>,
               g # i.base, g \in Gen => g.content = i.content,
               pc \in Making => proc[d].pc \in Making,
               pc \in Rescuing => proc[d].pc \in Rescuing,
               proc[d].pc # "down",
               pc = "cloning" => g = Successor(i) /\ x = {}
        PROVE  IInv'
    <2> DEFINE k == WithDir(D, g, x)
    <2>1. disk' = [disk EXCEPT ![d] = k] /\ x \in SUBSET Content /\ pc \in Pc
      BY <1>2, <1>3, <1>4 DEF Pc
    <2>2. /\ k \in Disk
          /\ DOMAIN k.ws = DOMAIN D.ws \cup {g}
          /\ k.ws[g] = x
          /\ \A h \in DOMAIN D.ws : h # g => k.ws[h] = D.ws[h]
          /\ k.bound = D.bound /\ k.intent = D.intent /\ k.attempt = D.attempt
      BY <1>1, <2>1, DirMade
    <2> HIDE DEF k
    <2>3. Coherent(k)
      <3>1. \A h \in DOMAIN k.ws : \A b, c \in k.ws[h] : b = c
        BY <1>1, <1>4, <2>2 DEF Coherent
      <3>2. \A h \in DOMAIN k.ws : h \in Gen => \A c \in k.ws[h] : h.content \subseteq c
        BY <1>1, <1>4, <2>2 DEF Coherent
      <3>3. \A j \in k.intent : /\ j.base \in DOMAIN k.ws
                                /\ j.base.content \subseteq j.content
                                /\ \A c \in k.ws[j.base] : j.content \subseteq c
        BY <1>1, <1>2, <1>4, <2>2 DEF Coherent
      <3> QED
        BY <1>1, <2>2, <3>1, <3>2, <3>3 DEF Coherent
    <2>4. Points(k, P(pc), server.head)
      BY <1>1, <1>2, <1>4, <2>1, <2>2 DEF Points
    <2> QED
      BY <1>4, <2>1, <2>2, <2>3, <2>4, Known, WriteStep
  <1>5. CASE StartClone(d)
    <2>1. PICK i \in Source(d) : /\ Successor(i) \notin DOMAIN D.ws
                                 /\ disk' = [disk EXCEPT ![d] = WithDir(@, Successor(i), {})]
      BY <1>5 DEF StartClone
    <2>2. /\ proc[d].pc = "retained" /\ Goto(d, "cloning")
          /\ UNCHANGED <<server, edits, closed, saved>>
      BY <1>5 DEF StartClone, At
    <2>3. /\ i \in Intent /\ Successor(i) # i.base /\ Successor(i) \in Dir
          /\ Successor(i).content = i.content
      BY <1>2, <1>3, <2>1
    <2> QED
      BY <1>4, <2>1, <2>2, <2>3
  <1>6. CASE FinishClone(d)
    <2>1. PICK i \in Source(d) :
             disk' = [disk EXCEPT ![d] = WithDir(@, Successor(i), {i.content})]
      BY <1>6 DEF FinishClone
    <2>2. /\ proc[d].pc = "cloning" /\ Goto(d, "cloned")
          /\ UNCHANGED <<server, edits, closed, saved>>
      BY <1>6 DEF FinishClone, At
    <2>3. D.ws[Successor(i)] = {}
      BY <1>1, <1>2, <2>2 DEF Points
    <2>4. Successor(i) # i.base
      BY <1>2, <2>3
    <2> QED
      BY <1>2, <1>3, <1>4, <2>1, <2>2, <2>4
  <1>7. CASE StartReserve(d)
    <2>1. PICK i \in Source(d) : disk' = [disk EXCEPT ![d] = WithDir(@, Reserve(i), {})]
      BY <1>7 DEF StartReserve
    <2>2. /\ proc[d].pc = "rescue" /\ Goto(d, "reserving")
          /\ UNCHANGED <<server, edits, closed, saved>>
      BY <1>7 DEF StartReserve, At
    <2>3. Reserve(i) # i.base /\ Reserve(i) \in Dir /\ Reserve(i) \notin Gen
      BY <1>2, <1>3
    <2> QED
      BY <1>4, <2>1, <2>2, <2>3
  <1>8. CASE FinishReserve(d)
    <2>1. PICK i \in Source(d) :
             disk' = [disk EXCEPT ![d] = WithDir(@, Reserve(i), {i.content})]
      BY <1>8 DEF FinishReserve
    <2>2. /\ proc[d].pc = "reserving" /\ Goto(d, "rescue")
          /\ UNCHANGED <<server, edits, closed, saved>>
      BY <1>8 DEF FinishReserve, At
    <2>3. Reserve(i) # i.base /\ Reserve(i) \in Dir /\ Reserve(i) \notin Gen
      BY <1>2, <1>3
    <2> QED
      BY <1>4, <2>1, <2>2, <2>3
  <1> QED
    BY <1>5, <1>6, <1>7, <1>8

\* What Launch and LaunchRescue start the browser on.
Start(d, k) ==
    /\ k \in Disk
    /\ Coherent(k)
    /\ proc[d].selected \in DOMAIN k.ws
    /\ k.attempt = {}
    /\ k.intent = disk[d].intent
    /\ Browse(d, k)

LEMMA Starts ==
  ASSUME IInv, NEW d \in Devices, Launch(d) \/ LaunchRescue(d)
  PROVE  /\ proc[d].pc \in {"claimed", "reserved"} /\ disk[d].attempt = {}
         /\ WriterLive(d, proc[d].epoch)
         /\ Start(d, disk[d]) \/
            \E n \in {[WithDir(disk[d], proc[d].selected, {proc[d].selected.content})
                         EXCEPT !.bound = @ \cup {proc[d].selected}]} :
               Start(d, n) /\ disk[d].intent = {}
  <1> DEFINE D == disk[d]
             g == proc[d].selected
  <1>1. /\ D \in Disk /\ Coherent(D) /\ Points(D, proc[d], server.head)
        /\ proc[d] \in Process /\ g \in Gen /\ g \in Dir /\ g.content \in Content
        /\ {g.content} \in SUBSET Content
    BY Known DEF Process, Gen, Dir
  <1>2. CASE Launch(d)
    <2>1. /\ proc[d].pc = "claimed" /\ D.intent = {} /\ D.attempt = {}
          /\ WriterLive(d, proc[d].epoch)
      BY <1>2 DEF Launch, Unresolved, At
    <2>2. CASE g \in D.bound /\ Browse(d, D)
      BY <1>1, <2>1, <2>2 DEF Start, Coherent
    <2>3. CASE Browse(d, [WithDir(D, g, {g.content}) EXCEPT !.bound = @ \cup {g}])
      <3> DEFINE x == {g.content}
                 m == WithDir(D, g, x)
                 n == [m EXCEPT !.bound = m.bound \cup {g}]
      <3>1. x \in SUBSET Content
        BY <1>1
      <3> HIDE DEF x
      <3>2. /\ m \in Disk /\ DOMAIN m.ws = DOMAIN D.ws \cup {g}
            /\ m.ws[g] = x
            /\ \A h \in DOMAIN D.ws : h # g => m.ws[h] = D.ws[h]
            /\ m.bound = D.bound /\ m.intent = D.intent /\ m.attempt = D.attempt
        BY <1>1, <3>1, DirMade
      <3>3. Browse(d, n)
        BY <2>3 DEF x
      <3> HIDE DEF m
      <3>4. m.bound \cup {g} \in SUBSET Gen
        BY <1>1, <3>2 DEF Disk
      <3>5. /\ n \in Disk /\ n.ws = m.ws /\ n.bound = m.bound \cup {g}
            /\ n.intent = m.intent /\ n.attempt = m.attempt
        BY <3>2, <3>4, BoundSet
      <3> HIDE DEF n
      <3>6. Coherent(n)
        BY <1>1, <2>1, <3>2, <3>5 DEF Coherent, x
      <3>7. Start(d, n)
        BY <2>1, <3>2, <3>3, <3>5, <3>6 DEF Start
      <3> QED
        BY <2>1, <3>7 DEF n, m, x
    <2> QED
      BY <1>2, <2>1, <2>2, <2>3 DEF Launch
  <1>3. CASE LaunchRescue(d)
    <2>1. proc[d].pc = "reserved" /\ WriterLive(d, proc[d].epoch) /\ Browse(d, D)
      BY <1>3 DEF LaunchRescue, At
    <2>2. D.attempt = {} /\ g \in DOMAIN D.ws
      BY <1>1, <2>1 DEF Points, Rescuing, Coherent
    <2> QED
      BY <1>1, <2>1, <2>2 DEF Start
  <1> QED
    BY <1>2, <1>3

\* The browser adds an edit to the workspace it runs on, and to nothing else.
LEMMA BrowseStep ==
  ASSUME IInv, NEW d \in Devices, NEW k, Start(d, k),
         proc[d].pc \in {"claimed", "reserved"}, disk[d].attempt = {}
  PROVE  /\ IInv'
         /\ edits' = edits + 1 /\ edits' \in Edits
         /\ disk'[d].ws[proc[d].selected] = {c \cup {edits'} : c \in k.ws[proc[d].selected]}
         /\ DOMAIN disk'[d].ws = DOMAIN k.ws
         /\ \A h \in DOMAIN k.ws : h # proc[d].selected => disk'[d].ws[h] = k.ws[h]
         /\ disk'[d].intent = k.intent /\ disk'[d].attempt = {}
         /\ \A f \in Devices : f # d => disk'[f] = disk[f] /\ proc'[f] = proc[f]
         /\ proc'[d].pc = "browsing" /\ proc'[d].selected = proc[d].selected
         /\ UNCHANGED <<server, closed, saved>>
  <1> USE DEF Running, Making, Rescuing, Landed, Settling
  <1> DEFINE s == proc[d].selected
             e == edits + 1
             n == [k EXCEPT !.ws[s] = {c \cup {e} : c \in @}]
             p == [proc[d] EXCEPT !.pc = "browsing", !.mode = "save"]
  <1>1. /\ k \in Disk /\ Coherent(k) /\ s \in DOMAIN k.ws /\ k.attempt = {}
        /\ k.intent = disk[d].intent
    BY DEF Start
  <1>2. /\ edits' = e /\ edits < MaxEdits /\ UNCHANGED <<server, closed, saved>>
        /\ disk' = [disk EXCEPT ![d] = n]
        /\ proc' = [proc EXCEPT ![d] = p]
    BY DEF Start, Browse
  <1>3. e \in Edits /\ e \in 0 .. MaxEdits
    BY <1>2, SaveBounds DEF IInv, Types, Edits
  <1> HIDE DEF e
  <1>4. /\ n \in Disk /\ DOMAIN n.ws = DOMAIN k.ws
        /\ n.ws[s] = {c \cup {e} : c \in k.ws[s]}
        /\ \A h \in DOMAIN k.ws : h # s => n.ws[h] = k.ws[h]
        /\ n.bound = k.bound /\ n.intent = k.intent /\ n.attempt = k.attempt
    BY <1>1, <1>3, DirWritten
  <1> HIDE DEF n
  <1>5. proc[d] \in Process /\ "browsing" \in Pc
    BY Known DEF Pc
  <1>6. /\ p \in Process /\ p.pc = "browsing" /\ p.epoch = proc[d].epoch
        /\ p.selected = s /\ Keeps(proc[d], p)
    BY <1>5 DEF Process, Keeps
  <1> HIDE DEF p
  <1>7. Coherent(n)
    <2>1. \A g \in DOMAIN n.ws : \A b, c \in n.ws[g] : b = c
      <3>1. ASSUME NEW b \in n.ws[s], NEW c \in n.ws[s] PROVE b = c
        <4>1. PICK x \in k.ws[s], y \in k.ws[s] : b = x \cup {e} /\ c = y \cup {e}
          BY <1>4
        <4>2. x = y
          BY <1>1 DEF Coherent
        <4> QED
          BY <4>1, <4>2
      <3>2. \A g \in DOMAIN n.ws : g # s => \A b, c \in n.ws[g] : b = c
        BY <1>1, <1>4 DEF Coherent
      <3> QED
        BY <3>1, <3>2
    <2>2. \A g \in DOMAIN n.ws : g \in Gen => \A c \in n.ws[g] : g.content \subseteq c
      BY <1>1, <1>4 DEF Coherent
    <2>3. \A i \in n.intent : /\ i.base \in DOMAIN n.ws
                              /\ i.base.content \subseteq i.content
                              /\ \A c \in n.ws[i.base] : i.content \subseteq c
      BY <1>1, <1>4 DEF Coherent
    <2> QED
      BY <1>1, <1>4, <2>1, <2>2, <2>3 DEF Coherent
  <1>8. Points(n, p, server.head)
    BY <1>1, <1>4, <1>6 DEF Points
  <1>9. \A x \in closed[d] : \/ x \in server.head.content
                             \/ \E i \in n.intent : x \in i.content
                             \/ \E a \in n.attempt : x \in a.content
    BY <1>1, <1>4, Known
  <1>10. Journal' /\ Leases'
    BY <1>2, <1>6, ServerKept
  <1>11. /\ closed' = [closed EXCEPT ![d] = closed[d]] /\ closed[d] \in SUBSET Edits
         /\ saved' \in SUBSET Edits /\ saved' \subseteq server.head.content
         /\ server' \in Server /\ server'.head = server.head
         /\ edits' \in 0 .. MaxEdits
    BY <1>2, <1>3 DEF IInv, Types, SavedInHead
  <1>12. IInv'
    BY <1>2, <1>4, <1>6, <1>7, <1>8, <1>9, <1>10, <1>11, DeviceStep
  <1>13. /\ disk'[d] = n /\ proc'[d] = p
         /\ \A f \in Devices : f # d => disk'[f] = disk[f] /\ proc'[f] = proc[f]
    BY <1>2 DEF IInv, Types
  <1> QED
    BY <1>1, <1>2, <1>3, <1>4, <1>6, <1>12, <1>13 DEF e

-----------------------------------------------------------------------------
(* Steps of the server, and steps that it takes part in *)

\* Nothing of the disks refers to the server but the content of its head.
LEMMA HeadStep ==
  ASSUME IInv, UNCHANGED <<disk, proc, edits, closed, saved>>, server' \in Server,
         server.head.content \subseteq server'.head.content,
         Journal', Leases'
  PROVE  IInv'
  <1>1. \A d \in Devices : /\ Coherent(disk'[d])
                           /\ Points(disk'[d], proc'[d], server'.head)
    BY DEF IInv, Points
  <1> QED
    BY <1>1 DEF IInv, Types, ClosedIsTracked, SavedInHead

LEMMA ServerStep ==
  ASSUME IInv, LeaseEnds \/ \E r \in server.wire : Apply(r) \/ Lose(r)
  PROVE  IInv'
  <1>1. server \in Server /\ server.epoch \in Nat
    BY SaveBounds DEF IInv, Types, Server
  <1>2. CASE LeaseEnds
    <2>1. /\ server' = [server EXCEPT !.holder = NoDevice]
          /\ UNCHANGED <<disk, proc, edits, closed, saved>>
      BY <1>2 DEF LeaseEnds
    <2>2. /\ server' \in Server /\ server'.head = server.head
          /\ server'.wire = server.wire /\ server'.rows = server.rows
          /\ server'.epoch = server.epoch
      BY <1>1, <2>1 DEF Server
    <2>3. Journal' /\ Leases'
      BY <2>1, <2>2 DEF IInv, Journal, Leases
    <2> QED
      BY <2>1, <2>2, <2>3, HeadStep
  <1>3. ASSUME NEW r \in server.wire, Lose(r) PROVE IInv'
    <2>1. /\ server' = [server EXCEPT !.wire = @ \ {r}]
          /\ UNCHANGED <<disk, proc, edits, closed, saved>>
      BY <1>3 DEF Lose
    <2>2. /\ server' \in Server /\ server'.head = server.head
          /\ server'.wire \subseteq server.wire /\ server'.rows = server.rows
          /\ server'.epoch = server.epoch
      BY <1>1, <2>1 DEF Server
    <2>3. Journal' /\ Leases'
      BY <2>1, <2>2 DEF IInv, Journal, Leases
    <2> QED
      BY <2>1, <2>2, <2>3, HeadStep
  <1>4. ASSUME NEW r \in server.wire, Apply(r) PROVE IInv'
    <2> DEFINE fits == /\ server.holder # NoDevice
                       /\ server.epoch = r.epoch
                       /\ server.head = r.base
    <2>1. /\ server' = [server EXCEPT
                !.wire = server.wire \ {r},
                !.head = IF fits THEN r.successor ELSE server.head,
                !.rows = IF fits THEN server.rows \cup {r} ELSE server.rows]
          /\ UNCHANGED <<disk, proc, edits, closed, saved>>
      BY <1>4 DEF Apply
    <2>2. r \in Request /\ r.successor \in Gen
      BY <1>1 DEF Server, Request
    <2>3. /\ server'.wire \subseteq server.wire /\ server'.epoch = server.epoch
          /\ server'.head = IF fits THEN r.successor ELSE server.head
          /\ server'.rows = IF fits THEN server.rows \cup {r} ELSE server.rows
          /\ server' \in Server
      BY <1>1, <2>1, <2>2 DEF Server
    <2>4. server.head.content \subseteq server'.head.content
      BY <2>3 DEF IInv, Journal
    <2>5. Journal'
      BY <2>3, <2>4 DEF IInv, Journal
    <2>6. \A d \in Devices : proc[d].pc \in Settling /\ proc[d].epoch = server.epoch
             => ~fits
      BY DEF IInv, Leases
    <2>7. Leases'
      BY <2>1, <2>3, <2>6 DEF IInv, Leases
    <2> QED
      BY <2>1, <2>3, <2>4, <2>5, <2>7, HeadStep
  <1> QED
    BY <1>2, <1>3, <1>4

LEMMA ReleaseStep ==
  ASSUME IInv, NEW d \in Devices, ReleaseSaved(d) \/ ReleaseRecovered(d)
  PROVE  IInv'
  <1> USE DEF Running, Making, Rescuing, Landed, Settling
  <1>1. /\ server' = [server EXCEPT !.holder = NoDevice] /\ server \in Server
        /\ UNCHANGED <<disk, edits, closed, saved>>
    BY DEF ReleaseSaved, ReleaseRecovered, IInv, Types
  <1>2. /\ server' \in Server /\ server'.head = server.head
        /\ server'.wire = server.wire /\ server'.rows = server.rows
        /\ server'.epoch = server.epoch
    BY <1>1 DEF Server
  <1>3. ASSUME NEW p \in Process, proc' = [proc EXCEPT ![d] = p], Keeps(proc[d], p),
               Points(disk[d], p, server.head)
        PROVE  IInv'
    <2>1. Journal' /\ Leases'
      BY <1>2, <1>3, ServerKept
    <2>2. /\ closed' = [closed EXCEPT ![d] = closed[d]] /\ closed[d] \in SUBSET Edits
          /\ saved' \in SUBSET Edits /\ saved' \subseteq server.head.content
          /\ edits' \in 0 .. MaxEdits
      BY <1>1 DEF IInv, Types, SavedInHead
    <2>3. disk' = [disk EXCEPT ![d] = disk[d]]
      BY <1>1, Known
    <2>4. /\ disk[d] \in Disk /\ Coherent(disk[d])
          /\ \A e \in closed[d] : \/ e \in server.head.content
                                  \/ \E i \in disk[d].intent : e \in i.content
                                  \/ \E a \in disk[d].attempt : e \in a.content
      BY Known
    <2> QED
      BY <1>2, <1>3, <2>1, <2>2, <2>3, <2>4, DeviceStep
  <1>4. CASE ReleaseRecovered(d)
    <2>1. proc' = [proc EXCEPT ![d] = Down]
      BY <1>4 DEF ReleaseRecovered, Stop
    <2>2. Down \in Process /\ Keeps(proc[d], Down) /\ Points(disk[d], Down, server.head)
      BY DownIs DEF Keeps, Points
    <2> QED
      BY <1>3, <2>1, <2>2
  <1>5. CASE ReleaseSaved(d)
    <2> DEFINE p == [proc[d] EXCEPT !.pc = "released"]
    <2>1. /\ proc[d].pc = "bound" /\ proc' = [proc EXCEPT ![d] = p] /\ "released" \in Pc
      BY <1>5 DEF ReleaseSaved, Goto, At, Pc
    <2>2. /\ p \in Process /\ p.pc = "released" /\ p.selected = proc[d].selected
          /\ p.epoch = proc[d].epoch
      BY <2>1, Known, MovedTo
    <2> HIDE DEF p
    <2>3. Points(disk[d], p, server.head) /\ Keeps(proc[d], p)
      BY <2>1, <2>2, Known DEF Points, Keeps
    <2> QED
      BY <1>3, <2>1, <2>2, <2>3
  <1> QED
    BY <1>4, <1>5

LEMMA ClaimStep ==
  ASSUME IInv, NEW d \in Devices, Claim(d)
  PROVE  IInv'
  <1> USE DEF Running, Making, Rescuing, Landed
  <1> DEFINE p == [pc |-> "claimed", mode |-> "recover", epoch |-> server.epoch + 1,
                   selected |-> server.head]
  <1>1. /\ proc[d].pc = "down" /\ server.epoch < MaxEpoch /\ server \in Server
        /\ server' = [server EXCEPT !.holder = d, !.epoch = server.epoch + 1]
        /\ proc' = [proc EXCEPT ![d] = p]
        /\ UNCHANGED <<disk, edits, closed, saved>>
    BY DEF Claim, At, IInv, Types
  <1>2. server.epoch \in Nat /\ server.epoch + 1 \in 0 .. MaxEpoch /\ server.head \in Gen
    BY <1>1, SaveBounds DEF Server
  <1>3. /\ server' \in Server /\ server'.head = server.head
        /\ server'.wire = server.wire /\ server'.rows = server.rows
        /\ server'.epoch = server.epoch + 1
    BY <1>1, <1>2 DEF Server
  <1>4. /\ p \in Process /\ p.pc = "claimed" /\ p.epoch = server.epoch + 1
        /\ p.selected = server.head
    BY <1>2 DEF Process, Pc
  <1> HIDE DEF p
  <1>5. \A r \in server.wire : r.epoch \in Nat /\ r.epoch <= server.epoch
    BY <1>1, SaveBounds DEF IInv, Journal, Server, Request
  <1>6. Journal'
    BY <1>2, <1>3, <1>5 DEF IInv, Journal
  <1>7. /\ proc'[d] = p /\ \A f \in Devices : f # d => proc'[f] = proc[f]
        /\ \A f \in Devices : proc[f].epoch \in Nat /\ proc[f].epoch <= server.epoch
    BY <1>1, SaveBounds DEF IInv, Types, Leases, Process
  <1>8. \A f \in Devices : f # d => proc'[f].epoch # server'.epoch
    BY <1>2, <1>3, <1>7
  <1>9. Leases'
    <2>1. \A f \in Devices :
             /\ proc'[f].epoch <= server'.epoch
             /\ proc'[f].pc # "down" => proc'[f].epoch >= 1
             /\ proc'[f].pc \in Settling /\ proc'[f].epoch = server'.epoch =>
                   /\ proc'[f].selected = server'.head
                   /\ \A r \in server'.wire : r.epoch # server'.epoch
      <3> SUFFICES ASSUME NEW f \in Devices
                   PROVE  /\ proc'[f].epoch <= server'.epoch
                          /\ proc'[f].pc # "down" => proc'[f].epoch >= 1
                          /\ proc'[f].pc \in Settling /\ proc'[f].epoch = server'.epoch =>
                                /\ proc'[f].selected = server'.head
                                /\ \A r \in server'.wire : r.epoch # server'.epoch
        OBVIOUS
      <3>1. CASE f = d
        BY <1>2, <1>3, <1>4, <1>5, <1>7, <3>1
      <3>2. CASE f # d
        BY <1>2, <1>3, <1>7, <1>8, <3>2 DEF IInv, Leases
      <3> QED
        BY <3>1, <3>2
    <2>2. \A e, f \in Devices :
             /\ proc'[e].pc # "down" /\ proc'[f].pc # "down"
             /\ proc'[e].epoch = proc'[f].epoch
             => e = f
      BY <1>3, <1>4, <1>7, <1>8 DEF IInv, Leases
    <2> QED
      BY <2>1, <2>2 DEF Leases
  <1>10. /\ closed' = [closed EXCEPT ![d] = closed[d]] /\ closed[d] \in SUBSET Edits
         /\ saved' \in SUBSET Edits /\ saved' \subseteq server.head.content
         /\ edits' \in 0 .. MaxEdits
    BY <1>1 DEF IInv, Types, SavedInHead
  <1>11. disk' = [disk EXCEPT ![d] = disk[d]]
    BY <1>1, Known
  <1>12. Points(disk[d], p, server.head)
    BY <1>4 DEF Points
  <1>13. /\ disk[d] \in Disk /\ Coherent(disk[d])
         /\ \A e \in closed[d] : \/ e \in server.head.content
                                 \/ \E i \in disk[d].intent : e \in i.content
                                 \/ \E a \in disk[d].attempt : e \in a.content
    BY Known
  <1> QED
    BY <1>1, <1>3, <1>4, <1>6, <1>9, <1>10, <1>11, <1>12, <1>13, DeviceStep

LEMMA SendStep ==
  ASSUME IInv, NEW d \in Devices, SendCommit(d)
  PROVE  IInv'
  <1> USE DEF Running, Making, Rescuing, Landed, Settling
  <1> DEFINE p == [proc[d] EXCEPT !.pc = "committing"]
  <1>1. /\ proc[d].pc = "publishing" /\ proc' = [proc EXCEPT ![d] = p]
        /\ "committing" \in Pc /\ UNCHANGED <<disk, edits, closed, saved>>
        /\ server \in Server /\ server.epoch \in Nat
        /\ proc[d].epoch \in 1 .. MaxEpoch /\ proc[d].epoch <= server.epoch
    BY Known, SaveBounds DEF SendCommit, Goto, At, Pc, IInv, Types, Server, Leases
  <1>2. PICK a \in Exact(disk[d]) : server' = [server EXCEPT !.wire = @ \cup
           {[base |-> a.base, successor |-> a.successor, epoch |-> proc[d].epoch]}]
    BY DEF SendCommit
  <1> DEFINE r == [base |-> a.base, successor |-> a.successor, epoch |-> proc[d].epoch]
  <1>3. a \in disk[d].attempt /\ a \in Attempt
    BY Known DEF Exact, Disk
  <1>4. /\ r \in Request /\ r.epoch = proc[d].epoch
        /\ r.base = a.base /\ r.successor = a.successor
    BY <1>1, <1>3 DEF Attempt, Request
  <1>5. server' = [server EXCEPT !.wire = server.wire \cup {r}]
    BY <1>2
  <1> HIDE DEF r
  <1>6. /\ server' \in Server /\ server'.head = server.head
        /\ server'.wire = server.wire \cup {r} /\ server'.rows = server.rows
        /\ server'.epoch = server.epoch
    BY <1>1, <1>4, <1>5 DEF Server
  <1>7. a.base.content \subseteq a.successor.content
    BY <1>3, Known DEF Coherent
  <1>8. Journal'
    BY <1>1, <1>4, <1>6, <1>7 DEF IInv, Journal
  <1>9. /\ p \in Process /\ p.pc = "committing" /\ p.selected = proc[d].selected
        /\ p.epoch = proc[d].epoch
    BY <1>1, Known, MovedTo
  <1> HIDE DEF p
  <1>10. /\ proc'[d] = p /\ \A f \in Devices : f # d => proc'[f] = proc[f]
    BY <1>1 DEF IInv, Types
  <1>11. \A f \in Devices : f # d /\ proc[f].pc \in Settling => proc[f].epoch # r.epoch
    BY <1>1, <1>4 DEF IInv, Leases
  <1>12. Leases'
    <2>1. \A f \in Devices :
             /\ proc'[f].epoch <= server'.epoch
             /\ proc'[f].pc # "down" => proc'[f].epoch >= 1
             /\ proc'[f].pc \in Settling /\ proc'[f].epoch = server'.epoch =>
                   /\ proc'[f].selected = server'.head
                   /\ \A q \in server'.wire : q.epoch # server'.epoch
      BY <1>1, <1>6, <1>9, <1>10, <1>11 DEF IInv, Leases
    <2>2. \A e, f \in Devices :
             /\ proc'[e].pc # "down" /\ proc'[f].pc # "down"
             /\ proc'[e].epoch = proc'[f].epoch
             => e = f
      BY <1>1, <1>9, <1>10 DEF IInv, Leases
    <2> QED
      BY <2>1, <2>2 DEF Leases
  <1>13. /\ closed' = [closed EXCEPT ![d] = closed[d]] /\ closed[d] \in SUBSET Edits
         /\ saved' \in SUBSET Edits /\ saved' \subseteq server.head.content
         /\ edits' \in 0 .. MaxEdits
    BY <1>1 DEF IInv, Types, SavedInHead
  <1>14. disk' = [disk EXCEPT ![d] = disk[d]]
    BY <1>1, Known
  <1>15. Points(disk[d], p, server.head)
    BY <1>9 DEF Points
  <1>16. /\ disk[d] \in Disk /\ Coherent(disk[d])
         /\ \A e \in closed[d] : \/ e \in server.head.content
                                 \/ \E i \in disk[d].intent : e \in i.content
                                 \/ \E b \in disk[d].attempt : e \in b.content
    BY Known
  <1> QED
    BY <1>1, <1>6, <1>8, <1>9, <1>12, <1>13, <1>14, <1>15, <1>16, DeviceStep

-----------------------------------------------------------------------------
(* The theorems *)

LEMMA InitIInv == Init => IInv
  <1> SUFFICES ASSUME Init PROVE IInv
    OBVIOUS
  <1> DEFINE w == [g \in {} |-> {}]
             k == [ws |-> w, bound |-> {}, intent |-> {}, attempt |-> {}, stage |-> FALSE]
  <1>1. DOMAIN w = {} /\ w \in Workspaces
    BY WorkspacesAre
  <1> HIDE DEF w
  <1>2. /\ k \in Disk /\ k.ws = w /\ k.bound = {} /\ k.intent = {} /\ k.attempt = {}
    BY <1>1 DEF Disk
  <1>3. disk = [d \in Devices |-> k] /\ proc = [d \in Devices |-> Down]
    BY DEF Init, w
  <1> HIDE DEF k
  <1>4. Coherent(k)
    BY <1>1, <1>2 DEF Coherent
  <1>5. Points(k, Down, server.head)
    BY DownIs DEF Points, Running, Making, Rescuing, Landed
  <1>6. FirstGen \in Gen
    BY SaveBounds DEF FirstGen, Gen, Content
  <1>7. /\ server \in Server /\ server.epoch = 0 /\ server.wire = {} /\ server.rows = {}
    BY <1>6, SaveBounds DEF Init, Server
  <1>8. Types
    <2>1. edits = 0 /\ closed = [d \in Devices |-> {}] /\ saved = {}
      BY DEF Init
    <2>2. disk \in [Devices -> Disk] /\ proc \in [Devices -> Process]
      BY <1>2, <1>3, DownIs
    <2> QED
      BY <1>7, <2>1, <2>2, SaveBounds DEF Types
  <1>9. Journal
    BY <1>7 DEF Journal
  <1>10. Leases
    BY <1>3, <1>7, DownIs DEF Leases, Settling, Rescuing
  <1>11. ClosedIsTracked /\ SavedInHead
    BY DEF Init, ClosedIsTracked, SavedInHead
  <1> QED
    BY <1>3, <1>4, <1>5, <1>8, <1>9, <1>10, <1>11 DEF IInv

LEMMA NextIInv == IInv /\ [Next]_vars => IInv'
  <1> SUFFICES ASSUME IInv, [Next]_vars PROVE IInv'
    OBVIOUS
  <1>1. CASE LeaseEnds \/ \E r \in server.wire : Apply(r) \/ Lose(r)
    BY <1>1, ServerStep
  <1>2. ASSUME NEW d \in Devices, Device(d) PROVE IInv'
    <2>1. ASSUME Launch(d) \/ LaunchRescue(d) PROVE IInv'
      <3>1. PICK k : Start(d, k)
        BY <2>1, Starts
      <3> QED
        BY <2>1, <3>1, Starts, BrowseStep
    <2>2. ASSUME Save(d) PROVE IInv'
      BY <2>2, StagingStep, CloseStep, CopyStep, QuietStep, AttemptLinked, RetireStep,
         SendStep, BindStep, ReleaseStep, AttemptRetired DEF Save
    <2>3. ASSUME Recovery(d) PROVE IInv'
      BY <2>3, QuietStep, RetireStep, BindStep, AttemptRetired DEF Recovery
    <2>4. ASSUME NativeRescue(d) PROVE IInv'
      BY <2>1, <2>4, QuietStep, CopyStep, RescueBegins DEF NativeRescue
    <2> QED
      BY <1>2, <2>1, <2>2, <2>3, <2>4, ClaimStep, QuietStep DEF Device
  <1>3. CASE UNCHANGED vars
    BY <1>3 DEF vars, IInv, Types, Journal, Leases, ClosedIsTracked, SavedInHead
  <1> QED
    BY <1>1, <1>2, <1>3 DEF Next

\* The invariant holds in every reachable state, for any number of devices,
\* leases and browser sessions.
THEOREM Invariance == Spec => []IInv
  BY InitIInv, NextIInv, PTL DEF Spec

\* What the browser was closed on is never dropped: wherever the process dies
\* and whatever the network does, the edits of a recorded close are in the head
\* or the device keeps the intent or the checkpoint that leads to them.
THEOREM ClosesAreTracked == Spec => []ClosedIsTracked
  BY Invariance, PTL DEF IInv

\* Saved is only reported of edits that the head holds, then and ever after.
THEOREM SavedStaysInHead == Spec => []SavedInHead
  BY Invariance, PTL DEF IInv

\* A browser starts on a workspace that has every edit its device closed before.
LEMMA LaunchSees ==
  ASSUME IInv, NEW d \in Devices, Launch(d) \/ LaunchRescue(d)
  PROVE  \A c \in disk'[d].ws[proc[d].selected] : closed[d] \subseteq c
  <1> DEFINE s == proc[d].selected
  <1>1. PICK k : Start(d, k)
    BY Starts
  <1>2. /\ Coherent(k) /\ s \in DOMAIN k.ws /\ k.attempt = {}
        /\ k.intent = disk[d].intent /\ s \in Gen
        /\ proc[d].pc \in {"claimed", "reserved"} /\ disk[d].attempt = {}
        /\ server.epoch = proc[d].epoch
    BY <1>1, Starts, Known DEF Start, WriterLive, Process
  <1>3. s = server.head
    BY <1>2 DEF IInv, Leases, Settling, Rescuing
  <1>4. \A i \in k.intent : i.base = s
    <2>1. CASE Launch(d)
      BY <1>2, <2>1 DEF Launch, Unresolved
    <2>2. CASE LaunchRescue(d)
      BY <1>2, <2>2, Known DEF LaunchRescue, At, Points, Rescuing
    <2> QED
      BY <2>1, <2>2
  <1>5. \A b \in k.ws[s] : closed[d] \subseteq b
    <2>1. \A e \in closed[d] : \/ e \in s.content
                               \/ \E i \in k.intent : e \in i.content
      BY <1>2, <1>3, Known
    <2>2. \A b \in k.ws[s] : s.content \subseteq b
      BY <1>2 DEF Coherent
    <2>3. \A b \in k.ws[s] : \A i \in k.intent : i.content \subseteq b
      BY <1>2, <1>4 DEF Coherent
    <2> QED
      BY <2>1, <2>2, <2>3
  <1>6. disk'[d].ws[s] = {c \cup {edits'} : c \in k.ws[s]}
    BY <1>1, <1>2, BrowseStep
  <1> QED
    BY <1>5, <1>6

\* Only the two launches start a browser.
LEMMA StartsAre ==
  ASSUME IInv, [Next]_vars, NEW d \in Devices, proc[d].pc # "browsing",
         proc'[d].pc = "browsing"
  PROVE  Launch(d) \/ LaunchRescue(d)
  <1>1. /\ proc \in [Devices -> Process] /\ Down.pc = "down"
    BY DownIs DEF IInv, Types
  <1>2. ASSUME NEW f \in Devices, NEW pc \in Pc, Goto(f, pc), pc # "browsing" PROVE FALSE
    <2>1. proc'[d] = IF d = f THEN [proc[f] EXCEPT !.pc = pc] ELSE proc[d]
      BY <1>1, <1>2 DEF Goto
    <2>2. [proc[f] EXCEPT !.pc = pc].pc = pc
      BY <1>1, MovedTo
    <2> QED
      BY <1>2, <2>1, <2>2
  <1>3. ASSUME NEW f \in Devices, Stop(f) PROVE FALSE
    BY <1>1, <1>3 DEF Stop
  <1>4. ASSUME proc' = proc PROVE FALSE
    BY <1>4
  <1>5. ASSUME NEW f \in Devices, Claim(f) PROVE FALSE
    BY <1>1, <1>5 DEF Claim
  <1>6. ASSUME NEW f \in Devices, Launch(f) \/ LaunchRescue(f)
        PROVE  Launch(d) \/ LaunchRescue(d)
    <2>1. PICK k : Browse(f, k)
      BY <1>6 DEF Launch, LaunchRescue
    <2>2. f # d => proc'[d] = proc[d]
      BY <1>1, <2>1 DEF Browse
    <2> QED
      BY <1>6, <2>2
  <1>7. CASE LeaseEnds \/ \E r \in server.wire : Apply(r) \/ Lose(r)
    BY <1>4, <1>7 DEF LeaseEnds, Apply, Lose
  <1>8. ASSUME NEW f \in Devices, Save(f) PROVE FALSE
    <2>1. Stop(f) \/ proc' = proc \/ \E pc \in Pc \ {"browsing"} : Goto(f, pc)
      BY <1>8 DEF Save, StageIntent, LinkIntent, UnstageIntent, ReplaceIntent,
         StartClone, FinishClone, ReuseClone, StageAttempt, LinkAttempt,
         UnstageAttempt, RetireIntent, SendCommit, CommitReply, BindSuccessor,
         ReleaseSaved, RetireSaved, ReleaseRecovered, Pc
    <2> QED
      BY <1>2, <1>3, <1>4, <2>1
  <1>9. ASSUME NEW f \in Devices, Recovery(f) PROVE FALSE
    <2>1. \E pc \in Pc \ {"browsing"} : Goto(f, pc)
      BY <1>9 DEF Recovery, ResumeExact, ResumeLone, CompleteActive, BindActive,
         RetireActive, Pc
    <2> QED
      BY <1>2, <2>1
  <1>10. ASSUME NEW f \in Devices, NativeRescue(f), ~LaunchRescue(f) PROVE FALSE
    <2>1. \E pc \in Pc \ {"browsing"} : Goto(f, pc)
      BY <1>10 DEF NativeRescue, NeedRescue, StartReserve, FinishReserve, BeginRescue, Pc
    <2> QED
      BY <1>2, <2>1
  <1>11. ASSUME NEW f \in Devices, CloseBrowser(f) \/ Crash(f) \/ Blocked(f) \/ CommitUncertain(f)
         PROVE  FALSE
    <2>1. Stop(f) \/ \E pc \in Pc \ {"browsing"} : Goto(f, pc)
      BY <1>11 DEF CloseBrowser, Crash, Blocked, CommitUncertain, Pc
    <2> QED
      BY <1>2, <1>3, <2>1
  <1>12. CASE UNCHANGED vars
    BY <1>4, <1>12 DEF vars
  <1> QED
    BY <1>5, <1>6, <1>7, <1>8, <1>9, <1>10, <1>11, <1>12 DEF Next, Device

\* A browser never starts on a workspace that lacks edits closed on the same
\* device before.
THEOREM LaunchesSeeClosed == Spec => LaunchSeesClosed
  <1> DEFINE A == \A d \in Devices :
                     proc[d].pc # "browsing" /\ proc'[d].pc = "browsing" =>
                        \A c \in disk'[d].ws[proc[d].selected] : closed[d] \subseteq c
  <1>1. IInv /\ [Next]_vars => [A]_vars
    BY StartsAre, LaunchSees
  <1> HIDE DEF A
  <1>2. Spec => [][A]_vars
    BY <1>1, InitIInv, NextIInv, PTL DEF Spec
  <1> QED
    BY <1>2 DEF A, LaunchSeesClosed

-----------------------------------------------------------------------------
(* Names of generations *)

\* The generations that a disk has a directory for, or evidence that leads to.
NamesOf(k) ==
    (DOMAIN k.ws \cap Gen)
    \cup {a.successor : a \in k.attempt}
    \cup {Successor(i) : i \in {j \in k.intent : ~Editing(j)}}

\* Every generation that has a directory somewhere or may still get one.
Names ==
    {server.head}
    \cup {r.successor : r \in server.wire}
    \cup UNION {NamesOf(disk[d]) : d \in Devices}

\* Edit e is in no intent of a disk, and in no workspace but those of S.
Lacks(k, S, e) ==
    /\ \A i \in k.intent : e \notin i.content
    /\ \A g \in DOMAIN k.ws : g \notin S => \A c \in k.ws[g] : e \notin c

\* The workspace a browser was started on has an edit of its own.
Private(d) ==
    \E e \in 1 .. edits :
        /\ \A c \in disk[d].ws[proc[d].selected] : e \in c
        /\ \A n \in Names : e \notin n.content
        /\ Lacks(disk[d], {proc[d].selected}, e)
        /\ \A f \in Devices : f # d => Lacks(disk[f], {}, e)

\* A name stands for one content, no disk holds an edit that was not made, and
\* until its close is recorded a session can be told from all others.
NameInv ==
    /\ \A m, n \in Names : m.content = n.content => m = n
    /\ \A n \in Names : n.content \subseteq 1 .. edits
    /\ \A d \in Devices :
          /\ \A g \in DOMAIN disk[d].ws : \A c \in disk[d].ws[g] : c \subseteq 1 .. edits
          /\ \A i \in disk[d].intent : i.content \subseteq 1 .. edits
          /\ proc[d].pc \in Running => Private(d)

LEMMA NamesAre ==
  \A n : n \in Names <=> \/ n = server.head
                         \/ \E r \in server.wire : n = r.successor
                         \/ \E d \in Devices : n \in NamesOf(disk[d])
  BY DEF Names

\* Content that a disk may show next without a new close: what it held, what an
\* intent of its records and what a generation is named for.
OldContent(d, c) ==
    \/ \E g \in DOMAIN disk[d].ws : c \in disk[d].ws[g]
    \/ \E i \in disk[d].intent : c = i.content
    \/ \E n \in Names : c = n.content

\* A disk that takes no new name and no new content.
Settled(d, k) ==
    /\ NamesOf(k) \subseteq Names
    /\ \A i \in k.intent : \E j \in disk[d].intent : i.content = j.content
    /\ \A g \in DOMAIN k.ws : \A c \in k.ws[g] : OldContent(d, c)

\* Nothing is named and nothing is written that was not there before.
LEMMA PlainStep ==
  ASSUME IInv, NameInv, edits' = edits,
         server'.head \in Names, \A r \in server'.wire : r.successor \in Names,
         \A d \in Devices : Settled(d, disk'[d]),
         \A d \in Devices : proc'[d].pc \in Running =>
            /\ proc[d].pc \in Running
            /\ proc'[d].selected = proc[d].selected
            /\ disk'[d].ws = disk[d].ws
  PROVE  NameInv'
  <1>1. Names' \subseteq Names
    <2> SUFFICES ASSUME NEW n \in Names' PROVE n \in Names
      OBVIOUS
    <2>1. \/ n = server'.head
          \/ \E r \in server'.wire : n = r.successor
          \/ \E d \in Devices : n \in NamesOf(disk'[d])
      BY DEF Names
    <2> QED
      BY <2>1 DEF Settled
  <1>2. \A d \in Devices :
           /\ \A g \in DOMAIN disk'[d].ws : \A c \in disk'[d].ws[g] : c \subseteq 1 .. edits
           /\ \A i \in disk'[d].intent : i.content \subseteq 1 .. edits
    BY DEF NameInv, Settled, OldContent
  <1>3. ASSUME NEW d \in Devices, NEW e,
               \A n \in Names : e \notin n.content, Lacks(disk[d], {}, e)
        PROVE  Lacks(disk'[d], {}, e)
    BY <1>3 DEF Lacks, Settled, OldContent
  <1>4. ASSUME NEW d \in Devices, proc'[d].pc \in Running PROVE Private(d)'
    <2>1. /\ proc[d].pc \in Running /\ proc'[d].selected = proc[d].selected
          /\ disk'[d].ws = disk[d].ws
      BY <1>4
    <2>2. PICK e \in 1 .. edits :
             /\ \A c \in disk[d].ws[proc[d].selected] : e \in c
             /\ \A n \in Names : e \notin n.content
             /\ Lacks(disk[d], {proc[d].selected}, e)
             /\ \A f \in Devices : f # d => Lacks(disk[f], {}, e)
      BY <2>1 DEF NameInv, Private
    <2>3. Lacks(disk'[d], {proc'[d].selected}, e)
      BY <2>1, <2>2 DEF Lacks, Settled
    <2>4. \A f \in Devices : f # d => Lacks(disk'[f], {}, e)
      BY <1>3, <2>2
    <2> QED
      BY <1>1, <2>1, <2>2, <2>3, <2>4 DEF Private
  <1> QED
    BY <1>1, <1>2, <1>4 DEF NameInv

\* A disk that stays as it is.
LEMMA SameSettled ==
  ASSUME NEW d \in Devices
  PROVE  Settled(d, disk[d])
  BY NamesAre DEF Settled, OldContent

\* A step of one device that leaves no browser running, or leaves it alone.
LEMMA OneSettled ==
  ASSUME IInv, NameInv, edits' = edits, NEW d \in Devices, NEW k, NEW p,
         disk' = [disk EXCEPT ![d] = k], proc' = [proc EXCEPT ![d] = p],
         server'.head \in Names, \A r \in server'.wire : r.successor \in Names,
         Settled(d, k),
         p.pc \in Running => /\ proc[d].pc \in Running
                             /\ p.selected = proc[d].selected
                             /\ k.ws = disk[d].ws
  PROVE  NameInv'
  <1>1. /\ disk'[d] = k /\ proc'[d] = p
        /\ \A f \in Devices : f # d => disk'[f] = disk[f] /\ proc'[f] = proc[f]
    BY DEF IInv, Types
  <1>2. \A f \in Devices : Settled(f, disk'[f])
    BY <1>1, SameSettled
  <1>3. \A f \in Devices : proc'[f].pc \in Running =>
            /\ proc[f].pc \in Running
            /\ proc'[f].selected = proc[f].selected
            /\ disk'[f].ws = disk[f].ws
    BY <1>1
  <1> QED
    BY <1>2, <1>3, PlainStep

\* The same for a step that the server does not take part in.
LEMMA LocalSettled ==
  ASSUME IInv, NameInv, UNCHANGED <<server, edits>>, NEW d \in Devices, NEW k, NEW p,
         disk' = [disk EXCEPT ![d] = k], proc' = [proc EXCEPT ![d] = p],
         Settled(d, k),
         p.pc \in Running => /\ proc[d].pc \in Running
                             /\ p.selected = proc[d].selected
                             /\ k.ws = disk[d].ws
  PROVE  NameInv'
  <1>1. server'.head \in Names /\ \A r \in server'.wire : r.successor \in Names
    BY NamesAre
  <1> QED
    BY <1>1, OneSettled

\* Where a process goes.
LEMMA GoesTo ==
  ASSUME IInv, NEW d \in Devices, NEW pc \in Pc, Goto(d, pc)
  PROVE  \E p \in Process : /\ proc' = [proc EXCEPT ![d] = p]
                            /\ p.pc = pc /\ p.selected = proc[d].selected
  <1> DEFINE p == [proc[d] EXCEPT !.pc = pc]
  <1>1. proc' = [proc EXCEPT ![d] = p]
    BY DEF Goto
  <1>2. p \in Process /\ p.pc = pc /\ p.selected = proc[d].selected
    BY Known, MovedTo
  <1> HIDE DEF p
  <1> QED
    BY <1>1, <1>2

\* A step that ends outside of a browser session.
LEMMA AwayFromBrowser ==
  ASSUME IInv, NameInv, UNCHANGED <<server, edits>>, NEW d \in Devices, NEW k,
         disk' = [disk EXCEPT ![d] = k], Settled(d, k),
         \/ Stop(d)
         \/ proc' = proc /\ proc[d].pc \notin Running
         \/ \E pc \in Pc \ Running : Goto(d, pc)
  PROVE  NameInv'
  <1>1. \E p : proc' = [proc EXCEPT ![d] = p] /\ p.pc \notin Running
    <2>1. CASE Stop(d)
      BY <2>1, DownIs DEF Stop, Running
    <2>2. CASE proc' = proc /\ proc[d].pc \notin Running
      BY <2>2, Known
    <2>3. CASE \E pc \in Pc \ Running : Goto(d, pc)
      BY <2>3, GoesTo
    <2> QED
      BY <2>1, <2>2, <2>3
  <1> QED
    BY <1>1, LocalSettled

LEMMA QuietNames ==
  ASSUME IInv, NameInv, NEW d \in Devices,
         \/ CloseBrowser(d) \/ Crash(d) \/ Blocked(d) \/ ReuseClone(d)
         \/ CommitReply(d) \/ CommitUncertain(d)
         \/ ResumeExact(d) \/ ResumeLone(d) \/ NeedRescue(d)
  PROVE  NameInv'
  <1>1. /\ disk' = [disk EXCEPT ![d] = disk[d]] /\ UNCHANGED <<server, edits>>
    BY Known DEF CloseBrowser, Crash, Blocked, ReuseClone, CommitReply, CommitUncertain,
       ResumeExact, ResumeLone, NeedRescue
  <1>2. Settled(d, disk[d])
    BY SameSettled
  <1>3. CASE CloseBrowser(d)
    <2>1. PICK p \in Process : /\ proc' = [proc EXCEPT ![d] = p]
                               /\ p.selected = proc[d].selected
      BY <1>3, GoesTo DEF CloseBrowser, Pc
    <2>2. proc[d].pc \in Running
      BY <1>3 DEF CloseBrowser, At, Running
    <2> QED
      BY <1>1, <1>2, <2>1, <2>2, LocalSettled
  <1>4. CASE ~CloseBrowser(d)
    <2>1. Stop(d) \/ \E pc \in Pc \ Running : Goto(d, pc)
      BY <1>4 DEF Crash, Blocked, ReuseClone, CommitReply, CommitUncertain,
         ResumeExact, ResumeLone, NeedRescue, Pc, Running
    <2> QED
      BY <1>1, <1>2, <2>1, AwayFromBrowser
  <1> QED
    BY <1>3, <1>4

\* A disk whose directories stay, and that takes up no evidence.
LEMMA FewerNames ==
  ASSUME NEW d \in Devices, NEW k, k.ws = disk[d].ws,
         k.intent \subseteq disk[d].intent, k.attempt \subseteq disk[d].attempt
  PROVE  Settled(d, k)
  <1>1. NamesOf(k) \subseteq NamesOf(disk[d])
    BY DEF NamesOf
  <1> QED
    BY <1>1, NamesAre DEF Settled, OldContent

LEMMA StagingNames ==
  ASSUME IInv, NameInv, NEW d \in Devices,
         \/ StageIntent(d) \/ UnstageIntent(d) \/ StageAttempt(d) \/ UnstageAttempt(d)
  PROVE  NameInv'
  <1>1. PICK b \in BOOLEAN : disk' = [disk EXCEPT ![d].stage = b]
    BY DEF StageIntent, UnstageIntent, StageAttempt, UnstageAttempt
  <1> DEFINE k == [disk[d] EXCEPT !.stage = b]
  <1>2. disk' = [disk EXCEPT ![d] = k] /\ UNCHANGED <<server, edits>>
    BY <1>1 DEF StageIntent, UnstageIntent, StageAttempt, UnstageAttempt
  <1>3. k.ws = disk[d].ws /\ k.intent = disk[d].intent /\ k.attempt = disk[d].attempt
    BY Known, StageSet
  <1> HIDE DEF k
  <1>4. Settled(d, k)
    BY <1>3, FewerNames
  <1>5. CASE StageIntent(d)
    <2>1. PICK p \in Process : /\ proc' = [proc EXCEPT ![d] = p]
                               /\ p.selected = proc[d].selected
      BY <1>5, GoesTo DEF StageIntent, Pc
    <2>2. proc[d].pc \in Running
      BY <1>5 DEF StageIntent, At, Running
    <2> QED
      BY <1>2, <1>3, <1>4, <2>1, <2>2, LocalSettled
  <1>6. CASE ~StageIntent(d)
    <2>1. \E pc \in Pc \ Running : Goto(d, pc)
      BY <1>6 DEF UnstageIntent, StageAttempt, UnstageAttempt, Pc, Running
    <2> QED
      BY <1>2, <1>4, <2>1, AwayFromBrowser
  <1> QED
    BY <1>5, <1>6

\* Records that go, and workspaces that are bound.
LEMMA RetiringNames ==
  ASSUME IInv, NameInv, NEW d \in Devices,
         \/ RetireIntent(d) \/ CompleteActive(d) \/ RetireSaved(d) \/ RetireActive(d)
         \/ BindSuccessor(d) \/ BindActive(d)
  PROVE  NameInv'
  <1> DEFINE D == disk[d]
  <1>1. D \in Disk /\ proc[d] \in Process
    BY Known
  <1>2. \E k : /\ disk' = [disk EXCEPT ![d] = k] /\ k.ws = D.ws
               /\ k.intent \subseteq D.intent /\ k.attempt \subseteq D.attempt
    <2>1. CASE RetireIntent(d) \/ CompleteActive(d)
      <3> DEFINE k == [D EXCEPT !.intent = {}]
      <3>1. disk' = [disk EXCEPT ![d] = k]
        BY <2>1 DEF RetireIntent, CompleteActive
      <3>2. k.ws = D.ws /\ k.intent = {} /\ k.attempt = D.attempt
        BY <1>1, IntentSet
      <3> HIDE DEF k
      <3> QED
        BY <3>1, <3>2
    <2>2. CASE RetireSaved(d) \/ RetireActive(d)
      <3> DEFINE k == [D EXCEPT !.attempt = {}]
      <3>1. disk' = [disk EXCEPT ![d] = k]
        BY <2>2 DEF RetireSaved, RetireActive
      <3>2. k.ws = D.ws /\ k.intent = D.intent /\ k.attempt = {}
        BY <1>1, AttemptSet
      <3> HIDE DEF k
      <3> QED
        BY <3>1, <3>2
    <2>3. CASE BindSuccessor(d) \/ BindActive(d)
      <3>1. PICK g \in Gen : disk' = [disk EXCEPT ![d].bound = @ \cup {g}]
        BY <1>1, <2>3 DEF BindSuccessor, BindActive, Disk, Attempt, Process
      <3> DEFINE k == [D EXCEPT !.bound = D.bound \cup {g}]
      <3>2. disk' = [disk EXCEPT ![d] = k]
        BY <3>1
      <3>3. D.bound \cup {g} \in SUBSET Gen
        BY <1>1 DEF Disk
      <3>4. k.ws = D.ws /\ k.intent = D.intent /\ k.attempt = D.attempt
        BY <1>1, <3>3, BoundSet
      <3> HIDE DEF k
      <3> QED
        BY <3>2, <3>4
    <2> QED
      BY <2>1, <2>2, <2>3
  <1>3. PICK k : disk' = [disk EXCEPT ![d] = k] /\ Settled(d, k)
    BY <1>2, FewerNames
  <1>4. /\ UNCHANGED <<server, edits>>
        /\ \/ Stop(d)
           \/ proc' = proc /\ proc[d].pc \notin Running
           \/ \E pc \in Pc \ Running : Goto(d, pc)
    BY DEF RetireIntent, CompleteActive, RetireSaved, RetireActive, BindSuccessor,
       BindActive, Pc, Running, At
  <1> QED
    BY <1>3, <1>4, AwayFromBrowser

\* The name that an intent determines.
LEMMA IntentNames ==
  ASSUME IInv, NEW d \in Devices, NEW i \in disk[d].intent
  PROVE  /\ i \in Intent /\ i.content \in Content
         /\ Successor(i) \in Gen /\ Successor(i) \in Dir
         /\ Successor(i).content = i.content
         /\ Reserve(i) \in Dir /\ Reserve(i) \notin Gen
         /\ ~Editing(i) => Successor(i) \in Names
  <1>1. i \in Intent
    BY Known DEF Disk
  <1>2. ~Editing(i) => Successor(i) \in Names
    BY NamesAre DEF NamesOf
  <1> QED
    BY <1>1, <1>2, SaveBounds DEF Intent, Successor, Reserve, Gen, Dir

\* Copies are made in the directory of a name that was determined, and reserves
\* are no generations.
LEMMA CopyNames ==
  ASSUME IInv, NameInv, NEW d \in Devices,
         StartClone(d) \/ FinishClone(d) \/ StartReserve(d) \/ FinishReserve(d)
  PROVE  NameInv'
  <1> DEFINE D == disk[d]
  <1>1. D \in Disk
    BY Known
  <1> PICK i \in Source(d) :
         \E g \in {Successor(i), Reserve(i)}, x \in {{}, {i.content}} :
            disk' = [disk EXCEPT ![d] = WithDir(D, g, x)]
    BY DEF StartClone, FinishClone, StartReserve, FinishReserve
  <1>2. PICK g \in {Successor(i), Reserve(i)}, x \in {{}, {i.content}} :
           disk' = [disk EXCEPT ![d] = WithDir(D, g, x)]
    OBVIOUS
  <1>3. i \in D.intent /\ ~Editing(i)
    BY DEF Source, LoneIntent
  <1>4. g \in Dir /\ x \in SUBSET Content /\ (g \in Gen => g \in Names)
    BY <1>3, IntentNames
  <1> DEFINE k == WithDir(D, g, x)
  <1>5. /\ DOMAIN k.ws = DOMAIN D.ws \cup {g}
        /\ k.ws[g] = x
        /\ \A h \in DOMAIN D.ws : h # g => k.ws[h] = D.ws[h]
        /\ k.intent = D.intent /\ k.attempt = D.attempt
    BY <1>1, <1>4, DirMade
  <1> HIDE DEF k
  <1>6. NamesOf(k) \subseteq Names
    <2>1. NamesOf(k) \subseteq NamesOf(D) \cup ({g} \cap Gen)
      BY <1>5 DEF NamesOf
    <2>2. NamesOf(D) \subseteq Names
      BY NamesAre
    <2> QED
      BY <1>4, <2>1, <2>2
  <1>7. \A h \in DOMAIN k.ws : \A c \in k.ws[h] : OldContent(d, c)
    BY <1>3, <1>5 DEF OldContent
  <1>8. Settled(d, k)
    BY <1>5, <1>6, <1>7 DEF Settled
  <1>9. disk' = [disk EXCEPT ![d] = k]
    BY <1>2 DEF k
  <1>10. /\ UNCHANGED <<server, edits>> /\ \E pc \in Pc \ Running : Goto(d, pc)
    BY DEF StartClone, FinishClone, StartReserve, FinishReserve, Pc, Running
  <1> QED
    BY <1>8, <1>9, <1>10, AwayFromBrowser

\* A checkpoint names the successor that its intent determined.
LEMMA AttemptNames ==
  ASSUME IInv, NameInv, NEW d \in Devices, LinkAttempt(d)
  PROVE  NameInv'
  <1> DEFINE D == disk[d]
  <1>1. D \in Disk /\ proc[d].epoch \in 1 .. MaxEpoch
    BY Known DEF LinkAttempt, At
  <1>2. PICK i \in D.intent :
           disk' = [disk EXCEPT ![d].attempt =
             {[base |-> i.base, successor |-> Successor(i), content |-> i.content,
               epoch |-> proc[d].epoch,
               origin |-> IF proc[d].mode = "save" THEN {} ELSE {i.epoch}]}]
    BY DEF LinkAttempt
  <1>3. ~Editing(i) /\ Successor(i) \in Gen /\ Successor(i) \in Names /\ i \in Intent
    BY Known, IntentNames DEF LinkAttempt, At, Points, Making
  <1> DEFINE a == [base |-> i.base, successor |-> Successor(i), content |-> i.content,
                   epoch |-> proc[d].epoch,
                   origin |-> IF proc[d].mode = "save" THEN {} ELSE {i.epoch}]
             k == [D EXCEPT !.attempt = {a}]
  <1>4. a \in Attempt /\ a.successor = Successor(i)
    BY <1>1, <1>3 DEF Attempt, Intent
  <1>5. disk' = [disk EXCEPT ![d] = k]
    BY <1>2
  <1> HIDE DEF a
  <1>6. k.ws = D.ws /\ k.intent = D.intent /\ k.attempt = {a}
    BY <1>1, <1>4, AttemptSet
  <1> HIDE DEF k
  <1>7. NamesOf(k) \subseteq NamesOf(D) \cup {Successor(i)}
    BY <1>4, <1>6 DEF NamesOf
  <1>8. Settled(d, k)
    BY <1>3, <1>6, <1>7, NamesAre DEF Settled, OldContent
  <1>9. /\ UNCHANGED <<server, edits>> /\ \E pc \in Pc \ Running : Goto(d, pc)
    BY DEF LinkAttempt, Pc, Running
  <1> QED
    BY <1>5, <1>8, <1>9, AwayFromBrowser

\* An Editing record determines no successor.
LEMMA RescueNames ==
  ASSUME IInv, NameInv, NEW d \in Devices, BeginRescue(d)
  PROVE  NameInv'
  <1> DEFINE D == disk[d]
  <1>1. D \in Disk /\ D' \in Disk /\ proc[d].epoch \in 1 .. MaxEpoch
    BY Known, RescueBegins DEF BeginRescue, At, IInv, Types
  <1>2. PICK i \in Source(d) \cup InterruptedRescue(D, proc[d].epoch, proc[d].selected) :
           disk' = [disk EXCEPT ![d].intent =
              {[i EXCEPT !.epoch = proc[d].epoch,
                         !.rescue = {[reserve |-> ReserveOf(i), phase |-> "Editing"]}]}]
    BY DEF BeginRescue
  <1>3. i \in D.intent /\ i \in Intent
    BY <1>1 DEF Source, LoneIntent, InterruptedRescue, Disk
  <1> DEFINE q == [reserve |-> ReserveOf(i), phase |-> "Editing"]
             n == [i EXCEPT !.epoch = proc[d].epoch, !.rescue = {q}]
             k == [D EXCEPT !.intent = {n}]
  <1>4. disk' = [disk EXCEPT ![d] = k]
    BY <1>2
  <1>5. q.phase = "Editing"
    OBVIOUS
  <1> HIDE DEF q
  <1>6. n.content = i.content /\ n.rescue = {q}
    BY <1>3 DEF Intent
  <1>7. k.ws = D.ws /\ k.intent = {n} /\ k.attempt = D.attempt
    BY <1>1 DEF Disk
  <1> HIDE DEF n, k
  <1>8. Editing(n)
    BY <1>5, <1>6 DEF Editing
  <1>9. NamesOf(k) \subseteq NamesOf(D)
    BY <1>7, <1>8 DEF NamesOf
  <1>10. Settled(d, k)
    BY <1>3, <1>6, <1>7, <1>9, NamesAre DEF Settled, OldContent
  <1>11. /\ UNCHANGED <<server, edits>> /\ \E pc \in Pc \ Running : Goto(d, pc)
    BY DEF BeginRescue, Pc, Running
  <1> QED
    BY <1>4, <1>10, <1>11, AwayFromBrowser

\* Requests carry the name of a checkpoint, and the head takes that of a request.
LEMMA ServerNames ==
  ASSUME IInv, NameInv,
         \/ LeaseEnds
         \/ \E r \in server.wire : Apply(r) \/ Lose(r)
         \/ \E d \in Devices : \/ ReleaseSaved(d) \/ ReleaseRecovered(d)
                               \/ Claim(d) \/ SendCommit(d)
  PROVE  NameInv'
  <1>1. server \in Server /\ disk' = disk /\ edits' = edits
    BY DEF LeaseEnds, Apply, Lose, ReleaseSaved, ReleaseRecovered, Claim, SendCommit,
       IInv, Types
  <1>2. \A d \in Devices : Settled(d, disk'[d])
    BY <1>1, SameSettled
  <1>3. server'.head \in Names /\ \A q \in server'.wire : q.successor \in Names
    <2>1. server.head \in Names /\ \A q \in server.wire : q.successor \in Names
      BY NamesAre
    <2>2. CASE LeaseEnds \/ \E d \in Devices : ReleaseSaved(d) \/ ReleaseRecovered(d)
      <3>1. server' = [server EXCEPT !.holder = NoDevice]
        BY <2>2 DEF LeaseEnds, ReleaseSaved, ReleaseRecovered
      <3> QED
        BY <1>1, <2>1, <3>1 DEF Server
    <2>3. ASSUME NEW d \in Devices, Claim(d)
          PROVE  server'.head \in Names /\ \A q \in server'.wire : q.successor \in Names
      <3>1. server' = [server EXCEPT !.holder = d, !.epoch = server.epoch + 1]
        BY <2>3 DEF Claim
      <3> QED
        BY <1>1, <2>1, <3>1 DEF Server
    <2>4. ASSUME NEW r \in server.wire, Apply(r) \/ Lose(r)
          PROVE  server'.head \in Names /\ \A q \in server'.wire : q.successor \in Names
      <3>1. /\ server'.wire = server.wire \ {r}
            /\ server'.head \in {server.head, r.successor}
        BY <1>1, <2>4 DEF Apply, Lose, Server
      <3> QED
        BY <2>1, <3>1
    <2>5. ASSUME NEW d \in Devices, SendCommit(d)
          PROVE  server'.head \in Names /\ \A q \in server'.wire : q.successor \in Names
      <3>1. PICK a \in Exact(disk[d]) : server' = [server EXCEPT !.wire = @ \cup
               {[base |-> a.base, successor |-> a.successor, epoch |-> proc[d].epoch]}]
        BY <2>5 DEF SendCommit
      <3>2. a.successor \in Names
        BY NamesAre DEF Exact, NamesOf
      <3>3. /\ server'.head = server.head
            /\ \A q \in server'.wire : q \in server.wire \/ q.successor = a.successor
        BY <1>1, <3>1 DEF Server
      <3> QED
        BY <2>1, <3>2, <3>3
    <2> QED
      BY <2>2, <2>3, <2>4, <2>5
  <1>4. \A d \in Devices : proc'[d].pc \in Running =>
           /\ proc[d].pc \in Running
           /\ proc'[d].selected = proc[d].selected
    <2>1. CASE LeaseEnds \/ \E r \in server.wire : Apply(r) \/ Lose(r)
      BY <2>1 DEF LeaseEnds, Apply, Lose
    <2>2. ASSUME NEW d \in Devices,
                 ReleaseSaved(d) \/ ReleaseRecovered(d) \/ Claim(d) \/ SendCommit(d)
          PROVE  \A f \in Devices : proc'[f].pc \in Running =>
                    proc[f].pc \in Running /\ proc'[f].selected = proc[f].selected
      <3>1. \E p : proc' = [proc EXCEPT ![d] = p] /\ p.pc \notin Running
        <4>1. CASE ReleaseRecovered(d)
          BY <4>1, DownIs DEF ReleaseRecovered, Stop, Running
        <4>2. CASE ReleaseSaved(d) \/ SendCommit(d)
          <5>1. PICK pc \in Pc : Goto(d, pc) /\ pc \notin Running
            BY <4>2 DEF ReleaseSaved, SendCommit, Pc, Running
          <5> QED
            BY <5>1, GoesTo
        <4>3. CASE Claim(d)
          <5> DEFINE p == [pc |-> "claimed", mode |-> "recover",
                           epoch |-> server.epoch + 1, selected |-> server.head]
          <5>1. proc' = [proc EXCEPT ![d] = p] /\ p.pc = "claimed"
            BY <4>3 DEF Claim
          <5> HIDE DEF p
          <5> QED
            BY <5>1 DEF Running
        <4> QED
          BY <2>2, <4>1, <4>2, <4>3
      <3> QED
        BY <3>1 DEF IInv, Types
    <2> QED
      BY <2>1, <2>2
  <1> QED
    BY <1>1, <1>2, <1>3, <1>4, PlainStep

\* The intent of a close determines a name that nothing had: its content has
\* the edit of the session.
LEMMA CloseNames ==
  ASSUME IInv, NameInv, NEW d \in Devices, LinkIntent(d) \/ ReplaceIntent(d)
  PROVE  NameInv'
  <1> DEFINE D == disk[d]
             s == proc[d].selected
             W == D.ws[s]
  <1>1. D \in Disk /\ Coherent(D) /\ proc[d].pc \in {"closed", "staged"}
        /\ UNCHANGED <<server, edits>> /\ s \in DOMAIN D.ws
    BY Known DEF LinkIntent, ReplaceIntent, At, Points, Running
  <1>2. \E I : /\ disk' = [disk EXCEPT ![d].intent = I]
               /\ \A i, j \in I : i = j
               /\ \A i \in I : i.content \in W
    <2>1. CASE LinkIntent(d)
      BY <1>1, <2>1, IntentsOf DEF LinkIntent
    <2>2. CASE ReplaceIntent(d)
      <3>1. PICK n \in IntentOf(d), r \in UNION {j.rescue : j \in D.intent} :
               disk' = [disk EXCEPT ![d].intent =
                             {[n EXCEPT !.rescue = {[r EXCEPT !.phase = "Closed"]}]}]
        BY <2>2 DEF ReplaceIntent
      <3> DEFINE q == [r EXCEPT !.phase = "Closed"]
                 m == [n EXCEPT !.rescue = {q}]
                 J == {m}
      <3>2. disk' = [disk EXCEPT ![d].intent = J]
        BY <3>1
      <3>3. n \in Intent /\ n.content \in W
        BY <1>1, IntentsOf
      <3> HIDE DEF q
      <3>4. m.content = n.content
        BY <3>3 DEF Intent
      <3> HIDE DEF m
      <3>5. \A i, j \in J : i = j /\ i.content \in W
        BY <3>3, <3>4
      <3> HIDE DEF J
      <3> QED
        BY <3>2, <3>5
    <2> QED
      BY <2>1, <2>2
  <1>3. PICK I : /\ disk' = [disk EXCEPT ![d].intent = I]
                 /\ \A i, j \in I : i = j
                 /\ \A i \in I : i.content \in W
    BY <1>2
  <1> DEFINE k == [D EXCEPT !.intent = I]
  <1>4. k.ws = D.ws /\ k.attempt = D.attempt /\ k.intent = I
    BY <1>1 DEF Disk
  <1>5. /\ disk'[d] = k /\ \A f \in Devices : f # d => disk'[f] = disk[f]
    BY <1>3 DEF IInv, Types
  <1> HIDE DEF k
  <1>6. \A i : Successor(i).content = i.content
    BY DEF Successor
  <1>7. \A n \in Names' : n \in Names \/ \E i \in I : n = Successor(i)
    <2> SUFFICES ASSUME NEW n \in Names' PROVE n \in Names \/ \E i \in I : n = Successor(i)
      OBVIOUS
    <2>1. \/ n = server.head
          \/ \E r \in server.wire : n = r.successor
          \/ \E f \in Devices : n \in NamesOf(disk'[f])
      BY <1>1 DEF Names
    <2>2. \A m \in NamesOf(k) : m \in NamesOf(D) \/ \E i \in I : m = Successor(i)
      BY <1>4 DEF NamesOf
    <2> QED
      BY <1>5, <2>1, <2>2, NamesAre
  <1>8. PICK e \in 1 .. edits : /\ \A c \in W : e \in c
                                /\ \A n \in Names : e \notin n.content
    BY <1>1 DEF NameInv, Private, Running
  <1>9. \A m, n \in Names' : m.content = n.content => m = n
    BY <1>3, <1>6, <1>7, <1>8 DEF NameInv
  <1>10. \A c \in W : c \subseteq 1 .. edits
    BY <1>1 DEF NameInv
  <1>11. \A n \in Names' : n.content \subseteq 1 .. edits
    BY <1>3, <1>6, <1>7, <1>10 DEF NameInv
  <1>12. \A f \in Devices :
            /\ \A g \in DOMAIN disk'[f].ws : \A c \in disk'[f].ws[g] : c \subseteq 1 .. edits
            /\ \A i \in disk'[f].intent : i.content \subseteq 1 .. edits
    BY <1>3, <1>4, <1>5, <1>10 DEF NameInv
  <1>13. proc'[d].pc \notin Running /\ \A f \in Devices : f # d => proc'[f] = proc[f]
    <2>1. PICK pc \in Pc : Goto(d, pc) /\ pc \notin Running
      BY DEF LinkIntent, ReplaceIntent, Pc, Running
    <2>2. PICK p \in Process : proc' = [proc EXCEPT ![d] = p] /\ p.pc = pc
      BY <2>1, GoesTo
    <2> QED
      BY <2>1, <2>2 DEF IInv, Types
  <1>14. ASSUME NEW f \in Devices, proc'[f].pc \in Running PROVE Private(f)'
    <2>1. f # d /\ proc'[f] = proc[f] /\ disk'[f] = disk[f]
      BY <1>5, <1>13, <1>14
    <2>2. PICK x \in 1 .. edits :
             /\ \A c \in disk[f].ws[proc[f].selected] : x \in c
             /\ \A n \in Names : x \notin n.content
             /\ Lacks(disk[f], {proc[f].selected}, x)
             /\ \A h \in Devices : h # f => Lacks(disk[h], {}, x)
      BY <1>14, <2>1 DEF NameInv, Private
    <2>3. \A c \in W : x \notin c
      BY <1>1, <2>1, <2>2 DEF Lacks
    <2>4. \A n \in Names' : x \notin n.content
      BY <1>3, <1>6, <1>7, <2>2, <2>3
    <2>5. \A h \in Devices : h # f => Lacks(disk'[h], {}, x)
      BY <1>3, <1>4, <1>5, <2>2, <2>3 DEF Lacks
    <2> QED
      BY <1>1, <2>1, <2>2, <2>4, <2>5 DEF Private
  <1> QED
    BY <1>1, <1>9, <1>11, <1>12, <1>14 DEF NameInv

\* A browser is started on a disk with no new name but the head's.
LEMMA StartSettled ==
  ASSUME IInv, NameInv, NEW d \in Devices, Launch(d) \/ LaunchRescue(d)
  PROVE  \E k : Start(d, k) /\ Settled(d, k)
  <1> DEFINE D == disk[d]
             s == proc[d].selected
  <1>1. CASE Start(d, D)
    BY <1>1, SameSettled
  <1>2. CASE ~Start(d, D)
    <2> DEFINE x == {s.content}
               m == WithDir(D, s, x)
               n == [m EXCEPT !.bound = m.bound \cup {s}]
    <2>1. Start(d, n) /\ D.intent = {} /\ D.attempt = {}
      BY <1>2, Starts
    <2>2. /\ server.epoch = proc[d].epoch /\ proc[d].pc \in Settling
          /\ D \in Disk /\ s \in Gen /\ s \in Dir /\ x \in SUBSET Content
      <3>1. WriterLive(d, proc[d].epoch) /\ proc[d].pc \in {"claimed", "reserved"}
        BY Starts
      <3>2. D \in Disk /\ proc[d] \in Process
        BY Known
      <3>3. s \in Gen
        BY <3>2 DEF Process
      <3> QED
        BY <3>1, <3>2, <3>3 DEF WriterLive, Settling, Rescuing, Gen, Dir
    <2>3. s = server.head /\ s \in Names
      BY <2>2, NamesAre DEF IInv, Leases
    <2>4. \A c \in x : c = s.content
      OBVIOUS
    <2> HIDE DEF x
    <2>5. /\ m \in Disk /\ DOMAIN m.ws = DOMAIN D.ws \cup {s}
          /\ m.ws[s] = x
          /\ \A h \in DOMAIN D.ws : h # s => m.ws[h] = D.ws[h]
          /\ m.intent = D.intent /\ m.attempt = D.attempt
      BY <2>2, DirMade
    <2> HIDE DEF m
    <2>6. m.bound \cup {s} \in SUBSET Gen
      BY <2>2, <2>5 DEF Disk
    <2>7. n.ws = m.ws /\ n.intent = {} /\ n.attempt = {}
      BY <2>1, <2>5, <2>6, BoundSet
    <2> HIDE DEF n
    <2>8. NamesOf(n) \subseteq NamesOf(D) \cup {s}
      BY <2>5, <2>7 DEF NamesOf
    <2>9. \A g \in DOMAIN n.ws : \A c \in n.ws[g] : OldContent(d, c)
      BY <2>3, <2>4, <2>5, <2>7 DEF OldContent
    <2>10. Settled(d, n)
      BY <2>3, <2>7, <2>8, <2>9, NamesAre DEF Settled
    <2> QED
      BY <2>1, <2>10
  <1> QED
    BY <1>1, <1>2

\* The edit of a session is new.
LEMMA BrowseNames ==
  ASSUME IInv, NameInv, NEW d \in Devices, Launch(d) \/ LaunchRescue(d)
  PROVE  NameInv'
  <1> DEFINE s == proc[d].selected
             e == edits + 1
             N == disk'[d]
  <1>1. PICK k : Start(d, k) /\ Settled(d, k)
    BY StartSettled
  <1>2. /\ edits' = e /\ edits \in Nat
        /\ N.ws[s] = {c \cup {e} : c \in k.ws[s]}
        /\ DOMAIN N.ws = DOMAIN k.ws /\ s \in DOMAIN k.ws
        /\ \A h \in DOMAIN k.ws : h # s => N.ws[h] = k.ws[h]
        /\ N.intent = k.intent /\ N.attempt = {} /\ k.attempt = {}
        /\ \A f \in Devices : f # d => disk'[f] = disk[f] /\ proc'[f] = proc[f]
        /\ proc'[d].pc = "browsing" /\ proc'[d].selected = s
        /\ UNCHANGED <<server, closed, saved>>
    <2>1. edits \in Nat
      BY SaveBounds DEF IInv, Types
    <2>2. proc[d].pc \in {"claimed", "reserved"} /\ disk[d].attempt = {}
      BY Starts
    <2>3. s \in DOMAIN k.ws /\ k.attempt = {}
      BY <1>1 DEF Start
    <2>4. /\ edits' = edits + 1
          /\ disk'[d].ws[s] = {c \cup {edits'} : c \in k.ws[s]}
      BY <1>1, <2>2, BrowseStep
    <2> QED
      BY <1>1, <2>1, <2>2, <2>3, <2>4, BrowseStep
  <1>3. Names' \subseteq Names
    <2> SUFFICES ASSUME NEW n \in Names' PROVE n \in Names
      OBVIOUS
    <2>1. \/ n = server.head
          \/ \E r \in server.wire : n = r.successor
          \/ \E f \in Devices : n \in NamesOf(disk'[f])
      BY <1>2 DEF Names
    <2>2. NamesOf(N) \subseteq NamesOf(k)
      BY <1>2 DEF NamesOf
    <2> QED
      BY <1>1, <1>2, <2>1, <2>2, NamesAre DEF Settled
  <1>4. /\ \A g \in DOMAIN k.ws : \A c \in k.ws[g] : c \subseteq 1 .. edits
        /\ \A i \in k.intent : i.content \subseteq 1 .. edits
    BY <1>1 DEF NameInv, Settled, OldContent
  <1>5. /\ e \in 1 .. e /\ e \notin 1 .. edits
        /\ \A c : c \subseteq 1 .. edits => c \subseteq 1 .. e
        /\ \A x \in 1 .. edits : x \in 1 .. e /\ x # e
    BY <1>2
  <1> HIDE DEF e
  <1>6. \A n \in Names' : n.content \subseteq 1 .. edits
    BY <1>3 DEF NameInv
  <1>7. \A f \in Devices :
           /\ \A g \in DOMAIN disk'[f].ws : \A c \in disk'[f].ws[g] : c \subseteq 1 .. e
           /\ \A i \in disk'[f].intent : i.content \subseteq 1 .. e
    <2> SUFFICES ASSUME NEW f \in Devices
                 PROVE  /\ \A g \in DOMAIN disk'[f].ws : \A c \in disk'[f].ws[g] : c \subseteq 1 .. e
                        /\ \A i \in disk'[f].intent : i.content \subseteq 1 .. e
      OBVIOUS
    <2>1. CASE f # d
      BY <1>2, <1>5, <2>1 DEF NameInv
    <2>2. \A c \in N.ws[s] : c \subseteq 1 .. e
      BY <1>2, <1>4, <1>5
    <2>3. CASE f = d
      BY <1>2, <1>4, <1>5, <2>2, <2>3
    <2> QED
      BY <2>1, <2>3
  <1>8. Private(d)'
    <2>1. \A c \in N.ws[s] : e \in c
      BY <1>2
    <2>2. Lacks(N, {s}, e)
      BY <1>2, <1>4, <1>5 DEF Lacks
    <2>3. \A f \in Devices : f # d => Lacks(disk'[f], {}, e)
      BY <1>2, <1>5 DEF Lacks, NameInv
    <2>4. \A n \in Names' : e \notin n.content
      BY <1>5, <1>6
    <2> QED
      BY <1>2, <1>5, <2>1, <2>2, <2>3, <2>4 DEF Private
  <1>9. ASSUME NEW f \in Devices, f # d, proc[f].pc \in Running PROVE Private(f)'
    <2>1. PICK x \in 1 .. edits :
             /\ \A c \in disk[f].ws[proc[f].selected] : x \in c
             /\ \A n \in Names : x \notin n.content
             /\ Lacks(disk[f], {proc[f].selected}, x)
             /\ \A h \in Devices : h # f => Lacks(disk[h], {}, x)
      BY <1>9 DEF NameInv, Private
    <2>2. /\ \A g \in DOMAIN k.ws : \A c \in k.ws[g] : x \notin c
          /\ \A i \in k.intent : x \notin i.content
      <3>1. Lacks(disk[d], {}, x)
        BY <1>9, <2>1
      <3> QED
        BY <1>1, <2>1, <3>1 DEF Settled, OldContent, Lacks
    <2>3. Lacks(N, {}, x)
      <3>1. \A c \in N.ws[s] : x \notin c
        BY <1>2, <1>5, <2>2
      <3> QED
        BY <1>2, <2>2, <3>1 DEF Lacks
    <2>4. \A h \in Devices : h # f => Lacks(disk'[h], {}, x)
      BY <1>2, <2>1, <2>3
    <2>5. /\ disk'[f] = disk[f] /\ proc'[f] = proc[f] /\ x \in 1 .. edits'
      BY <1>2, <1>5, <1>9
    <2> QED
      BY <1>3, <2>1, <2>4, <2>5 DEF Private
  <1>10. \A f \in Devices : proc'[f].pc \in Running => Private(f)'
    BY <1>2, <1>8, <1>9
  <1>11. \A n \in Names' : n.content \subseteq 1 .. e
    BY <1>5, <1>6
  <1>12. \A m, n \in Names' : m.content = n.content => m = n
    BY <1>3 DEF NameInv
  <1> QED
    BY <1>2, <1>7, <1>10, <1>11, <1>12 DEF NameInv

LEMMA InitNames == Init => NameInv
  <1> SUFFICES ASSUME Init PROVE NameInv
    OBVIOUS
  <1>1. /\ server.head = FirstGen /\ server.wire = {} /\ edits = 0
        /\ \A d \in Devices : /\ DOMAIN disk[d].ws = {} /\ disk[d].intent = {}
                              /\ disk[d].attempt = {} /\ proc[d].pc = "down"
    BY DEF Init, Down
  <1>2. \A d \in Devices : NamesOf(disk[d]) = {}
    BY <1>1 DEF NamesOf
  <1>3. \A n \in Names : n = FirstGen
    BY <1>1, <1>2, NamesAre
  <1>4. FirstGen.content = {}
    BY DEF FirstGen
  <1> QED
    BY <1>1, <1>3, <1>4 DEF NameInv, Running

LEMMA NextNames == IInv /\ NameInv /\ [Next]_vars => NameInv'
  <1> SUFFICES ASSUME IInv, NameInv, [Next]_vars PROVE NameInv'
    OBVIOUS
  <1>1. CASE LeaseEnds \/ \E r \in server.wire : Apply(r) \/ Lose(r)
    BY <1>1, ServerNames
  <1>2. ASSUME NEW d \in Devices, Device(d) PROVE NameInv'
    <2>1. ASSUME Save(d) PROVE NameInv'
      BY <2>1, StagingNames, CloseNames, CopyNames, QuietNames, AttemptNames,
         RetiringNames, ServerNames DEF Save
    <2>2. ASSUME Recovery(d) PROVE NameInv'
      BY <2>2, QuietNames, RetiringNames DEF Recovery
    <2>3. ASSUME NativeRescue(d) PROVE NameInv'
      BY <2>3, QuietNames, CopyNames, RescueNames, BrowseNames DEF NativeRescue
    <2> QED
      BY <1>2, <2>1, <2>2, <2>3, ServerNames, QuietNames, BrowseNames DEF Device
  <1>3. CASE UNCHANGED vars
    <2>1. Names' = Names
      BY <1>3 DEF vars, Names
    <2> QED
      BY <1>3, <2>1 DEF vars, NameInv, Private
  <1> QED
    BY <1>1, <1>2, <1>3 DEF Next

\* One close has one successor: however often a save is interrupted and taken
\* up again, by whichever lease, a device never has two generations of the same
\* content.
THEOREM SuccessorsAreUnique == Spec => []OneSuccessor
  <1>1. NameInv => OneSuccessor
    <2> SUFFICES ASSUME NameInv, NEW d \in Devices, NEW g \in DOMAIN disk[d].ws \cap Gen,
                        NEW h \in DOMAIN disk[d].ws \cap Gen, g.content = h.content
                 PROVE  g = h
      BY DEF OneSuccessor
    <2>1. g \in Names /\ h \in Names
      BY NamesAre DEF NamesOf
    <2> QED
      BY <2>1 DEF NameInv
  <1> QED
    BY <1>1, InitIInv, NextIInv, InitNames, NextNames, PTL DEF Spec

=============================================================================
