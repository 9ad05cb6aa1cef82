------------------------ MODULE NotificationCatchUp ------------------------
(***************************************************************************)
(* How one actor learns of durable notifications: the cursor over the      *)
(* history, the catch-up of a connecting socket, the HTTP catch-up and its *)
(* acknowledgement, and the hub that broadcasts live events to the sockets *)
(* it has accepted.                                                        *)
(*                                                                         *)
(* The hub is one Durable Object: its handlers interleave wherever they    *)
(* wait for D1, and not while they wait for the object's own storage.      *)
(* Events are numbered in the order of their cursor position (time, id),   *)
(* which is the order of their commits, not of their notifications.  Which *)
(* of them the actor may see, by its role and the grants it has now, is    *)
(* one set; an owner of the tenant sees all of them.                       *)
(*                                                                         *)
(* Names that NotificationDelivery has too carry "Hub" here, and its       *)
(* events are Notices, so that NotificationProofs can extend both modules. *)
(***************************************************************************)
EXTENDS Naturals, FiniteSets, FiniteSetsExt

CONSTANTS
    Notices,       \* positions in the history
    Grantable,     \* those a grant may be missing for, come or go (a bound)
    Connections,   \* WebSocket handshakes; each has a token of its own
    PageSize,      \* CATCH_UP_PAGE_SIZE
    MaxPages,      \* MAX_CONNECT_CATCH_UP_PAGES
    StaleAfter,    \* SYNC_GATE_STALE_AFTER_MS
    MaxHubClock,   \* bound: time
    MaxHubFaults,  \* bound: crashes and failed sends or calls
    MaxChanges     \* bound: changes of the membership and its grants

ASSUME CatchUpAssumption ==
    /\ Notices \subseteq Nat \ {0} /\ IsFiniteSet(Notices)
    /\ Grantable \subseteq Notices
    /\ PageSize \in Nat \ {0} /\ MaxPages \in Nat \ {0} /\ StaleAfter \in Nat
    /\ MaxHubClock \in Nat /\ MaxHubFaults \in Nat /\ MaxChanges \in Nat

VARIABLES
    hubClock,
    durable,    \* notification_events
    overtaken,  \* history: those that became durable after a later one
    withheld,   \* history: those that a page left out for want of a grant
    owed,       \* history: what a socket was to be told of when accepted
    cursor,     \* user_event_cursors; 0: no row
    active,     \* the membership is ACTIVE
    granted,    \* the events its role and its grants let the member see
    changes,    \* how often membership and grants changed
    fan,        \* the fan-out of an event's queue message to this hub
    gate,       \* the synchronization gate in the hub's storage
    conn,       \* the handshakes and the sockets they lead to
    shown,      \* what was handed to a socket
    alarm,      \* the hub's alarm is set
    check,      \* the alarm handler's view of the sockets while it runs
    web,        \* the HTTP client: what it was shown and its request
    hubFaults

hub == <<gate, conn, shown, alarm, check>>
member == <<active, granted, changes>>
marks == <<overtaken, withheld, owed>>
hubVars == <<hubClock, durable, marks, cursor, member, fan, hub, web, hubFaults>>

-----------------------------------------------------------------------------
(* State *)

Position == {0} \cup Notices

NoGate == [by |-> {}, at |-> 0]

Draining == {"load", "page", "commit", "drained"}

\* "shut": the alarm has closed the socket of a handshake that goes on.
NoConn == [pc |-> "new", exp |-> 0, page |-> {}, round |-> 0, shut |-> FALSE]
Closed == [NoConn EXCEPT !.pc = "closed"]

NoCheck == [on |-> FALSE, of |-> {}]

NoWeb == [seen |-> {}, exp |-> 0, next |-> 0]

HubTypeOK ==
    /\ hubClock \in 0..MaxHubClock
    /\ durable \subseteq Notices
    /\ overtaken \subseteq durable /\ withheld \subseteq durable
    /\ owed \in [Connections -> SUBSET durable]
    /\ cursor \in Position
    /\ active \in BOOLEAN /\ granted \subseteq Notices
    /\ changes \in 0..MaxChanges
    /\ fan \in [Notices -> {"none", "queued", "called", "checked", "done",
                           "lost"}]
    /\ gate \in [by: SUBSET Connections, at: 0..MaxHubClock]
    /\ conn \in [Connections -> [pc: {"new", "authorized", "live", "closed"}
                                         \cup Draining,
                                 exp: Position, page: SUBSET Notices,
                                 round: 0..(MaxPages - 1), shut: BOOLEAN]]
    /\ shown \in [Connections -> SUBSET durable]
    /\ alarm \in BOOLEAN
    /\ check \in [on: BOOLEAN, of: SUBSET Connections]
    /\ web \in [seen: SUBSET Notices, exp: Position, next: Position]
    /\ hubFaults \in 0..MaxHubFaults

\* What the member can see, depending on its grants.
Grants == {now \in SUBSET Notices : Notices \ Grantable \subseteq now}

HubInit ==
    /\ hubClock = 0 /\ durable = {} /\ cursor = 0
    /\ overtaken = {} /\ withheld = {} /\ owed = [c \in Connections |-> {}]
    /\ active = TRUE /\ granted \in Grants /\ changes = 0
    /\ fan = [e \in Notices |-> "none"]
    /\ gate = NoGate
    /\ conn = [c \in Connections |-> NoConn]
    /\ shown = [c \in Connections |-> {}]
    /\ alarm = FALSE /\ check = NoCheck
    /\ web = NoWeb /\ hubFaults = 0

HubFault == hubFaults < MaxHubFaults /\ hubFaults' = hubFaults + 1

HubTick ==
    /\ hubClock < MaxHubClock
    /\ hubClock' = hubClock + 1
    /\ UNCHANGED <<durable, marks, cursor, member, fan, web, hubFaults, hub>>

\* The consumer of the event's queue message has committed the notification;
\* the retries of an earlier event may make it later than a later one's.
Persist(e) ==
    /\ e \notin durable
    /\ durable' = durable \cup {e}
    /\ overtaken' = IF \E f \in durable : f > e THEN overtaken \cup {e}
                    ELSE overtaken
    /\ fan' = [fan EXCEPT ![e] = "queued"]
    /\ UNCHANGED <<hubClock, withheld, owed, cursor, member, web, hubFaults,
                   hub>>

\* The member is suspended or comes back.
ChangeMembership ==
    /\ changes < MaxChanges
    /\ changes' = changes + 1 /\ active' = ~active
    /\ owed' = [c \in Connections |-> IF active' THEN owed[c] ELSE {}]
    /\ UNCHANGED <<hubClock, durable, overtaken, withheld, cursor, granted, fan,
                   web, hubFaults, hub>>

\* A client or a profile is granted to the member, or the grant is revoked.
ChangeGrants ==
    /\ changes < MaxChanges
    /\ changes' = changes + 1
    /\ \E now \in Grants \ {granted} :
          /\ granted' = now
          /\ owed' = [c \in Connections |-> owed[c] \cap now]
    /\ UNCHANGED <<hubClock, durable, overtaken, withheld, cursor, active, fan,
                   web, hubFaults, hub>>

\* Retention removes the cursor of a member that is no longer active.
CompactCursor ==
    /\ ~active /\ cursor # 0
    /\ cursor' = 0
    /\ UNCHANGED <<hubClock, durable, marks, member, fan, web, hubFaults, hub>>

-----------------------------------------------------------------------------
(* The history and its cursor *)

After(position) == {e \in durable : e > position}

\* What the member sees of the history there.
Visible(position) == IF active THEN After(position) \cap granted ELSE {}

\* ORDER BY occurred_at_ms, outbox_event_id LIMIT, of what is authorized now.
Page(position, limit) ==
    {e \in Visible(position) :
       Cardinality({f \in Visible(position) : f < e}) < limit}

\* What a page leaves out below its last event: a cursor set to that event
\* passes it.
LeftOut(position, page) ==
    {f \in After(position) \ granted : \E e \in page : f < e}

\* compare_and_advance_user_cursor; the guard on suspended members raises.
Advance(expected, next) ==
    IF cursor = expected THEN cursor' = next ELSE UNCHANGED cursor

-----------------------------------------------------------------------------
(* A connecting socket *)

Authorize(c) ==
    /\ conn[c].pc = "new"
    /\ conn' = [conn EXCEPT ![c] = IF active THEN [@ EXCEPT !.pc = "authorized"]
                                   ELSE Closed]
    /\ UNCHANGED <<hubClock, durable, marks, cursor, member, fan, gate, shown,
                   alarm, check, web, hubFaults>>

\* The gate is stored and the socket accepted before the catch-up starts.
Accept(c) ==
    /\ conn[c].pc = "authorized"
    /\ gate' = [by |-> {c}, at |-> hubClock]
    /\ conn' = [conn EXCEPT ![c].pc = "load"]
    /\ owed' = [owed EXCEPT ![c] = Visible(0)]
    /\ UNCHANGED <<hubClock, durable, overtaken, withheld, cursor, member, fan,
                   shown, alarm, check, web, hubFaults>>

Owned(c) == gate.by = {c}

\* The catch-up failed: the gate is given up and the socket closed.
Abort(c) ==
    /\ gate' = IF Owned(c) THEN NoGate ELSE gate
    /\ conn' = [conn EXCEPT ![c] = Closed]

LoadCursor(c) ==
    /\ conn[c].pc = "load"
    /\ IF active
       THEN /\ conn' = [conn EXCEPT ![c].pc = "page", ![c].exp = cursor]
            /\ UNCHANGED gate
       ELSE Abort(c)
    /\ UNCHANGED <<hubClock, durable, marks, cursor, member, fan, shown, alarm,
                   check, web, hubFaults>>

\* A plausible slip: the cursor moves before the page is handed over.
LoadPageFirst(c) ==
    LET page == Page(conn[c].exp, PageSize) IN
    /\ conn[c].pc = "page"
    /\ IF page # {} /\ cursor = conn[c].exp THEN cursor' = Max(page)
       ELSE UNCHANGED cursor
    /\ conn' = [conn EXCEPT ![c].pc = "commit", ![c].page = page,
                            ![c].exp = cursor']
    /\ withheld' = withheld \cup LeftOut(conn[c].exp, page)
    /\ UNCHANGED <<hubClock, durable, overtaken, owed, member, fan, gate, shown,
                   alarm, check, web, hubFaults>>

\* The page is read and handed to the socket, signal by signal.
LoadPage(c) ==
    LET page == Page(conn[c].exp, PageSize) IN
    /\ conn[c].pc = "page"
    /\ IF page # {} /\ conn[c].shut
       THEN Abort(c) /\ UNCHANGED <<shown, withheld>>
       ELSE /\ shown' = [shown EXCEPT ![c] = @ \cup page]
            /\ withheld' = withheld \cup LeftOut(conn[c].exp, page)
            /\ conn' = [conn EXCEPT ![c].pc = "commit", ![c].page = page]
            /\ UNCHANGED gate
    /\ UNCHANGED <<hubClock, durable, overtaken, owed, cursor, member, fan,
                   alarm, check, web, hubFaults>>

\* A send fails after part of the page.
SendFails(c) ==
    /\ conn[c].pc = "page"
    /\ HubFault
    /\ \E e \in Page(conn[c].exp, PageSize) :
          shown' = [shown EXCEPT ![c] =
                      @ \cup {f \in Page(conn[c].exp, PageSize) : f < e}]
    /\ Abort(c)
    /\ UNCHANGED <<hubClock, durable, marks, cursor, member, fan, alarm, check,
                   web>>

Spent(c) == conn[c].round + 1 = MaxPages

Stale(c) == conn[c].page # {} /\ cursor # conn[c].exp

\* A plausible slip: a full page counts as the last one.
AgainOnRace(c) == Stale(c)

\* The page may be followed by another one, or was read from an old cursor.
Again(c) == Stale(c) \/ ~(Cardinality(conn[c].page) < PageSize)

\* The cursor follows the page.  A lost race repeats the page, a full page
\* asks for the next one, and both count against the bound on pages.
Commit(c) ==
    LET page == conn[c].page
        Proceed(pc) == /\ conn' = [conn EXCEPT
                                ![c].pc = pc, ![c].page = {}, ![c].exp = 0,
                                ![c].round = IF pc = "load" THEN @ + 1 ELSE @]
                       /\ UNCHANGED gate
    IN
    /\ conn[c].pc = "commit"
    /\ IF page = {} THEN UNCHANGED cursor /\ Proceed("drained")
       ELSE IF ~Stale(c) /\ ~active THEN UNCHANGED cursor /\ Abort(c)
       ELSE /\ Advance(conn[c].exp, Max(page))
            /\ IF ~Again(c) THEN Proceed("drained")
               ELSE IF Spent(c) THEN Abort(c) ELSE Proceed("load")
    /\ UNCHANGED <<hubClock, durable, marks, member, fan, shown, alarm, check,
                   web, hubFaults>>

\* A statement of D1 fails, for the cursor's perhaps after it was applied.
CatchUpFails(c) ==
    /\ conn[c].pc \in {"new", "load", "page", "commit"}
    /\ HubFault
    /\ Abort(c)
    /\ \/ UNCHANGED cursor
       \/ /\ conn[c].pc = "commit" /\ conn[c].page # {} /\ active
          /\ Advance(conn[c].exp, Max(conn[c].page))
    /\ UNCHANGED <<hubClock, durable, marks, member, fan, shown, alarm, check,
                   web>>

\* The gate is given up, the alarm set and the client's end returned.
GoLive(c) ==
    /\ conn[c].pc = "drained"
    /\ gate' = IF Owned(c) THEN NoGate ELSE gate
    /\ alarm' = TRUE
    /\ conn' = [conn EXCEPT ![c] = IF @.shut THEN Closed
                                   ELSE [NoConn EXCEPT !.pc = "live"]]
    /\ UNCHANGED <<hubClock, durable, marks, cursor, member, fan, shown, check,
                   web, hubFaults>>

\* The client goes away.
Disconnect(c) ==
    /\ conn[c].pc = "live"
    /\ HubFault
    /\ conn' = [conn EXCEPT ![c] = Closed]
    /\ UNCHANGED <<hubClock, durable, marks, cursor, member, fan, gate, shown,
                   alarm, check, web>>

\* The object is lost with its sockets and the calls it was answering; its
\* storage and alarm remain.
HubCrash ==
    /\ \E c \in Connections : conn[c].pc \notin {"new", "closed"}
    /\ HubFault
    /\ conn' = [c \in Connections |-> IF conn[c].pc = "new" THEN NoConn ELSE Closed]
    /\ alarm' = (alarm \/ check.on)
    /\ check' = NoCheck
    /\ fan' = [e \in Notices |-> IF fan[e] = "checked" THEN "lost" ELSE fan[e]]
    /\ UNCHANGED <<hubClock, durable, marks, cursor, member, gate, shown, web>>

-----------------------------------------------------------------------------
(* The periodic check of the membership *)

Sockets == {c \in Connections :
              conn[c].pc \in Draining \cup {"live"} /\ ~conn[c].shut}

\* close_all on the sockets that the handler saw when it started.
Shut(c) == IF c \notin check.of THEN conn[c]
           ELSE IF conn[c].pc = "live" THEN Closed
           ELSE IF conn[c].pc \in Draining THEN [conn[c] EXCEPT !.shut = TRUE]
           ELSE conn[c]

AlarmFires ==
    /\ alarm /\ ~check.on
    /\ alarm' = FALSE
    /\ check' = IF Sockets = {} THEN NoCheck ELSE [on |-> TRUE, of |-> Sockets]
    /\ UNCHANGED <<hubClock, durable, marks, cursor, member, fan, gate, conn,
                   shown, web, hubFaults>>

\* A plausible slip: the check is not repeated.
AlarmAnswerOnce ==
    /\ check.on
    /\ check' = NoCheck
    /\ conn' = [c \in Connections |-> IF active THEN conn[c] ELSE Shut(c)]
    /\ UNCHANGED <<hubClock, durable, marks, cursor, member, fan, gate, shown,
                   alarm, web, hubFaults>>

\* A member that is active is asked for again, another one is disconnected.
AlarmAnswer ==
    /\ check.on
    /\ check' = NoCheck
    /\ alarm' = (alarm \/ active)
    /\ conn' = [c \in Connections |-> IF active THEN conn[c] ELSE Shut(c)]
    /\ UNCHANGED <<hubClock, durable, marks, cursor, member, fan, gate, shown,
                   web, hubFaults>>

\* D1 does not answer: the sockets are closed, and there is no further check.
AlarmFails ==
    /\ check.on
    /\ HubFault
    /\ check' = NoCheck
    /\ conn' = [c \in Connections |-> Shut(c)]
    /\ UNCHANGED <<hubClock, durable, marks, cursor, member, fan, gate, shown,
                   alarm, web>>

-----------------------------------------------------------------------------
(* Live events *)

\* At the bound of the clock every deadline has passed.
GateFresh ==
    /\ gate # NoGate
    /\ hubClock <= gate.at + StaleAfter /\ hubClock < MaxHubClock

\* The event's audience is read before its hub is called.
PublishAudience(e) ==
    /\ fan[e] = "queued"
    /\ fan' = [fan EXCEPT ![e] = IF active /\ e \in granted THEN "called"
                                ELSE "done"]
    /\ UNCHANGED <<hubClock, durable, marks, cursor, member, web, hubFaults,
                   hub>>

\* A fresh gate refuses the call: the queue retries the message, or gives it up.
PublishRefused(e) ==
    /\ fan[e] = "called" /\ GateFresh
    /\ \E outcome \in {"queued", "lost"} : fan' = [fan EXCEPT ![e] = outcome]
    /\ UNCHANGED <<hubClock, durable, marks, cursor, member, web, hubFaults,
                   hub>>

\* A plausible slip: a gate that was left behind is never stale.
PublishCheckForever(e) ==
    /\ fan[e] = "called" /\ gate = NoGate
    /\ fan' = [fan EXCEPT ![e] = "checked"]
    /\ UNCHANGED <<hubClock, durable, marks, cursor, member, web, hubFaults,
                   hub>>

\* No gate is in the way, or only one that is stale and given up.
PublishCheck(e) ==
    /\ fan[e] = "called" /\ ~GateFresh
    /\ gate' = NoGate
    /\ fan' = [fan EXCEPT ![e] = "checked"]
    /\ UNCHANGED <<hubClock, durable, marks, cursor, member, conn, shown, alarm,
                   check, web, hubFaults>>

\* Authorization, then the broadcast to every socket the hub has accepted.
PublishSend(e) ==
    /\ fan[e] = "checked"
    /\ fan' = [fan EXCEPT ![e] = "done"]
    /\ shown' = [c \in Connections |->
                   IF active /\ e \in granted /\ c \in Sockets
                   THEN shown[c] \cup {e} ELSE shown[c]]
    /\ UNCHANGED <<hubClock, durable, marks, cursor, member, gate, conn, alarm,
                   check, web, hubFaults>>

\* The call to the hub fails; the message is acknowledged all the same.
PublishFails(e) ==
    /\ fan[e] \in {"queued", "called", "checked"}
    /\ HubFault
    /\ fan' = [fan EXCEPT ![e] = "lost"]
    /\ UNCHANGED <<hubClock, durable, marks, cursor, member, web, hub>>

-----------------------------------------------------------------------------
(* The HTTP catch-up *)

Fetch ==
    LET page == Page(cursor, Cardinality(Notices)) IN
    /\ web.next = 0 /\ ~(page \subseteq web.seen)
    /\ web' = [web EXCEPT !.seen = @ \cup page]
    /\ withheld' = withheld \cup LeftOut(cursor, page)
    /\ UNCHANGED <<hubClock, durable, overtaken, owed, cursor, member, fan,
                   hubFaults, hub>>

\* The client acknowledges the last event of what it was shown; the event
\* must be in the page that is current now.
AcknowledgeCheck ==
    /\ web.next = 0
    /\ \E e \in web.seen \cap Page(cursor, Cardinality(Notices)) :
          /\ \A f \in web.seen : f <= e
          /\ web' = [web EXCEPT !.exp = cursor, !.next = e]
    /\ UNCHANGED <<hubClock, durable, marks, cursor, member, fan, hubFaults,
                   hub>>

AcknowledgeCommit ==
    /\ web.next # 0
    /\ IF active THEN Advance(web.exp, web.next) ELSE UNCHANGED cursor
    /\ web' = [web EXCEPT !.exp = 0, !.next = 0]
    /\ UNCHANGED <<hubClock, durable, marks, member, fan, hubFaults, hub>>

-----------------------------------------------------------------------------
Handshake(c) == \/ Authorize(c) \/ Accept(c) \/ LoadCursor(c) \/ LoadPage(c)
                \/ Commit(c) \/ GoLive(c)

Live(e) == \/ PublishAudience(e) \/ PublishRefused(e) \/ PublishCheck(e)
           \/ PublishSend(e)

HubNext ==
    \/ HubTick \/ ChangeMembership \/ ChangeGrants \/ CompactCursor \/ HubCrash
    \/ \E e \in Notices : Persist(e) \/ Live(e) \/ PublishFails(e)
    \/ \E c \in Connections : Handshake(c) \/ SendFails(c) \/ CatchUpFails(c)
                             \/ Disconnect(c)
    \/ AlarmFires \/ AlarmAnswer \/ AlarmFails
    \/ Fetch \/ AcknowledgeCheck \/ AcknowledgeCommit

\* Time passes, handlers that started go on, the alarm is delivered, and the
\* queue goes on with some message that it holds, or gives it up.
HubFairness ==
    /\ WF_hubVars(HubTick)
    /\ WF_hubVars(AlarmFires \/ AlarmAnswer)
    /\ \A c \in Connections : WF_hubVars(conn[c].pc # "new" /\ Handshake(c))
    /\ WF_hubVars(\E e \in Notices : Live(e))

HubSpec == HubInit /\ [][HubNext]_hubVars /\ HubFairness

-----------------------------------------------------------------------------
(* Properties *)

Handed == (UNION {shown[c] : c \in Connections}) \cup web.seen

Passed == {e \in durable : e <= cursor}

\* The cursor passes an event only after the event was handed to a socket or
\* to the HTTP client, whatever races, failed sends and crashes interfere and
\* however grants come and go.  The two exceptions are an event that became
\* durable after a later one, and one that the member had no grant for when the
\* page was read that the cursor followed.
PassedWasShown == Passed \subseteq Handed \cup overtaken \cup withheld

\* A socket is given to live events only when the member was told of everything
\* that was durable and that the member could see when the hub accepted it and
\* ever since: the pages are drained to the end, whoever else moves the cursor
\* meanwhile (docs/REALTIME_NOTIFICATIONS.md:38-39).  The exceptions are those
\* of PassedWasShown.
LiveIsCaughtUp ==
    \A c \in Connections :
        conn[c].pc = "live" => owed[c] \subseteq Handed \cup overtaken \cup withheld

Underway(e) == fan[e] \in {"queued", "called", "checked"}

\* No exception for what became durable late: what the member could see is ahead
\* of the cursor, and in a page to come, or was handed over, or is still on its
\* way to the hub.
NothingSkipped ==
    \A e \in Passed \ withheld :
        e \in Handed \/ Underway(e)

\* Whenever fan-outs are under way, a time comes when none is: a gate whose owner
\* died delays them, and does not have their messages refused for ever.
FanoutEnds ==
    (\E e \in Notices : Underway(e)) ~> (\A e \in Notices : ~Underway(e))

\* A suspended member's sockets are closed, also those whose handshake was
\* under way when the member was suspended.
SuspendedIsDisconnected ==
    \A c \in Connections :
        (~active /\ conn[c].pc = "live") ~> (active \/ conn[c].pc = "closed")

\* A live event is never sent to a socket that is still catching up.
LiveAfterCatchUp ==
    [][\A e \in Notices, c \in Connections :
           fan[e] = "checked" /\ fan'[e] = "done" /\ conn[c].pc \in Draining
               => shown'[c] = shown[c]]_hubVars

=============================================================================
