------------------------------ MODULE Workspace ------------------------------
(***************************************************************************)
(* The terminal workspace and the monitor rail of the main window: tabs    *)
(* and the panes inside them, merging, splitting and taking them apart,    *)
(* closing with a question that runs an event loop of its own, the session *)
(* the rail is bound to, the badge and the latency it shows, and the       *)
(* probe of every tab.                                                     *)
(*                                                                         *)
(* Everything happens on one thread, but a call emits signals whose slots  *)
(* run before it continues; an action composes those calls on the record   *)
(* ws, in the order of the code.  While the question of a close is open    *)
(* the other actions go on.  A session is only off, connecting or up here: *)
(* SshConnection is about how it gets there.                               *)
(***************************************************************************)
EXTENDS SubSequences, FiniteSets

CONSTANTS
    Servers,            \* the saved SSH hosts
    NoServer,           \* none of them
    Rdp,                \* a remote desktop shown in the rail
    MaxRestored,        \* tabs restored from the last run
    MaxPanes,           \* panes ever opened
    MaxVersion,         \* edits of a host, plus one
    MaxActs,            \* what the user does, answers and reports aside
    PaneLimit           \* panes a tab may hold (8 in the code)

ASSUME WorkspaceAssumption ==
    /\ MaxPanes \in Nat \ {0} /\ MaxVersion \in Nat /\ MaxActs \in Nat /\ MaxRestored \in 0 .. MaxPanes /\ PaneLimit \in Nat \ {0}
    /\ NoServer \notin Servers /\ Rdp \notin Servers /\ Rdp # NoServer

VARIABLES
    ws,                 \* the workspace and the rail, see Init
    saved,              \* the version of each saved host, 0 once it is deleted
    confirm,            \* the setting "ask before a close"
    acts,               \* what the user did so far, a bound
    question,           \* the open question: what it is about, in order, and the panes that were meant
    launch,             \* a remote desktop is being opened: its password is read, or a box says that it failed
    deleted             \* history: the host that was to be deleted in the last step

vars == <<ws, saved, acts, confirm, question, launch, deleted>>

PaneIds == 1 .. MaxPanes
PageIds == PaneIds                  \* a tab has the number of the pane it was made for
NoPane == 0
NoPage == 0
Settings == MaxPanes + 1            \* the page of the settings tab
NoQuestion == [open |-> FALSE, items |-> <<>>, panes |-> {}, kept |-> NoPage]

(* What a label says: nothing, a placeholder, or a time measured for an endpoint. *)
Blank == <<NoServer, 0>>
Waiting == <<NoServer, 1>>

NoProbe == [on |-> FALSE, target |-> Blank, socket |-> Blank, late |-> Blank, text |-> Blank]
NewPage(panes, active) == [panes |-> panes, active |-> active, pin |-> NoPane, end |-> Blank, probe |-> NoProbe]
EmptyPage == NewPage(<<>>, NoPane)
NewPane(s, v) == [server |-> s, version |-> v, next |-> 0, state |-> "off", known |-> FALSE]
Unused == NewPane(NoServer, 0)

-----------------------------------------------------------------------------
(* Looking at a workspace w. *)

Live(w) == UNION {ToSet(w.pages[g].panes) : g \in ToSet(w.tabs)}
PageOf(w, p) == CHOOSE g \in ToSet(w.tabs) : p \in ToSet(w.pages[g].panes)
CurrentPanes(w) == IF w.cur = NoPage THEN <<>> ELSE w.pages[w.cur].panes
Up(w, p) == w.panes[p].state = "up"
Endpoint(w, p) == <<w.panes[p].server, w.panes[p].version>>
ConnectedTo(w, s) == \E p \in Live(w) : w.panes[p].server = s /\ Up(w, p)

(* The profile a pane's next connection uses. *)
NextVersion(w, p) == IF w.panes[p].next # 0 THEN w.panes[p].next ELSE w.panes[p].version

FreshPane(w) == w.opened + 1

-----------------------------------------------------------------------------
(* The probe of a tab. *)

(* cancelProbe: the socket is given up; what it still reports is late (the last one is kept). *)
Late(q) == IF q.socket = Blank THEN q.late ELSE q.socket

(* startProbe, which every caller of checks that no socket is under way. *)
StartProbe(q) == [q EXCEPT !.socket = q.target, !.text = Waiting]

(* setActive(false).  The text stays in the code, but a start replaces it before it is shown. *)
Paused(q) == [q EXCEPT !.on = FALSE, !.socket = Blank, !.late = Late(q), !.text = Blank]

(* setTarget and setActive(true): a probe of another target starts again. *)
Aimed(q, end) ==
    IF q.on /\ q.target = end THEN q ELSE StartProbe([Paused(q) EXCEPT !.on = TRUE, !.target = end])

(* finishProbe *)
FinishProbe(q, reading) == [q EXCEPT !.socket = Blank, !.text = reading]

(* Only the probe of the tab in front runs, and only for a connected source; the label takes *)
(* what belongs to the tab the rail is bound to, or is cleared when no tab is shown.         *)
UpdateProbes(w) ==
    LET group == IF w.home THEN NoPage ELSE w.cur
        pin == w.pages[group].pin
        enabled == pin # NoPane /\ pin \in ToSet(w.pages[group].panes) /\ Up(w, pin)
        pages == [g \in DOMAIN w.pages |->
            IF g = group /\ enabled THEN [w.pages[g] EXCEPT !.probe = Aimed(@, Endpoint(w, pin))]
            ELSE IF w.pages[g].probe.on THEN [w.pages[g] EXCEPT !.probe = Paused(@)]
            ELSE w.pages[g]]
    IN  [w EXCEPT !.pages = pages,
                  !.label = IF group \notin {NoPage, w.monitor} THEN @ ELSE pages[group].probe.text]

-----------------------------------------------------------------------------
(* The rail. *)

(* The badge aggregates all panes although a session is bound: a faulty variant of Present. *)
PresentAny(w, s, connected, connecting) ==
    IF w.shown # s THEN w
    ELSE [w EXCEPT !.badge = IF connected \/ ConnectedTo(w, s) THEN "online"
                              ELSE IF connecting THEN "connecting" ELSE "offline"]

(* updateConnectionPresentation: the bound session decides if it is one of this host. *)
Present(w, s, connected, connecting) ==
    LET focused == w.session # NoPane /\ w.panes[w.session].known /\ w.panes[w.session].server = s
        up == IF focused THEN Up(w, w.session) ELSE connected \/ ConnectedTo(w, s)
        coming == IF focused THEN w.panes[w.session].state = "connecting" ELSE connecting
    IN  IF w.shown # s THEN w
        ELSE [w EXCEPT !.badge = IF up THEN "online" ELSE IF coming THEN "connecting" ELSE "offline"]

(* activateMonitorSession: the rail is bound to session p of tab g. *)
ActivateMonitor(w, g, p) ==
    LET s == w.panes[p].server
    IN  Present([w EXCEPT !.monitor = g, !.session = p, !.shown = s],
                s, Up(w, p), w.panes[p].state = "connecting")

(* The pinned source stays although another channel of its host is up: a faulty variant of Pinned. *)
PinnedForGood(w, g) ==
    LET page == w.pages[g] IN IF page.pin \in ToSet(page.panes) THEN page.pin ELSE Head(page.panes)

OfEnd(w, panes, end) == Only(panes, {p \in PaneIds : Endpoint(w, p) = end})
UpOfEnd(w, panes, end) == Only(OfEnd(w, panes, end), {p \in PaneIds : Up(w, p)})

(* A source that is not connected hands over to a connected one of its endpoint. *)
HandedOver(w, panes, pin) ==
    LET next == UpOfEnd(w, panes, Endpoint(w, pin))
    IN  IF Up(w, pin) \/ next = <<>> THEN pin ELSE Head(next)

(* The source of tab g: the pinned pane, else one of the same endpoint, else the first. *)
Pinned(w, g) ==
    LET page == w.pages[g]
        up == UpOfEnd(w, page.panes, page.end)
        same == OfEnd(w, page.panes, page.end)
    IN  HandedOver(w, page.panes, IF page.pin \in ToSet(page.panes) THEN page.pin
                                  ELSE IF up # <<>> THEN Head(up)
                                  ELSE IF same # <<>> THEN Last(same)
                                  ELSE Head(page.panes))

(* Tab g is bound to the source pin, and the rail to both. *)
BindTo(w, g, pin) ==
    UpdateProbes(ActivateMonitor([w EXCEPT !.pages[g].pin = pin, !.pages[g].end = Endpoint(w, pin)], g, pin))

(* publishMonitorSession, which publishActiveSession ends with; a tab without panes has none. *)
Publish(w) == IF CurrentPanes(w) = <<>> THEN w ELSE BindTo(w, w.cur, Pinned(w, w.cur))

-----------------------------------------------------------------------------
(* Views, tabs and connections. *)

ShowHome(w, home) == IF w.home = home THEN w ELSE UpdateProbes([w EXCEPT !.home = home])

(* updateWorkspaceState: the start page is shown exactly when no tab is left. *)
ShowTabs(w) == ShowHome(w, w.tabs = <<>>)

(* The tab bar and the stack go to page g. *)
GoTo(w, g) == Publish(ShowHome([w EXCEPT !.cur = g], FALSE))

(* selectSessionTab: only tabs with panes are selected, and another tab clears the selection. *)
Select(w, g, chosen) ==
    GoTo([w EXCEPT !.selected = IF w.pages[g].panes = <<>> THEN {} ELSE {h \in chosen : w.pages[h].panes # <<>>}], g)

(* The slot of connectionChanged of pane p, which reaches the rail only if p is shown. *)
Changed(w, p, state) ==
    LET now == [w EXCEPT !.panes[p].state = state, !.panes[p].known = TRUE]
        told == Present(now, w.panes[p].server, state = "up", state = "connecting")
    IN  IF p \in ToSet(CurrentPanes(told)) THEN Publish(told) ELSE told

(* connectToServer: a session that is up or on its way is left alone. *)
Connect(w, p) == IF w.panes[p].state # "off" THEN w ELSE Changed(w, p, "connecting")

(* disconnectFromHost; the pane may have been taken out of its tab already. *)
Disconnect(w, p) == IF w.panes[p].state = "off" THEN w ELSE Changed(w, p, "off")

(* A pane becomes the active one of its tab, if that tab is in front. *)
Activate(w, p) ==
    IF p \notin ToSet(CurrentPanes(w)) \/ w.pages[w.cur].active = p THEN w
    ELSE Publish([w EXCEPT !.pages[w.cur].active = p])

Opened(w, p, s, v) == [w EXCEPT !.panes[p] = NewPane(s, v), !.opened = p]

(* addSession: a tab of its own behind the others, then the connection. *)
AddTab(w, s, v) ==
    LET p == FreshPane(w)
        added == [Opened(w, p, s, v) EXCEPT !.pages[p] = NewPage(<<p>>, p), !.tabs = Append(@, p),
                                            !.cur = p, !.selected = {p}]
    IN  Connect(ShowTabs(Publish(added)), p)

-----------------------------------------------------------------------------
(* Closing. *)

(* releaseSession: the rail lets go of a session that is closed. *)
Release(w, p) == IF w.session = p THEN [w EXCEPT !.session = NoPane] ELSE w

(* The session is closed but the rail keeps it: a faulty variant of Closed. *)
ClosedOnly(w, p) == [Disconnect(w, p) EXCEPT !.panes[p] = Unused]

(* The session is disconnected and its pane deleted. *)
Closed(w, p) == [Release(Disconnect(w, p), p) EXCEPT !.panes[p] = Unused]
ClosedAll(w, panes) == FoldLeft(LAMBDA u, p : Closed(u, p), w, panes)

(* What the main window does when the last terminal is gone. *)
Emptied(w) ==
    IF \E g \in ToSet(w.tabs) : w.pages[g].panes # <<>> THEN w
    ELSE [w EXCEPT !.session = NoPane, !.monitor = NoPage, !.shown = NoServer,
                   !.badge = "offline", !.label = Blank]

(* removeSession.  Tab bar and stack go to the right neighbour, else to the left one; the *)
(* pages that are left no longer count the panes whose sessions are ended.               *)
RemovePage(w, g) ==
    LET i == CHOOSE k \in DOMAIN w.tabs : w.tabs[k] = g
        left == RemoveAt(w.tabs, i)
        near == IF left = <<>> THEN NoPage ELSE left[IF i <= Len(left) THEN i ELSE Len(left)]
        page == w.pages[g]
        out == [w EXCEPT !.tabs = left, !.cur = IF w.cur = g THEN near ELSE @]
        said == IF page.panes = <<>> THEN out
                ELSE Present(out, w.panes[page.active].server, FALSE, FALSE)
        closed == ClosedAll(said, page.panes)
        gone == [closed EXCEPT !.pages[g] = EmptyPage, !.selected = @ \ {g},
                               !.monitor = IF @ = g THEN NoPage ELSE @]
    IN  Emptied(ShowTabs(Publish(gone)))

(* removePane of a pane that has neighbours: first out of the tab, then disconnected. *)
DetachPane(w, p) ==
    LET g == PageOf(w, p)
        wasActive == w.pages[g].active = p
        out == Closed([w EXCEPT !.pages[g].panes = Only(@, PaneIds \ {p})], p)
        active == IF wasActive THEN [out EXCEPT !.pages[g].active = Head(out.pages[g].panes)] ELSE out
    IN  Publish(active)

RemovePane(w, p) ==
    IF p \notin Live(w) THEN w
    ELSE IF Len(w.pages[PageOf(w, p)].panes) <= 1 THEN RemovePage(w, PageOf(w, p))
    ELSE DetachPane(w, p)

RemovePanes(w, panes) == FoldLeft(LAMBDA u, p : RemovePane(u, p), w, panes)

(* An item of a request is a tab or a pane, tracked by a pointer and closed if it is still there. *)
TabItem(g) == [page |-> g, pane |-> NoPane]
PaneItem(p) == [page |-> NoPage, pane |-> p]
CloseItem(w, item) ==
    IF item.page = NoPage THEN RemovePane(w, item.pane)
    ELSE IF item.page \in ToSet(w.tabs) THEN RemovePage(w, item.page) ELSE w

CloseItems(w, items) == FoldLeft(LAMBDA u, item : CloseItem(u, item), w, Reverse(items))

(* closeOtherSessions goes to the tab it keeps, whatever became of the request. *)
GoToKept(w, kept) == IF kept \in ToSet(w.tabs) /\ kept # w.cur THEN GoTo(w, kept) ELSE w

MeantPanes(w, items) ==
    UNION {IF items[i].page = NoPage THEN {items[i].pane} ELSE ToSet(w.pages[items[i].page].panes) :
           i \in DOMAIN items}

(* An act of the user, of which a behaviour has MaxActs; reports and answers are not counted. *)
(* The box about a remote desktop is modal.                                                   *)
Counted == launch # "box" /\ acts < MaxActs /\ acts' = acts + 1

NoDeletion == deleted' = NoServer /\ UNCHANGED launch

(* requestCloseSessions: one question at a time; without the setting it closes at once. *)
Request(w, items, kept) ==
    LET ask == confirm /\ ~question.open /\ items # <<>>
        close == ~confirm /\ ~question.open
    IN  /\ Counted
        /\ question' = IF ask THEN [open |-> TRUE, items |-> items, panes |-> MeantPanes(w, items), kept |-> kept]
                       ELSE question
        /\ ws' = IF ask THEN w
                 ELSE GoToKept(IF close THEN CloseItems(w, items) ELSE w, kept)
        /\ UNCHANGED <<saved, confirm>> /\ NoDeletion

-----------------------------------------------------------------------------
(* The tabs of the last run are restored without a connection, each with one pane; the one in *)
(* front and the first have their source, but the rail does not listen yet.                  *)
Restored(ids, front) ==
    [tabs |-> [i \in DOMAIN ids |-> i],         \* pages in the order of their tabs
     cur |-> front,                             \* the page in front
     home |-> ids = <<>>,                       \* the start page covers the tabs
     pages |-> [g \in PageIds \cup {NoPage, Settings} |->
                   IF g \notin DOMAIN ids THEN EmptyPage
                   ELSE IF g \notin {1, front} THEN NewPage(<<g>>, g)
                   ELSE [NewPage(<<g>>, g) EXCEPT !.pin = g, !.end = <<ids[g], 1>>]],
     panes |-> [p \in PaneIds |-> IF p \in DOMAIN ids THEN NewPane(ids[p], 1) ELSE Unused],
     opened |-> Len(ids),                       \* panes ever opened
     selected |-> DOMAIN ids \cap {1},          \* m_selectedPages
     monitor |-> NoPage,                        \* m_monitorPage
     session |-> NoPane,                        \* m_session
     shown |-> NoServer,                        \* m_currentServer
     badge |-> "offline", label |-> Blank]

Init ==
    /\ \E ids \in SeqOf(Servers, MaxRestored) :
           \E front \in IF ids = <<>> THEN {NoPage} ELSE DOMAIN ids : ws = Restored(ids, front)
    /\ saved = [s \in Servers |-> 1]
    /\ acts = 0
    /\ confirm \in BOOLEAN
    /\ question = NoQuestion /\ launch = "no" /\ deleted = NoServer

Do(w) == Counted /\ ws' = w /\ UNCHANGED <<saved, confirm, question>> /\ NoDeletion
Hear(w) == ws' = w /\ UNCHANGED <<saved, acts, confirm, question>> /\ NoDeletion

CanOpen == ws.opened < MaxPanes

(* The context menu of a tab goes to it first, and selects it unless it is among the selected. *)
Menu(g) == IF g \in ws.selected THEN GoTo(ws, g) ELSE Select(ws, g, {g})
MenuTabs == {g \in ToSet(ws.tabs) : ws.pages[g].panes # <<>>}

(* Sidebar or recent logins: the first pane with the saved configuration, else a new tab. *)
OpenServer(s) ==
    LET fitting == Only(FlattenSeq([i \in DOMAIN ws.tabs |-> ws.pages[ws.tabs[i]].panes]),
                        {p \in PaneIds : ws.panes[p].server = s /\ ws.panes[p].next = 0})
        p == Head(fitting)
        g == PageOf(ws, p)
    IN  /\ saved[s] # 0
        /\ IF fitting # <<>> THEN Do(Connect(Publish(Activate(Select(ws, g, {g}), p)), p))
           ELSE CanOpen /\ Do(AddTab(ws, s, saved[s]))

(* connectToServer of a remote desktop, which runs outside: the rail shows its name.  Reading  *)
(* its password runs an event loop, in which no other remote desktop is opened but the         *)
(* terminals go on, and so does the box about a launch that failed.                            *)
Launching(state) == launch' = state /\ deleted' = NoServer /\ UNCHANGED <<saved, confirm, question>>
Badge(w) == [w EXCEPT !.badge = "rdp"]

OpenRdp ==
    /\ launch = "no" /\ Counted
    /\ ws' = Badge([ws EXCEPT !.monitor = NoPage, !.session = NoPane, !.shown = Rdp])
    /\ \E state \in {"no", "reading", "box"} : Launching(state)

(* The password is there and the desktop opens, or fails to; or there is none, and a button    *)
(* offers to type it.  The badge is written whatever the rail shows by then.                   *)
RdpRead ==
    /\ launch = "reading"
    /\ \/ ws' \in {ws, Badge(ws)} /\ Launching("no")
       \/ ws' = ws /\ Launching("box")
    /\ UNCHANGED acts

RdpDismissed ==
    /\ launch = "box"
    /\ ws' = Badge(ws) /\ Launching("no")
    /\ UNCHANGED acts

DuplicateTab ==
    \E g \in MenuTabs :
        LET w == Menu(g)  p == w.pages[g].active
        IN  CanOpen /\ Do(AddTab(w, w.panes[p].server, NextVersion(w, p)))

(* A click on a tab: alone, added to or taken from the selection, or a range from the last one. *)
SelectTab ==
    \E g \in ToSet(ws.tabs) :
        \/ Do(Select(ws, g, {g}))
        \/ Do(Select(ws, g, IF g \in ws.selected THEN ws.selected \ {g} ELSE ws.selected \cup {g}))
        \/ \E i, j \in DOMAIN ws.tabs :
               /\ g \in {ws.tabs[i], ws.tabs[j]}
               /\ Do(Select(ws, g, {ws.tabs[k] : k \in i .. j}))

ShowServerManager == Do(ShowHome(ws, TRUE))

ShowSettings ==
    LET w == IF Settings \in ToSet(ws.tabs) THEN ws ELSE [ws EXCEPT !.tabs = Append(@, Settings)]
    IN  Do(ShowTabs(GoTo(w, Settings)))

FocusPane == \E p \in ToSet(CurrentPanes(ws)) : Do(Activate(ws, p))

(* The menu's connect entry takes the configuration of the next connection. *)
ConnectTab ==
    \E g \in MenuTabs :
        LET w == Menu(g)
            p == w.pages[g].active
            renewed == [w EXCEPT !.panes[p].version = NextVersion(w, p), !.panes[p].next = 0]
        IN  w.panes[p].state = "off" /\ Do(Publish(Connect(renewed, p)))

DisconnectTab ==
    \E g \in MenuTabs :
        LET w == Menu(g) IN w.panes[w.pages[g].active].state # "off" /\ Do(Disconnect(w, w.pages[g].active))

(* Reports of the connections. *)
SessionUp == \E p \in Live(ws) : ws.panes[p].state = "connecting" /\ Hear(Changed(ws, p, "up"))
SessionLost == \E p \in Live(ws) : ws.panes[p].state # "off" /\ Hear(Changed(ws, p, "off"))

(* splitActivePane *)
SplitPane ==
    LET page == ws.pages[ws.cur]
        p == FreshPane(ws)
        i == CHOOSE k \in DOMAIN page.panes : page.panes[k] = page.active
        split == [Opened(ws, p, ws.panes[page.active].server, NextVersion(ws, page.active))
                     EXCEPT !.pages[ws.cur].panes = InsertAt(@, i + 1, p)]
    IN  /\ CurrentPanes(ws) # <<>> /\ ~ws.home /\ ~question.open /\ CanOpen
        /\ Len(page.panes) < PaneLimit
        /\ Do(Connect(Activate(split, p), p))

(* Merging goes on while a close is being confirmed: a faulty variant of MayRearrange. *)
AlwaysRearrange == TRUE

MayRearrange == ~question.open

(* mergeSelectedSessions: the panes move into the first of the selected tabs. *)
MergeTabs ==
    LET merged == Only(ws.tabs, {g \in ws.selected : ws.pages[g].panes # <<>>})
        items == FlattenSeq([i \in DOMAIN merged |-> ws.pages[merged[i]].panes])
        target == Head(merged)
        others == ToSet(merged) \ {target}
        front == IF ws.cur = NoPage THEN NoPane ELSE ws.pages[ws.cur].active
        focused == IF front \in ToSet(items) THEN front ELSE Head(items)
        pages == [g \in DOMAIN ws.pages |->
            CASE g = target -> [ws.pages[g] EXCEPT !.panes = items, !.active = focused]
              [] g \in others -> EmptyPage
              [] OTHER -> ws.pages[g]]
    IN  /\ MayRearrange
        /\ Len(merged) >= 2 /\ Len(items) <= PaneLimit
        /\ Do(ShowTabs(Publish([ws EXCEPT
               !.pages = pages, !.tabs = Only(@, ToSet(@) \ others), !.cur = target,
               !.selected = {target}, !.monitor = IF @ \in others THEN NoPage ELSE @])))

(* unmergeActiveSession: the first pane keeps the tab, the others get tabs at the end. *)
UnmergeTab ==
    LET items == CurrentPanes(ws)
        pages == [g \in DOMAIN ws.pages |->
            CASE g = ws.cur -> [ws.pages[g] EXCEPT !.panes = <<Head(items)>>, !.active = Head(items)]
              [] g \in ToSet(Tail(items)) -> NewPage(<<g>>, g)
              [] OTHER -> ws.pages[g]]
        active == ws.pages[ws.cur].active
        front == IF active = Head(items) THEN ws.cur ELSE active
    IN  /\ MayRearrange /\ Len(items) > 1
        /\ Do(ShowTabs(Publish([ws EXCEPT
               !.pages = pages, !.tabs = @ \o Tail(items), !.cur = front, !.selected = {front}])))

(* The close button of a tab; the settings tab and a switched off question close at once. *)
CloseTab ==
    \E g \in ToSet(ws.tabs) :
        IF g = Settings \/ ~confirm THEN Do(RemovePage(ws, g)) ELSE Request(ws, <<TabItem(g)>>, NoPage)

ClosePane ==
    \E p \in Live(ws) :
        LET g == PageOf(ws, p)
        IN  /\ Len(ws.pages[g].panes) > 1
            /\ Request(ws, <<PaneItem(p)>>, NoPage)

CloseOthers ==
    \E g \in MenuTabs :
        LET w == Menu(g)
            others == Only(w.tabs, ToSet(w.tabs) \ {g})
        IN  Request(w, [i \in DOMAIN others |-> TabItem(others[i])], g)

CloseAll == Request(ws, [i \in DOMAIN ws.tabs |-> TabItem(ws.tabs[i])], NoPage)

(* The question is answered; what it was about may have gone in the meantime. *)
AnswerClose ==
    /\ question.open /\ launch # "box"
    /\ \E yes \in BOOLEAN :
           ws' = GoToKept(IF yes THEN CloseItems(ws, question.items) ELSE ws, question.kept)
    /\ question' = NoQuestion
    /\ UNCHANGED <<saved, acts, confirm>> /\ NoDeletion

(* updateServer: running panes keep their snapshot, their next connection takes the new one. *)
EditServer(s) ==
    /\ Counted /\ saved[s] \in 1 .. MaxVersion - 1
    /\ saved' = [saved EXCEPT ![s] = @ + 1]
    /\ ws' = [ws EXCEPT !.panes = [p \in PaneIds |->
                  IF p \in Live(ws) /\ ws.panes[p].server = s THEN [ws.panes[p] EXCEPT !.next = saved[s] + 1]
                  ELSE ws.panes[p]]]
    /\ UNCHANGED <<confirm, question>> /\ NoDeletion

(* deleteServer: closeServer takes its panes out of every tab, from the last tab to the first. *)
(* If the host then cannot be deleted, the panes are gone and the rail is left as it is.        *)
DeleteServer(s) ==
    LET panes == FlattenSeq([i \in DOMAIN ws.tabs |->
                     Only(ws.pages[Reverse(ws.tabs)[i]].panes, {p \in PaneIds : ws.panes[p].server = s})])
        closed == RemovePanes(ws, panes)
    IN  /\ Counted /\ saved[s] # 0
        /\ \/ /\ saved' = [saved EXCEPT ![s] = 0]
              /\ ws' = IF closed.shown # s THEN closed
                       ELSE [closed EXCEPT !.shown = NoServer, !.session = NoPane, !.badge = "offline"]
           \/ saved' = saved /\ ws' = closed
        /\ deleted' = s
        /\ UNCHANGED <<confirm, question, launch>>

-----------------------------------------------------------------------------
(* The timers and sockets of the probes. *)

(* The signal updated: an active probe's text is offered to the label. *)
Tell(w, g) == IF w.pages[g].probe.on /\ g = w.monitor THEN [w EXCEPT !.label = w.pages[g].probe.text] ELSE w

Probed(g, q) == Hear(Tell([ws EXCEPT !.pages[g].probe = q], g))

ProbeDue ==
    \E g \in ToSet(ws.tabs) :
        LET q == ws.pages[g].probe IN q.on /\ q.socket = Blank /\ Probed(g, StartProbe(q))

(* The socket connects, fails or takes too long. *)
ProbeEnds ==
    \E g \in ToSet(ws.tabs) :
        LET q == ws.pages[g].probe
        IN  /\ q.socket # Blank
            /\ \E reading \in {q.socket, Waiting} : Probed(g, FinishProbe(q, reading))

(* The report of a socket of an earlier generation counts: a faulty variant of LateReport. *)
LateReportCounts(q) ==
    IF q.socket = Blank THEN [q EXCEPT !.late = Blank] ELSE [FinishProbe(q, q.late) EXCEPT !.late = Blank]

(* A socket that was given up still reports: it is not of the current generation. *)
LateReport(q) == [q EXCEPT !.late = Blank]

ProbeLate ==
    \E g \in ToSet(ws.tabs) :
        LET q == ws.pages[g].probe IN q.late # Blank /\ Probed(g, LateReport(q))

-----------------------------------------------------------------------------
Next ==
    \/ \E s \in Servers : OpenServer(s) \/ EditServer(s) \/ DeleteServer(s)
    \/ OpenRdp \/ RdpRead \/ RdpDismissed \/ DuplicateTab \/ SplitPane
    \/ SelectTab \/ ShowServerManager \/ ShowSettings \/ FocusPane
    \/ ConnectTab \/ DisconnectTab \/ SessionUp \/ SessionLost
    \/ MergeTabs \/ UnmergeTab
    \/ CloseTab \/ ClosePane \/ CloseOthers \/ CloseAll \/ AnswerClose
    \/ ProbeDue \/ ProbeEnds \/ ProbeLate

Spec == Init /\ [][Next]_vars
-----------------------------------------------------------------------------
(* Values of the right kind, and every pane in exactly one tab. *)
TypeOK ==
    /\ ToSet(ws.tabs) \subseteq PageIds \cup {Settings} /\ Cardinality(ToSet(ws.tabs)) = Len(ws.tabs)
    /\ ws.cur \in ToSet(ws.tabs) \cup {NoPage} /\ (ws.cur = NoPage) = (ws.tabs = <<>>)
    /\ \A g \in DOMAIN ws.pages : LET page == ws.pages[g] IN
           /\ (page.panes = <<>>) = (g \notin ToSet(ws.tabs) \ {Settings})
           /\ page.panes # <<>> => page.active \in ToSet(page.panes)
           /\ \A h \in DOMAIN ws.pages \ {g} : ToSet(page.panes) \cap ToSet(ws.pages[h].panes) = {}
    /\ ws.selected \subseteq MenuTabs
    /\ \A p \in Live(ws) : p <= ws.opened /\ saved[ws.panes[p].server] # 0

(* The rail is never bound to a session that was closed.  While a tab with a connected        *)
(* terminal is in front it is bound to that tab's source, and that source is connected unless *)
(* no channel to its host in that tab is: the handover, after any merge, split, close or loss. *)
(* Exception: a remote desktop was opened from the sidebar, and the rail shows its name over   *)
(* connected terminals until a signal of theirs.  Its deletion (MainWindow.cpp:1213-1219),     *)
(* which then leaves the rail with nothing, is not modelled.                                   *)
MonitorIsLive ==
    /\ TypeOK
    /\ ws.session # NoPane => ws.session \in Live(ws) /\ ws.shown = ws.panes[ws.session].server
    /\ (\E p \in ToSet(CurrentPanes(ws)) : Up(ws, p)) /\ ws.shown # Rdp =>
           /\ ws.monitor = ws.cur /\ ws.session = ws.pages[ws.cur].pin
           /\ ws.session \in ToSet(CurrentPanes(ws))
           /\ Up(ws, ws.session)
              \/ ~ \E p \in ToSet(CurrentPanes(ws)) : Up(ws, p) /\ Endpoint(ws, p) = Endpoint(ws, ws.session)

(* Exception: a remote desktop that opens, or whose box is dismissed, writes the badge although *)
(* the rail is bound to a terminal by then (MainWindow.cpp:999, 1002), until its next report.   *)
SpeaksOfRdp == ws.badge = "rdp"

(* The badge says of the bound session whether it is connected, whichever pane of whichever    *)
(* tab changed last.  A session that was never connected does not know its host yet.           *)
BadgeIsTrue ==
    ws.session # NoPane /\ ws.panes[ws.session].known /\ ~SpeaksOfRdp =>
        (ws.badge = "online") = Up(ws, ws.session)

(* The time shown beside the bound session was measured for its host, and behind the start     *)
(* page or another tab with terminals no probe runs.  Exceptions: behind the settings tab the   *)
(* probe of the tab that was in front goes on, against README.md:86 of the source, and beside   *)
(* a remote desktop, where no session is bound, the time of the last host stays.                *)
LatencyIsOfTarget ==
    /\ ws.session # NoPane /\ ws.label \notin {Blank, Waiting} => ws.label = Endpoint(ws, ws.session)
    /\ \A g \in ToSet(ws.tabs) : ws.pages[g].probe.on => ~ws.home /\ ws.cur \in {g, Settings}

(* What the window says of the terminal the rail is bound to is true of it, however late the   *)
(* reports of panes and sockets come, with the exceptions named above.                         *)
RailIsTrue == BadgeIsTrue /\ LatencyIsOfTarget

(* A terminal is closed only if it was part of what the user was asked about when the         *)
(* question appeared, and with "yes" everything that was meant is: tabs opened, moved or      *)
(* closed while the question was open neither join the request nor escape it.  The terminals   *)
(* of a host go with it when the user deletes it, also when the deletion then fails.           *)
ClosesWhatWasAsked ==
    [][LET gone == Live(ws) \ Live(ws')
           answered == question.open /\ ~question'.open
           ofDeleted == {p \in gone : ws.panes[p].server = deleted'}
       IN  /\ gone \ ofDeleted # {} /\ confirm => answered /\ gone \subseteq question.panes
           /\ answered /\ gone # {} => question.panes \cap Live(ws') = {}]_vars

=============================================================================
