---------------------------- MODULE SessionTabs ----------------------------
(***************************************************************************)
(* The terminal tabs of the UI (src/stores/sessions.ts, with the callers   *)
(* in SessionList.tsx, CommandPalette.tsx, HostKeyDialog.tsx and           *)
(* TerminalTabs.tsx) against the sessions of the backend: opening with a   *)
(* placeholder tab, closing, manual and automatic reconnect, and the       *)
(* session-disconnected events, which nothing orders with the answers of   *)
(* the commands.                                                           *)
(***************************************************************************)
EXTENDS Integers, FiniteSets

CONSTANTS
    Tabs,        \* what the user has opened; also the id of its placeholder
    Sessions,    \* session ids (Uuid::new_v4: each is used once)
    Doubles,     \* the sessions whose worker may send two events when it ends
    None

ASSUME IdsAssumption ==
    Tabs \cap Sessions = {} /\ Doubles \subseteq Sessions /\ None \notin Tabs \cup Sessions

VARIABLES
    backend,     \* each session: "none", "live", "dead" (its worker has ended), "closed"
    id,          \* the session id the tab shows: its placeholder, a session, or None: no tab
    status,      \* per tab: "connecting", "connected", "disconnected"
    reconnecting,\* tabs whose reconnecting flag is set
    active,      \* activeSessionId
    loops,       \* autoReconnectLoops: session ids
    sleeping,    \* the session ids whose runAutoReconnect is in its sleep
    opens,       \* per tab: its session_open or reconnect call
    closes,      \* session_close calls of closeTab: <<tab, id>>
    stray,       \* sessions that are closed because their tab is gone
    wire,        \* session-disconnected events on their way: <<session, 1 or 2>>
    userClosed   \* history: tabs for which closeTab has finished

autoloops == <<loops, sleeping>>
vars == <<backend, id, status, reconnecting, active, loops, sleeping, opens, closes, stray, wire,
          userClosed>>

Ids == Tabs \cup Sessions

\* A call: which command it is, the id the tab had, whether the reconnect loop
\* awaits it, and the session it returned.
Command(cmd, from, loop) == [cmd |-> cmd, from |-> from, loop |-> loop, got |-> None]
NoCall == Command("none", None, FALSE)
Commands == {"open", "palette", "reconnect", "reopen"}
Calls ==
    [cmd : Commands, from : Ids \cup {None}, loop : BOOLEAN, got : Sessions \cup {None}]
        \cup {NoCall}
Pending(c) == c.cmd # "none" /\ c.got = None

TypeOK ==
    /\ backend \in [Sessions -> {"none", "live", "dead", "closed"}]
    /\ id \in [Tabs -> Ids \cup {None}]
    /\ status \in [Tabs -> {"connecting", "connected", "disconnected"}]
    /\ reconnecting \subseteq Tabs
    /\ active \in Ids \cup {None}
    /\ loops \subseteq Ids /\ sleeping \subseteq Sessions
    /\ opens \in [Tabs -> Calls]
    /\ closes \subseteq Tabs \X Ids
    /\ stray \subseteq Sessions
    /\ wire \subseteq Sessions \X {1, 2}
    /\ userClosed \subseteq Tabs

Init ==
    /\ backend = [s \in Sessions |-> "none"]
    /\ id = [t \in Tabs |-> None]
    /\ status = [t \in Tabs |-> "connecting"]
    /\ reconnecting = {}
    /\ active = None
    /\ loops = {} /\ sleeping = {}
    /\ opens = [t \in Tabs |-> NoCall]
    /\ closes = {} /\ stray = {} /\ wire = {}
    /\ userClosed = {}

Fresh(t) == id[t] = None /\ opens[t] = NoCall /\ t \notin userClosed /\ \A c \in closes : c[1] # t

-----------------------------------------------------------------------------
(* The store *)

\* removeTabLocal: if the tab was active, the last tab is now.
RemoveTab(t) ==
    /\ id' = [id EXCEPT ![t] = None]
    /\ reconnecting' = reconnecting \ {t}
    /\ loops' = loops \ {id[t]}
    /\ active' \in IF active # id[t] THEN {active}
                   ELSE IF \E u \in Tabs \ {t} : id[u] # None
                        THEN {id[u] : u \in {v \in Tabs \ {t} : id[v] # None}}
                        ELSE {None}

\* markConnected: the tab gets the id of its new session.
MarkConnected(t, s) ==
    /\ id' = [id EXCEPT ![t] = s]
    /\ status' = [status EXCEPT ![t] = "connected"]
    /\ active' = IF active = id[t] THEN s ELSE active
    /\ loops' = loops \ {id[t]}
    /\ reconnecting' = reconnecting \ {t}

\* handleOpen: a placeholder tab, then session_open.
Open(t) ==
    /\ Fresh(t)
    /\ id' = [id EXCEPT ![t] = t]
    /\ status' = [status EXCEPT ![t] = "connecting"]
    /\ active' = t
    /\ opens' = [opens EXCEPT ![t] = Command("open", t, FALSE)]
    /\ UNCHANGED <<backend, reconnecting, autoloops, closes, stray, wire, userClosed>>

\* The command palette and the host key dialog: no placeholder.
OpenFromPalette(t) ==
    /\ Fresh(t)
    /\ opens' = [opens EXCEPT ![t] = Command("palette", None, FALSE)]
    /\ UNCHANGED <<backend, id, status, reconnecting, active, autoloops, closes, stray, wire,
                   userClosed>>

\* Slip: the tab the answer is for is not looked up.
Opened_Unchecked(t) ==
    LET c == opens[t] IN
    /\ c.cmd \in Commands /\ c.got # None
    /\ opens' = [opens EXCEPT ![t] = NoCall]
    /\ IF id[t] = c.from /\ c.from # None
       THEN MarkConnected(t, c.got) /\ UNCHANGED stray
       ELSE UNCHANGED <<id, status, active, loops, reconnecting, stray>>
    /\ UNCHANGED <<backend, sleeping, closes, wire, userClosed>>

\* A command has returned a session: its tab gets it, if it is still there under
\* the id it had; otherwise the session is closed.  addTab makes a tab.
Opened(t) ==
    LET c == opens[t] IN
    /\ c.cmd \in Commands /\ c.got # None
    /\ opens' = [opens EXCEPT ![t] = NoCall]
    /\ IF c.cmd = "palette"
       THEN /\ id' = [id EXCEPT ![t] = c.got]
            /\ status' = [status EXCEPT ![t] = "connected"]
            /\ active' = c.got
            /\ UNCHANGED <<loops, reconnecting, stray>>
       ELSE IF id[t] = c.from
            THEN MarkConnected(t, c.got) /\ UNCHANGED stray
            ELSE /\ stray' = stray \cup {c.got}
                 /\ loops' = IF c.loop THEN loops \ {c.from} ELSE loops
                 /\ UNCHANGED <<id, status, active, reconnecting>>
    /\ UNCHANGED <<backend, sleeping, closes, wire, userClosed>>

\* closeTab up to its await.
Close(t) ==
    /\ id[t] # None
    /\ loops' = loops \ {id[t]}
    /\ closes' = closes \cup {<<t, id[t]>>}
    /\ UNCHANGED <<backend, id, status, reconnecting, active, sleeping, opens, stray, wire,
                   userClosed>>

\* session_close has answered, with success or not: removeTabLocal(sessionId).
Closed(t, s) ==
    /\ <<t, s>> \in closes
    /\ s \in Sessions => backend[s] = "closed"
    /\ closes' = closes \ {<<t, s>>}
    /\ userClosed' = userClosed \cup {t}
    /\ IF id[t] = s THEN RemoveTab(t) ELSE UNCHANGED <<id, reconnecting, loops, active>>
    /\ UNCHANGED <<backend, status, sleeping, opens, stray, wire>>

\* The user selects a tab.
SetActive(t) ==
    /\ id[t] # None
    /\ active' = id[t]
    /\ UNCHANGED <<backend, id, status, reconnecting, autoloops, opens, closes, stray, wire, userClosed>>

\* markDisconnected, with settings.autoReconnect: ignored for a session that has
\* no tab, and for a tab that is disconnected already.
Disconnected(s) ==
    /\ \E e \in wire : e[1] = s /\ wire' = wire \ {e}
    /\ IF \E t \in Tabs : id[t] = s /\ status[t] # "disconnected"
       THEN LET t == CHOOSE u \in Tabs : id[u] = s IN
            /\ status' = [status EXCEPT ![t] = "disconnected"]
            /\ reconnecting' = reconnecting \ {t}
            /\ loops' = loops \cup {s}
            /\ sleeping' = sleeping \cup {s}
       ELSE UNCHANGED <<status, reconnecting, autoloops>>
    /\ UNCHANGED <<backend, id, active, opens, closes, stray, userClosed>>

\* reconnectTab up to its await, called by the button or by the loop.
Reconnect(t, loop) ==
    /\ id[t] \in Sessions /\ status[t] = "disconnected"
    /\ t \notin reconnecting
    /\ reconnecting' = reconnecting \cup {t}
    /\ opens' = [opens EXCEPT ![t] = Command("reconnect", id[t], loop)]
    /\ UNCHANGED <<backend, id, status, active, loops, closes, stray, wire, userClosed>>

ReconnectButton(t) == Reconnect(t, FALSE) /\ UNCHANGED sleeping

\* runAutoReconnect after its sleep.  The loop ends when the tab is gone or
\* connected; while a reconnect of the user is under way it sleeps again; else it
\* reconnects.  autoReconnectLoops is looked at only before the sleep.
LoopTick(s) ==
    /\ s \in sleeping
    /\ IF \E t \in Tabs : id[t] = s /\ status[t] = "disconnected"
       THEN LET t == CHOOSE u \in Tabs : id[u] = s IN
            IF t \in reconnecting
            THEN /\ s \notin loops
                 /\ sleeping' = sleeping \ {s}
                 /\ UNCHANGED <<backend, id, status, reconnecting, active, loops, opens, closes,
                                stray, wire, userClosed>>
            ELSE Reconnect(t, TRUE) /\ sleeping' = sleeping \ {s}
       ELSE /\ loops' = loops \ {s}
            /\ sleeping' = sleeping \ {s}
            /\ UNCHANGED <<backend, id, status, reconnecting, active, opens, closes, stray, wire,
                           userClosed>>

-----------------------------------------------------------------------------
(* The backend *)

\* do_connect has succeeded and the answer is on its way.  session_reconnect has
\* closed the old session before it opened the new one.
Connect(t, s) ==
    /\ Pending(opens[t])
    /\ opens[t].cmd = "reconnect" => backend[opens[t].from] = "closed"
    /\ backend[s] = "none"
    /\ backend' = [backend EXCEPT ![s] = "live"]
    /\ opens' = [opens EXCEPT ![t].got = s]
    /\ UNCHANGED <<id, status, reconnecting, active, autoloops, closes, stray, wire, userClosed>>

\* The worker of a session sends its event when it ends; the Telnet, local and
\* serial workers may send two.
Ends(s) ==
    \/ wire' = wire \cup {<<s, 1>>}
    \/ s \in Doubles /\ wire' = wire \cup {<<s, 1>>, <<s, 2>>}

\* The session is removed and its worker joined.
EndSession(s) ==
    /\ backend' = [backend EXCEPT ![s] = "closed"]
    /\ IF backend[s] = "live" THEN Ends(s) ELSE UNCHANGED wire

\* session_reconnect: sessions.disconnect(session_id).
ReconnectCloses(t) ==
    /\ Pending(opens[t]) /\ opens[t].cmd = "reconnect"
    /\ backend[opens[t].from] \in {"live", "dead"}
    /\ EndSession(opens[t].from)
    /\ UNCHANGED <<id, status, reconnecting, active, autoloops, opens, closes, stray, userClosed>>

\* session_close
CloseArrives(s) ==
    /\ \/ s \in stray
       \/ \E t \in Tabs : <<t, s>> \in closes
    /\ backend[s] \in {"live", "dead"}
    /\ EndSession(s)
    /\ stray' = stray \ {s}
    /\ UNCHANGED <<id, status, reconnecting, active, autoloops, opens, closes, userClosed>>

\* Slip: the loop takes the error of a reconnect for a success.
Refuse_EndsLoop(t) ==
    LET c == opens[t] IN
    /\ Pending(c)
    /\ c.cmd = "reconnect" => backend[c.from] = "closed"
    /\ opens' = [opens EXCEPT ![t] = NoCall]
    /\ reconnecting' = reconnecting \ {t}
    /\ loops' = loops \ {c.from}
    /\ UNCHANGED <<backend, id, status, active, sleeping, closes, stray, wire, userClosed>>

\* The command fails: a failed session_reconnect is tried once more as
\* session_open; else a placeholder is removed, and a tab is disconnected again.
\* A loop that is still wanted sleeps.
Refuse(t) ==
    LET c == opens[t] IN
    /\ Pending(c)
    /\ IF c.cmd = "reconnect"
       THEN /\ backend[c.from] = "closed"
            /\ opens' = [opens EXCEPT ![t].cmd = "reopen"]
            /\ UNCHANGED <<id, status, reconnecting, active, autoloops>>
       ELSE /\ opens' = [opens EXCEPT ![t] = NoCall]
            /\ IF c.cmd = "open" /\ id[t] = c.from
               THEN RemoveTab(t) /\ UNCHANGED <<status, sleeping>>
               ELSE /\ reconnecting' = reconnecting \ {t}
                    /\ sleeping' = IF c.loop /\ c.from \in loops THEN sleeping \cup {c.from}
                                                                ELSE sleeping
                    /\ UNCHANGED <<id, status, active, loops>>
    /\ UNCHANGED <<backend, closes, stray, wire, userClosed>>

\* The connection breaks, or the shell ends.
Break(s) ==
    /\ backend[s] = "live"
    /\ backend' = [backend EXCEPT ![s] = "dead"]
    /\ Ends(s)
    /\ UNCHANGED <<id, status, reconnecting, active, autoloops, opens, closes, stray, userClosed>>

-----------------------------------------------------------------------------

Backend ==
    \/ \E t \in Tabs : ReconnectCloses(t) \/ Refuse(t) \/ \E s \in Sessions : Connect(t, s)
    \/ \E s \in Sessions : CloseArrives(s)

Webview ==
    \/ \E t \in Tabs : Opened(t) \/ \E s \in Ids : Closed(t, s)
    \/ \E s \in Sessions : Disconnected(s) \/ LoopTick(s)

User ==
    \E t \in Tabs :
        Open(t) \/ OpenFromPalette(t) \/ Close(t) \/ SetActive(t) \/ ReconnectButton(t)

Next == User \/ Backend \/ Webview \/ \E s \in Sessions : Break(s)

Spec == Init /\ [][Next]_vars

\* The event loop runs its handlers and timers, and commands are answered; a
\* server that is asked again and again accepts in the end.
Fairness ==
    /\ \A t \in Tabs :
         /\ WF_vars(Opened(t))
         /\ WF_vars(ReconnectCloses(t))
         /\ WF_vars(Refuse(t) \/ \E s \in Sessions : Connect(t, s))
         /\ SF_vars(\E s \in Sessions : Connect(t, s))
         /\ \A s \in Ids : WF_vars(Closed(t, s))
    /\ \A s \in Sessions : WF_vars(CloseArrives(s)) /\ WF_vars(LoopTick(s))

FairSpec == Spec /\ Fairness

-----------------------------------------------------------------------------
(* Properties *)

\* No session of the backend is left without an owner: each one that is not
\* closed is shown by a tab, or an answer or a close on its way accounts for it.
NoOrphans ==
    \A s \in Sessions : backend[s] \in {"live", "dead"} =>
        \/ \E t \in Tabs : id[t] = s \/ opens[t].got = s
        \/ s \in stray

\* Tabs show different sessions, at most one reconnect of a tab is under way,
\* and its flag is set exactly as long.
ReconnectsOnce ==
    /\ \A t, u \in Tabs : t # u /\ id[t] = id[u] => id[t] = None
    /\ \A t \in Tabs : id[t] \in Sessions =>
         (t \in reconnecting <=> opens[t] # NoCall /\ opens[t].from = id[t])

\* "Auto-reconnecting...": a tab that shows this has a loop that works on it,
\* unless the user is closing it.
DisconnectedHasLoop ==
    \A t \in Tabs :
        id[t] \in Sessions /\ status[t] = "disconnected" =>
            \/ id[t] \in loops /\ (id[t] \in sleeping \/ opens[t].loop)
            \/ <<t, id[t]>> \in closes

\* A command works for one tab: for its placeholder or for the session the tab
\* lost, which is closed before it is replaced.  A tab without one is not marked
\* as reconnecting.
CallsBelong ==
    \A t \in Tabs :
        LET c == opens[t] IN
        /\ id[t] \in Tabs => id[t] = t
        /\ c.cmd = "palette" => c.from = None /\ id[t] = None
        /\ c.cmd = "open" => c.from = t
        /\ c.cmd \in {"reconnect", "reopen"} => c.from \in Sessions
        /\ c.loop => c.cmd \in {"reconnect", "reopen"}
        /\ id[t] \in Sessions /\ c # NoCall => c.from = id[t] /\ status[t] = "disconnected"
        /\ c.cmd = "reopen" \/ (c.cmd = "reconnect" /\ c.got # None) => backend[c.from] = "closed"
        /\ t \in reconnecting => id[t] \in Sessions

\* The session a command returns is new to every tab, and a session that a tab
\* replaces is no other tab's.
SessionsAreNew ==
    /\ \A s \in Sessions : backend[s] = "none" =>
         \A t \in Tabs : s \notin {id[t], opens[t].from, opens[t].got}
    /\ \A t, u \in Tabs :
         /\ opens[t].got # None => opens[t].got \notin {id[u], opens[u].from}
         /\ t # u /\ opens[t].got # None => opens[t].got # opens[u].got
         /\ t # u /\ opens[t].from \in Sessions => opens[t].from # id[u]

\* The active id is that of a tab.
ActiveIsATab == active # None => \E t \in Tabs : id[t] = active

\* The types, and the bookkeeping of tabs, sessions and reconnect loops: who owns a
\* session and who works on a tab that lost its own.
Inv ==
    /\ TypeOK /\ CallsBelong /\ SessionsAreNew
    /\ ReconnectsOnce /\ ActiveIsATab /\ NoOrphans /\ DisconnectedHasLoop

\* A tab that is disconnected is connected again, without the user, unless it is
\* closed (or the model has no session id left).
Reconnected ==
    \A t \in Tabs :
        status[t] = "disconnected" /\ id[t] \in Sessions
            ~> \/ status[t] = "connected" \/ id[t] = None
               \/ \A s \in Sessions : backend[s] # "none"

=============================================================================
