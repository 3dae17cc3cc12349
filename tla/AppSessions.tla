---------------------------- MODULE AppSessions ----------------------------
(***************************************************************************)
(* The session commands of the application (crates/app/src/commands/       *)
(* session.rs) over the state they share: the SessionManager behind the    *)
(* mutex AppState::sessions, the log files, and the credentials of quick   *)
(* connections.  Every command runs on a thread of its own.  The worker of *)
(* a session (module SessionWorker) is reduced to what a command can see:  *)
(* it answers or loses what is sent to it, and it ends.                    *)
(***************************************************************************)
EXTENDS Sequences, FiniteSets

CONSTANTS
    Sessions,    \* one session_open each
    Adhoc,       \* those opened by session_open_adhoc with a password
    Tunneled,    \* those whose connection has a tunnel with auto_start
    Calls,       \* commands that go through session_cmd
    None

KindsAssumption ==
    /\ Adhoc \subseteq Sessions /\ Tunneled \subseteq Sessions \ Adhoc
    /\ None \notin Sessions \cup ({"open", "close"} \X Sessions) /\ Sessions \cap Calls = {}
    /\ {"shell", "tunnel", "Shutdown"} \cap Calls = {}

VARIABLES
    lock,        \* AppState::sessions: <<"open" or "close", s>>, or None
    open,        \* do_connect of each session: the step it is at
    close,       \* session_close or session_reconnect of each session
    reopens,     \* the session a session_reconnect opens next, or None
    call,        \* per call: "idle", "sent" (it waits for its answer), "done"
    handles,     \* SessionManager::sessions
    attached,    \* the handles that have the thread of their worker
    worker,      \* "none", "handshake", "ready", "refused", "serving", "gone"
    shell,       \* sessions whose shell is open
    queue,       \* the command channel of each worker
    reply,       \* per session: the answer do_connect waits for: "none", "ok", "err"
    logs,        \* AppState::session_logs
    creds,       \* AppState::adhoc_creds
    keyring,     \* sessions whose password is in the keyring
    stalled      \* sessions whose worker waits for a relay whose peer takes no data

commands == <<open, close, reopens, call>>
manager == <<handles, attached>>
workers == <<worker, shell, queue, reply>>
shared == <<logs, creds, keyring>>
sessionVars == <<lock, open, close, reopens, call, handles, attached, worker, shell, queue,
                 reply, logs, creds, keyring>>
vars == <<sessionVars, stalled>>

OpenSteps == {"idle", "spawn", "handshake", "attach", "abandon", "shell", "shellReply", "stop",
              "tunnel", "tunnelReply", "finish", "fail", "done", "failed"}
CloseSteps == {"idle", "lock", "join", "done", "relock", "rejoin", "reopen", "moved"}

Requests == {"shell", "tunnel", "Shutdown"} \cup Calls

TypeOK ==
    /\ lock \in ({"open", "close"} \X Sessions) \cup {None}
    /\ open \in [Sessions -> OpenSteps]
    /\ close \in [Sessions -> CloseSteps]
    /\ reopens \in [Sessions -> Sessions \cup {None}]
    /\ call \in [Calls -> {"idle", "sent", "done"}]
    /\ handles \subseteq Sessions /\ attached \subseteq handles
    /\ worker \in [Sessions -> {"none", "handshake", "ready", "refused", "serving", "gone"}]
    /\ shell \subseteq Sessions
    /\ queue \in [Sessions -> Seq(Requests)]
    /\ reply \in [Sessions -> {"none", "ok", "err"}]
    /\ logs \subseteq Sessions /\ creds \subseteq Sessions /\ keyring \subseteq Sessions
    /\ stalled \subseteq Sessions

Init ==
    /\ lock = None
    /\ open = [s \in Sessions |-> "idle"]
    /\ close = [s \in Sessions |-> "idle"]
    /\ reopens = [s \in Sessions |-> None]
    /\ call = [c \in Calls |-> "idle"]
    /\ handles = {} /\ attached = {}
    /\ worker = [s \in Sessions |-> "none"]
    /\ shell = {}
    /\ queue = [s \in Sessions |-> <<>>]
    /\ reply = [s \in Sessions |-> "none"]
    /\ logs = {} /\ creds = {} /\ keyring = {} /\ stalled = {}

Goto(s, step) == open' = [open EXCEPT ![s] = step]
Sends(s, request) == queue' = [queue EXCEPT ![s] = Append(@, request)]

\* A send fails once the worker has dropped its receiver.
Receives(s) == worker[s] # "gone"

-----------------------------------------------------------------------------
(* session_open, session_open_adhoc: do_connect *)

\* The secret of a quick connection is in the keyring before the connect.
Open(s) ==
    /\ open[s] = "idle"
    /\ \A r \in Sessions : reopens[r] # s
    /\ Goto(s, "spawn")
    /\ keyring' = IF s \in Adhoc THEN keyring \cup {s} ELSE keyring
    /\ UNCHANGED <<lock, close, reopens, call, manager, workers, logs, creds>>

\* spawn_ssh: the handle is inserted without its thread.
Spawn(s) ==
    /\ open[s] = "spawn" /\ lock = None
    /\ handles' = handles \cup {s}
    /\ worker' = [worker EXCEPT ![s] = "handshake"]
    /\ Goto(s, "handshake")
    /\ UNCHANGED <<lock, close, reopens, call, attached, shell, queue, reply, shared>>

\* ready_rx.recv(), without the lock.
Ready(s) ==
    /\ open[s] = "handshake"
    /\ \/ worker[s] = "ready" /\ Goto(s, "attach") /\ worker' = [worker EXCEPT ![s] = "serving"]
       \/ worker[s] = "refused" /\ Goto(s, "abandon") /\ worker' = [worker EXCEPT ![s] = "gone"]
    /\ UNCHANGED <<lock, close, reopens, call, manager, shell, queue, reply, shared>>

Attach(s) ==
    /\ open[s] = "attach" /\ lock = None
    /\ attached' = attached \cup ({s} \cap handles)
    /\ Goto(s, "shell")
    /\ UNCHANGED <<lock, close, reopens, call, handles, workers, shared>>

\* The handshake failed: disconnect, with no thread to join.
Abandon(s) ==
    /\ open[s] = "abandon" /\ lock = None
    /\ handles' = handles \ {s}
    /\ Goto(s, "fail")
    /\ UNCHANGED <<lock, close, reopens, call, attached, workers, shared>>

\* Phase 2: open_shell, with the lock held until the worker answers.
AskShell(s) ==
    /\ open[s] = "shell" /\ lock = None
    /\ lock' = <<"open", s>>
    /\ IF Receives(s)
       THEN Sends(s, "shell") /\ UNCHANGED reply
       ELSE reply' = [reply EXCEPT ![s] = "err"] /\ UNCHANGED queue
    /\ Goto(s, "shellReply")
    /\ UNCHANGED <<close, reopens, call, manager, worker, shell, shared>>

\* Slip: the worker of a session whose shell failed is joined, but not told to stop.
GotShell_Untold(s) ==
    /\ open[s] = "shellReply" /\ reply[s] # "none"
    /\ reply' = [reply EXCEPT ![s] = "none"]
    /\ IF reply[s] = "ok"
       THEN /\ Goto(s, IF s \in Tunneled THEN "tunnel" ELSE "finish")
            /\ lock' = None
            /\ UNCHANGED manager
       ELSE /\ Goto(s, "stop")
            /\ handles' = handles \ {s} /\ attached' = attached \ {s}
            /\ UNCHANGED lock
    /\ UNCHANGED <<close, reopens, call, worker, shell, queue, shared>>

\* The answer: go on without the lock, or disconnect with it.
GotShell(s) ==
    /\ open[s] = "shellReply" /\ reply[s] # "none"
    /\ reply' = [reply EXCEPT ![s] = "none"]
    /\ IF reply[s] = "ok"
       THEN /\ Goto(s, IF s \in Tunneled THEN "tunnel" ELSE "finish")
            /\ lock' = None
            /\ UNCHANGED <<manager, queue>>
       ELSE /\ Goto(s, "stop")
            /\ handles' = handles \ {s} /\ attached' = attached \ {s}
            /\ IF Receives(s) THEN Sends(s, "Shutdown") ELSE UNCHANGED queue
            /\ UNCHANGED lock
    /\ UNCHANGED <<close, reopens, call, worker, shell, shared>>

\* disconnect joins the worker.
Stopped(s) ==
    /\ open[s] = "stop" /\ worker[s] = "gone"
    /\ lock' = None
    /\ Goto(s, "fail")
    /\ UNCHANGED <<close, reopens, call, manager, workers, shared>>

\* tunnel_start of a tunnel with auto_start, with the lock held as well.
AskTunnel(s) ==
    /\ open[s] = "tunnel" /\ lock = None
    /\ lock' = <<"open", s>>
    /\ IF s \in handles /\ Receives(s)
       THEN Sends(s, "tunnel") /\ UNCHANGED reply
       ELSE reply' = [reply EXCEPT ![s] = "err"] /\ UNCHANGED queue
    /\ Goto(s, "tunnelReply")
    /\ UNCHANGED <<close, reopens, call, manager, worker, shell, shared>>

\* A tunnel that does not start is only logged.
GotTunnel(s) ==
    /\ open[s] = "tunnelReply" /\ reply[s] # "none"
    /\ reply' = [reply EXCEPT ![s] = "none"]
    /\ lock' = None
    /\ Goto(s, "finish")
    /\ UNCHANGED <<close, reopens, call, manager, worker, shell, queue, shared>>

\* The UI gets the session; a quick connection first notes its secret.
Finish(s) ==
    /\ open[s] = "finish"
    /\ Goto(s, "done")
    /\ creds' = IF s \in Adhoc THEN creds \cup {s} ELSE creds
    /\ UNCHANGED <<lock, close, reopens, call, manager, workers, logs, keyring>>

\* The UI gets the error; the secret is deleted, "no session will ever close".
Fail(s) ==
    /\ open[s] = "fail"
    /\ Goto(s, "failed")
    /\ keyring' = keyring \ {s}
    /\ UNCHANGED <<lock, close, reopens, call, manager, workers, logs, creds>>

-----------------------------------------------------------------------------
(* session_close, session_reconnect *)

Shown(s) == open[s] = "done" /\ close[s] \notin {"done", "moved"}

\* session_close first drops the log and the secret.
Close(s) ==
    /\ Shown(s) /\ close[s] = "idle"
    /\ close' = [close EXCEPT ![s] = "lock"]
    /\ logs' = logs \ {s}
    /\ creds' = creds \ {s}
    /\ keyring' = IF s \in creds THEN keyring \ {s} ELSE keyring
    /\ UNCHANGED <<lock, open, reopens, call, manager, workers>>

\* session_reconnect leaves both alone.
Reconnect(s) ==
    /\ Shown(s) /\ close[s] = "idle"
    /\ close' = [close EXCEPT ![s] = "relock"]
    /\ UNCHANGED <<lock, open, reopens, call, manager, workers, shared>>

\* Slip: the worker is not told.
Disconnect_Untold(s) ==
    /\ close[s] \in {"lock", "relock"} /\ lock = None
    /\ handles' = handles \ {s} /\ attached' = attached \ {s}
    /\ close' = [close EXCEPT ![s] = IF @ = "lock" THEN "done" ELSE "reopen"]
    /\ UNCHANGED <<lock, open, reopens, call, workers, shared>>

\* disconnect, up to the join: the handle is removed, the worker told to stop.
\* The lock is held over the join.
Disconnect(s) ==
    /\ close[s] \in {"lock", "relock"} /\ lock = None
    /\ s \in handles
    /\ handles' = handles \ {s} /\ attached' = attached \ {s}
    /\ IF Receives(s) THEN Sends(s, "Shutdown") ELSE UNCHANGED queue
    /\ lock' = <<"close", s>>
    /\ close' = [close EXCEPT ![s] = IF @ = "lock" THEN "join" ELSE "rejoin"]
    /\ UNCHANGED <<open, reopens, call, worker, shell, reply, shared>>

\* The worker has ended.
Joined(s) ==
    /\ close[s] \in {"join", "rejoin"} /\ worker[s] = "gone"
    /\ lock' = None
    /\ close' = [close EXCEPT ![s] = IF @ = "join" THEN "done" ELSE "reopen"]
    /\ UNCHANGED <<open, reopens, call, manager, workers, shared>>

\* session_reconnect ends with session_open; a quick connection is not in the
\* store, so that it cannot be opened again, and keeps its tab.
Reopen(s) ==
    /\ close[s] = "reopen"
    /\ \/ /\ s \notin Adhoc
          /\ \E new \in Sessions \ (Adhoc \cup {s}) :
               /\ open[new] = "idle"
               /\ Goto(new, "spawn")
               /\ reopens' = [reopens EXCEPT ![s] = new]
          /\ close' = [close EXCEPT ![s] = "moved"]
       \/ /\ s \in Adhoc
          /\ close' = [close EXCEPT ![s] = "moved"]
          /\ UNCHANGED <<open, reopens>>
    /\ UNCHANGED <<lock, call, manager, workers, shared>>

\* session_log_start does not look whether the session still exists.
LogStart(s) ==
    /\ Shown(s)
    /\ logs' = logs \cup {s}
    /\ UNCHANGED <<lock, commands, manager, workers, creds, keyring>>

LogStop(s) ==
    /\ Shown(s)
    /\ logs' = logs \ {s}
    /\ UNCHANGED <<lock, commands, manager, workers, creds, keyring>>

-----------------------------------------------------------------------------
(* session_cmd, session_exec *)

\* The sender is cloned under the lock, and used after it was released.
CallSend(c, s) ==
    /\ call[c] = "idle" /\ Shown(s) /\ lock = None
    /\ IF s \in handles /\ Receives(s)
       THEN Sends(s, c) /\ call' = [call EXCEPT ![c] = "sent"]
       ELSE call' = [call EXCEPT ![c] = "done"] /\ UNCHANGED queue
    /\ UNCHANGED <<lock, open, close, reopens, manager, worker, shell, reply, shared>>

-----------------------------------------------------------------------------
(* The worker *)

Handshake(s) ==
    /\ worker[s] = "handshake"
    /\ \E outcome \in {"ready", "refused"} : worker' = [worker EXCEPT ![s] = outcome]
    /\ UNCHANGED <<lock, commands, manager, shell, queue, reply, shared>>

\* One command: answered, with success or with an error.  Shutdown ends it.
Serve(s) ==
    /\ worker[s] = "serving" /\ queue[s] # <<>>
    /\ queue' = [queue EXCEPT ![s] = Tail(@)]
    /\ \/ /\ Head(queue[s]) = "Shutdown"
          /\ worker' = [worker EXCEPT ![s] = "gone"]
          /\ UNCHANGED <<shell, reply, call>>
       \/ /\ Head(queue[s]) = "shell"
          /\ \/ shell' = shell \cup {s} /\ reply' = [reply EXCEPT ![s] = "ok"]
             \/ reply' = [reply EXCEPT ![s] = "err"] /\ UNCHANGED shell
          /\ UNCHANGED <<worker, call>>
       \/ /\ Head(queue[s]) = "tunnel"
          /\ \E outcome \in {"ok", "err"} : reply' = [reply EXCEPT ![s] = outcome]
          /\ UNCHANGED <<worker, shell, call>>
       \/ /\ Head(queue[s]) \in Calls
          /\ call' = [call EXCEPT ![Head(queue[s])] = "done"]
          /\ UNCHANGED <<worker, shell, reply>>
    /\ UNCHANGED <<lock, open, close, reopens, manager, shared>>

\* The last shell ends.  What was sent after the worker looked at its channel for
\* the last time is lost: its sender is alive, its answer never comes.
ShellEnds(s) ==
    /\ worker[s] = "serving" /\ s \in shell
    /\ worker' = [worker EXCEPT ![s] = "gone"]
    /\ shell' = shell \ {s}
    /\ UNCHANGED <<lock, commands, manager, queue, reply, shared>>

\* The worker, or a sub-worker that it joins or passes the command to, joins relays:
\* of the tunnels it stops, of the jump hosts of a connection that it drops or that
\* does not come up.  A relay goes on while its peer takes nothing, ...
Stall(s) ==
    /\ \/ worker[s] = "handshake"
       \/ worker[s] = "serving" /\ (s \in shell \/ queue[s] # <<>>)
    /\ stalled' = stalled \cup {s}
    /\ UNCHANGED sessionVars

\* ... until the peer reads again or goes away.
Unstall(s) == stalled' = stalled \ {s} /\ UNCHANGED sessionVars

-----------------------------------------------------------------------------

Opening(s) ==
    \/ Spawn(s) \/ Ready(s) \/ Attach(s) \/ Abandon(s) \/ AskShell(s) \/ GotShell(s)
    \/ Stopped(s) \/ AskTunnel(s) \/ GotTunnel(s) \/ Finish(s) \/ Fail(s)

Closing(s) == Disconnect(s) \/ Joined(s) \/ Reopen(s)

Working(s) == s \notin stalled /\ (Handshake(s) \/ Serve(s))

Step(s) ==
    \/ Open(s) \/ Opening(s)
    \/ Close(s) \/ Reconnect(s) \/ Closing(s)
    \/ LogStart(s) \/ LogStop(s)
    \/ Working(s) \/ (s \notin stalled /\ ShellEnds(s))
    \/ \E c \in Calls : CallSend(c, s)

Next == \E s \in Sessions : (Step(s) /\ UNCHANGED stalled) \/ Stall(s) \/ Unstall(s)

Spec == Init /\ [][Next]_vars

\* Threads run; a thread that waits for the mutex gets it in the end; the worker
\* goes on (its blocking calls have timeouts), but nothing makes a peer read.
Fairness ==
    \A s \in Sessions :
        /\ SF_vars((Opening(s) \/ Closing(s)) /\ UNCHANGED stalled)
        /\ WF_vars(Working(s) /\ UNCHANGED stalled)

FairSpec == Spec /\ Fairness

-----------------------------------------------------------------------------
(* Properties *)

\* A worker without a handle was told to stop: no connection goes on behind the
\* UI's back.
StopsWhenRemoved ==
    \A s \in Sessions :
        worker[s] \in {"handshake", "ready", "serving"} /\ s \notin handles =>
            \E i \in DOMAIN queue[s] : queue[s][i] = "Shutdown"

\* Where the commands of a session are tells what they have done: a close is of a
\* session that was opened, a failed handshake has ended its worker, the handle has
\* its thread from the attach on, and only quick connections have a secret.
StepsInOrder ==
    /\ keyring \subseteq Adhoc
    /\ \A s \in Sessions :
         /\ close[s] # "idle" => open[s] = "done"
         /\ open[s] = "abandon" => worker[s] = "gone"
         /\ open[s] \in {"idle", "spawn", "handshake", "attach", "abandon"} => s \notin attached
         /\ open[s] \in {"shell", "shellReply", "tunnel", "tunnelReply", "finish"} /\ s \in handles
              => s \in attached

\* A session is in the manager exactly from the spawn to the failure or the close
\* of its command.
HandlesMatch ==
    /\ \A s \in Sessions : open[s] \in {"idle", "spawn", "stop", "fail", "failed"} => s \notin handles
    /\ \A s \in handles : open[s] = "done" => s \in attached
    /\ \A s \in Sessions : lock = <<"open", s>> <=> open[s] \in {"shellReply", "stop", "tunnelReply"}
    /\ \A s \in Sessions : lock = <<"close", s>> <=> close[s] \in {"join", "rejoin"}

\* The password of a quick connection is in the keyring only while it is being
\* opened or while adhoc_creds remembers to delete it; neither a failure, at
\* whatever step, nor a close leaves one.
SecretsTracked ==
    \A s \in keyring :
        /\ s \in creds \/ open[s] \notin {"idle", "failed", "done"}
        /\ close[s] \notin {"lock", "join", "done"}

\* The command loop was left with the request of this do_connect still in its
\* channel: the request is lost.
AnswerLost(s) == open[s] = "tunnelReply" /\ worker[s] = "gone" /\ reply[s] = "none"

\* No session_open, session_reconnect or session_close is under way, unless it has
\* no session id left.
Rested ==
    \A s \in Sessions :
        /\ open[s] \in {"idle", "done", "failed"}
        /\ \/ close[s] \in {"idle", "done", "moved"}
           \/ close[s] = "reopen" /\ \A new \in Sessions \ (Adhoc \cup {s}) : open[new] # "idle"

\* Every session_open, session_reconnect and session_close ends, and with them the
\* mutex is released, with two exceptions: the shell of a session ends between the
\* tunnel_start of its do_connect and the answer, or a worker waits for ever for a
\* relay whose peer takes no data.  No other interleaving of the commands, the
\* handshakes and the workers leaves anyone waiting.  (A session is opened and
\* closed once, so what never ends keeps the commands from resting.)
OnlyRelaysAndLostAnswersBlock ==
    <>[](stalled = {}) => []<>(Rested \/ \E s \in Sessions : AnswerLost(s))

\* The types, and that nothing of a session outlives its command: who holds the mutex
\* and what the manager and the keyring have follow from where the commands are, and
\* a worker without a handle was told to stop.
Inv == TypeOK /\ StepsInOrder /\ HandlesMatch /\ StopsWhenRemoved /\ SecretsTracked

=============================================================================
