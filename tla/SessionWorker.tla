------------------------------- MODULE SessionWorker -------------------------------
(***************************************************************************)
(* One live SSH session of mshell: the handle in the SessionManager's map, *)
(* the session worker thread that owns the command channel, the SFTP and   *)
(* tunnel sub-workers it spawns on first use, the transfers it runs, and   *)
(* the callers that wait for replies                                       *)
(* (crates/ssh-core/src/session_worker.rs, session.rs, transfer.rs and     *)
(* crates/app/src/commands/session.rs, sftp.rs, tunnel.rs).                *)
(*                                                                         *)
(* A command is identified by the call that issued it.  A reply channel is *)
(* the state of its call: a caller blocks while its call is "waiting".     *)
(* Payloads (paths, bytes, tunnel configurations) are left out.            *)
(***************************************************************************)
EXTENDS Integers, FiniteSets, SequencesExt

CONSTANTS
    ShellCalls,   \* OpenShell commands
    ExecCalls,    \* Exec commands
    SftpCalls,    \* SFTP commands other than transfers (list, mkdir, read, ...)
    Transfers,    \* SftpUpload and SftpDownload commands, by transfer id
    TunnelCalls,  \* TunnelStart, TunnelStop and TunnelList commands
    MaxCalls,     \* bound: how many of them are issued in a behaviour
    Shutdown,     \* SessionCmd::Shutdown
    None          \* no command in hand

Calls == ShellCalls \cup ExecCalls \cup SftpCalls \cup Transfers \cup TunnelCalls

SftpCmds == SftpCalls \cup Transfers

ASSUME KindsAssumption ==
    /\ ShellCalls \cap (ExecCalls \cup SftpCalls \cup Transfers \cup TunnelCalls) = {}
    /\ ExecCalls \cap (SftpCalls \cup Transfers \cup TunnelCalls) = {}
    /\ SftpCalls \cap (Transfers \cup TunnelCalls) = {}
    /\ Transfers \cap TunnelCalls = {}

ASSUME ShutdownAssumption == Shutdown \notin Calls

ASSUME NoneAssumption == None \notin Calls \cup {Shutdown}

VARIABLES
    handle,           \* the manager's map holds the session (and a command sender)
    closer,           \* the thread of session_close: "idle", "joining", "done"
    call,             \* the state of every call, as its caller sees it
    cmdq,             \* the session worker's command channel
    main,             \* where the session worker is
    channels,         \* the open shell channels, by the call that opened them
    hadChannel,       \* a shell channel has existed
    execs,            \* exec commands being polled
    transferCancels,  \* keys of the worker's map of cancel flags
    sftp,             \* where the SFTP sub-worker is
    sftpq,            \* its command channel
    sftpCmd,          \* the command it is executing
    sftpConn,         \* it holds an established connection
    tunnel,           \* where the tunnel sub-worker is
    tunnelq,          \* its command channel
    tracked,          \* transfers registered and not finished (TransferQueue)
    cancelled,        \* transfers whose cancel flag is set
    terminal,         \* terminal progress events emitted for each transfer
    disconnected,     \* SessionEvent::Disconnected has been emitted
    stalled           \* threads that wait for a relay whose peer takes no data

mainVars   == <<main, cmdq, channels, hadChannel, execs, transferCancels>>
sftpVars   == <<sftp, sftpq, sftpCmd, sftpConn>>
tunnelVars == <<tunnel, tunnelq>>
jobVars    == <<tracked, cancelled, terminal>>
userVars   == <<handle, closer>>
sessionVars == <<handle, closer, call, cmdq, main, channels, hadChannel, execs,
                 transferCancels, sftp, sftpq, sftpCmd, sftpConn, tunnel, tunnelq,
                 tracked, cancelled, terminal, disconnected>>
vars == <<sessionVars, stalled>>

-----------------------------------------------------------------------------
(* Types *)

CallStates == {"idle",      \* not issued
               "sender",    \* session_cmd holds a clone of the command sender
               "refused",   \* send failed: the caller got the error at once
               "waiting",   \* sent; the caller waits on the reply channel
               "ok", "err", \* replied
               "closed"}    \* the reply sender was dropped: recv() failed

MainStates == {"establish", "failed", "drain", "poll", "teardown", "stopSftp",
               "joinSftp", "stopTunnel", "joinTunnel", "leave", "gone", "exited"}

SftpStates == {"none", "idle", "connect", "run", "emitted", "exited"}

TunnelStates == {"none", "establish", "drain", "return", "run", "exited"}

Outcomes == {"done", "failed", "cancelled"}

Threads == {"main", "sftp", "tunnel"}

TypeOK ==
    /\ handle \in BOOLEAN
    /\ closer \in {"idle", "joining", "done"}
    /\ call \in [Calls -> CallStates]
    /\ cmdq \in Seq(Calls \cup {Shutdown})
    /\ main \in MainStates
    /\ channels \in SUBSET ShellCalls
    /\ hadChannel \in BOOLEAN
    /\ execs \in SUBSET ExecCalls
    /\ transferCancels \in SUBSET Transfers
    /\ sftp \in SftpStates
    /\ sftpq \in Seq(SftpCmds \cup {Shutdown})
    /\ sftpCmd \in SftpCmds \cup {None}
    /\ sftpConn \in BOOLEAN
    /\ tunnel \in TunnelStates
    /\ tunnelq \in Seq(TunnelCalls \cup {Shutdown})
    /\ tracked \in SUBSET Transfers
    /\ cancelled \in SUBSET Transfers
    /\ terminal \in [Transfers -> Seq(Outcomes)]
    /\ disconnected \in BOOLEAN
    /\ stalled \in SUBSET Threads

Init ==
    /\ handle = TRUE
    /\ closer = "idle"
    /\ call = [c \in Calls |-> "idle"]
    /\ cmdq = <<>>
    /\ main = "establish"
    /\ channels = {}
    /\ hadChannel = FALSE
    /\ execs = {}
    /\ transferCancels = {}
    /\ sftp = "none"
    /\ sftpq = <<>>
    /\ sftpCmd = None
    /\ sftpConn = FALSE
    /\ tunnel = "none"
    /\ tunnelq = <<>>
    /\ tracked = {}
    /\ cancelled = {}
    /\ terminal = [t \in Transfers |-> <<>>]
    /\ disconnected = FALSE
    /\ stalled = {}

-----------------------------------------------------------------------------
(* Helpers *)

\* The command receiver is dropped when run_cmd_loop returns, or when the
\* worker returns without entering it.
ReceiverAlive == main \notin {"failed", "gone", "exited"}

\* Dropping the reply sender of a command wakes its caller with an error.
DropReplies(S) ==
    [c \in Calls |-> IF c \in S /\ call[c] = "waiting" THEN "closed" ELSE call[c]]

\* fail_sftp_command: reply the error; a transfer is also finished and its
\* failure reported.
FailCommand(c) ==
    /\ call' = [call EXCEPT ![c] = "err"]
    /\ tracked' = tracked \ {c}
    /\ terminal' = IF c \in Transfers
                   THEN [terminal EXCEPT ![c] = Append(@, "failed")]
                   ELSE terminal
    /\ UNCHANGED cancelled

-----------------------------------------------------------------------------
(* The callers: Tauri commands on threads of their own *)

\* The bound on the calls that are issued, each once.
MoreCalls == Cardinality({c \in Calls : call[c] # "idle"}) < MaxCalls

\* session_cmd, first half: clone the sender under a brief lock.  The session
\* id is known to the UI only once the connection is established.
GetSender(c) ==
    /\ handle
    /\ main \notin {"establish", "failed"}
    /\ call[c] = "idle" /\ MoreCalls
    /\ call' = [call EXCEPT ![c] = "sender"]
    /\ UNCHANGED <<userVars, mainVars, sftpVars, tunnelVars, jobVars, disconnected>>

\* session_cmd, second half: send, with the lock released, and wait.
Send(c) ==
    /\ call[c] = "sender"
    /\ IF ReceiverAlive
       THEN /\ cmdq' = Append(cmdq, c)
            /\ call' = [call EXCEPT ![c] = "waiting"]
       ELSE /\ call' = [call EXCEPT ![c] = "refused"]
            /\ UNCHANGED cmdq
    /\ UNCHANGED <<userVars, main, channels, hadChannel, execs, transferCancels,
                   sftpVars, tunnelVars, jobVars, disconnected>>

\* SessionManager::sftp_upload and sftp_download, under the sessions lock:
\* register, send, and finish again when the send fails.
StartTransfer(t) ==
    /\ handle
    /\ main \notin {"establish", "failed"}
    /\ call[t] = "idle" /\ MoreCalls
    /\ IF ReceiverAlive
       THEN /\ tracked' = tracked \cup {t}
            /\ cmdq' = Append(cmdq, t)
            /\ call' = [call EXCEPT ![t] = "waiting"]
       ELSE /\ call' = [call EXCEPT ![t] = "refused"]
            /\ UNCHANGED <<tracked, cmdq>>
    /\ UNCHANGED <<userVars, main, channels, hadChannel, execs, transferCancels,
                   sftpVars, tunnelVars, cancelled, terminal, disconnected>>

\* transfer_cancel, under the sessions lock (which session_close holds while
\* it joins the worker).
CancelTransfer(t) ==
    /\ closer # "joining"
    /\ t \in tracked
    /\ cancelled' = cancelled \cup {t}
    /\ UNCHANGED <<userVars, call, mainVars, sftpVars, tunnelVars, tracked,
                   terminal, disconnected>>

\* SessionManager::disconnect: remove the handle, send Shutdown, join.
Close ==
    /\ handle
    /\ main # "establish"
    /\ handle' = FALSE
    /\ closer' = "joining"
    /\ cmdq' = IF ReceiverAlive THEN Append(cmdq, Shutdown) ELSE cmdq
    /\ UNCHANGED <<call, main, channels, hadChannel, execs, transferCancels,
                   sftpVars, tunnelVars, jobVars, disconnected>>

Joined ==
    /\ closer = "joining"
    /\ main \in {"failed", "exited"}
    /\ closer' = "done"
    /\ UNCHANGED <<handle, call, mainVars, sftpVars, tunnelVars, jobVars, disconnected>>

-----------------------------------------------------------------------------
(* The session worker: session_worker, run_cmd_loop and route_cmd *)

\* establish_session_chain; on failure the worker returns at once.
Establish ==
    /\ main = "establish"
    /\ main' \in {"drain", "failed"}
    /\ UNCHANGED <<userVars, call, cmdq, channels, hadChannel, execs, transferCancels,
                   sftpVars, tunnelVars, jobVars, disconnected>>

NextIn(kind) == main = "drain" /\ cmdq # <<>> /\ Head(cmdq) \in kind

RouteShell ==
    /\ NextIn(ShellCalls)
    /\ cmdq' = Tail(cmdq)
    /\ \/ /\ channels' = channels \cup {Head(cmdq)}
          /\ hadChannel' = TRUE
          /\ call' = [call EXCEPT ![Head(cmdq)] = "ok"]
       \/ /\ call' = [call EXCEPT ![Head(cmdq)] = "err"]
          /\ UNCHANGED <<channels, hadChannel>>
    /\ UNCHANGED <<userVars, main, execs, transferCancels, sftpVars, tunnelVars,
                   jobVars, disconnected>>

\* dispatch_exec
RouteExec ==
    /\ NextIn(ExecCalls)
    /\ cmdq' = Tail(cmdq)
    /\ \/ execs' = execs \cup {Head(cmdq)} /\ UNCHANGED call
       \/ call' = [call EXCEPT ![Head(cmdq)] = "err"] /\ UNCHANGED execs
    /\ UNCHANGED <<userVars, main, channels, hadChannel, transferCancels, sftpVars,
                   tunnelVars, jobVars, disconnected>>

\* Slip: the worker remembers the flag of the latest transfer only.
RememberCancel_LatestOnly(c) == {c} \cap Transfers \cap tracked

\* The flag of a routed transfer is remembered, then the flags of finished
\* transfers are pruned.
RememberCancel(c) == (transferCancels \cup ({c} \cap Transfers)) \cap tracked

\* The SFTP sub-worker is spawned on first use; when the thread cannot be
\* spawned its receiver is dropped, the send fails and the slot stays unset.
RouteSftp ==
    /\ NextIn(SftpCmds)
    /\ cmdq' = Tail(cmdq)
    /\ transferCancels' = RememberCancel(Head(cmdq))
    /\ \/ /\ sftp' = IF sftp = "none" THEN "idle" ELSE sftp
          /\ sftpq' = Append(sftpq, Head(cmdq))
          /\ UNCHANGED <<call, jobVars>>
       \/ /\ sftp = "none"
          /\ FailCommand(Head(cmdq))
          /\ UNCHANGED <<sftp, sftpq>>
    /\ UNCHANGED <<userVars, main, channels, hadChannel, execs, sftpCmd, sftpConn,
                   tunnelVars, disconnected>>

\* Likewise for tunnels, but the sub-worker may have exited: then the send
\* fails for good, because the slot still holds a join handle.
RouteTunnel ==
    /\ NextIn(TunnelCalls)
    /\ cmdq' = Tail(cmdq)
    /\ \/ /\ tunnel # "exited"
          /\ tunnel' = IF tunnel = "none" THEN "establish" ELSE tunnel
          /\ tunnelq' = Append(tunnelq, Head(cmdq))
          /\ UNCHANGED <<call, jobVars>>
       \/ /\ tunnel \in {"none", "exited"}
          /\ FailCommand(Head(cmdq))
          /\ UNCHANGED tunnelVars
    /\ UNCHANGED <<userVars, main, channels, hadChannel, execs, transferCancels,
                   sftpVars, disconnected>>

RouteShutdown ==
    /\ NextIn({Shutdown})
    /\ cmdq' = Tail(cmdq)
    /\ main' = "teardown"
    /\ UNCHANGED <<userVars, call, channels, hadChannel, execs, transferCancels,
                   sftpVars, tunnelVars, jobVars, disconnected>>

\* The channel is empty: recv_timeout timed out, or try_recv found nothing.
Drained ==
    /\ main = "drain"
    /\ cmdq = <<>>
    /\ main' = "poll"
    /\ UNCHANGED <<userVars, call, cmdq, channels, hadChannel, execs, transferCancels,
                   sftpVars, tunnelVars, jobVars, disconnected>>

\* One pass over the shell channels, then over the pending execs.  The worker
\* leaves the loop, without polling the execs, when its last shell is gone.
Poll ==
    /\ main = "poll"
    /\ \E closed \in SUBSET channels : channels' = channels \ closed
    /\ IF hadChannel /\ channels' = {}
       THEN main' = "teardown" /\ UNCHANGED <<call, execs>>
       ELSE /\ main' = "drain"
            /\ \E settled \in SUBSET execs : \E failed \in SUBSET settled :
                 /\ execs' = execs \ settled
                 /\ call' = [c \in Calls |-> IF c \in failed THEN "err"
                                             ELSE IF c \in settled THEN "ok" ELSE call[c]]
    /\ UNCHANGED <<userVars, cmdq, hadChannel, transferCancels, sftpVars, tunnelVars,
                   jobVars, disconnected>>

\* Teardown: set the cancel flag of every remembered transfer, ...
CancelTransfers ==
    /\ main = "teardown"
    /\ cancelled' = cancelled \cup transferCancels
    /\ main' = "stopSftp"
    /\ UNCHANGED <<userVars, call, cmdq, channels, hadChannel, execs, transferCancels,
                   sftpVars, tunnelVars, tracked, terminal, disconnected>>

\* Slip: the sub-worker is joined without being told to stop.
StopSftp_JoinsOnly ==
    /\ main = "stopSftp"
    /\ main' = IF sftp = "none" THEN "stopTunnel" ELSE "joinSftp"
    /\ UNCHANGED <<userVars, call, cmdq, channels, hadChannel, execs, transferCancels,
                   sftpVars, tunnelVars, jobVars, disconnected>>

\* ... stop the SFTP sub-worker (SubWorker::shutdown: send, join), ...
StopSftp ==
    /\ main = "stopSftp"
    /\ IF sftp = "none"
       THEN main' = "stopTunnel" /\ UNCHANGED sftpq
       ELSE main' = "joinSftp" /\ sftpq' = Append(sftpq, Shutdown)
    /\ UNCHANGED <<userVars, call, cmdq, channels, hadChannel, execs, transferCancels,
                   sftp, sftpCmd, sftpConn, tunnelVars, jobVars, disconnected>>

\* Slip: the sub-worker is signalled but not joined.
JoinSftp_Detaches ==
    /\ main = "joinSftp"
    /\ main' = "stopTunnel"
    /\ UNCHANGED <<userVars, call, cmdq, channels, hadChannel, execs, transferCancels,
                   sftpVars, tunnelVars, jobVars, disconnected>>

\* Its channel, with any command left in it, goes with its sender.
JoinSftp ==
    /\ main = "joinSftp"
    /\ sftp = "exited"
    /\ main' = "stopTunnel"
    /\ sftpq' = <<>>
    /\ call' = DropReplies(ToSet(sftpq))
    /\ UNCHANGED <<userVars, cmdq, channels, hadChannel, execs, transferCancels,
                   sftp, sftpCmd, sftpConn, tunnelVars, jobVars, disconnected>>

\* ... then the tunnel sub-worker, ...
StopTunnel ==
    /\ main = "stopTunnel"
    /\ main' = IF tunnel = "none" THEN "leave" ELSE "joinTunnel"
    /\ tunnelq' = IF tunnel \in {"none", "exited"} THEN tunnelq ELSE Append(tunnelq, Shutdown)
    /\ UNCHANGED <<userVars, call, cmdq, channels, hadChannel, execs, transferCancels,
                   sftpVars, tunnel, jobVars, disconnected>>

\* ... and join it.
JoinTunnel ==
    /\ main = "joinTunnel"
    /\ tunnel = "exited"
    /\ main' = "leave"
    /\ tunnelq' = <<>>
    /\ call' = DropReplies(ToSet(tunnelq))
    /\ UNCHANGED <<userVars, cmdq, channels, hadChannel, execs, transferCancels,
                   sftpVars, tunnel, jobVars, disconnected>>

\* run_cmd_loop returns: its command receiver and its pending execs are
\* dropped.  flume keeps the messages of a channel whose receiver is gone for
\* as long as a sender lives, and a caller in session_cmd keeps its own.
LeaveLoop ==
    /\ main = "leave"
    /\ main' = "gone"
    /\ execs' = {}
    /\ channels' = {}
    /\ call' = DropReplies(execs)
    /\ UNCHANGED <<userVars, cmdq, hadChannel, transferCancels, sftpVars, tunnelVars,
                   jobVars, disconnected>>

EmitDisconnected ==
    /\ main = "gone"
    /\ main' = "exited"
    /\ disconnected' = TRUE
    /\ UNCHANGED <<userVars, call, cmdq, channels, hadChannel, execs, transferCancels,
                   sftpVars, tunnelVars, jobVars>>

-----------------------------------------------------------------------------
(* The SFTP sub-worker: sftp_worker_loop and handle_sftp_cmd *)

\* Take a command.  A connection that fails the liveness probe is dropped.
SftpTake ==
    /\ sftp = "idle"
    /\ sftpq # <<>>
    /\ Head(sftpq) # Shutdown
    /\ sftpq' = Tail(sftpq)
    /\ sftpCmd' = Head(sftpq)
    /\ \/ sftpConn /\ sftp' = "run" /\ UNCHANGED sftpConn
       \/ sftp' = "connect" /\ sftpConn' = FALSE
    /\ UNCHANGED <<userVars, call, mainVars, tunnelVars, jobVars, disconnected>>

SftpConnect ==
    /\ sftp = "connect"
    /\ sftp' = "run"
    /\ sftpConn' = TRUE
    /\ UNCHANGED <<userVars, call, mainVars, sftpq, sftpCmd, tunnelVars, jobVars,
                   disconnected>>

\* Slip: the failed command is answered and tried again.
SftpConnectFails_Retries ==
    /\ sftp = "connect"
    /\ FailCommand(sftpCmd)
    /\ UNCHANGED <<userVars, mainVars, sftpVars, tunnelVars, disconnected>>

SftpConnectFails ==
    /\ sftp = "connect"
    /\ FailCommand(sftpCmd)
    /\ sftp' = "idle"
    /\ sftpCmd' = None
    /\ UNCHANGED <<userVars, mainVars, sftpq, sftpConn, tunnelVars, disconnected>>

\* A listing, mkdir, read, ...: reply its result.
SftpReply ==
    /\ sftp = "run"
    /\ sftpCmd \in SftpCalls
    /\ \E result \in {"ok", "err"} : call' = [call EXCEPT ![sftpCmd] = result]
    /\ sftp' = "idle"
    /\ sftpCmd' = None
    /\ UNCHANGED <<userVars, mainVars, sftpq, sftpConn, tunnelVars, jobVars, disconnected>>

\* A transfer ends and emit_transfer_result reports how.  The copy loop reads
\* the cancel flag before every chunk: it may still end as done or failed.
SftpReport ==
    /\ sftp = "run"
    /\ sftpCmd \in Transfers
    /\ \E outcome \in Outcomes :
         /\ outcome = "cancelled" => sftpCmd \in cancelled
         /\ terminal' = [terminal EXCEPT ![sftpCmd] = Append(@, outcome)]
    /\ sftp' = "emitted"
    /\ UNCHANGED <<userVars, call, mainVars, sftpq, sftpCmd, sftpConn, tunnelVars,
                   tracked, cancelled, disconnected>>

\* transfers.finish, then the reply.
SftpFinish ==
    /\ sftp = "emitted"
    /\ tracked' = tracked \ {sftpCmd}
    /\ call' = [call EXCEPT ![sftpCmd] = "ok"]
    /\ sftp' = "idle"
    /\ sftpCmd' = None
    /\ UNCHANGED <<userVars, mainVars, sftpq, sftpConn, tunnelVars, cancelled, terminal,
                   disconnected>>

\* The idle keepalive fails: drop the connection.
SftpKeepaliveFails ==
    /\ sftp = "idle"
    /\ sftpq = <<>>
    /\ sftpConn
    /\ sftpConn' = FALSE
    /\ UNCHANGED <<userVars, call, mainVars, sftp, sftpq, sftpCmd, tunnelVars, jobVars,
                   disconnected>>

SftpShutdown ==
    /\ sftp = "idle"
    /\ sftpq # <<>>
    /\ Head(sftpq) = Shutdown
    /\ sftpq' = Tail(sftpq)
    /\ sftp' = "exited"
    /\ sftpConn' = FALSE
    /\ UNCHANGED <<userVars, call, mainVars, sftpCmd, tunnelVars, jobVars, disconnected>>

-----------------------------------------------------------------------------
(* The tunnel sub-worker: tunnel_worker_loop *)

TunnelEstablish ==
    /\ tunnel = "establish"
    /\ tunnel' \in {"run", "drain"}
    /\ UNCHANGED <<userVars, call, mainVars, sftpVars, tunnelq, jobVars, disconnected>>

\* The connection failed: drop the queued commands, ...
TunnelDiscard ==
    /\ tunnel = "drain"
    /\ tunnelq # <<>>
    /\ tunnelq' = Tail(tunnelq)
    /\ call' = DropReplies({Head(tunnelq)})
    /\ UNCHANGED <<userVars, mainVars, sftpVars, tunnel, jobVars, disconnected>>

TunnelDiscarded ==
    /\ tunnel = "drain"
    /\ tunnelq = <<>>
    /\ tunnel' = "return"
    /\ UNCHANGED <<userVars, call, mainVars, sftpVars, tunnelq, jobVars, disconnected>>

\* ... and return, dropping the receiver.
TunnelReturn ==
    /\ tunnel = "return"
    /\ tunnel' = "exited"
    /\ UNCHANGED <<userVars, call, mainVars, sftpVars, tunnelq, jobVars, disconnected>>

TunnelReply ==
    /\ tunnel = "run"
    /\ tunnelq # <<>>
    /\ Head(tunnelq) # Shutdown
    /\ tunnelq' = Tail(tunnelq)
    /\ \E result \in {"ok", "err"} : call' = [call EXCEPT ![Head(tunnelq)] = result]
    /\ UNCHANGED <<userVars, mainVars, sftpVars, tunnel, jobVars, disconnected>>

TunnelShutdown ==
    /\ tunnel = "run"
    /\ tunnelq # <<>>
    /\ Head(tunnelq) = Shutdown
    /\ tunnelq' = Tail(tunnelq)
    /\ tunnel' = "exited"
    /\ UNCHANGED <<userVars, call, mainVars, sftpVars, jobVars, disconnected>>

-----------------------------------------------------------------------------
(* The relays: threads that a tunnel or a jump host needs *)

\* A thread joins the relays of the tunnels it stops, and those of the jump hosts
\* of a connection it drops (JumpHold::drop), also of one that did not come up.
JoinsRelays(w) ==
    \/ w = "main" /\ main \in {"establish", "gone"}
    \/ w = "sftp" /\ (sftp = "connect" \/ (sftp = "idle" /\ sftpConn))
    \/ w = "tunnel" /\ (tunnel = "establish" \/ (tunnel = "run" /\ tunnelq # <<>>))

\* The relay is in write_all_stream or write_all_channel, which go on while the
\* peer takes nothing, whatever the stop flag says, ...
Stall(w) ==
    /\ JoinsRelays(w)
    /\ stalled' = stalled \cup {w}
    /\ UNCHANGED sessionVars

\* ... until the peer reads again or goes away.
Unstall(w) ==
    /\ stalled' = stalled \ {w}
    /\ UNCHANGED sessionVars

-----------------------------------------------------------------------------
(* The specification *)

Callers ==
    \/ \E c \in Calls \ Transfers : GetSender(c) \/ Send(c)
    \/ \E t \in Transfers : StartTransfer(t) \/ CancelTransfer(t)
    \/ Close
    \/ Joined

MainStep ==
    /\ "main" \notin stalled
    /\ \/ Establish \/ RouteShell \/ RouteExec \/ RouteSftp \/ RouteTunnel \/ RouteShutdown
       \/ Drained \/ Poll \/ CancelTransfers \/ StopSftp \/ JoinSftp \/ StopTunnel
       \/ JoinTunnel \/ LeaveLoop \/ EmitDisconnected

\* Everything the SFTP sub-worker must do once it has work.
SftpStep ==
    /\ "sftp" \notin stalled
    /\ \/ SftpTake \/ SftpConnect \/ SftpConnectFails \/ SftpReply \/ SftpReport
       \/ SftpFinish \/ SftpShutdown

SftpIdles == "sftp" \notin stalled /\ SftpKeepaliveFails

TunnelStep ==
    /\ "tunnel" \notin stalled
    /\ \/ TunnelEstablish \/ TunnelDiscard \/ TunnelDiscarded \/ TunnelReturn
       \/ TunnelReply \/ TunnelShutdown

Next ==
    \/ (Callers \/ MainStep \/ SftpStep \/ SftpIdles \/ TunnelStep) /\ UNCHANGED stalled
    \/ \E w \in Threads : Stall(w) \/ Unstall(w)

Spec == Init /\ [][Next]_vars

\* The threads are scheduled by the OS; every blocking libssh2 call in a step
\* is bounded by the session timeout (set_timeout, set_read_timeout).  A join of a
\* relay is not: nothing makes its peer read.
FairSpec ==
    /\ Spec
    /\ WF_vars(MainStep /\ UNCHANGED stalled)
    /\ WF_vars(SftpStep /\ UNCHANGED stalled)
    /\ WF_vars(TunnelStep /\ UNCHANGED stalled)
    /\ WF_vars(Joined /\ UNCHANGED stalled)

-----------------------------------------------------------------------------
(* Safety *)

\* The transfers the SFTP sub-worker has in its queue or in hand.
HeldBySftp == (ToSet(sftpq) \cup {sftpCmd}) \cap SftpCmds

\* A command is in the custody of at most one thread, once: the session
\* worker's channel, its list of pending execs, the SFTP sub-worker or the
\* tunnel sub-worker.  route_cmd moves a command, it never copies one.
HeldOnce ==
    /\ IsInjective(cmdq) /\ IsInjective(sftpq) /\ IsInjective(tunnelq)
    /\ sftpCmd \notin ToSet(sftpq)
    /\ ToSet(cmdq) \cap (HeldBySftp \cup execs \cup (ToSet(tunnelq) \ {Shutdown})) = {}

\* A caller that waits is never forgotten while the threads run: its command
\* is still held by one of them, and a command that is held has a caller that
\* still waits (no thread replies twice).
WaitingIsHeld ==
    \A c \in Calls :
        call[c] = "waiting" <=>
            c \in ToSet(cmdq) \cup HeldBySftp \cup execs \cup ToSet(tunnelq)

\* "Session-scoped transfer cancel flags so Shutdown aborts an in-flight copy
\* promptly": once teardown has set the flags, every transfer the SFTP
\* sub-worker still has to run is flagged, whichever others finished,
\* were pruned from the map or were queued in between.
TeardownCancelsTransfers ==
    main \notin {"establish", "failed", "drain", "poll", "teardown"} =>
        HeldBySftp \cap Transfers \subseteq cancelled

\* The UI is told at most once how a transfer ended, and a transfer leaves the
\* TransferQueue only when it has been told.
ReportedOnce ==
    \A t \in Transfers :
        /\ Len(terminal[t]) <= 1
        /\ (call[t] \in {"ok", "err", "waiting"} /\ t \notin tracked) => Len(terminal[t]) = 1

\* Disconnected is the last word: by then both sub-workers have been joined.
JoinedBeforeDisconnected ==
    disconnected => sftp \in {"none", "exited"} /\ tunnel \in {"none", "exited"}

\* No transfer event follows the Disconnected event of its session, and no
\* reply of a worker does: the UI tears the session down on Disconnected.
QuietAfterDisconnected ==
    [][disconnected => /\ terminal' = terminal
                       /\ \A c \in Calls : call[c] = "waiting" => call'[c] = "waiting"]_vars

\* The abstract view of the transfers of this session.
JobState(t) ==
    IF call[t] = "idle" THEN "new"
    ELSE IF call[t] = "refused" THEN "refused"
    ELSE IF Len(terminal[t]) = 0 THEN "accepted"
    ELSE IF Len(terminal[t]) = 1 THEN terminal[t][1]
    ELSE "reported twice"

Job == INSTANCE TransferJob
           WITH Jobs <- Transfers,
                job <- [t \in Transfers |-> JobState(t)],
                asked <- cancelled

\* The session worker and its sub-workers keep the promise of TransferJob: one
\* outcome per transfer, reported once, and never an unrequested "cancelled".
ImplementsTransferJob == Job!Spec

(* The inductive invariant behind these properties *)

BeforeStopSftp == {"establish", "failed", "drain", "poll", "teardown", "stopSftp"}
AfterCancel == {"stopSftp", "joinSftp", "stopTunnel", "joinTunnel", "leave", "gone", "exited"}

\* Shutdown is sent once on every channel and is the last message of the SFTP
\* sub-worker, which leaves nothing behind when it exits.
ShutdownIsLast ==
    /\ handle => Shutdown \notin ToSet(cmdq)
    /\ main \in BeforeStopSftp => Shutdown \notin ToSet(sftpq) /\ sftp # "exited"
    /\ main \in BeforeStopSftp \cup {"joinSftp", "stopTunnel"} => Shutdown \notin ToSet(tunnelq)
    /\ Shutdown \in ToSet(sftpq) => Last(sftpq) = Shutdown
    /\ sftp = "exited" => sftpq = <<>>

\* The SFTP sub-worker has a command in hand exactly in these states.
SftpBusy ==
    /\ sftpCmd # None <=> sftp \in {"connect", "run", "emitted"}
    /\ sftp = "emitted" => sftpCmd \in Transfers
    /\ sftp = "none" => sftpq = <<>>

\* A transfer is tracked while its command is unanswered, and has been reported
\* exactly when it is answered or about to be.
TrackedUntilAnswered ==
    \A t \in Transfers :
        /\ call[t] \in {"idle", "refused", "waiting", "ok", "err"}
        /\ t \in tracked <=> call[t] = "waiting"
        /\ Len(terminal[t]) = IF call[t] \in {"ok", "err"} \/ (sftp = "emitted" /\ sftpCmd = t)
                              THEN 1 ELSE 0

\* The worker remembers the flag of every transfer the sub-worker holds, and
\* has set the remembered flags when it goes on to stop the sub-worker.
FlagsRemembered ==
    /\ HeldBySftp \cap Transfers \subseteq transferCancels
    /\ main \in AfterCancel => transferCancels \subseteq cancelled

JoinOrder ==
    /\ main \in {"stopTunnel", "joinTunnel", "leave", "gone", "exited"} => sftp \in {"none", "exited"}
    /\ main \in {"leave", "gone", "exited"} => tunnel \in {"none", "exited"}
    /\ disconnected <=> main = "exited"

\* All of them together with the types.  It is inductive (SessionWorker_proofs).
Inv ==
    /\ TypeOK
    /\ HeldOnce
    /\ WaitingIsHeld
    /\ ShutdownIsLast
    /\ SftpBusy
    /\ TrackedUntilAnswered
    /\ FlagsRemembered
    /\ JoinOrder

(* Liveness *)

\* No relay that these threads join keeps them waiting for ever.
GoOn(threads) == <>[](stalled \cap threads = {})

\* session_close returns: the joins of the session worker and of its
\* sub-workers end.
CloseCompletes == GoOn(Threads) => (closer = "joining" ~> closer = "done")

\* When the last shell of a session is gone the UI gets Disconnected.
LastShellEndsSession ==
    GoOn(Threads) => (hadChannel /\ channels = {} ~> disconnected)

\* An SFTP command that reached the sub-worker's queue is answered, also when
\* the connection fails or the session shuts down meanwhile, and whatever
\* becomes of the other threads.
SftpAnswered ==
    GoOn({"sftp"}) => \A c \in SftpCmds : c \in ToSet(sftpq) ~> call[c] \in {"ok", "err"}

\* Nobody waits for ever but for a relay whose peer takes no data: a close, the
\* UI of a session that lost its last shell, and the callers of the SFTP
\* sub-worker get what they wait for.
WorkEnds == CloseCompletes /\ LastShellEndsSession /\ SftpAnswered

=============================================================================
