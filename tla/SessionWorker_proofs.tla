---------------------------- MODULE SessionWorker_proofs ----------------------------
(***************************************************************************)
(* Theorems of SessionWorker, for any sets of calls and transfers: its     *)
(* invariant, and that it implements TransferJob.                          *)
(*                                                                         *)
(* TypeStep and one lemma per conjunct of Inv show that Inv is inductive.  *)
(* Each lemma has one step per action that can disturb its conjunct; the   *)
(* actions that leave its variables alone share a step.                    *)
(***************************************************************************)
EXTENDS SessionWorker, CommonLemmas

-----------------------------------------------------------------------------
(* The kinds of commands and the channels they travel through *)

LEMMA Kinds ==
    /\ ShellCalls \subseteq Calls /\ ExecCalls \subseteq Calls /\ TunnelCalls \subseteq Calls
    /\ SftpCmds \subseteq Calls /\ Transfers \subseteq SftpCmds /\ SftpCalls \subseteq SftpCmds
    /\ Shutdown \notin Calls /\ None \notin Calls /\ None # Shutdown
BY ShutdownAssumption, NoneAssumption DEF Calls, SftpCmds

LEMMA KindsDisjoint ==
    /\ ShellCalls \cap (ExecCalls \cup SftpCmds \cup TunnelCalls) = {}
    /\ ExecCalls \cap (SftpCmds \cup TunnelCalls) = {}
    /\ SftpCmds \cap TunnelCalls = {}
    /\ SftpCalls \cap Transfers = {}
    /\ SftpCmds = SftpCalls \cup Transfers
BY KindsAssumption DEF SftpCmds

\* Sending command c over cmdq.
LEMMA CmdqSent ==
    ASSUME TypeOK, NEW c \in Calls \cup {Shutdown}, cmdq' = Append(cmdq, c)
    PROVE  /\ ToSet(cmdq') = ToSet(cmdq) \cup {c}
           /\ cmdq' # <<>>
           /\ IsInjective(cmdq) /\ c \notin ToSet(cmdq) => IsInjective(cmdq')
<1>1. cmdq \in Seq(Calls \cup {Shutdown})
  BY DEF TypeOK
<1> QED BY <1>1, SendQueue

\* Receiving a command from cmdq.
LEMMA CmdqReceived ==
    ASSUME TypeOK, IsInjective(cmdq), cmdq # <<>>, cmdq' = Tail(cmdq)
    PROVE  /\ Head(cmdq) \in Calls \cup {Shutdown}
           /\ ToSet(cmdq) = ToSet(cmdq') \cup {Head(cmdq)}
           /\ Head(cmdq) \notin ToSet(cmdq')
           /\ IsInjective(cmdq')
<1>1. cmdq \in Seq(Calls \cup {Shutdown})
  BY DEF TypeOK
<1> QED BY <1>1, ReceiveQueue

\* Sending command c over sftpq.
LEMMA SftpqSent ==
    ASSUME TypeOK, NEW c \in SftpCmds \cup {Shutdown}, sftpq' = Append(sftpq, c)
    PROVE  /\ ToSet(sftpq') = ToSet(sftpq) \cup {c}
           /\ sftpq' # <<>>
           /\ Last(sftpq') = c
           /\ IsInjective(sftpq) /\ c \notin ToSet(sftpq) => IsInjective(sftpq')
<1>1. sftpq \in Seq(SftpCmds \cup {Shutdown})
  BY DEF TypeOK
<1> QED BY <1>1, SendQueue

\* Receiving a command from sftpq.
LEMMA SftpqReceived ==
    ASSUME TypeOK, IsInjective(sftpq), sftpq # <<>>, sftpq' = Tail(sftpq)
    PROVE  /\ Head(sftpq) \in SftpCmds \cup {Shutdown}
           /\ ToSet(sftpq) = ToSet(sftpq') \cup {Head(sftpq)}
           /\ Head(sftpq) \notin ToSet(sftpq')
           /\ sftpq' # <<>> => Last(sftpq') = Last(sftpq)
           /\ Head(sftpq) = Last(sftpq) => sftpq' = <<>>
           /\ IsInjective(sftpq')
<1>1. sftpq \in Seq(SftpCmds \cup {Shutdown})
  BY DEF TypeOK
<1> QED BY <1>1, ReceiveQueue

\* Sending command c over tunnelq.
LEMMA TunnelqSent ==
    ASSUME TypeOK, NEW c \in TunnelCalls \cup {Shutdown}, tunnelq' = Append(tunnelq, c)
    PROVE  /\ ToSet(tunnelq') = ToSet(tunnelq) \cup {c}
           /\ tunnelq' # <<>>
           /\ IsInjective(tunnelq) /\ c \notin ToSet(tunnelq) => IsInjective(tunnelq')
<1>1. tunnelq \in Seq(TunnelCalls \cup {Shutdown})
  BY DEF TypeOK
<1> QED BY <1>1, SendQueue

\* Receiving a command from tunnelq.
LEMMA TunnelqReceived ==
    ASSUME TypeOK, IsInjective(tunnelq), tunnelq # <<>>, tunnelq' = Tail(tunnelq)
    PROVE  /\ Head(tunnelq) \in TunnelCalls \cup {Shutdown}
           /\ ToSet(tunnelq) = ToSet(tunnelq') \cup {Head(tunnelq)}
           /\ Head(tunnelq) \notin ToSet(tunnelq')
           /\ IsInjective(tunnelq')
<1>1. tunnelq \in Seq(TunnelCalls \cup {Shutdown})
  BY DEF TypeOK
<1> QED BY <1>1, ReceiveQueue

\* What is in the channels: each holds only commands of its own kinds.
LEMMA ChannelContents ==
    ASSUME TypeOK
    PROVE  /\ ToSet(cmdq) \subseteq Calls \cup {Shutdown}
           /\ ToSet(sftpq) \subseteq SftpCmds \cup {Shutdown}
           /\ ToSet(tunnelq) \subseteq TunnelCalls \cup {Shutdown}
<1>1. ASSUME NEW S, NEW q \in Seq(S) PROVE ToSet(q) \subseteq S
  BY <1>1 DEF ToSet
<1> QED BY <1>1 DEF TypeOK

LEMMA NoneHeld == TypeOK => None \notin ToSet(cmdq) \cup ToSet(sftpq) \cup ToSet(tunnelq)
BY ChannelContents, Kinds

-----------------------------------------------------------------------------
(* Types *)

LEMMA FailCommandTypes ==
    ASSUME TypeOK, NEW c, FailCommand(c)
    PROVE  /\ call' \in [Calls -> CallStates]
           /\ tracked' \in SUBSET Transfers
           /\ cancelled' = cancelled
           /\ terminal' \in [Transfers -> Seq(Outcomes)]
<1>1. ASSUME c \in Transfers PROVE Append(terminal[c], "failed") \in Seq(Outcomes)
  BY <1>1 DEF TypeOK, Outcomes
<1> QED BY <1>1 DEF TypeOK, FailCommand, CallStates

\* A step is one of the threads, or of a relay that a thread waits for: that is
\* nothing to the session but a delay.
LEMMA StepIs ==
    ASSUME [Next]_vars
    PROVE  \/ Callers \/ MainStep \/ SftpStep \/ SftpKeepaliveFails \/ TunnelStep
           \/ UNCHANGED sessionVars
<1>1. CASE UNCHANGED vars
  BY <1>1 DEF vars
<1>2. ASSUME NEW w \in Threads, Stall(w) \/ Unstall(w) PROVE UNCHANGED sessionVars
  BY <1>2 DEF Stall, Unstall
<1> QED BY <1>1, <1>2 DEF Next, SftpIdles

\* Every variable keeps its type: in particular a command is only ever in the
\* channels of the threads its kind belongs to.
LEMMA TypeStep == TypeOK /\ [Next]_vars => TypeOK'
<1> SUFFICES ASSUME TypeOK, [Next]_vars PROVE TypeOK'
  OBVIOUS
<1>0. stalled' \in SUBSET Threads
  BY DEF Next, vars, Stall, Unstall, TypeOK
<1> USE Kinds, <1>0 DEF TypeOK, userVars, mainVars, sftpVars, tunnelVars, jobVars
<1>1. ASSUME NEW c \in Calls \ Transfers, GetSender(c) PROVE TypeOK'
  BY <1>1 DEF GetSender, CallStates
<1>2. ASSUME NEW c \in Calls \ Transfers, Send(c) PROVE TypeOK'
  <2>1. Append(cmdq, c) \in Seq(Calls \cup {Shutdown})
    BY SendQueue
  <2> QED BY <1>2, <2>1 DEF Send, CallStates
<1>3. ASSUME NEW t \in Transfers, StartTransfer(t) PROVE TypeOK'
  <2>1. Append(cmdq, t) \in Seq(Calls \cup {Shutdown})
    BY SendQueue
  <2> QED BY <1>3, <2>1 DEF StartTransfer, CallStates
<1>4. ASSUME NEW t \in Transfers, CancelTransfer(t) PROVE TypeOK'
  BY <1>4 DEF CancelTransfer
<1>5. ASSUME Close PROVE TypeOK'
  <2>1. Append(cmdq, Shutdown) \in Seq(Calls \cup {Shutdown})
    BY SendQueue
  <2> QED BY <1>5, <2>1 DEF Close
<1>6. ASSUME Joined PROVE TypeOK'
  BY <1>6 DEF Joined
<1>7. ASSUME Establish PROVE TypeOK'
  BY <1>7 DEF Establish, MainStates
<1>8. ASSUME RouteShell PROVE TypeOK'
  <2>1. Tail(cmdq) \in Seq(Calls \cup {Shutdown}) /\ Head(cmdq) \in ShellCalls
    BY <1>8, ReceiveQueue DEF RouteShell, NextIn
  <2> QED BY <1>8, <2>1 DEF RouteShell, CallStates
<1>9. ASSUME RouteExec PROVE TypeOK'
  <2>1. Tail(cmdq) \in Seq(Calls \cup {Shutdown}) /\ Head(cmdq) \in ExecCalls
    BY <1>9, ReceiveQueue DEF RouteExec, NextIn
  <2> QED BY <1>9, <2>1 DEF RouteExec, CallStates
<1>10. ASSUME RouteSftp PROVE TypeOK'
  <2>1. /\ Head(cmdq) \in SftpCmds
         /\ Tail(cmdq) \in Seq(Calls \cup {Shutdown})
         /\ Append(sftpq, Head(cmdq)) \in Seq(SftpCmds \cup {Shutdown})
    BY <1>10, ReceiveQueue, SendQueue DEF RouteSftp, NextIn
  <2> QED BY <1>10, <2>1, FailCommandTypes DEF RouteSftp, RememberCancel, SftpStates
<1>11. ASSUME RouteTunnel PROVE TypeOK'
  <2>1. /\ Head(cmdq) \in TunnelCalls
         /\ Tail(cmdq) \in Seq(Calls \cup {Shutdown})
         /\ Append(tunnelq, Head(cmdq)) \in Seq(TunnelCalls \cup {Shutdown})
    BY <1>11, ReceiveQueue, SendQueue DEF RouteTunnel, NextIn
  <2> QED BY <1>11, <2>1, FailCommandTypes DEF RouteTunnel, TunnelStates
<1>12. ASSUME RouteShutdown PROVE TypeOK'
  <2>1. Tail(cmdq) \in Seq(Calls \cup {Shutdown})
    BY <1>12, ReceiveQueue DEF RouteShutdown, NextIn
  <2> QED BY <1>12, <2>1 DEF RouteShutdown, MainStates
<1>13. ASSUME Drained PROVE TypeOK'
  BY <1>13 DEF Drained, MainStates
<1>14. ASSUME Poll PROVE TypeOK'
  BY <1>14 DEF Poll, MainStates, CallStates
<1>15. ASSUME CancelTransfers PROVE TypeOK'
  BY <1>15 DEF CancelTransfers, MainStates
<1>16. ASSUME StopSftp PROVE TypeOK'
  <2>1. Append(sftpq, Shutdown) \in Seq(SftpCmds \cup {Shutdown})
    BY SendQueue
  <2> QED BY <1>16, <2>1 DEF StopSftp, MainStates
<1>17. ASSUME JoinSftp PROVE TypeOK'
  <2>1. <<>> \in Seq(SftpCmds \cup {Shutdown})
    BY EmptyQueue
  <2> QED BY <1>17, <2>1 DEF JoinSftp, DropReplies, MainStates, CallStates
<1>18. ASSUME StopTunnel PROVE TypeOK'
  <2>1. Append(tunnelq, Shutdown) \in Seq(TunnelCalls \cup {Shutdown})
    BY SendQueue
  <2> QED BY <1>18, <2>1 DEF StopTunnel, MainStates
<1>19. ASSUME JoinTunnel PROVE TypeOK'
  <2>1. <<>> \in Seq(TunnelCalls \cup {Shutdown})
    BY EmptyQueue
  <2> QED BY <1>19, <2>1 DEF JoinTunnel, DropReplies, MainStates, CallStates
<1>20. ASSUME LeaveLoop PROVE TypeOK'
  BY <1>20 DEF LeaveLoop, DropReplies, MainStates, CallStates
<1>21. ASSUME EmitDisconnected PROVE TypeOK'
  BY <1>21 DEF EmitDisconnected, MainStates
<1>22. ASSUME SftpTake PROVE TypeOK'
  <2>1. Tail(sftpq) \in Seq(SftpCmds \cup {Shutdown}) /\ Head(sftpq) \in SftpCmds
    BY <1>22, ReceiveQueue DEF SftpTake
  <2> QED BY <1>22, <2>1 DEF SftpTake, SftpStates
<1>23. ASSUME SftpConnect PROVE TypeOK'
  BY <1>23 DEF SftpConnect, SftpStates
<1>24. ASSUME SftpConnectFails PROVE TypeOK'
  BY <1>24, FailCommandTypes DEF SftpConnectFails, SftpStates
<1>25. ASSUME SftpReply PROVE TypeOK'
  BY <1>25 DEF SftpReply, SftpStates, CallStates
<1>26. ASSUME SftpReport PROVE TypeOK'
  BY <1>26 DEF SftpReport, SftpStates, Outcomes
<1>27. ASSUME SftpFinish PROVE TypeOK'
  BY <1>27 DEF SftpFinish, SftpStates, CallStates
<1>28. ASSUME SftpShutdown PROVE TypeOK'
  <2>1. Tail(sftpq) \in Seq(SftpCmds \cup {Shutdown})
    BY <1>28, ReceiveQueue DEF SftpShutdown
  <2> QED BY <1>28, <2>1 DEF SftpShutdown, SftpStates
<1>29. ASSUME SftpKeepaliveFails PROVE TypeOK'
  BY <1>29 DEF SftpKeepaliveFails
<1>30. ASSUME TunnelEstablish PROVE TypeOK'
  BY <1>30 DEF TunnelEstablish, TunnelStates
<1>31. ASSUME TunnelDiscard PROVE TypeOK'
  <2>1. Tail(tunnelq) \in Seq(TunnelCalls \cup {Shutdown})
    BY <1>31, ReceiveQueue DEF TunnelDiscard
  <2> QED BY <1>31, <2>1 DEF TunnelDiscard, DropReplies, CallStates
<1>32. ASSUME TunnelDiscarded PROVE TypeOK'
  BY <1>32 DEF TunnelDiscarded, TunnelStates
<1>33. ASSUME TunnelReturn PROVE TypeOK'
  BY <1>33 DEF TunnelReturn, TunnelStates
<1>34. ASSUME TunnelReply PROVE TypeOK'
  <2>1. Tail(tunnelq) \in Seq(TunnelCalls \cup {Shutdown}) /\ Head(tunnelq) \in TunnelCalls
    BY <1>34, ReceiveQueue DEF TunnelReply
  <2> QED BY <1>34, <2>1 DEF TunnelReply, CallStates
<1>35. ASSUME TunnelShutdown PROVE TypeOK'
  <2>1. Tail(tunnelq) \in Seq(TunnelCalls \cup {Shutdown})
    BY <1>35, ReceiveQueue DEF TunnelShutdown
  <2> QED BY <1>35, <2>1 DEF TunnelShutdown, TunnelStates
<1>36. CASE UNCHANGED sessionVars
  BY <1>36 DEF sessionVars
<1> QED
  BY <1>1, <1>2, <1>3, <1>4, <1>5, <1>6, <1>7, <1>8, <1>9, <1>10, <1>11, <1>12, <1>13,
     <1>14, <1>15, <1>16, <1>17, <1>18, <1>19, <1>20, <1>21, <1>22, <1>23, <1>24,
     <1>25, <1>26, <1>27, <1>28, <1>29, <1>30, <1>31, <1>32, <1>33, <1>34, <1>35,
     <1>36, StepIs
  DEF Callers, MainStep, SftpStep, TunnelStep

\* The type invariant holds for every number of calls.
THEOREM TypeCorrect == Spec => []TypeOK
<1>1. Init => TypeOK
  BY EmptyQueue
  DEF Init, TypeOK, CallStates, MainStates, SftpStates, TunnelStates, Outcomes
<1> QED BY <1>1, TypeStep, PTL DEF Spec

-----------------------------------------------------------------------------
(* The conjuncts of Inv *)

\* The ranges of the variables that hold calls.
LEMMA Ranges ==
    ASSUME TypeOK
    PROVE  /\ call \in [Calls -> CallStates]
           /\ execs \subseteq ExecCalls
           /\ transferCancels \subseteq Transfers
           /\ tracked \subseteq Transfers
           /\ sftpCmd \in SftpCmds \cup {None}
           /\ main \in MainStates
           /\ sftp \in SftpStates
BY DEF TypeOK

\* Reporting an outcome makes the list of reports one longer.
LEMMA Reporting ==
    ASSUME TypeOK, NEW t \in Transfers, NEW o \in Outcomes,
           terminal' = [terminal EXCEPT ![t] = Append(@, o)]
    PROVE  /\ Len(terminal'[t]) = Len(terminal[t]) + 1
           /\ \A u \in Transfers \ {t} : terminal'[u] = terminal[u]
<1>1. terminal[t] \in Seq(Outcomes)
  BY DEF TypeOK
<1>2. Len(Append(terminal[t], o)) = Len(terminal[t]) + 1
  BY <1>1
<1> QED BY <1>2 DEF TypeOK

\* What fail_sftp_command does to a transfer, and leaves alone.
LEMMA Failing ==
    ASSUME TypeOK, NEW c \in SftpCmds, FailCommand(c)
    PROVE  /\ call' = [call EXCEPT ![c] = "err"]
           /\ tracked' = tracked \ {c}
           /\ c \in Transfers => Len(terminal'[c]) = Len(terminal[c]) + 1
           /\ \A t \in Transfers \ {c} : terminal'[t] = terminal[t]
<1>1. CASE c \in Transfers
  BY <1>1, Reporting DEF FailCommand, Outcomes
<1>2. CASE c \notin Transfers
  BY <1>2 DEF FailCommand
<1> QED BY <1>1, <1>2

LEMMA ReportStep ==
    ASSUME TypeOK, SftpReport
    PROVE  /\ Len(terminal'[sftpCmd]) = Len(terminal[sftpCmd]) + 1
           /\ \A t \in Transfers \ {sftpCmd} : terminal'[t] = terminal[t]
           /\ call' = call /\ tracked' = tracked /\ sftpCmd' = sftpCmd /\ sftp' = "emitted"
BY Reporting DEF SftpReport, jobVars

\* Commands move from channel to channel, they are never copied.
LEMMA HeldOnceStep == Inv /\ [Next]_vars => HeldOnce'
<1> SUFFICES ASSUME Inv, [Next]_vars PROVE HeldOnce'
  OBVIOUS
<1> USE Kinds, KindsDisjoint, ChannelContents DEF Inv, HeldOnce, HeldBySftp, userVars,
   mainVars, sftpVars, tunnelVars, jobVars
<1>1. ASSUME NEW c \in Calls \ Transfers, Send(c) PROVE HeldOnce'
  <2>1. c \notin ToSet(cmdq) \cup HeldBySftp \cup execs \cup ToSet(tunnelq)
    BY <1>1 DEF Send, WaitingIsHeld
  <2> QED BY <1>1, <2>1, CmdqSent DEF Send
<1>2. ASSUME NEW t \in Transfers, StartTransfer(t) PROVE HeldOnce'
  <2>1. t \notin ToSet(cmdq) \cup HeldBySftp \cup execs \cup ToSet(tunnelq)
    BY <1>2 DEF StartTransfer, WaitingIsHeld
  <2> QED BY <1>2, <2>1, CmdqSent DEF StartTransfer
<1>3. ASSUME Close PROVE HeldOnce'
  <2>1. Shutdown \notin ToSet(cmdq) \cup execs
    BY <1>3 DEF Close, ShutdownIsLast, TypeOK
  <2> QED BY <1>3, <2>1, CmdqSent DEF Close
<1>4. ASSUME RouteShell PROVE HeldOnce'
  BY <1>4, CmdqReceived DEF RouteShell, NextIn
<1>5. ASSUME RouteExec PROVE HeldOnce'
  BY <1>5, CmdqReceived DEF RouteExec, NextIn
<1>6. ASSUME RouteSftp PROVE HeldOnce'
  BY <1>6, CmdqReceived, SftpqSent DEF RouteSftp, NextIn
<1>7. ASSUME RouteTunnel PROVE HeldOnce'
  BY <1>7, CmdqReceived, TunnelqSent DEF RouteTunnel, NextIn
<1>8. ASSUME RouteShutdown PROVE HeldOnce'
  BY <1>8, CmdqReceived DEF RouteShutdown, NextIn
<1>9. ASSUME Poll PROVE HeldOnce'
  BY <1>9 DEF Poll
<1>10. ASSUME StopSftp PROVE HeldOnce'
  <2>1. Shutdown \notin ToSet(sftpq) /\ sftpCmd # Shutdown
    BY <1>10 DEF StopSftp, ShutdownIsLast, BeforeStopSftp, TypeOK
  <2> QED BY <1>10, <2>1, SftpqSent DEF StopSftp
<1>11. ASSUME JoinSftp PROVE HeldOnce'
  BY <1>11, EmptyQueue DEF JoinSftp
<1>12. ASSUME StopTunnel PROVE HeldOnce'
  <2>1. Shutdown \notin ToSet(tunnelq)
    BY <1>12 DEF StopTunnel, ShutdownIsLast
  <2> QED BY <1>12, <2>1, TunnelqSent DEF StopTunnel
<1>13. ASSUME JoinTunnel PROVE HeldOnce'
  BY <1>13, EmptyQueue DEF JoinTunnel
<1>14. ASSUME LeaveLoop PROVE HeldOnce'
  BY <1>14 DEF LeaveLoop
<1>15. ASSUME SftpTake PROVE HeldOnce'
  BY <1>15, SftpqReceived DEF SftpTake
<1>16. ASSUME SftpConnectFails PROVE HeldOnce'
  BY <1>16, NoneHeld DEF SftpConnectFails
<1>17. ASSUME SftpReply PROVE HeldOnce'
  BY <1>17, NoneHeld DEF SftpReply
<1>18. ASSUME SftpFinish PROVE HeldOnce'
  BY <1>18, NoneHeld DEF SftpFinish
<1>19. ASSUME SftpShutdown PROVE HeldOnce'
  BY <1>19, SftpqReceived DEF SftpShutdown
<1>20. ASSUME TunnelDiscard PROVE HeldOnce'
  BY <1>20, TunnelqReceived DEF TunnelDiscard
<1>21. ASSUME TunnelReply PROVE HeldOnce'
  BY <1>21, TunnelqReceived DEF TunnelReply
<1>22. ASSUME TunnelShutdown PROVE HeldOnce'
  BY <1>22, TunnelqReceived DEF TunnelShutdown
<1>23. CASE \/ Joined \/ Establish \/ Drained \/ CancelTransfers \/ EmitDisconnected \/
               SftpConnect \/ SftpReport \/ SftpKeepaliveFails \/ TunnelEstablish \/
               TunnelDiscarded \/ TunnelReturn
            \/ \E c \in Calls \ Transfers : GetSender(c)
            \/ \E t \in Transfers : CancelTransfer(t)
            \/ UNCHANGED sessionVars
  <2>1. UNCHANGED <<cmdq, sftpq, tunnelq, sftpCmd, execs>>
    BY <1>23 DEF sessionVars, GetSender, CancelTransfer, Joined, Establish, Drained,
       CancelTransfers, EmitDisconnected, SftpConnect, SftpReport, SftpKeepaliveFails,
       TunnelEstablish, TunnelDiscarded, TunnelReturn,
           FailCommand, userVars, mainVars, sftpVars, tunnelVars, jobVars
  <2> QED BY <2>1 DEF HeldOnce, Inv, HeldBySftp
<1> HIDE Kinds, KindsDisjoint, ChannelContents DEF Inv, HeldOnce, HeldBySftp, userVars, mainVars, sftpVars, tunnelVars, jobVars
<1> QED
  BY <1>1, <1>2, <1>3, <1>4, <1>5, <1>6, <1>7, <1>8, <1>9, <1>10, <1>11, <1>12, <1>13,
     <1>14, <1>15, <1>16, <1>17, <1>18, <1>19, <1>20, <1>21, <1>22, <1>23, StepIs
  DEF Callers, MainStep, SftpStep, TunnelStep

\* Whoever lets go of a command answers its caller or drops its reply sender.
LEMMA WaitingIsHeldStep == Inv /\ [Next]_vars => WaitingIsHeld'
<1> SUFFICES ASSUME Inv, [Next]_vars PROVE WaitingIsHeld'
  OBVIOUS
<1> USE Kinds, KindsDisjoint, ChannelContents, Ranges
    DEF Inv, HeldOnce, WaitingIsHeld, HeldBySftp, userVars, mainVars, sftpVars,
       tunnelVars, jobVars
<1>1. ASSUME NEW c \in Calls \ Transfers, GetSender(c) PROVE WaitingIsHeld'
  BY <1>1 DEF GetSender
<1>2. ASSUME NEW c \in Calls \ Transfers, Send(c) PROVE WaitingIsHeld'
  BY <1>2, CmdqSent DEF Send
<1>3. ASSUME NEW t \in Transfers, StartTransfer(t) PROVE WaitingIsHeld'
  BY <1>3, CmdqSent DEF StartTransfer
<1>4. ASSUME Close PROVE WaitingIsHeld'
  BY <1>4, CmdqSent DEF Close
<1>5. ASSUME RouteShell PROVE WaitingIsHeld'
  BY <1>5, CmdqReceived DEF RouteShell, NextIn
<1>6. ASSUME RouteExec PROVE WaitingIsHeld'
  BY <1>6, CmdqReceived DEF RouteExec, NextIn
<1>7. ASSUME RouteSftp PROVE WaitingIsHeld'
  BY <1>7, CmdqReceived, SftpqSent DEF RouteSftp, NextIn, FailCommand
<1>8. ASSUME RouteTunnel PROVE WaitingIsHeld'
  BY <1>8, CmdqReceived, TunnelqSent DEF RouteTunnel, NextIn, FailCommand
<1>9. ASSUME RouteShutdown PROVE WaitingIsHeld'
  BY <1>9, CmdqReceived DEF RouteShutdown, NextIn
<1>10. ASSUME Poll PROVE WaitingIsHeld'
  BY <1>10 DEF Poll
<1>11. ASSUME StopSftp PROVE WaitingIsHeld'
  BY <1>11, SftpqSent DEF StopSftp
<1>12. ASSUME JoinSftp PROVE WaitingIsHeld'
  BY <1>12, EmptyQueue DEF JoinSftp, DropReplies, ShutdownIsLast
<1>13. ASSUME StopTunnel PROVE WaitingIsHeld'
  BY <1>13, TunnelqSent DEF StopTunnel
<1>14. ASSUME JoinTunnel PROVE WaitingIsHeld'
  BY <1>14, EmptyQueue DEF JoinTunnel, DropReplies
<1>15. ASSUME LeaveLoop PROVE WaitingIsHeld'
  BY <1>15 DEF LeaveLoop, DropReplies
<1>16. ASSUME SftpTake PROVE WaitingIsHeld'
  BY <1>16, SftpqReceived DEF SftpTake, SftpBusy
<1>17. ASSUME SftpConnectFails PROVE WaitingIsHeld'
  BY <1>17 DEF SftpConnectFails, FailCommand, SftpBusy
<1>18. ASSUME SftpReply PROVE WaitingIsHeld'
  BY <1>18 DEF SftpReply, SftpBusy
<1>19. ASSUME SftpFinish PROVE WaitingIsHeld'
  BY <1>19 DEF SftpFinish, SftpBusy
<1>20. ASSUME SftpShutdown PROVE WaitingIsHeld'
  BY <1>20, SftpqReceived DEF SftpShutdown
<1>21. ASSUME TunnelDiscard PROVE WaitingIsHeld'
  BY <1>21, TunnelqReceived DEF TunnelDiscard, DropReplies
<1>22. ASSUME TunnelReply PROVE WaitingIsHeld'
  BY <1>22, TunnelqReceived DEF TunnelReply
<1>23. ASSUME TunnelShutdown PROVE WaitingIsHeld'
  BY <1>23, TunnelqReceived DEF TunnelShutdown
<1>24. CASE \/ Joined \/ Establish \/ Drained \/ CancelTransfers \/ EmitDisconnected \/
               SftpConnect \/ SftpReport \/ SftpKeepaliveFails \/ TunnelEstablish \/
               TunnelDiscarded \/ TunnelReturn
            \/ \E t \in Transfers : CancelTransfer(t)
            \/ UNCHANGED sessionVars
  <2>1. UNCHANGED <<call, cmdq, sftpq, tunnelq, sftpCmd, execs>>
    BY <1>24 DEF sessionVars, CancelTransfer, Joined, Establish, Drained, CancelTransfers,
       EmitDisconnected, SftpConnect, SftpReport, SftpKeepaliveFails, TunnelEstablish,
       TunnelDiscarded, TunnelReturn,
           FailCommand, userVars, mainVars, sftpVars, tunnelVars, jobVars
  <2> QED BY <2>1 DEF WaitingIsHeld, Inv, HeldBySftp
<1> HIDE Kinds, KindsDisjoint, ChannelContents, Ranges
    DEF Inv, HeldOnce, WaitingIsHeld, HeldBySftp, userVars, mainVars, sftpVars,
       tunnelVars, jobVars
<1> QED
  BY <1>1, <1>2, <1>3, <1>4, <1>5, <1>6, <1>7, <1>8, <1>9, <1>10, <1>11, <1>12, <1>13,
     <1>14, <1>15, <1>16, <1>17, <1>18, <1>19, <1>20, <1>21, <1>22, <1>23, <1>24, StepIs
  DEF Callers, MainStep, SftpStep, TunnelStep

\* Shutdown is sent once on each channel, after the commands routed there.
LEMMA ShutdownIsLastStep == Inv /\ [Next]_vars => ShutdownIsLast'
<1> SUFFICES ASSUME Inv, [Next]_vars PROVE ShutdownIsLast'
  OBVIOUS
<1> USE Kinds
    DEF Inv, HeldOnce, ShutdownIsLast, BeforeStopSftp, userVars, mainVars, sftpVars,
       tunnelVars, jobVars
<1>1. ASSUME NEW c \in Calls \ Transfers, Send(c) PROVE ShutdownIsLast'
  BY <1>1, CmdqSent DEF Send
<1>2. ASSUME NEW t \in Transfers, StartTransfer(t) PROVE ShutdownIsLast'
  BY <1>2, CmdqSent DEF StartTransfer
<1>3. ASSUME Close PROVE ShutdownIsLast'
  BY <1>3 DEF Close
<1>4. ASSUME Establish PROVE ShutdownIsLast'
  BY <1>4 DEF Establish
<1>5. ASSUME RouteShell PROVE ShutdownIsLast'
  BY <1>5, CmdqReceived DEF RouteShell, NextIn
<1>6. ASSUME RouteExec PROVE ShutdownIsLast'
  BY <1>6, CmdqReceived DEF RouteExec, NextIn
<1>7. ASSUME RouteSftp PROVE ShutdownIsLast'
  BY <1>7, CmdqReceived, SftpqSent DEF RouteSftp, NextIn
<1>8. ASSUME RouteTunnel PROVE ShutdownIsLast'
  BY <1>8, CmdqReceived, TunnelqSent DEF RouteTunnel, NextIn
<1>9. ASSUME RouteShutdown PROVE ShutdownIsLast'
  BY <1>9, CmdqReceived DEF RouteShutdown, NextIn
<1>10. ASSUME Drained PROVE ShutdownIsLast'
  BY <1>10 DEF Drained
<1>11. ASSUME Poll PROVE ShutdownIsLast'
  BY <1>11 DEF Poll
<1>12. ASSUME CancelTransfers PROVE ShutdownIsLast'
  BY <1>12 DEF CancelTransfers
<1>13. ASSUME StopSftp PROVE ShutdownIsLast'
  BY <1>13, SftpqSent DEF StopSftp
<1>14. ASSUME JoinSftp PROVE ShutdownIsLast'
  BY <1>14, EmptyQueue DEF JoinSftp
<1>15. ASSUME StopTunnel PROVE ShutdownIsLast'
  BY <1>15, TunnelqSent DEF StopTunnel
<1>16. ASSUME JoinTunnel PROVE ShutdownIsLast'
  BY <1>16, EmptyQueue DEF JoinTunnel
<1>17. ASSUME LeaveLoop PROVE ShutdownIsLast'
  BY <1>17 DEF LeaveLoop
<1>18. ASSUME EmitDisconnected PROVE ShutdownIsLast'
  BY <1>18 DEF EmitDisconnected
<1>19. ASSUME SftpTake PROVE ShutdownIsLast'
  BY <1>19, SftpqReceived, EmptyQueue DEF SftpTake
<1>20. ASSUME SftpConnect PROVE ShutdownIsLast'
  BY <1>20 DEF SftpConnect
<1>21. ASSUME SftpConnectFails PROVE ShutdownIsLast'
  BY <1>21 DEF SftpConnectFails
<1>22. ASSUME SftpReply PROVE ShutdownIsLast'
  BY <1>22 DEF SftpReply
<1>23. ASSUME SftpReport PROVE ShutdownIsLast'
  BY <1>23 DEF SftpReport
<1>24. ASSUME SftpFinish PROVE ShutdownIsLast'
  BY <1>24 DEF SftpFinish
<1>25. ASSUME SftpShutdown PROVE ShutdownIsLast'
  BY <1>25, SftpqReceived, EmptyQueue DEF SftpShutdown
<1>26. ASSUME TunnelDiscard PROVE ShutdownIsLast'
  BY <1>26, TunnelqReceived DEF TunnelDiscard
<1>27. ASSUME TunnelReply PROVE ShutdownIsLast'
  BY <1>27, TunnelqReceived DEF TunnelReply
<1>28. ASSUME TunnelShutdown PROVE ShutdownIsLast'
  BY <1>28, TunnelqReceived DEF TunnelShutdown
<1>29. CASE \/ Joined \/ SftpKeepaliveFails \/ TunnelEstablish \/ TunnelDiscarded \/
               TunnelReturn
            \/ \E c \in Calls \ Transfers : GetSender(c)
            \/ \E t \in Transfers : CancelTransfer(t)
            \/ UNCHANGED sessionVars
  <2>1. UNCHANGED <<handle, cmdq, main, sftp, sftpq, tunnelq>>
    BY <1>29 DEF sessionVars, GetSender, CancelTransfer, Joined, SftpKeepaliveFails,
       TunnelEstablish, TunnelDiscarded, TunnelReturn,
           FailCommand, userVars, mainVars, sftpVars, tunnelVars, jobVars
  <2> QED BY <2>1 DEF ShutdownIsLast, Inv
<1> HIDE Kinds
    DEF Inv, HeldOnce, ShutdownIsLast, BeforeStopSftp, userVars, mainVars, sftpVars,
       tunnelVars, jobVars
<1> QED
  BY <1>1, <1>2, <1>3, <1>4, <1>5, <1>6, <1>7, <1>8, <1>9, <1>10, <1>11, <1>12, <1>13,
     <1>14, <1>15, <1>16, <1>17, <1>18, <1>19, <1>20, <1>21, <1>22, <1>23, <1>24,
     <1>25, <1>26, <1>27, <1>28, <1>29, StepIs
  DEF Callers, MainStep, SftpStep, TunnelStep

\* The sub-worker has a command in hand from SftpTake to its answer.
LEMMA SftpBusyStep == Inv /\ [Next]_vars => SftpBusy'
<1> SUFFICES ASSUME Inv, [Next]_vars PROVE SftpBusy'
  OBVIOUS
<1> USE Kinds DEF Inv, HeldOnce, SftpBusy, userVars, mainVars, sftpVars, tunnelVars,
   jobVars
<1>1. ASSUME RouteSftp PROVE SftpBusy'
  BY <1>1, CmdqReceived, SftpqSent DEF RouteSftp, NextIn
<1>2. ASSUME StopSftp PROVE SftpBusy'
  BY <1>2, SftpqSent DEF StopSftp
<1>3. ASSUME JoinSftp PROVE SftpBusy'
  BY <1>3 DEF JoinSftp
<1>4. ASSUME SftpTake PROVE SftpBusy'
  BY <1>4, SftpqReceived DEF SftpTake
<1>5. ASSUME SftpConnect PROVE SftpBusy'
  BY <1>5 DEF SftpConnect
<1>6. ASSUME SftpConnectFails PROVE SftpBusy'
  BY <1>6 DEF SftpConnectFails
<1>7. ASSUME SftpReply PROVE SftpBusy'
  BY <1>7 DEF SftpReply
<1>8. ASSUME SftpReport PROVE SftpBusy'
  BY <1>8 DEF SftpReport
<1>9. ASSUME SftpFinish PROVE SftpBusy'
  BY <1>9 DEF SftpFinish
<1>10. ASSUME SftpShutdown PROVE SftpBusy'
  BY <1>10 DEF SftpShutdown
<1>11. CASE \/ Close \/ Joined \/ Establish \/ RouteShell \/ RouteExec \/ RouteTunnel
               \/ RouteShutdown \/ Drained \/ Poll \/ CancelTransfers \/ StopTunnel \/
               JoinTunnel \/ LeaveLoop \/ EmitDisconnected \/ SftpKeepaliveFails \/
               TunnelEstablish \/ TunnelDiscard \/ TunnelDiscarded \/ TunnelReturn \/
               TunnelReply \/ TunnelShutdown
            \/ \E c \in Calls \ Transfers : GetSender(c)
            \/ \E c \in Calls \ Transfers : Send(c)
            \/ \E t \in Transfers : StartTransfer(t)
            \/ \E t \in Transfers : CancelTransfer(t)
            \/ UNCHANGED sessionVars
  <2>1. UNCHANGED <<sftp, sftpq, sftpCmd>>
    BY <1>11 DEF sessionVars, GetSender, Send, StartTransfer, CancelTransfer, Close, Joined,
       Establish, RouteShell, RouteExec, RouteTunnel, RouteShutdown, Drained, Poll,
       CancelTransfers, StopTunnel, JoinTunnel, LeaveLoop, EmitDisconnected,
       SftpKeepaliveFails, TunnelEstablish, TunnelDiscard, TunnelDiscarded,
       TunnelReturn, TunnelReply, TunnelShutdown,
           FailCommand, userVars, mainVars, sftpVars, tunnelVars, jobVars
  <2> QED BY <2>1 DEF SftpBusy, Inv
<1> HIDE Kinds DEF Inv, HeldOnce, SftpBusy, userVars, mainVars, sftpVars, tunnelVars, jobVars
<1> QED
  BY <1>1, <1>2, <1>3, <1>4, <1>5, <1>6, <1>7, <1>8, <1>9, <1>10, <1>11, StepIs
  DEF Callers, MainStep, SftpStep, TunnelStep

\* A transfer is registered with its command, and finished with its answer.
LEMMA TrackedUntilAnsweredStep == Inv /\ [Next]_vars => TrackedUntilAnswered'
<1> SUFFICES ASSUME Inv, [Next]_vars PROVE TrackedUntilAnswered'
  OBVIOUS
<1> USE Kinds, KindsDisjoint, ChannelContents, Ranges
    DEF Inv, TrackedUntilAnswered, userVars, mainVars, sftpVars, tunnelVars, jobVars
<1>1. ASSUME NEW c \in Calls \ Transfers, GetSender(c) PROVE TrackedUntilAnswered'
  BY <1>1 DEF GetSender
<1>2. ASSUME NEW c \in Calls \ Transfers, Send(c) PROVE TrackedUntilAnswered'
  BY <1>2 DEF Send
<1>3. ASSUME NEW t \in Transfers, StartTransfer(t) PROVE TrackedUntilAnswered'
  BY <1>3 DEF StartTransfer
<1>4. ASSUME RouteShell PROVE TrackedUntilAnswered'
  BY <1>4 DEF RouteShell, NextIn
<1>5. ASSUME RouteExec PROVE TrackedUntilAnswered'
  BY <1>5 DEF RouteExec, NextIn
<1>6. ASSUME RouteSftp PROVE TrackedUntilAnswered'
  <2>1. Head(cmdq) \in Calls /\ call[Head(cmdq)] = "waiting"
    BY <1>6, CmdqReceived DEF RouteSftp, NextIn, WaitingIsHeld, HeldOnce
  <2> QED BY <1>6, <2>1, Failing DEF RouteSftp, NextIn
<1>7. ASSUME RouteTunnel PROVE TrackedUntilAnswered'
  BY <1>7 DEF RouteTunnel, NextIn, FailCommand
<1>8. ASSUME Poll PROVE TrackedUntilAnswered'
  BY <1>8 DEF Poll
<1>9. ASSUME JoinSftp PROVE TrackedUntilAnswered'
  BY <1>9, EmptyQueue DEF JoinSftp, DropReplies, ShutdownIsLast
<1>10. ASSUME JoinTunnel PROVE TrackedUntilAnswered'
  BY <1>10 DEF JoinTunnel, DropReplies
<1>11. ASSUME LeaveLoop PROVE TrackedUntilAnswered'
  BY <1>11 DEF LeaveLoop, DropReplies
<1>12. ASSUME SftpTake PROVE TrackedUntilAnswered'
  BY <1>12 DEF SftpTake
<1>13. ASSUME SftpConnect PROVE TrackedUntilAnswered'
  BY <1>13 DEF SftpConnect
<1>14. ASSUME SftpConnectFails PROVE TrackedUntilAnswered'
  <2>1. sftpCmd \in SftpCmds /\ call[sftpCmd] = "waiting"
    BY <1>14 DEF SftpConnectFails, WaitingIsHeld, HeldBySftp, SftpBusy
  <2>2. FailCommand(sftpCmd) /\ sftp = "connect" /\ sftp' = "idle"
    BY <1>14 DEF SftpConnectFails
  <2> QED BY <2>1, <2>2, Failing
<1>15. ASSUME SftpReply PROVE TrackedUntilAnswered'
  BY <1>15 DEF SftpReply, SftpBusy
<1>16. ASSUME SftpReport PROVE TrackedUntilAnswered'
  <2>1. call[sftpCmd] = "waiting"
    BY <1>16 DEF SftpReport, WaitingIsHeld, HeldBySftp
  <2>2. sftpCmd \in Transfers /\ sftp = "run"
    BY <1>16 DEF SftpReport
  <2> QED BY <1>16, <2>1, <2>2, ReportStep
<1>17. ASSUME SftpFinish PROVE TrackedUntilAnswered'
  <2>1. sftpCmd \in Transfers
    BY <1>17 DEF SftpFinish, SftpBusy
  <2> QED BY <1>17, <2>1 DEF SftpFinish
<1>18. ASSUME SftpShutdown PROVE TrackedUntilAnswered'
  BY <1>18 DEF SftpShutdown
<1>19. ASSUME TunnelDiscard PROVE TrackedUntilAnswered'
  BY <1>19, TunnelqReceived DEF TunnelDiscard, DropReplies, HeldOnce
<1>20. ASSUME TunnelReply PROVE TrackedUntilAnswered'
  BY <1>20, TunnelqReceived DEF TunnelReply, HeldOnce
<1>21. CASE \/ Close \/ Joined \/ Establish \/ RouteShutdown \/ Drained \/
               CancelTransfers \/ StopSftp \/ StopTunnel \/ EmitDisconnected \/
               SftpKeepaliveFails \/ TunnelEstablish \/ TunnelDiscarded \/ TunnelReturn
               \/ TunnelShutdown
            \/ \E t \in Transfers : CancelTransfer(t)
            \/ UNCHANGED sessionVars
  <2>1. UNCHANGED <<call, tracked, terminal, sftp, sftpCmd>>
    BY <1>21 DEF sessionVars, CancelTransfer, Close, Joined, Establish, RouteShutdown,
       Drained, CancelTransfers, StopSftp, StopTunnel, EmitDisconnected,
       SftpKeepaliveFails, TunnelEstablish, TunnelDiscarded, TunnelReturn,
       TunnelShutdown,
           FailCommand, userVars, mainVars, sftpVars, tunnelVars, jobVars
  <2> QED BY <2>1 DEF TrackedUntilAnswered, Inv
<1> HIDE Kinds, KindsDisjoint, ChannelContents, Ranges
    DEF Inv, TrackedUntilAnswered, userVars, mainVars, sftpVars, tunnelVars, jobVars
<1> QED
  BY <1>1, <1>2, <1>3, <1>4, <1>5, <1>6, <1>7, <1>8, <1>9, <1>10, <1>11, <1>12, <1>13,
     <1>14, <1>15, <1>16, <1>17, <1>18, <1>19, <1>20, <1>21, StepIs
  DEF Callers, MainStep, SftpStep, TunnelStep

\* Pruning the map of flags never forgets a transfer that still has to run.
LEMMA FlagsRememberedStep == Inv /\ [Next]_vars => FlagsRemembered'
<1> SUFFICES ASSUME Inv, [Next]_vars PROVE FlagsRemembered'
  OBVIOUS
<1> USE Kinds, Ranges
    DEF Inv, HeldOnce, FlagsRemembered, HeldBySftp, AfterCancel, userVars, mainVars,
       sftpVars, tunnelVars, jobVars
<1>1. ASSUME NEW t \in Transfers, CancelTransfer(t) PROVE FlagsRemembered'
  BY <1>1 DEF CancelTransfer
<1>2. ASSUME Establish PROVE FlagsRemembered'
  BY <1>2 DEF Establish
<1>3. ASSUME RouteSftp PROVE FlagsRemembered'
  <2>1. Head(cmdq) \in SftpCmds /\ call[Head(cmdq)] = "waiting"
    BY <1>3, CmdqReceived DEF RouteSftp, NextIn, WaitingIsHeld
  <2>2. ({Head(cmdq)} \cup HeldBySftp) \cap Transfers \subseteq tracked
    BY <2>1 DEF WaitingIsHeld, TrackedUntilAnswered
  <2>3. HeldBySftp' \subseteq HeldBySftp \cup {Head(cmdq)}
    BY <1>3, <2>1, SftpqSent DEF RouteSftp, NextIn
  <2>4. transferCancels' = RememberCancel(Head(cmdq)) /\ main = "drain" /\ main' = main
    BY <1>3 DEF RouteSftp, NextIn
  <2> QED BY <2>2, <2>3, <2>4 DEF RememberCancel
<1>4. ASSUME RouteShutdown PROVE FlagsRemembered'
  BY <1>4 DEF RouteShutdown
<1>5. ASSUME Drained PROVE FlagsRemembered'
  BY <1>5 DEF Drained
<1>6. ASSUME Poll PROVE FlagsRemembered'
  BY <1>6 DEF Poll
<1>7. ASSUME CancelTransfers PROVE FlagsRemembered'
  BY <1>7 DEF CancelTransfers
<1>8. ASSUME StopSftp PROVE FlagsRemembered'
  BY <1>8, SftpqSent DEF StopSftp
<1>9. ASSUME JoinSftp PROVE FlagsRemembered'
  BY <1>9, EmptyQueue DEF JoinSftp, ShutdownIsLast
<1>10. ASSUME StopTunnel PROVE FlagsRemembered'
  BY <1>10 DEF StopTunnel
<1>11. ASSUME JoinTunnel PROVE FlagsRemembered'
  BY <1>11 DEF JoinTunnel
<1>12. ASSUME LeaveLoop PROVE FlagsRemembered'
  BY <1>12 DEF LeaveLoop
<1>13. ASSUME EmitDisconnected PROVE FlagsRemembered'
  BY <1>13 DEF EmitDisconnected
<1>14. ASSUME SftpTake PROVE FlagsRemembered'
  BY <1>14, SftpqReceived DEF SftpTake
<1>15. ASSUME SftpConnectFails PROVE FlagsRemembered'
  BY <1>15 DEF SftpConnectFails, FailCommand
<1>16. ASSUME SftpReply PROVE FlagsRemembered'
  BY <1>16 DEF SftpReply
<1>17. ASSUME SftpFinish PROVE FlagsRemembered'
  BY <1>17 DEF SftpFinish
<1>18. ASSUME SftpShutdown PROVE FlagsRemembered'
  BY <1>18, SftpqReceived DEF SftpShutdown
<1>19. CASE \/ Close \/ Joined \/ RouteShell \/ RouteExec \/ RouteTunnel \/ SftpConnect
               \/ SftpReport \/ SftpKeepaliveFails \/ TunnelEstablish \/ TunnelDiscard
               \/ TunnelDiscarded \/ TunnelReturn \/ TunnelReply \/ TunnelShutdown
            \/ \E c \in Calls \ Transfers : GetSender(c)
            \/ \E c \in Calls \ Transfers : Send(c)
            \/ \E t \in Transfers : StartTransfer(t)
            \/ UNCHANGED sessionVars
  <2>1. UNCHANGED <<main, sftpq, sftpCmd, transferCancels, cancelled>>
    BY <1>19 DEF sessionVars, GetSender, Send, StartTransfer, Close, Joined, RouteShell,
       RouteExec, RouteTunnel, SftpConnect, SftpReport, SftpKeepaliveFails,
       TunnelEstablish, TunnelDiscard, TunnelDiscarded, TunnelReturn, TunnelReply,
       TunnelShutdown,
           FailCommand, userVars, mainVars, sftpVars, tunnelVars, jobVars
  <2> QED BY <2>1 DEF FlagsRemembered, Inv, HeldBySftp
<1> HIDE Kinds, Ranges
    DEF Inv, HeldOnce, FlagsRemembered, HeldBySftp, AfterCancel, userVars, mainVars,
       sftpVars, tunnelVars, jobVars
<1> QED
  BY <1>1, <1>2, <1>3, <1>4, <1>5, <1>6, <1>7, <1>8, <1>9, <1>10, <1>11, <1>12, <1>13,
     <1>14, <1>15, <1>16, <1>17, <1>18, <1>19, StepIs
  DEF Callers, MainStep, SftpStep, TunnelStep

\* The worker joins the SFTP sub-worker, then the tunnel sub-worker, then reports.
LEMMA JoinOrderStep == Inv /\ [Next]_vars => JoinOrder'
<1> SUFFICES ASSUME Inv, [Next]_vars PROVE JoinOrder'
  OBVIOUS
<1> USE DEF Inv, JoinOrder, userVars, mainVars, sftpVars, tunnelVars, jobVars
<1>1. ASSUME Establish PROVE JoinOrder'
  BY <1>1 DEF Establish
<1>2. ASSUME RouteSftp PROVE JoinOrder'
  BY <1>2 DEF RouteSftp, NextIn
<1>3. ASSUME RouteTunnel PROVE JoinOrder'
  BY <1>3 DEF RouteTunnel, NextIn
<1>4. ASSUME RouteShutdown PROVE JoinOrder'
  BY <1>4 DEF RouteShutdown, NextIn
<1>5. ASSUME Drained PROVE JoinOrder'
  BY <1>5 DEF Drained
<1>6. ASSUME Poll PROVE JoinOrder'
  BY <1>6 DEF Poll
<1>7. ASSUME CancelTransfers PROVE JoinOrder'
  BY <1>7 DEF CancelTransfers
<1>8. ASSUME StopSftp PROVE JoinOrder'
  BY <1>8 DEF StopSftp
<1>9. ASSUME JoinSftp PROVE JoinOrder'
  BY <1>9 DEF JoinSftp
<1>10. ASSUME StopTunnel PROVE JoinOrder'
  BY <1>10 DEF StopTunnel
<1>11. ASSUME JoinTunnel PROVE JoinOrder'
  BY <1>11 DEF JoinTunnel
<1>12. ASSUME LeaveLoop PROVE JoinOrder'
  BY <1>12 DEF LeaveLoop
<1>13. ASSUME EmitDisconnected PROVE JoinOrder'
  BY <1>13 DEF EmitDisconnected
<1>14. ASSUME SftpTake PROVE JoinOrder'
  BY <1>14 DEF SftpTake
<1>15. ASSUME SftpConnect PROVE JoinOrder'
  BY <1>15 DEF SftpConnect
<1>16. ASSUME SftpConnectFails PROVE JoinOrder'
  BY <1>16 DEF SftpConnectFails
<1>17. ASSUME SftpReply PROVE JoinOrder'
  BY <1>17 DEF SftpReply
<1>18. ASSUME SftpReport PROVE JoinOrder'
  BY <1>18 DEF SftpReport
<1>19. ASSUME SftpFinish PROVE JoinOrder'
  BY <1>19 DEF SftpFinish
<1>20. ASSUME SftpShutdown PROVE JoinOrder'
  BY <1>20 DEF SftpShutdown
<1>21. ASSUME TunnelEstablish PROVE JoinOrder'
  BY <1>21 DEF TunnelEstablish
<1>22. ASSUME TunnelDiscarded PROVE JoinOrder'
  BY <1>22 DEF TunnelDiscarded
<1>23. ASSUME TunnelReturn PROVE JoinOrder'
  BY <1>23 DEF TunnelReturn
<1>24. ASSUME TunnelShutdown PROVE JoinOrder'
  BY <1>24 DEF TunnelShutdown
<1>25. CASE \/ Close \/ Joined \/ RouteShell \/ RouteExec \/ SftpKeepaliveFails \/
               TunnelDiscard \/ TunnelReply
            \/ \E c \in Calls \ Transfers : GetSender(c)
            \/ \E c \in Calls \ Transfers : Send(c)
            \/ \E t \in Transfers : StartTransfer(t)
            \/ \E t \in Transfers : CancelTransfer(t)
            \/ UNCHANGED sessionVars
  <2>1. UNCHANGED <<main, sftp, tunnel, disconnected>>
    BY <1>25 DEF sessionVars, GetSender, Send, StartTransfer, CancelTransfer, Close, Joined,
       RouteShell, RouteExec, SftpKeepaliveFails, TunnelDiscard, TunnelReply,
           FailCommand, userVars, mainVars, sftpVars, tunnelVars, jobVars
  <2> QED BY <2>1 DEF JoinOrder, Inv
<1> HIDE DEF Inv, JoinOrder, userVars, mainVars, sftpVars, tunnelVars, jobVars
<1> QED
  BY <1>1, <1>2, <1>3, <1>4, <1>5, <1>6, <1>7, <1>8, <1>9, <1>10, <1>11, <1>12, <1>13,
     <1>14, <1>15, <1>16, <1>17, <1>18, <1>19, <1>20, <1>21, <1>22, <1>23, <1>24,
     <1>25, StepIs
  DEF Callers, MainStep, SftpStep, TunnelStep

-----------------------------------------------------------------------------
(* Safety *)

\* Inv is inductive and holds for any numbers of calls of each kind.
THEOREM InvCorrect == Spec => []Inv
<1>1. Init => Inv
  <2> SUFFICES ASSUME Init PROVE Inv
    OBVIOUS
  <2>1. TypeOK
    BY EmptyQueue
    DEF Init, TypeOK, CallStates, MainStates, SftpStates, TunnelStates, Outcomes
  <2>2. HeldOnce /\ WaitingIsHeld
    BY EmptyQueue, Kinds DEF Init, HeldOnce, WaitingIsHeld, HeldBySftp
  <2>3. ShutdownIsLast /\ SftpBusy
    BY EmptyQueue DEF Init, ShutdownIsLast, SftpBusy, BeforeStopSftp
  <2>4. TrackedUntilAnswered
    BY Kinds DEF Init, TrackedUntilAnswered
  <2>5. FlagsRemembered /\ JoinOrder
    BY EmptyQueue, Kinds DEF Init, FlagsRemembered, HeldBySftp, AfterCancel, JoinOrder
  <2> QED BY <2>1, <2>2, <2>3, <2>4, <2>5 DEF Inv
<1>2. Inv /\ [Next]_vars => Inv'
  <2> SUFFICES ASSUME Inv, [Next]_vars PROVE Inv'
    OBVIOUS
  <2>1. TypeOK'
    BY TypeStep DEF Inv
  <2>2. /\ HeldOnce' /\ WaitingIsHeld' /\ ShutdownIsLast' /\ SftpBusy'
        /\ TrackedUntilAnswered' /\ FlagsRemembered' /\ JoinOrder'
    BY HeldOnceStep, WaitingIsHeldStep, ShutdownIsLastStep, SftpBusyStep,
       TrackedUntilAnsweredStep, FlagsRememberedStep, JoinOrderStep
  <2> QED BY <2>1, <2>2 DEF Inv
<1> QED BY <1>1, <1>2, PTL DEF Spec

\* No command is ever in two places: route_cmd moves commands between the
\* threads of a session without duplicating them.
THEOREM HeldOnceCorrect == Spec => []HeldOnce
<1>1. Inv => HeldOnce
  BY DEF Inv
<1> QED BY <1>1, InvCorrect, PTL

\* A caller of session_cmd waits exactly while some thread or channel holds
\* its command.
THEOREM WaitingCorrect == Spec => []WaitingIsHeld
<1>1. Inv => WaitingIsHeld
  BY DEF Inv
<1> QED BY <1>1, InvCorrect, PTL

\* When the session worker goes on to stop the SFTP sub-worker, the cancel flag
\* of every transfer that is left is set, so that the join is prompt.
THEOREM CancelCorrect == Spec => []TeardownCancelsTransfers
<1>1. Inv => TeardownCancelsTransfers
  BY DEF Inv, TypeOK, MainStates, FlagsRemembered, AfterCancel, TeardownCancelsTransfers
<1> QED BY <1>1, InvCorrect, PTL

\* The UI is told once how a transfer ended, before the transfer is forgotten.
THEOREM ReportedCorrect == Spec => []ReportedOnce
<1>1. Inv => ReportedOnce
  <2> SUFFICES ASSUME Inv, NEW t \in Transfers
               PROVE  /\ Len(terminal[t]) <= 1
                      /\ (call[t] \in {"ok", "err", "waiting"} /\ t \notin tracked)
                             => Len(terminal[t]) = 1
    BY DEF ReportedOnce
  <2>1. Len(terminal[t]) = 0 \/ Len(terminal[t]) = 1
    BY DEF Inv, TrackedUntilAnswered
  <2>2. \A n : (n = 0 \/ n = 1) => n <= 1
    OBVIOUS
  <2>3. Len(terminal[t]) <= 1
    BY <2>1, <2>2
  <2>4. call[t] \in {"ok", "err", "waiting"} /\ t \notin tracked => Len(terminal[t]) = 1
    BY DEF Inv, TrackedUntilAnswered
  <2> QED BY <2>3, <2>4
<1> QED BY <1>1, InvCorrect, PTL

\* Disconnected is emitted after both sub-workers have been joined.
THEOREM JoinedCorrect == Spec => []JoinedBeforeDisconnected
<1>1. Inv => JoinedBeforeDisconnected
  BY DEF Inv, JoinOrder, JoinedBeforeDisconnected
<1> QED BY <1>1, InvCorrect, PTL

\* After Disconnected only callers take steps: no transfer event is sent any
\* more and no waiting caller is answered.
THEOREM QuietCorrect == Spec => QuietAfterDisconnected
<1> DEFINE Quiet == /\ terminal' = terminal
                    /\ \A c \in Calls : call[c] = "waiting" => call'[c] = "waiting"
<1>1. Inv /\ [Next]_vars => (disconnected => Quiet) \/ UNCHANGED sessionVars
  <2> SUFFICES ASSUME Inv, [Next]_vars, disconnected, ~ UNCHANGED sessionVars PROVE Quiet
    OBVIOUS
  <2>1. main = "exited" /\ sftp \in {"none", "exited"} /\ tunnel \in {"none", "exited"}
    BY DEF Inv, JoinOrder
  <2>2. ~MainStep
    BY <2>1 DEF MainStep, Establish, NextIn, RouteShell, RouteExec, RouteSftp, RouteTunnel,
      RouteShutdown, Drained, Poll, CancelTransfers, StopSftp, JoinSftp, StopTunnel,
      JoinTunnel, LeaveLoop, EmitDisconnected
  <2>3. ~(SftpStep \/ SftpKeepaliveFails)
    BY <2>1 DEF SftpStep, SftpTake, SftpConnect, SftpConnectFails, SftpReply, SftpReport,
      SftpFinish, SftpShutdown, SftpKeepaliveFails
  <2>4. ~TunnelStep
    BY <2>1 DEF TunnelStep, TunnelEstablish, TunnelDiscard, TunnelDiscarded, TunnelReturn,
      TunnelReply, TunnelShutdown
  <2>5. Callers
    BY <2>2, <2>3, <2>4, StepIs
  <2>6. call \in [Calls -> CallStates]
    BY DEF Inv, TypeOK
  <2>7. ASSUME NEW c \in Calls, GetSender(c) \/ Send(c) PROVE Quiet
    BY <2>6, <2>7 DEF GetSender, Send, jobVars
  <2>8. ASSUME NEW t \in Transfers, StartTransfer(t) \/ CancelTransfer(t) PROVE Quiet
    BY <2>6, <2>8, Kinds DEF StartTransfer, CancelTransfer
  <2>9. CASE Close \/ Joined
    BY <2>9 DEF Close, Joined, jobVars
  <2> QED BY <2>5, <2>7, <2>8, <2>9 DEF Callers
<1>2. Inv /\ [Next]_vars => [disconnected => Quiet]_vars
  <2>1. UNCHANGED sessionVars => Quiet
    BY DEF sessionVars
  <2> QED BY <1>1, <2>1
<1> QED BY <1>2, InvCorrect, PTL DEF Spec, QuietAfterDisconnected

-----------------------------------------------------------------------------
(* The refinement: SessionWorker implements TransferJob.  What its threads  *)
(* and queues do to the transfers of a session is what TransferJob promises. *)

\* The abstract state of the transfers.
JobView == [t \in Transfers |-> JobState(t)]

\* A step that reports nothing and neither issues nor refuses transfer t.
SameJob(t) ==
    /\ terminal'[t] = terminal[t]
    /\ call[t] \in {"idle", "refused"} \/ call'[t] \in {"idle", "refused"} => call'[t] = call[t]

-----------------------------------------------------------------------------
(* The abstract state *)

\* What JobState says of a transfer in a state that satisfies Inv.
LEMMA JobStates ==
    ASSUME Inv, NEW t \in Transfers
    PROVE  /\ call[t] = "idle" => JobState(t) = "new"
           /\ call[t] # "idle" => JobState(t) \in {"refused", "accepted"} \cup Outcomes
           /\ call[t] = "waiting" /\ Len(terminal[t]) = 0 => JobState(t) = "accepted"
<1>1. Len(terminal[t]) = 0 \/ Len(terminal[t]) = 1
  BY DEF Inv, TrackedUntilAnswered
<1>2. terminal[t] \in Seq(Outcomes)
  BY DEF Inv, TypeOK
<1>3. Len(terminal[t]) = 1 => terminal[t][1] \in Outcomes
  BY <1>2
<1> QED BY <1>1, <1>3 DEF JobState

LEMMA SameJobState ==
    ASSUME NEW t \in Transfers, SameJob(t)
    PROVE  JobState(t)' = JobState(t)
BY DEF SameJob, JobState

\* A step that leaves all transfers alone leaves their abstract state alone.
LEMMA SameView ==
    ASSUME \A t \in Transfers : SameJob(t)
    PROVE  JobView' = JobView
BY SameJobState DEF JobView

\* A step that changes the abstract state of transfer t only.
LEMMA ViewExcept ==
    ASSUME NEW t \in Transfers, \A u \in Transfers \ {t} : SameJob(u)
    PROVE  JobView' = [JobView EXCEPT ![t] = JobState(t)']
<1>1. \A u \in Transfers \ {t} : JobState(u)' = JobState(u)
  BY SameJobState
<1> QED BY <1>1 DEF JobView

-----------------------------------------------------------------------------
(* The steps that change the abstract state *)

\* A transfer is accepted, or refused because the receiver is gone.
LEMMA StartAnswers ==
    ASSUME Inv, NEW t \in Transfers, StartTransfer(t)
    PROVE  Job!Answer(t)
<1>1. call[t] = "idle" /\ Len(terminal[t]) = 0
  BY Kinds DEF StartTransfer, Inv, TrackedUntilAnswered, WaitingIsHeld, HeldBySftp
<1>2. /\ call' \in {[call EXCEPT ![t] = "waiting"], [call EXCEPT ![t] = "refused"]}
      /\ UNCHANGED <<terminal, cancelled>>
  BY DEF StartTransfer
<1>3. call \in [Calls -> CallStates] /\ t \in Calls /\ Transfers \subseteq Calls
  BY Kinds DEF Inv, TypeOK
<1>4. \A u \in Transfers \ {t} : SameJob(u)
  BY <1>2, <1>3 DEF SameJob
<1>5. JobState(t)' \in {"refused", "accepted"}
  BY <1>1, <1>2, <1>3 DEF JobState
<1>6. JobView[t] = "new"
  BY <1>1, JobStates DEF JobView
<1> QED BY <1>2, <1>4, <1>5, <1>6, ViewExcept DEF Job!Answer, JobView

\* fail_sftp_command and emit_transfer_result end a transfer.
LEMMA ReportEnds ==
    ASSUME Inv, NEW t \in Transfers, NEW outcome \in Outcomes,
           call[t] = "waiting", Len(terminal[t]) = 0,
           call'[t] \notin {"idle", "refused"},
           terminal' = [terminal EXCEPT ![t] = Append(@, outcome)],
           \A u \in Transfers \ {t} : call'[u] = call[u],
           cancelled' = cancelled,
           outcome = "cancelled" => t \in cancelled
    PROVE  Job!End(t)
<1>1. terminal[t] \in Seq(Outcomes) /\ terminal \in [Transfers -> Seq(Outcomes)]
  BY DEF Inv, TypeOK
<1>2. terminal'[t] = Append(terminal[t], outcome)
  BY <1>1
<1>3. Len(terminal'[t]) = 1 /\ terminal'[t][1] = outcome
  BY <1>1, <1>2
<1>4. JobState(t)' = outcome
  BY <1>3 DEF JobState
<1>5. \A u \in Transfers \ {t} : SameJob(u)
  BY <1>1 DEF SameJob
<1>6. JobView[t] = "accepted"
  BY JobStates DEF JobView
<1> QED BY <1>4, <1>5, <1>6, ViewExcept DEF Job!End, Job!Ended, Outcomes, JobView

\* A failed SFTP command that is a transfer ends it as failed; another one
\* changes no transfer.
LEMMA FailEnds ==
    ASSUME Inv, NEW c \in SftpCmds, FailCommand(c), call[c] = "waiting",
           c \in Transfers => Len(terminal[c]) = 0
    PROVE  (\E t \in Transfers : Job!End(t)) \/ UNCHANGED <<JobView, cancelled>>
<1>1. call \in [Calls -> CallStates] /\ c \in Calls /\ Transfers \subseteq Calls
  BY Kinds DEF Inv, TypeOK
<1>2. call' = [call EXCEPT ![c] = "err"] /\ cancelled' = cancelled
  BY DEF FailCommand
<1>3. CASE c \in Transfers
  <2>1. terminal' = [terminal EXCEPT ![c] = Append(@, "failed")]
    BY <1>3 DEF FailCommand
  <2> QED BY <1>1, <1>2, <1>3, <2>1, ReportEnds DEF Outcomes
<1>4. CASE c \notin Transfers
  <2>1. \A t \in Transfers : SameJob(t)
    BY <1>1, <1>2, <1>4 DEF FailCommand, SameJob
  <2> QED BY <1>2, <2>1, SameView
<1> QED BY <1>3, <1>4

-----------------------------------------------------------------------------
(* The transfers that can be cancelled *)

\* The worker remembers the cancel flags of transfers that were issued.
RememberedIssued == \A t \in transferCancels : call[t] # "idle"

LEMMA RememberedIssuedStep == Inv /\ RememberedIssued /\ [Next]_vars => RememberedIssued'
<1> SUFFICES ASSUME Inv, RememberedIssued, [Next]_vars PROVE RememberedIssued'
  OBVIOUS
<1>1. \A t \in Transfers : call[t] # "idle" => call'[t] # "idle"
  <2>1. call \in [Calls -> CallStates] /\ Transfers \subseteq Calls
    BY Kinds DEF Inv, TypeOK
  <2> QED
    BY <2>1, StepIs DEF Callers, MainStep, SftpStep, TunnelStep, sessionVars, GetSender, Send,
      StartTransfer, CancelTransfer, Close, Joined, Establish, RouteShell, RouteExec,
      RouteSftp, RouteTunnel, RouteShutdown, Drained, Poll, CancelTransfers, StopSftp,
      JoinSftp, StopTunnel, JoinTunnel, LeaveLoop, EmitDisconnected, SftpTake,
      SftpConnect, SftpConnectFails, SftpReply, SftpReport, SftpFinish, SftpShutdown,
      SftpKeepaliveFails, TunnelEstablish, TunnelDiscard, TunnelDiscarded, TunnelReturn,
      TunnelReply, TunnelShutdown, FailCommand, DropReplies, jobVars
<1>2. CASE RouteSftp
  <2>1. transferCancels' \subseteq tracked
    BY <1>2 DEF RouteSftp, RememberCancel
  <2>2. \A t \in transferCancels' : t \in Transfers /\ call[t] # "idle"
    BY <2>1 DEF Inv, TypeOK, TrackedUntilAnswered
  <2> QED BY <1>1, <2>2 DEF RememberedIssued
<1>3. CASE transferCancels' = transferCancels
  BY <1>1, <1>3 DEF RememberedIssued, Inv, TypeOK
<1>4. RouteSftp \/ transferCancels' = transferCancels
  BY StepIs DEF Callers, MainStep, SftpStep, TunnelStep, sessionVars, GetSender, Send,
    StartTransfer, CancelTransfer, Close, Joined, Establish, RouteShell, RouteExec,
    RouteTunnel, RouteShutdown, Drained, Poll, CancelTransfers, StopSftp,
    JoinSftp, StopTunnel, JoinTunnel, LeaveLoop, EmitDisconnected, SftpTake,
    SftpConnect, SftpConnectFails, SftpReply, SftpReport, SftpFinish, SftpShutdown,
    SftpKeepaliveFails, TunnelEstablish, TunnelDiscard, TunnelDiscarded, TunnelReturn,
    TunnelReply, TunnelShutdown, mainVars
<1> QED BY <1>2, <1>3, <1>4

\* Only issued transfers are asked to stop, by a user or by the teardown.
LEMMA AskingAsks ==
    ASSUME Inv, NEW S \in SUBSET Transfers, \A t \in S : call[t] # "idle",
           cancelled' = cancelled \cup S, UNCHANGED <<call, terminal>>
    PROVE  Job!Ask
<1>1. \A t \in S : JobView[t] # "new"
  BY JobStates DEF JobView, Outcomes
<1>2. JobView' = JobView
  BY SameView DEF SameJob
<1>3. S \in SUBSET {t \in Transfers : JobView[t] # "new"}
  BY <1>1
<1> QED BY <1>2, <1>3 DEF Job!Ask, JobView

-----------------------------------------------------------------------------
(* The refinement *)

\* Every step of the session is a step of TransferJob or changes no transfer.
LEMMA JobStep ==
    ASSUME Inv, RememberedIssued, [Next]_vars
    PROVE  Job!Next \/ UNCHANGED <<JobView, cancelled>>
<1> DEFINE Same == (\A t \in Transfers : SameJob(t)) /\ cancelled' = cancelled
<1> DEFINE Goal == Job!Next \/ UNCHANGED <<JobView, cancelled>>
<1>1. call \in [Calls -> CallStates] /\ Transfers \subseteq Calls /\ execs \subseteq ExecCalls
  BY Kinds DEF Inv, TypeOK
<1>2. Same => Goal
  BY SameView
<1>3. ASSUME NEW t \in Transfers, StartTransfer(t) PROVE Goal
  BY <1>3, StartAnswers DEF Job!Next
<1>4. ASSUME NEW t \in Transfers, CancelTransfer(t) PROVE Goal
  <2>1. call[t] # "idle"
    BY <1>4 DEF CancelTransfer, Inv, TrackedUntilAnswered
  <2>2. cancelled' = cancelled \cup {t} /\ UNCHANGED <<call, terminal>>
    BY <1>4 DEF CancelTransfer
  <2>3. {t} \in SUBSET Transfers /\ \A u \in {t} : call[u] # "idle"
    BY <2>1
  <2> QED BY <2>2, <2>3, AskingAsks DEF Job!Next
<1>5. CASE CancelTransfers
  <2>1. transferCancels \in SUBSET Transfers
    BY DEF Inv, TypeOK
  <2>2. cancelled' = cancelled \cup transferCancels /\ UNCHANGED <<call, terminal>>
    BY <1>5 DEF CancelTransfers
  <2> QED BY <2>1, <2>2, AskingAsks DEF Job!Next, RememberedIssued
<1>6. CASE RouteSftp
  <2>1. Head(cmdq) \in SftpCmds /\ call[Head(cmdq)] = "waiting"
    BY <1>6, CmdqReceived, Kinds DEF Inv, HeldOnce, RouteSftp, NextIn, WaitingIsHeld
  <2>2. CASE UNCHANGED <<call, jobVars>>
    BY <2>2, <1>2 DEF SameJob, jobVars
  <2>3. CASE FailCommand(Head(cmdq)) /\ sftp = "none"
    <3>1. Head(cmdq) \in Transfers => Len(terminal[Head(cmdq)]) = 0
      BY <2>1, <2>3 DEF Inv, TrackedUntilAnswered
    <3> QED BY <2>1, <2>3, <3>1, FailEnds DEF Job!Next
  <2> QED BY <1>6, <2>2, <2>3 DEF RouteSftp
<1>7. CASE SftpConnectFails
  <2>1. sftpCmd \in SftpCmds /\ call[sftpCmd] = "waiting" /\ sftp = "connect"
    BY <1>7, Kinds DEF SftpConnectFails, Inv, TypeOK, WaitingIsHeld, HeldBySftp, SftpBusy
  <2>2. sftpCmd \in Transfers => Len(terminal[sftpCmd]) = 0
    BY <2>1 DEF Inv, TrackedUntilAnswered
  <2>3. FailCommand(sftpCmd)
    BY <1>7 DEF SftpConnectFails
  <2> QED BY <2>1, <2>2, <2>3, FailEnds DEF Job!Next
<1>8. CASE SftpReport
  <2>1. sftpCmd \in Transfers /\ sftp = "run"
    BY <1>8 DEF SftpReport
  <2>2. call[sftpCmd] = "waiting"
    BY <2>1, Kinds DEF Inv, WaitingIsHeld, HeldBySftp
  <2>3. Len(terminal[sftpCmd]) = 0
    BY <2>1, <2>2 DEF Inv, TrackedUntilAnswered
  <2>4. call' = call /\ cancelled' = cancelled
    BY <1>8 DEF SftpReport
  <2>5. PICK outcome \in Outcomes :
           /\ outcome = "cancelled" => sftpCmd \in cancelled
           /\ terminal' = [terminal EXCEPT ![sftpCmd] = Append(@, outcome)]
    BY <1>8 DEF SftpReport
  <2> QED BY <2>1, <2>2, <2>3, <2>4, <2>5, ReportEnds DEF Job!Next
<1>9. CASE RouteTunnel
  <2>1. Head(cmdq) \in TunnelCalls /\ Head(cmdq) \notin Transfers
    BY <1>9, KindsDisjoint DEF RouteTunnel, NextIn
  <2> QED BY <1>1, <1>2, <1>9, <2>1 DEF RouteTunnel, FailCommand, SameJob, jobVars
<1>10. CASE RouteShell \/ RouteExec
  <2>1. Head(cmdq) \notin Transfers
    BY <1>10, KindsDisjoint DEF RouteShell, RouteExec, NextIn
  <2> QED BY <1>1, <1>2, <1>10, <2>1 DEF RouteShell, RouteExec, SameJob, jobVars
<1>11. CASE Poll \/ LeaveLoop
  <2>1. execs \cap Transfers = {}
    BY <1>1, KindsDisjoint
  <2> QED BY <1>1, <1>2, <1>11, <2>1 DEF Poll, LeaveLoop, DropReplies, SameJob, jobVars
<1>12. CASE JoinSftp \/ JoinTunnel \/ TunnelDiscard
  BY <1>1, <1>2, <1>12 DEF JoinSftp, JoinTunnel, TunnelDiscard, DropReplies, SameJob, jobVars
<1>13. CASE TunnelReply
  <2>1. Head(tunnelq) \notin Transfers
    BY <1>13, TunnelqReceived, KindsDisjoint DEF TunnelReply, Inv, HeldOnce
  <2> QED BY <1>1, <1>2, <1>13, <2>1 DEF TunnelReply, SameJob, jobVars
<1>14. CASE SftpReply
  <2>1. sftpCmd \notin Transfers
    BY <1>14, KindsDisjoint DEF SftpReply
  <2> QED BY <1>1, <1>2, <1>14, <2>1 DEF SftpReply, SameJob, jobVars
<1>15. CASE SftpFinish
  <2>1. sftpCmd \in Transfers /\ call[sftpCmd] = "waiting"
    BY <1>15, Kinds DEF SftpFinish, Inv, SftpBusy, WaitingIsHeld, HeldBySftp
  <2> QED BY <1>1, <1>2, <1>15, <2>1 DEF SftpFinish, SameJob
<1>16. ASSUME NEW c \in Calls \ Transfers, GetSender(c) \/ Send(c) PROVE Goal
  BY <1>1, <1>2, <1>16 DEF GetSender, Send, SameJob, jobVars
<1>17. CASE \/ Close \/ Joined \/ Establish \/ RouteShutdown \/ Drained \/ StopSftp
            \/ StopTunnel \/ EmitDisconnected \/ SftpTake \/ SftpConnect \/ SftpShutdown
            \/ SftpKeepaliveFails \/ TunnelEstablish \/ TunnelDiscarded \/ TunnelReturn
            \/ TunnelShutdown \/ UNCHANGED sessionVars
  <2>1. UNCHANGED <<call, terminal, cancelled>>
    BY <1>17 DEF Close, Joined, Establish, RouteShutdown, Drained, StopSftp, StopTunnel,
      EmitDisconnected, SftpTake, SftpConnect, SftpShutdown, SftpKeepaliveFails,
      TunnelEstablish, TunnelDiscarded, TunnelReturn, TunnelShutdown, jobVars, sessionVars
  <2> QED BY <1>2, <2>1 DEF SameJob
<1> QED
  <2>1. CASE Callers
    BY <2>1, <1>3, <1>4, <1>16, <1>17 DEF Callers
  <2>2. CASE MainStep
    BY <2>2, <1>5, <1>6, <1>9, <1>10, <1>11, <1>12, <1>17 DEF MainStep
  <2>3. CASE SftpStep \/ SftpKeepaliveFails
    BY <2>3, <1>7, <1>8, <1>14, <1>15, <1>17 DEF SftpStep
  <2>4. CASE TunnelStep
    BY <2>4, <1>12, <1>13, <1>17 DEF TunnelStep
  <2> QED BY <2>1, <2>2, <2>3, <2>4, <1>17, StepIs

\* The session worker and its sub-workers keep the promise of TransferJob: a
\* transfer ends at most once, and as cancelled only when that was asked for.
THEOREM TransferJobImplemented == Spec => ImplementsTransferJob
<1>1. Init => Job!Init /\ RememberedIssued
  <2> SUFFICES ASSUME Init PROVE Job!Init /\ RememberedIssued
    OBVIOUS
  <2>1. \A t \in Transfers : JobState(t) = "new"
    BY Kinds DEF Init, JobState
  <2> QED BY <2>1 DEF Init, Job!Init, RememberedIssued
<1>2. Inv /\ RememberedIssued /\ [Next]_vars => [Job!Next]_<<JobView, cancelled>>
  BY JobStep
<1>3. Inv /\ RememberedIssued /\ [Next]_vars => RememberedIssued'
  BY RememberedIssuedStep
<1> QED BY <1>1, <1>2, <1>3, InvCorrect, PTL
  DEF Spec, ImplementsTransferJob, Job!Spec, JobView

=============================================================================
