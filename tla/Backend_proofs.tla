---------------------------- MODULE Backend_proofs ----------------------------
(***************************************************************************)
(* The invariants of the session commands (AppSessions) and of the tunnels *)
(* of a session (Tunnels), for every value of their constants, and with    *)
(* them the invariant that the run of MCBackend checks.  Both are          *)
(* inductive as they stand: StepsInOrder carries the first, StartedInOrder *)
(* and StoppedIsOver the second.                                           *)
(***************************************************************************)
EXTENDS MCBackend, CommonLemmas

-----------------------------------------------------------------------------
(* The session commands *)

\* The worker of that channel will stop.
Told(q) == \E i \in DOMAIN q : q[i] = "Shutdown"

\* Sending and receiving keep it told, until it takes the Shutdown.
LEMMA ToldQueues ==
    ASSUME NEW q \in Seq(Requests)
    PROVE  /\ \A x \in Requests : Append(q, x) \in Seq(Requests) /\ (Told(Append(q, x)) <=> Told(q) \/ x = "Shutdown")
           /\ q # <<>> => Head(q) \in Requests /\ Tail(q) \in Seq(Requests) /\ (Told(q) => Head(q) = "Shutdown" \/ Told(Tail(q)))
<1>1. \A p : Told(p) <=> "Shutdown" \in ToSet(p)
  BY DEF Told, ToSet
<1>2. ASSUME NEW x \in Requests
      PROVE Append(q, x) \in Seq(Requests) /\ (Told(Append(q, x)) <=> Told(q) \/ x = "Shutdown")
  BY <1>1, SendQueue
<1>3. ASSUME q # <<>>
      PROVE Head(q) \in Requests /\ Tail(q) \in Seq(Requests) /\ (Told(q) => Head(q) = "Shutdown" \/ Told(Tail(q)))
  BY <1>1, <1>3, ReceiveQueue
<1> QED BY <1>2, <1>3

\* A command sent to one worker, as the others see it.
LEMMA Sending ==
    ASSUME TypeOK, NEW s \in Sessions, NEW x \in Requests, Sends(s, x)
    PROVE  /\ queue' \in [Sessions -> Seq(Requests)]
           /\ \A r \in Sessions : Told(queue'[r]) <=> Told(queue[r]) \/ (r = s /\ x = "Shutdown")
BY ToldQueues DEF TypeOK, Sends

\* The kinds of requests are different ones.
LEMMA RequestKinds ==
    /\ "shell" \in Requests /\ "tunnel" \in Requests /\ "Shutdown" \in Requests
    /\ Calls \subseteq Requests
    /\ "Shutdown" \notin Calls
BY SessionsAssumption DEF KindsAssumption, Requests

\* The mutex tells who has it.
LEMMA Holders ==
    ASSUME NEW r \in Sessions, NEW s \in Sessions
    PROVE  /\ <<"open", r>> # <<"close", s>>
           /\ <<"open", r>> = <<"open", s>> <=> r = s
           /\ <<"close", r>> = <<"close", s>> <=> r = s
           /\ None # <<"open", r>> /\ None # <<"close", r>>
           /\ <<"open", r>> \in {"open", "close"} \X Sessions
           /\ <<"close", r>> \in {"open", "close"} \X Sessions
<1>1. None \notin {"open", "close"} \X Sessions
  BY SessionsAssumption DEF KindsAssumption
<1> QED BY <1>1

\* A session_open or session_open_adhoc starts.
LEMMA OpenInv ==
    ASSUME Inv, NEW s \in Sessions, Open(s), UNCHANGED stalled
    PROVE  Inv'
<1> USE SessionsAssumption DEF KindsAssumption
<1>0. TypeOK /\ StepsInOrder /\ HandlesMatch /\ StopsWhenRemoved /\ SecretsTracked
  BY DEF Inv
<1>1. TypeOK'
  BY <1>0, Sending, RequestKinds, ToldQueues DEF Open, TypeOK, manager, workers, shared, commands,
         Goto, OpenSteps, CloseSteps, Shown
<1>2. StepsInOrder'
  BY <1>0 DEF Open, TypeOK, StepsInOrder, manager, workers, shared, commands, Goto, Shown
<1>3. HandlesMatch'
  BY <1>0 DEF Open, TypeOK, StepsInOrder, HandlesMatch, manager, workers, shared, commands, Goto,
         Shown
<1>4. StopsWhenRemoved'
  BY <1>0, Sending, RequestKinds, ToldQueues DEF Open, Told, TypeOK, StepsInOrder, HandlesMatch,
         StopsWhenRemoved, manager, workers, shared, commands, Goto, Receives
<1>5. SecretsTracked'
  <2>1. close[s] = "idle" /\ open'[s] = "spawn"
    BY <1>0 DEF Open, Goto, TypeOK, StepsInOrder
  <2>2. \A r \in Sessions : r # s => open'[r] = open[r]
    BY <1>0 DEF Open, Goto, TypeOK
  <2>3. UNCHANGED <<close, creds>> /\ keyring' \subseteq keyring \cup {s} /\ keyring \subseteq Sessions
    BY <1>0 DEF Open, TypeOK
  <2> QED BY <1>0, <2>1, <2>2, <2>3 DEF SecretsTracked
<1> QED BY <1>1, <1>2, <1>3, <1>4, <1>5 DEF Inv

\* spawn_ssh.
LEMMA SpawnInv ==
    ASSUME Inv, NEW s \in Sessions, Spawn(s), UNCHANGED stalled
    PROVE  Inv'
<1> USE SessionsAssumption DEF KindsAssumption
<1>0. TypeOK /\ StepsInOrder /\ HandlesMatch /\ StopsWhenRemoved /\ SecretsTracked
  BY DEF Inv
<1>1. TypeOK'
  BY <1>0, Sending, RequestKinds, ToldQueues DEF Spawn, TypeOK, manager, workers, shared,
         commands, Goto, OpenSteps, CloseSteps, Shown
<1>2. StepsInOrder'
  BY <1>0 DEF Spawn, TypeOK, StepsInOrder, manager, workers, shared, commands, Goto, Shown
<1>3. HandlesMatch'
  BY <1>0 DEF Spawn, TypeOK, StepsInOrder, HandlesMatch, manager, workers, shared, commands, Goto,
         Shown
<1>4. StopsWhenRemoved'
  BY <1>0, Sending, RequestKinds, ToldQueues DEF Spawn, Told, TypeOK, StepsInOrder, HandlesMatch,
         StopsWhenRemoved, manager, workers, shared, commands, Goto, Receives
<1>5. SecretsTracked'
  BY <1>0 DEF Spawn, TypeOK, StepsInOrder, SecretsTracked, manager, workers, shared, commands,
         Goto, Shown
<1> QED BY <1>1, <1>2, <1>3, <1>4, <1>5 DEF Inv

\* The handshake has ended.
LEMMA ReadyInv ==
    ASSUME Inv, NEW s \in Sessions, Ready(s), UNCHANGED stalled
    PROVE  Inv'
<1> USE SessionsAssumption DEF KindsAssumption
<1>0. TypeOK /\ StepsInOrder /\ HandlesMatch /\ StopsWhenRemoved /\ SecretsTracked
  BY DEF Inv
<1>1. TypeOK'
  <2> USE <1>0 DEF Ready, TypeOK, manager, workers, shared, commands, Goto
  <2>1. open' \in [Sessions -> OpenSteps] /\ close' \in [Sessions -> CloseSteps]
    BY DEF OpenSteps, CloseSteps
  <2>2. reopens' \in [Sessions -> Sessions \cup {None}]
    OBVIOUS
  <2>3. call' \in [Calls -> {"idle", "sent", "done"}]
    OBVIOUS
  <2>4. worker' \in [Sessions -> {"none", "handshake", "ready", "refused", "serving", "gone"}]
    <3>1. \E to \in {"serving", "gone"} : worker' = [worker EXCEPT ![s] = to]
      OBVIOUS
    <3> QED BY <3>1
  <2>5. queue' \in [Sessions -> Seq(Requests)]
    BY Sending, RequestKinds, ToldQueues
  <2>6. reply' \in [Sessions -> {"none", "ok", "err"}]
    OBVIOUS
  <2>7. lock' \in ({"open", "close"} \X Sessions) \cup {None}
    OBVIOUS
  <2>8. handles' \subseteq Sessions /\ attached' \subseteq handles' /\ shell' \subseteq Sessions
    BY DEF StepsInOrder
  <2>9. logs' \subseteq Sessions /\ creds' \subseteq Sessions /\ keyring' \subseteq Sessions
    OBVIOUS
  <2> QED BY <2>1, <2>2, <2>3, <2>4, <2>5, <2>6, <2>7, <2>8, <2>9
<1>2. StepsInOrder'
  BY <1>0 DEF Ready, TypeOK, StepsInOrder, manager, workers, shared, commands, Goto, Shown
<1>3. HandlesMatch'
  BY <1>0 DEF Ready, TypeOK, StepsInOrder, HandlesMatch, manager, workers, shared, commands, Goto,
         Shown
<1>4. StopsWhenRemoved'
  BY <1>0, Sending, RequestKinds, ToldQueues DEF Ready, Told, TypeOK, StepsInOrder, HandlesMatch,
         StopsWhenRemoved, manager, workers, shared, commands, Goto, Receives
<1>5. SecretsTracked'
  BY <1>0 DEF Ready, TypeOK, StepsInOrder, SecretsTracked, manager, workers, shared, commands,
         Goto, Shown
<1> QED BY <1>1, <1>2, <1>3, <1>4, <1>5 DEF Inv

\* attach_thread.
LEMMA AttachInv ==
    ASSUME Inv, NEW s \in Sessions, Attach(s), UNCHANGED stalled
    PROVE  Inv'
<1> USE SessionsAssumption DEF KindsAssumption
<1>0. TypeOK /\ StepsInOrder /\ HandlesMatch /\ StopsWhenRemoved /\ SecretsTracked
  BY DEF Inv
<1>1. TypeOK'
  BY <1>0, Sending, RequestKinds, ToldQueues DEF Attach, TypeOK, manager, workers, shared,
         commands, Goto, OpenSteps, CloseSteps, Shown
<1>2. StepsInOrder'
  BY <1>0 DEF Attach, TypeOK, StepsInOrder, manager, workers, shared, commands, Goto, Shown
<1>3. HandlesMatch'
  BY <1>0 DEF Attach, TypeOK, StepsInOrder, HandlesMatch, manager, workers, shared, commands,
         Goto, Shown
<1>4. StopsWhenRemoved'
  BY <1>0, Sending, RequestKinds, ToldQueues DEF Attach, Told, TypeOK, StepsInOrder, HandlesMatch,
         StopsWhenRemoved, manager, workers, shared, commands, Goto, Receives
<1>5. SecretsTracked'
  BY <1>0 DEF Attach, TypeOK, StepsInOrder, SecretsTracked, manager, workers, shared, commands,
         Goto, Shown
<1> QED BY <1>1, <1>2, <1>3, <1>4, <1>5 DEF Inv

\* The handle of a failed handshake is removed.
LEMMA AbandonInv ==
    ASSUME Inv, NEW s \in Sessions, Abandon(s), UNCHANGED stalled
    PROVE  Inv'
<1> USE SessionsAssumption DEF KindsAssumption
<1>0. TypeOK /\ StepsInOrder /\ HandlesMatch /\ StopsWhenRemoved /\ SecretsTracked
  BY DEF Inv
<1>1. TypeOK'
  <2> USE <1>0 DEF Abandon, TypeOK, manager, workers, shared, commands, Goto
  <2>1. open' \in [Sessions -> OpenSteps] /\ close' \in [Sessions -> CloseSteps]
    BY DEF OpenSteps, CloseSteps
  <2>2. reopens' \in [Sessions -> Sessions \cup {None}]
    OBVIOUS
  <2>3. call' \in [Calls -> {"idle", "sent", "done"}]
    OBVIOUS
  <2>4. worker' \in [Sessions -> {"none", "handshake", "ready", "refused", "serving", "gone"}]
    OBVIOUS
  <2>5. queue' \in [Sessions -> Seq(Requests)]
    BY Sending, RequestKinds, ToldQueues
  <2>6. reply' \in [Sessions -> {"none", "ok", "err"}]
    OBVIOUS
  <2>7. lock' \in ({"open", "close"} \X Sessions) \cup {None}
    OBVIOUS
  <2>8. handles' \subseteq Sessions /\ attached' \subseteq handles' /\ shell' \subseteq Sessions
    BY DEF StepsInOrder
  <2>9. logs' \subseteq Sessions /\ creds' \subseteq Sessions /\ keyring' \subseteq Sessions
    OBVIOUS
  <2> QED BY <2>1, <2>2, <2>3, <2>4, <2>5, <2>6, <2>7, <2>8, <2>9
<1>2. StepsInOrder'
  BY <1>0 DEF Abandon, TypeOK, StepsInOrder, manager, workers, shared, commands, Goto, Shown
<1>3. HandlesMatch'
  BY <1>0 DEF Abandon, TypeOK, StepsInOrder, HandlesMatch, manager, workers, shared, commands,
         Goto, Shown
<1>4. StopsWhenRemoved'
  BY <1>0, Sending, RequestKinds, ToldQueues DEF Abandon, Told, TypeOK, StepsInOrder,
         HandlesMatch, StopsWhenRemoved, manager, workers, shared, commands, Goto, Receives
<1>5. SecretsTracked'
  BY <1>0 DEF Abandon, TypeOK, StepsInOrder, SecretsTracked, manager, workers, shared, commands,
         Goto, Shown
<1> QED BY <1>1, <1>2, <1>3, <1>4, <1>5 DEF Inv

\* open_shell is sent.
LEMMA AskShellInv ==
    ASSUME Inv, NEW s \in Sessions, AskShell(s), UNCHANGED stalled
    PROVE  Inv'
<1> USE SessionsAssumption DEF KindsAssumption
<1>0. TypeOK /\ StepsInOrder /\ HandlesMatch /\ StopsWhenRemoved /\ SecretsTracked
  BY DEF Inv
<1>1. TypeOK'
  BY <1>0, Sending, RequestKinds, ToldQueues DEF AskShell, TypeOK, manager, workers, shared,
         commands, Goto, OpenSteps, CloseSteps, Shown
<1>2. StepsInOrder'
  BY <1>0 DEF AskShell, TypeOK, StepsInOrder, manager, workers, shared, commands, Goto, Shown
<1>3. HandlesMatch'
  <2> USE <1>0 DEF AskShell, TypeOK, StepsInOrder, HandlesMatch, manager, workers, shared,
          commands, Goto, Shown
  <2>1. \A r \in Sessions : open'[r] \in {"idle", "spawn", "stop", "fail", "failed"} => r \notin handles'
    OBVIOUS
  <2>2. \A r \in handles' : open'[r] = "done" => r \in attached'
    OBVIOUS
  <2>3. \A r \in Sessions : lock' = <<"open", r>> <=> open'[r] \in {"shellReply", "stop", "tunnelReply"}
    BY Holders
  <2>4. \A r \in Sessions : lock' = <<"close", r>> <=> close'[r] \in {"join", "rejoin"}
    BY Holders
  <2> QED BY <2>1, <2>2, <2>3, <2>4
<1>4. StopsWhenRemoved'
  <2>1. UNCHANGED queue \/ Sends(s, "shell")
    BY DEF AskShell, manager, workers
  <2>2. \A r \in Sessions : Told(queue[r]) => Told(queue'[r])
    BY <1>0, <2>1, Sending, RequestKinds
  <2>3. worker[s] # "gone" /\ s \notin handles' => s \notin handles \/ Told(queue'[s])
    BY <1>0, Sending, RequestKinds DEF AskShell, manager, Receives
  <2>4. UNCHANGED worker /\ handles \ {s} \subseteq handles'
    BY DEF AskShell, manager, workers
  <2> QED BY <1>0, <2>2, <2>3, <2>4 DEF StopsWhenRemoved, Told
<1>5. SecretsTracked'
  BY <1>0 DEF AskShell, TypeOK, StepsInOrder, SecretsTracked, manager, workers, shared, commands,
         Goto, Shown
<1> QED BY <1>1, <1>2, <1>3, <1>4, <1>5 DEF Inv

\* The shell's answer.
LEMMA GotShellInv ==
    ASSUME Inv, NEW s \in Sessions, GotShell(s), UNCHANGED stalled
    PROVE  Inv'
<1> USE SessionsAssumption DEF KindsAssumption
<1>0. TypeOK /\ StepsInOrder /\ HandlesMatch /\ StopsWhenRemoved /\ SecretsTracked
  BY DEF Inv
<1>1. TypeOK'
  <2> USE <1>0 DEF GotShell, TypeOK, manager, workers, shared, commands, Goto
  <2>1. open' \in [Sessions -> OpenSteps] /\ close' \in [Sessions -> CloseSteps]
    <3>1. \E step \in OpenSteps : open' = [open EXCEPT ![s] = step]
      BY DEF OpenSteps
    <3> QED BY <3>1
  <2>2. reopens' \in [Sessions -> Sessions \cup {None}]
    OBVIOUS
  <2>3. call' \in [Calls -> {"idle", "sent", "done"}]
    OBVIOUS
  <2>4. worker' \in [Sessions -> {"none", "handshake", "ready", "refused", "serving", "gone"}]
    OBVIOUS
  <2>5. queue' \in [Sessions -> Seq(Requests)]
    BY Sending, RequestKinds, ToldQueues
  <2>6. reply' \in [Sessions -> {"none", "ok", "err"}]
    OBVIOUS
  <2>7. lock' \in ({"open", "close"} \X Sessions) \cup {None}
    OBVIOUS
  <2>8. handles' \subseteq Sessions /\ attached' \subseteq handles' /\ shell' \subseteq Sessions
    BY DEF StepsInOrder
  <2>9. logs' \subseteq Sessions /\ creds' \subseteq Sessions /\ keyring' \subseteq Sessions
    OBVIOUS
  <2> QED BY <2>1, <2>2, <2>3, <2>4, <2>5, <2>6, <2>7, <2>8, <2>9
<1>2. StepsInOrder'
  BY <1>0 DEF GotShell, TypeOK, StepsInOrder, manager, workers, shared, commands, Goto, Shown
<1>3. HandlesMatch'
  <2> USE <1>0 DEF GotShell, TypeOK, StepsInOrder, HandlesMatch, manager, workers, shared,
          commands, Goto, Shown
  <2>1. \A r \in Sessions : open'[r] \in {"idle", "spawn", "stop", "fail", "failed"} => r \notin handles'
    OBVIOUS
  <2>2. \A r \in handles' : open'[r] = "done" => r \in attached'
    OBVIOUS
  <2>3. \A r \in Sessions : lock' = <<"open", r>> <=> open'[r] \in {"shellReply", "stop", "tunnelReply"}
    BY Holders
  <2>4. \A r \in Sessions : lock' = <<"close", r>> <=> close'[r] \in {"join", "rejoin"}
    BY Holders
  <2> QED BY <2>1, <2>2, <2>3, <2>4
<1>4. StopsWhenRemoved'
  <2>1. UNCHANGED queue \/ Sends(s, "Shutdown")
    BY DEF GotShell, manager, workers
  <2>2. \A r \in Sessions : Told(queue[r]) => Told(queue'[r])
    BY <1>0, <2>1, Sending, RequestKinds
  <2>3. worker[s] # "gone" /\ s \notin handles' => s \notin handles \/ Told(queue'[s])
    BY <1>0, Sending, RequestKinds DEF GotShell, manager, Receives
  <2>4. UNCHANGED worker /\ handles \ {s} \subseteq handles'
    BY DEF GotShell, manager, workers
  <2> QED BY <1>0, <2>2, <2>3, <2>4 DEF StopsWhenRemoved, Told
<1>5. SecretsTracked'
  BY <1>0 DEF GotShell, TypeOK, StepsInOrder, SecretsTracked, manager, workers, shared, commands,
         Goto, Shown
<1> QED BY <1>1, <1>2, <1>3, <1>4, <1>5 DEF Inv

\* The worker whose shell failed has ended.
LEMMA StoppedInv ==
    ASSUME Inv, NEW s \in Sessions, Stopped(s), UNCHANGED stalled
    PROVE  Inv'
<1> USE SessionsAssumption DEF KindsAssumption
<1>0. TypeOK /\ StepsInOrder /\ HandlesMatch /\ StopsWhenRemoved /\ SecretsTracked
  BY DEF Inv
<1>1. TypeOK'
  BY <1>0, Sending, RequestKinds, ToldQueues DEF Stopped, TypeOK, manager, workers, shared,
         commands, Goto, OpenSteps, CloseSteps, Shown
<1>2. StepsInOrder'
  BY <1>0 DEF Stopped, TypeOK, StepsInOrder, manager, workers, shared, commands, Goto, Shown
<1>3. HandlesMatch'
  <2> USE <1>0 DEF Stopped, TypeOK, StepsInOrder, HandlesMatch, manager, workers, shared,
          commands, Goto, Shown
  <2>1. \A r \in Sessions : open'[r] \in {"idle", "spawn", "stop", "fail", "failed"} => r \notin handles'
    OBVIOUS
  <2>2. \A r \in handles' : open'[r] = "done" => r \in attached'
    OBVIOUS
  <2>3. \A r \in Sessions : lock' = <<"open", r>> <=> open'[r] \in {"shellReply", "stop", "tunnelReply"}
    BY Holders
  <2>4. \A r \in Sessions : lock' = <<"close", r>> <=> close'[r] \in {"join", "rejoin"}
    BY Holders
  <2> QED BY <2>1, <2>2, <2>3, <2>4
<1>4. StopsWhenRemoved'
  BY <1>0, Sending, RequestKinds, ToldQueues DEF Stopped, Told, TypeOK, StepsInOrder,
         HandlesMatch, StopsWhenRemoved, manager, workers, shared, commands, Goto, Receives
<1>5. SecretsTracked'
  BY <1>0 DEF Stopped, TypeOK, StepsInOrder, SecretsTracked, manager, workers, shared, commands,
         Goto, Shown
<1> QED BY <1>1, <1>2, <1>3, <1>4, <1>5 DEF Inv

\* tunnel_start of an auto-started tunnel is sent.
LEMMA AskTunnelInv ==
    ASSUME Inv, NEW s \in Sessions, AskTunnel(s), UNCHANGED stalled
    PROVE  Inv'
<1> USE SessionsAssumption DEF KindsAssumption
<1>0. TypeOK /\ StepsInOrder /\ HandlesMatch /\ StopsWhenRemoved /\ SecretsTracked
  BY DEF Inv
<1>1. TypeOK'
  BY <1>0, Sending, RequestKinds, ToldQueues DEF AskTunnel, TypeOK, manager, workers, shared,
         commands, Goto, OpenSteps, CloseSteps, Shown
<1>2. StepsInOrder'
  BY <1>0 DEF AskTunnel, TypeOK, StepsInOrder, manager, workers, shared, commands, Goto, Shown
<1>3. HandlesMatch'
  <2> USE <1>0 DEF AskTunnel, TypeOK, StepsInOrder, HandlesMatch, manager, workers, shared,
          commands, Goto, Shown
  <2>1. \A r \in Sessions : open'[r] \in {"idle", "spawn", "stop", "fail", "failed"} => r \notin handles'
    OBVIOUS
  <2>2. \A r \in handles' : open'[r] = "done" => r \in attached'
    OBVIOUS
  <2>3. \A r \in Sessions : lock' = <<"open", r>> <=> open'[r] \in {"shellReply", "stop", "tunnelReply"}
    BY Holders
  <2>4. \A r \in Sessions : lock' = <<"close", r>> <=> close'[r] \in {"join", "rejoin"}
    BY Holders
  <2> QED BY <2>1, <2>2, <2>3, <2>4
<1>4. StopsWhenRemoved'
  <2>1. UNCHANGED queue \/ Sends(s, "tunnel")
    BY DEF AskTunnel, manager, workers
  <2>2. \A r \in Sessions : Told(queue[r]) => Told(queue'[r])
    BY <1>0, <2>1, Sending, RequestKinds
  <2>3. worker[s] # "gone" /\ s \notin handles' => s \notin handles \/ Told(queue'[s])
    BY <1>0, Sending, RequestKinds DEF AskTunnel, manager, Receives
  <2>4. UNCHANGED worker /\ handles \ {s} \subseteq handles'
    BY DEF AskTunnel, manager, workers
  <2> QED BY <1>0, <2>2, <2>3, <2>4 DEF StopsWhenRemoved, Told
<1>5. SecretsTracked'
  BY <1>0 DEF AskTunnel, TypeOK, StepsInOrder, SecretsTracked, manager, workers, shared, commands,
         Goto, Shown
<1> QED BY <1>1, <1>2, <1>3, <1>4, <1>5 DEF Inv

\* Its answer.
LEMMA GotTunnelInv ==
    ASSUME Inv, NEW s \in Sessions, GotTunnel(s), UNCHANGED stalled
    PROVE  Inv'
<1> USE SessionsAssumption DEF KindsAssumption
<1>0. TypeOK /\ StepsInOrder /\ HandlesMatch /\ StopsWhenRemoved /\ SecretsTracked
  BY DEF Inv
<1>1. TypeOK'
  BY <1>0, Sending, RequestKinds, ToldQueues DEF GotTunnel, TypeOK, manager, workers, shared,
         commands, Goto, OpenSteps, CloseSteps, Shown
<1>2. StepsInOrder'
  BY <1>0 DEF GotTunnel, TypeOK, StepsInOrder, manager, workers, shared, commands, Goto, Shown
<1>3. HandlesMatch'
  <2> USE <1>0 DEF GotTunnel, TypeOK, StepsInOrder, HandlesMatch, manager, workers, shared,
          commands, Goto, Shown
  <2>1. \A r \in Sessions : open'[r] \in {"idle", "spawn", "stop", "fail", "failed"} => r \notin handles'
    OBVIOUS
  <2>2. \A r \in handles' : open'[r] = "done" => r \in attached'
    OBVIOUS
  <2>3. \A r \in Sessions : lock' = <<"open", r>> <=> open'[r] \in {"shellReply", "stop", "tunnelReply"}
    BY Holders
  <2>4. \A r \in Sessions : lock' = <<"close", r>> <=> close'[r] \in {"join", "rejoin"}
    BY Holders
  <2> QED BY <2>1, <2>2, <2>3, <2>4
<1>4. StopsWhenRemoved'
  BY <1>0, Sending, RequestKinds, ToldQueues DEF GotTunnel, Told, TypeOK, StepsInOrder,
         HandlesMatch, StopsWhenRemoved, manager, workers, shared, commands, Goto, Receives
<1>5. SecretsTracked'
  BY <1>0 DEF GotTunnel, TypeOK, StepsInOrder, SecretsTracked, manager, workers, shared, commands,
         Goto, Shown
<1> QED BY <1>1, <1>2, <1>3, <1>4, <1>5 DEF Inv

\* do_connect returns a session.
LEMMA FinishInv ==
    ASSUME Inv, NEW s \in Sessions, Finish(s), UNCHANGED stalled
    PROVE  Inv'
<1> USE SessionsAssumption DEF KindsAssumption
<1>0. TypeOK /\ StepsInOrder /\ HandlesMatch /\ StopsWhenRemoved /\ SecretsTracked
  BY DEF Inv
<1>1. TypeOK'
  BY <1>0, Sending, RequestKinds, ToldQueues DEF Finish, TypeOK, manager, workers, shared,
         commands, Goto, OpenSteps, CloseSteps, Shown
<1>2. StepsInOrder'
  BY <1>0 DEF Finish, TypeOK, StepsInOrder, manager, workers, shared, commands, Goto, Shown
<1>3. HandlesMatch'
  BY <1>0 DEF Finish, TypeOK, StepsInOrder, HandlesMatch, manager, workers, shared, commands,
         Goto, Shown
<1>4. StopsWhenRemoved'
  BY <1>0, Sending, RequestKinds, ToldQueues DEF Finish, Told, TypeOK, StepsInOrder, HandlesMatch,
         StopsWhenRemoved, manager, workers, shared, commands, Goto, Receives
<1>5. SecretsTracked'
  BY <1>0 DEF Finish, TypeOK, StepsInOrder, SecretsTracked, manager, workers, shared, commands,
         Goto, Shown
<1> QED BY <1>1, <1>2, <1>3, <1>4, <1>5 DEF Inv

\* do_connect returns an error.
LEMMA FailInv ==
    ASSUME Inv, NEW s \in Sessions, Fail(s), UNCHANGED stalled
    PROVE  Inv'
<1> USE SessionsAssumption DEF KindsAssumption
<1>0. TypeOK /\ StepsInOrder /\ HandlesMatch /\ StopsWhenRemoved /\ SecretsTracked
  BY DEF Inv
<1>1. TypeOK'
  BY <1>0, Sending, RequestKinds, ToldQueues DEF Fail, TypeOK, manager, workers, shared, commands,
         Goto, OpenSteps, CloseSteps, Shown
<1>2. StepsInOrder'
  BY <1>0 DEF Fail, TypeOK, StepsInOrder, manager, workers, shared, commands, Goto, Shown
<1>3. HandlesMatch'
  BY <1>0 DEF Fail, TypeOK, StepsInOrder, HandlesMatch, manager, workers, shared, commands, Goto,
         Shown
<1>4. StopsWhenRemoved'
  BY <1>0, Sending, RequestKinds, ToldQueues DEF Fail, Told, TypeOK, StepsInOrder, HandlesMatch,
         StopsWhenRemoved, manager, workers, shared, commands, Goto, Receives
<1>5. SecretsTracked'
  BY <1>0 DEF Fail, TypeOK, StepsInOrder, SecretsTracked, manager, workers, shared, commands,
         Goto, Shown
<1> QED BY <1>1, <1>2, <1>3, <1>4, <1>5 DEF Inv

\* session_close starts.
LEMMA CloseInv ==
    ASSUME Inv, NEW s \in Sessions, Close(s), UNCHANGED stalled
    PROVE  Inv'
<1> USE SessionsAssumption DEF KindsAssumption
<1>0. TypeOK /\ StepsInOrder /\ HandlesMatch /\ StopsWhenRemoved /\ SecretsTracked
  BY DEF Inv
<1>1. TypeOK'
  BY <1>0, Sending, RequestKinds, ToldQueues DEF Close, TypeOK, manager, workers, shared,
         commands, Goto, OpenSteps, CloseSteps, Shown
<1>2. StepsInOrder'
  BY <1>0 DEF Close, TypeOK, StepsInOrder, manager, workers, shared, commands, Goto, Shown
<1>3. HandlesMatch'
  BY <1>0 DEF Close, TypeOK, StepsInOrder, HandlesMatch, manager, workers, shared, commands, Goto,
         Shown
<1>4. StopsWhenRemoved'
  BY <1>0, Sending, RequestKinds, ToldQueues DEF Close, Told, TypeOK, StepsInOrder, HandlesMatch,
         StopsWhenRemoved, manager, workers, shared, commands, Goto, Receives
<1>5. SecretsTracked'
  BY <1>0 DEF Close, TypeOK, StepsInOrder, SecretsTracked, manager, workers, shared, commands,
         Goto, Shown
<1> QED BY <1>1, <1>2, <1>3, <1>4, <1>5 DEF Inv

\* session_reconnect starts.
LEMMA ReconnectInv ==
    ASSUME Inv, NEW s \in Sessions, Reconnect(s), UNCHANGED stalled
    PROVE  Inv'
<1> USE SessionsAssumption DEF KindsAssumption
<1>0. TypeOK /\ StepsInOrder /\ HandlesMatch /\ StopsWhenRemoved /\ SecretsTracked
  BY DEF Inv
<1>1. TypeOK'
  BY <1>0, Sending, RequestKinds, ToldQueues DEF Reconnect, TypeOK, manager, workers, shared,
         commands, Goto, OpenSteps, CloseSteps, Shown
<1>2. StepsInOrder'
  BY <1>0 DEF Reconnect, TypeOK, StepsInOrder, manager, workers, shared, commands, Goto, Shown
<1>3. HandlesMatch'
  BY <1>0 DEF Reconnect, TypeOK, StepsInOrder, HandlesMatch, manager, workers, shared, commands,
         Goto, Shown
<1>4. StopsWhenRemoved'
  BY <1>0, Sending, RequestKinds, ToldQueues DEF Reconnect, Told, TypeOK, StepsInOrder,
         HandlesMatch, StopsWhenRemoved, manager, workers, shared, commands, Goto, Receives
<1>5. SecretsTracked'
  BY <1>0 DEF Reconnect, TypeOK, StepsInOrder, SecretsTracked, manager, workers, shared, commands,
         Goto, Shown
<1> QED BY <1>1, <1>2, <1>3, <1>4, <1>5 DEF Inv

\* disconnect removes the handle, tells the worker and waits for it.
LEMMA DisconnectInv ==
    ASSUME Inv, NEW s \in Sessions, Disconnect(s), UNCHANGED stalled
    PROVE  Inv'
<1> USE SessionsAssumption DEF KindsAssumption
<1>0. TypeOK /\ StepsInOrder /\ HandlesMatch /\ StopsWhenRemoved /\ SecretsTracked
  BY DEF Inv
<1>1. TypeOK'
  BY <1>0, Sending, RequestKinds, ToldQueues DEF Disconnect, TypeOK, manager, workers, shared,
         commands, Goto, OpenSteps, CloseSteps, Shown
<1>2. StepsInOrder'
  BY <1>0 DEF Disconnect, TypeOK, StepsInOrder, manager, workers, shared, commands, Goto, Shown
<1>3. HandlesMatch'
  <2> USE <1>0 DEF Disconnect, TypeOK, StepsInOrder, HandlesMatch, manager, workers, shared,
          commands, Goto, Shown
  <2>1. \A r \in Sessions : open'[r] \in {"idle", "spawn", "stop", "fail", "failed"} => r \notin handles'
    OBVIOUS
  <2>2. \A r \in handles' : open'[r] = "done" => r \in attached'
    OBVIOUS
  <2>3. \A r \in Sessions : lock' = <<"open", r>> <=> open'[r] \in {"shellReply", "stop", "tunnelReply"}
    BY Holders
  <2>4. \A r \in Sessions : lock' = <<"close", r>> <=> close'[r] \in {"join", "rejoin"}
    BY Holders
  <2> QED BY <2>1, <2>2, <2>3, <2>4
<1>4. StopsWhenRemoved'
  <2>1. UNCHANGED queue \/ Sends(s, "Shutdown")
    BY DEF Disconnect, manager, workers
  <2>2. \A r \in Sessions : Told(queue[r]) => Told(queue'[r])
    BY <1>0, <2>1, Sending, RequestKinds
  <2>3. worker[s] # "gone" /\ s \notin handles' => s \notin handles \/ Told(queue'[s])
    BY <1>0, Sending, RequestKinds DEF Disconnect, manager, Receives
  <2>4. UNCHANGED worker /\ handles \ {s} \subseteq handles'
    BY DEF Disconnect, manager, workers
  <2> QED BY <1>0, <2>2, <2>3, <2>4 DEF StopsWhenRemoved, Told
<1>5. SecretsTracked'
  BY <1>0 DEF Disconnect, TypeOK, StepsInOrder, SecretsTracked, manager, workers, shared,
         commands, Goto, Shown
<1> QED BY <1>1, <1>2, <1>3, <1>4, <1>5 DEF Inv

\* The worker has ended.
LEMMA JoinedInv ==
    ASSUME Inv, NEW s \in Sessions, Joined(s), UNCHANGED stalled
    PROVE  Inv'
<1> USE SessionsAssumption DEF KindsAssumption
<1>0. TypeOK /\ StepsInOrder /\ HandlesMatch /\ StopsWhenRemoved /\ SecretsTracked
  BY DEF Inv
<1>1. TypeOK'
  BY <1>0, Sending, RequestKinds, ToldQueues DEF Joined, TypeOK, manager, workers, shared,
         commands, Goto, OpenSteps, CloseSteps, Shown
<1>2. StepsInOrder'
  BY <1>0 DEF Joined, TypeOK, StepsInOrder, manager, workers, shared, commands, Goto, Shown
<1>3. HandlesMatch'
  <2> USE <1>0 DEF Joined, TypeOK, StepsInOrder, HandlesMatch, manager, workers, shared, commands,
          Goto, Shown
  <2>1. \A r \in Sessions : open'[r] \in {"idle", "spawn", "stop", "fail", "failed"} => r \notin handles'
    OBVIOUS
  <2>2. \A r \in handles' : open'[r] = "done" => r \in attached'
    OBVIOUS
  <2>3. \A r \in Sessions : lock' = <<"open", r>> <=> open'[r] \in {"shellReply", "stop", "tunnelReply"}
    BY Holders
  <2>4. \A r \in Sessions : lock' = <<"close", r>> <=> close'[r] \in {"join", "rejoin"}
    BY Holders
  <2> QED BY <2>1, <2>2, <2>3, <2>4
<1>4. StopsWhenRemoved'
  BY <1>0, Sending, RequestKinds, ToldQueues DEF Joined, Told, TypeOK, StepsInOrder, HandlesMatch,
         StopsWhenRemoved, manager, workers, shared, commands, Goto, Receives
<1>5. SecretsTracked'
  BY <1>0 DEF Joined, TypeOK, StepsInOrder, SecretsTracked, manager, workers, shared, commands,
         Goto, Shown
<1> QED BY <1>1, <1>2, <1>3, <1>4, <1>5 DEF Inv

\* session_reconnect opens a session again.
LEMMA ReopenInv ==
    ASSUME Inv, NEW s \in Sessions, Reopen(s), UNCHANGED stalled
    PROVE  Inv'
<1> USE SessionsAssumption DEF KindsAssumption
<1>0. TypeOK /\ StepsInOrder /\ HandlesMatch /\ StopsWhenRemoved /\ SecretsTracked
  BY DEF Inv
<1>1. PICK new \in Sessions : open' = open \/ open' = [open EXCEPT ![new] = "spawn"]
  BY DEF Reopen, Goto
<1>2. PICK next \in Sessions : reopens' = reopens \/ reopens' = [reopens EXCEPT ![s] = next]
  BY DEF Reopen
<1>3. close' = [close EXCEPT ![s] = "moved"]
  BY DEF Reopen
<1>4. TypeOK'
  <2>0. open \in [Sessions -> OpenSteps] /\ close \in [Sessions -> CloseSteps]
        /\ reopens \in [Sessions -> Sessions \cup {None}] /\ "spawn" \in OpenSteps /\ "moved" \in CloseSteps
    BY <1>0 DEF TypeOK, OpenSteps, CloseSteps
  <2>1. open' \in [Sessions -> OpenSteps] /\ close' \in [Sessions -> CloseSteps]
    BY <1>1, <1>3, <2>0
  <2>2. reopens' \in [Sessions -> Sessions \cup {None}]
    BY <1>2, <2>0
  <2> USE <1>0 DEF Reopen, TypeOK, manager, workers, shared, commands, Goto
  <2>3. call' \in [Calls -> {"idle", "sent", "done"}]
    OBVIOUS
  <2>4. worker' \in [Sessions -> {"none", "handshake", "ready", "refused", "serving", "gone"}]
    OBVIOUS
  <2>5. queue' \in [Sessions -> Seq(Requests)]
    BY Sending, RequestKinds, ToldQueues
  <2>6. reply' \in [Sessions -> {"none", "ok", "err"}]
    OBVIOUS
  <2>7. lock' \in ({"open", "close"} \X Sessions) \cup {None}
    OBVIOUS
  <2>8. handles' \subseteq Sessions /\ attached' \subseteq handles' /\ shell' \subseteq Sessions
    BY DEF StepsInOrder
  <2>9. logs' \subseteq Sessions /\ creds' \subseteq Sessions /\ keyring' \subseteq Sessions
    OBVIOUS
  <2> QED BY <2>1, <2>2, <2>3, <2>4, <2>5, <2>6, <2>7, <2>8, <2>9
<1>5. StepsInOrder'
  BY <1>0 DEF Reopen, TypeOK, StepsInOrder, manager, workers, shared, commands, Goto, Shown
<1>6. HandlesMatch'
  BY <1>0 DEF Reopen, TypeOK, StepsInOrder, HandlesMatch, manager, workers, shared, commands,
         Goto, Shown
<1>7. StopsWhenRemoved'
  BY <1>0, Sending, RequestKinds, ToldQueues DEF Reopen, Told, TypeOK, StepsInOrder, HandlesMatch,
         StopsWhenRemoved, manager, workers, shared, commands, Goto, Receives
<1>8. SecretsTracked'
  BY <1>0 DEF Reopen, TypeOK, StepsInOrder, SecretsTracked, manager, workers, shared, commands,
         Goto, Shown
<1> QED BY <1>4, <1>5, <1>6, <1>7, <1>8 DEF Inv

\* session_log_start.
LEMMA LogStartInv ==
    ASSUME Inv, NEW s \in Sessions, LogStart(s), UNCHANGED stalled
    PROVE  Inv'
<1> USE SessionsAssumption DEF KindsAssumption
<1>0. TypeOK /\ StepsInOrder /\ HandlesMatch /\ StopsWhenRemoved /\ SecretsTracked
  BY DEF Inv
<1>1. TypeOK'
  BY <1>0, Sending, RequestKinds, ToldQueues DEF LogStart, TypeOK, manager, workers, shared,
         commands, Goto, OpenSteps, CloseSteps, Shown
<1>2. StepsInOrder'
  BY <1>0 DEF LogStart, TypeOK, StepsInOrder, manager, workers, shared, commands, Goto, Shown
<1>3. HandlesMatch'
  BY <1>0 DEF LogStart, TypeOK, StepsInOrder, HandlesMatch, manager, workers, shared, commands,
         Goto, Shown
<1>4. StopsWhenRemoved'
  BY <1>0, Sending, RequestKinds, ToldQueues DEF LogStart, Told, TypeOK, StepsInOrder,
         HandlesMatch, StopsWhenRemoved, manager, workers, shared, commands, Goto, Receives
<1>5. SecretsTracked'
  BY <1>0 DEF LogStart, TypeOK, StepsInOrder, SecretsTracked, manager, workers, shared, commands,
         Goto, Shown
<1> QED BY <1>1, <1>2, <1>3, <1>4, <1>5 DEF Inv

\* session_log_stop.
LEMMA LogStopInv ==
    ASSUME Inv, NEW s \in Sessions, LogStop(s), UNCHANGED stalled
    PROVE  Inv'
<1> USE SessionsAssumption DEF KindsAssumption
<1>0. TypeOK /\ StepsInOrder /\ HandlesMatch /\ StopsWhenRemoved /\ SecretsTracked
  BY DEF Inv
<1>1. TypeOK'
  BY <1>0, Sending, RequestKinds, ToldQueues DEF LogStop, TypeOK, manager, workers, shared,
         commands, Goto, OpenSteps, CloseSteps, Shown
<1>2. StepsInOrder'
  BY <1>0 DEF LogStop, TypeOK, StepsInOrder, manager, workers, shared, commands, Goto, Shown
<1>3. HandlesMatch'
  BY <1>0 DEF LogStop, TypeOK, StepsInOrder, HandlesMatch, manager, workers, shared, commands,
         Goto, Shown
<1>4. StopsWhenRemoved'
  BY <1>0, Sending, RequestKinds, ToldQueues DEF LogStop, Told, TypeOK, StepsInOrder,
         HandlesMatch, StopsWhenRemoved, manager, workers, shared, commands, Goto, Receives
<1>5. SecretsTracked'
  BY <1>0 DEF LogStop, TypeOK, StepsInOrder, SecretsTracked, manager, workers, shared, commands,
         Goto, Shown
<1> QED BY <1>1, <1>2, <1>3, <1>4, <1>5 DEF Inv

\* session_cmd sends a command.
LEMMA CallSendInv ==
    ASSUME Inv, NEW s \in Sessions, NEW c \in Calls, CallSend(c, s), UNCHANGED stalled
    PROVE  Inv'
<1> USE SessionsAssumption DEF KindsAssumption
<1>0. TypeOK /\ StepsInOrder /\ HandlesMatch /\ StopsWhenRemoved /\ SecretsTracked
  BY DEF Inv
<1>1. TypeOK'
  <2> USE <1>0 DEF CallSend, TypeOK, manager, workers, shared, commands, Goto
  <2>1. open' \in [Sessions -> OpenSteps] /\ close' \in [Sessions -> CloseSteps]
    BY DEF OpenSteps, CloseSteps
  <2>2. reopens' \in [Sessions -> Sessions \cup {None}]
    OBVIOUS
  <2>3. call' \in [Calls -> {"idle", "sent", "done"}]
    <3>1. \E to \in {"sent", "done"} : call' = [call EXCEPT ![c] = to]
      OBVIOUS
    <3> QED BY <3>1
  <2>4. worker' \in [Sessions -> {"none", "handshake", "ready", "refused", "serving", "gone"}]
    OBVIOUS
  <2>5. queue' \in [Sessions -> Seq(Requests)]
    BY Sending, RequestKinds, ToldQueues
  <2>6. reply' \in [Sessions -> {"none", "ok", "err"}]
    OBVIOUS
  <2>7. lock' \in ({"open", "close"} \X Sessions) \cup {None}
    OBVIOUS
  <2>8. handles' \subseteq Sessions /\ attached' \subseteq handles' /\ shell' \subseteq Sessions
    BY DEF StepsInOrder
  <2>9. logs' \subseteq Sessions /\ creds' \subseteq Sessions /\ keyring' \subseteq Sessions
    OBVIOUS
  <2> QED BY <2>1, <2>2, <2>3, <2>4, <2>5, <2>6, <2>7, <2>8, <2>9
<1>2. StepsInOrder'
  BY <1>0 DEF CallSend, TypeOK, StepsInOrder, manager, workers, shared, commands, Goto, Shown
<1>3. HandlesMatch'
  BY <1>0 DEF CallSend, TypeOK, StepsInOrder, HandlesMatch, manager, workers, shared, commands,
         Goto, Shown
<1>4. StopsWhenRemoved'
  <2>1. UNCHANGED queue \/ Sends(s, c)
    BY DEF CallSend, manager, workers
  <2>2. \A r \in Sessions : Told(queue[r]) => Told(queue'[r])
    BY <1>0, <2>1, Sending, RequestKinds
  <2>3. worker[s] # "gone" /\ s \notin handles' => s \notin handles \/ Told(queue'[s])
    BY <1>0, Sending, RequestKinds DEF CallSend, manager, Receives
  <2>4. UNCHANGED worker /\ handles \ {s} \subseteq handles'
    BY DEF CallSend, manager, workers
  <2> QED BY <1>0, <2>2, <2>3, <2>4 DEF StopsWhenRemoved, Told
<1>5. SecretsTracked'
  BY <1>0 DEF CallSend, TypeOK, StepsInOrder, SecretsTracked, manager, workers, shared, commands,
         Goto, Shown
<1> QED BY <1>1, <1>2, <1>3, <1>4, <1>5 DEF Inv

\* The worker's handshake ends.
LEMMA HandshakeInv ==
    ASSUME Inv, NEW s \in Sessions, Handshake(s), UNCHANGED stalled
    PROVE  Inv'
<1> USE SessionsAssumption DEF KindsAssumption
<1>0. TypeOK /\ StepsInOrder /\ HandlesMatch /\ StopsWhenRemoved /\ SecretsTracked
  BY DEF Inv
<1>1. TypeOK'
  BY <1>0, Sending, RequestKinds, ToldQueues DEF Handshake, TypeOK, manager, workers, shared,
         commands, Goto, OpenSteps, CloseSteps, Shown
<1>2. StepsInOrder'
  BY <1>0 DEF Handshake, TypeOK, StepsInOrder, manager, workers, shared, commands, Goto, Shown
<1>3. HandlesMatch'
  BY <1>0 DEF Handshake, TypeOK, StepsInOrder, HandlesMatch, manager, workers, shared, commands,
         Goto, Shown
<1>4. StopsWhenRemoved'
  BY <1>0, Sending, RequestKinds, ToldQueues DEF Handshake, Told, TypeOK, StepsInOrder,
         HandlesMatch, StopsWhenRemoved, manager, workers, shared, commands, Goto, Receives
<1>5. SecretsTracked'
  BY <1>0 DEF Handshake, TypeOK, StepsInOrder, SecretsTracked, manager, workers, shared, commands,
         Goto, Shown
<1> QED BY <1>1, <1>2, <1>3, <1>4, <1>5 DEF Inv

\* The worker takes a command.
LEMMA ServeInv ==
    ASSUME Inv, NEW s \in Sessions, Serve(s), UNCHANGED stalled
    PROVE  Inv'
<1> USE SessionsAssumption DEF KindsAssumption
<1>0. TypeOK /\ StepsInOrder /\ HandlesMatch /\ StopsWhenRemoved /\ SecretsTracked
  BY DEF Inv
<1>1. TypeOK'
  <2> USE <1>0 DEF Serve, TypeOK, manager, workers, shared, commands, Goto
  <2>1. open' \in [Sessions -> OpenSteps] /\ close' \in [Sessions -> CloseSteps]
    BY DEF OpenSteps, CloseSteps
  <2>2. reopens' \in [Sessions -> Sessions \cup {None}]
    OBVIOUS
  <2>3. call' \in [Calls -> {"idle", "sent", "done"}]
    OBVIOUS
  <2>4. worker' \in [Sessions -> {"none", "handshake", "ready", "refused", "serving", "gone"}]
    OBVIOUS
  <2>5. queue' \in [Sessions -> Seq(Requests)]
    BY Sending, RequestKinds, ToldQueues
  <2>6. reply' \in [Sessions -> {"none", "ok", "err"}]
    OBVIOUS
  <2>7. lock' \in ({"open", "close"} \X Sessions) \cup {None}
    OBVIOUS
  <2>8. handles' \subseteq Sessions /\ attached' \subseteq handles' /\ shell' \subseteq Sessions
    BY DEF StepsInOrder
  <2>9. logs' \subseteq Sessions /\ creds' \subseteq Sessions /\ keyring' \subseteq Sessions
    OBVIOUS
  <2> QED BY <2>1, <2>2, <2>3, <2>4, <2>5, <2>6, <2>7, <2>8, <2>9
<1>2. StepsInOrder'
  BY <1>0 DEF Serve, TypeOK, StepsInOrder, manager, workers, shared, commands, Goto, Shown
<1>3. HandlesMatch'
  BY <1>0 DEF Serve, TypeOK, StepsInOrder, HandlesMatch, manager, workers, shared, commands, Goto,
         Shown
<1>4. StopsWhenRemoved'
  BY <1>0, Sending, RequestKinds, ToldQueues DEF Serve, Told, TypeOK, StepsInOrder, HandlesMatch,
         StopsWhenRemoved, manager, workers, shared, commands, Goto, Receives
<1>5. SecretsTracked'
  BY <1>0 DEF Serve, TypeOK, StepsInOrder, SecretsTracked, manager, workers, shared, commands,
         Goto, Shown
<1> QED BY <1>1, <1>2, <1>3, <1>4, <1>5 DEF Inv

\* The last shell ends.
LEMMA ShellEndsInv ==
    ASSUME Inv, NEW s \in Sessions, ShellEnds(s), UNCHANGED stalled
    PROVE  Inv'
<1> USE SessionsAssumption DEF KindsAssumption
<1>0. TypeOK /\ StepsInOrder /\ HandlesMatch /\ StopsWhenRemoved /\ SecretsTracked
  BY DEF Inv
<1>1. TypeOK'
  BY <1>0, Sending, RequestKinds, ToldQueues DEF ShellEnds, TypeOK, manager, workers, shared,
         commands, Goto, OpenSteps, CloseSteps, Shown
<1>2. StepsInOrder'
  BY <1>0 DEF ShellEnds, TypeOK, StepsInOrder, manager, workers, shared, commands, Goto, Shown
<1>3. HandlesMatch'
  BY <1>0 DEF ShellEnds, TypeOK, StepsInOrder, HandlesMatch, manager, workers, shared, commands,
         Goto, Shown
<1>4. StopsWhenRemoved'
  BY <1>0, Sending, RequestKinds, ToldQueues DEF ShellEnds, Told, TypeOK, StepsInOrder,
         HandlesMatch, StopsWhenRemoved, manager, workers, shared, commands, Goto, Receives
<1>5. SecretsTracked'
  BY <1>0 DEF ShellEnds, TypeOK, StepsInOrder, SecretsTracked, manager, workers, shared, commands,
         Goto, Shown
<1> QED BY <1>1, <1>2, <1>3, <1>4, <1>5 DEF Inv

\* Nothing is open at first.
LEMMA SessionsInit == Init => Inv
<1> SUFFICES ASSUME Init PROVE Inv
  OBVIOUS
<1> USE DEF Init
<1>1. TypeOK
  BY DEF TypeOK, OpenSteps, CloseSteps
<1>2. StepsInOrder
  BY DEF StepsInOrder
<1>3. HandlesMatch
  BY Holders DEF HandlesMatch
<1>4. StopsWhenRemoved /\ SecretsTracked
  BY DEF StopsWhenRemoved, SecretsTracked
<1> QED BY <1>1, <1>2, <1>3, <1>4 DEF Inv

\* The invariant of the session commands is inductive.
LEMMA SessionsNext == Inv /\ [Next]_vars => Inv'
<1> SUFFICES ASSUME Inv, [Next]_vars PROVE Inv'
  OBVIOUS
<1>1. CASE UNCHANGED sessionVars
  <2> USE <1>1 DEF sessionVars
  <2>1. TypeOK /\ StepsInOrder /\ HandlesMatch /\ StopsWhenRemoved /\ SecretsTracked
    BY DEF Inv
  <2>2. stalled' \subseteq Sessions
    BY <2>1 DEF Next, vars, Stall, Unstall, TypeOK
  <2>3. TypeOK'
    BY <2>1, <2>2 DEF TypeOK
  <2>4. StepsInOrder' /\ HandlesMatch' /\ StopsWhenRemoved' /\ SecretsTracked'
    BY <2>1 DEF StepsInOrder, HandlesMatch, StopsWhenRemoved, SecretsTracked
  <2> QED BY <2>3, <2>4 DEF Inv
<1>2. ASSUME NEW s \in Sessions, Step(s), UNCHANGED stalled PROVE Inv'
  <2>1. CASE Opening(s)
    BY <1>2, <2>1, SpawnInv, ReadyInv, AttachInv, AbandonInv, AskShellInv, GotShellInv, StoppedInv,
       AskTunnelInv, GotTunnelInv, FinishInv, FailInv DEF Opening
  <2>2. CASE Closing(s)
    BY <1>2, <2>2, DisconnectInv, JoinedInv, ReopenInv DEF Closing
  <2>3. CASE Working(s)
    BY <1>2, <2>3, HandshakeInv, ServeInv DEF Working
  <2> QED
    BY <1>2, <2>1, <2>2, <2>3, OpenInv, CloseInv, ReconnectInv, LogStartInv, LogStopInv, ShellEndsInv,
       CallSendInv DEF Step
<1>3. UNCHANGED vars => UNCHANGED sessionVars
  BY DEF vars
<1>4. ASSUME NEW s \in Sessions, Stall(s) \/ Unstall(s) PROVE UNCHANGED sessionVars
  BY <1>4 DEF Stall, Unstall
<1> QED BY <1>1, <1>2, <1>3, <1>4 DEF Next

\* However session_open, session_close, session_reconnect and session_cmd interleave
\* with the workers: the mutex is held by who holds it, a worker without a handle was
\* told to stop, and no password of a quick connection stays in the keyring
\* (crates/app/src/commands/session.rs).
THEOREM SessionsCorrect == Spec => []Inv
BY SessionsInit, SessionsNext, PTL DEF Spec

-----------------------------------------------------------------------------
(* The tunnels *)

\* The instance's Cardinality is that of the library.
LEMMA ForwardsSets == \A S : Forwards!Cardinality(S) = Cardinality(S)
BY DEF Forwards!Cardinality, Cardinality

\* The assumptions on the constants, one by one.
LEMMA Bounds == MaxStarts \in Nat /\ None \notin Tunnels /\ None \notin Refreshes /\ Remote \subseteq Tunnels /\ MaxCommands \in Nat
BY ForwardsAssumption DEF Forwards!TunnelsAssumption

\* The instances of a tunnel that were started.
InstancesOf(t) == {k \in 1..MaxStarts : thread[<<t, k>>] # "none"}

\* There are at most MaxStarts of them.
LEMMA StartedCounts ==
    ASSUME NEW t
    PROVE  /\ Forwards!Started(t) = Cardinality(InstancesOf(t))
           /\ Forwards!Started(t)' = Cardinality(InstancesOf(t)')
           /\ IsFiniteSet(InstancesOf(t)) /\ IsFiniteSet(InstancesOf(t)')
           /\ Forwards!Started(t) \in 0..MaxStarts
<1>1. IsFiniteSet(1..MaxStarts) /\ Cardinality(1..MaxStarts) = MaxStarts
  BY Bounds, FS_Interval
<1>2. InstancesOf(t) \subseteq 1..MaxStarts /\ InstancesOf(t)' \subseteq 1..MaxStarts
  BY DEF InstancesOf
<1>3. IsFiniteSet(InstancesOf(t)) /\ IsFiniteSet(InstancesOf(t)')
      /\ Cardinality(InstancesOf(t)) <= MaxStarts
  BY <1>1, <1>2, FS_Subset
<1>4. Cardinality(InstancesOf(t)) \in Nat
  BY <1>3, FS_CardinalityType
<1>5. Forwards!Started(t) = Cardinality(InstancesOf(t))
  BY ForwardsSets DEF Forwards!Started, InstancesOf
<1>6. Forwards!Started(t)' = Cardinality(InstancesOf(t)')
  BY ForwardsSets DEF Forwards!Started, InstancesOf
<1> QED BY <1>3, <1>4, <1>5, <1>6, Bounds

\* A step that starts no instance does not change their number.
LEMMA StartedStays ==
    ASSUME NEW t, \A k \in 1..MaxStarts : thread'[<<t, k>>] # "none" <=> thread[<<t, k>>] # "none"
    PROVE  Forwards!Started(t)' = Forwards!Started(t)
<1>1. InstancesOf(t)' = InstancesOf(t)
  BY DEF InstancesOf
<1> QED BY <1>1, StartedCounts

\* A new instance is one more.
LEMMA StartedGrows ==
    ASSUME NEW t, NEW n \in 1..MaxStarts, thread[<<t, n>>] = "none", thread'[<<t, n>>] # "none",
           \A k \in 1..MaxStarts : k # n => thread'[<<t, k>>] = thread[<<t, k>>]
    PROVE  Forwards!Started(t)' = Forwards!Started(t) + 1
<1>1. InstancesOf(t)' = InstancesOf(t) \cup {n} /\ n \notin InstancesOf(t)
  BY DEF InstancesOf
<1>2. Cardinality(InstancesOf(t) \cup {n}) = Cardinality(InstancesOf(t)) + 1
  BY <1>1, StartedCounts, FS_AddElement
<1> QED BY <1>1, <1>2, StartedCounts

\* Their numbers.
Starts == [t \in Tunnels |-> Forwards!Started(t)]

\* An event of an instance that is over, if it says so.
Over(e) ==
    e.state = "stopped" =>
        /\ e.start <= Starts[e.tunnel]
        /\ e.start = Starts[e.tunnel] => handle[e.tunnel] = 0 /\ serving # e.tunnel

\* StoppedIsOver, event by event.
Sound == \A n \in DOMAIN wire : Over(wire[n])

\* What a sequence is made of.
LEMMA Elements ==
    ASSUME NEW S, NEW q \in Seq(S)
    PROVE  \A n \in DOMAIN q : q[n] \in S
OBVIOUS

\* What an event is about.
LEMMA EventFields ==
    ASSUME NEW e \in Forwards!Events
    PROVE  e.tunnel \in Tunnels /\ e.start \in 1..MaxStarts /\ e.start \in Nat
BY Bounds DEF Forwards!Events

\* StoppedIsOver, before and after a step, is about each event.
LEMMA WireOver ==
    /\ wire \in Seq(Forwards!Events) => (Forwards!StoppedIsOver <=> Sound)
    /\ wire' \in Seq(Forwards!Events) => (Forwards!StoppedIsOver' <=> Sound')
<1>1. ASSUME wire \in Seq(Forwards!Events) PROVE Forwards!StoppedIsOver <=> Sound
  <2>1. \A n \in DOMAIN wire : wire[n].tunnel \in Tunnels
    BY <1>1, Elements, EventFields
  <2> QED BY <2>1 DEF Forwards!StoppedIsOver, Over, Sound, Starts
<1>2. ASSUME wire' \in Seq(Forwards!Events) PROVE Forwards!StoppedIsOver' <=> Sound'
  <2>1. \A n \in DOMAIN wire' : wire'[n].tunnel \in Tunnels
    BY <1>2, Elements, EventFields
  <2> QED BY <2>1 DEF Forwards!StoppedIsOver, Over, Sound, Starts
<1> QED BY <1>1, <1>2

\* What is on its way stays as sound as the events are, in the order they are in.
WireHolds == wire \in Seq(Forwards!Events) /\ Forwards!StoppedIsOver /\ Forwards!StoppedIsLast

\* No event is sent or handled.
LEMMA WireWaits ==
    ASSUME WireHolds, UNCHANGED wire, \A e \in Forwards!Events : Over(e) => Over(e)'
    PROVE  WireHolds'
<1>1. Sound'
  BY WireOver, Elements DEF WireHolds, Sound
<1>2. Forwards!StoppedIsLast'
  BY DEF WireHolds, Forwards!StoppedIsLast
<1> QED BY <1>1, <1>2, WireOver DEF WireHolds

\* The UI handles an event.
LEMMA WireShrinks ==
    ASSUME WireHolds, wire # <<>>, wire' = Tail(wire), \A e \in Forwards!Events : Over(e) => Over(e)'
    PROVE  WireHolds'
<1>1. /\ wire' \in Seq(Forwards!Events)
      /\ \A n \in DOMAIN wire' : n \in Nat /\ n + 1 \in DOMAIN wire /\ wire'[n] = wire[n + 1]
  BY DEF WireHolds
<1>2. Sound'
  BY <1>1, WireOver, Elements DEF WireHolds, Sound
<1>3. Forwards!StoppedIsLast'
  BY <1>1 DEF WireHolds, Forwards!StoppedIsLast
<1> QED BY <1>1, <1>2, <1>3, WireOver DEF WireHolds

\* An event is sent: it comes after every "stopped" of an earlier instance, and of no
\* later one.
LEMMA WireGrows ==
    ASSUME WireHolds, NEW e \in Forwards!Events, wire' = Append(wire, e),
           \A x \in Forwards!Events : Over(x) => Over(x)',
           Over(e)',
           \A x \in Forwards!Events : Over(x) /\ x.state = "stopped" /\ x.tunnel = e.tunnel => x.start < e.start
    PROVE  WireHolds'
<1>1. /\ wire' \in Seq(Forwards!Events)
      /\ \A n \in DOMAIN wire' : (n \in DOMAIN wire /\ wire'[n] = wire[n]) \/ (n = Len(wire) + 1 /\ wire'[n] = e)
      /\ \A n \in DOMAIN wire : n \in Nat /\ n <= Len(wire)
      /\ Len(wire) \in Nat
  BY DEF WireHolds
<1>2. \A n \in DOMAIN wire : wire[n] \in Forwards!Events /\ Over(wire[n])
  BY WireOver, Elements DEF WireHolds, Sound
<1>3. Sound'
  BY <1>1, <1>2 DEF Sound
<1>4. Forwards!StoppedIsLast'
  <2> SUFFICES ASSUME NEW m \in DOMAIN wire', NEW n \in DOMAIN wire', m < n,
                      wire'[m].state = "stopped", wire'[m].tunnel = wire'[n].tunnel
               PROVE  wire'[n].start > wire'[m].start
    BY DEF Forwards!StoppedIsLast
  <2>1. m \in DOMAIN wire /\ wire'[m] = wire[m]
    BY <1>1
  <2>2. CASE n \in DOMAIN wire /\ wire'[n] = wire[n]
    BY <2>1, <2>2 DEF WireHolds, Forwards!StoppedIsLast
  <2>3. CASE wire'[n] = e
    <3>1. wire[m].start < e.start
      BY <1>2, <2>1, <2>3
    <3>2. wire[m].start \in Nat /\ e.start \in Nat
      BY <1>2, <2>1, EventFields
    <3> QED BY <2>1, <2>3, <3>1, <3>2
  <2> QED BY <1>1, <2>2, <2>3
<1> QED BY <1>1, <1>3, <1>4, WireOver DEF WireHolds

\* The inductive invariant of the tunnels: Inv and StoppedForGood together.
ForwardsHold ==
    /\ Forwards!TypeOK /\ Forwards!StartedInOrder /\ Forwards!HandlesMatch
    /\ Forwards!NoStrayListener /\ Forwards!RelaysAreTold /\ WireHolds

\* Where the sub-worker serves a tunnel.
Busy == {"announce", "join", "joinAll"}

\* A step that starts and stops nothing.
LEMMA QuietHolds ==
    ASSUME ForwardsHold, Forwards!TypeOK',
           UNCHANGED <<serving, handle, thread, stop>>, relays' \subseteq relays,
           at' = at \/ (at \notin Busy /\ at' \notin Busy),
           UNCHANGED wire \/ (wire # <<>> /\ wire' = Tail(wire))
    PROVE  ForwardsHold'
<1>0. /\ Forwards!TypeOK /\ Forwards!StartedInOrder /\ Forwards!HandlesMatch
      /\ Forwards!NoStrayListener /\ Forwards!RelaysAreTold /\ WireHolds
  BY DEF ForwardsHold
<1>2. \A t : Forwards!Started(t)' = Forwards!Started(t)
  BY StartedStays
<1>3. Forwards!StartedInOrder'
  BY <1>0, <1>2 DEF Forwards!StartedInOrder, Forwards!Joining, Busy
<1>4. Forwards!HandlesMatch'
  BY <1>0, <1>2 DEF Forwards!HandlesMatch, Busy
<1>5. Forwards!NoStrayListener'
  BY <1>0, <1>2 DEF Forwards!NoStrayListener, Forwards!Joining, Forwards!Running
<1>6. Forwards!RelaysAreTold'
  BY <1>0, <1>2 DEF Forwards!RelaysAreTold, Forwards!Joining, Busy
<1>7. \A e \in Forwards!Events : Over(e) => Over(e)'
  BY <1>2 DEF Over, Starts
<1>8. WireHolds'
  BY <1>0, <1>7, WireWaits, WireShrinks
<1> QED BY <1>3, <1>4, <1>5, <1>6, <1>8 DEF ForwardsHold

\* An instance is of a tunnel.
LEMMA InstanceOf ==
    ASSUME NEW i \in Forwards!Instances
    PROVE  i[1] \in Tunnels /\ i[2] \in 1..MaxStarts /\ i = <<i[1], i[2]>> /\ i[2] \in Nat \ {0}
BY Bounds DEF Forwards!Instances

\* An instance that runs is the last of its tunnel: that of a handle, or the one that
\* is announced or waited for.
LEMMA RunningIsLast ==
    ASSUME ForwardsHold, NEW i \in Forwards!Instances, Forwards!Running(i)
    PROVE  /\ i[2] = Forwards!Started(i[1])
           /\ handle[i[1]] = i[2] \/ serving = i[1]
           /\ i \notin stop => handle[i[1]] = i[2] \/ (at = "announce" /\ i = Forwards!Joining(serving))
<1>0. /\ Forwards!TypeOK /\ Forwards!StartedInOrder /\ Forwards!HandlesMatch /\ Forwards!NoStrayListener
  BY DEF ForwardsHold
<1>1. i[1] \in Tunnels /\ i[2] \in 1..MaxStarts /\ i = <<i[1], i[2]>> /\ i[2] \in Nat \ {0}
  BY InstanceOf
<1>2. handle[i[1]] = i[2] \/ (serving = i[1] /\ i = <<i[1], Forwards!Started(i[1])>>)
  BY <1>0 DEF Forwards!NoStrayListener, Forwards!Joining
<1>3. i[2] = Forwards!Started(i[1])
  BY <1>0, <1>1, <1>2 DEF Forwards!HandlesMatch
<1>4. serving = i[1] => at \in Busy
  BY <1>0, <1>1, Bounds DEF Forwards!HandlesMatch, Busy
<1>5. serving = i[1] => i = Forwards!Joining(serving)
  BY <1>1, <1>3 DEF Forwards!Joining
<1>6. serving = i[1] /\ i \notin stop => at = "announce"
  BY <1>0, <1>4, <1>5 DEF Forwards!StartedInOrder, Busy
<1> QED BY <1>2, <1>3, <1>5, <1>6

\* A running thread goes on or ends; if it failed, it sends its error.
LEMMA ThreadHolds ==
    ASSUME ForwardsHold, Forwards!TypeOK', NEW i \in Forwards!Instances, Forwards!Running(i),
           NEW x, x # "none", thread' = [thread EXCEPT ![i] = x],
           UNCHANGED <<at, serving, handle, stop, relays>>,
           UNCHANGED wire \/ wire' = Append(wire, [tunnel |-> i[1], start |-> i[2], state |-> "error"])
    PROVE  ForwardsHold'
<1>0. /\ Forwards!TypeOK /\ Forwards!StartedInOrder /\ Forwards!HandlesMatch
      /\ Forwards!NoStrayListener /\ Forwards!RelaysAreTold /\ WireHolds
  BY DEF ForwardsHold
<1>1. /\ thread[i] # "none" /\ thread'[i] # "none"
      /\ \A j \in Forwards!Instances : j # i => thread'[j] = thread[j]
  BY <1>0 DEF Forwards!TypeOK, Forwards!Running
<1>2. \A t \in Tunnels, k \in 1..MaxStarts : thread'[<<t, k>>] # "none" <=> thread[<<t, k>>] # "none"
  BY <1>1 DEF Forwards!Instances
<1>3. \A t \in Tunnels : Forwards!Started(t)' = Forwards!Started(t)
  BY <1>2, StartedStays
<1>4. \A j \in Forwards!Instances : thread'[j] # "none" <=> thread[j] # "none"
  BY <1>1
<1>5. serving \in Tunnels \/ at \notin Busy
  BY <1>0 DEF Forwards!TypeOK, Forwards!HandlesMatch, Busy
<1>6. Forwards!StartedInOrder'
  <2>1. \A t \in Tunnels, k \in 1..MaxStarts : thread'[<<t, k>>] # "none" <=> k <= Forwards!Started(t)'
    BY <1>0, <1>2, <1>3 DEF Forwards!StartedInOrder
  <2>2. \A j \in stop' \cup relays' : thread'[j] # "none"
    BY <1>0, <1>4 DEF Forwards!StartedInOrder, Forwards!TypeOK
  <2>3. at' \in Busy => Forwards!Joining(serving)' = Forwards!Joining(serving)
                       /\ Forwards!Started(serving)' = Forwards!Started(serving)
    BY <1>3, <1>5 DEF Forwards!Joining, Busy
  <2> QED BY <1>0, <2>1, <2>2, <2>3 DEF Forwards!StartedInOrder, Busy
<1>7. Forwards!HandlesMatch'
  BY <1>0, <1>3 DEF Forwards!HandlesMatch
<1>8. Forwards!NoStrayListener'
  <2> SUFFICES ASSUME NEW j \in Forwards!Instances, Forwards!Running(j)'
               PROVE  handle[j[1]] = j[2] \/ (serving = j[1] /\ j = Forwards!Joining(j[1])')
    BY DEF Forwards!NoStrayListener
  <2>1. Forwards!Running(j)
    BY <1>1 DEF Forwards!Running
  <2> QED BY <1>0, <1>3, <2>1, InstanceOf DEF Forwards!NoStrayListener, Forwards!Joining
<1>9. Forwards!RelaysAreTold'
  BY <1>0, <1>3, <1>5 DEF Forwards!RelaysAreTold, Forwards!Joining, Busy
<1>10. \A e \in Forwards!Events : Over(e) => Over(e)'
  BY <1>3, EventFields DEF Over, Starts
<1>11. WireHolds'
  <2>1. CASE UNCHANGED wire
    BY <1>0, <1>10, <2>1, WireWaits
  <2>2. CASE wire' = Append(wire, [tunnel |-> i[1], start |-> i[2], state |-> "error"])
    <3> DEFINE e == [tunnel |-> i[1], start |-> i[2], state |-> "error"]
    <3>1. e \in Forwards!Events /\ e.state = "error" /\ e.tunnel = i[1] /\ e.start = i[2]
      BY InstanceOf DEF Forwards!Events
    <3>2. Over(e)'
      BY <3>1 DEF Over
    <3>3. ASSUME NEW y \in Forwards!Events, Over(y), y.state = "stopped", y.tunnel = i[1]
          PROVE  y.start < i[2]
      <4>1. i[2] = Starts[i[1]] /\ (handle[i[1]] = i[2] \/ serving = i[1])
        BY RunningIsLast, InstanceOf DEF Starts
      <4>2. y.start <= i[2] /\ (y.start = i[2] => handle[i[1]] = 0 /\ serving # i[1])
        BY <3>3, <4>1 DEF Over
      <4> QED BY <4>1, <4>2, InstanceOf, EventFields
    <3> HIDE DEF e
    <3> QED BY <1>0, <1>10, <2>2, <3>1, <3>2, <3>3, WireGrows DEF e
  <2> QED BY <2>1, <2>2
<1> QED BY <1>6, <1>7, <1>8, <1>9, <1>11 DEF ForwardsHold


\* start_tunnel keeps the handle of the last instance.
LEMMA AnnounceHolds ==
    ASSUME ForwardsHold, Forwards!Announce
    PROVE  ForwardsHold'
<1>0. /\ Forwards!TypeOK /\ Forwards!StartedInOrder /\ Forwards!HandlesMatch
      /\ Forwards!NoStrayListener /\ Forwards!RelaysAreTold /\ WireHolds
  BY DEF ForwardsHold
<1>1. /\ at = "announce" /\ at' = "ready" /\ serving' = None
      /\ handle' = [handle EXCEPT ![serving] = Forwards!Started(serving)]
      /\ wire' = Append(wire, [tunnel |-> serving, start |-> Forwards!Started(serving), state |-> "running"])
      /\ UNCHANGED <<thread, stop, relays, chan, given, asked, answer, live, closing>>
  BY DEF Forwards!Announce, Forwards!Emit, Forwards!threads, Forwards!ui
<1>2. \A t : Forwards!Started(t)' = Forwards!Started(t)
  BY <1>1, StartedStays
<1>3. PICK s \in Tunnels : s = serving
  BY <1>0, <1>1 DEF Forwards!TypeOK, Forwards!HandlesMatch
<1>4. /\ Forwards!Started(s) \in 1..MaxStarts /\ <<s, Forwards!Started(s)>> \notin stop
      /\ thread[<<s, Forwards!Started(s)>>] # "none" /\ handle[s] = 0
  BY <1>0, <1>1, <1>3, StartedCounts DEF Forwards!StartedInOrder, Forwards!Joining,
         Forwards!HandlesMatch
<1>5. handle'[s] = Forwards!Started(s) /\ \A t \in Tunnels : t # s => handle'[t] = handle[t]
  BY <1>0, <1>1, <1>3 DEF Forwards!TypeOK
<1>6. Forwards!TypeOK'
  <2>1. handle' \in [Tunnels -> 0..MaxStarts]
    BY <1>0, <1>1, <1>4, <1>3 DEF Forwards!TypeOK
  <2>2. wire' \in Seq(Forwards!Events)
    <3>1. [tunnel |-> serving, start |-> Forwards!Started(serving), state |-> "running"] \in Forwards!Events
      BY <1>3, <1>4 DEF Forwards!Events
    <3> QED BY <1>0, <1>1, <3>1 DEF Forwards!TypeOK
  <2> QED BY <1>0, <1>1, <2>1, <2>2 DEF Forwards!TypeOK
<1>7. Forwards!StartedInOrder'
  BY <1>0, <1>1, <1>2 DEF Forwards!StartedInOrder
<1>8. Forwards!HandlesMatch'
  BY <1>0, <1>1, <1>2, <1>3, <1>4, <1>5, Bounds DEF Forwards!HandlesMatch
<1>9. Forwards!NoStrayListener'
  <2> SUFFICES ASSUME NEW j \in Forwards!Instances, Forwards!Running(j)'
               PROVE  handle'[j[1]] = j[2]
    BY DEF Forwards!NoStrayListener
  <2>1. Forwards!Running(j)
    BY <1>1 DEF Forwards!Running
  <2> QED BY <1>3, <1>4, <1>5, <2>1, RunningIsLast, InstanceOf
<1>10. Forwards!RelaysAreTold'
  <2> SUFFICES ASSUME NEW j \in relays, j \notin stop PROVE handle'[j[1]] = j[2]
    BY <1>1 DEF Forwards!RelaysAreTold
  <2>1. handle[j[1]] = j[2] \/ j = <<s, Forwards!Started(s)>>
    BY <1>0, <1>3 DEF Forwards!RelaysAreTold, Forwards!Joining
  <2>2. j \in Forwards!Instances
    BY <1>0 DEF Forwards!TypeOK
  <2> QED BY <1>4, <1>5, <2>1, <2>2, InstanceOf
<1>11. \A e \in Forwards!Events : Over(e) => Over(e)'
  BY <1>1, <1>2, <1>3, <1>5, EventFields, Bounds DEF Over, Starts
<1>12. WireHolds'
  <2>5. PICK e : e = [tunnel |-> s, start |-> Forwards!Started(s), state |-> "running"]
    OBVIOUS
  <2>1. e \in Forwards!Events /\ e.state = "running" /\ e.tunnel = s /\ e.start = Forwards!Started(s)
    BY <1>3, <1>4, <2>5 DEF Forwards!Events
  <2>2. Over(e)'
    BY <1>1, <2>1 DEF Over
  <2>3. ASSUME NEW y \in Forwards!Events, Over(y), y.state = "stopped", y.tunnel = e.tunnel
        PROVE  y.start < e.start
    BY <1>3, <1>4, <2>1, <2>3, EventFields, Bounds DEF Over, Starts
  <2>4. wire' = Append(wire, e)
    BY <1>1, <1>3, <2>5
  <2> QED BY <1>0, <1>11, <2>1, <2>2, <2>3, <2>4, WireGrows
<1> QED BY <1>6, <1>7, <1>8, <1>9, <1>10, <1>12 DEF ForwardsHold

\* The flag of a tunnel is set, and its thread waited for.
LEMMA StopHolds ==
    ASSUME ForwardsHold, Forwards!TypeOK', NEW s \in Tunnels, handle[s] # 0, at \notin Busy,
           stop' = stop \cup {<<s, handle[s]>>}, handle' = [handle EXCEPT ![s] = 0],
           serving' = s, at' \in {"join", "joinAll"}, UNCHANGED <<thread, relays, wire>>
    PROVE  ForwardsHold'
<1>0. /\ Forwards!TypeOK /\ Forwards!StartedInOrder /\ Forwards!HandlesMatch
      /\ Forwards!NoStrayListener /\ Forwards!RelaysAreTold /\ WireHolds
  BY DEF ForwardsHold
<1>1. \A t : Forwards!Started(t)' = Forwards!Started(t)
  BY StartedStays
<1>2. serving = None
  BY <1>0 DEF Forwards!HandlesMatch, Busy
<1>3. handle'[s] = 0 /\ \A t \in Tunnels : t # s => handle'[t] = handle[t]
  BY <1>0 DEF Forwards!TypeOK
<1>4. /\ handle[s] = Forwards!Started(s) /\ handle[s] \in 1..MaxStarts
      /\ thread[<<s, handle[s]>>] # "none"
  BY <1>0, Bounds DEF Forwards!HandlesMatch, Forwards!TypeOK, Forwards!StartedInOrder
<1>5. Forwards!Joining(serving)' = <<s, handle[s]>>
  BY <1>1, <1>4 DEF Forwards!Joining
<1>6. Forwards!StartedInOrder'
  BY <1>0, <1>1, <1>4, <1>5 DEF Forwards!StartedInOrder
<1>7. Forwards!HandlesMatch'
  <2>1. \A t \in Tunnels : handle'[t] # 0 => handle'[t] = Forwards!Started(t)' /\ <<t, handle'[t]>> \notin stop'
    BY <1>0, <1>1, <1>3 DEF Forwards!HandlesMatch
  <2> QED BY <1>3, <2>1, Bounds DEF Forwards!HandlesMatch
<1>8. Forwards!NoStrayListener'
  <2> SUFFICES ASSUME NEW j \in Forwards!Instances, Forwards!Running(j)'
               PROVE  handle'[j[1]] = j[2] \/ (serving' = j[1] /\ j = Forwards!Joining(j[1])')
    BY DEF Forwards!NoStrayListener
  <2>1. Forwards!Running(j)
    BY DEF Forwards!Running
  <2>2. handle[j[1]] = j[2] /\ j[2] = Forwards!Started(j[1])
    BY <1>2, <2>1, RunningIsLast, InstanceOf, Bounds
  <2>3. CASE j[1] = s
    <3>1. j = Forwards!Joining(j[1])'
      BY <1>1, <2>2, InstanceOf DEF Forwards!Joining
    <3> QED BY <2>3, <3>1
  <2>4. CASE j[1] # s
    BY <1>3, <2>2, <2>4, InstanceOf
  <2> QED BY <2>3, <2>4
<1>9. Forwards!RelaysAreTold'
  <2> SUFFICES ASSUME NEW j \in relays PROVE j \in stop' \/ handle'[j[1]] = j[2]
    BY DEF Forwards!RelaysAreTold
  <2>1. j \in stop \/ handle[j[1]] = j[2]
    BY <1>0 DEF Forwards!RelaysAreTold, Busy
  <2>2. j \in Forwards!Instances
    BY <1>0 DEF Forwards!TypeOK
  <2> QED BY <1>3, <2>1, <2>2, InstanceOf
<1>10. \A e \in Forwards!Events : Over(e) => Over(e)'
  BY <1>1, <1>3, EventFields DEF Over, Starts
<1>11. WireHolds'
  BY <1>0, <1>10, WireWaits
<1> QED BY <1>6, <1>7, <1>8, <1>9, <1>11 DEF ForwardsHold

\* The thread has ended; its "stopped" is sent, or, in the teardown, nothing.
LEMMA JoinHolds ==
    ASSUME ForwardsHold, Forwards!TypeOK', at \in {"join", "joinAll"}, at' \notin Busy,
           ~ Forwards!Running(Forwards!Joining(serving)), serving' = None,
           UNCHANGED <<thread, stop, relays, handle>>,
           UNCHANGED wire
             \/ wire' = Append(wire, [tunnel |-> serving, start |-> Forwards!Started(serving), state |-> "stopped"])
    PROVE  ForwardsHold'
<1>0. /\ Forwards!TypeOK /\ Forwards!StartedInOrder /\ Forwards!HandlesMatch
      /\ Forwards!NoStrayListener /\ Forwards!RelaysAreTold /\ WireHolds
  BY DEF ForwardsHold
<1>1. \A t : Forwards!Started(t)' = Forwards!Started(t)
  BY StartedStays
<1>2. PICK s \in Tunnels : s = serving
  BY <1>0 DEF Forwards!TypeOK, Forwards!HandlesMatch
<1>3. /\ handle[s] = 0 /\ ~ Forwards!Running(<<s, Forwards!Started(s)>>)
      /\ <<s, Forwards!Started(s)>> \in stop
  BY <1>0, <1>2 DEF Forwards!HandlesMatch, Forwards!Joining, Forwards!StartedInOrder
<1>4. Forwards!Started(s) \in 1..MaxStarts
  BY <1>0, <1>3 DEF Forwards!TypeOK, Forwards!Instances
<1>5. Forwards!StartedInOrder'
  BY <1>0, <1>1 DEF Forwards!StartedInOrder, Busy
<1>6. Forwards!HandlesMatch'
  BY <1>0, <1>1 DEF Forwards!HandlesMatch, Busy
<1>7. Forwards!NoStrayListener'
  <2> SUFFICES ASSUME NEW j \in Forwards!Instances, Forwards!Running(j)' PROVE handle'[j[1]] = j[2]
    BY DEF Forwards!NoStrayListener
  <2>1. Forwards!Running(j)
    BY DEF Forwards!Running
  <2>2. j[1] # s
    BY <1>3, <2>1, RunningIsLast, InstanceOf
  <2> QED BY <1>2, <2>1, <2>2, RunningIsLast
<1>8. Forwards!RelaysAreTold'
  BY <1>0 DEF Forwards!RelaysAreTold
<1>9. \A e \in Forwards!Events : Over(e) => Over(e)'
  BY <1>1, EventFields, Bounds DEF Over, Starts
<1>10. WireHolds'
  <2>1. CASE UNCHANGED wire
    BY <1>0, <1>9, <2>1, WireWaits
  <2>2. CASE wire' = Append(wire, [tunnel |-> serving, start |-> Forwards!Started(serving), state |-> "stopped"])
    <3>1. PICK e : e = [tunnel |-> s, start |-> Forwards!Started(s), state |-> "stopped"]
      OBVIOUS
    <3>2. e \in Forwards!Events /\ e.state = "stopped" /\ e.tunnel = s /\ e.start = Forwards!Started(s)
      BY <1>4, <3>1 DEF Forwards!Events
    <3>3. Over(e)'
      BY <1>1, <1>3, <1>4, <3>2, Bounds DEF Over, Starts
    <3>4. ASSUME NEW y \in Forwards!Events, Over(y), y.state = "stopped", y.tunnel = e.tunnel
          PROVE  y.start < e.start
      BY <1>2, <1>4, <3>2, <3>4, EventFields, Bounds DEF Over, Starts
    <3>5. wire' = Append(wire, e)
      BY <1>2, <2>2, <3>1
    <3> QED BY <1>0, <1>9, <3>2, <3>3, <3>4, <3>5, WireGrows
  <2> QED BY <2>1, <2>2
<1> QED BY <1>5, <1>6, <1>7, <1>8, <1>10 DEF ForwardsHold

\* A new instance, while none of its tunnel runs.
LEMMA StartHolds ==
    ASSUME ForwardsHold, Forwards!TypeOK', NEW s \in Tunnels, handle[s] = 0, at \notin Busy,
           Forwards!Started(s) < MaxStarts, NEW x, x # "none",
           thread' = [thread EXCEPT ![<<s, Forwards!Started(s) + 1>>] = x],
           serving' = s, at' = "announce", UNCHANGED <<stop, handle, relays, wire>>
    PROVE  ForwardsHold'
<1>0. /\ Forwards!TypeOK /\ Forwards!StartedInOrder /\ Forwards!HandlesMatch
      /\ Forwards!NoStrayListener /\ Forwards!RelaysAreTold /\ WireHolds
  BY DEF ForwardsHold
<1>1. PICK n : n = Forwards!Started(s) + 1
  OBVIOUS
<1>2. n \in 1..MaxStarts /\ n \in Nat /\ Forwards!Started(s) \in Nat
  BY <1>1, StartedCounts, Bounds
<1>3. thread[<<s, n>>] = "none" /\ <<s, n>> \in Forwards!Instances
  BY <1>0, <1>1, <1>2 DEF Forwards!StartedInOrder, Forwards!Instances
<1>4. /\ thread'[<<s, n>>] = x
      /\ \A j \in Forwards!Instances : j # <<s, n>> => thread'[j] = thread[j]
  BY <1>0, <1>1, <1>3 DEF Forwards!TypeOK
<1>5. Forwards!Started(s)' = n
  <2>1. \A k \in 1..MaxStarts : k # n => thread'[<<s, k>>] = thread[<<s, k>>]
    BY <1>4 DEF Forwards!Instances
  <2> QED BY <1>1, <1>2, <1>3, <1>4, <2>1, StartedGrows
<1>6. \A t \in Tunnels : t # s => Forwards!Started(t)' = Forwards!Started(t)
  <2>1. \A t \in Tunnels, k \in 1..MaxStarts : t # s => thread'[<<t, k>>] = thread[<<t, k>>]
    BY <1>4 DEF Forwards!Instances
  <2> QED BY <2>1, StartedStays
<1>7. serving = None
  BY <1>0 DEF Forwards!HandlesMatch, Busy
<1>8. <<s, n>> \notin stop \cup relays
  BY <1>0, <1>3 DEF Forwards!StartedInOrder
<1>9. Forwards!StartedInOrder'
  <2>1. \A t \in Tunnels, k \in 1..MaxStarts : thread'[<<t, k>>] # "none" <=> k <= Forwards!Started(t)'
    <3> SUFFICES ASSUME NEW t \in Tunnels, NEW k \in 1..MaxStarts
                 PROVE  thread'[<<t, k>>] # "none" <=> k <= Forwards!Started(t)'
      OBVIOUS
    <3>1. <<t, k>> \in Forwards!Instances /\ k \in Nat
      BY Bounds DEF Forwards!Instances
    <3>2. thread[<<t, k>>] # "none" <=> k <= Forwards!Started(t)
      BY <1>0 DEF Forwards!StartedInOrder
    <3>3. CASE t # s
      BY <1>4, <1>6, <3>1, <3>2, <3>3
    <3>4. CASE t = s /\ k = n
      BY <1>2, <1>4, <1>5, <3>4
    <3>5. CASE t = s /\ k # n
      <4>1. thread'[<<s, k>>] # "none" <=> k <= Forwards!Started(s)
        BY <1>4, <3>1, <3>2, <3>5
      <4> QED BY <1>1, <1>2, <1>5, <3>1, <3>5, <4>1
    <3> QED BY <3>3, <3>4, <3>5
  <2>2. \A j \in stop' \cup relays' : thread'[j] # "none"
    BY <1>0, <1>4, <1>8 DEF Forwards!StartedInOrder, Forwards!TypeOK
  <2>3. Forwards!Started(serving)' = n /\ Forwards!Joining(serving)' = <<s, n>>
    BY <1>5 DEF Forwards!Joining
  <2> QED BY <1>2, <1>8, <2>1, <2>2, <2>3 DEF Forwards!StartedInOrder
<1>10. Forwards!HandlesMatch'
  <2>1. \A t \in Tunnels : handle'[t] # 0 => handle'[t] = Forwards!Started(t)' /\ <<t, handle'[t]>> \notin stop'
    BY <1>0, <1>6 DEF Forwards!HandlesMatch
  <2> QED BY <2>1, Bounds DEF Forwards!HandlesMatch
<1>11. Forwards!NoStrayListener'
  <2> SUFFICES ASSUME NEW j \in Forwards!Instances, Forwards!Running(j)'
               PROVE  handle'[j[1]] = j[2] \/ (serving' = j[1] /\ j = Forwards!Joining(j[1])')
    BY DEF Forwards!NoStrayListener
  <2>1. CASE j = <<s, n>>
    BY <1>5, <2>1 DEF Forwards!Joining
  <2>2. CASE j # <<s, n>>
    <3>1. Forwards!Running(j)
      BY <1>4, <2>2 DEF Forwards!Running
    <3> QED BY <1>7, <3>1, RunningIsLast, InstanceOf, Bounds
  <2> QED BY <2>1, <2>2
<1>12. Forwards!RelaysAreTold'
  BY <1>0 DEF Forwards!RelaysAreTold, Busy
<1>13. \A e \in Forwards!Events : Over(e) => Over(e)'
  <2> SUFFICES ASSUME NEW e \in Forwards!Events, e.state = "stopped", Over(e)
               PROVE  /\ e.start <= Forwards!Started(e.tunnel)'
                      /\ e.start = Forwards!Started(e.tunnel)' => handle[e.tunnel] = 0 /\ s # e.tunnel
    BY EventFields DEF Over, Starts
  <2>1. e.start <= Forwards!Started(e.tunnel) /\ e.start \in Nat /\ e.tunnel \in Tunnels
    BY EventFields DEF Over, Starts
  <2>2. CASE e.tunnel = s
    BY <1>1, <1>2, <1>5, <2>1, <2>2
  <2>3. CASE e.tunnel # s
    BY <1>6, <2>1, <2>3 DEF Over, Starts
  <2> QED BY <2>2, <2>3
<1>14. WireHolds'
  BY <1>0, <1>13, WireWaits
<1> QED BY <1>9, <1>10, <1>11, <1>12, <1>14 DEF ForwardsHold

\* A request is about a tunnel or a refresh.
LEMMA Commanded ==
    ASSUME Forwards!TypeOK
    PROVE  /\ \A op \in {"start", "stop"}, t \in Tunnels :
                Append(chan, Forwards!Request(op, t)) \in Seq(Forwards!Requests)
           /\ \A r \in Refreshes : Append(chan, Forwards!Request("list", r)) \in Seq(Forwards!Requests)
           /\ Append(chan, Forwards!Request("Shutdown", None)) \in Seq(Forwards!Requests)
           /\ chan # <<>> =>
                /\ Tail(chan) \in Seq(Forwards!Requests)
                /\ Head(chan).op \in {"start", "stop"} => Head(chan).arg \in Tunnels
                /\ Head(chan).op = "list" => Head(chan).arg \in Refreshes
<1>0. chan \in Seq(Forwards!Requests)
  BY DEF Forwards!TypeOK
<1>1. \A op \in {"start", "stop"}, t \in Tunnels : Forwards!Request(op, t) \in Forwards!Requests
  BY DEF Forwards!Requests, Forwards!Request
<1>2. \A r \in Refreshes : Forwards!Request("list", r) \in Forwards!Requests
  BY DEF Forwards!Requests, Forwards!Request
<1>3. Forwards!Request("Shutdown", None) \in Forwards!Requests
  BY DEF Forwards!Requests
<1>4. ASSUME NEW q \in Forwards!Requests
      PROVE  /\ q.op \in {"start", "stop"} => q.arg \in Tunnels
             /\ q.op = "list" => q.arg \in Refreshes
  BY DEF Forwards!Requests, Forwards!Request
<1>5. ASSUME chan # <<>> PROVE Tail(chan) \in Seq(Forwards!Requests) /\ Head(chan) \in Forwards!Requests
  BY <1>0, <1>5, ReceiveQueue
<1> QED BY <1>0, <1>1, <1>2, <1>3, <1>4, <1>5

\* What the sub-worker takes from its channel.
LEMMA Taken ==
    ASSUME Forwards!TypeOK, NEW op, Forwards!Takes(op)
    PROVE  /\ at = "ready" /\ chan' = Tail(chan) /\ chan' \in Seq(Forwards!Requests)
           /\ op \in {"start", "stop"} => Head(chan).arg \in Tunnels
           /\ op = "list" => Head(chan).arg \in Refreshes
BY Commanded DEF Forwards!Takes

\* The steps of the UI, and the teardown of the session worker.
LEMMA UiHolds ==
    ASSUME ForwardsHold,
           \/ Forwards!Command \/ Forwards!TunnelStatus \/ Forwards!Close
           \/ \E r \in Refreshes : Forwards!Refresh(r) \/ Forwards!Refreshed(r)
    PROVE  ForwardsHold'
<1>0. Forwards!TypeOK
  BY DEF ForwardsHold
<1> USE DEF Forwards!worker, Forwards!threads, Forwards!ui
<1>1. CASE Forwards!Command
  <2>1. chan' \in Seq(Forwards!Requests)
    BY <1>0, <1>1, Commanded DEF Forwards!Command
  <2>2. given' \in 0..MaxCommands
    BY <1>0, <1>1, Bounds DEF Forwards!Command, Forwards!TypeOK
  <2>3. UNCHANGED <<at, serving, handle, thread, stop, relays, wire, asked, answer, live, closing>>
    BY <1>1 DEF Forwards!Command
  <2>4. Forwards!TypeOK'
    BY <1>0, <2>1, <2>2, <2>3 DEF Forwards!TypeOK
  <2> QED BY <2>3, <2>4, QuietHolds
<1>2. CASE Forwards!TunnelStatus
  <2>1. UNCHANGED <<chan, at, serving, handle, thread, stop, relays, given, asked, answer, closing>>
        /\ wire # <<>> /\ wire' = Tail(wire)
    BY <1>2 DEF Forwards!TunnelStatus
  <2>2. wire' \in Seq(Forwards!Events) /\ Head(wire) \in Forwards!Events
    BY <1>0, <2>1, ReceiveQueue DEF Forwards!TypeOK
  <2>3. \E to \in {"none", "running", "error"} : live' = [live EXCEPT ![Head(wire).tunnel] = to]
    BY <1>2, <2>2 DEF Forwards!TunnelStatus, Forwards!Events
  <2>4. live' \in [Tunnels -> {"none", "running", "error"}]
    BY <1>0, <2>3 DEF Forwards!TypeOK
  <2>5. Forwards!TypeOK'
    BY <1>0, <2>1, <2>2, <2>4 DEF Forwards!TypeOK
  <2> QED BY <2>1, <2>5, QuietHolds
<1>3. CASE Forwards!Close
  <2>1. UNCHANGED <<at, serving, handle, thread, stop, relays, wire, given, asked, answer, live>>
        /\ closing' = TRUE /\ chan' \in Seq(Forwards!Requests)
    BY <1>0, <1>3, Commanded DEF Forwards!Close
  <2>2. Forwards!TypeOK'
    BY <1>0, <2>1 DEF Forwards!TypeOK
  <2> QED BY <2>1, <2>2, QuietHolds
<1>4. ASSUME NEW r \in Refreshes, Forwards!Refresh(r) PROVE ForwardsHold'
  <2>1. UNCHANGED <<at, serving, handle, thread, stop, relays, wire, given, answer, live, closing>>
        /\ asked' = [asked EXCEPT ![r] = "sent"] /\ chan' \in Seq(Forwards!Requests)
    BY <1>0, <1>4, Commanded DEF Forwards!Refresh
  <2>2. Forwards!TypeOK'
    BY <1>0, <2>1 DEF Forwards!TypeOK
  <2> QED BY <2>1, <2>2, QuietHolds
<1>5. ASSUME NEW r \in Refreshes, Forwards!Refreshed(r) PROVE ForwardsHold'
  <2>1. UNCHANGED <<chan, at, serving, handle, thread, stop, relays, wire, given, closing>>
        /\ asked' = [asked EXCEPT ![r] = "idle"] /\ answer' = [answer EXCEPT ![r] = {}]
    BY <1>5 DEF Forwards!Refreshed
  <2>2. live' \in [Tunnels -> {"none", "running", "error"}]
    BY <1>5 DEF Forwards!Refreshed
  <2>3. Forwards!TypeOK'
    BY <1>0, <2>1, <2>2 DEF Forwards!TypeOK
  <2> QED BY <2>1, <2>3, QuietHolds
<1> QED BY <1>1, <1>2, <1>3, <1>4, <1>5

\* start_tunnel, up to the spawn of the thread.
LEMMA StartTunnelHolds ==
    ASSUME ForwardsHold, Forwards!StartTunnel
    PROVE  ForwardsHold'
<1>0. Forwards!TypeOK
  BY DEF ForwardsHold
<1>1. PICK s \in Tunnels : s = Head(chan).arg
  BY <1>0, Taken DEF Forwards!StartTunnel
<1>2. /\ at = "ready" /\ chan' \in Seq(Forwards!Requests)
      /\ UNCHANGED <<stop, relays, wire, given, asked, answer, live, closing>>
  BY <1>0, Taken DEF Forwards!StartTunnel, Forwards!ui
<1>3. CASE UNCHANGED <<at, serving, handle, thread>>
  <2>1. Forwards!TypeOK'
    BY <1>0, <1>2, <1>3 DEF Forwards!TypeOK
  <2> QED BY <1>2, <1>3, <2>1, QuietHolds
<1>4. CASE /\ handle[s] = 0 /\ Forwards!Started(s) < MaxStarts
           /\ thread' = [thread EXCEPT ![<<s, Forwards!Started(s) + 1>>] =
                             IF s \in Remote THEN "connect" ELSE "listen"]
           /\ at' = "announce" /\ serving' = s
           /\ UNCHANGED handle
  <2>1. PICK x \in {"connect", "listen"} : thread' = [thread EXCEPT ![<<s, Forwards!Started(s) + 1>>] = x]
    BY <1>4
  <2>2. thread' \in [Forwards!Instances -> {"none", "connect", "listen", "relay", "stalled", "failed", "ended"}]
    BY <1>0, <2>1 DEF Forwards!TypeOK
  <2>3. Forwards!TypeOK'
    BY <1>0, <1>2, <1>4, <2>2 DEF Forwards!TypeOK
  <2> QED BY <1>2, <1>4, <2>1, <2>3, StartHolds DEF Busy
<1> QED BY <1>1, <1>3, <1>4 DEF Forwards!StartTunnel, Forwards!worker

\* stop_tunnel, up to the join.
LEMMA StopTunnelHolds ==
    ASSUME ForwardsHold, Forwards!StopTunnel
    PROVE  ForwardsHold'
<1>0. Forwards!TypeOK /\ Forwards!HandlesMatch
  BY DEF ForwardsHold
<1>1. PICK s \in Tunnels : s = Head(chan).arg
  BY <1>0, Taken DEF Forwards!StopTunnel
<1>2. /\ at = "ready" /\ chan' \in Seq(Forwards!Requests)
      /\ UNCHANGED <<thread, relays, wire, given, asked, answer, live, closing>>
  BY <1>0, Taken DEF Forwards!StopTunnel, Forwards!ui
<1>3. CASE UNCHANGED <<at, serving, handle, stop>>
  <2>1. Forwards!TypeOK'
    BY <1>0, <1>2, <1>3 DEF Forwards!TypeOK
  <2> QED BY <1>2, <1>3, <2>1, QuietHolds
<1>4. CASE /\ handle[s] # 0
           /\ stop' = stop \cup {<<s, handle[s]>>}
           /\ handle' = [handle EXCEPT ![s] = 0]
           /\ at' = "join" /\ serving' = s
  <2>1. <<s, handle[s]>> \in Forwards!Instances /\ 0 \in 0..MaxStarts
    BY <1>0, <1>4, Bounds DEF Forwards!TypeOK, Forwards!Instances
  <2>2. handle' \in [Tunnels -> 0..MaxStarts] /\ stop' \subseteq Forwards!Instances
    BY <1>0, <1>4, <2>1 DEF Forwards!TypeOK
  <2>3. Forwards!TypeOK'
    BY <1>0, <1>2, <1>4, <2>2 DEF Forwards!TypeOK
  <2> QED BY <1>2, <1>4, <2>3, StopHolds DEF Busy
<1> QED BY <1>1, <1>3, <1>4 DEF Forwards!StopTunnel, Forwards!worker

\* stop_all_tunnels, one tunnel.
LEMMA StopAllHolds ==
    ASSUME ForwardsHold, Forwards!StopAll
    PROVE  ForwardsHold'
<1>0. Forwards!TypeOK /\ Forwards!HandlesMatch
  BY DEF ForwardsHold
<1>1. PICK s \in Tunnels :
        /\ handle[s] # 0
        /\ stop' = stop \cup {<<s, handle[s]>>}
        /\ handle' = [handle EXCEPT ![s] = 0]
        /\ serving' = s
  BY DEF Forwards!StopAll
<1>2. /\ at = "teardown" /\ at' = "joinAll"
      /\ UNCHANGED <<chan, thread, relays, wire, given, asked, answer, live, closing>>
  BY DEF Forwards!StopAll, Forwards!ui
<1>3. <<s, handle[s]>> \in Forwards!Instances /\ 0 \in 0..MaxStarts
  BY <1>0, <1>1, Bounds DEF Forwards!TypeOK, Forwards!Instances
<1>4. handle' \in [Tunnels -> 0..MaxStarts] /\ stop' \subseteq Forwards!Instances
  BY <1>0, <1>1, <1>3 DEF Forwards!TypeOK
<1>5. Forwards!TypeOK'
  BY <1>0, <1>1, <1>2, <1>4 DEF Forwards!TypeOK
<1> QED BY <1>1, <1>2, <1>5, StopHolds DEF Busy

\* The end of stop_tunnel and of stop_all_tunnels.
LEMMA JoinedHolds ==
    ASSUME ForwardsHold, Forwards!Joined \/ Forwards!JoinedAll
    PROVE  ForwardsHold'
<1>0. Forwards!TypeOK /\ Forwards!HandlesMatch /\ Forwards!StartedInOrder
  BY DEF ForwardsHold
<1>1. /\ at \in {"join", "joinAll"} /\ at' \in {"ready", "teardown"} /\ serving' = None
      /\ ~ Forwards!Running(Forwards!Joining(serving))
      /\ UNCHANGED <<chan, handle, thread, stop, relays, given, asked, answer, live, closing>>
      /\ UNCHANGED wire
           \/ wire' = Append(wire, [tunnel |-> serving, start |-> Forwards!Started(serving), state |-> "stopped"])
  BY DEF Forwards!Joined, Forwards!JoinedAll, Forwards!Emit, Forwards!Joining, Forwards!threads,
         Forwards!ui
<1>2. Forwards!Joining(serving) \in Forwards!Instances
  BY <1>0, <1>1 DEF Forwards!StartedInOrder, Forwards!TypeOK
<1>3. [tunnel |-> serving, start |-> Forwards!Started(serving), state |-> "stopped"] \in Forwards!Events
  BY <1>2 DEF Forwards!Joining, Forwards!Instances, Forwards!Events
<1>4. wire' \in Seq(Forwards!Events)
  <2>1. wire \in Seq(Forwards!Events)
    BY <1>0 DEF Forwards!TypeOK
  <2> QED BY <1>1, <1>3, <2>1, SendQueue
<1>5. Forwards!TypeOK'
  BY <1>0, <1>1, <1>4 DEF Forwards!TypeOK
<1> QED BY <1>1, <1>5, JoinHolds DEF Busy

\* The rest of the sub-worker.
LEMMA ServingHolds ==
    ASSUME ForwardsHold, Forwards!List \/ Forwards!Shutdown \/ Forwards!Leave
    PROVE  ForwardsHold'
<1>0. Forwards!TypeOK
  BY DEF ForwardsHold
<1>1. /\ UNCHANGED <<serving, handle, thread, stop, relays, wire, given, live, closing>>
      /\ at' = at \/ (at \in {"ready", "teardown"} /\ at' \in {"teardown", "gone"})
      /\ chan' \in Seq(Forwards!Requests)
  BY <1>0, Taken DEF Forwards!List, Forwards!Shutdown, Forwards!Leave, Forwards!worker,
         Forwards!threads, Forwards!ui, Forwards!TypeOK
<1>2. asked' \in [Refreshes -> {"idle", "sent", "listed"}] /\ answer' \in [Refreshes -> SUBSET Tunnels]
  <2>1. CASE UNCHANGED <<asked, answer>>
    BY <1>0, <2>1 DEF Forwards!TypeOK
  <2>2. CASE Forwards!List
    BY <1>0, <2>2 DEF Forwards!List, Forwards!TypeOK
  <2> QED BY <2>1, <2>2 DEF Forwards!Shutdown, Forwards!Leave, Forwards!ui
<1>3. Forwards!TypeOK'
  BY <1>0, <1>1, <1>2 DEF Forwards!TypeOK
<1> QED BY <1>1, <1>3, QuietHolds DEF Busy

\* The listening threads and the relays.
LEMMA ThreadsHold ==
    ASSUME ForwardsHold, NEW i \in Forwards!Instances,
           Forwards!ThreadStep(i) \/ Forwards!Accept(i) \/ Forwards!Stall(i) \/ Forwards!Unstall(i)
             \/ Forwards!RelaysEnd(i)
    PROVE  ForwardsHold'
<1>0. /\ Forwards!TypeOK /\ Forwards!StartedInOrder /\ Forwards!HandlesMatch
      /\ Forwards!NoStrayListener /\ Forwards!RelaysAreTold /\ WireHolds
  BY DEF ForwardsHold
<1>1. CASE UNCHANGED thread
  <2>1. /\ UNCHANGED <<chan, at, serving, handle, thread, stop, wire, given, asked, answer, live, closing>>
        /\ \/ relays' = relays \ {i}
           \/ relays' = relays \cup {i} /\ thread[i] = "listen" /\ i \notin stop
    BY <1>0, <1>1 DEF Forwards!ThreadStep, Forwards!Connect, Forwards!RelayEnds, Forwards!End,
           Forwards!Accept, Forwards!Stall, Forwards!Unstall, Forwards!RelaysEnd,
           Forwards!Becomes, Forwards!worker, Forwards!ui, Forwards!TypeOK
  <2>2. Forwards!TypeOK'
    BY <1>0, <2>1 DEF Forwards!TypeOK
  <2>3. CASE relays' = relays \ {i}
    BY <2>1, <2>2, <2>3, QuietHolds
  <2>4. CASE relays' = relays \cup {i} /\ thread[i] = "listen" /\ i \notin stop
    <3>1. \A t : Forwards!Started(t)' = Forwards!Started(t)
      BY <2>1, StartedStays
    <3>2. Forwards!StartedInOrder'
      BY <1>0, <2>1, <2>4, <3>1 DEF Forwards!StartedInOrder, Forwards!Joining
    <3>3. Forwards!HandlesMatch'
      BY <1>0, <2>1, <3>1 DEF Forwards!HandlesMatch
    <3>4. Forwards!NoStrayListener'
      BY <1>0, <2>1, <3>1 DEF Forwards!NoStrayListener, Forwards!Joining, Forwards!Running
    <3>5. Forwards!RelaysAreTold'
      <4>1. handle[i[1]] = i[2] \/ (at = "announce" /\ i = Forwards!Joining(serving))
        BY <2>4, RunningIsLast DEF Forwards!Running
      <4> QED BY <1>0, <2>1, <2>4, <3>1, <4>1 DEF Forwards!RelaysAreTold, Forwards!Joining
    <3>6. \A e \in Forwards!Events : Over(e) => Over(e)'
      BY <2>1, <3>1 DEF Over, Starts
    <3>7. WireHolds'
      BY <1>0, <2>1, <3>6, WireWaits
    <3> QED BY <2>2, <3>2, <3>3, <3>4, <3>5, <3>7 DEF ForwardsHold
  <2> QED BY <2>1, <2>3, <2>4
<1>2. CASE ~ UNCHANGED thread
  <2>1. /\ Forwards!Running(i)
        /\ UNCHANGED <<chan, at, serving, handle, stop, relays, given, asked, answer, live, closing>>
        /\ \E x \in {"listen", "relay", "stalled", "failed", "ended"} : thread' = [thread EXCEPT ![i] = x]
        /\ UNCHANGED wire \/ wire' = Append(wire, [tunnel |-> i[1], start |-> i[2], state |-> "error"])
    BY <1>2 DEF Forwards!ThreadStep, Forwards!Connect, Forwards!RelayEnds, Forwards!End,
           Forwards!Accept, Forwards!Stall, Forwards!Unstall, Forwards!RelaysEnd,
           Forwards!Becomes, Forwards!Emit, Forwards!worker, Forwards!ui, Forwards!Running
  <2>2. PICK x \in {"listen", "relay", "stalled", "failed", "ended"} : thread' = [thread EXCEPT ![i] = x]
    BY <2>1
  <2>3. thread' \in [Forwards!Instances -> {"none", "connect", "listen", "relay", "stalled", "failed", "ended"}]
    BY <1>0, <2>2 DEF Forwards!TypeOK
  <2>4. [tunnel |-> i[1], start |-> i[2], state |-> "error"] \in Forwards!Events
    BY InstanceOf DEF Forwards!Events
  <2>5. wire' \in Seq(Forwards!Events)
    <3>1. wire \in Seq(Forwards!Events)
      BY <1>0 DEF Forwards!TypeOK
    <3> QED BY <2>1, <2>4, <3>1, SendQueue
  <2>6. Forwards!TypeOK'
    BY <1>0, <2>1, <2>3, <2>5 DEF Forwards!TypeOK
  <2> QED BY <2>1, <2>2, <2>6, ThreadHolds
<1> QED BY <1>1, <1>2

\* No tunnel is started at first.
LEMMA ForwardsInit == Forwards!Init => ForwardsHold
<1> SUFFICES ASSUME Forwards!Init PROVE ForwardsHold
  OBVIOUS
<1> USE DEF Forwards!Init
<1>1. Forwards!TypeOK
  <2>1. chan \in Seq(Forwards!Requests) /\ wire \in Seq(Forwards!Events)
    BY EmptyQueue
  <2>2. handle \in [Tunnels -> 0..MaxStarts] /\ given \in 0..MaxCommands
    BY Bounds
  <2> QED BY <2>1, <2>2 DEF Forwards!TypeOK
<1>2. \A t \in Tunnels : Forwards!Started(t) = 0
  <2>1. \A t \in Tunnels : InstancesOf(t) = {}
    BY DEF InstancesOf, Forwards!Instances
  <2> QED BY <2>1, StartedCounts, FS_EmptySet
<1>3. Forwards!StartedInOrder
  BY <1>2 DEF Forwards!StartedInOrder, Forwards!Instances
<1>4. Forwards!HandlesMatch
  BY DEF Forwards!HandlesMatch
<1>5. Forwards!NoStrayListener
  BY DEF Forwards!NoStrayListener, Forwards!Running
<1>6. Forwards!RelaysAreTold /\ WireHolds
  BY <1>1 DEF Forwards!RelaysAreTold, WireHolds, Forwards!StoppedIsOver, Forwards!StoppedIsLast,
         Forwards!TypeOK
<1> QED BY <1>1, <1>3, <1>4, <1>5, <1>6 DEF ForwardsHold

\* The invariant of the tunnels is inductive.
LEMMA ForwardsNext == ForwardsHold /\ [Forwards!Next]_Forwards!vars => ForwardsHold'
<1> SUFFICES ASSUME ForwardsHold, [Forwards!Next]_Forwards!vars PROVE ForwardsHold'
  OBVIOUS
<1>1. CASE UNCHANGED Forwards!vars
  <2>1. UNCHANGED tunnelVars
    BY <1>1 DEF Forwards!vars, tunnelVars
  <2>2. Forwards!TypeOK'
    BY <2>1 DEF ForwardsHold, Forwards!TypeOK, tunnelVars
  <2> QED BY <2>1, <2>2, QuietHolds DEF tunnelVars
<1>2. CASE Forwards!Serve
  BY <1>2, StartTunnelHolds, AnnounceHolds, StopTunnelHolds, JoinedHolds, ServingHolds, StopAllHolds DEF
         Forwards!Serve
<1>3. CASE \E i \in Forwards!Instances : Forwards!ThreadStep(i) \/ Forwards!Accept(i) \/ Forwards!Stall(i)
             \/ Forwards!Unstall(i) \/ Forwards!RelaysEnd(i)
  BY <1>3, ThreadsHold
<1> QED BY <1>1, <1>2, <1>3, UiHolds DEF Forwards!Next

\* It is what the run checks.
LEMMA ForwardsMeans == ForwardsHold <=> Forwards!Inv /\ Forwards!StoppedForGood
BY DEF ForwardsHold, WireHolds, Forwards!Inv, Forwards!StoppedForGood, Forwards!TypeOK

\* For any tunnels and any number of restarts: a stop is a stop.  No listener runs
\* without its handle, no relay is left that nobody told to end, and no event of an
\* instance follows its "stopped" (tunnel_worker_loop and the threads of tunnel.rs).
THEOREM TunnelsCorrect == Forwards!Spec => [](Forwards!Inv /\ Forwards!StoppedForGood)
BY ForwardsInit, ForwardsNext, ForwardsMeans, PTL DEF Forwards!Spec

-----------------------------------------------------------------------------
(* Together *)

\* A step of MCBackend is a step of one part, while the others rest.
LEMMA PartsNext ==
    [MCNext]_<<part, vars, tunnelVars, connectVars>> =>
        [Next]_vars /\ [Forwards!Next]_Forwards!vars
<1>1. UNCHANGED tunnelVars => UNCHANGED Forwards!vars
  BY DEF tunnelVars, Forwards!vars
<1> QED BY <1>1 DEF MCNext

\* The run's invariant: what the two theorems above say, of the parts together
\* (BackendInv: the session commands' Inv, the tunnels' Inv and StoppedForGood).
THEOREM BackendCorrect == MCSpec => []BackendInv
<1>1. MCInit => Inv /\ ForwardsHold
  BY SessionsInit, ForwardsInit DEF MCInit
<1>2. (Inv /\ ForwardsHold) /\ [MCNext]_<<part, vars, tunnelVars, connectVars>> => (Inv /\ ForwardsHold)'
  BY PartsNext, SessionsNext, ForwardsNext
<1>3. Inv /\ ForwardsHold => BackendInv
  BY ForwardsMeans DEF BackendInv
<1> QED BY <1>1, <1>2, <1>3, PTL DEF MCSpec

=============================================================================
