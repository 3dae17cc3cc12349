------------------------------- MODULE Tunnels -------------------------------
(***************************************************************************)
(* The port forwards of one session: the tunnel sub-worker once it is      *)
(* connected (tunnel_worker_loop, start_tunnel, stop_tunnel and            *)
(* stop_all_tunnels in crates/ssh-core/src/session_worker.rs), the threads *)
(* it starts (crates/ssh-core/src/tunnel.rs) and the list of tunnels in    *)
(* the UI (src/components/tunnels/TunnelsView.tsx), which follows the      *)
(* tunnel-status events and asks for the list again and again.             *)
(*                                                                         *)
(* A tunnel can be started several times; <<t, k>> is its k-th instance:   *)
(* one stop flag, one listening thread and the relay threads that share    *)
(* the flag.  Bytes, addresses and the SOCKS handshake are left out.       *)
(***************************************************************************)
EXTENDS Integers, Sequences, FiniteSets

CONSTANTS
    Tunnels,
    Remote,      \* the remote forwards; the others are local or dynamic
    Refreshes,   \* bound: tunnel_list calls that are under way at a time
    MaxCommands, \* bound: tunnel_start and tunnel_stop commands of the user
    MaxStarts,   \* bound: instances of a tunnel
    None

TunnelsAssumption ==
    /\ Remote \subseteq Tunnels /\ None \notin Tunnels \cup Refreshes
    /\ MaxStarts \in Nat \ {0} /\ MaxCommands \in Nat

VARIABLES
    chan,        \* the channel of the sub-worker: requests
    at,          \* where the sub-worker is
    serving,     \* the tunnel it is starting or stopping, or None
    handle,      \* per tunnel: the instance in local_tunnels or remote_tunnels, or 0
    thread,      \* per instance: its listening thread
    stop,        \* instances whose stop flag is set
    relays,      \* local instances with relay threads
    wire,        \* tunnel-status events on their way to the UI
    commands,    \* the number of commands the user has given
    asked,       \* per refresh: "idle", "sent", or "listed": its answer is on its way
    answer,      \* per refresh: the tunnels of that list
    live,        \* the UI's list: per tunnel "none", "running" or "error"
    closing      \* the session worker has sent Shutdown

worker == <<at, serving, handle>>
threads == <<thread, stop, relays>>
ui == <<commands, asked, answer, live>>
vars == <<chan, at, serving, handle, thread, stop, relays, wire, commands, asked, answer, live,
          closing>>

Instances == Tunnels \X (1..MaxStarts)
\* A request is about a tunnel, or is a refresh, or Shutdown.  The reply of a
\* start or stop, with which the UI enables a button again, is left out.
Request(op, arg) == [op |-> op, arg |-> arg]
Requests ==
    [op : {"start", "stop"}, arg : Tunnels] \cup [op : {"list"}, arg : Refreshes]
        \cup {Request("Shutdown", None)}
Events == [tunnel : Tunnels, start : 1..MaxStarts, state : {"running", "error", "stopped"}]

TypeOK ==
    /\ chan \in Seq(Requests)
    /\ at \in {"ready", "announce", "join", "teardown", "joinAll", "gone"}
    /\ serving \in Tunnels \cup {None}
    /\ handle \in [Tunnels -> 0..MaxStarts]
    /\ thread \in [Instances -> {"none", "connect", "listen", "relay", "stalled", "failed", "ended"}]
    /\ stop \subseteq Instances /\ relays \subseteq Instances
    /\ wire \in Seq(Events)
    /\ commands \in 0..MaxCommands
    /\ asked \in [Refreshes -> {"idle", "sent", "listed"}]
    /\ answer \in [Refreshes -> SUBSET Tunnels]
    /\ live \in [Tunnels -> {"none", "running", "error"}]
    /\ closing \in BOOLEAN

Init ==
    /\ chan = <<>>
    /\ at = "ready" /\ serving = None
    /\ handle = [t \in Tunnels |-> 0]
    /\ thread = [i \in Instances |-> "none"]
    /\ stop = {} /\ relays = {}
    /\ wire = <<>>
    /\ commands = 0
    /\ asked = [r \in Refreshes |-> "idle"]
    /\ answer = [r \in Refreshes |-> {}]
    /\ live = [t \in Tunnels |-> "none"]
    /\ closing = FALSE

\* The instances that were started, and those whose listening thread runs.
Started(t) == Cardinality({k \in 1..MaxStarts : thread[<<t, k>>] # "none"})
Running(i) == thread[i] \in {"connect", "listen", "relay", "stalled"}

Emit(i, state) == wire' = Append(wire, [tunnel |-> i[1], start |-> i[2], state |-> state])

-----------------------------------------------------------------------------
(* The UI *)

\* onStart, onStop, onStartAll, onStopAll
Command ==
    /\ ~closing /\ commands < MaxCommands
    /\ \E op \in {"start", "stop"}, t \in Tunnels :
         /\ op = "start" => Started(t) < MaxStarts
         /\ chan' = Append(chan, Request(op, t))
    /\ commands' = commands + 1
    /\ UNCHANGED <<worker, threads, wire, asked, answer, live, closing>>

\* refresh: every five seconds, and after a command.
Refresh(r) ==
    /\ ~closing /\ asked[r] = "idle"
    /\ chan' = Append(chan, Request("list", r))
    /\ asked' = [asked EXCEPT ![r] = "sent"]
    /\ UNCHANGED <<worker, threads, wire, commands, answer, live, closing>>


\* setLive(list): every tunnel of a list is "running".
Refreshed(r) ==
    /\ asked[r] = "listed"
    /\ live' = [t \in Tunnels |-> IF t \in answer[r] THEN "running" ELSE "none"]
    /\ asked' = [asked EXCEPT ![r] = "idle"]
    /\ answer' = [answer EXCEPT ![r] = {}]
    /\ UNCHANGED <<chan, worker, threads, wire, commands, closing>>

\* The handler of the tunnel-status events.
TunnelStatus ==
    /\ wire # <<>>
    /\ wire' = Tail(wire)
    /\ LET e == Head(wire) IN
       live' = [live EXCEPT ![e.tunnel] = IF e.state = "stopped" THEN "none" ELSE e.state]
    /\ UNCHANGED <<chan, worker, threads, commands, asked, answer, closing>>

-----------------------------------------------------------------------------
(* The sub-worker *)

\* The session worker's teardown sends Shutdown.
Close ==
    /\ ~closing
    /\ closing' = TRUE
    /\ chan' = Append(chan, Request("Shutdown", None))
    /\ UNCHANGED <<worker, threads, wire, ui>>

Takes(op) == at = "ready" /\ chan # <<>> /\ Head(chan).op = op /\ chan' = Tail(chan)

\* Slip: a tunnel that is already running is started again.
StartTunnel_Again ==
    /\ Takes("start")
    /\ LET t == Head(chan).arg IN
       \/ /\ t \notin Remote \/ Started(t) = MaxStarts
          /\ UNCHANGED <<worker, thread>>
       \/ /\ Started(t) < MaxStarts
          /\ thread' = [thread EXCEPT ![<<t, Started(t) + 1>>] =
                            IF t \in Remote THEN "connect" ELSE "listen"]
          /\ at' = "announce" /\ serving' = t
          /\ UNCHANGED handle
    /\ UNCHANGED <<stop, relays, wire, ui, closing>>

\* start_tunnel: refused when the tunnel is running, or when the port cannot be
\* bound; otherwise its thread is spawned.  (The bound on instances refuses too.)
StartTunnel ==
    /\ Takes("start")
    /\ LET t == Head(chan).arg IN
       \/ /\ handle[t] # 0 \/ t \notin Remote \/ Started(t) = MaxStarts
          /\ UNCHANGED <<worker, thread>>
       \/ /\ handle[t] = 0 /\ Started(t) < MaxStarts
          /\ thread' = [thread EXCEPT ![<<t, Started(t) + 1>>] =
                            IF t \in Remote THEN "connect" ELSE "listen"]
          /\ at' = "announce" /\ serving' = t
          /\ UNCHANGED handle
    /\ UNCHANGED <<stop, relays, wire, ui, closing>>

\* ... then the status is sent and the handle kept.
Announce ==
    /\ at = "announce"
    /\ Emit(<<serving, Started(serving)>>, "running")
    /\ handle' = [handle EXCEPT ![serving] = Started(serving)]
    /\ at' = "ready" /\ serving' = None
    /\ UNCHANGED <<chan, threads, ui, closing>>

\* The instance it starts or waits for: the last.
Joining(t) == <<t, Started(t)>>

\* Slip: the flag is set and the thread is not waited for.
StopTunnel_NoJoin ==
    /\ Takes("stop")
    /\ LET t == Head(chan).arg IN
       IF handle[t] = 0
       THEN UNCHANGED <<handle, stop, wire>>
       ELSE /\ Emit(<<t, handle[t]>>, "stopped")
            /\ stop' = stop \cup {<<t, handle[t]>>}
            /\ handle' = [handle EXCEPT ![t] = 0]
    /\ UNCHANGED <<at, serving, thread, relays, ui, closing>>

\* stop_tunnel: the handle is removed, the flag set, and the thread joined.
StopTunnel ==
    /\ Takes("stop")
    /\ LET t == Head(chan).arg IN
       IF handle[t] = 0
       THEN UNCHANGED <<worker, stop>>
       ELSE /\ stop' = stop \cup {<<t, handle[t]>>}
            /\ handle' = [handle EXCEPT ![t] = 0]
            /\ at' = "join" /\ serving' = t
    /\ UNCHANGED <<thread, relays, wire, ui, closing>>

\* The thread has ended: the status is sent.
Joined ==
    /\ at = "join"
    /\ ~Running(Joining(serving))
    /\ Emit(Joining(serving), "stopped")
    /\ at' = "ready" /\ serving' = None
    /\ UNCHANGED <<chan, handle, threads, ui, closing>>

\* TunnelList: info.state of a handle is always Running.
List ==
    /\ Takes("list")
    /\ asked' = [asked EXCEPT ![Head(chan).arg] = "listed"]
    /\ answer' = [answer EXCEPT ![Head(chan).arg] = {t \in Tunnels : handle[t] # 0}]
    /\ UNCHANGED <<worker, threads, wire, commands, live, closing>>

Shutdown ==
    /\ Takes("Shutdown")
    /\ at' = "teardown"
    /\ UNCHANGED <<serving, handle, threads, wire, ui, closing>>

\* stop_all_tunnels: one after the other, without an event.
StopAll ==
    /\ at = "teardown"
    /\ \E t \in Tunnels :
         /\ handle[t] # 0
         /\ stop' = stop \cup {<<t, handle[t]>>}
         /\ handle' = [handle EXCEPT ![t] = 0]
         /\ serving' = t
    /\ at' = "joinAll"
    /\ UNCHANGED <<chan, thread, relays, wire, ui, closing>>

JoinedAll ==
    /\ at = "joinAll"
    /\ ~Running(Joining(serving))
    /\ at' = "teardown" /\ serving' = None
    /\ UNCHANGED <<chan, handle, threads, wire, ui, closing>>

\* tunnel_worker_loop returns.
Leave ==
    /\ at = "teardown"
    /\ \A t \in Tunnels : handle[t] = 0
    /\ at' = "gone"
    /\ UNCHANGED <<chan, serving, handle, threads, wire, ui, closing>>

-----------------------------------------------------------------------------
(* The threads *)

Becomes(i, state) == thread' = [thread EXCEPT ![i] = state]

\* run_remote_forward_loop: a connection of its own and the remote listener, or
\* an error event.  The flag is not looked at before.
Connect(i) ==
    /\ thread[i] = "connect"
    /\ \/ Becomes(i, "listen") /\ UNCHANGED wire
       \/ Becomes(i, "failed") /\ Emit(i, "error")
    /\ UNCHANGED <<chan, worker, stop, relays, ui, closing>>

\* A local listener hands a connection to a thread; a remote one relays it itself.
Accept(i) ==
    /\ thread[i] = "listen" /\ i \notin stop
    /\ IF i[1] \in Remote
       THEN Becomes(i, "relay") /\ UNCHANGED relays
       ELSE relays' = relays \cup {i} /\ UNCHANGED thread
    /\ UNCHANGED <<chan, worker, stop, wire, ui, closing>>

\* relay_bidirectional: a side closes or fails, or the flag is seen.
RelayEnds(i) ==
    /\ thread[i] = "relay"
    /\ Becomes(i, "listen")
    /\ UNCHANGED <<chan, worker, stop, relays, wire, ui, closing>>

\* write_all_stream and write_all_channel go on while the peer takes nothing, whatever the flag says.
Stall(i) ==
    /\ thread[i] = "relay"
    /\ Becomes(i, "stalled")
    /\ UNCHANGED <<chan, worker, stop, relays, wire, ui, closing>>

\* The peer reads again, or closes; then the flag is looked at.
Unstall(i) ==
    /\ thread[i] = "stalled"
    /\ IF i \in stop THEN Becomes(i, "listen") ELSE \E next \in {"relay", "listen"} : Becomes(i, next)
    /\ UNCHANGED <<chan, worker, stop, relays, wire, ui, closing>>

\* The accept loop sees its flag, and the listener is dropped.
End(i) ==
    /\ thread[i] = "listen" /\ i \in stop
    /\ Becomes(i, "ended")
    /\ UNCHANGED <<chan, worker, stop, relays, wire, ui, closing>>

\* The relay threads of a local tunnel have ended; nobody joins them.
RelaysEnd(i) ==
    /\ i \in relays
    /\ relays' = relays \ {i}
    /\ UNCHANGED <<chan, worker, thread, stop, wire, ui, closing>>

-----------------------------------------------------------------------------

Serve ==
    \/ StartTunnel \/ Announce \/ StopTunnel \/ Joined \/ List \/ Shutdown
    \/ StopAll \/ JoinedAll \/ Leave

ThreadStep(i) == Connect(i) \/ RelayEnds(i) \/ End(i)

Next ==
    \/ Command \/ TunnelStatus \/ \E r \in Refreshes : Refresh(r) \/ Refreshed(r)
    \/ Close \/ Serve
    \/ \E i \in Instances : ThreadStep(i) \/ Accept(i) \/ Stall(i) \/ Unstall(i) \/ RelaysEnd(i)

Spec == Init /\ [][Next]_vars

\* The threads run and the UI handles what it gets; the timer ticks.  A thread
\* that connects, or whose flag is set, goes on; nothing makes a peer read.
Fairness ==
    /\ WF_vars(Serve) /\ WF_vars(TunnelStatus)
    /\ \A r \in Refreshes : WF_vars(Refreshed(r))
    /\ \A i \in Instances : WF_vars(Connect(i)) /\ WF_vars(i \in stop /\ ThreadStep(i))

FairSpec == Spec /\ Fairness /\ \A r \in Refreshes : WF_vars(Refresh(r))

-----------------------------------------------------------------------------
(* Properties *)

\* A handle is that of the last instance, whose flag is not set.
HandlesMatch ==
    /\ \A t \in Tunnels : handle[t] # 0 => handle[t] = Started(t) /\ <<t, handle[t]>> \notin stop
    /\ at \in {"announce", "join", "joinAll"} <=> serving # None
    /\ serving # None => handle[serving] = 0

\* The instances of a tunnel are started one after the other; only one that was
\* started has its flag set; the one that is announced has not, and the one that is
\* waited for has.
StartedInOrder ==
    /\ \A t \in Tunnels, k \in 1..MaxStarts : thread[<<t, k>>] # "none" <=> k <= Started(t)
    /\ \A i \in stop \cup relays : thread[i] # "none"
    /\ at = "announce" => Started(serving) # 0 /\ Joining(serving) \notin stop
    /\ at \in {"join", "joinAll"} => Joining(serving) \in stop

\* An instance whose "stopped" is on its way is over: the sub-worker has no handle
\* for it and does not wait for it.
StoppedIsOver ==
    \A n \in DOMAIN wire :
        LET e == wire[n] IN
        e.state = "stopped" =>
            /\ e.start <= Started(e.tunnel)
            /\ e.start = Started(e.tunnel) => handle[e.tunnel] = 0 /\ serving # e.tunnel

\* The types, and how handles, flags, threads and events go together.
Inv == TypeOK /\ StartedInOrder /\ HandlesMatch /\ StoppedIsOver

\* A listening thread runs only for a tunnel the sub-worker has a handle for, is
\* about to have one for, or waits for: a stopped tunnel has freed its port, a
\* tunnel never listens twice, and nothing listens when the sub-worker is gone.
NoStrayListener ==
    \A i \in Instances :
        Running(i) => \/ handle[i[1]] = i[2]
                      \/ serving = i[1] /\ i = Joining(i[1])

\* Relays outlive stop_tunnel, which does not join them; each one has been told
\* to end, or its tunnel can still tell it.
RelaysAreTold ==
    \A i \in relays :
        \/ i \in stop
        \/ handle[i[1]] = i[2]
        \/ at = "announce" /\ i = Joining(serving)

\* "stopped" is the last the UI hears of an instance: an error of its thread
\* cannot bring it back to the list.
StoppedIsLast ==
    \A m, n \in DOMAIN wire :
        m < n /\ wire[m].state = "stopped" /\ wire[m].tunnel = wire[n].tunnel =>
            wire[n].start > wire[m].start

\* No tunnel_stop or teardown waits for a thread, but for one whose peer takes no
\* data.
Returned == at \in {"join", "joinAll"} => thread[Joining(serving)] = "stalled"

\* A stop is a stop: no listener without its handle, no relay that nobody told, and
\* no event of the instance after it.
StoppedForGood == NoStrayListener /\ RelaysAreTold /\ StoppedIsLast

\* When the user leaves the tunnels alone the UI shows what the sub-worker has,
\* however its lists and events were ordered, until the session is closed.
UiConverges ==
    <>[](\/ closing
         \/ \A t \in Tunnels : live[t] # "none" <=> handle[t] # 0
         \/ at = "join" /\ thread[Joining(serving)] = "stalled")

\* The calls return (the commands are finitely many) and the UI converges, whatever
\* peers and timers do.
TunnelsSettle == []<>Returned /\ UiConverges

=============================================================================
