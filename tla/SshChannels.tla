---------------------------- MODULE SshChannels ----------------------------
(* The channels of one libssh2 session: opening, requests, forwarding and
   freeing (channel.c), the replies and opens of the server (packet.c), and
   keepalives (keepalive.c).  What flows through an open channel is SshStream.

   Every request of the API is a state machine kept in the session or in the
   channel: build, send, wait for the reply.  A call runs alone; where the code
   returns EAGAIN it waits or returns to the application (a non-blocking
   session, or a timeout) with the machine where it was, and the next call of
   that function continues it, whatever its arguments.  A reply names its
   channel (a reply to a global request names nothing) and is looked for in the
   packets read so far.

   A request is named by the call that built it, an open channel of the server
   by the call that asked for it or, for a channel the server opens, by a number
   from FirstConn on.  Like mshell, the application installs no callback for x11
   channels; Agent says whether it has one for the agent's. *)
EXTENDS Integers, Sequences, FiniteSets, SequencesExt

CONSTANTS
  Kinds,       \* requests with a reply; all but "env" have rules of their own
  QueueSizes,  \* queue_maxsize of a listener
  Agent,       \* session->authagent is set
  MaxCalls, MaxBlock, MaxAbandon, MaxServer,  \* bounds of the exploration,
  MaxEvents    \* and of the last three together

(* What else is sent, called or answered: none of it has the name of a request. *)
OtherNames ==
  {"open", "close", "listen", "keepalive", "signal", "size", "cancel", "confirm", "refuse",
   "session", "tcpip", "accept", "free", "none"}

ASSUME KindsAssumption ==
  {"env", "pty", "agent", "startup"} \subseteq Kinds /\ Kinds \cap OtherNames = {} /\ IsFiniteSet(Kinds)
ASSUME QueueSizesAssumption == QueueSizes \subseteq Nat
ASSUME BoundsAssumption == Agent \in BOOLEAN /\ MaxCalls \in Nat

FirstConn == MaxCalls + 1

VARIABLES
  chans,     \* session->channels and the queue of the listener, by local id
  next,      \* session->next_channel
  opening,   \* session->open_*
  direct,    \* session->direct_message: the call that wrote it, or 0
  listen,    \* session->fwdLstn_*
  listener,  \* the listener object
  brigade,   \* session->packets: the replies not yet taken
  adding,    \* packet_add interrupted while it answers the server
  out,       \* the packet the transport has sent a part of, or None
  server,    \* what the server has to answer, in order
  peer,      \* the server's side of the channels
  call, calls, budget,
  told,      \* what the last call returned, if it returned something
  seen       \* history: what excuses the code from the guarantees

vars == <<chans, next, opening, direct, listen, listener, brigade, adding, out, server,
          peer, call, calls, budget, told, seen>>

None == [buf |-> <<"none", 0>>]
Nothing == [type |-> "none"]
NoListener == [st |-> "none", max |-> 0, queue |-> <<>>]
Silent == [op |-> "none", id |-> 0, n |-> 0, by |-> 0, to |-> 0, ok |-> FALSE]
NoCall == [op |-> "none", ph |-> "idle", id |-> 0, n |-> 0, left |-> 0]
Idle == [st |-> "idle", n |-> 0]
NotOpening == [st |-> "idle", type |-> "none", n |-> 0, id |-> 0]

(* The types of channel the client opens. *)
Opens == {"session", "tcpip"}

Channel(remote, place) ==
  [remote |-> remote, place |-> place, req |-> [k \in Kinds |-> Idle],
   tries |-> 0, rclose |-> FALSE, closing |-> "idle"]

(* A session with one channel open. *)
Init ==
  /\ chans = [id \in {1} |-> Channel(FirstConn, "session")] /\ next = 2
  /\ opening = NotOpening /\ direct = 0
  /\ listen = Idle
  /\ listener = NoListener
  /\ brigade = <<>> /\ adding = Nothing /\ out = None /\ server = <<>>
  /\ peer = [open |-> {FirstConn}, forward |-> FALSE, started |-> {}, twice |-> FALSE, conns |-> 0]
  /\ call = NoCall /\ calls = 0
  /\ budget = [block |-> MaxBlock, abandon |-> MaxAbandon]
  /\ told = Silent
  /\ seen = [given |-> {}, lost |-> {}, sized |-> {}, kept |-> FALSE, stale |-> FALSE]

(* A call that is given up counts as two of the events of a run. *)
Cost(what) == IF what = "abandon" THEN 2 ELSE 1
Events == (MaxBlock - budget.block) + Cost("abandon") * (MaxAbandon - budget.abandon) + peer.conns
Spend(what) ==
  /\ budget[what] > 0 /\ Events + Cost(what) <= MaxEvents
  /\ budget' = [budget EXCEPT ![what] = @ - 1]
In(op, ph) == call.op = op /\ call.ph = ph
Phase(ph) == call' = [call EXCEPT !.ph = ph]
Returns == call' = NoCall
Begin(op, ph, id) ==
  /\ call = NoCall /\ calls < MaxCalls
  /\ calls' = calls + 1
  /\ call' = [op |-> op, ph |-> ph, id |-> id, n |-> calls + 1, left |-> 0]
  /\ told' = Silent

Mine == {id \in DOMAIN chans : chans[id].place = "session" /\ id # opening.id}
Without(id) == [i \in DOMAIN chans \ {id} |-> chans[i]]
With(id, ch) == [i \in DOMAIN chans \cup {id} |-> IF i = id THEN ch ELSE chans[i]]

---------------------------------------------------------------------------
(* _libssh2_transport_send, as in SshStream: whole, or in part, and then only
   for a call with the same buffer. *)

Packet(what, id, n) == [buf |-> <<IF what = "size" THEN "pty" ELSE what, id>>,
                        what |-> what, id |-> id, n |-> n, to |-> 0]
CanSend(p) == out = None \/ out.buf = p.buf
OnWire(p) == IF out = None THEN p ELSE out

(* What a packet does at the server: answers to come, and what it has open. *)
Asks(kind, p) ==
  server' = Append(server, [kind |-> kind, id |-> p.id, n |-> p.n, to |-> p.to])
Delivered(p) ==
  /\ CASE p.what \in {"open", "close"} -> Asks(p.what, p)
       [] p.what \in {"listen", "keepalive"} -> Asks("global", p)
       [] p.what \in Kinds -> Asks("request", p)
       [] OTHER -> UNCHANGED server
  /\ peer' = CASE p.what = "cancel" -> [peer EXCEPT !.forward = FALSE]
               [] p.what = "confirm" -> [peer EXCEPT !.open = @ \cup {p.n}]
               [] p.what = "startup" -> [peer EXCEPT !.started = @ \cup {p.id}, !.twice = @ \/ p.id \in peer.started]
               [] OTHER -> peer

TransportSend(p) == CanSend(p) /\ Delivered(OnWire(p)) /\ out' = None
SendBlocks(p) ==
  /\ out = None /\ Spend("block")
  /\ out' = p
  /\ UNCHANGED <<server, peer>>

---------------------------------------------------------------------------
(* _libssh2_packet_add, in a call that waits in _libssh2_transport_read. *)

Reading == call.ph = "reply" /\ adding = Nothing

(* A packet of any kind ends the wait of _libssh2_channel_close; the other calls
   go on. *)
WaitsForClose == call.op \in {"free", "cancel"} /\ call.ph = "reply"
GoesOn == IF WaitsForClose THEN Phase("closed") ELSE UNCHANGED call

(* The server answers in the order of the requests on a channel. *)
Answerable(i) == \A j \in 1..(i - 1) : server[j].id # server[i].id

Wanted == CASE call.op \in Opens -> {"confirm", "refuse"}
            [] call.op = "listen" -> {"rsuccess", "rfailure"}
            [] call.op \in Kinds -> {"success", "failure"}
            [] OTHER -> {}
(* The channel of an open's reply is compared with the bytes behind a type of the
   caller's length: not the channel's number, when the open is of another type. *)
IsAnswer(p) ==
  p.t \in Wanted /\ p.id = call.id /\ (call.op \in Opens => call.op = opening.type)
Found(q) == \E i \in DOMAIN q : IsAnswer(q[i])
(* Mutant: the reply of any channel. *)
FirstOf_AnyChannel(q) ==
  CHOOSE i \in DOMAIN q : q[i].t \in Wanted /\ \A j \in 1..(i - 1) : q[j].t \notin Wanted
(* The grants are looked for before the refusals. *)
FirstOf(q) ==
  LET all == {i \in DOMAIN q : IsAnswer(q[i])}
      ok == {i \in all : q[i].t \in {"confirm", "success", "rsuccess"}}
      from == IF ok # {} THEN ok ELSE all
  IN CHOOSE i \in from : \A j \in from : i <= j

(* Mutant: a packet nobody waits for is dropped. *)
Queued_DropsOthers(p) ==
  /\ brigade' = IF p.t \in Wanted /\ p.id = call.id THEN Append(brigade, p) ELSE brigade
  /\ GoesOn
(* _libssh2_packet_requirev gives up when a reply of the wanted type arrives
   that is not the wanted one. *)
Queued(p) ==
  /\ brigade' = Append(brigade, p)
  /\ IF p.t \in Wanted /\ ~Found(brigade')
     THEN Phase("fail")
     ELSE GoesOn

PacketAddReply(i) ==
  /\ server[i].kind # "close"
  /\ \E ok \in BOOLEAN :
       LET a == server[i]
           t == CASE a.kind = "open" -> IF ok THEN "confirm" ELSE "refuse"
                  [] a.kind = "request" -> IF ok THEN "success" ELSE "failure"
                  [] a.kind = "global" -> IF ok THEN "rsuccess" ELSE "rfailure"
       IN
       /\ Queued([t |-> t, id |-> a.id, n |-> a.n, to |-> a.to])
       /\ peer' = CASE t = "confirm" -> [peer EXCEPT !.open = @ \cup {a.n}]
                    [] t = "rsuccess" -> [peer EXCEPT !.forward = TRUE]
                    [] OTHER -> peer
  /\ server' = RemoveAt(server, i)
  /\ UNCHANGED chans

(* A close of a channel that is gone is ignored. *)
PacketAddClose(i) ==
  /\ server[i].kind = "close"
  /\ LET id == server[i].id IN
     chans' = IF id \in DOMAIN chans THEN [chans EXCEPT ![id].rclose = TRUE] ELSE chans
  /\ peer' = [peer EXCEPT !.open = @ \ {server[i].n}]
  /\ server' = RemoveAt(server, i)
  /\ GoesOn
  /\ UNCHANGED brigade

Arrives ==
  /\ Reading
  /\ \E i \in DOMAIN server : Answerable(i) /\ (PacketAddReply(i) \/ PacketAddClose(i))
  /\ UNCHANGED <<next, opening, direct, listen, listener, adding, out, calls, budget, told, seen>>

(* Anything else the server sends, data for a channel for one. *)
OtherArrives ==
  /\ Reading /\ WaitsForClose
  /\ GoesOn
  /\ UNCHANGED <<chans, next, opening, direct, listen, listener, brigade, adding, out, server, peer,
                 calls, budget, told, seen>>

(* packet_queue_listener, packet_authagent_open and packet_x11_open: the server
   opens a channel.  It is confirmed and kept, or refused; either packet may be
   blocked, and is then sent by the next read.  A forwarded channel is forgotten
   by then: packet_queue_listener clears its pointer each time it is entered. *)
(* Mutant: one more than the queue's size. *)
Room_OneMore ==
  listener.st # "none" /\ (listener.max = 0 \/ Len(listener.queue) <= listener.max)
Room ==
  listener.st # "none" /\ (listener.max = 0 \/ Len(listener.queue) < listener.max)
Accepted(type) == (type = "forwarded" /\ Room) \/ (type = "agent" /\ Agent)

Keeps(type, id, conn) ==
  /\ chans' = With(id, Channel(conn, IF type = "agent" THEN "session" ELSE "queue"))
  /\ listener' = IF type = "agent" THEN listener
                 ELSE [listener EXCEPT !.queue = Append(@, id)]

(* The packet p goes out, or the socket takes a part of it or none. *)
AddingSends(p, type) ==
  \/ out = None /\ UNCHANGED <<adding, out, budget>>
  \/ /\ IF out = None THEN Spend("block") /\ out' = p ELSE UNCHANGED <<out, budget>>
     /\ adding' = [p |-> p, type |-> type]

ServerOpens ==
  /\ Reading /\ peer.conns < MaxServer /\ Events < MaxEvents
  /\ \E type \in {"forwarded", "agent"} :
       LET conn == FirstConn + 1 + peer.conns
           opens == [peer EXCEPT !.conns = @ + 1]
       IN
       /\ Accepted(type) /\ (type = "forwarded" => peer.forward)
       /\ next' = next + 1
       /\ AddingSends(Packet("confirm", next, conn), type)
       /\ IF adding' = Nothing
          THEN /\ peer' = [opens EXCEPT !.open = @ \cup {conn}]
               /\ Keeps(type, next, conn) /\ GoesOn
          ELSE peer' = opens /\ UNCHANGED <<chans, listener, call>>
  /\ UNCHANGED <<opening, direct, listen, brigade, server, calls, told, seen>>

Refuses(type) ==
  /\ Reading /\ peer.conns < MaxServer /\ Events < MaxEvents
  /\ ~Accepted(type)
  /\ LET conn == FirstConn + 1 + peer.conns IN
     AddingSends(Packet("refuse", conn, conn), "refused")
  /\ IF adding' = Nothing THEN GoesOn ELSE UNCHANGED call
  /\ peer' = [peer EXCEPT !.conns = @ + 1]
  /\ UNCHANGED <<chans, listener, next, opening, direct, listen, brigade, server, calls,
                 told, seen>>

X11Open == Refuses("x11")

(* Any other open that is not accepted, and every request of the server that
   wants a reply. *)
ServerIsRefused == \E type \in {"forwarded", "agent", "other"} : Refuses(type)

AddingResumes ==
  /\ adding # Nothing /\ call.ph = "reply"
  /\ TransportSend(adding.p)
  /\ IF adding.p.what = "confirm" /\ adding.type = "agent"
     THEN Keeps("agent", adding.p.id, adding.p.n) /\ UNCHANGED seen
     ELSE /\ seen' = [seen EXCEPT !.lost = @ \cup {adding.p.n}]
          /\ UNCHANGED <<chans, listener>>
  /\ adding' = Nothing
  /\ GoesOn
  /\ UNCHANGED <<next, opening, direct, listen, brigade, calls, budget, told>>

---------------------------------------------------------------------------
(* _libssh2_channel_open, which an interrupted open of any type is continued by.
   channel_direct_tcpip keeps its message, which names the host, until a call of
   its own ends, even if the open it was written for has ended before. *)

Open(type) ==
  /\ Begin(type, IF opening.st = "sent" THEN "reply" ELSE "send",
           IF opening.st = "idle" THEN next ELSE opening.id)
  /\ IF opening.st = "idle"
     THEN /\ opening' = [st |-> "created", type |-> type, n |-> calls + 1, id |-> next]
          /\ chans' = With(next, Channel(0, "session"))
          /\ next' = next + 1
     ELSE UNCHANGED <<opening, chans, next>>
  /\ UNCHANGED <<listen, listener, brigade, adding, out, server, peer, budget, seen>>

OpenSession == Open("session") /\ UNCHANGED direct

DirectTcpip == Open("tcpip") /\ direct' = IF direct = 0 THEN calls + 1 ELSE direct

Message == IF call.op = "tcpip" THEN direct ELSE 0

OpenSends ==
  /\ call.op \in Opens /\ call.ph = "send"
  /\ LET p == [Packet("open", opening.id, opening.n) EXCEPT !.to = Message] IN
     \/ /\ TransportSend(p)
        /\ opening' = [opening EXCEPT !.st = "sent"]
        /\ Phase("reply")
        /\ UNCHANGED budget
     \/ SendBlocks(p) /\ UNCHANGED <<opening, call>>
  /\ UNCHANGED <<chans, next, direct, listen, listener, brigade, adding, calls, told, seen>>

OpenEnds(ch, what) ==
  /\ chans' = IF ch.remote = 0 THEN Without(opening.id) ELSE With(opening.id, ch)
  /\ opening' = NotOpening
  /\ direct' = IF call.op = "tcpip" THEN 0 ELSE direct
  /\ told' = what
  /\ Returns

OpenReplies ==
  /\ call.op \in Opens /\ call.ph = "reply" /\ Found(brigade)
  /\ LET i == FirstOf(brigade)
         p == brigade[i]
         ok == p.t = "confirm"
     IN
     /\ OpenEnds(Channel(IF ok THEN p.n ELSE 0, "session"),
                 [op |-> call.op, id |-> call.id, n |-> call.n, by |-> p.n, to |-> p.to,
                  ok |-> ok])
     /\ brigade' = RemoveAt(brigade, i)
  /\ UNCHANGED <<next, listen, listener, adding, out, server, peer, calls, budget, seen>>

(* The time of packet_requirev is up, or a reply of its type was not the one it
   waits for: the channel is disposed of, whatever the server does. *)
OpenFails ==
  /\ call.op \in Opens
  /\ \/ call.ph = "fail" /\ UNCHANGED budget
     \/ call.ph = "reply" /\ ~Found(brigade) /\ Spend("abandon")
  /\ OpenEnds(Channel(0, "session"), Silent)
  /\ seen' = [seen EXCEPT !.given = @ \cup {call.id}, !.lost = @ \cup {opening.n}]
  /\ UNCHANGED <<next, listen, listener, brigade, adding, out, server, peer, calls>>

---------------------------------------------------------------------------
(* The requests with a reply: channel_setenv (and channel_x11_req, built alike),
   channel_request_pty, channel_request_auth_agent and
   _libssh2_channel_process_startup.  Their machines differ in the buffers;
   startup runs only once, and a refused auth-agent request is repeated under
   another name. *)

Request(kind, id) ==
  /\ id \in Mine
  /\ LET r == chans[id].req[kind] IN
     /\ r.st # "end" /\ (kind = "agent" => chans[id].tries < 2)
     /\ Begin(kind, IF r.st = "sent" THEN "reply" ELSE "send", id)
     /\ chans' = IF r.st = "idle"
                 THEN [chans EXCEPT ![id].req[kind] = [st |-> "created", n |-> calls + 1]]
                 ELSE chans
  /\ UNCHANGED <<next, opening, direct, listen, listener, brigade, adding, out, server, peer,
                 budget, seen>>

Setenv == \E id \in Mine : Request("env", id)
RequestPty == \E id \in Mine : Request("pty", id)
RequestAuthAgent == \E id \in Mine : Request("agent", id)
ProcessStartup == \E id \in Mine : Request("startup", id)

RequestSends(kind) ==
  /\ In(kind, "send")
  /\ LET p == Packet(kind, call.id, chans[call.id].req[kind].n) IN
     \/ /\ TransportSend(p)
        /\ chans' = [chans EXCEPT ![call.id].req[kind].st = "sent"]
        /\ Phase("reply")
        /\ UNCHANGED budget
     \/ SendBlocks(p) /\ UNCHANGED <<chans, call>>
  /\ UNCHANGED <<next, opening, direct, listen, listener, brigade, adding, calls, told, seen>>

(* What a call of the request ends with.  The first try of the auth-agent
   request that fails starts the second, and after that there is none. *)
Failed(kind, reply) == kind = "agent" /\ ~reply.ok
Tries(kind, reply) ==
  IF Failed(kind, reply) THEN chans[call.id].tries + 1
  ELSE IF kind = "agent" THEN 0 ELSE chans[call.id].tries

RequestEnds(kind, reply) ==
  LET again == Failed(kind, reply) /\ chans[call.id].tries = 0
      st == IF again THEN "created" ELSE IF kind = "startup" THEN "end" ELSE "idle"
  IN
  /\ chans' = [chans EXCEPT ![call.id].tries = Tries(kind, reply),
                 ![call.id].req[kind] = [st |-> st, n |-> IF again THEN call.n ELSE 0]]
  /\ IF again THEN Phase("send") /\ UNCHANGED told
     ELSE Returns /\ told' = reply

RequestReplies(kind) ==
  /\ In(kind, "reply") /\ Found(brigade)
  /\ LET i == FirstOf(brigade)
         p == brigade[i]
     IN
     /\ RequestEnds(kind, [op |-> kind, id |-> call.id, n |-> call.n, by |-> p.n,
                           to |-> 0, ok |-> p.t = "success"])
     /\ brigade' = RemoveAt(brigade, i)
  /\ UNCHANGED <<next, opening, direct, listen, listener, adding, out, server, peer, calls, budget,
                 seen>>

RequestFails(kind) ==
  /\ \/ In(kind, "fail") /\ UNCHANGED budget
     \/ In(kind, "reply") /\ ~Found(brigade) /\ Spend("abandon")
  /\ RequestEnds(kind, Silent)
  /\ seen' = [seen EXCEPT !.given = @ \cup {call.id}]
  /\ UNCHANGED <<next, opening, direct, listen, listener, brigade, adding, out, server, peer, calls>>

(* channel_request_pty_size shares the machine of channel_request_pty: a request
   that waits for its reply is dropped, an unsent one is sent in its place, and
   one it leaves unsent is continued by channel_request_pty. *)
PtySize ==
  /\ call = NoCall /\ calls < MaxCalls /\ calls' = calls + 1
  /\ \E id \in Mine :
       LET r == chans[id].req["pty"]
           p == Packet("size", id, calls + 1)
       IN
       \/ /\ r.st = "sent" \/ TransportSend(p)
          /\ r.st = "sent" => UNCHANGED <<out, server, peer>>
          /\ chans' = [chans EXCEPT ![id].req["pty"] = Idle]
          /\ seen' = [seen EXCEPT !.given = IF r.st = "idle" THEN @ ELSE @ \cup {id}]
          /\ UNCHANGED budget
       \/ /\ r.st = "idle" /\ SendBlocks(p)
          /\ chans' = [chans EXCEPT ![id].req["pty"] = [st |-> "created", n |-> calls + 1]]
          /\ seen' = [seen EXCEPT !.given = @ \cup {id}, !.sized = @ \cup {id}]
  /\ UNCHANGED <<next, opening, direct, listen, listener, brigade, adding, call, told>>

(* channel_signal: no reply; an interrupted one is continued. *)
Signal ==
  /\ call = NoCall /\ calls < MaxCalls /\ calls' = calls + 1
  /\ \E id \in Mine :
       LET p == Packet("signal", id, 0) IN
       \/ TransportSend(p) /\ UNCHANGED budget
       \/ SendBlocks(p)
  /\ UNCHANGED <<chans, next, opening, direct, listen, listener, brigade, adding, call, told, seen>>

---------------------------------------------------------------------------
(* channel_forward_listen: any reply to a global request is taken for the
   answer, that of a keepalive as well. *)

Listen ==
  /\ listener.st = "none"
  /\ Begin("listen", IF listen.st = "sent" THEN "reply" ELSE "send", 0)
  /\ listen' = IF listen.st = "idle" THEN [st |-> "created", n |-> calls + 1] ELSE listen
  /\ UNCHANGED <<chans, next, opening, direct, listener, brigade, adding, out, server, peer, budget, seen>>

ListenSends ==
  /\ In("listen", "send")
  /\ LET p == Packet("listen", 0, listen.n) IN
     \/ /\ TransportSend(p)
        /\ listen' = [listen EXCEPT !.st = "sent"]
        /\ Phase("reply")
        /\ UNCHANGED budget
     \/ SendBlocks(p) /\ UNCHANGED <<listen, call>>
  /\ UNCHANGED <<chans, next, opening, direct, listener, brigade, adding, calls, told, seen>>

ListenReplies ==
  /\ In("listen", "reply") /\ Found(brigade)
  /\ LET i == FirstOf(brigade)
         ok == brigade[i].t = "rsuccess"
     IN
     /\ \E max \in QueueSizes :
          listener' = IF ok THEN [st |-> "open", max |-> max, queue |-> <<>>] ELSE listener
     /\ brigade' = RemoveAt(brigade, i)
     /\ told' = [op |-> "listen", id |-> 0, n |-> call.n, by |-> brigade[i].n, to |-> 0,
                 ok |-> ok]
  /\ listen' = Idle
  /\ Returns
  /\ UNCHANGED <<chans, next, opening, direct, adding, out, server, peer, calls, budget, seen>>

ListenFails ==
  /\ \/ In("listen", "fail") /\ UNCHANGED budget
     \/ In("listen", "reply") /\ ~Found(brigade) /\ Spend("abandon")
  /\ listen' = Idle
  /\ seen' = [seen EXCEPT !.given = @ \cup {0}]
  /\ Returns
  /\ UNCHANGED <<chans, next, opening, direct, listener, brigade, adding, out, server, peer, calls,
                 told>>

(* libssh2_keepalive_send: a packet that is not sent, or only in part, is left. *)
KeepaliveSend ==
  /\ call = NoCall /\ calls < MaxCalls /\ calls' = calls + 1
  /\ LET p == Packet("keepalive", 0, calls + 1) IN
     \/ TransportSend(p) /\ UNCHANGED budget
     \/ SendBlocks(p)
     \/ ~CanSend(p) /\ UNCHANGED <<out, server, peer, budget>>
  /\ seen' = [seen EXCEPT !.kept = TRUE]
  /\ UNCHANGED <<chans, next, opening, direct, listen, listener, brigade, adding, call, told>>

(* channel_forward_accept: the oldest queued channel becomes the session's. *)
Accept ==
  /\ listener.st = "open"
  /\ Begin("accept", "reply", 0)
  /\ UNCHANGED <<chans, next, opening, direct, listen, listener, brigade, adding, out, server, peer,
                 budget, seen>>

AcceptTakes ==
  /\ In("accept", "reply") /\ listener.queue # <<>>
  /\ chans' = [chans EXCEPT ![Head(listener.queue)].place = "session"]
  /\ listener' = [listener EXCEPT !.queue = Tail(@)]
  /\ Returns
  /\ UNCHANGED <<next, opening, direct, listen, brigade, adding, out, server, peer, calls, budget,
                 told, seen>>

---------------------------------------------------------------------------
(* _libssh2_channel_free sends a close, waits for one packet of any kind, unless
   the server has closed the channel before, and disposes of the channel: the
   server's close may come later.  _libssh2_channel_forward_cancel frees the queue
   of the listener first, one after the other, and then the listener: a channel
   that is queued while the last one closes is left behind. *)

ClosePhase(ch) == IF ch.rclose THEN "closed" ELSE "reply"
FreePhase(ch) == IF ch.closing = "sent" THEN ClosePhase(ch) ELSE "close"

Free ==
  /\ \E id \in Mine : Begin("free", FreePhase(chans[id]), id)
  /\ UNCHANGED <<chans, next, opening, direct, listen, listener, brigade, adding, out, server, peer,
                 budget, seen>>

FreeSends ==
  /\ call.op \in {"free", "cancel"} /\ call.ph = "close"
  /\ LET p == Packet("close", call.id, chans[call.id].remote) IN
     \/ /\ TransportSend(p)
        /\ chans' = [chans EXCEPT ![call.id].closing = "sent"]
        /\ Phase(ClosePhase(chans[call.id]))
        /\ UNCHANGED budget
     \/ SendBlocks(p) /\ UNCHANGED <<chans, call>>
  /\ UNCHANGED <<next, opening, direct, listen, listener, brigade, adding, calls, told, seen>>

(* Mutant: a close that cannot be sent now is not sent. *)
FreeDisposes_Unsent ==
  /\ call.op = "free" /\ call.ph \in {"close", "closed"}
  /\ chans' = Without(call.id)
  /\ Returns
  /\ UNCHANGED <<next, opening, direct, listen, listener, brigade, adding, out, server, peer, calls,
                 budget, told, seen>>

FreeDisposes ==
  /\ In("free", "closed")
  /\ chans' = Without(call.id)
  /\ Returns
  /\ UNCHANGED <<next, opening, direct, listen, listener, brigade, adding, out, server, peer, calls,
                 budget, told, seen>>

(* The queue is walked with the next channel noted before the wait. *)
CancelNext(queue) ==
  IF queue = <<>>
  THEN [call EXCEPT !.ph = "done"]
  ELSE [call EXCEPT !.ph = FreePhase(chans[Head(queue)]),
                    !.id = Head(queue), !.left = Len(queue) - 1]

Cancel ==
  /\ listener.st # "none"
  /\ Begin("cancel", "send", 0)
  /\ UNCHANGED <<chans, next, opening, direct, listen, listener, brigade, adding, out, server, peer,
                 budget, seen>>

CancelSends ==
  /\ In("cancel", "send")
  /\ LET p == Packet("cancel", 0, 0) IN
     \/ /\ IF listener.st = "cancelled" THEN UNCHANGED <<out, server, peer>>
           ELSE TransportSend(p)
        /\ listener' = [listener EXCEPT !.st = "cancelled"]
        /\ call' = CancelNext(listener.queue)
        /\ UNCHANGED budget
     \/ listener.st = "open" /\ SendBlocks(p) /\ UNCHANGED <<listener, call>>
  /\ UNCHANGED <<chans, next, opening, direct, listen, brigade, adding, calls, told, seen>>

CancelDisposes ==
  /\ In("cancel", "closed")
  /\ chans' = Without(call.id)
  /\ listener' = [listener EXCEPT !.queue = Tail(@)]
  /\ call' = IF call.left = 0 THEN [call EXCEPT !.ph = "done"] ELSE CancelNext(Tail(listener.queue))
  /\ UNCHANGED <<next, opening, direct, listen, brigade, adding, out, server, peer, calls, budget,
                 told, seen>>

CancelEnds ==
  /\ In("cancel", "done")
  /\ LET left == ToSet(listener.queue) IN
     /\ chans' = [id \in DOMAIN chans \ left |-> chans[id]]
     /\ seen' = [seen EXCEPT !.lost = @ \cup {chans[id].remote : id \in left}]
  /\ listener' = NoListener
  /\ Returns
  /\ UNCHANGED <<next, opening, direct, listen, brigade, adding, out, server, peer, calls, budget, told>>

(* EAGAIN reaches the application, which calls something else. *)
Abandon ==
  /\ call.ph = "reply" \/ (call.ph \in {"send", "close"} /\ out # None)
  /\ Spend("abandon")
  /\ seen' = [seen EXCEPT !.given = IF call.op \in {"listen"} \cup Opens \cup Kinds
                                    THEN @ \cup {call.id} ELSE @,
                          !.stale = @ \/ call.op = "tcpip"]
  /\ Returns
  /\ UNCHANGED <<chans, next, opening, direct, listen, listener, brigade, adding, out, server, peer,
                 calls, told>>

Next ==
  \/ Arrives \/ OtherArrives \/ ServerOpens \/ X11Open \/ ServerIsRefused \/ AddingResumes
  \/ OpenSession \/ DirectTcpip \/ OpenSends \/ OpenReplies \/ OpenFails
  \/ Setenv \/ RequestPty \/ RequestAuthAgent \/ ProcessStartup
  \/ \E kind \in Kinds : RequestSends(kind) \/ RequestReplies(kind) \/ RequestFails(kind)
  \/ PtySize \/ Signal
  \/ Listen \/ ListenSends \/ ListenReplies \/ ListenFails \/ KeepaliveSend
  \/ Accept \/ AcceptTakes
  \/ Free \/ FreeSends \/ FreeDisposes
  \/ Cancel \/ CancelSends \/ CancelDisposes \/ CancelEnds
  \/ Abandon

Spec == Init /\ [][Next]_vars

---------------------------------------------------------------------------
TypeOK ==
  /\ DOMAIN chans \subseteq 1..(next - 1)
  /\ opening.st \in {"idle", "created", "sent"} /\ listen.st \in {"idle", "created", "sent"}
  /\ listener.st \in {"none", "open", "cancelled"}
  /\ call.ph \in {"idle", "send", "reply", "fail", "close", "closed", "done"}

(* The objects hang together: the open in progress has its channel, the queue of
   the listener is within its limit and holds the channels that wait in it, no
   two channels are one channel of the server. *)
Linked ==
  /\ opening.st # "idle" => opening.id \in DOMAIN chans
  /\ ToSet(listener.queue) = {id \in DOMAIN chans : chans[id].place = "queue"}
  /\ listener.max > 0 => Len(listener.queue) <= listener.max
  /\ \A i, j \in DOMAIN chans :
       chans[i].remote = chans[j].remote /\ chans[i].remote # 0 => i = j

Inv == TypeOK /\ Linked

(* A request is granted by the server's answer to that request, unless an
   earlier one on the channel was given up: then its answer is taken. *)
OwnReply ==
  told.op \in Kinds /\ told.ok => told.by = told.n \/ told.id \in seen.given

(* An open returns the channel the server opened for it, unless it continued one
   that was given up, and a direct one leads to the host of its caller, unless a
   direct call was given up before: its message may be left. *)
OwnChannel ==
  told.op \in Opens /\ told.ok =>
    /\ told.by = told.n \/ told.id \in seen.given
    /\ told.op = "tcpip" => told.to = told.n \/ told.id \in seen.given \/ seen.stale

(* A listener exists when the server said so to its request: an answer to a
   keepalive is taken for it only where keepalives are sent. *)
OwnListener ==
  told.op = "listen" /\ told.ok => told.by = told.n \/ seen.kept \/ 0 \in seen.given

(* What the server has open is known to the library, or was told to close: a
   channel that is disposed of before the server's close comes has sent one of its
   own.  It is not so for a channel whose open timed out, whose confirmation was
   blocked or which came while the listener was cancelled. *)
NoStrayChannel ==
  \A n \in peer.open \ seen.lost :
    \/ \E id \in DOMAIN chans : chans[id].remote = n
    \/ opening.n = n
    \/ \E i \in DOMAIN server : server[i].kind = "close" /\ server[i].n = n

(* A call that waits for a reply gets one: the answer is on its way, or was read
   already, whatever other calls were interrupted before it.  Only a size sent
   in the place of a terminal request leaves it without, and an open that goes on
   with one of another type. *)
WaiterHasAnswer ==
  call.op \in Kinds \cup Opens \cup {"listen"} /\ call.ph = "reply" =>
    \/ Found(brigade)
    \/ \E i \in DOMAIN server : server[i].id = call.id
    \/ call.op \in Kinds /\ call.id \in seen.sized
    \/ call.op \in Opens /\ call.op # opening.type

(* However the calls are interrupted, the server is asked once per channel to
   start a program. *)
StartedOnce == ~peer.twice

(* What a call is told, a request's grant, an open's channel or a listener, is the
   server's answer to that call. *)
OwnAnswers == OwnReply /\ OwnChannel /\ OwnListener

(* A call that waits is answered, and one that is repeated is asked only once. *)
AskedOnceAndAnswered == WaiterHasAnswer /\ StartedOnce
=============================================================================
