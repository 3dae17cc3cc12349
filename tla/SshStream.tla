----------------------------- MODULE SshStream -----------------------------
(* The data of one open channel in the patched libssh2: reading, writing,
   flushing, end of file and closing (channel.c), what an arriving packet does
   to the channel (packet.c), and the half-sent packet of the transport
   (transport.c), which stops every other sender until its own one returns.

   Init is a channel just confirmed by the server.  A call of the API runs
   alone; where the code returns EAGAIN the call waits, or returns to the
   application (a non-blocking session, or a timeout) and leaves its state
   machine where it was: Abandon.  The relay of mshell's tunnels is one of the
   callers: it flushes the channel after each write.

   The windows are 32-bit and wrap (Mod); bytes are counted in units and named
   by their position in their stream.  Stream 0 is the standard stream, stream 1
   the extended data.  The server keeps to the window it was granted. *)
EXTENDS Integers, Sequences, FiniteSets, SequencesExt

CONSTANTS
  Window,      \* remote.window_size_initial
  MinAdjust,   \* LIBSSH2_CHANNEL_MINADJUST
  PacketMax,   \* the packet sizes both sides accept
  Missing,     \* bytes of a DATA packet a flush does not refund (13 - 9 in the code)
  PeerWindow,  \* local.window_size at the start: what the server grants
  ReadSizes, WriteSizes,
  DataBytes, ExtBytes,  \* how many bytes the server has to send on each stream
  Mod,         \* 2^32
  MaxCalls, MaxBlock, MaxAbandon  \* bounds of the exploration

ASSUME StreamAssumption ==
  /\ Mod \in Nat \ {0, 1}
  /\ {Window, MinAdjust, PacketMax} \subseteq 1..(Mod - 1)
  /\ Missing \in Nat /\ PeerWindow \in 0..(Mod - 1)
  /\ ReadSizes \subseteq 1..(Mod - 1) /\ ReadSizes # {} /\ WriteSizes \subseteq Nat \ {0}
  /\ {DataBytes, ExtBytes, MaxCalls, MaxBlock, MaxAbandon} \subseteq Nat

VARIABLES
  c,       \* the channel object
  queue,   \* session->packets: the data packets not yet read, in order
  ignored, \* packet_add interrupted while it refunds ignored extended data
  out,     \* the packet the transport has sent a part of, or None
  peer,    \* the server's side of the channel
  call, calls, budget,
  app,     \* where the application is in each stream, by what it was told
  seen     \* history: what excuses the code from the guarantees

vars == <<c, queue, ignored, out, peer, call, calls, budget, app, seen>>

None == [type |-> "none"]
Streams == {0, 1}
ToSend(s) == IF s = 0 THEN DataBytes ELSE ExtBytes
U32(x) == x % Mod
Size(x) == x % (Mod * Mod)

NoCall == [op |-> "none", ph |-> "idle", s |-> 0, n |-> 0, amt |-> 0]

Channel ==
  [rwin |-> Window, avail |-> 0,         \* remote.window_size, read_avail
   adj |-> 0, adjq |-> 0,                \* the built adjust packet, adjust_queue
   jump |-> FALSE,                       \* read_state = jump1
   flush |-> [on |-> FALSE, refund |-> 0, bytes |-> 0],
   ignore |-> FALSE, merge |-> FALSE,    \* extended_data_ignore_mode
   reof |-> FALSE, rclose |-> FALSE,     \* remote.eof, remote.close
   leof |-> FALSE, lclose |-> FALSE,     \* local.eof, local.close
   closing |-> "idle",                   \* close_state
   lwin |-> PeerWindow, wr |-> 0,        \* local.window_size, write_bufwrite
   freed |-> FALSE]

Init ==
  /\ c = Channel
  /\ queue = <<>> /\ ignored = 0 /\ out = None
  /\ peer = [credit |-> Window, sent |-> [s \in Streams |-> 0], eof |-> FALSE,
             close |-> FALSE, got |-> 0, wrong |-> FALSE, owes |-> 0,
             geof |-> FALSE, gclose |-> FALSE, twice |-> FALSE]
  /\ call = NoCall /\ calls = 0
  /\ budget = [block |-> MaxBlock, abandon |-> MaxAbandon]
  /\ app = [read |-> [s \in Streams |-> 0], written |-> 0, ended |-> {}, last |-> "none"]
  /\ seen = [skewed |-> FALSE, skipped |-> {}, byHand |-> FALSE,
             late |-> FALSE]

Spend(what) == budget[what] > 0 /\ budget' = [budget EXCEPT ![what] = @ - 1]
(* A call returns to the application; `last` is what the relay goes by. *)
Returns(after) ==
  /\ call' = NoCall
  /\ app' = [after EXCEPT !.last = call.op]
Phase(ph) == call' = [call EXCEPT !.ph = ph]
In(op, ph) == call.op = op /\ call.ph = ph

Begin(op, ph, s, n) ==
  /\ call = NoCall /\ ~c.freed /\ calls < MaxCalls
  /\ calls' = calls + 1
  /\ call' = [op |-> op, ph |-> ph, s |-> s, n |-> n, amt |-> 0]

---------------------------------------------------------------------------
(* _libssh2_transport_send: a packet goes out whole, or a part of it does and
   the rest waits for a call with the same packet; meanwhile any other packet
   is told EAGAIN.  A part-sent packet keeps the contents it was built with. *)

CanSend(p) == out = None \/ (out.type = p.type /\ (p.type = "eof" => out.by = p.by))
OnWire(p) == IF out = None THEN p ELSE out

Delivered(p) ==
  CASE p.type = "adjust" -> [peer EXCEPT !.credit = @ + p.n]
    [] p.type = "data" -> [peer EXCEPT !.got = @ + p.n, !.owes = @ + p.n,
                             !.wrong = @ \/ p.at # peer.got \/ peer.geof \/ peer.gclose]
    [] p.type = "eof" -> [peer EXCEPT !.geof = TRUE]
    [] p.type = "close" -> [peer EXCEPT !.gclose = TRUE, !.twice = @ \/ peer.gclose]

TransportSend(p) ==
  /\ CanSend(p)
  /\ peer' = Delivered(OnWire(p))
  /\ out' = None

(* The socket takes only a part: EAGAIN, and the packet is kept. *)
SendBlocks(p) ==
  /\ out = None /\ Spend("block")
  /\ out' = p
  /\ UNCHANGED peer

EAgain(p) ==
  \/ SendBlocks(p)
  \/ ~CanSend(p) /\ UNCHANGED <<out, peer, budget>>

---------------------------------------------------------------------------
(* _libssh2_channel_receive_window_adjust, in two steps: the packet is built or
   an interrupted call's packet found, then sent.  What is added to the window
   is the amount of this call, with the queued bytes only when it built the
   packet itself and was not interrupted. *)

AdjustEnter(adjustment) ==
  IF c.adj = 0
  THEN [chan |-> [c EXCEPT !.adj = adjustment + c.adjq, !.adjq = 0],
        amt |-> adjustment + c.adjq]
  ELSE [chan |-> c, amt |-> adjustment]

AdjustPacket == [type |-> "adjust", n |-> c.adj]

AdjustSent(chan, amt) == [chan EXCEPT !.rwin = U32(@ + amt), !.adj = 0]

(* The amount added is not the amount sent, or more than the window can hold. *)
Off(amt, n) == amt # n \/ c.rwin + amt >= Mod
Skewed(amt) == seen' = [seen EXCEPT !.skewed = @ \/ Off(amt, OnWire(AdjustPacket).n)]

(* A close has been sent: what the channel's calls still send comes after it. *)
CloseSent == c.closing = "sent" \/ c.lclose

---------------------------------------------------------------------------
(* _libssh2_packet_add, for a packet of this channel, read by a call that is in
   _libssh2_transport_read. *)

Reading == call.ph \in {"drain", "wait"} /\ ignored = 0

Packet(s, n) == [s |-> s, at |-> peer.sent[s], left |-> n, size |-> n]

(* More than the window leaves room for is cut off or dropped, which a server
   that was granted too much can provoke. *)
PacketAddData(s, n) ==
  /\ LET room == Size(c.rwin - c.avail)
         take == Min({n, room})
     IN
     IF c.ignore /\ s = 1
     THEN /\ c' = [c EXCEPT !.rwin = U32(@ - take)]
          /\ ignored' = take
          /\ seen' = [seen EXCEPT !.skipped = @ \cup {1}]
          /\ UNCHANGED queue
     ELSE IF c.rwin <= c.avail
     THEN UNCHANGED <<c, queue, ignored, seen>>
     ELSE /\ queue' = Append(queue, Packet(s, take))
          /\ c' = [c EXCEPT !.avail = Size(@ + take), !.reof = FALSE]
          /\ UNCHANGED <<ignored, seen>>
  /\ peer' = [peer EXCEPT !.sent[s] = @ + n, !.credit = @ - n]

PacketAddEof ==
  /\ peer' = [peer EXCEPT !.eof = TRUE]
  /\ c' = [c EXCEPT !.reof = TRUE]
  /\ UNCHANGED <<queue, ignored, seen>>

PacketAddClose ==
  /\ peer' = [peer EXCEPT !.eof = TRUE, !.close = TRUE]
  /\ c' = [c EXCEPT !.reof = TRUE, !.rclose = TRUE]
  /\ UNCHANGED <<queue, ignored, seen>>

PacketAddAdjust(n) ==
  /\ peer' = [peer EXCEPT !.owes = @ - n]
  /\ c' = [c EXCEPT !.lwin = U32(@ + n)]
  /\ UNCHANGED <<queue, ignored, seen>>

(* Who waits for the server's close waits for one packet: transport_read returns its
   type, and the loop of _libssh2_channel_close ends, whatever it was. *)
WaitsForClose == call.op \in {"close", "free"} /\ call.ph = "wait"
GoesOn == IF WaitsForClose /\ ignored' = 0 THEN Phase("closed") ELSE UNCHANGED call

(* A server sends what its window allows, then end of file, then close; it
   closes at the latest when it has been told to. *)
Arrives ==
  /\ Reading
  /\ \/ \E s \in Streams, n \in 1..PacketMax :
          /\ ~peer.eof /\ n <= peer.credit /\ peer.sent[s] + n <= ToSend(s)
          /\ PacketAddData(s, n)
     \/ ~peer.eof /\ PacketAddEof
     \/ ~peer.close /\ (peer.eof \/ peer.gclose) /\ PacketAddClose
     \/ ~peer.close /\ peer.owes > 0 /\ PacketAddAdjust(peer.owes)
  /\ GoesOn
  /\ UNCHANGED <<out, calls, budget, app>>

(* A packet of another channel, or of none. *)
OtherArrives ==
  /\ WaitsForClose /\ Reading
  /\ Phase("closed")
  /\ UNCHANGED <<c, queue, ignored, out, peer, calls, budget, app, seen>>

(* The refund of ignored extended data, which an EAGAIN leaves for the next
   _libssh2_transport_read. *)
RefundsIgnored ==
  /\ ignored > 0 /\ call.ph \in {"drain", "wait"}
  /\ LET e == AdjustEnter(ignored)
         p == [type |-> "adjust", n |-> e.chan.adj]
     IN
     \/ /\ TransportSend(p)
        /\ c' = AdjustSent(e.chan, e.amt)
        /\ ignored' = 0
        /\ seen' = [seen EXCEPT !.skewed = @ \/ Off(e.amt, OnWire(p).n)]
        /\ UNCHANGED budget
     \/ /\ SendBlocks(p)
        /\ c' = e.chan
        /\ UNCHANGED <<ignored, seen>>
  /\ GoesOn
  /\ UNCHANGED <<queue, calls, app>>

---------------------------------------------------------------------------
(* libssh2_channel_read_ex: a buffer larger than the window forces an adjust of
   its size; then _libssh2_channel_read widens the window when it has become
   narrow, drains the socket and takes what is queued for the stream. *)

ReadEnter(s, n) ==
  /\ Begin("read", IF n > c.rwin THEN "force" ELSE "expand", s, n)
  /\ seen' = [seen EXCEPT !.late = @ \/ CloseSent]
  /\ UNCHANGED <<c, queue, ignored, out, peer, budget, app>>

(* Mutant: only an interrupted read widens. *)
Narrow_OnlyResumed == c.jump

Narrow == c.jump \/ c.rwin < (Window \div 4) * 3 + call.n
Expansion == Max({U32(Window + call.n - c.rwin), MinAdjust})

ReadForces ==
  /\ In("read", "force")
  /\ LET e == AdjustEnter(call.n) IN
     /\ c' = e.chan
     /\ call' = [call EXCEPT !.ph = "force adjust", !.amt = e.amt]
  /\ UNCHANGED <<queue, ignored, out, peer, calls, budget, app, seen>>

ReadExpands ==
  /\ In("read", "expand")
  /\ IF Narrow
     THEN LET e == AdjustEnter(Expansion) IN
          /\ c' = [e.chan EXCEPT !.jump = TRUE]
          /\ call' = [call EXCEPT !.ph = "adjust", !.amt = e.amt]
          /\ seen' = [seen EXCEPT !.skewed = @ \/ c.rwin > Window + call.n]
     ELSE Phase("drain") /\ UNCHANGED <<c, seen>>
  /\ UNCHANGED <<queue, ignored, out, peer, calls, budget, app>>

(* After a block the call comes back with its own amount only. *)
Amount ==
  CASE call.ph = "force adjust" -> call.n
    [] call.ph = "adjust" -> Expansion
    [] OTHER -> call.amt

ReadAdjusts ==
  /\ call.op = "read" /\ call.ph \in {"force adjust", "adjust"}
  /\ \/ /\ TransportSend(AdjustPacket)
        /\ LET d == AdjustSent(c, call.amt) IN
           IF call.ph = "adjust"
           THEN c' = [d EXCEPT !.jump = FALSE] /\ Phase("drain")
           ELSE c' = d /\ Phase("expand")
        /\ Skewed(call.amt)
        /\ UNCHANGED budget
     \/ /\ EAgain(AdjustPacket)
        /\ call' = [call EXCEPT !.amt = Amount]
        /\ UNCHANGED <<c, seen>>
  /\ UNCHANGED <<queue, ignored, calls, app>>

(* In a non-blocking session a blocked forced adjust is not waited for. *)
ReadSkipsForce ==
  /\ In("read", "force adjust") /\ out # None /\ Spend("abandon")
  /\ Phase("expand")
  /\ UNCHANGED <<c, queue, ignored, out, peer, calls, app, seen>>

Wanted(p, s) == p.s = s \/ (s = 0 /\ c.merge)
Unread(q) == FoldLeft(LAMBDA sum, p : sum + p.left, 0, q)

(* Take up to n bytes of the packets of stream s: the packets left and, per
   stream, how many bytes and from where. *)
Take(a, p, k) ==
  [want |-> a.want - k,
   rest |-> IF k = p.left THEN a.rest
            ELSE Append(a.rest, [p EXCEPT !.at = @ + k, !.left = @ - k]),
   bytes |-> IF k = 0 THEN a.bytes
             ELSE Append(a.bytes, [s |-> p.s, at |-> p.at, n |-> k])]
Taken(a, p, s) == IF Wanted(p, s) THEN Min({p.left, a.want}) ELSE 0
TakeFrom(q, s, n) ==
  FoldLeft(LAMBDA a, p : Take(a, p, Taken(a, p, s)),
           [want |-> n, rest |-> <<>>, bytes |-> <<>>], q)

(* What the application sees of the bytes: the position it has reached in each
   stream, or -1 once a byte did not follow the one before it. *)
Reach(a, b) == [a EXCEPT ![b.s] = IF b.at = @ THEN @ + b.n ELSE -1]
Follow(read, bytes) == FoldLeft(LAMBDA a, b : Reach(a, b), read, bytes)

(* The socket is drained, or a refund is stuck behind a half-sent packet. *)
Drained == ignored = 0 \/ out # None

ReadTakes ==
  /\ In("read", "drain") /\ Drained
  /\ LET t == TakeFrom(queue, call.s, call.n)
         n == call.n - t.want
     IN
     \/ /\ n > 0
        /\ Returns([app EXCEPT !.read = Follow(@, t.bytes)])
        /\ queue' = t.rest
        /\ c' = [c EXCEPT !.avail = Size(@ - n), !.rwin = U32(@ - n)]
     \/ /\ n = 0 /\ (c.reof \/ c.rclose)
        /\ Returns([app EXCEPT !.ended = @ \cup {call.s}])
        /\ UNCHANGED <<queue, c>>
     \/ /\ n = 0 /\ ~c.reof /\ ~c.rclose /\ Phase("wait")
        /\ UNCHANGED <<queue, c, app>>
  /\ UNCHANGED <<ignored, out, peer, calls, budget, seen>>

(* libssh2_channel_eof *)
ChannelEof == c.reof /\ Unread(queue) = 0

(* A blocking call starts again when the socket had something for it. *)
ReadAgain ==
  /\ In("read", "wait")
  /\ c.reof \/ \E i \in DOMAIN queue : Wanted(queue[i], call.s)
  /\ Phase("expand")
  /\ UNCHANGED <<c, queue, ignored, out, peer, calls, budget, app, seen>>

Read ==
  \/ \E s \in Streams, n \in ReadSizes : ReadEnter(s, n)
  \/ ReadForces \/ ReadExpands \/ ReadAdjusts \/ ReadSkipsForce \/ ReadTakes \/ ReadAgain

---------------------------------------------------------------------------
(* _libssh2_channel_write: one packet of what is given, as the window and the
   packet size allow.  A caller that was told EAGAIN comes back with the bytes
   it gave, as the function requires. *)

(* Mutant: an interrupted write starts again. *)
WriteEnter_Rebuilds(n) ==
  /\ c.wr = 0 => ~c.lclose /\ ~c.leof
  /\ Begin("write", "drain", 0, n)
  /\ seen' = [seen EXCEPT !.late = @ \/ c.leof]
  /\ UNCHANGED <<c, queue, ignored, out, peer, budget, app>>

WriteEnter(n) ==
  /\ c.wr = 0 => ~c.lclose /\ ~c.leof
  /\ c.wr > 0 => n >= c.wr
  /\ Begin("write", IF c.wr = 0 THEN "drain" ELSE "send", 0, n)
  /\ seen' = [seen EXCEPT !.late = @ \/ c.leof]
  /\ UNCHANGED <<c, queue, ignored, out, peer, budget, app>>

WriteBuilds ==
  /\ In("write", "drain") /\ Drained
  /\ IF c.lwin = 0
     THEN Phase("wait") /\ UNCHANGED c
     ELSE /\ c' = [c EXCEPT !.wr = Min({call.n, c.lwin, PacketMax})]
          /\ Phase("send")
  /\ UNCHANGED <<queue, ignored, out, peer, calls, budget, app, seen>>

WriteAgain ==
  /\ In("write", "wait") /\ c.lwin > 0
  /\ Phase("drain")
  /\ UNCHANGED <<c, queue, ignored, out, peer, calls, budget, app, seen>>

WriteSends ==
  /\ In("write", "send")
  /\ LET p == [type |-> "data", at |-> app.written, n |-> c.wr] IN
     \/ /\ TransportSend(p)
        /\ c' = [c EXCEPT !.lwin = U32(@ - c.wr), !.wr = 0]
        /\ Returns([app EXCEPT !.written = @ + c.wr])
        /\ UNCHANGED budget
     \/ SendBlocks(p) /\ UNCHANGED <<c, app, call>>
  /\ UNCHANGED <<queue, ignored, calls, seen>>

Write ==
  \/ \E n \in WriteSizes : WriteEnter(n)
  \/ WriteBuilds \/ WriteAgain \/ WriteSends

---------------------------------------------------------------------------
(* _libssh2_channel_flush: the queued packets of a stream (2: of all) are
   thrown away, their bytes leave the window and a refund is sent.  The refund
   of a standard packet misses bytes, and the bytes are taken off the window
   each time the function is entered. *)

Flushable(p, which) == which = 2 \/ p.s = which

(* What a flush throws away: the streams and bytes of the packets gone, what is
   to be refunded, and the packets kept. *)
Discard(a, p) ==
  [a EXCEPT !.bytes = @ + p.left, !.gone = @ \cup {p.s},
            !.refund = @ + p.size - (IF p.s = 0 THEN Missing ELSE 0)]
Flushed(q, which) ==
  FoldLeft(LAMBDA a, p : IF Flushable(p, which) THEN Discard(a, p)
                         ELSE [a EXCEPT !.kept = Append(@, p)],
           [kept |-> <<>>, gone |-> {}, bytes |-> 0, refund |-> 0], q)

(* Mutant: the flushed bytes stay in the window. *)
Counted_KeepsWindow(chan, bytes) == [chan EXCEPT !.avail = Size(@ - bytes)]

Counted(chan, bytes) ==
  [chan EXCEPT !.avail = Size(@ - bytes), !.rwin = U32(@ - bytes)]

(* The refund goes out as an adjust of the window, unless there is nothing to
   build one of. *)
FlushRefunds(chan) ==
  IF chan.flush.refund = 0 \/ chan.adj + chan.adjq + U32(chan.flush.refund) = 0
  THEN /\ c' = [chan EXCEPT !.flush.on = FALSE]
       /\ Returns(app)
  ELSE /\ c' = IF chan.adj = 0
               THEN [chan EXCEPT !.adj = U32(chan.flush.refund) + chan.adjq, !.adjq = 0]
               ELSE chan
       /\ call' = [call EXCEPT !.ph = "adjust",
                     !.amt = U32(chan.flush.refund) + (IF chan.adj = 0 THEN chan.adjq ELSE 0)]
       /\ UNCHANGED app

FlushEnter(which) ==
  /\ Begin("flush", "count", which, 0)
  /\ LET f == Flushed(queue, which) IN
     IF c.flush.on
     THEN /\ seen' = [seen EXCEPT !.skewed = @ \/ c.flush.bytes > 0, !.late = @ \/ CloseSent]
          /\ UNCHANGED <<c, queue>>
     ELSE /\ queue' = f.kept
          /\ c' = [c EXCEPT !.flush = [on |-> TRUE, refund |-> Size(f.refund),
                                        bytes |-> f.bytes]]
          /\ seen' = [seen EXCEPT !.skipped = @ \cup f.gone,
                                  !.skewed = @ \/ f.refund < 0,
                                  !.byHand = @ \/ f.gone # {}, !.late = @ \/ CloseSent]
  /\ UNCHANGED <<ignored, out, peer, budget, app>>

FlushCounts ==
  /\ In("flush", "count")
  /\ FlushRefunds(Counted(c, c.flush.bytes))
  /\ UNCHANGED <<queue, ignored, out, peer, calls, budget, seen>>

FlushAdjusts ==
  /\ In("flush", "adjust")
  /\ \/ /\ TransportSend(AdjustPacket)
        /\ c' = [AdjustSent(c, call.amt) EXCEPT !.flush.on = FALSE]
        /\ Skewed(call.amt)
        /\ Returns(app)
        /\ UNCHANGED budget
     \/ /\ EAgain(AdjustPacket)
        /\ Phase("again")
        /\ UNCHANGED <<c, app, seen>>
  /\ UNCHANGED <<queue, ignored, calls>>

(* A blocking flush comes back when the socket takes its packet. *)
FlushAgain ==
  /\ In("flush", "again") /\ CanSend(AdjustPacket)
  /\ Phase("count")
  /\ seen' = [seen EXCEPT !.skewed = @ \/ c.flush.bytes > 0]
  /\ UNCHANGED <<c, queue, ignored, out, peer, calls, budget, app>>

Flush ==
  \/ \E which \in 0..2 : FlushEnter(which)
  \/ FlushCounts \/ FlushAdjusts \/ FlushAgain

---------------------------------------------------------------------------
(* libssh2_channel_receive_window_adjust2: by the application's own hand. *)

WindowAdjust(n, force) ==
  /\ IF ~force /\ c.adj = 0 /\ n + c.adjq < MinAdjust
     THEN /\ call = NoCall /\ ~c.freed /\ calls < MaxCalls
          /\ calls' = calls + 1
          /\ c' = [c EXCEPT !.adjq = @ + n]
          /\ UNCHANGED call
     ELSE /\ Begin("window_adjust", "adjust", 0, n)
          /\ c' = AdjustEnter(n).chan
  /\ seen' = [seen EXCEPT !.byHand = TRUE, !.late = @ \/ CloseSent]
  /\ UNCHANGED <<queue, ignored, out, peer, budget, app>>

WindowAdjusted ==
  /\ In("window_adjust", "adjust")
  /\ \/ /\ TransportSend(AdjustPacket)
        /\ \E amt \in {call.n, c.adj} :
             /\ c' = AdjustSent(c, amt)
             /\ Skewed(amt)
        /\ Returns(app)
        /\ UNCHANGED budget
     \/ SendBlocks(AdjustPacket) /\ UNCHANGED <<c, seen, app, call>>
  /\ UNCHANGED <<queue, ignored, calls>>

(* libssh2_channel_handle_extended_data2: what is queued stays queued. *)
HandleExtendedData(mode) ==
  /\ call = NoCall /\ ~c.freed /\ calls < MaxCalls
  /\ calls' = calls + 1
  /\ c' = [c EXCEPT !.ignore = (mode = "ignore"), !.merge = (mode = "merge")]
  /\ UNCHANGED <<queue, ignored, out, peer, call, budget, app, seen>>

---------------------------------------------------------------------------
(* channel_send_eof, channel_wait_eof, _libssh2_channel_close,
   channel_wait_closed and _libssh2_channel_free. *)

SendEofEnter ==
  /\ Begin("send_eof", "eof", 0, 0)
  /\ seen' = [seen EXCEPT !.late = @ \/ c.leof]
  /\ UNCHANGED <<c, queue, ignored, out, peer, budget, app>>

(* The packet is on the stack of the function: a half of it is only recognised
   by a call along the same path. *)
EofSends ==
  /\ call.ph = "eof"
  /\ LET p == [type |-> "eof", by |-> call.op] IN
     \/ /\ TransportSend(p)
        /\ c' = [c EXCEPT !.leof = TRUE]
        /\ IF call.op = "send_eof" THEN Returns(app) ELSE Phase("close") /\ UNCHANGED app
        /\ UNCHANGED budget
     \/ SendBlocks(p) /\ UNCHANGED <<c, app, call>>
  /\ UNCHANGED <<queue, ignored, calls, seen>>

WaitEofEnter ==
  /\ Begin("wait_eof", "wait", 0, 0)
  /\ seen' = [seen EXCEPT !.late = @ \/ CloseSent]
  /\ UNCHANGED <<c, queue, ignored, out, peer, budget, app>>

(* End of file, or a blocking call that finds the window exhausted. *)
WaitEofEnds ==
  /\ In("wait_eof", "wait")
  /\ c.reof \/ c.rwin = c.avail
  /\ Returns(app)
  /\ UNCHANGED <<c, queue, ignored, out, peer, calls, budget, seen>>

(* The close is sent: there is a packet to wait for, unless the server closed first. *)
CloseWait == IF c.rclose THEN "closed" ELSE "wait"
CloseStart ==
  IF ~c.leof THEN "eof" ELSE IF c.closing = "sent" THEN CloseWait ELSE "close"
(* Mutant: a channel the server has closed is freed as it is. *)
CloseEnter_Rushes(op) ==
  /\ op = "close" => ~c.lclose
  /\ Begin(op, IF c.lclose \/ c.rclose THEN "dispose" ELSE CloseStart, 0, 0)
  /\ UNCHANGED <<c, queue, ignored, out, peer, budget, app, seen>>
CloseEnter(op) ==
  /\ op = "close" => ~c.lclose
  /\ Begin(op, IF c.lclose THEN "dispose" ELSE CloseStart, 0, 0)
  /\ UNCHANGED <<c, queue, ignored, out, peer, budget, app, seen>>

CloseSends ==
  /\ call.ph = "close"
  /\ \/ /\ TransportSend([type |-> "close"])
        /\ c' = [c EXCEPT !.closing = "sent"]
        /\ Phase(CloseWait)
        /\ UNCHANGED budget
     \/ /\ SendBlocks([type |-> "close"])
        /\ c' = [c EXCEPT !.closing = "created"]
        /\ UNCHANGED call
  /\ UNCHANGED <<queue, ignored, calls, app, seen>>

CloseEnds ==
  /\ call.op \in {"close", "free"} /\ call.ph = "closed"
  /\ c' = [c EXCEPT !.lclose = TRUE, !.closing = "idle"]
  /\ IF call.op = "close" THEN Returns(app) ELSE Phase("dispose") /\ UNCHANGED app
  /\ UNCHANGED <<queue, ignored, out, peer, calls, budget, seen>>

WaitClosedEnter ==
  /\ c.reof
  /\ Begin("wait_closed", "wait", 0, 0)
  /\ UNCHANGED <<c, queue, ignored, out, peer, budget, app, seen>>

WaitClosedEnds ==
  /\ In("wait_closed", "wait") /\ c.rclose
  /\ Returns(app)
  /\ UNCHANGED <<c, queue, ignored, out, peer, calls, budget, seen>>

FreeDisposes ==
  /\ In("free", "dispose")
  /\ c' = [c EXCEPT !.freed = TRUE]
  /\ queue' = <<>>
  /\ Returns(app)
  /\ UNCHANGED <<ignored, out, peer, calls, budget, seen>>

Close ==
  \/ SendEofEnter \/ EofSends \/ WaitEofEnter \/ WaitEofEnds
  \/ CloseEnter("close") \/ CloseEnter("free") \/ CloseSends \/ CloseEnds
  \/ WaitClosedEnter \/ WaitClosedEnds \/ FreeDisposes

(* EAGAIN reaches the application: nothing has arrived, or the transport still
   holds a packet. *)
Abandon ==
  /\ \/ call.ph = "wait"
     \/ call.ph \in {"force adjust", "adjust", "again", "send", "eof", "close"} /\ out # None
  /\ Spend("abandon")
  /\ Returns(app)
  /\ UNCHANGED <<c, queue, ignored, out, peer, calls, seen>>

Next ==
  \/ Arrives \/ OtherArrives \/ RefundsIgnored
  \/ Read \/ Write \/ Flush \/ Close
  \/ \E n \in ReadSizes, force \in BOOLEAN : WindowAdjust(n, force)
  \/ WindowAdjusted
  \/ \E mode \in {"normal", "merge", "ignore"} : HandleExtendedData(mode)
  \/ Abandon

Spec == Init /\ [][Next]_vars

(* The relay of a tunnel: it writes what the socket gave it, flushes, and reads
   what the channel has. *)
RelayCalls ==
  call = NoCall /\ call' # NoCall =>
    IF app.last = "write" THEN call'.op = "flush" /\ call'.s = 0
    ELSE call'.op \in {"read", "write"} /\ call'.s = 0
RelaySpec == Init /\ [][Next /\ RelayCalls]_vars

---------------------------------------------------------------------------
Packets == [s : Streams, at : Nat, left : Nat \ {0}, size : Nat]
Sent ==
  {None} \cup [type : {"adjust"}, n : Nat]
         \cup [type : {"data"}, at : Nat, n : Nat]
         \cup [type : {"eof"}, by : {"send_eof", "close", "free"}]
         \cup [type : {"close"}]

Channels ==
  [rwin : 0..(Mod - 1), avail : 0..(Mod * Mod - 1), adj : Nat, adjq : Nat, jump : BOOLEAN,
   flush : [on : BOOLEAN, refund : 0..(Mod * Mod - 1), bytes : Nat],
   ignore : BOOLEAN, merge : BOOLEAN, reof : BOOLEAN, rclose : BOOLEAN,
   leof : BOOLEAN, lclose : BOOLEAN, closing : {"idle", "created", "sent"},
   lwin : 0..(Mod - 1), wr : Nat, freed : BOOLEAN]
Servers ==
  [credit : Nat, sent : [Streams -> Nat], eof : BOOLEAN, close : BOOLEAN,
   got : Nat, wrong : BOOLEAN, owes : Nat, geof : BOOLEAN, gclose : BOOLEAN,
   twice : BOOLEAN]
Ops == {"none", "read", "write", "flush", "window_adjust", "send_eof", "wait_eof",
        "close", "free", "wait_closed"}
Calls ==
  [op : Ops, ph : {"idle", "force", "force adjust", "expand", "adjust", "drain", "wait",
                   "send", "count", "again", "eof", "close", "closed", "dispose"},
   s : 0..2, n : Nat, amt : Nat]
Apps == [read : [Streams -> Nat \cup {-1}], written : Nat, ended : SUBSET Streams,
         last : Ops]
Histories == [skewed : BOOLEAN, skipped : SUBSET Streams, byHand : BOOLEAN, late : BOOLEAN]
Budgets == [block : Nat, abandon : Nat]

TypeOK ==
  /\ c \in Channels /\ queue \in Seq(Packets) /\ ignored \in 0..PacketMax /\ out \in Sent
  /\ peer \in Servers /\ call \in Calls
  /\ calls \in Nat /\ budget \in Budgets
  /\ app \in Apps /\ seen \in Histories

(* The library and the server agree on both windows: what the library takes for
   its receive window is what the server may still send and what lies in the
   queue, and what it may write is what the server has not yet taken back.  The
   exceptions are an adjust resumed with another amount than was built, a flush
   that was interrupted and counted its bytes again, and the amounts that wrap:
   the refund of a very small packet, and the adjust of an interrupted read that
   is resumed with a window the application has widened by hand. *)
ReceiveWindow ==
  ~seen.skewed /\ ~c.flush.on /\ ~c.freed =>
    c.avail = Unread(queue) /\ c.rwin = peer.credit + c.avail
SendWindow == c.lwin = PeerWindow - peer.owes
WindowsAgree == ReceiveWindow /\ SendWindow

(* Types and windows. *)
Inv == TypeOK /\ WindowsAgree

(* What the library grants stays within one read of the initial window, or
   below two reads if they are larger, however reads, interruptions and arrivals
   follow one another, as long as the application does not adjust the window
   itself or flush; a read can grant the window of ignored extended data that is
   then refunded. *)
LargestGrant == Max({Window + Max(ReadSizes) + MinAdjust, 2 * Max(ReadSizes) - 1})
CreditIsBounded ==
  ~seen.skewed /\ ~seen.byHand =>
    peer.credit + Unread(queue) + ignored <=
      LargestGrant + (IF 1 \in seen.skipped THEN PacketMax ELSE 0)

(* A read that waits with nothing queued waits for a server that may send: it is
   starved only by unread data of the other stream that fills the window. *)
ReaderIsNotStarved ==
  In("read", "wait") /\ peer.credit = 0 /\ ignored = 0 /\ ~seen.skewed =>
    Unread(queue) > 0

(* The bytes of a stream reach the application in order and without a gap,
   except where it had them flushed or ignored or the windows disagreed. *)
ReadInOrder ==
  \A s \in Streams : app.read[s] = -1 => s \in seen.skipped \/ seen.skewed

(* A read that reports the end of a stream has given all the server sent on it
   before its end of file, and where libssh2_channel_eof says so the application
   has all of both streams. *)
EndIsTheEnd ==
  \A s \in app.ended \cup (IF ChannelEof /\ ~c.freed THEN Streams ELSE {}) :
    /\ peer.eof
    /\ s \notin seen.skipped /\ ~seen.skewed => app.read[s] = peer.sent[s]

(* What writes report as written is what the server was sent, once, in order,
   whatever was interrupted, and never behind an end of file or a close: only a
   write that was interrupted before and resumed after the end of file sends
   more, which the code lets through. *)
WrittenIsSent == app.written = peer.got /\ (peer.wrong => seen.late)

(* A channel that has been closed or freed has told the server so, end of file and
   then close, and the close was sent once, however often the call was interrupted
   and made again.  The server's own close need not have come: the wait for it ends
   with the first packet of any kind. *)
CloseIsTold ==
  /\ c.lclose \/ c.freed => peer.gclose
  /\ peer.gclose => peer.geof
  /\ ~peer.twice

(* A packet of which a part is on the wire can be completed by repeating the
   call that sends it; a channel is not freed with such a packet, which would
   stop all senders of the session, unless it was used after its close was sent:
   the window adjusted, an interrupted write resumed, or an end of file awaited while
   extended data is ignored. *)
HalfSentHasOwner ==
  out # None =>
    /\ CASE out.type = "adjust" -> c.adj > 0
         [] out.type = "data" -> c.wr > 0 /\ out.n = c.wr /\ out.at = app.written
         [] out.type = "close" -> c.closing = "created"
         [] out.type = "eof" -> ~c.leof \/ out.by = "send_eof"
    /\ c.freed => seen.late

(* What the server sends to a relay's channel comes out of it without a gap. *)
RelayLosesNothing == \A s \in Streams : app.read[s] # -1

(* The receive window neither grows without bound nor dries up. *)
WindowKeepsMoving == CreditIsBounded /\ ReaderIsNotStarved

(* The bytes of both directions arrive in order, once, and wholly before the end. *)
BytesInOrder == ReadInOrder /\ EndIsTheEnd /\ WrittenIsSent

(* A channel does not end without the server's knowledge, and takes no part of a packet
   with it. *)
CloseIsClean == CloseIsTold /\ HalfSentHasOwner
=============================================================================
