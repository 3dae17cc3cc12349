------------------------------ MODULE SshSftp ------------------------------
(* The SFTP client of the patched libssh2 (sftp.c): requests with increasing
   ids, the brigade of replies nobody has asked for yet, the zombies of given
   up requests, the read-ahead and write-behind pipelines of a file handle,
   and the states an interrupted call leaves behind for the next one.

   A call of the API is a Begin step, the sends of its packets and the taking
   of its replies; it runs alone, because mshell holds the session's lock while
   it is in libssh2.  Where the code returns EAGAIN a blocking call waits
   (BLOCK_ADJUST of session.h) until its timeout returns to the application:
   that return is Abandon, and it leaves the state machine where it was.

   A channel write takes a whole packet or, when the peer's window cuts it, a
   part of it.  The server answers its outstanding requests in any order; the
   arrival of an answer is the step that reads it.  Bytes are counted in units
   of a block and a byte of a file is named by its position. *)
EXTENDS Integers, Sequences, FiniteSets, SequencesExt

CONSTANTS
  Handles,      \* the places for open handles
  FileSize,     \* length of the remote file that is read
  DirSize,      \* entries of the remote directory
  ReadSizes,    \* sizes of the buffers given to read
  WriteSizes,   \* sizes of the buffers given to write
  MaxRead,      \* MAX_SFTP_READ_SIZE: bytes a READ asks for
  MaxOut,       \* MAX_SFTP_OUTGOING_SIZE: bytes a WRITE carries
  Simple,       \* the requests with one reply a run exercises
  MaxCalls, MaxAbandon, MaxShort, MaxFault  \* bounds of the exploration

ASSUME SizesAssumption ==
  /\ MaxRead \in Nat \ {0} /\ MaxOut \in Nat \ {0}
  /\ ReadSizes \subseteq Nat \ {0} /\ WriteSizes \subseteq Nat \ {0}
  /\ FileSize \in Nat /\ DirSize \in Nat

VARIABLES
  sftp,     \* the SFTP object: "none" or "up"
  init,     \* session->sftpInit_state
  chan,     \* whether the subsystem's channel is open
  req,      \* sftp->request_id, the id of the next request
  op,       \* per kind of request its state, id and the call that built it
  rdst,     \* sftp->read_state, one for all handles
  wrst,     \* sftp->write_state, one for all handles
  hd,       \* the handles
  brigade,  \* sftp->packets: replies read and not yet asked for
  zombies,  \* sftp->zombie_requests
  srv,      \* requests the server has and has not answered
  part,     \* id of the request of which only a part is on the wire, or None
  desync,   \* another packet was written after a part of one
  call,     \* the call the application is in
  calls,    \* calls made so far
  budget,   \* what is left of the bounded disturbances
  pos,      \* per handle: where the application is, by what it was told
  applied,  \* per handle: positions the server has written, with the position
            \* in the application's data they came from, or entries it has listed
  seen,     \* history: what excuses the application from the guarantees
  uses      \* history: ids whose reply was taken though its owner still waits

vars == <<sftp, init, chan, req, op, rdst, wrst, hd, brigade, zombies, srv, part, desync, call,
          calls, budget, pos, applied, seen, uses>>
wire == <<srv, part, desync>>
queues == <<brigade, zombies>>
told == <<pos, applied, seen, uses>>

None == 0
Least(a, b) == IF a < b THEN a ELSE b
Span(a, n) == [i \in 1..n |-> a + i - 1]

---------------------------------------------------------------------------
(* The requests with a single reply: the types the call accepts, and what it
   does when the window cuts its packet: "fail", "resend" (the whole packet
   again, the part already sent notwithstanding) or "continue". *)

Kind(accepts, cut) == [accepts |-> accepts, cut |-> cut]
Kinds ==
  [unlink       |-> Kind({"STATUS"}, "fail"),
   rename       |-> Kind({"STATUS"}, "fail"),
   mkdir        |-> Kind({"STATUS"}, "fail"),
   rmdir        |-> Kind({"STATUS"}, "fail"),
   fsync        |-> Kind({"STATUS"}, "resend"),
   posix_rename |-> Kind({"STATUS"}, "resend"),
   fstat        |-> Kind({"ATTRS", "STATUS"}, "fail"),
   stat         |-> Kind({"ATTRS", "STATUS"}, "fail"),
   symlink      |-> Kind({"NAME", "STATUS"}, "fail"),
   statvfs      |-> Kind({"EXT", "STATUS"}, "resend"),
   fstatvfs     |-> Kind({"EXT", "STATUS"}, "resend"),
   readdir      |-> Kind({"NAME", "STATUS"}, "fail"),
   open         |-> Kind({"HANDLE", "STATUS"}, "continue")]
Ops == Simple \cup {"readdir", "open"}

Chunk(id, at, len, src) ==
  [id |-> id, at |-> at, len |-> len, src |-> src, left |-> "all"]
FreeHandle ==
  [kind |-> "free", off |-> 0, sent |-> 0, acked |-> 0, chunks |-> <<>>,
   eof |-> FALSE, left |-> <<>>, names |-> <<>>, cl |-> "idle", clid |-> None]
IdleOp == [st |-> "idle", id |-> None, by |-> 0, h |-> CHOOSE h \in Handles : TRUE,
           kind |-> "path"]
Unseen == [failed |-> {}, short |-> {}, carried |-> {}, mixed |-> FALSE, resent |-> FALSE, left |-> {}]
NoCall == [op |-> "none", h |-> CHOOSE h \in Handles : TRUE, n |-> 0, by |-> 0,
           ph |-> "idle", buf |-> <<>>, acked |-> 0]

Init ==
  /\ sftp = "none" /\ init = "idle" /\ chan = FALSE
  /\ req = 1
  /\ op = [o \in Ops |-> IdleOp]
  /\ rdst = "idle" /\ wrst = "idle"
  /\ hd = [h \in Handles |-> FreeHandle]
  /\ brigade = {} /\ zombies = {}
  /\ srv = {} /\ part = None /\ desync = FALSE
  /\ call = NoCall /\ calls = 0
  /\ budget = [abandon |-> MaxAbandon, short |-> MaxShort, fault |-> MaxFault]
  /\ pos = [h \in Handles |-> [from |-> 0, at |-> 0]]
  /\ applied = [h \in Handles |-> {}]
  /\ seen = Unseen
  /\ uses = {}

Spend(what) == budget[what] > 0 /\ budget' = [budget EXCEPT ![what] = @ - 1]

(* A call returns to the application. *)
Return == call' = NoCall

(* The application enters the API with nothing else under way.  The bound on
   the calls counts a simple request twice, to leave room for the pipelines. *)
Cost(o) == IF o \in Simple THEN 2 ELSE 1
Begin(o, h, n, ph) ==
  /\ call = NoCall /\ calls + Cost(o) <= MaxCalls
  /\ calls' = calls + Cost(o)
  /\ call' = [NoCall EXCEPT !.op = o, !.h = h, !.n = n, !.by = calls + 1, !.ph = ph]

(* The packets a part of which waits to be completed by a call of o on h. *)
Resumes(o, h) ==
  \/ part = None
  \/ o \in Ops /\ op[o].id = part /\ op[o].st = "created" /\ Kinds[o].cut = "continue"
  \/ o \in {"read", "write"} /\ \E i \in DOMAIN hd[h].chunks : hd[h].chunks[i].id = part

(* _libssh2_channel_write of the rest of packet r: whole, or cut. *)
WholeOut(r, again) ==
  /\ part' = None
  /\ desync' = (desync \/ part \notin {None, r.id} \/ (again /\ part = r.id))
  /\ srv' = IF desync' THEN srv ELSE srv \cup {r}
CutOut(r) ==
  /\ Spend("short")
  /\ part' = r.id
  /\ desync' = (desync \/ part \notin {None, r.id})
  /\ UNCHANGED srv

Request(id, o, h, at, len, src) ==
  [id |-> id, op |-> o, h |-> h, at |-> at, len |-> len, src |-> src]

---------------------------------------------------------------------------
(* The replies: sftp_packet_ask takes the reply of one of the types and of this
   id from the brigade; sftp_packet_read frames the next one off the channel
   and sftp_packet_add files it unless its request is a zombie. *)

Found(id, types) == {p \in brigade : p.id = id /\ p.type \in types}

Reply(r, type, ok, len, small) ==
  [id |-> r.id, type |-> type, ok |-> ok, h |-> r.h, at |-> r.at, len |-> len,
   small |-> small]

(* What the server may answer; "fault" answers are bounded. *)
GoodReplies(r) ==
  CASE r.op = "read" ->
         IF r.at >= FileSize THEN {Reply(r, "STATUS", FALSE, 0, FALSE)}
         ELSE {Reply(r, "DATA", TRUE, Least(r.len, FileSize - r.at), FALSE)}
    [] r.op = "readdir" ->
         LET k == Cardinality(applied[r.h]) IN
         IF k >= DirSize THEN {Reply(r, "STATUS", FALSE, 0, FALSE)}
         ELSE {[Reply(r, "NAME", TRUE, n, FALSE) EXCEPT !.at = k + 1] : n \in 1..(DirSize - k)}
    [] r.op = "open" -> {Reply(r, "HANDLE", TRUE, 0, FALSE)}
    [] r.op \in {"write", "close"} -> {Reply(r, "STATUS", TRUE, 0, FALSE)}
    [] OTHER -> {Reply(r, t, TRUE, 0, FALSE) : t \in
                   IF Kinds[r.op].accepts = {"STATUS"} THEN {"STATUS"}
                   ELSE Kinds[r.op].accepts \ {"STATUS"}}
FaultReplies(r) ==
  {Reply(r, "STATUS", FALSE, 1, FALSE), Reply(r, "STATUS", FALSE, 1, TRUE)}
    \cup IF r.op = "read" /\ r.at < FileSize
         THEN {Reply(r, "DATA", TRUE, n, FALSE) : n \in 1..(r.len - 1)} ELSE {}
    \cup IF r.op = "open" THEN {Reply(r, "STATUS", TRUE, 0, FALSE)} ELSE {}

File_OnlyCurrent(p) ==
  /\ brigade' = IF call.h = p.h /\ hd[p.h].chunks # <<>> /\ Head(hd[p.h].chunks).id # p.id
                THEN brigade ELSE brigade \cup {p}
  /\ UNCHANGED zombies
IsZombie(p) == p.id \in zombies /\ p.type \in {"STATUS", "DATA"}
File(p) ==
  IF IsZombie(p)
  THEN /\ zombies' = zombies \ {p.id}
       /\ UNCHANGED brigade
  ELSE /\ brigade' = brigade \cup {p}
       /\ UNCHANGED zombies

(* A directory's server side hands out each entry once; a STATUS OK before the
   HANDLE of an open leaves the HANDLE still to come. *)
PacketRead ==
  \E r \in srv :
    \E p \in GoodReplies(r) \cup FaultReplies(r) :
      /\ IF p \in GoodReplies(r) THEN UNCHANGED budget ELSE Spend("fault")
      /\ File(p)
      /\ srv' = IF r.op = "open" /\ p.type = "STATUS" /\ p.ok THEN srv ELSE srv \ {r}
      /\ applied' =
           CASE r.op = "write" /\ p.ok ->
                  [applied EXCEPT ![r.h] = @ \cup
                     {<<r.at + i, r.src + i>> : i \in 0..(r.len - 1)}]
             [] p.type = "NAME" ->
                  [applied EXCEPT ![r.h] = @ \cup {<<p.at + i, p.at + i>> : i \in 0..(p.len - 1)}]
             [] OTHER -> applied
  /\ UNCHANGED <<part, desync>>

(* sftp_packetlist_flush: the chunks of a handle are dropped; a reply already
   in the brigade goes with its chunk, one still to come makes a zombie. *)
FlushedIds(cs) == {cs[i].id : i \in DOMAIN cs}
NewZombies(cs, b) ==
  {cs[i].id : i \in {j \in DOMAIN cs :
     cs[j].left # "all" /\ ~ \E p \in b : p.id = cs[j].id /\ p.type \in {"STATUS", "DATA"}}}
PacketlistFlush(cs, b) ==
  /\ brigade' = {p \in b : p.id \notin FlushedIds(cs) \/ p.type \notin {"STATUS", "DATA"}}
  /\ zombies' = zombies \cup NewZombies(cs, b)

---------------------------------------------------------------------------
(* Startup and shutdown: sftp_init on the session's channel, sftp_shutdown. *)

(* Every step of sftp_init goes through or fails; a failure after the channel
   is open leaves the closing of it to the next call of sftp_init. *)
InitNext == [created |-> "sent", sent |-> "sent1", sent1 |-> "sent2",
             sent2 |-> "sent3", sent3 |-> "idle"]

SftpInit ==
  /\ sftp = "none"
  /\ Begin("init", NoCall.h, 0, "run")
  /\ init' = IF init = "idle" THEN "created" ELSE init
  /\ UNCHANGED <<req, op, rdst, wrst, hd, queues, wire, sftp, chan, budget, told>>

InitStep ==
  /\ call.op = "init"
  /\ init \in DOMAIN InitNext
  /\ init' = InitNext[init]
  /\ chan' = TRUE
  /\ IF init = "sent3" THEN sftp' = "up" /\ Return ELSE UNCHANGED <<sftp, call>>
  /\ UNCHANGED <<req, op, rdst, wrst, hd, queues, wire, calls, budget, told>>

InitFails ==
  /\ call.op = "init"
  /\ init \in DOMAIN InitNext
  /\ Spend("fault")
  /\ init' = IF init = "created" THEN "idle" ELSE "closing"
  /\ Return
  /\ UNCHANGED <<req, op, rdst, wrst, hd, queues, wire, sftp, chan, calls, told>>

(* error_closing: the channel is freed and the call fails once more. *)
InitCloses ==
  /\ call.op = "init" /\ init = "closing"
  /\ init' = "idle" /\ chan' = FALSE
  /\ Return
  /\ UNCHANGED <<req, op, rdst, wrst, hd, queues, wire, sftp, calls, budget, told>>

(* sftp_packet_flush: what the brigade and the zombie list still hold. *)
PacketFlush == brigade' = {} /\ zombies' = {}

(* sftp_shutdown, once the application has let go of every handle; the
   object and its channel go. *)
Shutdown ==
  /\ sftp = "up" /\ call = NoCall /\ calls < MaxCalls
  /\ \A h \in Handles : hd[h].kind = "free"
  /\ calls' = calls + 1
  /\ sftp' = "none" /\ chan' = FALSE
  /\ req' = 1 /\ rdst' = "idle" /\ wrst' = "idle"
  /\ op' = [o \in Ops |-> IdleOp]
  /\ PacketFlush
  /\ srv' = {} /\ part' = None /\ desync' = FALSE
  /\ seen' = Unseen /\ uses' = {}
  /\ UNCHANGED <<hd, init, call, budget, pos, applied>>

---------------------------------------------------------------------------
(* A request with one reply: the call builds its packet or finds the one an
   earlier call left, sends it and takes the reply. *)

Unchanged3 == UNCHANGED <<sftp, init, chan, rdst, wrst>>

Enter(o, h, kind) ==
  /\ o \in Ops /\ sftp = "up"
  /\ Begin(o, h, 0, "run")
  /\ IF op[o].st = "idle"
     THEN /\ op' = [op EXCEPT ![o] = [st |-> "created", id |-> req, by |-> calls + 1,
                                       h |-> h, kind |-> kind]]
          /\ req' = req + 1
     ELSE UNCHANGED <<op, req>>
  /\ seen' = [seen EXCEPT !.mixed = @ \/ ~Resumes(o, h)]
  /\ Unchanged3 /\ UNCHANGED <<hd, queues, wire, budget, pos, applied, uses>>

OpPacket(o) == Request(op[o].id, o, op[o].h, 0, 0, 0)
InOp(o, st) == call.op = o /\ op[o].st = st
OpAt(o, st) == op' = [op EXCEPT ![o].st = st]

SendOp(o) ==
  /\ InOp(o, "created")
  /\ WholeOut(OpPacket(o), Kinds[o].cut = "resend")
  /\ OpAt(o, "sent")
  /\ Unchanged3 /\ UNCHANGED <<req, hd, queues, call, calls, budget, told>>

CutOp(o) ==
  /\ InOp(o, "created")
  /\ CutOut(OpPacket(o))
  /\ \/ Kinds[o].cut = "fail" /\ OpAt(o, "idle") /\ Return /\ UNCHANGED seen
     \/ /\ Kinds[o].cut = "resend"
        /\ seen' = [seen EXCEPT !.resent = TRUE]
        /\ UNCHANGED <<op, call>>
     \/ Kinds[o].cut = "continue" /\ UNCHANGED <<op, call, seen>>
     \/ /\ Kinds[o].cut = "continue" /\ Return
        /\ seen' = [seen EXCEPT !.left = @ \cup {o}]
        /\ UNCHANGED op
  /\ Unchanged3 /\ UNCHANGED <<req, hd, queues, calls, pos, applied, uses>>

(* A reply shorter than the call requires is consumed and the call fails, but
   its state stays "sent". *)
TooSmall(o, p) ==
  /\ p.small /\ Return
  /\ uses' = uses \cup {p.id}
  /\ seen' = [seen EXCEPT !.left = @ \cup {o}]
  /\ UNCHANGED <<op, hd, pos>>

AnswerOp(o) ==
  /\ InOp(o, "sent")
  /\ \E p \in Found(op[o].id, Kinds[o].accepts) :
       /\ brigade' = brigade \ {p}
       /\ \/ TooSmall(o, p)
          \/ ~p.small /\ OpAt(o, "idle") /\ Return /\ UNCHANGED <<hd, pos, seen, uses>>
  /\ Unchanged3 /\ UNCHANGED <<req, zombies, wire, calls, budget, applied>>

WaitOp(o) ==
  /\ InOp(o, "sent") /\ Found(op[o].id, Kinds[o].accepts) = {}
  /\ PacketRead
  /\ Unchanged3 /\ UNCHANGED <<req, op, hd, call, calls, pos, seen, uses>>

(* The wait fails: a read error, or requirev's own packet_read_timeout. *)
OpFails(o) ==
  /\ InOp(o, "sent") /\ Found(op[o].id, Kinds[o].accepts) = {}
  /\ Spend("fault") /\ OpAt(o, "idle") /\ Return
  /\ Unchanged3 /\ UNCHANGED <<req, hd, queues, wire, calls, told>>

(* EAGAIN that outlasts the session's timeout: the call returns and the state
   stays "created" or "sent" for whoever calls next. *)
AbandonOp(o) ==
  /\ InOp(o, "created") \/ (InOp(o, "sent") /\ Found(op[o].id, Kinds[o].accepts) = {})
  /\ Spend("abandon") /\ Return
  /\ seen' = [seen EXCEPT !.left = @ \cup {o}]
  /\ Unchanged3 /\ UNCHANGED <<req, op, hd, queues, wire, calls, pos, applied, uses>>

Step(o) == SendOp(o) \/ CutOp(o) \/ WaitOp(o) \/ OpFails(o) \/ AbandonOp(o)

(* On a path. *)
Unlink       == Enter("unlink", NoCall.h, "path") \/ Step("unlink") \/ AnswerOp("unlink")
Rename       == Enter("rename", NoCall.h, "path") \/ Step("rename") \/ AnswerOp("rename")
PosixRename  == Enter("posix_rename", NoCall.h, "path") \/ Step("posix_rename")
                  \/ AnswerOp("posix_rename")
Mkdir        == Enter("mkdir", NoCall.h, "path") \/ Step("mkdir") \/ AnswerOp("mkdir")
Rmdir        == Enter("rmdir", NoCall.h, "path") \/ Step("rmdir") \/ AnswerOp("rmdir")
Stat         == Enter("stat", NoCall.h, "path") \/ Step("stat") \/ AnswerOp("stat")
Symlink      == Enter("symlink", NoCall.h, "path") \/ Step("symlink") \/ AnswerOp("symlink")
Statvfs      == Enter("statvfs", NoCall.h, "path") \/ Step("statvfs") \/ AnswerOp("statvfs")

(* On an open handle. *)
Usable(h) == hd[h].kind # "free" /\ hd[h].cl = "idle"
OnHandle(o) == (\E h \in Handles : Usable(h) /\ Enter(o, h, "handle")) \/ Step(o) \/ AnswerOp(o)
Fstat    == OnHandle("fstat")
Fsync    == OnHandle("fsync")
Fstatvfs == OnHandle("fstatvfs")

---------------------------------------------------------------------------
(* sftp_readdir: names a NAME reply brought are handed out one per call; the
   reply of the request in flight, whoever made it, goes to the handle of the
   call that takes it. *)

Pop(h, names) ==
  /\ hd' = [hd EXCEPT ![h].names = Tail(names)]
  /\ pos' = [pos EXCEPT ![h].at = @ + 1]

ReaddirPops(h) ==
  /\ sftp = "up" /\ hd[h].kind = "dir" /\ Usable(h)
  /\ op["readdir"].st = "idle" /\ hd[h].names # <<>>
  /\ call = NoCall /\ calls < MaxCalls /\ calls' = calls + 1
  /\ Pop(h, hd[h].names)
  /\ Unchanged3 /\ UNCHANGED <<req, op, queues, wire, call, budget, applied, seen, uses>>

ReaddirAnswered ==
  /\ InOp("readdir", "sent")
  /\ \E p \in Found(op["readdir"].id, Kinds["readdir"].accepts) :
       /\ brigade' = brigade \ {p}
       /\ \/ TooSmall("readdir", p)
          \/ /\ ~p.small /\ OpAt("readdir", "idle") /\ Return
             /\ UNCHANGED <<seen, uses>>
             /\ IF p.type = "NAME" THEN Pop(call.h, Span(p.at, p.len))
                ELSE UNCHANGED <<hd, pos>>
  /\ Unchanged3 /\ UNCHANGED <<req, zombies, wire, calls, budget, applied>>

Readdir ==
  \/ \E h \in Handles :
       \/ ReaddirPops(h)
       \/ /\ hd[h].kind = "dir" /\ Usable(h)
          /\ op["readdir"].st = "idle" => hd[h].names = <<>>
          /\ Enter("readdir", h, "handle")
  \/ Step("readdir")
  \/ ReaddirAnswered

---------------------------------------------------------------------------
(* sftp_open: a new handle is what a HANDLE reply makes; a STATUS is a failure
   unless it says OK, when the HANDLE is still waited for. *)

OpenAnswered ==
  /\ InOp("open", "sent")
  /\ \E p \in Found(op["open"].id, Kinds["open"].accepts) :
       /\ brigade' = brigade \ {p}
       /\ \/ /\ p.type = "HANDLE"
             /\ hd' = [hd EXCEPT ![op["open"].h] = [FreeHandle EXCEPT !.kind = op["open"].kind]]
             /\ pos' = [pos EXCEPT ![op["open"].h] = [from |-> 0, at |-> 0]]
             /\ OpAt("open", "idle") /\ Return
          \/ /\ p.type = "STATUS" /\ (~p.ok \/ p.small)
             /\ OpAt("open", "idle") /\ Return /\ UNCHANGED <<hd, pos>>
          \/ /\ p.type = "STATUS" /\ p.ok /\ ~p.small
             /\ UNCHANGED <<op, call, hd, pos>>
  /\ Unchanged3 /\ UNCHANGED <<req, zombies, wire, calls, budget, applied, seen, uses>>

(* A call that finds an open under way is a repetition of it. *)
Open ==
  \/ \E h \in Handles, kind \in {"rfile", "wfile", "dir"} :
       /\ IF op["open"].st = "idle" THEN hd[h].kind = "free" /\ applied[h] = {}
          ELSE h = op["open"].h /\ kind = op["open"].kind
       /\ Enter("open", h, kind)
  \/ Step("open")
  \/ OpenAnswered

---------------------------------------------------------------------------
(* sftp_close_handle: whatever the outcome, EAGAIN apart, the handle is
   unlinked, its chunks are flushed and it is freed; so is the read state, and
   not the write state. *)

Dispose_KeepsReadState(h, b) ==
  /\ PacketlistFlush(hd[h].chunks, b)
  /\ hd' = [hd EXCEPT ![h] = FreeHandle]
  /\ seen' = [seen EXCEPT !.left = @ \ {"read"}, !.failed = @ \ {h}, !.short = @ \ {h}]
  /\ Return /\ UNCHANGED rdst
Dispose(h, b) ==
  /\ PacketlistFlush(hd[h].chunks, b)
  /\ hd' = [hd EXCEPT ![h] = FreeHandle]
  /\ rdst' = "idle"
  /\ seen' = [seen EXCEPT !.left = @ \ {"read"}, !.failed = @ \ {h}, !.short = @ \ {h}]
  /\ Return

CloseEnter(h) ==
  /\ sftp = "up" /\ hd[h].kind # "free"
  /\ Begin("close", h, 0, "run")
  /\ IF hd[h].cl = "idle"
     THEN hd' = [hd EXCEPT ![h].cl = "created", ![h].clid = req] /\ req' = req + 1
     ELSE UNCHANGED <<hd, req>>
  /\ seen' = [seen EXCEPT !.mixed = @ \/ ~Resumes("close", h)]
  /\ Unchanged3 /\ UNCHANGED <<op, queues, wire, budget, pos, applied, uses>>

InClose(h, st) == call.op = "close" /\ call.h = h /\ hd[h].cl = st
ClosePacket(h) == Request(hd[h].clid, "close", h, 0, 0, 0)

CloseSend(h) ==
  /\ InClose(h, "created")
  /\ \/ /\ WholeOut(ClosePacket(h), FALSE)
        /\ hd' = [hd EXCEPT ![h].cl = "sent"]
        /\ UNCHANGED <<queues, rdst, call, budget, seen>>
     \/ CutOut(ClosePacket(h)) /\ Dispose(h, brigade)
  /\ UNCHANGED <<sftp, init, chan, wrst, req, op, calls, pos, applied, uses>>

CloseAnswered(h) ==
  /\ InClose(h, "sent")
  /\ \E p \in Found(hd[h].clid, {"STATUS"}) : Dispose(h, brigade \ {p})
  /\ UNCHANGED <<sftp, init, chan, wrst, req, op, wire, calls, budget, pos, applied, uses>>

CloseWaits(h) ==
  /\ InClose(h, "sent") /\ Found(hd[h].clid, {"STATUS"}) = {}
  /\ \/ PacketRead /\ UNCHANGED <<hd, rdst, call, seen>>
     \/ Spend("fault") /\ Dispose(h, brigade) /\ UNCHANGED <<wire, applied>>
  /\ UNCHANGED <<sftp, init, chan, wrst, req, op, calls, pos, uses>>

CloseAbandoned(h) ==
  /\ InClose(h, "created") \/ (InClose(h, "sent") /\ Found(hd[h].clid, {"STATUS"}) = {})
  /\ Spend("abandon") /\ Return
  /\ Unchanged3 /\ UNCHANGED <<req, op, hd, queues, wire, calls, told>>

CloseHandle ==
  \E h \in Handles : CloseEnter(h) \/ CloseSend(h) \/ CloseAnswered(h) \/ CloseWaits(h)
                       \/ CloseAbandoned(h)

(* libssh2_sftp_seek64: nothing happens when both offsets are there already;
   the count of acknowledged and unreported bytes stays as it is. *)
Seek(h, x) ==
  /\ sftp = "up" /\ hd[h].kind \in {"rfile", "wfile"} /\ Usable(h)
  /\ call = NoCall /\ calls < MaxCalls /\ calls' = calls + 1
  /\ IF hd[h].off = x /\ hd[h].sent = x
     THEN UNCHANGED <<hd, queues>>
     ELSE /\ PacketlistFlush(hd[h].chunks, brigade)
          /\ hd' = [hd EXCEPT ![h].off = x, ![h].sent = x, ![h].chunks = <<>>,
                              ![h].left = <<>>, ![h].eof = FALSE]
  /\ pos' = [pos EXCEPT ![h] = [from |-> x, at |-> x]]
  /\ seen' = [seen EXCEPT !.failed = @ \ {h}, !.short = @ \ {h},
                          !.carried = IF hd[h].acked > 0 THEN @ \cup {h} ELSE @]
  /\ Unchanged3 /\ UNCHANGED <<req, op, wire, call, budget, applied, uses>>

---------------------------------------------------------------------------
(* sftp_read: bytes kept from the call before are handed out first; otherwise
   the pipeline is filled to four buffers ahead, its packets are sent, and
   replies are taken in the order of the chunks until the buffer is full. *)

Largest == CHOOSE m \in ReadSizes : \A k \in ReadSizes : k <= m

(* The sizes of the READs that ask for count more bytes with a buffer of n. *)
ReadSplit(n) ==
  LET Size(c) == Least(IF c < n THEN n ELSE c, MaxRead)
      split[c \in 0..(4 * Largest)] ==
        IF c = 0 THEN <<>> ELSE <<Size(c)>> \o split[c - Least(Size(c), c)]
  IN  split

AddChunks(rec, sizes, src) ==
  LET start(i) == FoldLeft(LAMBDA a, b : a + b, 0, SubSeq(sizes, 1, i - 1))
      total == start(Len(sizes) + 1)
  IN  [rec EXCEPT !.sent = @ + total,
                  !.chunks = @ \o [i \in 1..Len(sizes) |->
                     Chunk(req + i - 1, rec.sent + start(i), sizes[i], src + start(i))]]

Ahead(h, n) ==
  LET already == hd[h].sent - hd[h].off IN
  ReadSplit(n)[IF 4 * n > already THEN 4 * n - already ELSE 0]

ReadKept_Repeats(h, n) ==
  /\ rdst = "idle" /\ hd[h].left # <<>>
  /\ hd' = [hd EXCEPT ![h].off = @ + Least(n, Len(hd[h].left))]
  /\ pos' = [pos EXCEPT ![h].at = @ + Least(n, Len(hd[h].left))]
  /\ UNCHANGED <<req, seen>>
ReadKept(h, n) ==
  /\ rdst = "idle" /\ hd[h].left # <<>>
  /\ LET k == Least(n, Len(hd[h].left)) IN
     /\ hd' = [hd EXCEPT ![h].left = SubSeq(@, k + 1, Len(@)), ![h].off = @ + k]
     /\ pos' = [pos EXCEPT ![h].at = @ + k]
  /\ UNCHANGED <<req, seen>>

ReadEnter(h, n) ==
  /\ sftp = "up" /\ hd[h].kind = "rfile" /\ Usable(h)
  /\ \/ /\ ReadKept(h, n)
        /\ call = NoCall /\ calls < MaxCalls /\ calls' = calls + 1
        /\ UNCHANGED <<call, rdst>>
     \/ /\ rdst = "idle" /\ hd[h].left = <<>> /\ ~hd[h].eof
        /\ Begin("read", h, n, "send")
        /\ hd' = [hd EXCEPT ![h] = AddChunks(@, Ahead(h, n), hd[h].sent)]
        /\ req' = req + Len(Ahead(h, n))
        /\ seen' = [seen EXCEPT !.mixed = @ \/ ~Resumes("read", h)]
        /\ UNCHANGED <<rdst, pos>>
     \/ /\ rdst # "idle"
        /\ Begin("read", h, n, IF rdst = "sent" THEN "send" ELSE "recv")
        /\ rdst' = "idle"
        /\ seen' = [seen EXCEPT !.mixed = @ \/ ~Resumes("read", h)]
        /\ UNCHANGED <<hd, req, pos>>
  /\ UNCHANGED <<sftp, init, chan, wrst, op, queues, wire, budget, applied, uses>>

(* The chunks whose packets are not wholly sent, in order. *)
Unsent(h) == {i \in DOMAIN hd[h].chunks : hd[h].chunks[i].left # "none"}
FirstUnsent(h) == CHOOSE i \in Unsent(h) : \A j \in Unsent(h) : i <= j
ChunkPacket(h, o, i) ==
  LET c == hd[h].chunks[i] IN Request(c.id, o, h, c.at, c.len, c.src)

(* A cut packet ends the sending, but a read waits for its first one to be out. *)
AfterCut(o, i) == IF o = "read" /\ i = 1 THEN call ELSE [call EXCEPT !.ph = "recv"]

SendChunk(h, o) ==
  /\ call.op = o /\ call.h = h /\ call.ph = "send" /\ Unsent(h) # {}
  /\ LET i == FirstUnsent(h) IN
     \/ /\ WholeOut(ChunkPacket(h, o, i), FALSE)
        /\ hd' = [hd EXCEPT ![h].chunks[i].left = "none"]
        /\ UNCHANGED <<call, budget>>
     \/ /\ CutOut(ChunkPacket(h, o, i))
        /\ hd' = [hd EXCEPT ![h].chunks[i].left = "some"]
        /\ call' = AfterCut(o, i)
  /\ Unchanged3 /\ UNCHANGED <<req, op, queues, calls, told>>

AllSent(h, o) ==
  /\ call.op = o /\ call.h = h /\ call.ph = "send" /\ Unsent(h) = {}
  /\ call' = [call EXCEPT !.ph = "recv"]
  /\ Unchanged3 /\ UNCHANGED <<req, op, hd, queues, wire, calls, budget, told>>

InRecv(h, o) == call.op = o /\ call.h = h /\ call.ph = "recv"
FirstSent(h) == hd[h].chunks # <<>> /\ Head(hd[h].chunks).left = "none"
FirstReply(h, types) == Found(Head(hd[h].chunks).id, types)

(* A read returns its buffer, or fails and loses what is in it. *)
ReadReturns(h) ==
  /\ Return
  /\ pos' = [pos EXCEPT ![h].at = @ + Len(call.buf)]
ReadFails(h) ==
  /\ Return
  /\ seen' = [seen EXCEPT !.failed = @ \cup {h}]

ReadData(h, p) ==
  LET c == Head(hd[h].chunks)
      all == call.buf \o Span(p.at, p.len)
      fits == Least(Len(all), call.n)
      rest == SubSeq(all, fits + 1, Len(all))
      buf == SubSeq(all, 1, fits)
  IN
  /\ hd' = [hd EXCEPT ![h].chunks = Tail(@), ![h].left = rest,
                      ![h].sent = @ - (c.len - p.len),
                      ![h].off = @ + (fits - Len(call.buf))]
  /\ IF fits = call.n
     THEN /\ Return
          /\ pos' = [pos EXCEPT ![h].at = @ + fits]
     ELSE /\ call' = [call EXCEPT !.buf = buf]
          /\ UNCHANGED pos
  /\ seen' = [seen EXCEPT !.short = IF p.len < Least(c.len, FileSize - p.at) THEN @ \cup {h} ELSE @]
  /\ UNCHANGED uses

(* A STATUS reply with SSH_FX_EOF; the others are failures. *)
IsEof(p) == p.len = 0

ReadAnswered(h) ==
  /\ InRecv(h, "read") /\ FirstSent(h)
  /\ \E p \in FirstReply(h, {"DATA", "STATUS"}) :
       \/ /\ p.small /\ ReadFails(h)
          /\ brigade' = brigade \ {p} /\ uses' = uses \cup {p.id}
          /\ UNCHANGED <<hd, zombies, pos>>
       \/ /\ p.type = "STATUS" /\ ~p.small
          /\ PacketlistFlush(Tail(hd[h].chunks), brigade \ {p})
          /\ hd' = [hd EXCEPT ![h].chunks = <<>>, ![h].eof = @ \/ IsEof(p)]
          /\ IF IsEof(p) THEN ReadReturns(h) /\ UNCHANGED seen ELSE ReadFails(h) /\ UNCHANGED pos
          /\ UNCHANGED uses
       \/ /\ p.type = "DATA" /\ p.at # hd[h].off /\ ReadFails(h)
          /\ brigade' = brigade \ {p} /\ uses' = uses \cup {p.id}
          /\ UNCHANGED <<hd, zombies, pos>>
       \/ /\ p.type = "DATA" /\ p.at = hd[h].off
          /\ brigade' = brigade \ {p}
          /\ ReadData(h, p)
          /\ UNCHANGED zombies
  /\ Unchanged3 /\ UNCHANGED <<req, op, wire, calls, budget, applied>>

(* No reply to take: with bytes in the buffer they are returned; without, the
   chunks that cannot be waited for make an error of it. *)
ReadStops(h) ==
  /\ InRecv(h, "read")
  /\ FirstSent(h) => FirstReply(h, {"DATA", "STATUS"}) = {} /\ call.buf # <<>>
  /\ IF call.buf # <<>> THEN ReadReturns(h) /\ UNCHANGED seen ELSE ReadFails(h) /\ UNCHANGED pos
  /\ Unchanged3 /\ UNCHANGED <<req, op, hd, queues, wire, calls, budget, applied, uses>>

ReadWaits(h) ==
  /\ InRecv(h, "read") /\ FirstSent(h) /\ FirstReply(h, {"DATA", "STATUS"}) = {}
  /\ \/ PacketRead /\ UNCHANGED <<rdst, call, seen>>
     \/ /\ Spend("fault") /\ rdst' = "sent2" /\ Return
        /\ seen' = [seen EXCEPT !.failed = @ \cup {h}, !.left = @ \cup {"read"}]
        /\ UNCHANGED <<queues, wire, applied>>
  /\ UNCHANGED <<sftp, init, chan, wrst, req, op, hd, calls, pos, uses>>

ReadAbandoned(h) ==
  /\ \/ /\ call.op = "read" /\ call.h = h /\ call.ph = "send" /\ Unsent(h) # {}
        /\ rdst' = "sent"
     \/ /\ InRecv(h, "read") /\ FirstSent(h) /\ FirstReply(h, {"DATA", "STATUS"}) = {}
        /\ call.buf = <<>>
        /\ rdst' = "sent2"
  /\ Spend("abandon") /\ Return
  /\ seen' = [seen EXCEPT !.left = @ \cup {"read"}]
  /\ UNCHANGED <<sftp, init, chan, wrst, req, op, hd, queues, wire, calls, pos, applied, uses>>

Read ==
  \E h \in Handles :
    \/ \E n \in ReadSizes : ReadEnter(h, n)
    \/ SendChunk(h, "read") \/ AllSent(h, "read")
    \/ ReadAnswered(h) \/ ReadStops(h) \/ ReadWaits(h) \/ ReadAbandoned(h)

---------------------------------------------------------------------------
(* sftp_write: of the bytes given, those already in chunks or acknowledged but
   not yet reported are skipped, the rest become chunks; replies are taken in
   order and the first acknowledged chunk ends the call. *)

MoreThanAll == CHOOSE m \in WriteSizes : \A k \in WriteSizes : k <= m
WriteSplit ==
  LET split[c \in 0..MoreThanAll] ==
        IF c = 0 THEN <<>> ELSE <<Least(MaxOut, c)>> \o split[c - Least(MaxOut, c)]
  IN  split

WriteEnter(h, n) ==
  /\ sftp = "up" /\ hd[h].kind = "wfile" /\ Usable(h)
  /\ LET already == hd[h].sent - hd[h].off + hd[h].acked
         sizes == WriteSplit[IF n >= already THEN n - already ELSE 0]
     IN
     IF wrst = "idle"
     THEN /\ Begin("write", h, n, "send")
          /\ hd' = [hd EXCEPT ![h] = AddChunks(@, sizes, pos[h].at + already)]
          /\ req' = req + Len(sizes)
          /\ UNCHANGED wrst
     ELSE /\ Begin("write", h, n, "recv")
          /\ wrst' = "idle"
          /\ UNCHANGED <<hd, req>>
  /\ seen' = [seen EXCEPT !.mixed = @ \/ ~Resumes("write", h)]
  /\ UNCHANGED <<sftp, init, chan, rdst, op, queues, wire, budget, pos, applied, uses>>

(* A write reports what is acknowledged, no more than it was given. *)
WriteReturns_AllGiven(h, acked) ==
  /\ Return
  /\ pos' = [pos EXCEPT ![h].at = @ + call.n]
  /\ UNCHANGED hd
WriteReturns(h, acked) ==
  LET ret == Least(acked + hd[h].acked, call.n) IN
  /\ Return
  /\ pos' = [pos EXCEPT ![h].at = @ + ret]
  /\ hd' = [hd EXCEPT ![h].acked = @ + acked - ret]

WriteAnswered(h) ==
  /\ InRecv(h, "write") /\ FirstSent(h) /\ call.acked = 0
  /\ \E p \in FirstReply(h, {"STATUS"}) :
       \/ /\ p.small /\ Return
          /\ brigade' = brigade \ {p} /\ uses' = uses \cup {p.id}
          /\ UNCHANGED <<hd, zombies>>
       \/ /\ p.ok /\ ~p.small
          /\ brigade' = brigade \ {p}
          /\ call' = [call EXCEPT !.acked = Head(hd[h].chunks).len]
          /\ hd' = [hd EXCEPT ![h].off = @ + Head(hd[h].chunks).len, ![h].chunks = Tail(@)]
          /\ UNCHANGED <<zombies, uses>>
       \/ /\ ~p.ok /\ ~p.small
          /\ PacketlistFlush(hd[h].chunks, brigade \ {p})
          /\ hd' = [hd EXCEPT ![h].chunks = <<>>, ![h].off = @ - hd[h].acked,
                              ![h].sent = hd[h].off - hd[h].acked, ![h].acked = 0]
          /\ Return /\ UNCHANGED uses
  /\ Unchanged3 /\ UNCHANGED <<req, op, wire, calls, budget, pos, applied, seen>>

WriteStops(h) ==
  /\ InRecv(h, "write") /\ (call.acked > 0 \/ ~FirstSent(h))
  /\ WriteReturns(h, call.acked)
  /\ Unchanged3 /\ UNCHANGED <<req, op, queues, wire, calls, budget, applied, seen, uses>>

WriteWaits(h) ==
  /\ InRecv(h, "write") /\ FirstSent(h) /\ call.acked = 0 /\ FirstReply(h, {"STATUS"}) = {}
  /\ \/ PacketRead /\ UNCHANGED call
     \/ Spend("fault") /\ Return /\ UNCHANGED <<queues, wire, applied>>
  /\ Unchanged3 /\ UNCHANGED <<req, op, hd, calls, pos, seen, uses>>

WriteAbandoned(h) ==
  /\ \/ /\ call.op = "write" /\ call.h = h /\ call.ph = "send" /\ Unsent(h) # {}
        /\ UNCHANGED wrst
     \/ /\ InRecv(h, "write") /\ FirstSent(h) /\ call.acked = 0
        /\ FirstReply(h, {"STATUS"}) = {}
        /\ wrst' = "sent"
  /\ Spend("abandon") /\ Return
  /\ seen' = [seen EXCEPT !.left = @ \cup {"write"}]
  /\ UNCHANGED <<sftp, init, chan, rdst, req, op, hd, queues, wire, calls, pos, applied, uses>>

Write ==
  \E h \in Handles :
    \/ \E n \in WriteSizes : WriteEnter(h, n)
    \/ SendChunk(h, "write") \/ AllSent(h, "write")
    \/ WriteAnswered(h) \/ WriteStops(h) \/ WriteWaits(h) \/ WriteAbandoned(h)

Next ==
  \/ SftpInit \/ InitStep \/ InitFails \/ InitCloses \/ Shutdown
  \/ Unlink \/ Rename \/ PosixRename \/ Mkdir \/ Rmdir \/ Stat \/ Symlink \/ Statvfs
  \/ Fstat \/ Fsync \/ Fstatvfs
  \/ Readdir \/ Open \/ CloseHandle \/ Read \/ Write
  \/ \E h \in Handles, x \in 0..1 : Seek(h, x)

Spec == Init /\ [][Next]_vars

---------------------------------------------------------------------------
TypeOK ==
  /\ sftp \in {"none", "up"} /\ chan \in BOOLEAN
  /\ init \in {"idle", "created", "sent", "sent1", "sent2", "sent3", "closing"}
  /\ req \in Nat /\ calls \in 0..MaxCalls
  /\ \A o \in Ops : op[o].st \in {"idle", "created", "sent"}
  /\ rdst \in {"idle", "sent", "sent2"} /\ wrst \in {"idle", "sent"}
  /\ \A h \in Handles : hd[h].kind \in {"free", "rfile", "wfile", "dir"}
                         /\ hd[h].sent >= hd[h].off
                         /\ hd[h].off < 0 => h \in seen.carried  \* a 64-bit wrap
  /\ zombies \subseteq 1..req /\ {p.id : p \in brigade} \subseteq 1..req

(* A state machine that is not idle belongs to the call under way or to one
   that was interrupted by a timeout or a truncated reply: every other way out
   of the functions puts it back (and the channel is open exactly while an
   SFTP object exists or a startup is under way). *)
OnlyInterruptedRemain ==
  /\ \A o \in Ops : op[o].st # "idle" => call.op = o \/ o \in seen.left
  /\ rdst # "idle" => "read" \in seen.left
  /\ wrst # "idle" => "write" \in seen.left
  /\ init = "idle" => (chan <=> sftp = "up")


(* The chunks of a write handle are the bytes from the first unacknowledged
   one to the last made, in order, so that skipping offset_sent - offset bytes
   of the next buffer skips exactly what is under way. *)
PipelineIsContiguous ==
  \A h \in Handles : hd[h].kind = "wfile" =>
    LET cs == hd[h].chunks IN
    /\ cs = <<>> => hd[h].sent = hd[h].off
    /\ cs # <<>> => cs[1].at = hd[h].off /\ Last(cs).at + Last(cs).len = hd[h].sent
    /\ \A i \in 1..(Len(cs) - 1) : cs[i + 1].at = cs[i].at + cs[i].len

(* The inductive part: types, leftovers, and the write pipelines. *)
Inv == TypeOK /\ OnlyInterruptedRemain /\ PipelineIsContiguous

(* What a read gives the application is the file from where the application
   is: the buffer of the call under way, the bytes kept for the next one and
   the names kept of a directory continue without a gap or a repetition,
   whatever was interrupted, unless an earlier read of the handle failed. *)
ReadInOrder ==
  \A h \in Handles :
    /\ hd[h].kind = "rfile" /\ h \notin seen.failed =>
         /\ call.op = "read" /\ call.h = h => call.buf = Span(pos[h].at, Len(call.buf))
         /\ hd[h].left = Span(pos[h].at, Len(hd[h].left))
    /\ hd[h].kind = "dir" /\ "readdir" \notin seen.left =>
         hd[h].names = Span(pos[h].at + 1, Len(hd[h].names))

(* A read handle that says end of file has given the whole file, unless the
   server answered a READ with fewer bytes than it had or a read failed. *)
EofAfterAll ==
  \A h \in Handles :
    hd[h].eof => hd[h].off >= FileSize \/ h \in seen.short \/ h \in seen.failed

(* What a write reports as written the server has written, at its place: the
   bytes of the application's data from the start of the handle's use up to
   what it was told, and no chunk carries bytes of another position.  The
   exception is a seek that finds acknowledged bytes still to be reported: it
   leaves their count, and the next write skips as many of its own. *)
ReportedIsWritten ==
  \A h \in Handles : hd[h].kind = "wfile" /\ h \notin seen.carried =>
    /\ \A k \in pos[h].from..(pos[h].at - 1) : <<k, k>> \in applied[h]
    /\ \A i \in DOMAIN hd[h].chunks : hd[h].chunks[i].src = hd[h].chunks[i].at

(* The ids whose replies a call may still take. *)
Awaited ==
  {op[o].id : o \in {x \in Ops : op[x].st = "sent"}}
    \cup {hd[h].clid : h \in {x \in Handles : hd[x].cl = "sent"}}
    \cup UNION {{hd[h].chunks[i].id : i \in DOMAIN hd[h].chunks} : h \in Handles}

(* A reply that will be waited for is never thrown away as a zombie's, and a
   call that waits has an answer in the brigade or to come, unless the stream
   is torn or its reply was refused as truncated or out of place. *)
WaitsAreAnswered ==
  /\ zombies \cap Awaited = {}
  /\ LET has(id) == \/ id \in {r.id : r \in srv} \/ id \in {p.id : p \in brigade}
                     \/ id \in uses \/ desync
     IN  /\ \A o \in Ops : InOp(o, "sent") => has(op[o].id)
         /\ \A h \in Handles :
              /\ InClose(h, "sent") => has(hd[h].clid)
              /\ InRecv(h, call.op) /\ FirstSent(h) => has(Head(hd[h].chunks).id)

(* A part of a packet is on the wire with another packet after it only when the
   application went on with something else, or one of the requests that send
   their packet anew was cut: the two pipelines and open always resume with
   the rest of the packet the window cut. *)
TornByOthersOnly == desync => seen.mixed \/ seen.resent

(* A write reports nothing written, and a read falls through to its "internal
   error", only when a chunk was cut at the front of the pipeline or an
   interrupted call of another handle left its state behind. *)
EmptyHandedForAReason ==
  \A h \in Handles :
    /\ InRecv(h, "write") /\ ~FirstSent(h) /\ call.acked + hd[h].acked = 0 =>
         "write" \in seen.left \/ hd[h].chunks # <<>>
    /\ InRecv(h, "read") /\ ~FirstSent(h) /\ call.buf = <<>> =>
         "read" \in seen.left \/ h \in seen.failed

(* What the application reads of a file or a directory is what is there: in order,
   without a gap, and to the end before it is told of the end. *)
ReadIsTheFile == ReadInOrder /\ EofAfterAll

(* Each request finds its reply and each reply its request, on a stream of whole
   packets, whatever calls were interrupted and on which handle the next one came. *)
RepliesFindTheirCall == WaitsAreAnswered /\ TornByOthersOnly /\ EmptyHandedForAReason
==========================================================================
