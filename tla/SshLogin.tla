------------------------------ MODULE SshLogin ------------------------------
(* Logging in over a libssh2 session (userauth.c, userauth_kbd_packet.c,
   agent.c) while its keys may be exchanged again (SshKeys), and what a session
   is used for afterwards, in the least detail: a request that is answered, a
   packet that is not, and the end.

   An authentication method is a machine of the session: build, send, wait, for
   some of them several times.  A call that returned EAGAIN is continued by the
   next call of its function, whatever its arguments.  Three messages of the
   server share the number 60 and are told apart by who reads them. *)
EXTENDS SshKeys

CONSTANTS
  Keys,      \* kinds of keys: "rsa", "ecdsa", "ed25519"
  HardwareKeys,  \* those of them a device signs with
  Callback   \* the application can answer a demand for a new password

ASSUME LoginAssumption == HardwareKeys \subseteq Keys /\ Callback \in BOOLEAN

Verdicts == {"success", "failure"}

---------------------------------------------------------------------------
(* What the methods have in common. *)

Starts(op, ph) ==
  /\ ~session.authed
  /\ Begin(op, ph)
  /\ auth' = IF auth[op].st = "idle" THEN [auth EXCEPT ![op] = [st |-> "created", n |-> Number]]
             ELSE auth
  /\ UNCHANGED <<session, startup, local, remote, kex, out, adding, brigade, wire, srv, seen>>

(* A call continues in the state the last one left. *)
Continues(op, types) ==
  /\ In(op, "start") /\ auth[op].st \in {"sent", "sent3"} /\ Direct
  /\ Awaits(types)
  /\ UNCHANGED <<session, startup, local, remote, kex, auth, out, adding, brigade, wire, srv,
                 budget, told, seen>>

(* A call that returned EAGAIN is entered anew. *)
Reentered == IF call.op = "pblc" THEN [call EXCEPT !.tries = 1] ELSE call

Asks(op, from, what, to, types) ==
  /\ Direct /\ call.op = op /\ auth[op].st = from
  /\ LET p == Packet(op, "request", what, auth[op].n) IN
     \/ TransportSend(p) /\ auth' = [auth EXCEPT ![op].st = to] /\ Awaits(types) /\ UNCHANGED budget
     \/ SendBlocks(p) /\ call' = Reentered /\ UNCHANGED auth
  /\ UNCHANGED <<session, startup, remote, kex, adding, brigade, told>>

Replied(op) == Direct /\ In(op, "reply") /\ Queued(call.wants)
Reply == Taken(call.wants)
(* A verdict ends the call. *)
Decides(op) ==
  /\ Reply.t \in Verdicts
  /\ session' = IF Reply.t = "success" THEN [session EXCEPT !.authed = TRUE] ELSE session
  /\ auth' = Finished(op)
  /\ told' = [op |-> op, n |-> call.n, by |-> Reply.n, ok |-> Reply.t = "success"]
  /\ call' = NoCall
Drops(op) ==
  /\ auth' = Finished(op)
  /\ call' = NoCall
  /\ UNCHANGED <<session, told>>
TakesReply ==
  /\ brigade' = Without(call.wants)
  /\ UNCHANGED <<startup, local, remote, kex, out, adding, wire, srv, budget>>

(* The time of packet_requirev is up: the machine starts again. *)
TimesOut(op) ==
  /\ Direct /\ In(op, "reply") /\ ~Queued(call.wants) /\ Spend("abandon")
  /\ Drops(op)
  /\ seen' = [seen EXCEPT !.given = TRUE]
  /\ UNCHANGED <<startup, local, remote, kex, out, adding, brigade, wire, srv>>

---------------------------------------------------------------------------
(* userauth_list asks with the method "none": the failure names the methods.  It
   is the only reader of the server's banner. *)

ListTypes == Verdicts \cup {"banner"}
List == Starts("list", "start")
ListSends == Asks("list", "created", "none", "sent", ListTypes)
ListReplies ==
  /\ Replied("list")
  /\ IF Reply.t = "banner"
     THEN Awaits(Verdicts) /\ UNCHANGED <<session, auth, told>>
     ELSE Decides("list")
  /\ TakesReply /\ UNCHANGED seen

(* userauth_password; a demand for a new password (60) fails without the callback. *)
PswdTypes == Verdicts \cup {"sixty"}
Password == Starts("pswd", "start")
PasswordSends == Asks("pswd", "created", "password", "sent", PswdTypes)
PasswordReplies ==
  /\ Replied("pswd")
  /\ IF Reply.t \in Verdicts THEN Decides("pswd")
     ELSE IF Callback THEN /\ auth' = [auth EXCEPT !.pswd.st = "sent2"]
                           /\ Phase("start") /\ UNCHANGED <<session, told>>
     ELSE Drops("pswd")
  /\ TakesReply /\ UNCHANGED seen
PasswordChanges == Asks("pswd", "sent2", "change", "sent", PswdTypes)

(* userauth_keyboard_interactive: questions (60) until there is a verdict.  What
   cannot be read as questions ends the call before the first answer; after one
   (sent3: userauth_kybd_auth_failure is 0) the code goes back to waiting. *)
Keyboard == Starts("kybd", "start")
KeyboardSends == Asks("kybd", "created", "kbd", "sent", PswdTypes)
DecodeInfoRequest(p) == p.kind = "info"
KeyboardReplies ==
  /\ Replied("kybd")
  /\ IF Reply.t \in Verdicts THEN Decides("kybd")
     ELSE IF DecodeInfoRequest(Reply)
          THEN auth' = [auth EXCEPT !.kybd.st = "sent1"] /\ Phase("start")
               /\ UNCHANGED <<session, told>>
          ELSE IF auth.kybd.st = "sent" THEN Drops("kybd")
          ELSE UNCHANGED <<session, auth, call, told>>
  /\ TakesReply /\ UNCHANGED seen
KeyboardAnswers == Asks("kybd", "sent1", "response", "sent3", PswdTypes)

(* userauth_hostbased_fromfile signs before it asks. *)
Hostbased == Starts("host", "start")
HostbasedSends == Asks("host", "created", "hostbased", "sent", Verdicts)
HostbasedReplies ==
  /\ Replied("host") /\ Decides("host")
  /\ TakesReply /\ UNCHANGED seen

---------------------------------------------------------------------------
(* _libssh2_userauth_publickey asks whether a key would do, signs, and asks
   again.  The method it names is upgraded to one the server has announced. *)

DefaultMethod(key) ==
  CASE key = "rsa" -> "ssh-rsa" [] key = "ecdsa" -> "ecdsa-256" [] OTHER -> "ssh-ed25519"
RsaMethods == {"ssh-rsa", "rsa-sha2"}
Fits(method, key) == IF key = "rsa" THEN method \in RsaMethods ELSE method = DefaultMethod(key)

(* _libssh2_key_sign_algorithm: "" when none of the server's algorithms fits. *)
KeySignAlgorithm(method) ==
  IF session.sigalgs = "unknown" \/ method \notin RsaMethods THEN method
  ELSE IF session.sigalgs = "sha2" THEN "rsa-sha2" ELSE ""
(* Reading a key's file names its method; without one the name that is there is
   taken: that of a key that could not be used stays for the next. *)
FileReadPublickey(key) == DefaultMethod(key)
MemoryReadPublickey(key) == DefaultMethod(key)
SkPubKeyfile(key) == DefaultMethod(key)
KeptMethod(key) == IF auth.method = "none" THEN DefaultMethod(key) ELSE auth.method

Calls(key, via) ==
  call' = [op |-> "pblc", ph |-> "start", n |-> Number, wants |-> {}, via |-> via, key |-> key,
           tries |-> 1]
(* A request is built with a method; without one the call fails and the machine
   stays idle. *)
Builds(key, via, method) ==
  LET upgraded == KeySignAlgorithm(method) IN
  IF upgraded = ""
  THEN /\ auth' = [auth EXCEPT !.method = method, !.pblc = Machine]
       /\ call' = NoCall
       /\ seen' = [seen EXCEPT !.unfit = TRUE]
  ELSE /\ auth' = [auth EXCEPT !.method = upgraded, !.pblc = [st |-> "created", n |-> Number]]
       /\ Calls(key, via)
       /\ seen' = [seen EXCEPT !.misfit = @ \/ ~Fits(upgraded, key)]

Publickey(key, via, method) ==
  /\ call = NoCall /\ session.st = "up" /\ startup = "done" /\ ~session.authed /\ Spend("calls")
  /\ IF auth.pblc.st = "idle" THEN Builds(key, via, method)
     ELSE /\ Calls(key, via)
          /\ auth' = IF via = "sk" THEN [auth EXCEPT !.method = method] ELSE auth
          /\ UNCHANGED seen
  /\ told' = Silent
  /\ UNCHANGED <<session, startup, local, remote, kex, out, adding, brigade, wire, srv>>

PublickeyFromfile == \E key \in Keys : Publickey(key, "file", FileReadPublickey(key))
PublickeyFrommemory == \E key \in Keys : Publickey(key, "memory", MemoryReadPublickey(key))
PublickeySk == \E key \in HardwareKeys : Publickey(key, "sk", SkPubKeyfile(key))
AgentUserauth ==
  auth.agent = "listed" /\ \E key \in Keys : Publickey(key, "agent", KeptMethod(key))

PublickeySends == Asks("pblc", "created", "probe", "sent", PswdTypes)

(* Any message with the number 60 is taken for the consent to sign. *)
PublickeyReplies ==
  /\ Replied("pblc") /\ auth.pblc.st = "sent"
  /\ IF Reply.t \in Verdicts THEN Decides("pblc")
     ELSE auth' = [auth EXCEPT !.pblc.st = "sign"] /\ Phase("start") /\ UNCHANGED <<session, told>>
  /\ TakesReply /\ UNCHANGED seen

(* The signature: a key's file or memory is read again for it, a hardware key and
   the agent are asked. *)
Signs(result) ==
  \/ /\ result = "signed"
     /\ auth' = [auth EXCEPT !.pblc.st = "sent2", !.method = "none"]
     /\ UNCHANGED call
  \/ /\ result = "failed"
     /\ auth' = Finished("pblc")
     /\ call' = NoCall
SignFrom(via, results) ==
  /\ InCall /\ call.op = "pblc" /\ call.via = via /\ auth.pblc.st = "sign"
  /\ \E result \in results : Signs(result)
  /\ UNCHANGED <<session, startup, local, remote, kex, out, adding, brigade, wire, srv, budget,
                 told, seen>>
RsaInitPEM(key) == key = "rsa"
EcdsaInitPEM(key) == key = "ecdsa"
Ed25519InitPEM(key) == key = "ed25519"
InitPEM(method, key) ==
  CASE method \in RsaMethods -> RsaInitPEM(key)
    [] method = "ecdsa-256" -> EcdsaInitPEM(key)
    [] OTHER -> Ed25519InitPEM(key)
(* The method chosen before has to read the key: a call that goes on with the
   request of another may bring a key of another kind. *)
ReadPrivatekey ==
  IF InitPEM(auth.method, call.key) THEN {"signed", "failed"} ELSE {"failed"}
SignFromfile == call.op = "pblc" /\ SignFrom("file", ReadPrivatekey)
SignFrommemory == call.op = "pblc" /\ SignFrom("memory", ReadPrivatekey)
SignSk == SignFrom("sk", {"signed", "failed"})
AgentSign == SignFrom("agent", {"signed", "failed"})
(* An agent that signs with another method: the key's own is tried, once per entry
   of the function (auth_attempts). *)
AgentUnsupported ==
  /\ InCall /\ call.op = "pblc" /\ call.via = "agent" /\ auth.pblc.st = "sign"
  /\ IF call.tries = 1
     THEN /\ auth' = [auth EXCEPT !.method = DefaultMethod(call.key),
                                  !.pblc = [st |-> "created", n |-> call.n]]
          /\ call' = [call EXCEPT !.tries = 2]
     ELSE auth' = Finished("pblc") /\ call' = NoCall
  /\ UNCHANGED <<session, startup, local, remote, kex, out, adding, brigade, wire, srv, budget,
                 told, seen>>

(* What the retry waits for is not there: EAGAIN, and the function is entered again. *)
AgentReenters ==
  /\ InCall /\ call.op = "pblc" /\ call.tries = 2 /\ Spend("block")
  /\ call' = Reentered
  /\ UNCHANGED <<session, startup, local, remote, kex, auth, out, adding, brigade, wire, srv,
                 told, seen>>

PublickeyProves == Asks("pblc", "sent2", "signed", "sent3", Verdicts)
PublickeyVerdict ==
  /\ Replied("pblc") /\ auth.pblc.st = "sent3" /\ Decides("pblc")
  /\ TakesReply /\ UNCHANGED seen

(* The agent: connected, asked for its keys, disconnected. *)
AgentOutside ==
  /\ call = NoCall /\ session.st = "up" /\ startup = "done" /\ ~session.authed
  /\ UNCHANGED <<session, startup, local, remote, kex, out, adding, brigade, wire, srv, call,
                 budget, told, seen>>
AgentConnect == AgentOutside /\ auth.agent = "closed" /\ auth' = [auth EXCEPT !.agent = "open"]
AgentListIdentities ==
  AgentOutside /\ auth.agent = "open" /\ auth' = [auth EXCEPT !.agent = "listed"]
AgentDisconnect ==
  AgentOutside /\ auth.agent = "listed" /\ auth' = [auth EXCEPT !.agent = "closed"]

---------------------------------------------------------------------------
(* After the login: a request that waits for its answer, a keepalive, which is
   left where it blocks, and the end of the session. *)

Use ==
  /\ session.authed /\ Begin("use", "start")
  /\ UNCHANGED <<session, startup, local, remote, kex, auth, out, adding, brigade, wire, srv, seen>>
UseSends ==
  /\ Direct /\ In("use", "start")
  /\ LET p == Packet("use", "request", "use", call.n) IN
     \/ TransportSend(p) /\ Awaits({"answer"}) /\ UNCHANGED budget
     \/ SendBlocks(p) /\ UNCHANGED call
  /\ UNCHANGED <<session, startup, remote, kex, auth, adding, brigade, told>>
UseEnds ==
  /\ Replied("use")
  /\ call' = NoCall
  /\ TakesReply /\ UNCHANGED <<session, auth, told, seen>>

KeepaliveSend ==
  /\ call = NoCall /\ session.st = "up" /\ session.authed /\ ~session.exchanging
  /\ Spend("calls")
  /\ LET p == Packet("keepalive", "keepalive", "", 0) IN
     \/ TransportSend(p)
     \/ /\ out = None /\ out' = p /\ local' = Counted(local, session.strict, p)
        /\ seen' = [seen EXCEPT !.kept = TRUE]
        /\ UNCHANGED <<srv, wire>>
  /\ UNCHANGED <<session, startup, remote, kex, auth, adding, brigade, call, told>>

(* EAGAIN reaches the application, which calls something else. *)
Abandon ==
  /\ InCall /\ Spend("abandon")
  /\ out # None \/ (wire = <<>> /\ call.ph = "reply")
  /\ seen' = [seen EXCEPT !.given = @ \/ startup = "done"]
  /\ call' = NoCall
  /\ kex' = [kex EXCEPT !.eagain = session.exchanging]
  /\ UNCHANGED <<session, startup, local, remote, auth, out, adding, brigade, wire, srv, told>>

(* libssh2_session_disconnect leaves an exchange. *)
SessionDisconnect ==
  /\ call = NoCall /\ session.st = "up" /\ startup = "done"
  /\ LET p == Packet("disconnect", "disconnect", "", 0) IN
     TransportSend(p) \/ (~CanSend(p) /\ UNCHANGED <<out, local, srv, wire, seen>>)
  /\ session' = [session EXCEPT !.st = "closed", !.initial = FALSE, !.exchanging = FALSE]
  /\ UNCHANGED <<startup, remote, kex, auth, adding, brigade, call, budget, told>>

FreesKeys == kex' = NoKex /\ local' = End /\ remote' = End
FreesPackets == out' = None /\ adding' = None /\ brigade' = <<>>
SessionFree ==
  /\ call = NoCall /\ session.st \in {"dead", "closed"}
  /\ FreesKeys /\ FreesPackets
  /\ session' = [session EXCEPT !.st = "freed", !.banner = "default", !.id = 0,
                   !.sigalgs = "unknown"]
  /\ startup' = "idle"
  /\ auth' = [op \in DOMAIN auth |-> IF op = "method" THEN "none" ELSE
                IF op = "agent" THEN auth.agent ELSE Machine]
  /\ UNCHANGED <<wire, srv, call, budget, told, seen>>

---------------------------------------------------------------------------
(* The server's verdicts.  It grants a request only once it is complete. *)

ServerDecides ==
  \/ /\ \/ \E what \in {"none", "password", "change", "probe", "signed", "hostbased", "kbd", "response"} :
             \/ ServerAnswers(what, "failure", <<>>)
             \/ what # "probe" /\ ServerAnswers(what, "success", <<>>)
        \/ ServerAnswers("password", "sixty", [kind |-> "change"])
        \/ ServerAnswers("probe", "sixty", [kind |-> "consent"])
        \/ ServerAnswers("kbd", "sixty", [kind |-> "info"])
     /\ UNCHANGED budget
  \/ ServerAnswers("response", "sixty", [kind |-> "info"]) /\ Spend("noise")
ServerBanner ==
  /\ ~srv.gone /\ srv.st = "idle" /\ srv.todo # <<>> /\ Head(srv.todo).what = "none" /\ Spend("noise")
  /\ LET r == Sends(srv, "banner", [n |-> 0]) IN srv' = r.s /\ wire' = wire \o r.sends
  /\ UNCHANGED <<session, startup, local, remote, kex, auth, out, adding, brigade, call, told, seen>>
ServerServes == ServerAnswers("use", "answer", <<>>) /\ UNCHANGED budget

Next ==
  \/ KeysNext
  \/ List \/ Continues("list", ListTypes) \/ ListSends \/ ListReplies
  \/ Password \/ Continues("pswd", PswdTypes) \/ PasswordSends \/ PasswordReplies \/ PasswordChanges
  \/ Keyboard \/ Continues("kybd", PswdTypes) \/ KeyboardSends \/ KeyboardReplies \/ KeyboardAnswers
  \/ Hostbased \/ Continues("host", Verdicts) \/ HostbasedSends \/ HostbasedReplies
  \/ PublickeyFromfile \/ PublickeyFrommemory \/ PublickeySk \/ AgentUserauth
  \/ PublickeySends \/ PublickeyReplies \/ PublickeyProves
  \/ SignFromfile \/ SignFrommemory \/ SignSk \/ AgentSign \/ AgentUnsupported
  \/ AgentReenters
  \/ Continues("pblc", IF auth.pblc.st = "sent" THEN PswdTypes ELSE Verdicts)
  \/ PublickeyVerdict
  \/ \E op \in {"list", "pswd", "kybd", "host", "pblc"} : TimesOut(op)
  \/ AgentConnect \/ AgentListIdentities \/ AgentDisconnect
  \/ Use \/ UseSends \/ UseEnds \/ KeepaliveSend \/ Abandon \/ SessionDisconnect \/ SessionFree
  \/ ServerDecides \/ ServerBanner \/ ServerServes

Spec == Init /\ [][Next]_vars

---------------------------------------------------------------------------
TypeOK ==
  /\ session.st \in {"new", "up", "dead", "closed", "freed"}
  /\ startup \in {"idle", "banner", "part", "hello", "kex", "exchange", "service", "done"}
  /\ kex.st \in {"idle", "kexinit", "await", "request", "group", "init", "reply", "newkeys", "last"}
  /\ call.ph \in {"idle", "send", "start", "reply"}

(* The machines agree: an exchange in progress has its state, both directions
   have the keys of one exchange, and nobody is logged in without keys. *)
Linked ==
  session.st = "up" =>
    /\ session.exchanging <=> kex.st # "idle"
    /\ local.n = remote.n
    /\ session.newkeys <=> local.n > 0
    /\ session.authed => session.newkeys /\ session.id # 0
    /\ session.initial <=> ~session.newkeys

Inv == TypeOK /\ Linked

(* Whatever is sent or read, whole or in parts, between and during exchanges, is
   sealed as the receiver expects it, unless a later exchange replaced the
   methods in use or a login was given up while compression began. *)
KeysAgree == seen.garbled => seen.changed \/ seen.given

(* Between the client's KEXINIT and its NEWKEYS the server sees nothing but the
   exchange, and that in order. *)
OnlyKexDuringExchange == ~seen.crossed

(* The identifier of the session is that of the first exchange on both sides,
   also after others. *)
SessionIdStays ==
  session.id # 0 /\ srv.hash # 0 => session.id = 1 /\ session.hash = srv.hash

(* What an authentication call says of a login is the server's answer to it,
   and who is logged in was let in: unless a call was given up before. *)
VerdictIsOwn ==
  /\ told.op # "none" => told.by = told.n \/ seen.given
  /\ session.authed => srv.authed

(* A call or an exchange that waits for a message gets it: it was read already,
   is on its way, or the server has the request. *)
AnswerIsComing ==
  session.st = "up" /\ call # NoCall /\ ~srv.gone /\ ~seen.given =>
    /\ session.exchanging /\ KexWants # "none" =>
         \/ Queued({KexWants})
         \/ \E i \in DOMAIN wire : wire[i].t = KexWants
         \/ kex.st = "await" /\ srv.n = 0
    /\ ~session.exchanging /\ call.ph = "reply" =>
         \/ Queued(call.wants)
         \/ \E i \in DOMAIN wire : wire[i].t \in call.wants
         \/ srv.todo # <<>>

(* A handshake or an exchange fails only for a reason: no common method, a banner
   sent in two parts, or a server that breaks the strict rule. *)
FailsForAReason ==
  seen.failed => ~Agreeable(srv.offer) \/ srv.vc = "mixed" \/ seen.rude

(* A publickey request names a method of its key, whatever key was tried before
   it: unless an earlier one found no algorithm the server takes, or was given
   up. *)
MethodFits == seen.misfit => seen.unfit \/ seen.given

(* An exchange the server has begun can begin: no half-sent packet is in its
   way, unless it was given up, or was a keepalive. *)
ExchangeCanBegin ==
  session.exchanging /\ out # None => out.buf \in KexTypes \/ seen.given \/ seen.kept

(* Client and server share the keys, the session and the order of an exchange. *)
KeysAreShared == KeysAgree /\ OnlyKexDuringExchange /\ SessionIdStays

(* A login is that of the call that reports it, with the method of its key. *)
LoginIsOwn == VerdictIsOwn /\ MethodFits

(* Nothing hangs and nothing fails but for a reason of the server or of a call that
   was given up. *)
NothingHangs == AnswerIsComing /\ FailsForAReason /\ ExchangeCanBegin
=============================================================================
