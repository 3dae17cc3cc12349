------------------------------ MODULE SshKeys ------------------------------
(* The transport of a libssh2 session: the handshake (session.c), the key
   exchange and its repetition (kex.c, hostkey.c), and what they mean for every
   packet that is read or sent meanwhile (packet.c, transport.c).

   A call of the API runs alone and waits for the socket; a non-blocking session
   or a timeout leaves it, and its machine, where it was.  While keys are being
   exchanged every read and every send of a call first continues the exchange.
   Packets are encrypted and numbered when they are built, and the server sees
   them in that order; what is read was encrypted by the server alike.  The
   methods, the keys and the numbers a packet was made with stay in it, and a
   receiver that would use others cannot read it.

   The server follows the protocol; it may also send messages a client has to
   bear with, even where strict key exchange forbids them. *)
EXTENDS Integers, Sequences, FiniteSets, SequencesExt

CONSTANTS
  Prefs,       \* the client's methods, the preferred one first, by kind
  FirstOffer,  \* what a server offers in its first KEXINIT,
  LaterOffer,  \* and in the later ones
  Banner,      \* what the application sets before the handshake: "own" or "default"
  MaxRekeys, MaxBlock, MaxAbandon, MaxCalls, MaxNoise,  \* bounds of the exploration,
  MaxEvents    \* and of all these together

ASSUME KeysAssumption ==
  /\ Banner \in {"default", "own"}
  /\ \A n \in {MaxRekeys, MaxBlock, MaxAbandon, MaxCalls, MaxNoise, MaxEvents} : n \in Nat

VARIABLES
  session,   \* session->state, kex_strict, session_id, server_sign_algorithms
  startup,   \* session->startup_state
  local, remote,  \* session->local and ->remote: methods, keys, seqno
  kex,       \* session->startup_key_state, with the methods agreed on and
             \* whether it has returned EAGAIN
  auth,      \* session->userauth_*_state
  out,       \* the packet the transport has sent a part of, or None
  adding,    \* the answer packet_add was interrupted in, or None
  brigade,   \* session->packets
  wire,      \* what the server has sent and the client has not read
  srv,       \* the server
  call,      \* the call of the API in progress
  budget,    \* what is left of the bounds
  told,      \* what the last authentication call returned
  seen       \* history: what excuses the code from the guarantees

vars == <<session, startup, local, remote, kex, auth, out, adding, brigade, wire, srv,
          call, budget, told, seen>>

None == [buf |-> "none"]
NoCall == [op |-> "none", ph |-> "idle", n |-> 0, wants |-> {}]
Silent == [op |-> "none", n |-> 0, by |-> 0, ok |-> FALSE]
Clear == [crypt |-> "none", mac |-> "none", comp |-> "none"]
End == [m |-> Clear, n |-> 0, comp |-> "none", z |-> 0, seq |-> 0]
NoMethods == [kex |-> "none", hostkey |-> "none"] @@ Clear
NoKex == [st |-> "idle", n |-> 0, m |-> NoMethods, eagain |-> FALSE]
Machine == [st |-> "idle", n |-> 0]

Init ==
  /\ session = [st |-> "new", initial |-> TRUE, exchanging |-> FALSE, newkeys |-> FALSE,
                strict |-> FALSE, authed |-> FALSE, banner |-> "default", id |-> 0, hash |-> 0,
                sigalgs |-> "unknown"]
  /\ startup = "idle"
  /\ local = End /\ remote = End /\ kex = NoKex
  /\ auth = [list |-> Machine, pswd |-> Machine, kybd |-> Machine, host |-> Machine,
             pblc |-> Machine, method |-> "none", agent |-> "closed"]
  /\ out = None /\ adding = None /\ brigade = <<>>
  /\ wire \in {<<[t |-> "ssh"]>>, <<[t |-> "line"], [t |-> "ssh"]>>}
  /\ srv = [vc |-> "", st |-> "idle", n |-> 0, out |-> End, in |-> End, strict |-> FALSE,
            offer |-> [kind \in DOMAIN Prefs |-> {}], todo |-> <<>>, authed |-> FALSE, gone |-> FALSE,
            hash |-> 0]
  /\ call = NoCall
  /\ budget = [calls |-> MaxCalls, block |-> MaxBlock, abandon |-> MaxAbandon,
               rekey |-> MaxRekeys + 1, noise |-> MaxNoise,
               events |-> MaxEvents + 1]  \* the first exchange is none
  /\ told = Silent
  /\ seen = [given |-> FALSE, changed |-> FALSE, rude |-> FALSE, garbled |-> FALSE,
             crossed |-> FALSE, failed |-> FALSE, kept |-> FALSE, unfit |-> FALSE,
             misfit |-> FALSE]

Spend(what) ==
  /\ budget[what] > 0 /\ budget.events > 0
  /\ budget' = [budget EXCEPT ![what] = @ - 1, !.events = @ - 1]
In(op, ph) == call.op = op /\ call.ph = ph
Phase(ph) == call' = [call EXCEPT !.ph = ph]
Awaits(types) == call' = [call EXCEPT !.ph = "reply", !.wants = types]
Number == MaxCalls - budget.calls + 1
Begin(op, ph) ==
  /\ call = NoCall /\ session.st = "up" /\ startup = "done" /\ Spend("calls")
  /\ call' = [op |-> op, ph |-> ph, n |-> Number, wants |-> {}]
  /\ told' = Silent

InCall == call # NoCall /\ session.st = "up"
(* A send or a read of a call, that does not continue an exchange instead. *)
Direct == InCall /\ ~session.exchanging
(* _libssh2_kex_exchange, in the call or instead of what the call would do. *)
Driving == InCall /\ session.exchanging

---------------------------------------------------------------------------
(* How a packet is made, and whether the other side can read it. *)

(* The crypt and mac methods agreed on are in use from the KEXINIT on, with keys
   of the last exchange: `m` is replaced before `n` is. *)
Compresses(end, authed) ==
  end.m.comp = end.comp /\ (end.comp = "zlib" \/ (end.comp = "zlib@openssh.com" /\ authed))
Sealed(end, on) ==
  IF ~on THEN [n |-> 0]
  ELSE [n |-> end.n, crypt |-> end.m.crypt, mac |-> end.m.mac, seq |-> end.seq]
(* A compressed packet needs those before it: z counts them, from the beginning
   of a stream. *)
ZlibInit(end) == [end EXCEPT !.comp = end.m.comp, !.z = 0]
ZlibComp(end, authed) == IF Compresses(end, authed) THEN end.z + 1 ELSE 0
ZlibDecomp(end, authed, p) == p.z = IF Compresses(end, authed) THEN end.z + 1 ELSE 0
Counted(end, strict, p) ==
  [end EXCEPT !.seq = IF strict /\ p.t = "newkeys" THEN 0 ELSE @ + 1,
              !.z = IF p.z > 0 THEN p.z ELSE @]

---------------------------------------------------------------------------
(* What the two sides agree on. *)

Offered(kind, o) == \E i \in DOMAIN Prefs[kind] : Prefs[kind][i] \in o[kind]
FirstOf(kind, o) ==
  Prefs[kind][CHOOSE i \in DOMAIN Prefs[kind] :
    Prefs[kind][i] \in o[kind] /\ \A j \in 1..(i - 1) : Prefs[kind][j] \notin o[kind]]

KexAgreeKexHostkey(o) == [kex |-> FirstOf("kex", o), hostkey |-> FirstOf("hostkey", o)]
KexAgreeCrypt(o) == [crypt |-> FirstOf("crypt", o)]
(* A cipher that authenticates what it encrypts brings its own mac. *)
KexAgreeMac(o, crypt) ==
  [mac |-> IF crypt = "aes-gcm" THEN "implicit" ELSE FirstOf("mac", o)]
KexAgreeComp(o) == [comp |-> FirstOf("comp", o)]
Agreeable(o) == \A kind \in {"kex", "hostkey", "crypt", "mac", "comp"} : Offered(kind, o)
KexAgreeMethods(o) ==
  KexAgreeKexHostkey(o) @@ KexAgreeCrypt(o) @@ KexAgreeMac(o, FirstOf("crypt", o))
  @@ KexAgreeComp(o)
Ciphers(m) == [crypt |-> m.crypt, mac |-> m.mac, comp |-> m.comp]

Groups == {"group1-sha1", "group14-sha1", "group14-sha256", "group16-sha512", "group18-sha512"}
Gex == {"gex-sha1", "gex-sha256"}
Digest(method) ==
  CASE method \in {"group1-sha1", "group14-sha1", "gex-sha1"} -> 1
    [] method \in {"group16-sha512", "group18-sha512", "ecdh-nistp521"} -> 512
    [] OTHER -> 256

---------------------------------------------------------------------------
(* The server's side of what the client sends. *)

Answers(s, what, n) == [s EXCEPT !.todo = Append(@, [what |-> what, n |-> n])]
Renewed(end, s) ==
  LET m == KexAgreeMethods(s.offer) IN
  ZlibInit([end EXCEPT !.m = Ciphers(m), !.n = s.n])

Stays(s) == [s |-> s, sends |-> <<>>]
Breaks(s) == Stays([s EXCEPT !.gone = TRUE])
Sends(s, t, more) ==
  LET p == [t |-> t, seal |-> Sealed(s.out, s.out.n > 0), z |-> ZlibComp(s.out, s.authed)] @@ more
  IN [s |-> [s EXCEPT !.out = Counted(@, s.strict, p)], sends |-> <<p>>]

(* The reply that carries the server's part, and the NEWKEYS after it. *)
Replies(s, t) ==
  LET m == KexAgreeMethods(s.offer)
      hash == [vc |-> s.vc, n |-> s.n, by |-> Digest(m.kex)]
      reply == Sends(s, t, [key |-> IF m.hostkey \in {"rsa-sha2-256", "rsa-sha2-512"} THEN "ssh-rsa"
                                    ELSE m.hostkey,
                            sig |-> [of |-> hash, by |-> m.hostkey]])
      last == Sends(reply.s, "newkeys", <<>>)
  IN [s |-> [last.s EXCEPT !.st = "replied", !.out = Renewed(@, s)],
      sends |-> reply.sends \o last.sends]

ReplyTo == [kexdh_init |-> "kexdh_reply", gex_init |-> "gex_reply", ecdh_init |-> "ecdh_reply",
            gex_request |-> "gex_group"]
KexTypes == {"kexinit", "newkeys"} \cup DOMAIN ReplyTo
InOrder(s, t) ==
  CASE t = "kexinit" -> s.st = "sent" \/ s.n = 0
    [] t = "newkeys" -> s.st = "replied"
    [] t \in DOMAIN ReplyTo -> s.st = "both"
    [] OTHER -> s.st \notin {"both", "replied"} \/ t = "disconnect"

Reaction(s, p) ==
  LET t == p.t IN
  CASE t = "kexinit" -> IF s.st = "idle" THEN Stays([s EXCEPT !.st = "heard"])
                        ELSE IF Agreeable(s.offer) THEN Stays([s EXCEPT !.st = "both"])
                        ELSE Breaks(s)
    [] t = "newkeys" -> Stays([s EXCEPT !.st = "idle", !.in = Renewed(@, s),
                                      !.hash = IF s.n = 1 THEN Digest(FirstOf("kex", s.offer)) ELSE @])
    [] t = "gex_request" -> Sends(s, "gex_group", <<>>)
    [] t \in DOMAIN ReplyTo \ {"gex_request"} -> Replies(s, ReplyTo[t])
    [] t = "disconnect" -> Breaks(s)
    [] t = "request" -> Stays(Answers(s, p.what, p.n))
    [] OTHER -> Stays(s)

(* What a packet does at the server, if it can read it and expects it. *)
Delivered(p) ==
  LET readable == p.seal = Sealed(srv.in, srv.in.n > 0) /\ ZlibDecomp(srv.in, srv.authed, p)
      s == [srv EXCEPT !.in = Counted(@, srv.strict, p)]
      r == IF srv.gone THEN Stays(srv)
           ELSE IF readable /\ InOrder(srv, p.t) THEN Reaction(s, p) ELSE Breaks(srv)
  IN
  /\ srv' = r.s
  /\ wire' = wire \o r.sends
  /\ seen' = [seen EXCEPT !.garbled = @ \/ (~srv.gone /\ ~readable),
                          !.crossed = @ \/ (~srv.gone /\ readable /\ ~InOrder(srv, p.t))]

---------------------------------------------------------------------------
(* _libssh2_transport_send: a packet is made, numbered and sent, whole or in
   part; the rest only goes out for a call with the same buffer. *)

Packet(buf, t, what, n) ==
  [buf |-> buf, t |-> t, what |-> what, n |-> n,
   seal |-> Sealed(local, session.newkeys), z |-> ZlibComp(local, session.authed)]
CanSend(p) == out = None \/ out.buf = p.buf
(* _libssh2_packet_ask: the first packet of one of the types, in their order. *)
Queued(types) == \E i \in DOMAIN brigade : brigade[i].t \in types
Rank(t) == CASE t = "success" -> 1 [] t = "failure" -> 2 [] OTHER -> 3
FirstQueued(types) ==
  CHOOSE i \in DOMAIN brigade :
    /\ brigade[i].t \in types
    /\ \A j \in DOMAIN brigade :
         brigade[j].t \in types => <<Rank(brigade[j].t), j>> = <<Rank(brigade[i].t), i>>
           \/ Rank(brigade[j].t) > Rank(brigade[i].t)
           \/ (Rank(brigade[j].t) = Rank(brigade[i].t) /\ j > i)
Taken(types) == brigade[FirstQueued(types)]
(* Mutant: the packet stays queued. *)
Without_Keeps(types) == brigade
Without(types) == RemoveAt(brigade, FirstQueued(types))

TransportSend(p) ==
  /\ CanSend(p)
  /\ Delivered(IF out = None THEN p ELSE out)
  /\ out' = None
  /\ local' = IF out = None THEN Counted(local, session.strict, p) ELSE local
SendBlocks(p) ==
  /\ out = None /\ Spend("block")
  /\ out' = p
  /\ local' = Counted(local, session.strict, p)
  /\ UNCHANGED <<srv, wire, seen>>

---------------------------------------------------------------------------
(* libssh2_session_banner_set, and libssh2_session_handshake: the banners, the first exchange, the service. *)

BannerSet ==
  /\ call = NoCall /\ session.st = "new" /\ session.banner # Banner
  /\ session' = [session EXCEPT !.banner = Banner]
  /\ UNCHANGED <<startup, local, remote, kex, auth, out, adding, brigade, wire, srv, call,
                 budget, told, seen>>

Handshake ==
  /\ call = NoCall /\ session.st \in {"new", "up"} /\ startup # "done"
  /\ call' = IF startup = "service"
             THEN [op |-> "handshake", ph |-> "reply", n |-> 0, wants |-> {"accept"}]
             ELSE [op |-> "handshake", ph |-> "send", n |-> 0, wants |-> {}]
  /\ startup' = IF startup = "idle" THEN "banner" ELSE startup
  /\ session' = [session EXCEPT !.st = "up"]
  /\ UNCHANGED <<local, remote, kex, auth, out, adding, brigade, wire, srv, budget, told, seen>>

(* The rest of a banner that was sent in part is taken from the default one. *)
BannerSends ==
  /\ InCall /\ startup \in {"banner", "part"}
  /\ \/ /\ startup' = "hello"
        /\ srv' = [srv EXCEPT !.vc = IF startup = "banner" \/ session.banner = "default"
                                     THEN session.banner ELSE "mixed"]
        /\ UNCHANGED budget
     \/ /\ startup = "banner" /\ Spend("block")
        /\ startup' = "part"
        /\ UNCHANGED srv
  /\ UNCHANGED <<session, local, remote, kex, auth, out, adding, brigade, wire, call, told, seen>>

(* Lines before the one with the version are read and dropped. *)
BannerReceives ==
  /\ InCall /\ startup = "hello"
  /\ startup' = IF Head(wire).t = "ssh" THEN "kex" ELSE "hello"
  /\ wire' = Tail(wire)
  /\ UNCHANGED <<session, local, remote, kex, auth, out, adding, brigade, srv, call, budget,
                 told, seen>>

StartupExchanges ==
  /\ InCall /\ startup = "kex"
  /\ session' = [session EXCEPT !.exchanging = TRUE]
  /\ kex' = [kex EXCEPT !.st = "kexinit", !.n = @ + 1]
  /\ startup' = "exchange"
  /\ UNCHANGED <<local, remote, auth, out, adding, brigade, wire, srv, call, budget, told, seen>>

StartupRequests ==
  /\ Direct /\ startup = "exchange"
  /\ LET p == Packet("service", "request", "service", 0) IN
     \/ TransportSend(p) /\ startup' = "service" /\ Awaits({"accept"}) /\ UNCHANGED budget
     \/ SendBlocks(p) /\ UNCHANGED <<startup, call>>
  /\ UNCHANGED <<session, remote, kex, auth, adding, brigade, told>>

StartupEnds ==
  /\ Direct /\ startup = "service"
  /\ Queued({"accept"})
  /\ brigade' = Without({"accept"})
  /\ startup' = "done"
  /\ call' = NoCall
  /\ UNCHANGED <<session, local, remote, kex, auth, out, adding, wire, srv, budget, told, seen>>

---------------------------------------------------------------------------
(* The key exchange of the client. *)

InitOf(method) ==
  IF method \in Groups THEN "kexdh_init" ELSE IF method \in Gex THEN "gex_init" ELSE "ecdh_init"
KexWants ==
  CASE kex.st = "await" -> "kexinit"
    [] kex.st = "group" -> "gex_group"
    [] kex.st = "reply" -> ReplyTo[InitOf(kex.m.kex)]
    [] kex.st = "last" -> "newkeys"
    [] OTHER -> "none"

Exchanging(st) == Driving /\ kex.st = st

(* A machine that is done, or given up, is idle and its method's name forgotten:
   after a signature it was before. *)
Finished(op) ==
  [auth EXCEPT ![op] = Machine,
               !.method = IF op = "pblc" /\ auth.pblc.st # "sent3" THEN "none" ELSE @]
(* An exchange fails, and with it the call: the handshake, or the one whose read or
   send it was continued in.  packet_add, in which a later one begins, does not pass
   the failure on. *)
KexFails ==
  \/ /\ startup = "done" /\ ~kex.eagain
     /\ UNCHANGED <<call, auth>>
  \/ /\ call' = NoCall
     /\ auth' = IF call.op \in DOMAIN auth THEN Finished(call.op) ELSE auth

(* Mutant: the machine of the exchange is not reset. *)
KexEnds_Unreset(ok) ==
  /\ kex' = [kex EXCEPT !.m = NoMethods]
  /\ IF ok THEN UNCHANGED <<call, auth>> ELSE KexFails
  /\ seen' = [seen EXCEPT !.failed = @ \/ ~ok]
(* _libssh2_kex_exchange ends, well or not: the session goes on either way,
   except that a handshake fails. *)
KexEnds(ok) ==
  /\ kex' = [NoKex EXCEPT !.n = kex.n]
  /\ IF ok THEN UNCHANGED <<call, auth>> ELSE KexFails
  /\ seen' = [seen EXCEPT !.failed = @ \/ ~ok]

KexSends(from, t, to) ==
  /\ Exchanging(from)
  /\ LET p == Packet(t, t, "", 0) IN
     \/ TransportSend(p) /\ kex' = [kex EXCEPT !.st = to] /\ UNCHANGED budget
     \/ SendBlocks(p) /\ kex' = [kex EXCEPT !.eagain = TRUE]
  /\ UNCHANGED <<session, startup, remote, auth, adding, brigade, call, told>>

KexInit == KexSends("kexinit", "kexinit", "await")

(* kex_agree_methods replaces the methods of both directions at once. *)
KexAgrees ==
  /\ Exchanging("await") /\ Queued({"kexinit"})
  /\ LET o == Taken({"kexinit"}).offer
         m == KexAgreeMethods(o)
     IN
     IF Agreeable(o)
     THEN /\ session' = [session EXCEPT !.strict = @ \/ o.strict]
          /\ kex' = [kex EXCEPT !.st = IF m.kex \in Gex THEN "request" ELSE "init", !.m = m]
          /\ local' = [local EXCEPT !.m = Ciphers(m)]
          /\ remote' = [remote EXCEPT !.m = Ciphers(m)]
          /\ seen' = [seen EXCEPT !.changed = @ \/ (session.newkeys /\ local.m # Ciphers(m))]
          /\ UNCHANGED <<call, auth>>
     ELSE /\ KexEnds(FALSE)
          /\ session' = [session EXCEPT !.initial = FALSE, !.exchanging = FALSE,
                           !.st = IF startup = "done" THEN @ ELSE "dead"]
          /\ UNCHANGED <<local, remote>>
  /\ brigade' = Without({"kexinit"})
  /\ UNCHANGED <<startup, out, adding, wire, srv, budget, told>>

(* The key in the reply has to be of the family agreed on; an RSA key signs in
   three ways, and an ECDSA key says itself with which hash. *)
Rsa == {"ssh-rsa", "rsa-sha2-256", "rsa-sha2-512"}
Ecdsa == {"ecdsa-256", "ecdsa-384", "ecdsa-521"}
RsaInit(p) == p.key \in Rsa
EcdsaInit(p) == p.key \in Ecdsa
Ed25519Init(p) == p.key = "ed25519"
HostkeyInit(p) ==
  \/ kex.m.hostkey \in Rsa /\ RsaInit(p)
  \/ kex.m.hostkey \in Ecdsa /\ EcdsaInit(p)
  \/ kex.m.hostkey = "ed25519" /\ Ed25519Init(p)
RsaVerifies(p) == p.sig.by = "ssh-rsa"
RsaSha256Verifies(p) == p.sig.by = "rsa-sha2-256"
RsaSha512Verifies(p) == p.sig.by = "rsa-sha2-512"
EcdsaVerifies(p) == p.sig.by = p.key
Ed25519Verifies(p) == p.sig.by = "ed25519"

(* The hash covers both banners and both KEXINITs. *)
KexHash == [vc |-> session.banner, n |-> kex.n, by |-> Digest(kex.m.kex)]
(* The elliptic curve methods build it on their own. *)
EcHash == [vc |-> session.banner, n |-> kex.n, by |-> Digest(kex.m.kex)]
SigVerify(p, hash) ==
  /\ p.sig.of = hash
  /\ \/ kex.m.hostkey = "ssh-rsa" /\ RsaVerifies(p)
     \/ kex.m.hostkey = "rsa-sha2-256" /\ RsaSha256Verifies(p)
     \/ kex.m.hostkey = "rsa-sha2-512" /\ RsaSha512Verifies(p)
     \/ kex.m.hostkey \in Ecdsa /\ EcdsaVerifies(p)
     \/ kex.m.hostkey = "ed25519" /\ Ed25519Verifies(p)

ExchangeReplies(t, hash) ==
  /\ Exchanging("reply") /\ Queued({t})
  /\ IF HostkeyInit(Taken({t})) /\ SigVerify(Taken({t}), hash)
     THEN kex' = [kex EXCEPT !.st = "newkeys"] /\ UNCHANGED <<session, auth, call, seen>>
     ELSE /\ KexEnds(FALSE)
          /\ session' = [session EXCEPT !.initial = FALSE, !.exchanging = FALSE,
                           !.st = IF startup = "done" THEN @ ELSE "dead"]
  /\ brigade' = Without({t})
  /\ UNCHANGED <<startup, local, remote, out, adding, wire, srv, budget, told>>

InstallKeys(end) == [end EXCEPT !.n = kex.n]
(* The streams of the last exchange end, new ones begin. *)
InstallComp(end) == ZlibInit(end)
(* Mutant: each exchange gives the session an identifier. *)
SessionId_EachTime == [session EXCEPT !.id = kex.n, !.hash = Digest(kex.m.kex)]
SessionId ==
  IF session.id # 0 THEN session
  ELSE [session EXCEPT !.id = kex.n, !.hash = Digest(kex.m.kex)]

ExchangeInstalls(sent, received) ==
  /\ Exchanging("last") /\ Queued({"newkeys"})
  /\ session' = [SessionId EXCEPT !.newkeys = TRUE, !.initial = FALSE, !.exchanging = FALSE]
  /\ local' = sent /\ remote' = received
  /\ KexEnds(TRUE)
  /\ brigade' = Without({"newkeys"})
  /\ UNCHANGED <<startup, out, adding, wire, srv, budget, told>>

(* diffie_hellman_sha_algo, for every group. *)
DhSends(t) == KexSends("init", t, "reply")
DhNewKeys == KexSends("newkeys", "newkeys", "last")
DiffieHellmanShaAlgo(methods, t) ==
  /\ kex.m.kex \in methods
  /\ \/ DhSends(t) \/ ExchangeReplies(ReplyTo[t], KexHash) \/ DhNewKeys
     \/ ExchangeInstalls(InstallComp(InstallKeys(local)), InstallComp(InstallKeys(remote)))

Group1Sha1 == DiffieHellmanShaAlgo({"group1-sha1"}, "kexdh_init")
Group14 == DiffieHellmanShaAlgo({"group14-sha1", "group14-sha256"}, "kexdh_init")
Group16Sha512 == DiffieHellmanShaAlgo({"group16-sha512"}, "kexdh_init")
Group18Sha512 == DiffieHellmanShaAlgo({"group18-sha512"}, "kexdh_init")

(* The group exchange asks for a group first. *)
GexRequests(method) == kex.m.kex = method /\ KexSends("request", "gex_request", "group")
GexGroups(method) ==
  /\ kex.m.kex = method /\ Exchanging("group") /\ Queued({"gex_group"})
  /\ brigade' = Without({"gex_group"})
  /\ kex' = [kex EXCEPT !.st = "init"]
  /\ UNCHANGED <<session, startup, local, remote, auth, out, adding, wire, srv, call, budget,
                 told, seen>>
GroupExchangeSha1 ==
  \/ GexRequests("gex-sha1") \/ GexGroups("gex-sha1")
  \/ DiffieHellmanShaAlgo({"gex-sha1"}, "gex_init")
GroupExchangeSha256 ==
  \/ GexRequests("gex-sha256") \/ GexGroups("gex-sha256")
  \/ DiffieHellmanShaAlgo({"gex-sha256"}, "gex_init")

(* The elliptic curve methods are written out twice. *)
Ecdh == {"ecdh-nistp256", "ecdh-nistp384", "ecdh-nistp521"}
EcdhExchange == kex.m.kex \in Ecdh /\ KexSends("init", "ecdh_init", "reply")
EcdhReplies == ExchangeReplies("ecdh_reply", EcHash)
EcdhNewKeys == KexSends("newkeys", "newkeys", "last")
EcdhKeys(end) == [end EXCEPT !.n = kex.n]
EcdhComp(end) == ZlibInit(end)
EcdhInstalls == ExchangeInstalls(EcdhComp(EcdhKeys(local)), EcdhComp(EcdhKeys(remote)))
EcdhSha2 == kex.m.kex \in Ecdh /\ (EcdhReplies \/ EcdhNewKeys \/ EcdhInstalls)

CurveExchange == kex.m.kex = "curve25519-sha256" /\ KexSends("init", "ecdh_init", "reply")
CurveReplies == ExchangeReplies("ecdh_reply", EcHash)
CurveNewKeys == KexSends("newkeys", "newkeys", "last")
CurveKeys(end) == [end EXCEPT !.n = kex.n]
CurveComp(end) == ZlibInit(end)
CurveInstalls == ExchangeInstalls(CurveComp(CurveKeys(local)), CurveComp(CurveKeys(remote)))
Curve25519Sha256 ==
  kex.m.kex = "curve25519-sha256" /\ (CurveReplies \/ CurveNewKeys \/ CurveInstalls)

---------------------------------------------------------------------------
(* _libssh2_transport_read and _libssh2_packet_add, for the exchange or for the
   call: a packet at a time, until the one waited for is in the brigade. *)

Reading ==
  /\ InCall /\ adding = None /\ startup \in {"exchange", "service", "done"} /\ wire # <<>>
  /\ IF session.exchanging THEN KexWants # "none" /\ ~Queued({KexWants})
     ELSE call.ph = "reply" /\ ~Queued(call.wants)

Readable(p) ==
  p.seal = Sealed(remote, session.newkeys) /\ ZlibDecomp(remote, session.authed, p)
FirstKexInit(p) == session.initial /\ p.t = "kexinit"
(* The rule of strict key exchange: KEXINIT first, and nothing unasked for until
   the first exchange is over. *)
Violates(p) ==
  /\ session.initial /\ (session.strict \/ (p.t = "kexinit" /\ p.offer.strict))
  /\ IF p.t = "kexinit" THEN remote.seq # 0 ELSE p.t # KexWants

Receives(types) == Reading /\ Readable(Head(wire)) /\ ~Violates(Head(wire)) /\ Head(wire).t \in types
Received ==
  /\ wire' = Tail(wire)
  /\ remote' = Counted(remote, session.strict, Head(wire))

PacketIgnored ==
  /\ Receives({"ignore", "extinfo"})
  /\ Received
  /\ session' = IF Head(wire).t = "extinfo" THEN [session EXCEPT !.sigalgs = Head(wire).algs]
                ELSE session
  /\ UNCHANGED <<startup, local, kex, auth, out, adding, brigade, srv, call, budget, told, seen>>

(* Mutant: the KEXINIT that starts the exchange is not kept for it. *)
RekeyStarts_Drops ==
  /\ Receives({"kexinit"}) /\ ~session.exchanging
  /\ Received
  /\ session' = [session EXCEPT !.exchanging = TRUE]
  /\ kex' = [NoKex EXCEPT !.st = "kexinit", !.n = kex.n + 1]
  /\ UNCHANGED <<startup, local, auth, out, adding, brigade, srv, call, budget, told, seen>>
(* The server wants new keys: the exchange runs inside packet_add. *)
RekeyStarts ==
  /\ Receives({"kexinit"}) /\ ~session.exchanging
  /\ Received
  /\ brigade' = Append(brigade, Head(wire))
  /\ session' = [session EXCEPT !.exchanging = TRUE]
  /\ kex' = [NoKex EXCEPT !.st = "kexinit", !.n = kex.n + 1]
  /\ UNCHANGED <<startup, local, auth, out, adding, srv, call, budget, told, seen>>

PacketQueued ==
  /\ Reading /\ Readable(Head(wire)) /\ ~Violates(Head(wire))
  /\ Head(wire).t \notin {"ignore", "extinfo", "global", "disconnect"}
  /\ Head(wire).t = "kexinit" => session.exchanging
  /\ Received
  /\ brigade' = Append(brigade, Head(wire))
  /\ session' = IF FirstKexInit(Head(wire)) THEN [session EXCEPT !.strict = @ \/ Head(wire).offer.strict]
                ELSE session
  /\ UNCHANGED <<startup, local, kex, auth, out, adding, srv, call, budget, told, seen>>

(* A request of the server is refused by the read it arrives in, or, where that
   blocks, by the next one. *)
PacketGlobal ==
  /\ Receives({"global"})
  /\ Received
  /\ adding' = [buf |-> "failure"]
  /\ UNCHANGED <<session, startup, local, kex, auth, out, brigade, srv, call, budget, told, seen>>

AddingResumes ==
  /\ Direct /\ adding # None /\ call.ph = "reply"
  /\ LET p == Packet("failure", "failure", "", 0) IN
     \/ TransportSend(p) /\ adding' = None /\ UNCHANGED budget
     \/ SendBlocks(p) /\ UNCHANGED adding
  /\ UNCHANGED <<session, startup, remote, kex, auth, brigade, call, told>>

Dies ==
  /\ session' = [session EXCEPT !.st = "dead", !.initial = FALSE, !.exchanging = FALSE]
  /\ call' = NoCall
(* The message of the server, the end of the connection, a packet that cannot be
   read and a breach of the strict rule end the session. *)
Disconnected ==
  /\ \/ /\ Reading
        /\ Head(wire).t = "disconnect" \/ ~Readable(Head(wire)) \/ Violates(Head(wire))
        /\ seen' = [seen EXCEPT !.garbled = @ \/ ~Readable(Head(wire)),
                                !.failed = @ \/ Violates(Head(wire))]
        /\ srv' = [srv EXCEPT !.gone = TRUE]
     \/ InCall /\ srv.gone /\ wire = <<>> /\ UNCHANGED <<srv, seen>>
  /\ Dies
  /\ UNCHANGED <<startup, local, remote, kex, auth, out, adding, brigade, wire, budget, told>>

---------------------------------------------------------------------------
(* The server on its own. *)

ServerStartsExchange ==
  /\ ~srv.gone /\ srv.vc # "" /\ srv.st \in {"idle", "heard"} /\ Spend("rekey")
  /\ \E o \in IF srv.n = 0 THEN FirstOffer ELSE LaterOffer :
       LET s == [srv EXCEPT !.st = IF @ = "heard" THEN "both" ELSE "sent", !.n = @ + 1,
                            !.offer = o, !.strict = IF srv.n = 0 THEN o.strict ELSE @]
           r == Sends(s, "kexinit", [offer |-> o])
       IN
       /\ srv' = [r.s EXCEPT !.gone = s.st = "both" /\ ~Agreeable(o)]
       /\ wire' = wire \o r.sends
  /\ UNCHANGED <<session, startup, local, remote, kex, auth, out, adding, brigade, call, told, seen>>

(* Outside of an exchange the server may send anything, within one only what is
   ignored. *)
MaySend(t) ==
  \/ t = "ignore"
  \/ srv.n > 0 /\ srv.st \in {"idle", "replied"} /\ (t = "global" => srv.authed)
SigAlgs == {"sha2", "ed25519"}
ServerNoise ==
  /\ ~srv.gone /\ srv.vc # "" /\ Spend("noise")
  /\ \E t \in {"ignore", "extinfo", "global", "disconnect"}, algs \in SigAlgs :
       /\ MaySend(t) /\ (t # "extinfo" => algs = "sha2")
       /\ LET r == Sends(srv, t, [algs |-> algs]) IN
          /\ srv' = [r.s EXCEPT !.gone = t = "disconnect"]
          /\ wire' = wire \o r.sends
  /\ seen' = [seen EXCEPT !.rude = @ \/ srv.hash = 0]
  /\ UNCHANGED <<session, startup, local, remote, kex, auth, out, adding, brigade, call, told>>

ServerAnswers(what, t, more) ==
  /\ ~srv.gone /\ srv.st \in {"idle", "replied"} /\ srv.todo # <<>> /\ Head(srv.todo).what = what
  /\ LET r == Sends([srv EXCEPT !.todo = Tail(@)], t, [n |-> Head(srv.todo).n] @@ more) IN
     /\ srv' = [r.s EXCEPT !.authed = @ \/ t = "success"]
     /\ wire' = wire \o r.sends
  /\ UNCHANGED <<session, startup, local, remote, kex, auth, out, adding, brigade, call, told, seen>>

ServerAccepts == ServerAnswers("service", "accept", <<>>) /\ UNCHANGED budget

KeysNext ==
  \/ BannerSet \/ Handshake \/ BannerSends \/ BannerReceives \/ StartupExchanges \/ StartupRequests \/ StartupEnds
  \/ KexInit \/ KexAgrees
  \/ Group1Sha1 \/ Group14 \/ Group16Sha512 \/ Group18Sha512
  \/ GroupExchangeSha1 \/ GroupExchangeSha256 \/ EcdhExchange \/ EcdhSha2
  \/ CurveExchange \/ Curve25519Sha256
  \/ PacketIgnored \/ RekeyStarts \/ PacketQueued \/ PacketGlobal \/ AddingResumes \/ Disconnected
  \/ ServerStartsExchange \/ ServerNoise \/ ServerAccepts
=============================================================================
