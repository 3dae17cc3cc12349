----------------------------- MODULE SshPackets -----------------------------
(* The binary packets of the transport (transport.c) under the ciphers (crypt.c)
   and the MACs (mac.c): how _libssh2_transport_send lays a packet out, and how
   _libssh2_transport_read finds the packets again in a stream of bytes the
   socket hands over in pieces of any size.

   What a byte is does not matter, only where it lies: the stream is the
   sequence of the server's packets, a position is a number of bytes since its
   beginning, and reading the length field anywhere but at the beginning of a
   packet gives nonsense.  A call of the reader ends with a packet, an error, or
   EAGAIN, which leaves the state as it is for the next call: a step is one round
   of the loop.  The server keeps to RFC 4253 and to the rules of its ciphers,
   and changes to them after its NEWKEYS.  What the packets say is SshKeys. *)
EXTENDS Integers, Sequences, SequencesExt

CONSTANTS
  Suites,     \* what may be agreed: [local, remote |-> [crypt, mac]]
  Plans,      \* what the server will send: [payload, extra, newkeys], in order,
              \* extra being blocks of padding more than needed
  Payloads,   \* the sizes of the client's messages
  Chunks,     \* how many bytes the socket hands over, if not all it can
  BufSize,    \* PACKETBUFSIZE
  MaxPayload, \* LIBSSH2_PACKET_MAXPAYLOAD
  MaxSends    \* bound of the exploration

VARIABLES
  suite,     \* session->local and session->remote
  newkeys,   \* LIBSSH2_STATE_NEWKEYS
  stream,    \* the packets the server sends, those to come included
  received,  \* bytes taken from the socket: where p->writeidx is in the stream
  p,         \* session->packet: the packet being read, at being p->readidx
  delivered, \* what was handed to packet_add
  pending,   \* the packet of which a part is sent, or Nothing
  frames,    \* the packets the client has built
  written    \* bytes the socket has taken

vars == <<suite, newkeys, stream, received, p, delivered, pending, frames, written>>

Nothing == [total |-> 0, sent |-> 0]
Least(a, b) == IF a < b THEN a ELSE b

(* The ciphers, by what the transport asks of them: the size of a block, that of
   the tag, and how the length field and the tag are treated. *)
AesMethods ==
  [gcm |-> [block |-> 16, auth |-> 16, flags |-> {"integrated", "aad"}],
   ctr |-> [block |-> 16, auth |-> 0, flags |-> {}]]
OldMethods == [cbc |-> [block |-> 8, auth |-> 0, flags |-> {}]]
ChachaMethod == [chacha |-> [block |-> 8, auth |-> 16, flags |-> {"full"}]]
Crypt(d) ==
  IF d.crypt \in DOMAIN AesMethods THEN AesMethods[d.crypt]
  ELSE IF d.crypt \in DOMAIN OldMethods THEN OldMethods[d.crypt]
  ELSE ChachaMethod[d.crypt]

(* The MACs: sha2 and sha1, which may authenticate the encrypted packet, and the
   short ones of md5 and sha1; a cipher with a MAC of its own overrides them. *)
Sha2Macs == [sha2 |-> [len |-> 32, etm |-> FALSE], sha2etm |-> [len |-> 32, etm |-> TRUE]]
Sha1Macs == [sha1 |-> [len |-> 20, etm |-> FALSE], sha1etm |-> [len |-> 20, etm |-> TRUE]]
ShortMacs == [short |-> [len |-> 12, etm |-> FALSE]]
NoMac == [len |-> 0, etm |-> FALSE]
MacOverride(d) == d.crypt = "gcm"
Mac(d) ==
  IF MacOverride(d) THEN [len |-> 16, etm |-> FALSE]
  ELSE IF d.mac \in DOMAIN Sha2Macs THEN Sha2Macs[d.mac]
  ELSE IF d.mac \in DOMAIN Sha1Macs THEN Sha1Macs[d.mac]
  ELSE IF d.mac \in DOMAIN ShortMacs THEN ShortMacs[d.mac]
  ELSE NoMac

(* What an exchange of keys agrees on is known to crypt.c and mac.c. *)
Directions ==
  [crypt : {"gcm", "ctr", "cbc", "chacha"}, mac : {"sha2", "sha2etm", "sha1", "sha1etm", "short"}]
SuitesAssumption == Suites \subseteq [local : Directions, remote : Directions]
PayloadsAssumption == Payloads \subseteq Nat
PlansAssumption == Plans \subseteq Seq([payload : Nat, extra : Nat, newkeys : BOOLEAN])
(* A packet that the buffer holds is not too long for the check of its length. *)
BufferAssumption == BufSize \in Nat \ {0} /\ MaxPayload \in Nat /\ BufSize <= MaxPayload

FlagL(flag) == flag \in Crypt(suite.local).flags
FlagR(flag) == flag \in Crypt(suite.remote).flags

Reader(at) ==
  [at |-> at, total |-> 0, data |-> 0, len |-> 0, dec |-> 0, st |-> "ok"]

---------------------------------------------------------------------------
(* A packet as the receiver expects it: the length, the padding and the payload
   fill whole blocks, without the length where it is not encrypted with them,
   there are four bytes of padding at least, and the tag follows. *)

Padding(enc, d) == IF enc THEN Crypt(d).block ELSE 8
LengthApart(enc, d) == enc /\ (Crypt(d).flags # {} \/ Mac(d).etm)
Tag(enc, d) == IF ~enc THEN 0 ELSE IF "full" \in Crypt(d).flags THEN Crypt(d).auth ELSE Mac(d).len

WellFormed(f, d) ==
  /\ f.pad >= 4 /\ f.pad <= 255
  /\ ((IF LengthApart(f.enc, d) THEN 0 ELSE 4) + 1 + f.payload + f.pad) % Padding(f.enc, d) = 0
  /\ f.total = 4 + 1 + f.payload + f.pad + Tag(f.enc, d)

EndOf(s) == IF s = <<>> THEN 0 ELSE Last(s).start + Last(s).total

ServerFrame(s, m) ==
  LET enc == \E i \in DOMAIN s : s[i].newkeys
      b == Padding(enc, suite.remote)
      filled == (IF LengthApart(enc, suite.remote) THEN 0 ELSE 4) + 1 + m.payload + 4
      pad == 4 + ((b - (filled % b)) % b) + m.extra * b
  IN [payload |-> m.payload, pad |-> pad, enc |-> enc, newkeys |-> m.newkeys,
      start |-> EndOf(s), total |-> 4 + 1 + m.payload + pad + Tag(enc, suite.remote)]

Sending(plan) ==
  FoldLeft(LAMBDA s, m : Append(s, ServerFrame(s, m)), <<>>, plan)

Init ==
  /\ suite \in Suites /\ newkeys = FALSE
  /\ \E plan \in Plans : stream = Sending(plan)
  /\ delivered = <<>>
  /\ received = 0 /\ p = Reader(0)
  /\ pending = Nothing /\ frames = <<>> /\ written = 0

---------------------------------------------------------------------------
(* _libssh2_transport_read.  Bytes are taken from the socket when fewer than a
   block are buffered, or than the packet where the cipher needs it whole. *)

Full == FlagR("full")
BlockSize == IF newkeys THEN Crypt(suite.remote).block ELSE 5
RemoteMac == IF newkeys /\ ~Full THEN Mac(suite.remote) ELSE NoMac
Etm == newkeys /\ RemoteMac.etm

Needs ==
  \/ received - p.at < BlockSize
  \/ Full /\ p.total > received - p.at

(* The length field at the position of the reader. *)
Length(r) ==
  IF \E i \in DOMAIN stream : stream[i].start = r.at
  THEN LET f == stream[CHOOSE i \in DOMAIN stream : stream[i].start = r.at]
       IN 1 + f.payload + f.pad
  ELSE 0

(* The bytes that follow the first five, or all where the length is read alone. *)
TotalNum(len) ==
  CASE newkeys /\ Full -> 4 + len + Crypt(suite.remote).auth
    [] Etm -> 4 + len + RemoteMac.len
    [] OTHER -> len - 1 + RemoteMac.len

(* The first block is decrypted for the length, except where the length is not
   encrypted with it. *)
Opened(r) ==
  LET len == Length(r)
      whole == (newkeys /\ Full) \/ Etm
      total == TotalNum(len)
  IN
  IF len < 1 \/ total > MaxPayload THEN [r EXCEPT !.st = "error"]
  ELSE [r EXCEPT !.len = len, !.total = total,
          !.at = IF whole THEN @ ELSE @ + BlockSize,
          !.data = IF whole THEN 0 ELSE BlockSize - 5,
          !.dec = IF newkeys /\ ~whole THEN BlockSize ELSE 0]

(* How many of n bytes are decrypted: all but the MAC, by whole blocks, and with
   an integrated MAC in such a way that the last call has all of it. *)
Skip == IF FlagR("integrated") THEN 0 ELSE RemoteMac.len
LastOfPacket(r, n) == r.data + n >= r.total - Skip
(* Mutant: the MAC is decrypted with the packet. *)
NumDecrypt_WithMac(r, n) == IF LastOfPacket(r, n) THEN r.total - r.data ELSE n - (n % BlockSize)
NumDecrypt(r, n) ==
  LET rest == r.total - Skip - r.data IN
  IF LastOfPacket(r, n) THEN IF rest > 0 THEN rest ELSE 0
  ELSE IF FlagR("integrated") THEN Least(n - (n % BlockSize), rest - BlockSize)
  ELSE n - (n % BlockSize)

(* decrypt() calls the cipher for a block at a time, and with a cipher that leaves
   the length out, a shorter rest goes with the block before it.  It asks the
   cipher of the other direction which one it is. *)
LastCall(n) ==
  IF ~FlagL("aad") THEN (IF n % BlockSize = 0 THEN BlockSize ELSE n % BlockSize)
  ELSE IF n < 2 * BlockSize THEN n ELSE BlockSize + (n % BlockSize)
(* What the cipher is called with fits its buffer and has all of the tag. *)
TagWhole(size) == size \in 16..32
Decrypts(n, last) ==
  /\ FlagL("aad") \/ n % BlockSize = 0
  /\ FlagR("aad") /\ last => TagWhole(LastCall(n))

(* A round of the loop that has n bytes of this packet to work on. *)
Taken(r, n) ==
  CASE newkeys /\ Full ->
         IF n < r.total THEN r
         ELSE [r EXCEPT !.at = @ + n, !.data = n, !.dec = r.len]
    [] newkeys /\ ~Full /\ ~Etm ->
         LET d == NumDecrypt(r, n)
             moved == IF LastOfPacket(r, n) THEN n ELSE d
         IN IF d < 0 \/ ~Decrypts(d, LastOfPacket(r, n)) THEN [r EXCEPT !.st = "error"]
            ELSE [r EXCEPT !.at = @ + moved, !.data = @ + moved, !.dec = @ + d]
    [] OTHER -> [r EXCEPT !.at = @ + n, !.data = @ + n]

(* fullpacket(): the padding is known by now, and the tag was compared. *)
FullPacket(r) ==
  LET f == stream[Len(delivered) + 1]
      authentic == ~newkeys \/ Etm \/ r.dec = r.len + (IF Full THEN 0 ELSE 4 + (IF FlagR("integrated") THEN 16 ELSE 0))
  IN IF authentic THEN [payload |-> r.len - 1 - f.pad, newkeys |-> f.newkeys]
     ELSE [payload |-> 0, newkeys |-> FALSE]

Finished(r) ==
  /\ delivered' = Append(delivered, FullPacket(r))
  /\ newkeys' = (newkeys \/ stream[Len(delivered) + 1].newkeys)
  /\ p' = Reader(r.at)

(* A round with the bytes up to the position end in the buffer. *)
Round(end) ==
  LET opened == IF p.total # 0 \/ end - p.at < (IF Etm THEN 4 ELSE BlockSize) THEN p ELSE Opened(p)
  IN IF opened.total = 0 \/ opened.st = "error" THEN opened
     ELSE Taken(opened, Least(end - opened.at, opened.total - opened.data))

Amounts ==
  LET most == Least(EndOf(stream) - received, BufSize - (received - p.at)) IN
  IF ~Needs THEN {0} ELSE {n \in Chunks \cup {most} : n \in 1..most}
Reads(n) ==
  /\ received' = received + n
  /\ p.st = "ok" /\ n \in Amounts
  /\ LET r == Round(received + n) IN
     IF r.st = "ok" /\ r.total > 0 /\ r.data = r.total
     THEN Finished(r)
     ELSE p' = r /\ UNCHANGED <<delivered, newkeys>>
  /\ UNCHANGED <<suite, stream, pending, frames, written>>

(* A buffer that is full and still lacks a part of the packet: nothing can be
   received, which is taken for the end of the connection. *)
ReadFails ==
  /\ p.st = "ok" /\ Needs /\ received - p.at = BufSize
  /\ p' = [p EXCEPT !.st = "error"]
  /\ UNCHANGED <<suite, newkeys, stream, received, delivered, pending, frames, written>>

---------------------------------------------------------------------------
(* _libssh2_transport_send, which asks the cipher of the other direction how its
   own packet is laid out. *)

AuthLen == IF newkeys /\ FlagR("full") THEN Crypt(suite.local).auth ELSE 0
LocalMac == IF newkeys /\ FlagR("full") THEN NoMac ELSE Mac(suite.local)
CryptOffset == IF newkeys /\ (LocalMac.etm \/ AuthLen > 0 \/ FlagR("aad")) THEN 4 ELSE 0

(* Mutant: padding that fills the block exactly is taken as it is. *)
PaddingLength_Short(payload) ==
  LET b == IF newkeys THEN Crypt(suite.local).block ELSE 8
  IN b - ((payload + 5 - CryptOffset) % b)
PaddingLength(payload) ==
  LET b == IF newkeys THEN Crypt(suite.local).block ELSE 8
      least == b - ((payload + 5 - CryptOffset) % b)
  IN IF least < 4 THEN least + b ELSE least

Packs(payload) ==
  [payload |-> payload, pad |-> PaddingLength(payload), enc |-> newkeys, start |-> EndOf(frames),
   total |-> payload + 5 + PaddingLength(payload) + (IF newkeys THEN LocalMac.len ELSE 0) + AuthLen]

(* The socket takes the whole packet, a part of it, or nothing. *)
Sends ==
  /\ pending = Nothing /\ Len(frames) < MaxSends
  /\ \E payload \in Payloads :
       LET f == Packs(payload) IN
       /\ frames' = Append(frames, f)
       /\ \/ written' = written + f.total /\ UNCHANGED pending
          \/ \E n \in {0, f.total \div 2, f.total - 1} :
               /\ pending' = [total |-> f.total, sent |-> n]
               /\ written' = written + n
  /\ UNCHANGED <<suite, newkeys, stream, received, p, delivered>>

SendExisting ==
  /\ pending # Nothing
  /\ \E n \in {1 + (pending.total - pending.sent) \div 2, pending.total - pending.sent} :
       /\ written' = written + n
       /\ pending' = IF n = pending.total - pending.sent THEN Nothing
                     ELSE [pending EXCEPT !.sent = @ + n]
  /\ UNCHANGED <<suite, newkeys, stream, received, p, delivered, frames>>

Next ==
  \/ \E n \in Amounts : Reads(n)
  \/ ReadFails \/ Sends \/ SendExisting

Spec == Init /\ [][Next]_vars

---------------------------------------------------------------------------
TypeOK ==
  /\ p.st \in {"ok", "error"} /\ newkeys \in BOOLEAN
  /\ p.at \in Nat /\ received \in Nat /\ p.total \in Nat /\ p.data \in Nat
  /\ pending = Nothing \/ pending.sent \in 0..(pending.total - 1)

(* What is buffered has been received and fits, and no more is collected of a
   packet than it has; the bytes of each packet sent go to the socket once, those
   of an interrupted one before those of the next. *)
Buffered ==
  /\ p.at <= received /\ received - p.at <= BufSize /\ received <= EndOf(stream)
  /\ p.data <= p.total
EveryByteOnce == written + (pending.total - pending.sent) = EndOf(frames)
Inv == TypeOK /\ Buffered /\ EveryByteOnce

(* Both directions have ciphers that lay packets out alike: the code asks the
   cipher of one direction for the layout of the other. *)
Alike ==
  /\ "full" \in Crypt(suite.local).flags <=> "full" \in Crypt(suite.remote).flags
  /\ "aad" \in Crypt(suite.local).flags <=> "aad" \in Crypt(suite.remote).flags
(* Where the cipher needs the whole packet, the buffer must hold it. *)
Fits == \A i \in DOMAIN stream : stream[i].total <= BufSize

(* However the bytes are cut into pieces, and across the change of keys, the
   packets delivered are those of the server, in order, with their payloads, and
   no packet of an orderly server is an error. *)
PacketsInOrder ==
  /\ Len(delivered) <= Len(stream)
  /\ \A i \in DOMAIN delivered : Alike =>
       delivered[i] = [payload |-> stream[i].payload, newkeys |-> stream[i].newkeys]
  /\ p.st = "error" => ~(Alike /\ Fits)

(* The reader asks the socket for more only while the packet it is at is not in
   its buffer, and does not go round without more when it is stuck: a caller that
   waits for the socket waits for nothing it has. *)
NoStall ==
  p.st = "ok" /\ Len(delivered) < Len(stream) =>
    IF Needs
    THEN received < stream[Len(delivered) + 1].start + stream[Len(delivered) + 1].total
    ELSE Round(received) # p

(* What the client sends is laid out as the cipher and the MAC of its direction
   ask for. *)
SentIsWellFormed ==
  \A i \in DOMAIN frames : Alike => WellFormed(frames[i], suite.local)

(* The packets come through: what is buffered and written is accounted for, the
   packets delivered are those sent, and the reader never waits for what it has. *)
PacketsComeThrough == Inv /\ PacketsInOrder /\ NoStall
=============================================================================
