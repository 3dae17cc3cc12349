-------------------------- MODULE SshChannels_proofs --------------------------
(* Proofs about SshChannels.  Whatever the application calls, leaves off and comes back
   to, whatever part of a packet the socket takes and whatever the server answers and
   opens: the channels and the server agree on what is open (ChannelsLinked,
   NoChannelStrays), a call gets the reply to its own request (OwnAnswersCorrect), and a
   request is made once and answered (AskedOnceCorrect).

   The invariant, ChannelsOk, is in parts.  Base is the types and what the structures are
   to each other; every action keeps it by itself.  The other parts are about what is on
   its way, and there most actions are alike: StepIs says once and for all which kinds of
   step there are, and each part is shown of the kinds.  The numbers of the opens come
   first (NumbersOk), for by them a channel, an open, a message and what the server has
   open are told apart; then the closes (ClosesOk) and what is open (StrayOk); then, for
   each kind of request, whose the questions at the server and the replies read are, and
   how many (OwnOpensOk, ListenOk, RequestsOk). *)
EXTENDS SshChannels, CommonLemmas

-----------------------------------------------------------------------------
(* Elements of sequences, and how many of them are in a set. *)

(* Where the elements of a sequence lie that are in a set, and how many they are. *)
Places(s, S) == {i \in DOMAIN s : s[i] \in S}
Count(s, S) == Cardinality(Places(s, S))

(* What is left when one element is taken out. *)
TakenOut(r, T, s, i) ==
  /\ r \in Seq(T)
  /\ Len(s) \in Nat \ {0} /\ Len(r) = Len(s) - 1
  /\ \A j \in 1..(Len(s) - 1) : r[j] = s[IF j < i THEN j ELSE j + 1]

(* A sequence without one of its elements. *)
LEMMA Removed ==
  ASSUME NEW T, NEW s \in Seq(T), NEW i \in 1..Len(s), NEW r, r = RemoveAt(s, i)
  PROVE  TakenOut(r, T, s, i)
<1> DEFINE a == SubSeq(s, 1, i - 1)
           b == SubSeq(s, i + 1, Len(s))
<1>1. Len(s) \in Nat /\ i \in Nat /\ i >= 1 /\ i <= Len(s)
  OBVIOUS
<1>2. a \in Seq(T) /\ Len(a) = i - 1 /\ \A j \in 1..(i - 1) : a[j] = s[j]
  BY <1>1
<1>3. b \in Seq(T) /\ Len(b) = Len(s) - i /\ \A j \in 1..(Len(s) - i) : b[j] = s[i + j]
  BY <1>1
<1>4. r = a \o b
  BY DEF RemoveAt
<1> HIDE DEF a, b
<1>5. r \in Seq(T) /\ Len(r) = Len(s) - 1
  BY <1>1, <1>2, <1>3, <1>4
<1>6. ASSUME NEW j \in 1..(Len(s) - 1)
      PROVE  r[j] = s[IF j < i THEN j ELSE j + 1]
  <2>1. CASE j < i
    BY <1>1, <1>2, <1>3, <1>4, <2>1
  <2>2. CASE j >= i
    <3>1. r[j] = b[j - (i - 1)] /\ j - (i - 1) \in 1..(Len(s) - i)
      BY <1>1, <1>2, <1>3, <1>4, <2>2
    <3>2. b[j - (i - 1)] = s[i + (j - (i - 1))]
      BY <1>3, <3>1
    <3>3. i + (j - (i - 1)) = j + 1
      BY <1>1
    <3> QED BY <2>2, <3>1, <3>2, <3>3, <1>1
  <2> QED BY <1>1, <2>1, <2>2
<1> QED BY <1>1, <1>5, <1>6 DEF TakenOut

(* The elements that are left. *)
LEMMA RemovedElements ==
  ASSUME NEW T, NEW s \in Seq(T), NEW i \in DOMAIN s, NEW r, r = RemoveAt(s, i)
  PROVE  /\ r \in Seq(T) /\ s[i] \in T
         /\ ToSet(r) \subseteq ToSet(s) /\ s[i] \in ToSet(s)
         /\ ToSet(s) \subseteq ToSet(r) \cup {s[i]}
<1>1. i \in 1..Len(s) /\ DOMAIN s = 1..Len(s)
  OBVIOUS
<1>2. /\ r \in Seq(T)
      /\ Len(s) \in Nat \ {0} /\ Len(r) = Len(s) - 1
      /\ \A j \in 1..(Len(s) - 1) : r[j] = s[IF j < i THEN j ELSE j + 1]
  <2>1. TakenOut(r, T, s, i)
    BY <1>1, Removed, Zenon
  <2> QED BY <2>1 DEF TakenOut
<1>3. DOMAIN r = 1..(Len(s) - 1)
  BY <1>2
<1>4. ToSet(r) \subseteq ToSet(s)
  BY <1>1, <1>2, <1>3 DEF ToSet
<1>5. ASSUME NEW k \in 1..Len(s), k # i
      PROVE  s[k] \in ToSet(r)
  <2>1. CASE k < i
    <3>1. k \in 1..(Len(s) - 1) /\ r[k] = s[k]
      BY <1>1, <1>2, <2>1
    <3> QED BY <3>1, <1>3 DEF ToSet
  <2>2. CASE k > i
    <3>1. k - 1 \in 1..(Len(s) - 1) /\ r[k - 1] = s[k]
      BY <1>1, <1>2, <2>2
    <3> QED BY <3>1, <1>3 DEF ToSet
  <2> QED BY <1>1, <1>5, <2>1, <2>2
<1>6. s[i] \in T
  BY <1>1
<1>7. s[i] \in ToSet(s)
  BY DEF ToSet
<1>8. ASSUME NEW k \in DOMAIN s
      PROVE  s[k] \in ToSet(r) \cup {s[i]}
  BY <1>1, <1>5
<1>9. ToSet(s) \subseteq ToSet(r) \cup {s[i]}
  BY <1>8 DEF ToSet
<1> QED BY <1>2, <1>4, <1>6, <1>7, <1>9

(* The number of elements in a set: none if no element is, one more with one more,
   one less with one less. *)
LEMMA CountNat ==
  ASSUME NEW T, NEW s \in Seq(T), NEW S
  PROVE  Count(s, S) \in Nat /\ IsFiniteSet(Places(s, S))
<1>1. IsFiniteSet(1..Len(s))
  BY FS_Interval
<1>2. Places(s, S) \in SUBSET (1..Len(s))
  BY DEF Places
<1> QED BY <1>1, <1>2, FS_Subset, FS_CardinalityType DEF Count

(* No element counts if none is in the set. *)
LEMMA CountNone ==
  ASSUME NEW T, NEW s \in Seq(T), NEW S
  PROVE  Count(s, S) = 0 <=> \A q \in ToSet(s) : q \notin S
<1>1. Places(s, S) = {} <=> \A q \in ToSet(s) : q \notin S
  BY DEF Places, ToSet
<1>2. Count(s, S) = 0 <=> Places(s, S) = {}
  BY CountNat, FS_EmptySet DEF Count
<1> QED BY <1>1, <1>2

Added(r, T, s, S, x) ==
  /\ x \in S => Count(r, S) = Count(s, S) + 1
  /\ x \notin S => Count(r, S) = Count(s, S)
  /\ ToSet(r) = ToSet(s) \cup {x} /\ r \in Seq(T)

(* One more. *)
LEMMA CountAppend ==
  ASSUME NEW T, NEW s \in Seq(T), NEW S, NEW x \in T, NEW r, r = Append(s, x)
  PROVE  Added(r, T, s, S, x)
<1>1. /\ r \in Seq(T) /\ Len(s) \in Nat /\ DOMAIN r = 1..(Len(s) + 1) /\ DOMAIN s = 1..Len(s)
      /\ r[Len(s) + 1] = x /\ \A i \in 1..Len(s) : r[i] = s[i]
  OBVIOUS
<1>2. Places(r, S) = IF x \in S THEN Places(s, S) \cup {Len(s) + 1} ELSE Places(s, S)
  BY <1>1 DEF Places
<1>3. Len(s) + 1 \notin Places(s, S)
  BY <1>1 DEF Places
<1>4. ToSet(r) = ToSet(s) \cup {x}
  BY <1>1 DEF ToSet
<1>5. IsFiniteSet(Places(s, S)) /\ Cardinality(Places(s, S)) \in Nat
  BY CountNat DEF Count
<1>6. Cardinality(Places(s, S) \cup {Len(s) + 1}) = Cardinality(Places(s, S)) + 1
  BY <1>3, <1>5, FS_AddElement
<1> QED BY <1>1, <1>2, <1>4, <1>5, <1>6 DEF Count, Added

(* One less. *)
LEMMA CountRemove ==
  ASSUME NEW T, NEW s \in Seq(T), NEW S, NEW i \in DOMAIN s, NEW r, r = RemoveAt(s, i)
  PROVE  /\ s[i] \in S => Count(r, S) = Count(s, S) - 1
         /\ s[i] \notin S => Count(r, S) = Count(s, S)
<1>1. i \in 1..Len(s) /\ DOMAIN s = 1..Len(s)
  OBVIOUS
<1>2. /\ r \in Seq(T)
      /\ Len(s) \in Nat \ {0} /\ Len(r) = Len(s) - 1
      /\ \A j \in 1..(Len(s) - 1) : r[j] = s[IF j < i THEN j ELSE j + 1]
  <2>1. TakenOut(r, T, s, i)
    BY <1>1, Removed, Zenon
  <2> QED BY <2>1 DEF TakenOut
<1>3. DOMAIN r = 1..(Len(s) - 1)
  BY <1>2
<1> DEFINE A == Places(r, S)
           B == Places(s, S) \ {i}
           f == [j \in A |-> IF j < i THEN j ELSE j + 1]
<1>4. f \in [A -> B]
  BY <1>1, <1>2, <1>3 DEF Places
<1>5. ASSUME NEW j \in A, NEW k \in A, f[j] = f[k]
      PROVE  j = k
  BY <1>1, <1>2, <1>3, <1>5 DEF Places
<1>6. ASSUME NEW k \in B
      PROVE  \E j \in A : f[j] = k
  <2>1. k \in 1..Len(s) /\ k # i /\ s[k] \in S
    BY <1>1 DEF Places
  <2>2. CASE k < i
    <3>1. k \in A
      BY <1>1, <1>2, <1>3, <2>1, <2>2 DEF Places
    <3> QED BY <3>1, <2>2
  <2>3. CASE k > i
    <3>1. k - 1 \in A /\ ~(k - 1 < i) /\ (k - 1) + 1 = k
      BY <1>1, <1>2, <1>3, <2>1, <2>3 DEF Places
    <3>2. f[k - 1] = k
      BY <3>1
    <3> QED BY <3>1, <3>2
  <2> QED BY <1>1, <2>1, <2>2, <2>3
<1>7. f \in Bijection(A, B)
  BY <1>4, <1>5, <1>6 DEF Bijection, Injection, Surjection, IsInjective
<1>8. IsFiniteSet(A) /\ IsFiniteSet(Places(s, S))
  BY <1>2, CountNat
<1>9. Cardinality(B) = Cardinality(A)
  <2> HIDE DEF A, B, f
  <2> QED BY <1>7, <1>8, FS_Bijection DEF ExistsBijection
<1>10. Cardinality(B) = IF i \in Places(s, S) THEN Cardinality(Places(s, S)) - 1 ELSE Cardinality(Places(s, S))
  BY <1>8, FS_RemoveElement
<1>11. i \in Places(s, S) <=> s[i] \in S
  BY DEF Places
<1>12. Cardinality(Places(s, S)) \in Nat
  BY CountNat DEF Count
<1> QED BY <1>9, <1>10, <1>11, <1>12 DEF Count

(* A smaller set counts no more. *)
LEMMA CountSmaller ==
  ASSUME NEW T, NEW s \in Seq(T), NEW S, NEW R, \A q \in ToSet(s) : q \in R => q \in S
  PROVE  Count(s, R) <= Count(s, S)
<1>1. Places(s, R) \in SUBSET Places(s, S)
  BY DEF Places, ToSet
<1> QED BY <1>1, CountNat, FS_Subset DEF Count

-----------------------------------------------------------------------------
(* The types, and what the structures are to each other. *)

(* The types. *)
Ops == Opens \cup Kinds \cup {"listen", "accept", "free", "cancel", "none"}
Phases == {"idle", "send", "reply", "fail", "close", "closed", "done"}
Whats == Kinds \cup {"open", "close", "listen", "keepalive", "signal", "size", "cancel",
                     "confirm", "refuse"}
Tags == {"confirm", "refuse", "success", "failure", "rsuccess", "rfailure"}

RequestType == [st : {"idle", "created", "sent", "end"}, n : Nat]
ChannelType ==
  [remote : Nat, place : {"session", "queue"}, req : [Kinds -> RequestType], tries : Nat,
   rclose : BOOLEAN, closing : {"idle", "sent"}]
OpeningType ==
  [st : {"idle", "created", "sent"}, type : Opens \cup {"none"}, n : Nat, id : Nat]
ListenType == [st : {"idle", "created", "sent"}, n : Nat]
ListenerType == [st : {"none", "open", "cancelled"}, max : Nat, queue : Seq(Nat)]
ReplyType == [t : Tags, id : Nat, n : Nat, to : Nat]
QuestionType == [kind : {"open", "close", "global", "request"}, id : Nat, n : Nat, to : Nat]
BufName(what) == IF what = "size" THEN "pty" ELSE what
WirePackets ==
  {q \in [buf : Whats \X Nat, what : Whats, id : Nat, n : Nat, to : Nat] :
     q.buf = <<BufName(q.what), q.id>>}
AddingType == [p : WirePackets, type : {"forwarded", "agent", "refused"}]
PeerType ==
  [open : SUBSET Nat, forward : BOOLEAN, started : SUBSET Nat, twice : BOOLEAN, conns : Nat]
CallType == [op : Ops, ph : Phases, id : Nat, n : Nat, left : Nat]
SeenType ==
  [given : SUBSET Nat, lost : SUBSET Nat, sized : SUBSET Nat, kept : BOOLEAN, stale : BOOLEAN]

(* The types of the state. *)
Types ==
  /\ next \in Nat \ {0} /\ calls \in 0..MaxCalls
  /\ DOMAIN chans \subseteq 1..(next - 1) /\ chans \in [DOMAIN chans -> ChannelType]
  /\ opening \in OpeningType /\ direct \in Nat
  /\ listen \in ListenType /\ listener \in ListenerType
  /\ brigade \in Seq(ReplyType) /\ server \in Seq(QuestionType)
  /\ adding = Nothing \/ adding \in AddingType
  /\ out = None \/ out \in WirePackets
  /\ peer \in PeerType
  /\ call \in CallType
  /\ seen \in SeenType

(* A channel that has been told to close. *)
ToldToClose(id) == id \in DOMAIN chans /\ chans[id].closing = "sent"

(* What an operation in progress works on is there. *)
Callers ==
  /\ call.op = "none" => call = NoCall
  /\ call.op \in Opens =>
       /\ call.ph \in {"send", "reply", "fail"} /\ call.id = opening.id
       /\ opening.st = IF call.ph = "send" THEN "created" ELSE "sent"
  /\ call.op \in Kinds =>
       /\ call.ph \in {"send", "reply", "fail"} /\ call.id \in Mine
       /\ chans[call.id].req[call.op].st = IF call.ph = "send" THEN "created" ELSE "sent"
  /\ call.op = "listen" =>
       /\ call.ph \in {"send", "reply", "fail"} /\ call.id = 0 /\ listener.st = "none"
       /\ listen.st = IF call.ph = "send" THEN "created" ELSE "sent"
  /\ call.op = "accept" => call.ph = "reply" /\ call.id = 0 /\ listener.st = "open"
  /\ call.op = "free" => call.ph \in {"close", "reply", "closed"} /\ call.id \in Mine
  /\ call.op = "cancel" =>
       /\ call.ph \in {"send", "close", "reply", "closed", "done"} /\ listener.st # "none"
       /\ call.ph # "send" => listener.st = "cancelled"
       /\ call.ph \in {"close", "reply", "closed"} =>
            listener.queue # <<>> /\ call.id = Head(listener.queue) /\ call.left < Len(listener.queue)
  /\ call.op \in {"free", "cancel"} /\ call.ph \in {"reply", "closed"} => ToldToClose(call.id)

(* The open in progress has a channel, without a number yet. *)
OpeningOk ==
  /\ opening.st = "idle" => opening = NotOpening
  /\ opening.st # "idle" =>
       /\ opening.id \in DOMAIN chans
       /\ chans[opening.id].remote = 0 /\ chans[opening.id].place = "session"

(* The listener's queue holds the channels that wait in it, each once, within its limit. *)
QueueOk ==
  /\ listener.st = "none" => listener = NoListener
  /\ listener.max > 0 => Len(listener.queue) <= listener.max
  /\ ToSet(listener.queue) = {id \in DOMAIN chans : chans[id].place = "queue"}
  /\ IsInjective(listener.queue)

(* An open of the server that is being answered has its number, and the packet the
   transport has a part of, if it is such an answer, is that answer. *)
AddingOk ==
  /\ adding # Nothing => adding.p.what \in {"confirm", "refuse"}
  /\ adding # Nothing /\ adding.p.what = "confirm" =>
       adding.p.id \in 1..(next - 1) /\ adding.p.id \notin DOMAIN chans
  /\ out # None /\ out.what \in {"confirm", "refuse"} => adding # Nothing /\ out = adding.p

(* All of that. *)
Base == Types /\ Callers /\ OpeningOk /\ QueueOk /\ AddingOk

(* Every request is of a kind the code names. *)
LEMMA Names ==
  /\ {"env", "pty", "agent", "startup"} \subseteq Kinds
  /\ "pty" \in Kinds /\ "startup" \in Kinds /\ "agent" \in Kinds
  /\ \A k \in Kinds : k \notin OtherNames
BY KindsAssumption

(* A packet as a call builds it. *)
LEMMA PacketTyped ==
  ASSUME NEW what \in Whats, NEW id \in Nat, NEW n \in Nat
  PROVE  /\ Packet(what, id, n) \in WirePackets
         /\ Packet(what, id, n).what = what /\ Packet(what, id, n).id = id
         /\ Packet(what, id, n).n = n /\ Packet(what, id, n).to = 0
         /\ Packet(what, id, n).buf = <<BufName(what), id>>
<1>1. BufName(what) \in Whats
  BY Names DEF BufName, Whats
<1> QED BY <1>1 DEF Packet, WirePackets, BufName

(* What the transport sends for a call: its packet, or the rest of the one it has a
   part of, which is of the same kind and channel, a size being sent in the place of a
   terminal request or the other way round. *)
Questioned == Kinds \cup {"open", "close", "listen", "keepalive"}
Question(w) ==
  [kind |-> IF w.what \in {"open", "close"} THEN w.what
            ELSE IF w.what \in {"listen", "keepalive"} THEN "global" ELSE "request",
   id |-> w.id, n |-> w.n, to |-> w.to]
Wire(w, q) ==
  /\ w \in WirePackets
  /\ w = q \/ (out # None /\ w = out)
  /\ w.id = q.id
  /\ w.what = q.what \/ {w.what, q.what} \subseteq {"pty", "size"}
Reaches(w) ==
  /\ out' = None
  /\ server' = IF w.what \in Questioned THEN Append(server, Question(w)) ELSE server
  /\ peer' = CASE w.what = "cancel" -> [peer EXCEPT !.forward = FALSE]
               [] w.what = "confirm" -> [peer EXCEPT !.open = @ \cup {w.n}]
               [] w.what = "startup" -> [peer EXCEPT !.started = @ \cup {w.id},
                                           !.twice = @ \/ w.id \in peer.started]
               [] OTHER -> peer

(* The transport sends the call's packet or what it has a part of. *)
LEMMA WireIs ==
  ASSUME Types, NEW q \in WirePackets, CanSend(q)
  PROVE  Wire(OnWire(q), q)
<1>1. CASE out = None
  BY <1>1 DEF OnWire, Wire
<1>2. CASE out # None
  <2>1. out \in WirePackets /\ out.buf = q.buf
    BY <1>2 DEF Types, CanSend
  <2>2. <<BufName(out.what), out.id>> = <<BufName(q.what), q.id>>
    BY <2>1 DEF WirePackets
  <2>3. BufName(out.what) = BufName(q.what) /\ out.id = q.id
    BY <2>2
  <2>4. out.what = q.what \/ {out.what, q.what} \subseteq {"pty", "size"}
    BY <2>3 DEF BufName
  <2> QED BY <1>2, <2>1, <2>3, <2>4 DEF OnWire, Wire
<1> QED BY <1>1, <1>2

(* What the server does with a whole packet, but for its own opens. *)
LEMMA DeliveredReaches ==
  ASSUME NEW w \in WirePackets, Delivered(w), out' = None
  PROVE  Reaches(w)
<1>1. w.what \in Whats
  BY DEF WirePackets
<1>2. \A k \in Kinds : k \notin {"open", "close", "listen", "keepalive"}
  BY Names DEF OtherNames
<1>3. server' = IF w.what \in Questioned THEN Append(server, Question(w)) ELSE server
  <2>1. CASE w.what \in {"open", "close"}
    <3>1. Asks(w.what, w)
      <4>1. w.what \notin Kinds /\ w.what \notin {"listen", "keepalive"}
        BY <1>2, <2>1
      <4> QED BY <2>1, <4>1 DEF Delivered
    <3> QED BY <3>1, <2>1 DEF Asks, Question, Questioned
  <2>2. CASE w.what \in {"listen", "keepalive"}
    <3>1. Asks("global", w)
      <4>1. w.what \notin Kinds /\ w.what \notin {"open", "close"}
        BY <1>2, <2>2
      <4> QED BY <2>2, <4>1 DEF Delivered
    <3>2. w.what \notin {"open", "close"}
      BY <2>2
    <3> QED BY <3>1, <3>2, <2>2 DEF Asks, Question, Questioned
  <2>3. CASE w.what \in Kinds
    <3>1. w.what \notin {"open", "close", "listen", "keepalive"}
      BY <1>2, <2>3
    <3>2. Asks("request", w)
      BY <2>3, <3>1 DEF Delivered
    <3> QED BY <3>1, <3>2, <2>3 DEF Asks, Question, Questioned
  <2>4. CASE w.what \notin Questioned
    BY <2>4 DEF Delivered, Questioned
  <2> QED BY <2>1, <2>2, <2>3, <2>4 DEF Questioned
<1> QED BY <1>3 DEF Delivered, Reaches

(* A call that sends does just that. *)
LEMMA SendReaches ==
  ASSUME Types, NEW q \in WirePackets, TransportSend(q)
  PROVE  \E w : Wire(w, q) /\ Reaches(w)
<1>1. Wire(OnWire(q), q)
  BY WireIs DEF TransportSend
<1>2. OnWire(q) \in WirePackets /\ Delivered(OnWire(q)) /\ out' = None
  BY <1>1 DEF TransportSend, Wire
<1>3. Reaches(OnWire(q))
  BY <1>2, DeliveredReaches
<1> QED BY <1>1, <1>3

(* What the server is asked. *)
LEMMA QuestionTyped ==
  ASSUME NEW w \in WirePackets, w.what \in Questioned
  PROVE  /\ Question(w) \in QuestionType
         /\ Question(w).id = w.id /\ Question(w).n = w.n /\ Question(w).to = w.to
         /\ w.what = "open" <=> Question(w).kind = "open"
         /\ w.what = "close" <=> Question(w).kind = "close"
         /\ w.what \in {"listen", "keepalive"} <=> Question(w).kind = "global"
         /\ w.what \in Kinds <=> Question(w).kind = "request"
<1>1. \A k \in Kinds : k \notin {"open", "close", "listen", "keepalive"}
  BY Names DEF OtherNames
<1> QED BY <1>1 DEF Question, QuestionType, WirePackets, Questioned

(* A packet that reaches the server keeps the types. *)
LEMMA ReachesTypes ==
  ASSUME Types, NEW w, NEW q, Wire(w, q), Reaches(w)
  PROVE  /\ server' \in Seq(QuestionType) /\ peer' \in PeerType /\ out' = None
         /\ peer'.conns = peer.conns
<1>1. w \in WirePackets
  BY DEF Wire
<1>2. server' \in Seq(QuestionType)
  BY <1>1, QuestionTyped DEF Reaches, Types
<1>3. w.n \in Nat /\ w.id \in Nat
  BY <1>1 DEF WirePackets
<1>4. peer' \in PeerType /\ peer'.conns = peer.conns
  <2>1. peer \in PeerType
    BY DEF Types
  <2>2. CASE w.what = "cancel"
    BY <2>1, <2>2 DEF Reaches, PeerType
  <2>3. CASE w.what = "confirm"
    BY <1>3, <2>1, <2>3 DEF Reaches, PeerType
  <2>4. CASE w.what = "startup"
    BY <1>3, <2>1, <2>4 DEF Reaches, PeerType
  <2>5. CASE w.what \notin {"cancel", "confirm", "startup"}
    BY <2>1, <2>5 DEF Reaches, PeerType
  <2> QED BY <2>2, <2>3, <2>4, <2>5
<1> QED BY <1>2, <1>4 DEF Reaches

(* What every send does to the types. *)
LEMMA SendTypes ==
  ASSUME Types, NEW q \in WirePackets, TransportSend(q)
  PROVE  /\ server' \in Seq(QuestionType) /\ peer' \in PeerType /\ out' = None
         /\ peer'.conns = peer.conns
<1>1. PICK w : Wire(w, q) /\ Reaches(w)
  BY SendReaches
<1> QED BY <1>1, ReachesTypes, Zenon

(* A packet of which a part is sent. *)
LEMMA BlockTypes ==
  ASSUME Types, NEW q \in WirePackets, SendBlocks(q)
  PROVE  out = None /\ out' = q /\ UNCHANGED <<server, peer>>
BY DEF SendBlocks

-----------------------------------------------------------------------------
(* They hold at first, and after every step. *)

(* No call works on anything. *)
LEMMA NoCallTyped ==
  ASSUME call' = NoCall
  PROVE  Callers' /\ call' \in CallType
<1>1. "none" \notin Kinds /\ "none" \notin Opens
  BY Names DEF OtherNames, Opens
<1>2. call'.op = "none"
  BY DEF NoCall
<1> QED BY <1>1, <1>2 DEF Callers, NoCall, CallType, Ops, Phases

(* A session begins with no channel. *)
LEMMA InitBase ==
  Init => Base
<1> SUFFICES ASSUME Init
             PROVE  Base
  OBVIOUS
<1>1. FirstConn \in Nat
  BY BoundsAssumption DEF FirstConn
<1>2. Channel(FirstConn, "session") \in ChannelType
  BY <1>1 DEF Channel, ChannelType, RequestType, Idle
<1>3. DOMAIN chans = {1} /\ chans[1] = Channel(FirstConn, "session")
  BY DEF Init
<1>4. chans \in [{1} -> ChannelType]
  BY <1>2 DEF Init
<1>5. DOMAIN chans \subseteq 1..(next - 1) /\ next \in Nat \ {0}
  BY <1>3 DEF Init
<1>6. /\ opening \in OpeningType /\ direct \in Nat /\ listen \in ListenType
      /\ listener \in ListenerType
  BY DEF Init, NotOpening, OpeningType, Idle, ListenType, NoListener, ListenerType
<1>7. /\ brigade \in Seq(ReplyType) /\ server \in Seq(QuestionType) /\ adding = Nothing
      /\ out = None /\ seen \in SeenType
  BY DEF Init, SeenType
<1>8. peer \in PeerType /\ calls \in 0..MaxCalls
  BY <1>1, BoundsAssumption DEF Init, PeerType
<1>9. call \in CallType /\ Callers
  <2>1. call = NoCall
    BY DEF Init
  <2>2. "none" \notin Kinds /\ "none" \notin Opens
    BY Names DEF OtherNames, Opens
  <2> QED BY <2>1, <2>2 DEF Callers, NoCall, CallType, Ops, Phases
<1>10. Types
  BY <1>3, <1>4, <1>5, <1>6, <1>7, <1>8, <1>9 DEF Types
<1>11. OpeningOk
  BY DEF Init, OpeningOk, NotOpening
<1>12. QueueOk
  <2>1. listener = NoListener /\ listener.queue = <<>>
    BY DEF Init, NoListener
  <2>2. chans[1].place = "session"
    BY <1>3 DEF Channel
  <2> QED BY <1>3, <2>1, <2>2, EmptyQueue DEF QueueOk, NoListener
<1>13. AddingOk
  BY <1>7 DEF AddingOk
<1> QED BY <1>9, <1>10, <1>11, <1>12, <1>13 DEF Base

(* What the channels are to each other does not change. *)
SameChans ==
  /\ DOMAIN chans' = DOMAIN chans
  /\ \A id \in DOMAIN chans : chans'[id].remote = chans[id].remote /\ chans'[id].place = chans[id].place

(* Where channels keep their places, so do the open in progress and the queue. *)
LEMMA FrameOk ==
  ASSUME OpeningOk, QueueOk, SameChans, UNCHANGED <<opening, listener>>
  PROVE  OpeningOk' /\ QueueOk'
<1>1. {id \in DOMAIN chans' : chans'[id].place = "queue"} = {id \in DOMAIN chans : chans[id].place = "queue"}
  BY DEF SameChans
<1> QED BY <1>1 DEF OpeningOk, QueueOk, SameChans

(* The answer that waits is not disturbed by the packets of the calls. *)
LEMMA FrameAdding ==
  ASSUME AddingOk, SameChans, UNCHANGED <<adding, next>>,
         out' = None \/ out' = out \/ out'.what \notin {"confirm", "refuse"}
  PROVE  AddingOk'
BY DEF AddingOk, SameChans

(* Nothing changes when nothing does. *)
LEMMA SameChansUnchanged ==
  chans' = chans => SameChans
BY DEF SameChans

(* A packet of a call is no answer to an open of the server. *)
LEMMA SendAdding ==
  ASSUME Types, NEW q \in WirePackets, q.what \notin {"confirm", "refuse"},
         \/ TransportSend(q)
         \/ SendBlocks(q)
         \/ UNCHANGED out
  PROVE  out' = None \/ out' = out \/ out'.what \notin {"confirm", "refuse"}
BY DEF TransportSend, SendBlocks

(* What is left of a send. *)
LEMMA SendOut ==
  ASSUME Types, NEW q \in WirePackets, TransportSend(q) \/ SendBlocks(q)
  PROVE  /\ out' = None \/ out' \in WirePackets
         /\ server' \in Seq(QuestionType) /\ peer' \in PeerType /\ peer'.conns = peer.conns
<1>1. CASE TransportSend(q)
  BY <1>1, SendTypes
<1>2. CASE SendBlocks(q)
  BY <1>2 DEF SendBlocks, Types
<1> QED BY <1>1, <1>2

(* A new call. *)
LEMMA BeginTyped ==
  ASSUME Types, NEW op \in Ops, NEW ph \in Phases, NEW id \in Nat, Begin(op, ph, id)
  PROVE  /\ call' \in CallType /\ calls' \in 0..MaxCalls /\ calls' = calls + 1
         /\ call = NoCall /\ told' = Silent /\ calls < MaxCalls
         /\ call'.op = op /\ call'.ph = ph /\ call'.id = id /\ call'.n = calls + 1 /\ call'.left = 0
<1>1. calls \in Nat /\ calls < MaxCalls
  BY BoundsAssumption DEF Types, Begin
<1>2. call' = [op |-> op, ph |-> ph, id |-> id, n |-> calls + 1, left |-> 0]
  BY DEF Begin
<1>3. calls' \in 0..MaxCalls
  BY <1>1, BoundsAssumption DEF Begin
<1> QED BY <1>1, <1>2, <1>3 DEF Begin, CallType

(* The kinds of calls. *)
LEMMA OpsApart ==
  /\ \A k \in Kinds : k \in Ops /\ k \notin {"session", "tcpip", "listen", "accept", "free", "cancel", "none"}
  /\ Opens = {"session", "tcpip"} /\ Opens \subseteq Ops
  /\ {"listen", "accept", "free", "cancel", "none"} \subseteq Ops
BY Names DEF OtherNames, Opens, Ops

-----------------------------------------------------------------------------
(* Base, action by action. *)

(* What a packet does to the call that reads it: the wait for a close ends. *)
LEMMA GoesOnIs ==
  ASSUME Types, GoesOn \/ call' = call
  PROVE  /\ call' \in CallType
         /\ call'.op = call.op /\ call'.id = call.id /\ call'.n = call.n /\ call'.left = call.left
         /\ call' = call \/ (call.op \in {"free", "cancel"} /\ call.ph = "reply" /\ call'.ph = "closed")
BY DEF GoesOn, WaitsForClose, Phase, Types, CallType, Phases

(* Where the channels, the open and the listener stay, so does what the call works on. *)
LEMMA GoesOnCallers ==
  ASSUME Base, GoesOn \/ call' = call, UNCHANGED <<opening, listen>>,
         listener'.st = listener.st, Len(listener'.queue) \in Nat,
         listener.queue # <<>> =>
           /\ listener'.queue # <<>> /\ Head(listener'.queue) = Head(listener.queue)
           /\ Len(listener'.queue) >= Len(listener.queue),
         \A id \in DOMAIN chans :
           /\ id \in DOMAIN chans' /\ chans'[id].place = chans[id].place
           /\ chans'[id].req = chans[id].req /\ chans'[id].closing = chans[id].closing
  PROVE  Callers' /\ call' \in CallType
<1>1. /\ call' \in CallType
      /\ call'.op = call.op /\ call'.id = call.id /\ call'.n = call.n /\ call'.left = call.left
      /\ call' = call \/ (call.op \in {"free", "cancel"} /\ call.ph = "reply" /\ call'.ph = "closed")
  BY GoesOnIs DEF Base
<1>2. Len(listener.queue) \in Nat /\ call.left \in Nat
  BY DEF Base, Types, ListenerType, CallType
<1>3. \A id \in Mine : id \in Mine'
  BY DEF Mine
<1>4. ToldToClose(call.id) => ToldToClose(call.id)'
  BY <1>1 DEF ToldToClose
<1>5. call'.op \in {"free", "cancel"} /\ call'.ph \in {"reply", "closed"} => ToldToClose(call.id)'
  BY <1>1, <1>4 DEF Base, Callers
<1>6. call'.op = "cancel" =>
        /\ call'.ph \in {"send", "close", "reply", "closed", "done"} /\ listener'.st # "none"
        /\ call'.ph # "send" => listener'.st = "cancelled"
        /\ call'.ph \in {"close", "reply", "closed"} =>
             listener'.queue # <<>> /\ call'.id = Head(listener'.queue) /\ call'.left < Len(listener'.queue)
  BY <1>1, <1>2 DEF Base, Callers
<1>7. call'.op = "free" => call'.ph \in {"close", "reply", "closed"} /\ call'.id \in Mine'
  BY <1>1, <1>3 DEF Base, Callers
<1>8. CASE call' = call
  <2>1. opening' = opening /\ listen' = listen
    OBVIOUS
  <2>2. call.op \in Kinds =>
          /\ call.ph \in {"send", "reply", "fail"} /\ call.id \in Mine /\ call.id \in DOMAIN chans
          /\ chans[call.id].req[call.op].st = IF call.ph = "send" THEN "created" ELSE "sent"
    BY DEF Base, Callers, Mine
  <2>3. call'.op \in Kinds =>
          /\ call'.ph \in {"send", "reply", "fail"} /\ call'.id \in Mine'
          /\ chans'[call'.id].req[call'.op].st = IF call'.ph = "send" THEN "created" ELSE "sent"
    <3>1. call.op \in Kinds =>
            /\ call.ph \in {"send", "reply", "fail"} /\ call.id \in Mine'
            /\ chans'[call.id].req = chans[call.id].req
      BY <1>3, <2>2
    <3>2. call.op \in Kinds =>
            chans'[call.id].req[call.op].st = IF call.ph = "send" THEN "created" ELSE "sent"
      BY <2>2, <3>1
    <3>3. call'.op = call.op /\ call'.ph = call.ph /\ call'.id = call.id
      BY <1>8
    <3>4. call'.op \in Kinds => call'.ph \in {"send", "reply", "fail"} /\ call'.id \in Mine'
      BY <3>1, <3>3
    <3>5. call'.op \in Kinds =>
            chans'[call'.id].req[call'.op].st = IF call'.ph = "send" THEN "created" ELSE "sent"
      BY ONLY <3>2, <3>3, Zenon
    <3> QED BY <3>4, <3>5
  <2>4. /\ call'.op = "none" => call' = NoCall
        /\ call'.op \in Opens =>
             /\ call'.ph \in {"send", "reply", "fail"} /\ call'.id = opening'.id
             /\ opening'.st = IF call'.ph = "send" THEN "created" ELSE "sent"
        /\ call'.op = "listen" =>
             /\ call'.ph \in {"send", "reply", "fail"} /\ call'.id = 0 /\ listener'.st = "none"
             /\ listen'.st = IF call'.ph = "send" THEN "created" ELSE "sent"
        /\ call'.op = "accept" => call'.ph = "reply" /\ call'.id = 0 /\ listener'.st = "open"
    BY <1>8, <2>1 DEF Base, Callers
  <2>5. Callers'
    BY <1>5, <1>6, <1>7, <2>3, <2>4, Zenon DEF Callers
  <2> QED BY <1>1, <2>5
<1>9. CASE call.op \in {"free", "cancel"}
  BY <1>1, <1>5, <1>6, <1>7, <1>9, OpsApart DEF Base, Callers
<1> QED BY <1>1, <1>8, <1>9

(* A reply or a close of the server's. *)
LEMMA ArrivesBase ==
  ASSUME Base, Arrives
  PROVE  Base'
<1>1. PICK i \in DOMAIN server : PacketAddReply(i) \/ PacketAddClose(i)
  BY DEF Arrives
<1>2. /\ server' \in Seq(QuestionType) /\ server[i] \in QuestionType
  <2>1. server' = RemoveAt(server, i)
    BY <1>1 DEF PacketAddReply, PacketAddClose
  <2> QED BY <2>1, RemovedElements DEF Base, Types
<1>3. CASE PacketAddReply(i)
  <2>1. PICK t \in Tags : /\ Queued([t |-> t, id |-> server[i].id, n |-> server[i].n, to |-> server[i].to])
                          /\ peer' = CASE t = "confirm" -> [peer EXCEPT !.open = @ \cup {server[i].n}]
                                       [] t = "rsuccess" -> [peer EXCEPT !.forward = TRUE]
                                       [] OTHER -> peer
    <3>1. server[i].kind \in {"open", "global", "request"}
      BY <1>2, <1>3 DEF PacketAddReply, QuestionType
    <3>2. PICK ok \in BOOLEAN :
            LET a == server[i]
                t == CASE a.kind = "open" -> IF ok THEN "confirm" ELSE "refuse"
                       [] a.kind = "request" -> IF ok THEN "success" ELSE "failure"
                       [] a.kind = "global" -> IF ok THEN "rsuccess" ELSE "rfailure"
            IN /\ Queued([t |-> t, id |-> a.id, n |-> a.n, to |-> a.to])
               /\ peer' = CASE t = "confirm" -> [peer EXCEPT !.open = @ \cup {a.n}]
                            [] t = "rsuccess" -> [peer EXCEPT !.forward = TRUE]
                            [] OTHER -> peer
      BY <1>3, Zenon DEF PacketAddReply
    <3> DEFINE t == CASE server[i].kind = "open" -> IF ok THEN "confirm" ELSE "refuse"
                      [] server[i].kind = "request" -> IF ok THEN "success" ELSE "failure"
                      [] server[i].kind = "global" -> IF ok THEN "rsuccess" ELSE "rfailure"
    <3>3. t \in Tags
      BY <3>1 DEF Tags
    <3> QED BY <3>2, <3>3, Zenon
  <2> DEFINE r == [t |-> t, id |-> server[i].id, n |-> server[i].n, to |-> server[i].to]
  <2>2. r \in ReplyType
    BY <1>2 DEF ReplyType, QuestionType
  <2>3. brigade' \in Seq(ReplyType) /\ (GoesOn \/ (call' = [call EXCEPT !.ph = "fail"] /\ t \in Wanted))
    BY <2>1, <2>2 DEF Queued, Phase, Base, Types
  <2>4. peer' \in PeerType
    <3>1. peer \in PeerType /\ server[i].n \in Nat
      BY <1>2 DEF Base, Types, QuestionType
    <3> QED BY <2>1, <3>1 DEF PeerType
  <2>5. call' \in CallType
    <3>1. CASE GoesOn
      BY <3>1, GoesOnIs DEF Base
    <3>2. CASE call' = [call EXCEPT !.ph = "fail"]
      BY <3>2 DEF Base, Types, CallType, Phases
    <3> QED BY <2>3, <3>1, <3>2
  <2>6. chans' = chans
    BY <1>3 DEF PacketAddReply
  <2>7. Types'
    BY <1>2, <2>3, <2>4, <2>5, <2>6 DEF Arrives, Base, Types
  <2>8. GoesOn \/ (call' = [call EXCEPT !.ph = "fail"] /\ call.ph = "reply" /\ call.op \in Opens \cup Kinds \cup {"listen"})
    BY <2>3 DEF Wanted, Arrives, Reading
  <2>9. Callers'
    <3>1. UNCHANGED <<chans, opening, listen, listener>>
      BY <2>6 DEF Arrives
    <3>2. CASE GoesOn
      <4>1. Len(listener'.queue) \in Nat /\ Len(listener'.queue) >= Len(listener.queue)
        BY <3>1 DEF Base, Types, ListenerType
      <4> QED BY <3>1, <3>2, <4>1, GoesOnCallers
    <3>3. CASE call' = [call EXCEPT !.ph = "fail"] /\ call.ph = "reply" /\ call.op \in Opens \cup Kinds \cup {"listen"}
      <4>1. call'.op = call.op /\ call'.id = call.id /\ call'.ph = "fail"
        BY <3>3 DEF Base, Types, CallType
      <4>2. call.op \notin {"none", "accept", "free", "cancel"}
        BY <3>3, OpsApart
      <4> QED BY <3>1, <3>3, <4>1, <4>2 DEF Base, Callers, Mine
    <3> QED BY <2>8, <3>2, <3>3
  <2> QED BY <2>6, <2>7, <2>9, FrameOk, FrameAdding, SameChansUnchanged DEF Arrives, Base
<1>4. CASE PacketAddClose(i)
  <2>1. /\ DOMAIN chans' = DOMAIN chans /\ chans' \in [DOMAIN chans -> ChannelType]
        /\ \A id \in DOMAIN chans : /\ chans'[id].remote = chans[id].remote /\ chans'[id].place = chans[id].place
                                    /\ chans'[id].req = chans[id].req /\ chans'[id].closing = chans[id].closing
    <3>1. PICK c : chans' = IF c \in DOMAIN chans THEN [chans EXCEPT ![c].rclose = TRUE] ELSE chans
      BY <1>4 DEF PacketAddClose
    <3>2. chans \in [DOMAIN chans -> ChannelType]
      BY DEF Base, Types
    <3>3. ASSUME NEW id \in DOMAIN chans
          PROVE  /\ [chans[id] EXCEPT !.rclose = TRUE] \in ChannelType
                 /\ [chans[id] EXCEPT !.rclose = TRUE].remote = chans[id].remote
                 /\ [chans[id] EXCEPT !.rclose = TRUE].place = chans[id].place
                 /\ [chans[id] EXCEPT !.rclose = TRUE].req = chans[id].req
                 /\ [chans[id] EXCEPT !.rclose = TRUE].closing = chans[id].closing
      <4>1. chans[id] \in ChannelType
        BY <3>2
      <4> QED BY <4>1 DEF ChannelType
    <3> QED BY <3>1, <3>2, <3>3
  <2>2. peer' \in PeerType
    <3>1. peer \in PeerType
      BY DEF Base, Types
    <3> QED BY <1>4, <3>1 DEF PeerType, PacketAddClose
  <2>3. /\ UNCHANGED <<brigade, next, opening, direct, listen, listener, adding, out, calls, budget, told, seen>>
        /\ GoesOn
    BY <1>4 DEF Arrives, PacketAddClose
  <2>5. SameChans
    BY <2>1 DEF SameChans
  <2>6. Callers' /\ call' \in CallType
    <3>1. Len(listener'.queue) \in Nat /\ Len(listener'.queue) >= Len(listener.queue)
      BY <2>3 DEF Base, Types, ListenerType
    <3> QED BY <2>1, <2>3, <3>1, GoesOnCallers
  <2>4. Types'
    BY <1>2, <2>1, <2>2, <2>3, <2>6 DEF Base, Types
  <2> QED BY <2>3, <2>4, <2>5, <2>6, FrameOk, FrameAdding DEF Base
<1> QED BY <1>1, <1>3, <1>4

(* A channel that is added. *)
LEMMA WithTyped ==
  ASSUME Types, NEW id \in Nat \ {0}, NEW ch \in ChannelType, NEW m \in Nat, id < m, next <= m,
         chans' = With(id, ch)
  PROVE  /\ DOMAIN chans' = DOMAIN chans \cup {id} /\ chans'[id] = ch
         /\ DOMAIN chans' \subseteq 1..(m - 1) /\ chans' \in [DOMAIN chans' -> ChannelType]
         /\ \A i \in DOMAIN chans : i # id => chans'[i] = chans[i]
BY DEF Types, With

(* A new channel has asked for nothing. *)
LEMMA ChannelTyped ==
  ASSUME NEW n \in Nat, NEW place \in {"session", "queue"}
  PROVE  /\ Channel(n, place) \in ChannelType
         /\ Channel(n, place).place = place /\ Channel(n, place).remote = n
         /\ Channel(n, place).closing = "idle"
         /\ \A k \in Kinds : Channel(n, place).req[k] = Idle
BY DEF Channel, ChannelType, RequestType, Idle

(* A channel that goes. *)
LEMMA WithoutTyped ==
  ASSUME Types, NEW id, chans' = Without(id)
  PROVE  /\ DOMAIN chans' = DOMAIN chans \ {id}
         /\ DOMAIN chans' \subseteq 1..(next - 1) /\ chans' \in [DOMAIN chans' -> ChannelType]
         /\ \A i \in DOMAIN chans : i # id => chans'[i] = chans[i]
BY DEF Types, Without

(* A call that waits is not disturbed by a channel the server opens. *)
LEMMA KeepsBase ==
  ASSUME Base, NEW type \in {"forwarded", "agent"}, NEW id \in Nat \ {0}, NEW conn \in Nat,
         id \notin DOMAIN chans, id < next', next <= next', next' \in Nat,
         Keeps(type, id, conn), type = "forwarded" => Room,
         GoesOn, UNCHANGED <<opening, listen>>
  PROVE  /\ DOMAIN chans' = DOMAIN chans \cup {id} /\ DOMAIN chans' \subseteq 1..(next' - 1)
         /\ chans' \in [DOMAIN chans' -> ChannelType] /\ listener' \in ListenerType
         /\ Callers' /\ call' \in CallType /\ OpeningOk' /\ QueueOk'
<1> DEFINE ch == Channel(conn, IF type = "agent" THEN "session" ELSE "queue")
<1>1. ch \in ChannelType /\ ch.place = IF type = "agent" THEN "session" ELSE "queue"
  BY ChannelTyped
<1>2. chans' = With(id, ch)
  BY DEF Keeps
<1>3. /\ DOMAIN chans' = DOMAIN chans \cup {id} /\ chans'[id] = ch
      /\ DOMAIN chans' \subseteq 1..(next' - 1) /\ chans' \in [DOMAIN chans' -> ChannelType]
      /\ \A i \in DOMAIN chans : i # id => chans'[i] = chans[i]
  <2> HIDE DEF ch
  <2> QED BY <1>1, <1>2, WithTyped DEF Base
<1> HIDE DEF ch
<1>4. \A i \in DOMAIN chans : chans'[i] = chans[i]
  BY <1>3
<1>5. OpeningOk'
  BY <1>3, <1>4 DEF Base, OpeningOk
<1>6. CASE type = "agent"
  <2>1. listener' = listener
    BY <1>6 DEF Keeps
  <2>2. {i \in DOMAIN chans' : chans'[i].place = "queue"} = {i \in DOMAIN chans : chans[i].place = "queue"}
    BY <1>1, <1>3, <1>4, <1>6
  <2>3. QueueOk' /\ listener' \in ListenerType
    BY <2>1, <2>2 DEF Base, QueueOk, Types
  <2>4. Callers' /\ call' \in CallType
    <3>1. Len(listener'.queue) \in Nat /\ Len(listener'.queue) >= Len(listener.queue)
      BY <2>1 DEF Base, Types, ListenerType
    <3> QED BY <1>3, <1>4, <2>1, <3>1, GoesOnCallers
  <2> QED BY <1>3, <1>5, <2>3, <2>4
<1>7. CASE type = "forwarded"
  <2>1. Room
    BY <1>7
  <2>2. listener \in ListenerType /\ listener.queue \in Seq(Nat)
    BY DEF Base, Types, ListenerType
  <2>3. listener' = [listener EXCEPT !.queue = Append(@, id)]
    BY <1>7 DEF Keeps
  <2>4. /\ listener'.st = listener.st /\ listener'.max = listener.max
        /\ listener'.queue = Append(listener.queue, id) /\ listener' \in ListenerType
    <3>1. Append(listener.queue, id) \in Seq(Nat)
      BY <2>2
    <3> QED BY <2>2, <2>3, <3>1 DEF ListenerType
  <2>5. id \notin ToSet(listener.queue)
    BY DEF Base, QueueOk
  <2>6. /\ ToSet(listener'.queue) = ToSet(listener.queue) \cup {id}
        /\ IsInjective(listener'.queue)
    BY <2>2, <2>4, <2>5, SendQueue DEF Base, QueueOk
  <2>7. {i \in DOMAIN chans' : chans'[i].place = "queue"} = {i \in DOMAIN chans : chans[i].place = "queue"} \cup {id}
    BY <1>1, <1>3, <1>4, <1>7
  <2>8. listener'.max > 0 => Len(listener'.queue) <= listener'.max
    <3>1. Len(listener'.queue) = Len(listener.queue) + 1 /\ Len(listener.queue) \in Nat /\ listener.max \in Nat
      BY <2>2, <2>4 DEF ListenerType
    <3> QED BY <2>1, <2>4, <3>1 DEF Room
  <2>9. listener'.st # "none"
    BY <2>1, <2>4 DEF Room
  <2>10. QueueOk'
    BY <2>6, <2>7, <2>8, <2>9 DEF Base, QueueOk
  <2>11. Callers' /\ call' \in CallType
    <3>1. listener.queue # <<>> => /\ Head(listener'.queue) = Head(listener.queue)
                                   /\ Len(listener'.queue) >= Len(listener.queue)
      BY <2>2, <2>4
    <3>2. listener'.queue # <<>> /\ Len(listener'.queue) \in Nat
      BY <2>2, <2>4
    <3> QED BY <1>3, <1>4, <2>4, <3>1, <3>2, GoesOnCallers
  <2> QED BY <1>3, <1>5, <2>4, <2>10, <2>11
<1> QED BY <1>6, <1>7

(* The answer to an open of the server is sent, or waits. *)
LEMMA AddingTyped ==
  ASSUME Base, NEW q \in WirePackets, NEW type \in {"forwarded", "agent", "refused"}, AddingSends(q, type),
         adding = Nothing, q.what \in {"confirm", "refuse"}
  PROVE  /\ out' = None \/ out' \in WirePackets
         /\ adding' = Nothing \/ adding' \in AddingType
         /\ adding' # Nothing => adding'.p = q
         /\ out' # None /\ out'.what \in {"confirm", "refuse"} => adding' # Nothing /\ out' = adding'.p
         /\ adding' = Nothing => out = None
<1>1. out = None \/ out \in WirePackets
  BY DEF Base, Types
<1>2. ASSUME adding' = [p |-> q, type |-> type]
      PROVE  adding' # Nothing /\ adding'.p = q /\ adding' \in AddingType
  BY <1>2 DEF AddingType, Nothing
<1>3. out = None \/ out.what \notin {"confirm", "refuse"}
  BY DEF Base, AddingOk
<1> QED BY <1>1, <1>2, <1>3 DEF AddingSends, Spend

(* The server opens a channel, which the library keeps or not. *)
LEMMA ServerOpensBase ==
  ASSUME Base, ServerOpens
  PROVE  Base'
<1>1. PICK type \in {"forwarded", "agent"} :
        /\ Accepted(type)
        /\ next' = next + 1
        /\ AddingSends(Packet("confirm", next, FirstConn + 1 + peer.conns), type)
        /\ IF adding' = Nothing
           THEN /\ peer' = [[peer EXCEPT !.conns = @ + 1] EXCEPT !.open = @ \cup {FirstConn + 1 + peer.conns}]
                /\ Keeps(type, next, FirstConn + 1 + peer.conns) /\ GoesOn
           ELSE peer' = [peer EXCEPT !.conns = @ + 1] /\ UNCHANGED <<chans, listener, call>>
  BY Zenon DEF ServerOpens
<1>2. UNCHANGED <<opening, direct, listen, brigade, server, calls, told, seen>> /\ adding = Nothing
  BY DEF ServerOpens, Reading
<1> DEFINE conn == FirstConn + 1 + peer.conns
           q == Packet("confirm", next, conn)
<1>3. conn \in Nat /\ next \in Nat \ {0} /\ peer \in PeerType /\ peer.conns \in Nat
  BY BoundsAssumption DEF FirstConn, Base, Types, PeerType
<1>4. q \in WirePackets /\ q.what = "confirm" /\ q.id = next
  <2>1. "confirm" \in Whats
    BY DEF Whats
  <2> QED BY <1>3, <2>1, PacketTyped
<1> HIDE DEF q, conn
<1>5. AddingSends(q, type)
  BY <1>1 DEF q, conn
<1>6. /\ out' = None \/ out' \in WirePackets
      /\ adding' = Nothing \/ adding' \in AddingType
      /\ adding' # Nothing => adding'.p = q
      /\ out' # None /\ out'.what \in {"confirm", "refuse"} => adding' # Nothing /\ out' = adding'.p
  BY <1>2, <1>4, <1>5, AddingTyped
<1>7. peer' \in PeerType
  <2> DEFINE grown == [peer EXCEPT !.conns = @ + 1]
             new == [grown EXCEPT !.open = @ \cup {conn}]
  <2>1. grown \in PeerType
    BY <1>3 DEF PeerType
  <2>2. new \in PeerType
    <3> HIDE DEF grown
    <3> QED BY <1>3, <2>1 DEF PeerType
  <2>3. peer' = grown \/ peer' = new
    BY <1>1 DEF conn
  <2> HIDE DEF grown, new
  <2> QED BY <2>1, <2>2, <2>3
<1>8. next \notin DOMAIN chans /\ next' \in Nat /\ next < next' /\ next' - 1 = next
  <2>1. next' = next + 1
    BY <1>1
  <2>2. DOMAIN chans \subseteq 1..(next - 1)
    BY DEF Base, Types
  <2> QED BY <1>3, <2>1, <2>2
<1>9. CASE adding' = Nothing
  <2>1. Keeps(type, next, conn) /\ GoesOn
    BY <1>1, <1>9 DEF conn
  <2>2. type = "forwarded" => Room
    BY <1>1 DEF Accepted
  <2>3. /\ DOMAIN chans' = DOMAIN chans \cup {next} /\ DOMAIN chans' \subseteq 1..(next' - 1)
        /\ chans' \in [DOMAIN chans' -> ChannelType] /\ listener' \in ListenerType
        /\ Callers' /\ call' \in CallType /\ OpeningOk' /\ QueueOk'
    <3>1. next <= next' /\ next \in Nat \ {0} /\ next' \in Nat /\ next < next' /\ next \notin DOMAIN chans
      BY <1>3, <1>8
    <3>2. UNCHANGED <<opening, listen>> /\ conn \in Nat
      BY <1>2, <1>3
    <3> QED BY <2>1, <2>2, <3>1, <3>2, KeepsBase, Zenon
  <2>4. Types'
    BY <1>2, <1>3, <1>6, <1>7, <1>8, <2>3 DEF Base, Types
  <2>5. AddingOk'
    BY <1>6, <1>9 DEF AddingOk
  <2> QED BY <2>3, <2>4, <2>5 DEF Base
<1>10. CASE adding' # Nothing
  <2>1. UNCHANGED <<chans, listener, call>>
    BY <1>1, <1>10
  <2>2. Types'
    BY <1>2, <1>3, <1>6, <1>7, <1>8, <2>1 DEF Base, Types
  <2>3. AddingOk'
    BY <1>3, <1>4, <1>6, <1>8, <1>10, <2>1 DEF AddingOk
  <2>4. Callers'
    BY <1>2, <2>1 DEF Base, Callers, Mine, ToldToClose
  <2> QED BY <1>2, <2>1, <2>2, <2>3, <2>4, FrameOk, SameChansUnchanged DEF Base
<1> QED BY <1>9, <1>10

(* It opens one that the library does not want. *)
LEMMA RefusesBase ==
  ASSUME Base, NEW type, Refuses(type)
  PROVE  Base'
<1> DEFINE conn == FirstConn + 1 + peer.conns
           q == Packet("refuse", conn, conn)
<1>1. /\ AddingSends(q, "refused") /\ adding = Nothing
      /\ peer' = [peer EXCEPT !.conns = @ + 1]
      /\ UNCHANGED <<chans, listener, next, opening, direct, listen, brigade, server, calls, told, seen>>
      /\ GoesOn \/ call' = call
  BY DEF Refuses, Reading
<1>2. conn \in Nat /\ peer \in PeerType /\ peer.conns \in Nat
  BY BoundsAssumption DEF FirstConn, Base, Types, PeerType
<1>3. q \in WirePackets /\ q.what = "refuse"
  <2>1. "refuse" \in Whats
    BY DEF Whats
  <2> QED BY <1>2, <2>1, PacketTyped
<1> HIDE DEF q, conn
<1>4. /\ out' = None \/ out' \in WirePackets
      /\ adding' = Nothing \/ adding' \in AddingType
      /\ adding' # Nothing => adding'.p = q
      /\ out' # None /\ out'.what \in {"confirm", "refuse"} => adding' # Nothing /\ out' = adding'.p
  BY <1>1, <1>3, AddingTyped
<1>5. peer' \in PeerType
  BY <1>1, <1>2 DEF PeerType
<1>8. Callers' /\ call' \in CallType
  <2>1. Len(listener'.queue) \in Nat /\ Len(listener'.queue) >= Len(listener.queue)
    BY <1>1 DEF Base, Types, ListenerType
  <2> QED BY <1>1, <2>1, GoesOnCallers
<1>6. Types'
  BY <1>1, <1>4, <1>5, <1>8 DEF Base, Types
<1>7. AddingOk'
  BY <1>3, <1>4 DEF AddingOk
<1> QED BY <1>1, <1>6, <1>7, <1>8, FrameOk, SameChansUnchanged DEF Base

(* The answer that waited goes out. *)
LEMMA AddingResumesBase ==
  ASSUME Base, AddingResumes
  PROVE  Base'
<1>1. adding \in AddingType /\ adding.p \in WirePackets /\ adding.p.id \in Nat /\ adding.p.n \in Nat
  BY DEF AddingResumes, Base, Types, AddingType, WirePackets
<1>2. server' \in Seq(QuestionType) /\ peer' \in PeerType /\ out' = None
  BY <1>1, SendTypes DEF AddingResumes, Base
<1>3. adding' = Nothing /\ GoesOn /\ UNCHANGED <<next, opening, direct, listen, brigade, calls, budget, told>>
  BY DEF AddingResumes
<1>4. AddingOk'
  BY <1>2, <1>3 DEF AddingOk
<1>5. CASE adding.p.what = "confirm" /\ adding.type = "agent"
  <2>1. Keeps("agent", adding.p.id, adding.p.n) /\ UNCHANGED seen
    BY <1>5 DEF AddingResumes
  <2>2. adding.p.id \in 1..(next - 1) /\ adding.p.id \notin DOMAIN chans /\ next \in Nat
    BY <1>5 DEF Base, AddingOk, AddingResumes, Types
  <2>3. /\ DOMAIN chans' = DOMAIN chans \cup {adding.p.id} /\ DOMAIN chans' \subseteq 1..(next' - 1)
        /\ chans' \in [DOMAIN chans' -> ChannelType] /\ listener' \in ListenerType
        /\ Callers' /\ call' \in CallType /\ OpeningOk' /\ QueueOk'
    <3>1. adding.p.id \in Nat \ {0} /\ adding.p.id < next' /\ next <= next' /\ next' \in Nat
      BY <1>3, <2>2
    <3> QED BY <1>1, <1>3, <2>1, <2>2, <3>1, KeepsBase
  <2>4. Types'
    BY <1>2, <1>3, <2>1, <2>3 DEF Base, Types
  <2> QED BY <1>4, <2>3, <2>4 DEF Base
<1>6. CASE ~(adding.p.what = "confirm" /\ adding.type = "agent")
  <2>1. seen' = [seen EXCEPT !.lost = @ \cup {adding.p.n}] /\ UNCHANGED <<chans, listener>>
    BY <1>6 DEF AddingResumes
  <2>2. seen' \in SeenType
    BY <1>1, <2>1 DEF Base, Types, SeenType
  <2>4. Callers' /\ call' \in CallType
    <3>1. Len(listener'.queue) \in Nat /\ Len(listener'.queue) >= Len(listener.queue)
      BY <2>1 DEF Base, Types, ListenerType
    <3> QED BY <1>3, <2>1, <3>1, GoesOnCallers
  <2>3. Types'
    BY <1>2, <1>3, <2>1, <2>2, <2>4 DEF Base, Types
  <2> QED BY <1>3, <1>4, <2>1, <2>3, <2>4, FrameOk, SameChansUnchanged DEF Base
<1> QED BY <1>5, <1>6

(* A packet the channels do not keep. *)
LEMMA OtherArrivesBase ==
  ASSUME Base, OtherArrives
  PROVE  Base'
<1>1. /\ UNCHANGED <<chans, next, opening, direct, listen, listener, brigade, adding, out, server, peer,
                     calls, budget, told, seen>>
      /\ GoesOn
  BY DEF OtherArrives
<1>2. Callers' /\ call' \in CallType
  <2>1. Len(listener'.queue) \in Nat /\ Len(listener'.queue) >= Len(listener.queue)
    BY <1>1 DEF Base, Types, ListenerType
  <2> QED BY <1>1, <2>1, GoesOnCallers
<1>3. Types'
  BY <1>1, <1>2 DEF Base, Types
<1> QED BY <1>1, <1>2, <1>3, FrameOk, FrameAdding, SameChansUnchanged DEF Base

(* A step that changes nothing the structure is about, but for the call. *)
LEMMA QuietBase ==
  ASSUME Base, Types', Callers',
         UNCHANGED <<chans, opening, listener, adding, next>>,
         out' = None \/ out' = out \/ out'.what \notin {"confirm", "refuse"}
  PROVE  Base'
BY FrameOk, FrameAdding, SameChansUnchanged DEF Base

(* An open builds its packet, or goes on with the one in progress. *)
LEMMA OpenBase ==
  ASSUME Base, NEW type \in Opens, Open(type), direct' \in Nat
  PROVE  Base'
<1>1. /\ next \in Nat \ {0} /\ opening \in OpeningType /\ calls \in Nat
      /\ opening.id \in Nat
  BY BoundsAssumption DEF Base, Types, OpeningType
<1>2. type \in Ops /\ type \notin Kinds /\ type \in {"session", "tcpip"}
  BY OpsApart
<1> DEFINE ph == IF opening.st = "sent" THEN "reply" ELSE "send"
           id == IF opening.st = "idle" THEN next ELSE opening.id
<1>3. ph \in Phases /\ id \in Nat /\ Begin(type, ph, id)
  BY <1>1 DEF Open, Phases
<1> HIDE DEF ph, id
<1>4. /\ call' \in CallType /\ calls' \in 0..MaxCalls /\ calls' = calls + 1
      /\ call = NoCall /\ call'.op = type /\ call'.ph = ph /\ call'.id = id
  BY <1>2, <1>3, BeginTyped DEF Base
<1>5. UNCHANGED <<listen, listener, brigade, adding, out, server, peer, budget, seen>>
  BY DEF Open
<1>6. call'.op # "none" /\ call'.op \in Opens /\ call'.op \notin Kinds
      /\ call'.op \notin {"listen", "accept", "free", "cancel"}
  BY <1>2, <1>4
<1>7. CASE opening.st = "idle"
  <2>1. /\ opening' = [st |-> "created", type |-> type, n |-> calls + 1, id |-> next]
        /\ chans' = With(next, Channel(0, "session")) /\ next' = next + 1
    BY <1>7 DEF Open
  <2>2. /\ Channel(0, "session") \in ChannelType
        /\ Channel(0, "session").place = "session" /\ Channel(0, "session").remote = 0
    BY ChannelTyped
  <2> DEFINE ch == Channel(0, "session")
  <2> HIDE DEF ch
  <2>3. /\ DOMAIN chans' = DOMAIN chans \cup {next} /\ chans'[next] = ch
        /\ DOMAIN chans' \subseteq 1..(next' - 1) /\ chans' \in [DOMAIN chans' -> ChannelType]
        /\ \A i \in DOMAIN chans : i # next => chans'[i] = chans[i]
    <3>1. next' \in Nat /\ next < next' /\ next <= next' /\ chans' = With(next, ch) /\ ch \in ChannelType
      BY <1>1, <2>1, <2>2 DEF ch
    <3> QED BY <1>1, <3>1, WithTyped DEF Base
  <2>4. next \notin DOMAIN chans
    BY <1>1 DEF Base, Types
  <2>5. opening' \in OpeningType /\ opening'.st = "created" /\ opening'.id = next /\ next' \in Nat \ {0}
    BY <1>1, <2>1 DEF OpeningType
  <2>6. Types'
    BY <1>4, <1>5, <2>3, <2>5 DEF Base, Types
  <2>7. ph = "send" /\ id = next
    BY <1>7 DEF ph, id
  <2>8. Callers'
    BY <1>4, <1>6, <2>5, <2>7 DEF Callers
  <2>9. OpeningOk'
    BY <2>2, <2>3, <2>5 DEF OpeningOk, ch
  <2>10. QueueOk'
    <3>1. {i \in DOMAIN chans' : chans'[i].place = "queue"} = {i \in DOMAIN chans : chans[i].place = "queue"}
      BY <2>2, <2>3, <2>4 DEF ch
    <3> QED BY <1>5, <3>1 DEF Base, QueueOk
  <2>11. AddingOk'
    BY <1>1, <1>5, <2>1, <2>3 DEF Base, AddingOk
  <2> QED BY <2>6, <2>8, <2>9, <2>10, <2>11 DEF Base
<1>8. CASE opening.st # "idle"
  <2>1. UNCHANGED <<opening, chans, next>>
    BY <1>8 DEF Open
  <2>2. Types'
    BY <1>4, <1>5, <2>1 DEF Base, Types
  <2>3. ph \in {"send", "reply"} /\ id = opening.id /\ opening.st = IF ph = "send" THEN "created" ELSE "sent"
    BY <1>1, <1>8 DEF ph, id, OpeningType
  <2>4. Callers'
    BY <1>4, <1>6, <2>1, <2>3 DEF Callers
  <2> QED BY <1>5, <2>1, <2>2, <2>4, QuietBase
<1> QED BY <1>7, <1>8

(* Of either type. *)
LEMMA OpenCallsBase ==
  ASSUME Base, OpenSession \/ DirectTcpip
  PROVE  Base'
<1>1. calls \in Nat /\ direct \in Nat
  BY BoundsAssumption DEF Base, Types
<1>2. direct' \in Nat
  BY <1>1 DEF OpenSession, DirectTcpip
<1>3. \E type \in Opens : Open(type)
  BY DEF OpenSession, DirectTcpip, Opens
<1> QED BY <1>2, <1>3, OpenBase

(* The open is sent. *)
LEMMA OpenSendsBase ==
  ASSUME Base, OpenSends
  PROVE  Base'
<1>1. /\ opening \in OpeningType /\ opening.id \in Nat /\ opening.n \in Nat /\ Message \in Nat
      /\ call.op \in Opens /\ call.ph = "send" /\ call \in CallType
  BY DEF OpenSends, Base, Types, OpeningType, Message
<1> DEFINE q == [Packet("open", opening.id, opening.n) EXCEPT !.to = Message]
<1>2. q \in WirePackets /\ q.what = "open"
  <2>1. Packet("open", opening.id, opening.n) \in WirePackets /\ Packet("open", opening.id, opening.n).what = "open"
    <3>1. "open" \in Whats
      BY DEF Whats
    <3> QED BY <1>1, <3>1, PacketTyped
  <2> QED BY <1>1, <2>1 DEF WirePackets
<1>3. \/ TransportSend(q) /\ opening' = [opening EXCEPT !.st = "sent"] /\ Phase("reply")
      \/ SendBlocks(q) /\ UNCHANGED <<opening, call>>
  BY DEF OpenSends
<1>4. UNCHANGED <<chans, next, direct, listen, listener, brigade, adding, calls, told, seen>>
  BY DEF OpenSends
<1> HIDE DEF q
<1>5. /\ out' = None \/ out' \in WirePackets
      /\ server' \in Seq(QuestionType) /\ peer' \in PeerType
  BY <1>2, <1>3, SendOut DEF Base
<1>6. out' = None \/ out' = out \/ out'.what \notin {"confirm", "refuse"}
  BY <1>2, <1>3, SendAdding DEF Base
<1>7. call.id = opening.id /\ opening.st = "created" /\ call.op \notin Kinds
      /\ call.op \notin {"none", "listen", "accept", "free", "cancel"}
  BY <1>1, OpsApart DEF Base, Callers
<1>8. CASE SendBlocks(q) /\ UNCHANGED <<opening, call>>
  <2>1. Types'
    BY <1>4, <1>5, <1>8 DEF Base, Types
  <2>2. Callers'
    BY <1>4, <1>8 DEF Base, Callers, Mine, ToldToClose
  <2> QED BY <1>4, <1>6, <1>8, <2>1, <2>2, QuietBase
<1>9. CASE opening' = [opening EXCEPT !.st = "sent"] /\ Phase("reply")
  <2>1. opening' \in OpeningType /\ opening'.st = "sent" /\ opening'.id = opening.id
    BY <1>1, <1>9 DEF OpeningType
  <2>2. call' \in CallType /\ call'.op = call.op /\ call'.id = call.id /\ call'.ph = "reply"
    BY <1>1, <1>9 DEF CallType, Phase, Phases
  <2>3. Types'
    BY <1>4, <1>5, <2>1, <2>2 DEF Base, Types
  <2>4. Callers'
    BY <1>1, <1>7, <2>1, <2>2 DEF Callers
  <2>5. OpeningOk'
    BY <1>4, <1>7, <2>1 DEF Base, OpeningOk
  <2>6. QueueOk'
    BY <1>4 DEF Base, QueueOk
  <2>7. AddingOk'
    BY <1>4, <1>6, FrameAdding, SameChansUnchanged DEF Base
  <2> QED BY <2>3, <2>4, <2>5, <2>6, <2>7 DEF Base
<1> QED BY <1>3, <1>8, <1>9

(* An open ends: its channel is the server's, or goes. *)
LEMMA OpenEndsBase ==
  ASSUME Base, NEW ch \in ChannelType, ch.place = "session", NEW what, OpenEnds(ch, what),
         call.op \in Opens, call.ph # "send",
         UNCHANGED <<next, listen, listener, adding, out, server, peer, calls>>,
         brigade' \in Seq(ReplyType), seen' \in SeenType
  PROVE  Base'
<1>1. opening.st = "sent" /\ opening.id \in DOMAIN chans /\ opening \in OpeningType
      /\ opening.id \in 1..(next - 1) /\ next \in Nat
  BY DEF Base, Callers, OpeningOk, Types
<1>2. call' = NoCall /\ opening' = NotOpening /\ direct' \in Nat
  BY DEF OpenEnds, Returns, Base, Types
<1>3. /\ DOMAIN chans' \subseteq DOMAIN chans /\ DOMAIN chans \ {opening.id} \subseteq DOMAIN chans'
      /\ chans' \in [DOMAIN chans' -> ChannelType]
      /\ \A i \in DOMAIN chans : i # opening.id => chans'[i] = chans[i]
      /\ opening.id \in DOMAIN chans' => chans'[opening.id].place = "session"
  <2>1. CASE ch.remote = 0
    <3>1. chans' = Without(opening.id)
      BY <2>1 DEF OpenEnds
    <3>2. /\ DOMAIN chans' = DOMAIN chans \ {opening.id}
          /\ chans' \in [DOMAIN chans' -> ChannelType]
          /\ \A i \in DOMAIN chans : i # opening.id => chans'[i] = chans[i]
      BY <3>1, WithoutTyped DEF Base
    <3> QED BY <3>2
  <2>2. CASE ch.remote # 0
    <3>1. chans' = With(opening.id, ch)
      BY <2>2 DEF OpenEnds
    <3>2. /\ DOMAIN chans' = DOMAIN chans \cup {opening.id} /\ chans'[opening.id] = ch
          /\ chans' \in [DOMAIN chans' -> ChannelType]
          /\ \A i \in DOMAIN chans : i # opening.id => chans'[i] = chans[i]
      <4>1. opening.id \in Nat \ {0} /\ opening.id < next /\ next <= next
        BY <1>1
      <4> QED BY <1>1, <3>1, <4>1, WithTyped DEF Base
    <3> QED BY <1>1, <3>2
  <2> QED BY <2>1, <2>2
<1>4. Callers' /\ call' \in CallType
  BY <1>2, NoCallTyped
<1>5. opening' \in OpeningType
  BY <1>2 DEF NotOpening, OpeningType
<1>6. Types'
  BY <1>2, <1>3, <1>4, <1>5 DEF Base, Types
<1>7. OpeningOk'
  BY <1>2 DEF OpeningOk, NotOpening
<1>8. QueueOk'
  <2>1. chans[opening.id].place = "session"
    BY <1>1 DEF Base, OpeningOk
  <2>2. {i \in DOMAIN chans' : chans'[i].place = "queue"} = {i \in DOMAIN chans : chans[i].place = "queue"}
    BY <1>3, <2>1
  <2> QED BY <2>2 DEF Base, QueueOk
<1>9. AddingOk'
  BY <1>3 DEF Base, AddingOk
<1> QED BY <1>4, <1>6, <1>7, <1>8, <1>9 DEF Base

(* A reply that is found is one of those read, and an answer. *)
LEMMA FirstOfIs ==
  ASSUME brigade \in Seq(ReplyType), Found(brigade)
  PROVE  FirstOf(brigade) \in DOMAIN brigade /\ IsAnswer(brigade[FirstOf(brigade)])
<1> DEFINE all == {i \in DOMAIN brigade : IsAnswer(brigade[i])}
           ok == {i \in all : brigade[i].t \in {"confirm", "success", "rsuccess"}}
           from == IF ok # {} THEN ok ELSE all
<1>1. all # {}
  BY DEF Found
<1>2. from # {} /\ from \subseteq all
  BY <1>1
<1>3. from \in SUBSET Nat
  <2>1. DOMAIN brigade \subseteq Nat
    OBVIOUS
  <2> QED BY <1>2, <2>1
<1>4. \E i \in from : \A j \in from : i <= j
  <2> HIDE DEF from
  <2> QED BY <1>2, <1>3, LeastElement
<1>5. FirstOf(brigade) \in from
  BY <1>4, Zenon DEF FirstOf
<1> QED BY <1>2, <1>5

(* The first reply that is one is taken. *)
LEMMA TakesReply ==
  ASSUME Base, Found(brigade), brigade' = RemoveAt(brigade, FirstOf(brigade))
  PROVE  /\ brigade' \in Seq(ReplyType) /\ brigade[FirstOf(brigade)] \in ReplyType
         /\ FirstOf(brigade) \in DOMAIN brigade /\ IsAnswer(brigade[FirstOf(brigade)])
<1>1. brigade \in Seq(ReplyType)
  BY DEF Base, Types
<1>2. FirstOf(brigade) \in DOMAIN brigade /\ IsAnswer(brigade[FirstOf(brigade)])
  BY <1>1, FirstOfIs
<1> QED BY <1>1, <1>2, RemovedElements

(* The open takes its reply. *)
LEMMA OpenRepliesBase ==
  ASSUME Base, OpenReplies
  PROVE  Base'
<1> DEFINE r == brigade[FirstOf(brigade)]
           ch == Channel(IF r.t = "confirm" THEN r.n ELSE 0, "session")
<1>1. Found(brigade) /\ brigade' = RemoveAt(brigade, FirstOf(brigade))
  BY DEF OpenReplies
<1>2. brigade' \in Seq(ReplyType) /\ r \in ReplyType
  BY <1>1, TakesReply
<1>3. ch \in ChannelType /\ ch.place = "session"
  <2>1. PICK n \in Nat : n = IF r.t = "confirm" THEN r.n ELSE 0
    BY <1>2 DEF ReplyType
  <2> QED BY <2>1, ChannelTyped
<1>4. \E what : OpenEnds(ch, what)
  BY DEF OpenReplies
<1>5. /\ UNCHANGED <<next, listen, listener, adding, out, server, peer, calls, seen>>
      /\ call.op \in Opens /\ call.ph # "send"
  BY DEF OpenReplies
<1> HIDE DEF ch, r
<1> QED BY <1>2, <1>3, <1>4, <1>5, OpenEndsBase DEF Base, Types

(* An open fails and leaves its channel. *)
LEMMA OpenFailsBase ==
  ASSUME Base, OpenFails
  PROVE  Base'
<1>1. /\ OpenEnds(Channel(0, "session"), Silent) /\ call.op \in Opens /\ call.ph # "send"
      /\ UNCHANGED <<next, listen, listener, brigade, adding, out, server, peer, calls>>
      /\ seen' = [seen EXCEPT !.given = @ \cup {call.id}, !.lost = @ \cup {opening.n}]
  BY DEF OpenFails
<1>2. Channel(0, "session") \in ChannelType /\ Channel(0, "session").place = "session"
  BY ChannelTyped
<1>3. seen' \in SeenType
  BY <1>1 DEF Base, Types, SeenType, CallType, OpeningType
<1> QED BY <1>1, <1>2, <1>3, OpenEndsBase DEF Base, Types

(* One channel's record changes, but not its number nor where it waits. *)
LEMMA ChangeTyped ==
  ASSUME Types, NEW id \in DOMAIN chans, NEW ch \in ChannelType,
         ch.remote = chans[id].remote, ch.place = chans[id].place,
         chans' = [chans EXCEPT ![id] = ch]
  PROVE  /\ SameChans
         /\ DOMAIN chans' = DOMAIN chans /\ chans' \in [DOMAIN chans' -> ChannelType]
         /\ chans'[id] = ch /\ \A i \in DOMAIN chans : i # id => chans'[i] = chans[i]
BY DEF Types, SameChans

(* One request of a channel changes, and the number of its tries. *)
SetsRequest(id, kind, r, n) == chans' = [chans EXCEPT ![id].tries = n, ![id].req[kind] = r]
(* What that does. *)
RequestSet(id, kind, r) ==
  /\ SameChans
  /\ DOMAIN chans' = DOMAIN chans /\ chans' \in [DOMAIN chans' -> ChannelType]
  /\ chans'[id].req[kind] = r
  /\ \A k \in Kinds : k # kind => chans'[id].req[k] = chans[id].req[k]
  /\ chans'[id].rclose = chans[id].rclose /\ chans'[id].closing = chans[id].closing
  /\ \A i \in DOMAIN chans : i # id => chans'[i] = chans[i]

(* A request of a channel is set. *)
LEMMA RequestTyped ==
  ASSUME Types, NEW id \in DOMAIN chans, NEW kind \in Kinds, NEW r \in RequestType, NEW n \in Nat,
         SetsRequest(id, kind, r, n)
  PROVE  RequestSet(id, kind, r)
<1> DEFINE c == chans[id]
           ch == [c EXCEPT !.tries = n, !.req[kind] = r]
<1>1. c \in ChannelType
  BY DEF Types
<1>2. /\ ch \in ChannelType /\ ch.remote = c.remote /\ ch.place = c.place
      /\ ch.req[kind] = r /\ \A k \in Kinds : k # kind => ch.req[k] = c.req[k]
      /\ ch.rclose = c.rclose /\ ch.closing = c.closing
  <2> HIDE DEF c
  <2> QED BY <1>1 DEF ChannelType
<1>3. chans' = [chans EXCEPT ![id] = ch]
  BY DEF Types, SetsRequest
<1> HIDE DEF ch
<1>4. /\ SameChans
      /\ DOMAIN chans' = DOMAIN chans /\ chans' \in [DOMAIN chans' -> ChannelType]
      /\ chans'[id] = ch /\ \A i \in DOMAIN chans : i # id => chans'[i] = chans[i]
  BY <1>2, <1>3, ChangeTyped
<1> QED BY <1>2, <1>4 DEF RequestSet

(* ... and that number stays. *)
LEMMA RequestOnly ==
  ASSUME Types, NEW id \in DOMAIN chans, NEW kind \in Kinds, NEW r \in RequestType, NEW c,
         c = [chans EXCEPT ![id].req[kind] = r], chans' = c
  PROVE  RequestSet(id, kind, r)
<1>1. chans[id] \in ChannelType
  BY DEF Types
<1>2. [chans[id] EXCEPT !.tries = chans[id].tries] = chans[id] /\ chans[id].tries \in Nat
  BY <1>1 DEF ChannelType
<1>3. [chans EXCEPT ![id].tries = chans[id].tries] = chans
  BY <1>2 DEF Types
<1>4. SetsRequest(id, kind, r, chans[id].tries)
  BY <1>1, <1>3 DEF ChannelType, SetsRequest
<1> QED BY <1>2, <1>4, RequestTyped

(* A request is built, or goes on. *)
LEMMA RequestBase ==
  ASSUME Base, NEW kind \in Kinds, NEW id, Request(kind, id)
  PROVE  Base'
<1> DEFINE r == chans[id].req[kind]
           ph == IF r.st = "sent" THEN "reply" ELSE "send"
<1>1. /\ id \in Mine /\ r.st # "end" /\ Begin(kind, ph, id)
      /\ chans' = IF r.st = "idle"
                  THEN [chans EXCEPT ![id].req[kind] = [st |-> "created", n |-> calls + 1]]
                  ELSE chans
      /\ UNCHANGED <<next, opening, direct, listen, listener, brigade, adding, out, server, peer, budget, seen>>
  BY DEF Request
<1>2. /\ id \in DOMAIN chans /\ id \in Nat /\ r \in RequestType /\ calls \in Nat
      /\ ph \in Phases /\ kind \in Ops /\ chans[id] \in ChannelType
  BY <1>1, OpsApart, BoundsAssumption DEF Mine, Base, Types, ChannelType, Phases
<1> HIDE DEF ph
<1>3. /\ call' \in CallType /\ calls' \in 0..MaxCalls /\ call'.op = kind /\ call'.ph = ph /\ call'.id = id
  BY <1>1, <1>2, BeginTyped DEF Base
<1>4. /\ SameChans /\ chans' \in [DOMAIN chans' -> ChannelType] /\ DOMAIN chans' = DOMAIN chans
      /\ chans'[id].req[kind].st = IF ph = "send" THEN "created" ELSE "sent"
  <2>1. CASE r.st = "idle"
    <3>1. chans' = [chans EXCEPT ![id].req[kind] = [st |-> "created", n |-> calls + 1]]
      BY <1>1, <2>1
    <3>3. [st |-> "created", n |-> calls + 1] \in RequestType
      BY <1>2 DEF RequestType
    <3>4. RequestSet(id, kind, [st |-> "created", n |-> calls + 1])
      BY <1>2, <3>1, <3>3, RequestOnly DEF Base
    <3>5. /\ SameChans /\ chans' \in [DOMAIN chans' -> ChannelType] /\ DOMAIN chans' = DOMAIN chans
          /\ chans'[id].req[kind] = [st |-> "created", n |-> calls + 1]
      BY <3>4 DEF RequestSet
    <3> QED BY <2>1, <3>5 DEF ph
  <2>2. CASE r.st # "idle"
    <3>1. chans' = chans
      BY <1>1, <2>2
    <3> QED BY <1>1, <1>2, <2>2, <3>1, SameChansUnchanged DEF ph, Base, Types, RequestType
  <2> QED BY <2>1, <2>2
<1>5. Types'
  BY <1>1, <1>3, <1>4 DEF Base, Types
<1>6. id \in Mine'
  BY <1>1, <1>4 DEF Mine, SameChans
<1>7. Callers'
  <2>1. ph \in {"send", "reply"}
    BY DEF ph
  <2>2. call'.op \notin Opens /\ call'.op \notin {"none", "listen", "accept", "free", "cancel"}
    BY <1>3, OpsApart
  <2> QED BY <1>3, <1>4, <1>6, <2>1, <2>2 DEF Callers
<1> QED BY <1>1, <1>4, <1>5, <1>7, FrameOk, FrameAdding DEF Base

(* Of any kind. *)
LEMMA RequestsBase ==
  ASSUME Base, Setenv \/ RequestPty \/ RequestAuthAgent \/ ProcessStartup
  PROVE  Base'
BY Names, RequestBase DEF Setenv, RequestPty, RequestAuthAgent, ProcessStartup

(* A request is sent. *)
LEMMA RequestSendsBase ==
  ASSUME Base, NEW kind \in Kinds, RequestSends(kind)
  PROVE  Base'
<1>1. /\ call.op = kind /\ call.ph = "send" /\ call.id \in Mine /\ call \in CallType
      /\ call.id \in DOMAIN chans /\ call.id \in Nat
      /\ chans[call.id].req[kind] \in RequestType /\ chans[call.id] \in ChannelType
  BY DEF RequestSends, In, Base, Callers, Mine, Types, ChannelType, CallType
<1> DEFINE q == Packet(kind, call.id, chans[call.id].req[kind].n)
<1>2. q \in WirePackets /\ q.what = kind
  <2>1. kind \in Whats /\ chans[call.id].req[kind].n \in Nat
    BY <1>1 DEF Whats, RequestType
  <2> QED BY <1>1, <2>1, PacketTyped
<1>3. \/ TransportSend(q) /\ chans' = [chans EXCEPT ![call.id].req[kind].st = "sent"] /\ Phase("reply")
      \/ SendBlocks(q) /\ UNCHANGED <<chans, call>>
  BY DEF RequestSends
<1>4. UNCHANGED <<next, opening, direct, listen, listener, brigade, adding, calls, told, seen>>
  BY DEF RequestSends
<1> HIDE DEF q
<1>5. q.what \notin {"confirm", "refuse"}
  BY <1>2, Names DEF OtherNames
<1>6. /\ out' = None \/ out' \in WirePackets
      /\ server' \in Seq(QuestionType) /\ peer' \in PeerType
  BY <1>2, <1>3, SendOut DEF Base
<1>7. out' = None \/ out' = out \/ out'.what \notin {"confirm", "refuse"}
  BY <1>2, <1>3, <1>5, SendAdding DEF Base
<1>8. CASE UNCHANGED <<chans, call>>
  <2>1. Types'
    BY <1>4, <1>6, <1>8 DEF Base, Types
  <2>2. Callers'
    BY <1>4, <1>8 DEF Base, Callers, Mine, ToldToClose
  <2> QED BY <1>4, <1>7, <1>8, <2>1, <2>2, QuietBase
<1>9. CASE chans' = [chans EXCEPT ![call.id].req[kind].st = "sent"] /\ Phase("reply")
  <2> DEFINE r == [chans[call.id].req[kind] EXCEPT !.st = "sent"]
  <2>1. r \in RequestType /\ r.st = "sent"
    BY <1>1 DEF RequestType
  <2>2. chans' = [chans EXCEPT ![call.id].req[kind] = r]
    BY <1>9
  <2> HIDE DEF r
  <2>3. RequestSet(call.id, kind, r)
    BY <1>1, <2>1, <2>2, RequestOnly DEF Base
  <2>4. /\ SameChans /\ DOMAIN chans' = DOMAIN chans /\ chans' \in [DOMAIN chans' -> ChannelType]
        /\ chans'[call.id].req[kind] = r
    BY <2>3 DEF RequestSet
  <2>5. call' \in CallType /\ call'.op = kind /\ call'.id = call.id /\ call'.ph = "reply"
    BY <1>1, <1>9 DEF CallType, Phase, Phases
  <2>6. Types'
    BY <1>4, <1>6, <2>4, <2>5 DEF Base, Types
  <2>7. Callers'
    <3>1. call'.op \notin Opens /\ call'.op \notin {"none", "listen", "accept", "free", "cancel"}
      BY <2>5, OpsApart
    <3>2. call'.id \in Mine'
      BY <1>1, <1>4, <2>4, <2>5 DEF Mine, SameChans
    <3> QED BY <2>1, <2>4, <2>5, <3>1, <3>2 DEF Callers
  <2> QED BY <1>4, <1>7, <2>4, <2>6, <2>7, FrameOk, FrameAdding DEF Base
<1> QED BY <1>3, <1>8, <1>9

(* What the end of a call of a request leaves. *)
RequestOver(kind, reply, r) ==
  \/ call' = NoCall /\ told' = reply /\ r = [st |-> IF kind = "startup" THEN "end" ELSE "idle", n |-> 0]
  \/ /\ call' = [call EXCEPT !.ph = "send"] /\ told' = told
     /\ r = [st |-> "created", n |-> call.n] /\ kind = "agent"

(* A request ends, or the agent is asked for under its other name. *)
LEMMA RequestEndsIs ==
  ASSUME Base, NEW kind \in Kinds, NEW reply, RequestEnds(kind, reply),
         call.op = kind, call.ph \in {"reply", "fail"}
  PROVE  /\ call.id \in DOMAIN chans
         /\ \E r \in RequestType : RequestSet(call.id, kind, r) /\ RequestOver(kind, reply, r)
<1> DEFINE again == Failed(kind, reply) /\ chans[call.id].tries = 0
           r == [st |-> IF again THEN "created" ELSE IF kind = "startup" THEN "end" ELSE "idle",
                 n |-> IF again THEN call.n ELSE 0]
<1>1. /\ SetsRequest(call.id, kind, r, Tries(kind, reply))
      /\ IF again THEN Phase("send") /\ UNCHANGED told ELSE Returns /\ told' = reply
  BY DEF RequestEnds, SetsRequest
<1>2. call.id \in DOMAIN chans /\ chans[call.id] \in ChannelType /\ call \in CallType
  BY DEF Base, Callers, Mine, Types
<1>3. Tries(kind, reply) \in Nat
  BY <1>2 DEF Tries, ChannelType
<1>4. r \in RequestType
  BY <1>2 DEF RequestType, CallType
<1>5. RequestSet(call.id, kind, r)
  <2> HIDE DEF r
  <2> QED BY <1>1, <1>2, <1>3, <1>4, RequestTyped DEF Base
<1>6. CASE again
  <2>1. call' = [call EXCEPT !.ph = "send"] /\ told' = told /\ kind = "agent"
    BY <1>1, <1>6 DEF Phase, Failed
  <2>2. r = [st |-> "created", n |-> call.n]
    BY <1>6
  <2>3. RequestOver(kind, reply, r)
    <3> HIDE DEF again, r
    <3> QED BY <2>1, <2>2 DEF RequestOver
  <2> QED BY <1>2, <1>4, <1>5, <2>3
<1>7. CASE ~again
  <2>1. call' = NoCall /\ told' = reply
    BY <1>1, <1>7 DEF Returns
  <2>2. r = [st |-> IF kind = "startup" THEN "end" ELSE "idle", n |-> 0]
    BY <1>7
  <2>3. RequestOver(kind, reply, r)
    <3> HIDE DEF again, r
    <3> QED BY <2>1, <2>2 DEF RequestOver
  <2> QED BY <1>2, <1>4, <1>5, <2>3
<1> QED BY <1>6, <1>7

(* Either way the call is as it should be. *)
LEMMA RequestEndsBase ==
  ASSUME Base, NEW kind \in Kinds, NEW reply, RequestEnds(kind, reply),
         call.op = kind, call.ph \in {"reply", "fail"},
         UNCHANGED <<next, opening, direct, listen, listener, adding, out, server, peer, calls>>,
         brigade' \in Seq(ReplyType), seen' \in SeenType
  PROVE  Base'
<1>1. PICK r \in RequestType : RequestSet(call.id, kind, r) /\ RequestOver(kind, reply, r)
  BY RequestEndsIs
<1>2. /\ SameChans /\ DOMAIN chans' = DOMAIN chans /\ chans' \in [DOMAIN chans' -> ChannelType]
      /\ chans'[call.id].req[kind] = r
  BY <1>1 DEF RequestSet
<1>3. call \in CallType /\ call.id \in Mine
  BY DEF Base, Types, Callers
<1>4. CASE call' = NoCall
  <2>1. Callers' /\ call' \in CallType
    BY <1>4, NoCallTyped
  <2>2. Types'
    BY <1>2, <2>1 DEF Base, Types
  <2> QED BY <1>2, <2>1, <2>2, FrameOk, FrameAdding DEF Base
<1>5. CASE call' = [call EXCEPT !.ph = "send"] /\ r = [st |-> "created", n |-> call.n]
  <2>1. call' \in CallType /\ call'.op = kind /\ call'.id = call.id /\ call'.ph = "send"
    BY <1>3, <1>5 DEF CallType, Phases
  <2>2. Types'
    BY <1>2, <2>1 DEF Base, Types
  <2>3. Callers'
    <3>1. call'.op \notin Opens /\ call'.op \notin {"none", "listen", "accept", "free", "cancel"}
      BY <2>1, OpsApart
    <3>2. call'.id \in Mine'
      BY <1>2, <1>3, <2>1 DEF Mine, SameChans
    <3> QED BY <1>2, <1>5, <2>1, <3>1, <3>2 DEF Callers
  <2> QED BY <1>2, <2>2, <2>3, FrameOk, FrameAdding DEF Base
<1> QED BY <1>1, <1>4, <1>5 DEF RequestOver

(* A request takes its reply. *)
LEMMA RequestRepliesBase ==
  ASSUME Base, NEW kind \in Kinds, RequestReplies(kind)
  PROVE  Base'
<1>1. Found(brigade) /\ brigade' = RemoveAt(brigade, FirstOf(brigade))
  BY DEF RequestReplies
<1>2. brigade' \in Seq(ReplyType)
  BY <1>1, TakesReply
<1>3. \E reply : RequestEnds(kind, reply)
  BY DEF RequestReplies
<1>4. call.op = kind /\ call.ph \in {"reply", "fail"}
      /\ UNCHANGED <<next, opening, direct, listen, listener, adding, out, server, peer, calls, seen>>
  BY DEF RequestReplies, In
<1> QED BY <1>2, <1>3, <1>4, RequestEndsBase DEF Base, Types

(* A request fails. *)
LEMMA RequestFailsBase ==
  ASSUME Base, NEW kind \in Kinds, RequestFails(kind)
  PROVE  Base'
<1>1. /\ RequestEnds(kind, Silent) /\ call.op = kind /\ call.ph \in {"reply", "fail"}
      /\ seen' = [seen EXCEPT !.given = @ \cup {call.id}]
      /\ UNCHANGED <<next, opening, direct, listen, listener, brigade, adding, out, server, peer, calls>>
  BY DEF RequestFails, In
<1>2. seen' \in SeenType
  BY <1>1 DEF Base, Types, SeenType, CallType
<1> QED BY <1>1, <1>2, RequestEndsBase DEF Base, Types

(* What an operation sends: its packet, or the first part of it, or nothing. *)
Sends(q) == TransportSend(q) \/ SendBlocks(q) \/ UNCHANGED <<out, server, peer>>

(* The types after a send. *)
LEMMA SendsTyped ==
  ASSUME Base, NEW q \in WirePackets, q.what \notin {"confirm", "refuse"}, Sends(q)
  PROVE  /\ out' = None \/ out' \in WirePackets
         /\ server' \in Seq(QuestionType) /\ peer' \in PeerType
         /\ out' = None \/ out' = out \/ out'.what \notin {"confirm", "refuse"}
<1>1. CASE TransportSend(q) \/ SendBlocks(q)
  BY <1>1, SendOut, SendAdding DEF Base
<1>2. CASE UNCHANGED <<out, server, peer>>
  BY <1>2 DEF Base, Types
<1> QED BY <1>1, <1>2 DEF Sends

(* The types of the history. *)
LEMMA SeenTyped ==
  ASSUME Types, NEW id \in Nat
  PROVE  /\ [seen EXCEPT !.given = @ \cup {id}] \in SeenType
         /\ [seen EXCEPT !.given = @ \cup {id}, !.sized = @ \cup {id}] \in SeenType
<1>1. seen \in SeenType
  BY DEF Types
<1>2. seen.given \cup {id} \in SUBSET Nat /\ seen.sized \cup {id} \in SUBSET Nat
  BY <1>1 DEF SeenType
<1> QED BY <1>1, <1>2 DEF SeenType

(* A size is sent, in part, or not at all. *)
LEMMA PtySizeBase ==
  ASSUME Base, PtySize
  PROVE  Base'
<1>1. call' = NoCall /\ calls' = calls + 1 /\ calls < MaxCalls
      /\ UNCHANGED <<next, opening, direct, listen, listener, brigade, adding, told>>
  BY DEF PtySize
<1>2. calls \in Nat /\ calls' \in 0..MaxCalls
  BY <1>1, BoundsAssumption DEF Base, Types
<1>3. PICK id \in Mine :
       LET r == chans[id].req["pty"]
           p == Packet("size", id, calls + 1)
       IN
       \/ /\ r.st = "sent" \/ TransportSend(p)
          /\ r.st = "sent" => UNCHANGED <<out, server, peer>>
          /\ chans' = [chans EXCEPT ![id].req["pty"] = Idle]
          /\ seen' = [seen EXCEPT !.given = IF r.st = "idle" THEN @ ELSE @ \cup {id}]
          /\ UNCHANGED budget
       \/ /\ r.st = "idle" /\ SendBlocks(p)
          /\ chans' = [chans EXCEPT ![id].req["pty"] = [st |-> "created", n |-> calls + 1]]
          /\ seen' = [seen EXCEPT !.given = @ \cup {id}, !.sized = @ \cup {id}]
  BY Zenon DEF PtySize
<1> DEFINE q == Packet("size", id, calls + 1)
<1>4. /\ Sends(q)
      /\ \/ chans' = [chans EXCEPT ![id].req["pty"] = Idle]
         \/ chans' = [chans EXCEPT ![id].req["pty"] = [st |-> "created", n |-> calls + 1]]
      /\ \/ UNCHANGED seen
         \/ seen' = [seen EXCEPT !.given = @ \cup {id}]
         \/ seen' = [seen EXCEPT !.given = @ \cup {id}, !.sized = @ \cup {id}]
  <2>1. seen = [seen EXCEPT !.given = @]
    BY DEF Base, Types, SeenType
  <2> QED BY <1>3, <2>1 DEF Sends
<1>5. id \in DOMAIN chans /\ id \in Nat
  BY DEF Mine, Base, Types
<1>6. q \in WirePackets /\ q.what = "size"
  <2>1. "size" \in Whats /\ calls + 1 \in Nat
    BY <1>2 DEF Whats
  <2> QED BY <1>5, <2>1, PacketTyped
<1> HIDE DEF q
<1>7. /\ out' = None \/ out' \in WirePackets
      /\ server' \in Seq(QuestionType) /\ peer' \in PeerType
      /\ out' = None \/ out' = out \/ out'.what \notin {"confirm", "refuse"}
  BY <1>4, <1>6, SendsTyped
<1>8. Idle \in RequestType /\ [st |-> "created", n |-> calls + 1] \in RequestType
  BY <1>2 DEF Idle, RequestType
<1>9. \E r \in RequestType : RequestSet(id, "pty", r)
  <2>1. CASE chans' = [chans EXCEPT ![id].req["pty"] = Idle]
    BY <1>5, <1>8, <2>1, Names, RequestOnly DEF Base
  <2>2. CASE chans' = [chans EXCEPT ![id].req["pty"] = [st |-> "created", n |-> calls + 1]]
    BY <1>5, <1>8, <2>2, Names, RequestOnly DEF Base
  <2> QED BY <1>4, <2>1, <2>2
<1>10. SameChans /\ DOMAIN chans' = DOMAIN chans /\ chans' \in [DOMAIN chans' -> ChannelType]
  BY <1>9 DEF RequestSet
<1>11. seen' \in SeenType
  <2>1. seen \in SeenType
    BY DEF Base, Types
  <2>2. /\ [seen EXCEPT !.given = @ \cup {id}] \in SeenType
        /\ [seen EXCEPT !.given = @ \cup {id}, !.sized = @ \cup {id}] \in SeenType
    BY <1>5, SeenTyped DEF Base
  <2> QED BY <1>4, <2>1, <2>2
<1>12. Callers' /\ call' \in CallType
  BY <1>1, NoCallTyped
<1>13. Types'
  BY <1>1, <1>2, <1>7, <1>10, <1>11, <1>12 DEF Base, Types
<1> QED BY <1>1, <1>7, <1>10, <1>12, <1>13, FrameOk, FrameAdding DEF Base

(* A signal is sent. *)
LEMMA SignalBase ==
  ASSUME Base, Signal
  PROVE  Base'
<1>1. /\ call' = NoCall /\ calls' = calls + 1 /\ calls < MaxCalls
      /\ UNCHANGED <<chans, next, opening, direct, listen, listener, brigade, adding, call, told, seen>>
  BY DEF Signal
<1>2. calls' \in 0..MaxCalls
  BY <1>1, BoundsAssumption DEF Base, Types
<1>3. PICK id \in Mine : Sends(Packet("signal", id, 0))
  BY DEF Signal, Sends
<1> DEFINE q == Packet("signal", id, 0)
<1>4. q \in WirePackets /\ q.what = "signal"
  <2>1. "signal" \in Whats /\ id \in Nat /\ 0 \in Nat
    BY DEF Whats, Mine, Base, Types
  <2> QED BY <2>1, PacketTyped
<1> HIDE DEF q
<1>5. /\ out' = None \/ out' \in WirePackets
      /\ server' \in Seq(QuestionType) /\ peer' \in PeerType
      /\ out' = None \/ out' = out \/ out'.what \notin {"confirm", "refuse"}
  BY <1>3, <1>4, SendsTyped DEF q
<1>6. Callers' /\ call' \in CallType
  BY <1>1, NoCallTyped
<1>7. Types'
  BY <1>1, <1>2, <1>5, <1>6 DEF Base, Types
<1> QED BY <1>1, <1>5, <1>6, <1>7, QuietBase

(* A keepalive is sent. *)
LEMMA KeepaliveSendBase ==
  ASSUME Base, KeepaliveSend
  PROVE  Base'
<1>1. /\ call' = NoCall /\ calls' = calls + 1 /\ calls < MaxCalls
      /\ seen' = [seen EXCEPT !.kept = TRUE]
      /\ UNCHANGED <<chans, next, opening, direct, listen, listener, brigade, adding, call, told>>
  BY DEF KeepaliveSend
<1>2. calls \in Nat /\ calls' \in 0..MaxCalls
  BY <1>1, BoundsAssumption DEF Base, Types
<1> DEFINE q == Packet("keepalive", 0, calls + 1)
<1>3. Sends(q)
  BY DEF KeepaliveSend, Sends
<1>4. q \in WirePackets /\ q.what = "keepalive"
  <2>1. "keepalive" \in Whats /\ calls + 1 \in Nat
    BY <1>2 DEF Whats
  <2>2. PICK m \in Nat : m = calls + 1
    BY <2>1
  <2>3. Packet("keepalive", 0, m) \in WirePackets /\ Packet("keepalive", 0, m).what = "keepalive"
    BY <2>1, PacketTyped
  <2> QED BY <2>2, <2>3
<1> HIDE DEF q
<1>5. /\ out' = None \/ out' \in WirePackets
      /\ server' \in Seq(QuestionType) /\ peer' \in PeerType
      /\ out' = None \/ out' = out \/ out'.what \notin {"confirm", "refuse"}
  BY <1>3, <1>4, SendsTyped
<1>6. Callers' /\ call' \in CallType
  BY <1>1, NoCallTyped
<1>7. seen' \in SeenType
  BY <1>1 DEF Base, Types, SeenType
<1>8. Types'
  BY <1>1, <1>2, <1>5, <1>6, <1>7 DEF Base, Types
<1> QED BY <1>1, <1>5, <1>6, <1>8, QuietBase

(* The calls of a listener and of a free begin. *)
LEMMA ListenBase ==
  ASSUME Base, Listen
  PROVE  Base'
<1> DEFINE ph == IF listen.st = "sent" THEN "reply" ELSE "send"
<1>1. /\ Begin("listen", ph, 0) /\ listener.st = "none"
      /\ listen' = IF listen.st = "idle" THEN [st |-> "created", n |-> calls + 1] ELSE listen
      /\ UNCHANGED <<chans, next, opening, direct, listener, brigade, adding, out, server, peer, budget, seen>>
  BY DEF Listen
<1>2. ph \in Phases /\ listen \in ListenType /\ calls \in Nat
  BY BoundsAssumption DEF Phases, Base, Types
<1>3. listen' \in ListenType /\ listen'.st = IF ph = "send" THEN "created" ELSE "sent"
  BY <1>1, <1>2 DEF ListenType
<1>4. ph \in {"send", "reply"}
  OBVIOUS
<1> HIDE DEF ph
<1>5. call' \in CallType /\ calls' \in 0..MaxCalls /\ call'.op = "listen" /\ call'.ph = ph /\ call'.id = 0
  BY <1>1, <1>2, OpsApart, BeginTyped DEF Base
<1>6. Types'
  BY <1>1, <1>3, <1>5 DEF Base, Types
<1>7. call'.op \notin Kinds /\ call'.op \notin Opens
  BY <1>5, OpsApart
<1>8. Callers'
  BY <1>1, <1>3, <1>4, <1>5, <1>7 DEF Callers
<1>9. out' = out
  BY <1>1
<1> QED BY <1>1, <1>6, <1>8, <1>9, QuietBase

(* The forwarding is asked for. *)
LEMMA ListenSendsBase ==
  ASSUME Base, ListenSends
  PROVE  Base'
<1>1. /\ call.op = "listen" /\ call.ph = "send" /\ call \in CallType /\ listen \in ListenType
      /\ call.id = 0 /\ listener.st = "none"
  BY DEF ListenSends, In, Base, Types, Callers
<1> DEFINE q == Packet("listen", 0, listen.n)
<1>2. q \in WirePackets /\ q.what = "listen"
  <2>1. "listen" \in Whats /\ listen.n \in Nat /\ 0 \in Nat
    BY <1>1 DEF Whats, ListenType
  <2> QED BY <2>1, PacketTyped
<1>3. \/ TransportSend(q) /\ listen' = [listen EXCEPT !.st = "sent"] /\ Phase("reply")
      \/ SendBlocks(q) /\ UNCHANGED <<listen, call>>
  BY DEF ListenSends
<1>4. UNCHANGED <<chans, next, opening, direct, listener, brigade, adding, calls, told, seen>>
  BY DEF ListenSends
<1> HIDE DEF q
<1>5. /\ out' = None \/ out' \in WirePackets
      /\ server' \in Seq(QuestionType) /\ peer' \in PeerType
      /\ out' = None \/ out' = out \/ out'.what \notin {"confirm", "refuse"}
  BY <1>2, <1>3, SendsTyped DEF Sends
<1>6. CASE UNCHANGED <<listen, call>>
  <2>1. Types'
    BY <1>4, <1>5, <1>6 DEF Base, Types
  <2>2. Callers'
    BY <1>4, <1>6 DEF Base, Callers, Mine, ToldToClose
  <2> QED BY <1>4, <1>5, <2>1, <2>2, QuietBase
<1>7. CASE listen' = [listen EXCEPT !.st = "sent"] /\ Phase("reply")
  <2>1. listen' \in ListenType /\ listen'.st = "sent"
    BY <1>1, <1>7 DEF ListenType
  <2>2. call' \in CallType /\ call'.op = "listen" /\ call'.id = 0 /\ call'.ph = "reply"
    BY <1>1, <1>7 DEF CallType, Phase, Phases
  <2>3. call'.op \notin Kinds /\ call'.op \notin Opens
    BY <2>2, OpsApart
  <2>4. Types'
    BY <1>4, <1>5, <2>1, <2>2 DEF Base, Types
  <2>5. Callers'
    BY <1>1, <1>4, <2>1, <2>2, <2>3 DEF Callers
  <2> QED BY <1>4, <1>5, <2>4, <2>5, QuietBase
<1> QED BY <1>3, <1>6, <1>7

(* The listener gets its reply. *)
LEMMA ListenRepliesBase ==
  ASSUME Base, ListenReplies
  PROVE  Base'
<1>1. /\ Found(brigade) /\ brigade' = RemoveAt(brigade, FirstOf(brigade))
      /\ call' = NoCall /\ listen' = Idle
      /\ UNCHANGED <<chans, next, opening, direct, adding, out, server, peer, calls, budget, seen>>
  BY DEF ListenReplies, Returns
<1>2. call.op = "listen" /\ listener.st = "none" /\ listener = NoListener
  BY DEF ListenReplies, In, Base, Callers, QueueOk
<1>3. PICK max \in QueueSizes :
        listener' = IF brigade[FirstOf(brigade)].t = "rsuccess" THEN [st |-> "open", max |-> max, queue |-> <<>>] ELSE listener
  BY Zenon DEF ListenReplies
<1>4. max \in Nat
  BY QueueSizesAssumption
<1>5. listener'.queue = <<>> /\ listener.queue = <<>> /\ listener' \in ListenerType
      /\ (listener' = NoListener \/ listener'.st = "open")
  BY <1>2, <1>3, <1>4 DEF NoListener, ListenerType
<1>6. brigade' \in Seq(ReplyType)
  BY <1>1, TakesReply
<1>7. Callers' /\ call' \in CallType
  BY <1>1, NoCallTyped
<1>8. Idle \in ListenType
  BY DEF Idle, ListenType
<1>9. Types'
  BY <1>1, <1>5, <1>6, <1>7, <1>8 DEF Base, Types
<1>10. QueueOk'
  <2>1. ToSet(listener'.queue) = {id \in DOMAIN chans' : chans'[id].place = "queue"}
    BY <1>1, <1>5 DEF Base, QueueOk
  <2>2. IsInjective(listener'.queue) /\ Len(listener'.queue) = 0
    BY <1>5, EmptyQueue
  <2>3. listener'.max \in Nat
    BY <1>5 DEF ListenerType
  <2> QED BY <1>5, <2>1, <2>2, <2>3 DEF QueueOk
<1>11. OpeningOk' /\ AddingOk'
  BY <1>1 DEF Base, OpeningOk, AddingOk
<1> QED BY <1>7, <1>9, <1>10, <1>11 DEF Base

(* The forwarding fails. *)
LEMMA ListenFailsBase ==
  ASSUME Base, ListenFails
  PROVE  Base'
<1>1. /\ call' = NoCall /\ listen' = Idle /\ seen' = [seen EXCEPT !.given = @ \cup {0}]
      /\ UNCHANGED <<chans, next, opening, direct, listener, brigade, adding, out, server, peer, calls>>
  BY DEF ListenFails, Returns
<1>2. seen' \in SeenType
  BY <1>1, SeenTyped DEF Base
<1>3. Callers' /\ call' \in CallType
  BY <1>1, NoCallTyped
<1>4. Idle \in ListenType
  BY DEF Idle, ListenType
<1>5. Types'
  BY <1>1, <1>2, <1>3, <1>4 DEF Base, Types
<1>6. out' = out
  BY <1>1
<1> QED BY <1>1, <1>3, <1>5, <1>6, QuietBase

(* An accept begins. *)
LEMMA AcceptBase ==
  ASSUME Base, Accept
  PROVE  Base'
<1>1. /\ Begin("accept", "reply", 0) /\ listener.st = "open"
      /\ UNCHANGED <<chans, next, opening, direct, listen, listener, brigade, adding, out, server, peer, budget, seen>>
  BY DEF Accept
<1>2. call' \in CallType /\ calls' \in 0..MaxCalls /\ call'.op = "accept" /\ call'.ph = "reply" /\ call'.id = 0
  BY <1>1, OpsApart, BeginTyped DEF Base, Phases
<1>3. call'.op \notin Kinds /\ call'.op \notin Opens
  BY <1>2, OpsApart
<1>4. Types'
  BY <1>1, <1>2 DEF Base, Types
<1>5. Callers'
  BY <1>1, <1>2, <1>3 DEF Callers
<1>6. out' = out
  BY <1>1
<1> QED BY <1>1, <1>4, <1>5, <1>6, QuietBase

(* It takes the first channel of the queue. *)
LEMMA AcceptTakesBase ==
  ASSUME Base, AcceptTakes
  PROVE  Base'
<1> DEFINE h == Head(listener.queue)
           c == chans[h]
<1>1. /\ call.op = "accept" /\ listener.queue # <<>>
      /\ chans' = [chans EXCEPT ![h].place = "session"]
      /\ listener' = [listener EXCEPT !.queue = Tail(@)]
      /\ call' = NoCall
      /\ UNCHANGED <<next, opening, direct, listen, brigade, adding, out, server, peer, calls, budget, told, seen>>
  BY DEF AcceptTakes, In, Returns
<1>2. listener \in ListenerType /\ listener.queue \in Seq(Nat) /\ Len(listener.queue) \in Nat /\ listener.max \in Nat
  BY DEF Base, Types, ListenerType
<1>3. /\ Tail(listener.queue) \in Seq(Nat) /\ ToSet(listener.queue) = ToSet(Tail(listener.queue)) \cup {h}
      /\ IsInjective(Tail(listener.queue)) /\ h \notin ToSet(Tail(listener.queue))
      /\ Len(Tail(listener.queue)) < Len(listener.queue) /\ Len(Tail(listener.queue)) \in Nat
  BY <1>1, <1>2, ReceiveQueue DEF Base, QueueOk
<1>4. h \in DOMAIN chans /\ c.place = "queue" /\ c \in ChannelType
  BY <1>3 DEF Base, QueueOk, Types
<1>5. [c EXCEPT !.place = "session"] \in ChannelType /\ [c EXCEPT !.place = "session"].place = "session"
      /\ [c EXCEPT !.place = "session"].remote = c.remote
  <2> HIDE DEF c
  <2> QED BY <1>4 DEF ChannelType
<1>6. /\ DOMAIN chans' = DOMAIN chans /\ chans' \in [DOMAIN chans' -> ChannelType]
      /\ chans'[h].place = "session" /\ chans'[h].remote = c.remote
      /\ \A i \in DOMAIN chans : i # h => chans'[i] = chans[i]
  <2>1. chans' = [chans EXCEPT ![h] = [c EXCEPT !.place = "session"]]
    BY <1>1
  <2>2. chans \in [DOMAIN chans -> ChannelType]
    BY DEF Base, Types
  <2> HIDE DEF h, c
  <2> QED BY <1>4, <1>5, <2>1, <2>2
<1> HIDE DEF h, c
<1>7. listener' \in ListenerType /\ listener'.queue = Tail(listener.queue) /\ listener'.st = listener.st /\ listener'.max = listener.max
  BY <1>1, <1>2, <1>3 DEF ListenerType
<1>8. Callers' /\ call' \in CallType
  BY <1>1, NoCallTyped
<1>9. Types'
  BY <1>1, <1>6, <1>7, <1>8 DEF Base, Types
<1>10. OpeningOk'
  BY <1>1, <1>4, <1>6 DEF Base, OpeningOk, c
<1>11. QueueOk'
  <2>1. {i \in DOMAIN chans' : chans'[i].place = "queue"} = {i \in DOMAIN chans : chans[i].place = "queue"} \ {h}
    BY <1>4, <1>6
  <2>2. ToSet(listener'.queue) = {i \in DOMAIN chans' : chans'[i].place = "queue"}
    BY <1>3, <1>7, <2>1 DEF Base, QueueOk
  <2>3. listener.st = "open"
    BY <1>1 DEF Base, Callers
  <2>4. listener'.max > 0 => Len(listener'.queue) <= listener'.max
    BY <1>2, <1>3, <1>7 DEF Base, QueueOk
  <2> QED BY <1>3, <1>7, <2>2, <2>3, <2>4 DEF QueueOk
<1>12. AddingOk'
  BY <1>1, <1>6 DEF Base, AddingOk
<1> QED BY <1>8, <1>9, <1>10, <1>11, <1>12 DEF Base

(* A free begins. *)
LEMMA FreeBase ==
  ASSUME Base, Free
  PROVE  Base'
<1>1. PICK id \in Mine : Begin("free", FreePhase(chans[id]), id)
  BY DEF Free
<1>2. PICK ph \in {"reply", "close", "closed"} :
        Begin("free", ph, id) /\ (ph # "close" => ToldToClose(id))
  BY <1>1 DEF FreePhase, ClosePhase, ToldToClose, Mine
<1>3. UNCHANGED <<chans, next, opening, direct, listen, listener, brigade, adding, out, server, peer, budget, seen>>
  BY DEF Free
<1>4. id \in Nat /\ ph \in Phases /\ id \in Mine'
  BY <1>3 DEF Mine, Base, Types, Phases
<1>5. call' \in CallType /\ calls' \in 0..MaxCalls /\ call'.op = "free" /\ call'.ph = ph /\ call'.id = id
  BY <1>2, <1>4, OpsApart, BeginTyped DEF Base
<1>6. call'.op \notin Kinds /\ call'.op \notin Opens
  BY <1>5, OpsApart
<1>7. Types'
  BY <1>3, <1>5 DEF Base, Types
<1>8. Callers'
  <2>1. ph # "close" => ToldToClose(id)'
    BY <1>2, <1>3 DEF ToldToClose
  <2> QED BY <1>4, <1>5, <1>6, <2>1 DEF Callers
<1>9. out' = out
  BY <1>3
<1> QED BY <1>3, <1>7, <1>8, <1>9, QuietBase

(* The channel that a free or a cancel works on. *)
LEMMA CloserIs ==
  ASSUME Base, call.op \in {"free", "cancel"}, call.ph \in {"close", "reply", "closed"}
  PROVE  /\ call.id \in DOMAIN chans /\ call.id \in Nat /\ call.id \in 1..(next - 1)
         /\ opening.st # "idle" => call.id # opening.id
         /\ chans[call.id] \in ChannelType
         /\ call.op = "cancel" => chans[call.id].place = "queue" /\ listener.queue # <<>> /\ call.id = Head(listener.queue)
         /\ call.op = "free" => chans[call.id].place = "session"
         /\ call \in CallType /\ call.op \notin Kinds /\ call.op \notin Opens
         /\ call.ph # "close" => chans[call.id].closing = "sent"
<1>0. call.ph # "close" => chans[call.id].closing = "sent"
  BY DEF Base, Callers, ToldToClose
<1>1. CASE call.op = "free"
  <2>1. call.id \in Mine
    BY <1>1 DEF Base, Callers
  <2> QED BY <1>0, <1>1, <2>1, OpsApart DEF Mine, Base, Types
<1>2. CASE call.op = "cancel"
  <2>1. listener.queue # <<>> /\ call.id = Head(listener.queue) /\ listener.queue \in Seq(Nat)
    BY <1>2 DEF Base, Callers, Types, ListenerType
  <2>2. call.id \in ToSet(listener.queue)
    BY <2>1, ReceiveQueue
  <2>3. call.id \in DOMAIN chans /\ chans[call.id].place = "queue"
    BY <2>2 DEF Base, QueueOk
  <2>4. opening.st # "idle" => call.id # opening.id
    BY <2>3 DEF Base, OpeningOk
  <2> QED BY <1>0, <1>2, <2>1, <2>3, <2>4, OpsApart DEF Base, Types
<1> QED BY <1>1, <1>2

(* The close of the channel is sent. *)
LEMMA FreeSendsBase ==
  ASSUME Base, FreeSends
  PROVE  Base'
<1>1. /\ call.op \in {"free", "cancel"} /\ call.ph = "close"
      /\ UNCHANGED <<next, opening, direct, listen, listener, brigade, adding, calls, told, seen>>
  BY DEF FreeSends
<1>2. /\ call.id \in DOMAIN chans /\ call.id \in Nat /\ chans[call.id] \in ChannelType
      /\ call \in CallType /\ call.op \notin Kinds /\ call.op \notin Opens
  BY <1>1, CloserIs
<1> DEFINE q == Packet("close", call.id, chans[call.id].remote)
<1>3. q \in WirePackets /\ q.what = "close"
  <2>1. "close" \in Whats /\ chans[call.id].remote \in Nat
    BY <1>2 DEF Whats, ChannelType
  <2> QED BY <1>2, <2>1, PacketTyped
<1>4. \/ /\ TransportSend(q) /\ chans' = [chans EXCEPT ![call.id].closing = "sent"]
         /\ Phase(ClosePhase(chans[call.id]))
      \/ SendBlocks(q) /\ UNCHANGED <<chans, call>>
  BY DEF FreeSends
<1> HIDE DEF q
<1>5. /\ out' = None \/ out' \in WirePackets
      /\ server' \in Seq(QuestionType) /\ peer' \in PeerType
      /\ out' = None \/ out' = out \/ out'.what \notin {"confirm", "refuse"}
  BY <1>3, <1>4, SendsTyped DEF Sends
<1>6. CASE UNCHANGED <<chans, call>>
  <2>1. Types'
    BY <1>1, <1>5, <1>6 DEF Base, Types
  <2>2. Callers'
    BY <1>1, <1>6 DEF Base, Callers, Mine
  <2> QED BY <1>1, <1>5, <1>6, <2>1, <2>2, QuietBase
<1>7. CASE chans' = [chans EXCEPT ![call.id].closing = "sent"] /\ Phase(ClosePhase(chans[call.id]))
  <2> DEFINE c == chans[call.id]
             ch == [c EXCEPT !.closing = "sent"]
  <2>1. ch \in ChannelType /\ ch.remote = c.remote /\ ch.place = c.place /\ ch.closing = "sent"
    <3> HIDE DEF c
    <3>1. c \in ChannelType
      BY <1>2 DEF c
    <3> QED BY <3>1 DEF ChannelType
  <2>2. chans' = [chans EXCEPT ![call.id] = ch]
    BY <1>7
  <2> HIDE DEF ch
  <2>3. SameChans /\ DOMAIN chans' = DOMAIN chans /\ chans' \in [DOMAIN chans' -> ChannelType]
    BY <1>2, <2>1, <2>2, ChangeTyped DEF Base
  <2>4. /\ call' \in CallType /\ call'.op = call.op /\ call'.id = call.id
        /\ call'.ph \in {"reply", "closed"} /\ call'.left = call.left
    BY <1>2, <1>7 DEF CallType, Phase, Phases, ClosePhase
  <2>5. Types'
    BY <1>1, <1>5, <2>3, <2>4 DEF Base, Types
  <2>6. Mine' = Mine
    BY <1>1, <2>3 DEF Mine, SameChans
  <2>8. ToldToClose(call.id)'
    BY <1>2, <2>1, <2>2, <2>3, <2>4 DEF ToldToClose
  <2>7. Callers'
    BY <1>1, <1>2, <2>4, <2>6, <2>8 DEF Base, Callers
  <2> QED BY <1>1, <1>5, <2>3, <2>5, <2>7, FrameOk, FrameAdding DEF Base
<1> QED BY <1>4, <1>6, <1>7

(* The channel goes. *)
LEMMA FreeDisposesBase ==
  ASSUME Base, FreeDisposes
  PROVE  Base'
<1>1. /\ call.op = "free" /\ call.ph = "closed" /\ chans' = Without(call.id) /\ call' = NoCall
      /\ UNCHANGED <<next, opening, direct, listen, listener, brigade, adding, out, server, peer, calls, budget, told, seen>>
  BY DEF FreeDisposes, In, Returns
<1>2. /\ call.id \in DOMAIN chans /\ opening.st # "idle" => call.id # opening.id
      /\ chans[call.id].place = "session"
  BY <1>1, CloserIs
<1>3. /\ DOMAIN chans' = DOMAIN chans \ {call.id} /\ DOMAIN chans' \subseteq 1..(next - 1)
      /\ chans' \in [DOMAIN chans' -> ChannelType] /\ \A i \in DOMAIN chans : i # call.id => chans'[i] = chans[i]
  BY <1>1, WithoutTyped DEF Base
<1>4. Callers' /\ call' \in CallType
  BY <1>1, NoCallTyped
<1>5. Types'
  BY <1>1, <1>3, <1>4 DEF Base, Types
<1>6. OpeningOk'
  BY <1>1, <1>2, <1>3 DEF Base, OpeningOk
<1>7. {i \in DOMAIN chans' : chans'[i].place = "queue"} = {i \in DOMAIN chans : chans[i].place = "queue"}
  BY <1>2, <1>3
<1>8. QueueOk' /\ AddingOk'
  BY <1>1, <1>3, <1>7 DEF Base, QueueOk, AddingOk
<1> QED BY <1>4, <1>5, <1>6, <1>8 DEF Base

(* The cancel of a listener begins. *)
LEMMA CancelBase ==
  ASSUME Base, Cancel
  PROVE  Base'
<1>1. /\ Begin("cancel", "send", 0) /\ listener.st # "none"
      /\ UNCHANGED <<chans, next, opening, direct, listen, listener, brigade, adding, out, server, peer, budget, seen>>
  BY DEF Cancel
<1>2. call' \in CallType /\ calls' \in 0..MaxCalls /\ call'.op = "cancel" /\ call'.ph = "send" /\ call'.id = 0
  BY <1>1, OpsApart, BeginTyped DEF Base, Phases
<1>3. call'.op \notin Kinds /\ call'.op \notin Opens
  BY <1>2, OpsApart
<1>4. Types'
  BY <1>1, <1>2 DEF Base, Types
<1>5. Callers'
  BY <1>1, <1>2, <1>3 DEF Callers
<1>6. out' = out
  BY <1>1
<1> QED BY <1>1, <1>4, <1>5, <1>6, QuietBase

(* A cancel goes on to the next channel of the queue. *)
LEMMA NextTyped ==
  ASSUME call \in CallType, NEW q \in Seq(Nat), call' = CancelNext(q)
  PROVE  /\ call' \in CallType /\ call'.op = call.op
         /\ \/ call'.ph = "done"
            \/ /\ call'.ph \in {"close", "reply", "closed"} /\ q # <<>>
               /\ call'.id = Head(q) /\ call'.left < Len(q)
               /\ call'.ph # "close" => chans[Head(q)].closing = "sent"
<1>1. CASE q = <<>>
  BY <1>1 DEF CancelNext, CallType, Phases
<1>2. CASE q # <<>>
  <2>1. Head(q) \in Nat /\ Len(q) \in Nat /\ Len(q) - 1 \in Nat /\ Len(q) - 1 < Len(q)
    BY <1>2
  <2>2. PICK ph \in {"reply", "close", "closed"} :
          /\ call' = [call EXCEPT !.ph = ph, !.id = Head(q), !.left = Len(q) - 1]
          /\ ph # "close" => chans[Head(q)].closing = "sent"
    BY <1>2 DEF CancelNext, FreePhase, ClosePhase
  <2> QED BY <1>2, <2>1, <2>2 DEF CallType, Phases
<1> QED BY <1>1, <1>2

(* It tells the server. *)
LEMMA CancelSendsBase ==
  ASSUME Base, CancelSends
  PROVE  Base'
<1> DEFINE q == Packet("cancel", 0, 0)
<1>1. /\ call.op = "cancel" /\ call.ph = "send"
      /\ UNCHANGED <<chans, next, opening, direct, listen, brigade, adding, calls, told, seen>>
      /\ Sends(q)
      /\ \/ listener' = [listener EXCEPT !.st = "cancelled"] /\ call' = CancelNext(listener.queue)
         \/ UNCHANGED <<listener, call>>
  BY DEF CancelSends, In, Sends
<1>2. q \in WirePackets /\ q.what = "cancel"
  <2>1. "cancel" \in Whats /\ 0 \in Nat
    BY DEF Whats
  <2> QED BY <2>1, PacketTyped
<1> HIDE DEF q
<1>3. /\ out' = None \/ out' \in WirePackets
      /\ server' \in Seq(QuestionType) /\ peer' \in PeerType
      /\ out' = None \/ out' = out \/ out'.what \notin {"confirm", "refuse"}
  BY <1>1, <1>2, SendsTyped
<1>4. CASE UNCHANGED <<listener, call>>
  <2>1. Types'
    BY <1>1, <1>3, <1>4 DEF Base, Types
  <2>2. Callers'
    BY <1>1, <1>4 DEF Base, Callers, Mine
  <2> QED BY <1>1, <1>3, <1>4, <2>1, <2>2, QuietBase
<1>5. CASE listener' = [listener EXCEPT !.st = "cancelled"] /\ call' = CancelNext(listener.queue)
  <2>1. listener \in ListenerType /\ listener.queue \in Seq(Nat) /\ call \in CallType /\ listener.st # "none"
    BY <1>1 DEF Base, Types, Callers, ListenerType
  <2>2. /\ listener' \in ListenerType /\ listener'.st = "cancelled" /\ listener'.queue = listener.queue
        /\ listener'.max = listener.max
    BY <1>5, <2>1 DEF ListenerType
  <2>3. /\ call' \in CallType /\ call'.op = "cancel"
        /\ \/ call'.ph = "done"
           \/ /\ call'.ph \in {"close", "reply", "closed"} /\ listener.queue # <<>>
              /\ call'.id = Head(listener.queue) /\ call'.left < Len(listener.queue)
              /\ call'.ph # "close" => chans[Head(listener.queue)].closing = "sent"
    BY <1>1, <1>5, <2>1, NextTyped
  <2>4. Types'
    BY <1>1, <1>3, <2>2, <2>3 DEF Base, Types
  <2>5. call'.op \notin Kinds /\ call'.op \notin Opens
    BY <2>3, OpsApart
  <2>8. call'.ph \in {"reply", "closed"} => ToldToClose(call.id)'
    <3>1. listener.queue # <<>> => Head(listener.queue) \in DOMAIN chans
      BY <2>1, ReceiveQueue DEF Base, QueueOk
    <3> QED BY <1>1, <2>3, <3>1 DEF ToldToClose
  <2>6. Callers'
    BY <2>2, <2>3, <2>5, <2>8 DEF Callers
  <2>7. OpeningOk' /\ QueueOk'
    BY <1>1, <2>2 DEF Base, OpeningOk, QueueOk
  <2> QED BY <1>1, <1>3, <2>4, <2>6, <2>7, FrameAdding, SameChansUnchanged DEF Base
<1> QED BY <1>1, <1>4, <1>5

(* It frees the channel it has come to. *)
LEMMA CancelDisposesBase ==
  ASSUME Base, CancelDisposes
  PROVE  Base'
<1>1. /\ call.op = "cancel" /\ call.ph = "closed" /\ chans' = Without(call.id)
      /\ listener' = [listener EXCEPT !.queue = Tail(@)]
      /\ call' = IF call.left = 0 THEN [call EXCEPT !.ph = "done"] ELSE CancelNext(Tail(listener.queue))
      /\ UNCHANGED <<next, opening, direct, listen, brigade, adding, out, server, peer, calls, budget, told, seen>>
  BY DEF CancelDisposes, In
<1>2. /\ call.id \in DOMAIN chans /\ opening.st # "idle" => call.id # opening.id
      /\ listener.queue # <<>> /\ call.id = Head(listener.queue) /\ call \in CallType
  BY <1>1, CloserIs
<1>3. listener \in ListenerType /\ listener.queue \in Seq(Nat) /\ listener.st = "cancelled" /\ listener.max \in Nat
  BY <1>1 DEF Base, Types, Callers, ListenerType
<1>4. /\ Tail(listener.queue) \in Seq(Nat) /\ ToSet(listener.queue) = ToSet(Tail(listener.queue)) \cup {call.id}
      /\ IsInjective(Tail(listener.queue)) /\ call.id \notin ToSet(Tail(listener.queue))
      /\ Len(Tail(listener.queue)) < Len(listener.queue) /\ Len(Tail(listener.queue)) \in Nat /\ Len(listener.queue) \in Nat
  BY <1>2, <1>3, ReceiveQueue DEF Base, QueueOk
<1>5. /\ DOMAIN chans' = DOMAIN chans \ {call.id} /\ DOMAIN chans' \subseteq 1..(next - 1)
      /\ chans' \in [DOMAIN chans' -> ChannelType] /\ \A i \in DOMAIN chans : i # call.id => chans'[i] = chans[i]
  BY <1>1, WithoutTyped DEF Base
<1>6. listener' \in ListenerType /\ listener'.queue = Tail(listener.queue) /\ listener'.st = "cancelled" /\ listener'.max = listener.max
  BY <1>1, <1>3, <1>4 DEF ListenerType
<1>7. /\ call' \in CallType /\ call'.op = "cancel"
      /\ \/ call'.ph = "done"
         \/ /\ call'.ph \in {"close", "reply", "closed"} /\ listener'.queue # <<>>
            /\ call'.id = Head(listener'.queue) /\ call'.left < Len(listener'.queue)
            /\ call'.ph # "close" => chans[Head(listener'.queue)].closing = "sent"
  <2>1. CASE call.left = 0
    BY <1>1, <1>2, <2>1 DEF CallType, Phases
  <2>2. CASE call.left # 0
    BY <1>1, <1>2, <1>4, <1>6, <2>2, NextTyped
  <2> QED BY <2>1, <2>2
<1>8. Types'
  BY <1>1, <1>5, <1>6, <1>7 DEF Base, Types
<1>9. call'.op \notin Kinds /\ call'.op \notin Opens
  BY <1>7, OpsApart
<1>14. call'.ph \in {"reply", "closed"} => ToldToClose(call.id)'
  <2>1. ASSUME listener'.queue # <<>>
        PROVE  Head(listener'.queue) \in ToSet(listener'.queue)
    <3>1. listener'.queue \in Seq(Nat)
      BY <1>6 DEF ListenerType
    <3> QED BY <2>1, <3>1, ReceiveQueue
  <2>2. ToSet(listener'.queue) \subseteq DOMAIN chans'
    BY <1>4, <1>5, <1>6 DEF Base, QueueOk
  <2> QED BY <1>4, <1>5, <1>6, <1>7, <2>1, <2>2 DEF ToldToClose
<1>10. Callers'
  BY <1>6, <1>7, <1>9, <1>14 DEF Callers
<1>11. OpeningOk'
  BY <1>1, <1>2, <1>5 DEF Base, OpeningOk
<1>12. QueueOk'
  <2>1. {i \in DOMAIN chans' : chans'[i].place = "queue"} = {i \in DOMAIN chans : chans[i].place = "queue"} \ {call.id}
    BY <1>5
  <2>2. ToSet(listener'.queue) = {i \in DOMAIN chans' : chans'[i].place = "queue"}
    BY <1>4, <1>6, <2>1 DEF Base, QueueOk
  <2>3. listener'.max > 0 => Len(listener'.queue) <= listener'.max
    BY <1>3, <1>4, <1>6 DEF Base, QueueOk
  <2> QED BY <1>4, <1>6, <2>2, <2>3 DEF QueueOk
<1>13. AddingOk'
  BY <1>1, <1>5 DEF Base, AddingOk
<1> QED BY <1>8, <1>10, <1>11, <1>12, <1>13 DEF Base

(* The listener goes. *)
LEMMA CancelEndsBase ==
  ASSUME Base, CancelEnds
  PROVE  Base'
<1> DEFINE left == ToSet(listener.queue)
<1>1. /\ chans' = [id \in DOMAIN chans \ left |-> chans[id]]
      /\ seen' = [seen EXCEPT !.lost = @ \cup {chans[id].remote : id \in left}]
      /\ listener' = NoListener /\ call' = NoCall
      /\ UNCHANGED <<next, opening, direct, listen, brigade, adding, out, server, peer, calls, budget, told>>
  BY DEF CancelEnds, Returns
<1>2. left = {id \in DOMAIN chans : chans[id].place = "queue"}
  BY DEF Base, QueueOk
<1> HIDE DEF left
<1>3. /\ DOMAIN chans' = DOMAIN chans \ left /\ DOMAIN chans' \subseteq 1..(next - 1)
      /\ chans' \in [DOMAIN chans' -> ChannelType] /\ \A i \in DOMAIN chans' : chans'[i] = chans[i]
  BY <1>1 DEF Base, Types
<1>4. seen' \in SeenType
  <2>1. {chans[id].remote : id \in left} \in SUBSET Nat
    BY <1>2 DEF Base, Types, ChannelType
  <2> QED BY <1>1, <2>1 DEF Base, Types, SeenType
<1>5. Callers' /\ call' \in CallType
  BY <1>1, NoCallTyped
<1>6. NoListener \in ListenerType /\ NoListener.queue = <<>> /\ NoListener.st = "none" /\ NoListener.max = 0
  BY DEF NoListener, ListenerType
<1>7. Types'
  BY <1>1, <1>3, <1>4, <1>5, <1>6 DEF Base, Types
<1>8. OpeningOk'
  BY <1>1, <1>2, <1>3 DEF Base, OpeningOk
<1>9. QueueOk'
  <2>1. {i \in DOMAIN chans' : chans'[i].place = "queue"} = {}
    BY <1>2, <1>3
  <2>2. listener' = NoListener /\ listener'.queue = <<>> /\ listener'.max = 0
    BY <1>1, <1>6
  <2>3. ToSet(listener'.queue) = {} /\ IsInjective(listener'.queue)
    BY <2>2, EmptyQueue
  <2>4. ~(listener'.max > 0)
    BY <2>2
  <2> QED BY <2>1, <2>2, <2>3, <2>4, Zenon DEF QueueOk
<1>10. AddingOk'
  BY <1>1, <1>3 DEF Base, AddingOk
<1> QED BY <1>5, <1>7, <1>8, <1>9, <1>10 DEF Base

(* The application leaves a call off. *)
LEMMA AbandonBase ==
  ASSUME Base, Abandon
  PROVE  Base'
<1>1. /\ call' = NoCall
      /\ UNCHANGED <<chans, next, opening, direct, listen, listener, brigade, adding, out, server, peer, calls, told>>
      /\ seen' = [seen EXCEPT !.given = IF call.op \in {"listen"} \cup Opens \cup Kinds THEN @ \cup {call.id} ELSE @,
                              !.stale = @ \/ call.op = "tcpip"]
  BY DEF Abandon, Returns
<1>2. seen' \in SeenType
  <2>1. seen \in SeenType /\ call.id \in Nat
    BY DEF Base, Types, CallType
  <2>2. (IF call.op \in {"listen"} \cup Opens \cup Kinds THEN seen.given \cup {call.id} ELSE seen.given) \in SUBSET Nat
    BY <2>1 DEF SeenType
  <2>3. (seen.stale \/ call.op = "tcpip") \in BOOLEAN
    OBVIOUS
  <2> QED BY <1>1, <2>1, <2>2, <2>3 DEF SeenType
<1>3. Callers' /\ call' \in CallType
  BY <1>1, NoCallTyped
<1>4. Types'
  BY <1>1, <1>2, <1>3 DEF Base, Types
<1>5. out' = out
  BY <1>1
<1> QED BY <1>1, <1>3, <1>4, <1>5, QuietBase

(* Nothing happens. *)
LEMMA StutterBase ==
  ASSUME Base, UNCHANGED vars
  PROVE  Base'
BY DEF Base, Types, Callers, Mine, ToldToClose, OpeningOk, QueueOk, AddingOk, vars

(* Every step keeps the types and the structure. *)
LEMMA StepBase ==
  ASSUME Base, [Next]_vars
  PROVE  Base'
<1>1. CASE Arrives \/ OtherArrives \/ ServerOpens \/ X11Open \/ ServerIsRefused \/ AddingResumes
  BY <1>1, ArrivesBase, OtherArrivesBase, ServerOpensBase, RefusesBase, AddingResumesBase DEF X11Open, ServerIsRefused
<1>2. CASE OpenSession \/ DirectTcpip \/ OpenSends \/ OpenReplies \/ OpenFails
  BY <1>2, OpenCallsBase, OpenSendsBase, OpenRepliesBase, OpenFailsBase
<1>3. CASE Setenv \/ RequestPty \/ RequestAuthAgent \/ ProcessStartup
  BY <1>3, RequestsBase
<1>4. CASE \E kind \in Kinds : RequestSends(kind) \/ RequestReplies(kind) \/ RequestFails(kind)
  BY <1>4, RequestSendsBase, RequestRepliesBase, RequestFailsBase
<1>5. CASE PtySize \/ Signal \/ KeepaliveSend
  BY <1>5, PtySizeBase, SignalBase, KeepaliveSendBase
<1>6. CASE Listen \/ ListenSends \/ ListenReplies \/ ListenFails
  BY <1>6, ListenBase, ListenSendsBase, ListenRepliesBase, ListenFailsBase
<1>7. CASE Accept \/ AcceptTakes \/ Free \/ FreeSends \/ FreeDisposes
  BY <1>7, AcceptBase, AcceptTakesBase, FreeBase, FreeSendsBase, FreeDisposesBase
<1>8. CASE Cancel \/ CancelSends \/ CancelDisposes \/ CancelEnds \/ Abandon
  BY <1>8, CancelBase, CancelSendsBase, CancelDisposesBase, CancelEndsBase, AbandonBase
<1>9. CASE UNCHANGED vars
  BY <1>9, StutterBase
<1> QED BY <1>1, <1>2, <1>3, <1>4, <1>5, <1>6, <1>7, <1>8, <1>9 DEF Next

-----------------------------------------------------------------------------
(* What the steps do, in the terms that the rest of the invariant is in. *)

(* The elements of a sequence that are in a set stay what they are. *)
Keeping(s, r, S) ==
  Count(r, S) = Count(s, S) /\ \A x \in ToSet(r) : x \in S => x \in ToSet(s)

(* Another element comes. *)
LEMMA KeepsAppend ==
  ASSUME NEW T, NEW s \in Seq(T), NEW S, NEW x \in T, NEW r, r = Append(s, x), x \notin S
  PROVE  Keeping(s, r, S)
<1>1. Count(r, S) = Count(s, S) /\ ToSet(r) = ToSet(s) \cup {x}
  <2>1. Added(r, T, s, S, x)
    BY CountAppend, Zenon
  <2> QED BY <2>1 DEF Added
<1> QED BY <1>1 DEF Keeping

(* Another element goes. *)
LEMMA KeepsRemove ==
  ASSUME NEW T, NEW s \in Seq(T), NEW S, NEW i \in DOMAIN s, NEW r, r = RemoveAt(s, i), s[i] \notin S
  PROVE  Keeping(s, r, S)
<1>1. Count(r, S) = Count(s, S)
  BY CountRemove, Zenon
<1>2. ToSet(r) \subseteq ToSet(s)
  BY RemovedElements, Zenon
<1> QED BY <1>1, <1>2 DEF Keeping

(* None does. *)
LEMMA KeepsAll ==
  ASSUME NEW s, NEW S
  PROVE  Keeping(s, s, S)
BY DEF Keeping

(* No channel is new, and those that stay are as they were; none has been closed. *)
KeepsChans ==
  \A id \in DOMAIN chans' :
    id \in DOMAIN chans /\ chans'[id].remote = chans[id].remote /\ chans'[id].req = chans[id].req
KeepsClosing ==
  \A id \in DOMAIN chans' : id \in DOMAIN chans /\ chans'[id].closing = chans[id].closing
(* One channel is new, or begins anew. *)
Adds(id, n) ==
  /\ id \in DOMAIN chans' /\ chans'[id].remote = n /\ chans'[id].closing = "idle"
  /\ \A k \in Kinds : chans'[id].req[k] = Idle
  /\ \A i \in DOMAIN chans : i # id => i \in DOMAIN chans'
  /\ \A i \in DOMAIN chans' : i # id =>
       /\ i \in DOMAIN chans /\ chans'[i].remote = chans[i].remote
       /\ chans'[i].closing = chans[i].closing /\ chans'[i].req = chans[i].req
(* And what else a step may leave as it was. *)
KeepsTold == told' = told \/ told' = Silent
KeepsSeen ==
  /\ seen'.given = seen.given /\ seen'.sized = seen.sized /\ seen'.stale = seen.stale
  /\ seen.kept => seen'.kept
  /\ seen.lost \subseteq seen'.lost
KeepsPeer == peer'.started = peer.started /\ peer'.twice = peer.twice
(* Operations that ask for nothing: they work on the channels and the queue, or send
   a packet that is no request of a channel, no open and no forwarding. *)
Others == {"none", "accept", "free", "cancel"}
(* A call that reads goes on, or, if it waits for a close, ends its wait. *)
KeepsCall ==
  /\ call'.op = call.op /\ call'.id = call.id /\ call'.n = call.n
  /\ call' = call \/ call.op \in Others
SameWires == UNCHANGED <<brigade, out, server, peer>>
SameQueues == UNCHANGED <<next, opening, direct, listen, adding>>

(* The library's way to add a channel is one. *)
LEMMA WithAdds ==
  ASSUME NEW id, NEW n \in Nat, NEW place \in {"session", "queue"}, chans' = With(id, Channel(n, place))
  PROVE  Adds(id, n)
<1>1. /\ Channel(n, place).remote = n /\ Channel(n, place).closing = "idle"
      /\ \A k \in Kinds : Channel(n, place).req[k] = Idle
  BY ChannelTyped
<1> DEFINE ch == Channel(n, place)
<1> HIDE DEF ch
<1>2. /\ DOMAIN chans' = DOMAIN chans \cup {id} /\ chans'[id] = ch
      /\ \A i \in DOMAIN chans : i # id => chans'[i] = chans[i]
  BY DEF With, ch
<1> QED BY <1>1, <1>2 DEF Adds, ch

(* A channel that goes leaves the others alone. *)
LEMMA WithoutKeeps ==
  ASSUME NEW id, chans' = Without(id)
  PROVE  KeepsChans /\ KeepsClosing
BY DEF Without, KeepsChans, KeepsClosing

(* So does nothing. *)
LEMMA SameKeeps ==
  ASSUME chans' = chans
  PROVE  KeepsChans /\ KeepsClosing
BY DEF KeepsChans, KeepsClosing

(* A reply is read. *)
Reply(t, a) == [t |-> t, id |-> a.id, n |-> a.n, to |-> a.to]
TagOf(kind, t) ==
  \/ kind = "open" /\ t \in {"confirm", "refuse"}
  \/ kind = "request" /\ t \in {"success", "failure"}
  \/ kind = "global" /\ t \in {"rsuccess", "rfailure"}
Reads(i, t) ==
  /\ i \in DOMAIN server /\ TagOf(server[i].kind, t)
  /\ server' = RemoveAt(server, i) /\ brigade' = Append(brigade, Reply(t, server[i]))
  /\ peer'.open = IF t = "confirm" THEN peer.open \cup {server[i].n} ELSE peer.open
  /\ KeepsPeer /\ peer'.conns = peer.conns
  /\ call'.op = call.op /\ call'.id = call.id /\ call'.n = call.n
  /\ \/ KeepsCall /\ (t \in Wanted => Found(brigade'))
     \/ call'.ph = "fail"
  /\ call.ph = "reply" /\ adding = Nothing
  /\ SameQueues /\ UNCHANGED <<chans, listener, out, calls, told, seen>>
(* The server closes a channel. *)
Closes(i) ==
  /\ i \in DOMAIN server /\ server[i].kind = "close"
  /\ server' = RemoveAt(server, i) /\ brigade' = brigade
  /\ peer'.open = peer.open \ {server[i].n}
  /\ KeepsPeer /\ peer'.conns = peer.conns
  /\ DOMAIN chans' = DOMAIN chans
  /\ \A id \in DOMAIN chans :
       /\ chans'[id].remote = chans[id].remote /\ chans'[id].req = chans[id].req
       /\ chans'[id].closing = chans[id].closing
  /\ KeepsCall /\ SameQueues /\ UNCHANGED <<listener, out, calls, told, seen>>

(* The call that reads a packet. *)
LEMMA GoesOnKeeps ==
  ASSUME Types, GoesOn \/ call' = call
  PROVE  KeepsCall
BY GoesOnIs DEF KeepsCall, Others

(* What arrives is a reply or a close. *)
LEMMA ArrivesIs ==
  ASSUME Base, Arrives
  PROVE  \/ \E i \in DOMAIN server, t \in Tags : Reads(i, t)
         \/ \E i \in DOMAIN server : Closes(i)
<1>1. PICK i \in DOMAIN server : PacketAddReply(i) \/ PacketAddClose(i)
  BY DEF Arrives
<1>2. server[i] \in QuestionType /\ peer \in PeerType /\ call \in CallType
  <2>1. server \in Seq(QuestionType)
    BY DEF Base, Types
  <2> QED BY <2>1 DEF Base, Types
<1>3. UNCHANGED <<next, opening, direct, listen, listener, adding, out, calls, told, seen>>
      /\ call.ph = "reply" /\ adding = Nothing
  BY DEF Arrives, Reading
<1>4. CASE PacketAddReply(i)
  <2>1. server[i].kind \in {"open", "global", "request"} /\ server' = RemoveAt(server, i) /\ chans' = chans
    BY <1>2, <1>4 DEF PacketAddReply, QuestionType
  <2>2. PICK ok \in BOOLEAN :
          LET a == server[i]
              t == CASE a.kind = "open" -> IF ok THEN "confirm" ELSE "refuse"
                     [] a.kind = "request" -> IF ok THEN "success" ELSE "failure"
                     [] a.kind = "global" -> IF ok THEN "rsuccess" ELSE "rfailure"
          IN /\ Queued([t |-> t, id |-> a.id, n |-> a.n, to |-> a.to])
             /\ peer' = CASE t = "confirm" -> [peer EXCEPT !.open = @ \cup {a.n}]
                          [] t = "rsuccess" -> [peer EXCEPT !.forward = TRUE]
                          [] OTHER -> peer
    BY <1>4, Zenon DEF PacketAddReply
  <2> DEFINE t == CASE server[i].kind = "open" -> IF ok THEN "confirm" ELSE "refuse"
                    [] server[i].kind = "request" -> IF ok THEN "success" ELSE "failure"
                    [] server[i].kind = "global" -> IF ok THEN "rsuccess" ELSE "rfailure"
  <2>3. t \in Tags /\ TagOf(server[i].kind, t)
    BY <2>1 DEF Tags, TagOf
  <2>4. /\ Queued(Reply(t, server[i]))
        /\ peer' = CASE t = "confirm" -> [peer EXCEPT !.open = @ \cup {server[i].n}]
                     [] t = "rsuccess" -> [peer EXCEPT !.forward = TRUE]
                     [] OTHER -> peer
    BY <2>2, Zenon DEF Reply
  <2> HIDE DEF t
  <2>5. /\ peer'.open = IF t = "confirm" THEN peer.open \cup {server[i].n} ELSE peer.open
        /\ KeepsPeer /\ peer'.conns = peer.conns
    BY <1>2, <2>4 DEF PeerType, KeepsPeer
  <2>6. Reply(t, server[i]).t = t
    BY DEF Reply
  <2>7. /\ brigade' = Append(brigade, Reply(t, server[i]))
        /\ IF t \in Wanted /\ ~Found(brigade') THEN call' = [call EXCEPT !.ph = "fail"] ELSE GoesOn
    BY <2>4, <2>6 DEF Queued, Phase
  <2>8. /\ call'.op = call.op /\ call'.id = call.id /\ call'.n = call.n
        /\ \/ KeepsCall /\ (t \in Wanted => Found(brigade'))
           \/ call'.ph = "fail"
    <3>1. CASE t \in Wanted /\ ~Found(brigade')
      BY <1>2, <2>7, <3>1 DEF CallType
    <3>2. CASE ~(t \in Wanted /\ ~Found(brigade'))
      <4>1. KeepsCall
        BY <2>7, <3>2, GoesOnKeeps DEF Base
      <4> QED BY <3>2, <4>1 DEF KeepsCall
    <3> QED BY <3>1, <3>2
  <2>9. Reads(i, t)
    BY <1>3, <2>1, <2>3, <2>5, <2>7, <2>8 DEF Reads, SameQueues
  <2> QED BY <2>3, <2>9
<1>5. CASE PacketAddClose(i)
  <2>1. /\ server[i].kind = "close" /\ server' = RemoveAt(server, i) /\ brigade' = brigade /\ GoesOn
        /\ peer' = [peer EXCEPT !.open = @ \ {server[i].n}]
    BY <1>5 DEF PacketAddClose
  <2>2. peer'.open = peer.open \ {server[i].n} /\ KeepsPeer /\ peer'.conns = peer.conns
    BY <1>2, <2>1 DEF PeerType, KeepsPeer
  <2>3. PICK c : c = server[i].id /\ chans' = IF c \in DOMAIN chans THEN [chans EXCEPT ![c].rclose = TRUE] ELSE chans
    BY <1>5 DEF PacketAddClose
  <2>4. chans \in [DOMAIN chans -> ChannelType]
    BY DEF Base, Types
  <2>5. ASSUME NEW id \in DOMAIN chans
        PROVE  /\ [chans[id] EXCEPT !.rclose = TRUE].remote = chans[id].remote
               /\ [chans[id] EXCEPT !.rclose = TRUE].req = chans[id].req
               /\ [chans[id] EXCEPT !.rclose = TRUE].closing = chans[id].closing
    <3>1. chans[id] \in ChannelType
      BY <2>4
    <3> QED BY <3>1 DEF ChannelType
  <2>6. /\ DOMAIN chans' = DOMAIN chans
        /\ \A id \in DOMAIN chans :
             /\ chans'[id].remote = chans[id].remote /\ chans'[id].req = chans[id].req
             /\ chans'[id].closing = chans[id].closing
    BY <2>3, <2>4, <2>5
  <2>7. KeepsCall
    BY <2>1, GoesOnKeeps DEF Base
  <2> QED BY <1>3, <2>1, <2>2, <2>6, <2>7 DEF Closes, SameQueues
<1> QED BY <1>1, <1>4, <1>5

(* A channel of the server is kept; or its number is given but the answer waits, or
   was refused at once; or the answer that waited is sent and the channel lost. *)
NewConn == FirstConn + 1 + peer.conns
ServerKeeps(id, n) ==
  /\ Adds(id, n) /\ peer'.open = peer.open \cup {n} /\ KeepsPeer
  /\ adding' = Nothing /\ out' = None
  /\ \/ /\ id = next /\ next' = next + 1 /\ n = NewConn /\ peer'.conns = peer.conns + 1
        /\ adding = Nothing
     \/ /\ next' = next /\ peer'.conns = peer.conns
        /\ adding # Nothing /\ adding.p.what = "confirm" /\ id = adding.p.id /\ n = adding.p.n
  /\ KeepsCall /\ UNCHANGED <<opening, direct, listen, brigade, server, calls, told, seen>>
ServerWaits ==
  /\ adding = Nothing
  /\ \/ adding' = Nothing
     \/ /\ adding'.p.n = NewConn
        /\ adding'.p.what = "confirm" => adding'.p.id = next /\ next' = next + 1
  /\ out' = out \/ out'.what \in {"confirm", "refuse"}
  /\ next' \in {next, next + 1}
  /\ peer'.open = peer.open /\ peer'.conns = peer.conns + 1 /\ KeepsPeer
  /\ KeepsCall /\ UNCHANGED <<chans, opening, direct, listen, brigade, server, calls, told, seen>>
AddingLost ==
  /\ adding # Nothing /\ adding' = Nothing /\ out' = None
  /\ seen' = [seen EXCEPT !.lost = @ \cup {adding.p.n}]
  /\ peer'.open = peer.open \/ peer'.open = peer.open \cup {adding.p.n}
  /\ peer'.conns = peer.conns /\ KeepsPeer
  /\ KeepsCall /\ UNCHANGED <<chans, next, opening, direct, listen, brigade, server, calls, told>>

(* An open of the server is kept, or its answer waits. *)
LEMMA ServerOpensIs ==
  ASSUME Base, ServerOpens
  PROVE  ServerWaits \/ ServerKeeps(next, NewConn)
<1>1. PICK type \in {"forwarded", "agent"} :
        /\ next' = next + 1
        /\ AddingSends(Packet("confirm", next, NewConn), type)
        /\ IF adding' = Nothing
           THEN /\ peer' = [[peer EXCEPT !.conns = @ + 1] EXCEPT !.open = @ \cup {NewConn}]
                /\ Keeps(type, next, NewConn) /\ GoesOn
           ELSE peer' = [peer EXCEPT !.conns = @ + 1] /\ UNCHANGED <<chans, listener, call>>
  BY Zenon DEF ServerOpens, NewConn
<1>2. /\ UNCHANGED <<opening, direct, listen, brigade, server, calls, told, seen>> /\ adding = Nothing
      /\ KeepsCall
  <2>1. GoesOn \/ call' = call
    BY <1>1
  <2> QED BY <2>1, GoesOnKeeps DEF ServerOpens, Reading, Base
<1>3. NewConn \in Nat /\ next \in Nat \ {0} /\ peer \in PeerType /\ peer.conns \in Nat
  BY BoundsAssumption DEF FirstConn, Base, Types, PeerType, NewConn
<1> DEFINE q == Packet("confirm", next, NewConn)
<1>4. q \in WirePackets /\ q.what = "confirm" /\ q.id = next /\ q.n = NewConn
  <2>1. "confirm" \in Whats
    BY DEF Whats
  <2> QED BY <1>3, <2>1, PacketTyped
<1> HIDE DEF q
<1>5. AddingSends(q, type)
  BY <1>1 DEF q
<1>6. CASE adding' = Nothing
  <2>1. /\ peer' = [[peer EXCEPT !.conns = @ + 1] EXCEPT !.open = @ \cup {NewConn}]
        /\ Keeps(type, next, NewConn)
    BY <1>1, <1>6
  <2>2. peer'.open = peer.open \cup {NewConn} /\ peer'.conns = peer.conns + 1 /\ KeepsPeer
    <3> DEFINE grown == [peer EXCEPT !.conns = @ + 1]
    <3>1. grown \in PeerType /\ grown.open = peer.open /\ grown.conns = peer.conns + 1
          /\ grown.started = peer.started /\ grown.twice = peer.twice
      BY <1>3 DEF PeerType
    <3>2. peer' = [grown EXCEPT !.open = @ \cup {NewConn}]
      BY <2>1
    <3> HIDE DEF grown
    <3> QED BY <3>1, <3>2 DEF PeerType, KeepsPeer
  <2>3. \E place \in {"session", "queue"} : chans' = With(next, Channel(NewConn, place))
    BY <2>1 DEF Keeps
  <2>4. Adds(next, NewConn)
    BY <1>3, <2>3, WithAdds
  <2>5. out' = None
    <3>1. adding' # [p |-> q, type |-> type]
      BY <1>6 DEF Nothing
    <3> QED BY <1>5, <3>1 DEF AddingSends
  <2> QED BY <1>1, <1>2, <1>6, <2>2, <2>4, <2>5 DEF ServerKeeps
<1>7. CASE adding' # Nothing
  <2>1. peer' = [peer EXCEPT !.conns = @ + 1] /\ UNCHANGED <<chans, listener>>
    BY <1>1, <1>7
  <2>2. peer'.open = peer.open /\ peer'.conns = peer.conns + 1 /\ KeepsPeer
    BY <1>3, <2>1 DEF PeerType, KeepsPeer
  <2>3. adding' = [p |-> q, type |-> type] /\ (out' = q \/ out' = out)
    BY <1>2, <1>5, <1>7 DEF AddingSends
  <2>4. adding'.p = q
    BY <2>3
  <2> QED BY <1>1, <1>2, <1>4, <2>1, <2>2, <2>3, <2>4 DEF ServerWaits
<1> QED BY <1>6, <1>7

(* A refusal that is not sent at once waits. *)
LEMMA RefusesIs ==
  ASSUME Base, NEW type, Refuses(type)
  PROVE  ServerWaits
<1> DEFINE q == Packet("refuse", NewConn, NewConn)
<1>1. /\ AddingSends(q, "refused") /\ adding = Nothing
      /\ peer' = [peer EXCEPT !.conns = @ + 1]
      /\ UNCHANGED <<chans, listener, next, opening, direct, listen, brigade, server, calls, told, seen>>
      /\ KeepsCall
  <2>1. GoesOn \/ call' = call
    BY DEF Refuses
  <2> QED BY <2>1, GoesOnKeeps DEF Refuses, Reading, NewConn, Base
<1>2. NewConn \in Nat /\ peer \in PeerType /\ peer.conns \in Nat
  BY BoundsAssumption DEF FirstConn, Base, Types, PeerType, NewConn
<1>3. q \in WirePackets /\ q.what = "refuse" /\ q.n = NewConn
  <2>1. "refuse" \in Whats
    BY DEF Whats
  <2> QED BY <1>2, <2>1, PacketTyped
<1> HIDE DEF q
<1>4. peer'.open = peer.open /\ peer'.conns = peer.conns + 1 /\ KeepsPeer
  BY <1>1, <1>2 DEF PeerType, KeepsPeer
<1>5. \/ adding' = Nothing
      \/ adding' = [p |-> q, type |-> "refused"]
  BY <1>1 DEF AddingSends
<1>6. out' = out \/ out' = q
  BY <1>1 DEF AddingSends
<1>7. adding' # Nothing => adding'.p = q
  BY <1>5
<1> QED BY <1>1, <1>3, <1>4, <1>6, <1>7 DEF ServerWaits

(* The answer that waited is sent, and its channel kept or lost. *)
LEMMA AddingResumesIs ==
  ASSUME Base, AddingResumes
  PROVE  AddingLost \/ ServerKeeps(adding.p.id, adding.p.n)
<1>1. /\ adding \in AddingType /\ adding.p \in WirePackets /\ adding.p.n \in Nat /\ adding # Nothing
      /\ adding.p.what \in {"confirm", "refuse"}
  BY DEF AddingResumes, Base, Types, AddingType, WirePackets, AddingOk
<1>2. PICK w : Wire(w, adding.p) /\ Reaches(w)
  BY <1>1, SendReaches DEF AddingResumes, Base
<1>3. w = adding.p
  <2>1. w.what = adding.p.what
    BY <1>1, <1>2 DEF Wire
  <2> QED BY <1>1, <1>2, <2>1 DEF Wire, Base, AddingOk
<1>4. adding.p.what \notin Questioned
  BY <1>1, Names DEF Questioned, OtherNames
<1>5. server' = server /\ out' = None
  BY <1>2, <1>3, <1>4 DEF Reaches
<1>6. /\ peer'.open = IF adding.p.what = "confirm" THEN peer.open \cup {adding.p.n} ELSE peer.open
      /\ peer'.conns = peer.conns /\ KeepsPeer
  <2>1. peer' = IF adding.p.what = "confirm" THEN [peer EXCEPT !.open = @ \cup {adding.p.n}] ELSE peer
    BY <1>1, <1>2, <1>3 DEF Reaches
  <2>2. peer \in PeerType
    BY DEF Base, Types
  <2> QED BY <2>1, <2>2 DEF PeerType, KeepsPeer
<1>7. /\ adding' = Nothing /\ UNCHANGED <<next, opening, direct, listen, brigade, calls, budget, told>>
      /\ KeepsCall
  BY GoesOnKeeps DEF AddingResumes, Base
<1>8. CASE adding.p.what = "confirm" /\ adding.type = "agent"
  <2>1. Keeps("agent", adding.p.id, adding.p.n) /\ UNCHANGED seen
    BY <1>8 DEF AddingResumes
  <2>2. Adds(adding.p.id, adding.p.n)
    BY <1>1, <2>1, WithAdds DEF Keeps
  <2> QED BY <1>1, <1>5, <1>6, <1>7, <1>8, <2>1, <2>2 DEF ServerKeeps
<1>9. CASE ~(adding.p.what = "confirm" /\ adding.type = "agent")
  <2>1. seen' = [seen EXCEPT !.lost = @ \cup {adding.p.n}] /\ UNCHANGED <<chans, listener>>
    BY <1>9 DEF AddingResumes
  <2> QED BY <1>1, <1>5, <1>6, <1>7, <2>1 DEF AddingLost
<1> QED BY <1>8, <1>9

(* For a call's packet q the transport sends w, or it has a part of q. *)
Ships(q, w) ==
  /\ w \in WirePackets /\ w.id = q.id
  /\ w = q \/ (out # None /\ w = out)
  /\ w.what = q.what \/ {w.what, q.what} \subseteq {"pty", "size"}
  /\ out' = None
  /\ w.what \in Questioned => server' = Append(server, Question(w))
  /\ w.what \notin Questioned => server' = server
  /\ peer'.open = peer.open /\ peer'.conns = peer.conns
  /\ w.what # "startup" => KeepsPeer
  /\ w.what = "startup" => /\ peer'.started = peer.started \cup {w.id}
                           /\ w.id \notin peer.started => peer'.twice = peer.twice
Stays(q) == out = None /\ out' = q /\ UNCHANGED <<server, peer>>

(* A call that sends. *)
LEMMA ShipsIs ==
  ASSUME Base, NEW q \in WirePackets, q.what \notin {"confirm", "refuse"}, TransportSend(q)
  PROVE  \E w : Ships(q, w)
<1>1. PICK w : Wire(w, q) /\ Reaches(w)
  BY SendReaches DEF Base
<1>2. /\ w \in WirePackets /\ w.id = q.id /\ (w = q \/ (out # None /\ w = out))
      /\ w.what = q.what \/ {w.what, q.what} \subseteq {"pty", "size"}
  BY <1>1 DEF Wire
<1>3. w.what # "confirm"
  BY <1>2
<1>4. peer \in PeerType
  BY DEF Base, Types
<1>5. CASE w.what = "startup"
  <2>1. peer' = [peer EXCEPT !.started = @ \cup {w.id}, !.twice = @ \/ w.id \in peer.started]
    BY <1>1, <1>5 DEF Reaches
  <2>2. /\ peer'.open = peer.open /\ peer'.conns = peer.conns
        /\ peer'.started = peer.started \cup {w.id}
    BY <1>4, <2>1 DEF PeerType
  <2>3. peer'.twice = (peer.twice \/ w.id \in peer.started)
    BY <1>4, <2>1 DEF PeerType
  <2>4. w.id \notin peer.started => peer'.twice = peer.twice
    <3>1. peer.twice \in BOOLEAN
      BY <1>4 DEF PeerType
    <3> QED BY <2>3, <3>1, Zenon
  <2> QED BY <1>1, <1>2, <1>5, <2>2, <2>4 DEF Ships, Reaches
<1>6. CASE w.what # "startup"
  <2>1. peer' = [peer EXCEPT !.forward = FALSE] \/ peer' = peer
    BY <1>1, <1>3, <1>6 DEF Reaches
  <2>2. peer'.open = peer.open /\ peer'.conns = peer.conns /\ KeepsPeer
    BY <1>4, <2>1 DEF PeerType, KeepsPeer
  <2> QED BY <1>1, <1>2, <1>6, <2>2 DEF Ships, Reaches
<1> QED BY <1>5, <1>6

(* A call that sends a part. *)
LEMMA StaysIs ==
  ASSUME Base, NEW q, SendBlocks(q)
  PROVE  Stays(q)
BY DEF SendBlocks, Stays

(* A channel goes when the server has been told to close it, or it is lost. *)
Leaves ==
  \A id \in DOMAIN chans :
    id \in DOMAIN chans' \/ chans[id].closing = "sent" \/ chans[id].remote \in seen'.lost
(* They send nothing, *)
Plain ==
  /\ SameQueues /\ SameWires /\ KeepsChans /\ KeepsClosing /\ Leaves /\ KeepsTold /\ KeepsSeen
  /\ calls <= calls' /\ call.op \in Others /\ call'.op \in Others
(* or one packet. *)
MutePacket(q) ==
  /\ q \in WirePackets /\ q.what \in {"close", "cancel", "signal", "keepalive"}
  /\ q.what = "close" => /\ q.id \in DOMAIN chans /\ q.n = chans[q.id].remote
                         /\ opening.st # "idle" => q.id # opening.id
  /\ q.what = "keepalive" => q.id = 0 /\ seen'.kept
(* A channel is closed by the packet that says so. *)
Closings(q) ==
  \/ KeepsClosing
  \/ /\ q.what = "close" /\ \E w : Ships(q, w) /\ w.what = "close"
     /\ \A id \in DOMAIN chans' : id # q.id => chans'[id].closing = chans[id].closing
Mute(q) ==
  /\ MutePacket(q) /\ (Stays(q) \/ \E w : Ships(q, w) /\ w.what = q.what)
  /\ SameQueues /\ brigade' = brigade /\ KeepsChans /\ Closings(q) /\ DOMAIN chans' = DOMAIN chans
  /\ KeepsTold /\ KeepsSeen
  /\ calls <= calls' /\ call.op \in Others /\ call'.op \in Others

(* What such an operation sends is its own kind of packet. *)
LEMMA MuteShips ==
  ASSUME Base, NEW q, MutePacket(q), TransportSend(q) \/ SendBlocks(q)
  PROVE  Stays(q) \/ \E w : Ships(q, w) /\ w.what = q.what
<1>1. q \in WirePackets /\ q.what \notin {"confirm", "refuse", "pty", "size"}
  BY DEF MutePacket
<1>2. CASE TransportSend(q)
  <2>1. PICK w : Ships(q, w)
    BY <1>1, <1>2, ShipsIs
  <2>2. w.what = q.what
    BY <1>1, <2>1 DEF Ships
  <2> QED BY <2>1, <2>2
<1>3. CASE SendBlocks(q)
  BY <1>3, StaysIs
<1> QED BY <1>2, <1>3

(* Calls are only ever made. *)
LEMMA CallsGrow ==
  ASSUME Base, calls' = calls \/ calls' = calls + 1
  PROVE  calls <= calls' /\ calls \in Nat /\ calls' \in Nat
BY BoundsAssumption DEF Base, Types

(* History is kept. *)
LEMMA SeenSame ==
  ASSUME seen' = seen
  PROVE  KeepsSeen
BY DEF KeepsSeen

(* The beginning of one. *)
LEMMA BeginPlain ==
  ASSUME Base, NEW op \in {"accept", "free", "cancel"}, NEW ph, NEW id, Begin(op, ph, id),
         UNCHANGED <<chans, next, opening, direct, listen, listener, brigade, adding, out, server, peer, budget, seen>>
  PROVE  Plain
<1>1. call = NoCall /\ call'.op = op /\ told' = Silent /\ calls' = calls + 1
  BY DEF Begin
<1>2. call.op = "none"
  BY <1>1 DEF NoCall
<1> QED BY <1>1, <1>2, CallsGrow, SameKeeps, SeenSame DEF Plain, Leaves, Others, SameQueues, SameWires, KeepsTold

(* No call asks for anything. *)
LEMMA NoneOther ==
  NoCall.op \in Others /\ NoCall.op = "none"
BY DEF NoCall, Others

(* These send nothing. *)
LEMMA PlainSteps ==
  ASSUME Base, Accept \/ AcceptTakes \/ Free \/ FreeDisposes \/ Cancel \/ CancelDisposes \/ CancelEnds
  PROVE  Plain
<1>1. CASE Accept
  BY <1>1, BeginPlain DEF Accept
<1>2. CASE Free
  BY <1>2, BeginPlain DEF Free
<1>3. CASE Cancel
  BY <1>3, BeginPlain DEF Cancel
<1>4. CASE AcceptTakes
  <2>1. /\ call.op = "accept" /\ call' = NoCall
        /\ chans' = [chans EXCEPT ![Head(listener.queue)].place = "session"]
        /\ UNCHANGED <<next, opening, direct, listen, brigade, adding, out, server, peer, calls, budget, told, seen>>
    BY <1>4 DEF AcceptTakes, In, Returns
  <2>2. KeepsChans /\ KeepsClosing
    <3> DEFINE h == Head(listener.queue)
    <3>1. chans \in [DOMAIN chans -> ChannelType] /\ chans' = [chans EXCEPT ![h] = [chans[h] EXCEPT !.place = "session"]]
      BY <2>1 DEF Base, Types
    <3> HIDE DEF h
    <3>2. ASSUME h \in DOMAIN chans
          PROVE  /\ [chans[h] EXCEPT !.place = "session"].remote = chans[h].remote
                 /\ [chans[h] EXCEPT !.place = "session"].closing = chans[h].closing
                 /\ [chans[h] EXCEPT !.place = "session"].req = chans[h].req
      <4>1. chans[h] \in ChannelType
        BY <3>1, <3>2
      <4> QED BY <4>1 DEF ChannelType
    <3> QED BY <3>1, <3>2 DEF KeepsChans, KeepsClosing
  <2>3. Leaves
    BY <2>1 DEF Leaves
  <2> QED BY <2>1, <2>2, <2>3, CallsGrow, SeenSame, NoneOther DEF Plain, Others, SameQueues, SameWires, KeepsTold
<1>5. CASE FreeDisposes
  <2>1. /\ call.op = "free" /\ chans' = Without(call.id) /\ call' = NoCall
        /\ UNCHANGED <<next, opening, direct, listen, listener, brigade, adding, out, server, peer, calls, budget, told, seen>>
    BY <1>5 DEF FreeDisposes, In, Returns
  <2>2. Leaves
    <3>1. chans[call.id].closing = "sent"
      BY <1>5, <2>1, CloserIs DEF FreeDisposes, In
    <3> QED BY <2>1, <3>1 DEF Without, Leaves
  <2> QED BY <2>1, <2>2, WithoutKeeps, CallsGrow, SeenSame, NoneOther DEF Plain, Others, SameQueues, SameWires, KeepsTold
<1>6. CASE CancelDisposes
  <2>1. /\ call.op = "cancel" /\ chans' = Without(call.id)
        /\ call' = IF call.left = 0 THEN [call EXCEPT !.ph = "done"] ELSE CancelNext(Tail(listener.queue))
        /\ UNCHANGED <<next, opening, direct, listen, brigade, adding, out, server, peer, calls, budget, told, seen>>
    BY <1>6 DEF CancelDisposes, In
  <2>2. call'.op = "cancel"
    BY <2>1 DEF CancelNext, Base, Types, CallType
  <2>3. Leaves
    <3>1. chans[call.id].closing = "sent"
      BY <1>6, <2>1, CloserIs DEF CancelDisposes, In
    <3> QED BY <2>1, <3>1 DEF Without, Leaves
  <2> QED BY <2>1, <2>2, <2>3, WithoutKeeps, CallsGrow, SeenSame DEF Plain, Others, SameQueues, SameWires, KeepsTold
<1>7. CASE CancelEnds
  <2>1. /\ call.op = "cancel" /\ chans' = [id \in DOMAIN chans \ ToSet(listener.queue) |-> chans[id]]
        /\ seen' = [seen EXCEPT !.lost = @ \cup {chans[id].remote : id \in ToSet(listener.queue)}]
        /\ call' = NoCall
        /\ UNCHANGED <<next, opening, direct, listen, brigade, adding, out, server, peer, calls, budget, told>>
    BY <1>7 DEF CancelEnds, In, Returns
  <2>2. KeepsChans /\ KeepsClosing
    BY <2>1 DEF KeepsChans, KeepsClosing
  <2>3. KeepsSeen
    <3>1. seen \in SeenType
      BY DEF Base, Types
    <3> QED BY <2>1, <3>1 DEF KeepsSeen, SeenType
  <2>4. Leaves
    <3>1. seen'.lost = seen.lost \cup {chans[id].remote : id \in ToSet(listener.queue)}
      BY <2>1 DEF Base, Types, SeenType
    <3> QED BY <2>1, <3>1 DEF Leaves
  <2> QED BY <2>1, <2>2, <2>3, <2>4, CallsGrow, NoneOther DEF Plain, Others, SameQueues, SameWires, KeepsTold
<1> QED BY <1>1, <1>2, <1>3, <1>4, <1>5, <1>6, <1>7

(* Nor does a packet the channels do not keep change them. *)
LEMMA OtherArrivesIs ==
  ASSUME Base, OtherArrives
  PROVE  Plain
<1>1. /\ UNCHANGED <<chans, next, opening, direct, listen, listener, brigade, adding, out, server, peer,
                     calls, budget, told, seen>>
      /\ call.op \in {"free", "cancel"} /\ call'.op = call.op
  BY GoesOnIs DEF OtherArrives, WaitsForClose, Base
<1> QED BY <1>1, CallsGrow, SameKeeps, SeenSame DEF Plain, Leaves, Others, SameQueues, SameWires, KeepsTold

(* A free sends the close. *)
LEMMA FreeSendsIs ==
  ASSUME Base, FreeSends
  PROVE  \E q : Mute(q)
<1>1. /\ call.op \in {"free", "cancel"} /\ call.ph = "close"
      /\ UNCHANGED <<next, opening, direct, listen, listener, brigade, adding, calls, told, seen>>
  BY DEF FreeSends
<1>2. /\ call.id \in DOMAIN chans /\ call.id \in Nat /\ chans[call.id] \in ChannelType
      /\ call \in CallType /\ (opening.st # "idle" => call.id # opening.id)
  BY <1>1, CloserIs
<1> DEFINE q == Packet("close", call.id, chans[call.id].remote)
<1>3. q \in WirePackets /\ q.what = "close" /\ q.id = call.id /\ q.n = chans[call.id].remote
  <2>1. "close" \in Whats /\ chans[call.id].remote \in Nat
    BY <1>2 DEF Whats, ChannelType
  <2> QED BY <1>2, <2>1, PacketTyped
<1>4. \/ /\ TransportSend(q) /\ chans' = [chans EXCEPT ![call.id].closing = "sent"]
         /\ Phase(ClosePhase(chans[call.id]))
      \/ SendBlocks(q) /\ UNCHANGED <<chans, call>>
  BY DEF FreeSends
<1> HIDE DEF q
<1>5. MutePacket(q)
  BY <1>2, <1>3 DEF MutePacket
<1>6. Stays(q) \/ \E w : Ships(q, w) /\ w.what = q.what
  BY <1>4, <1>5, MuteShips
<1>7. KeepsChans /\ DOMAIN chans' = DOMAIN chans
  <2>1. CASE chans' = chans
    BY <2>1 DEF KeepsChans
  <2>2. CASE chans' = [chans EXCEPT ![call.id].closing = "sent"]
    <3> DEFINE c == chans[call.id]
    <3>1. chans \in [DOMAIN chans -> ChannelType] /\ chans' = [chans EXCEPT ![call.id] = [c EXCEPT !.closing = "sent"]]
      BY <2>2 DEF Base, Types
    <3>2. /\ [c EXCEPT !.closing = "sent"].remote = c.remote
          /\ [c EXCEPT !.closing = "sent"].req = c.req
      <4>1. c \in ChannelType
        BY <1>2
      <4> HIDE DEF c
      <4> QED BY <4>1 DEF ChannelType
    <3> QED BY <3>1, <3>2 DEF KeepsChans
  <2> QED BY <1>4, <2>1, <2>2
<1>10. Closings(q)
  <2>1. CASE chans' = chans
    BY <2>1 DEF Closings, KeepsClosing
  <2>2. CASE TransportSend(q) /\ chans' = [chans EXCEPT ![call.id].closing = "sent"]
    <3>1. PICK w : Ships(q, w)
      BY <1>3, <2>2, ShipsIs
    <3>2. w.what = "close"
      BY <1>3, <3>1 DEF Ships
    <3>3. \A id \in DOMAIN chans' : id # q.id => chans'[id].closing = chans[id].closing
      BY <1>3, <2>2 DEF Base, Types
    <3> QED BY <1>3, <3>1, <3>2, <3>3 DEF Closings
  <2> QED BY <1>4, <2>1, <2>2
<1>8. call'.op = call.op
  BY <1>2, <1>4 DEF Phase, CallType
<1>9. Mute(q)
  BY <1>1, <1>5, <1>6, <1>7, <1>8, <1>10, CallsGrow, SeenSame DEF Mute, SameQueues, KeepsTold, Others
<1> QED BY <1>9

(* A signal is one packet. *)
LEMMA SignalIs ==
  ASSUME Base, Signal
  PROVE  \E q : Mute(q)
<1>1. /\ call = NoCall /\ calls' = calls + 1
      /\ UNCHANGED <<chans, next, opening, direct, listen, listener, brigade, adding, call, told, seen>>
  BY DEF Signal
<1>2. PICK id \in Mine : TransportSend(Packet("signal", id, 0)) \/ SendBlocks(Packet("signal", id, 0))
  BY DEF Signal
<1> DEFINE q == Packet("signal", id, 0)
<1>3. q \in WirePackets /\ q.what = "signal"
  <2>1. "signal" \in Whats /\ id \in Nat /\ 0 \in Nat
    BY DEF Whats, Mine, Base, Types
  <2> QED BY <2>1, PacketTyped
<1> HIDE DEF q
<1>4. MutePacket(q)
  BY <1>3 DEF MutePacket
<1>5. Stays(q) \/ \E w : Ships(q, w) /\ w.what = q.what
  BY <1>2, <1>4, MuteShips DEF q
<1>6. Mute(q)
  BY <1>1, <1>4, <1>5, CallsGrow, SeenSame, SameKeeps, NoneOther DEF Mute, Closings, SameQueues, KeepsTold
<1> QED BY <1>6

(* So is a keepalive, if it is due. *)
LEMMA KeepaliveSendIs ==
  ASSUME Base, KeepaliveSend
  PROVE  \/ \E q : Mute(q)
         \/ Plain
<1>1. /\ call = NoCall /\ calls' = calls + 1
      /\ seen' = [seen EXCEPT !.kept = TRUE]
      /\ UNCHANGED <<chans, next, opening, direct, listen, listener, brigade, adding, call, told>>
  BY DEF KeepaliveSend
<1>2. calls \in Nat
  BY BoundsAssumption DEF Base, Types
<1> DEFINE q == Packet("keepalive", 0, calls + 1)
<1>3. TransportSend(q) \/ SendBlocks(q) \/ UNCHANGED <<out, server, peer>>
  BY DEF KeepaliveSend
<1>4. q \in WirePackets /\ q.what = "keepalive" /\ q.id = 0
  <2>1. "keepalive" \in Whats /\ 0 \in Nat /\ calls + 1 \in Nat
    BY <1>2 DEF Whats
  <2> QED BY <2>1, PacketTyped
<1> HIDE DEF q
<1>5. KeepsSeen /\ seen'.kept
  <2>1. seen \in SeenType
    BY DEF Base, Types
  <2> QED BY <1>1, <2>1 DEF KeepsSeen, SeenType
<1>6. MutePacket(q)
  BY <1>4, <1>5 DEF MutePacket
<1>7. CASE TransportSend(q) \/ SendBlocks(q)
  <2>1. Stays(q) \/ \E w : Ships(q, w) /\ w.what = q.what
    BY <1>6, <1>7, MuteShips
  <2>2. Mute(q)
    BY <1>1, <1>5, <1>6, <2>1, CallsGrow, SameKeeps, NoneOther DEF Mute, Closings, SameQueues, KeepsTold
  <2> QED BY <2>2
<1>8. CASE UNCHANGED <<out, server, peer>>
  BY <1>1, <1>5, <1>8, CallsGrow, SameKeeps, NoneOther DEF Plain, Leaves, SameQueues, SameWires, KeepsTold
<1> QED BY <1>3, <1>7, <1>8

(* And the cancel of the forwarding, unless it goes on at once. *)
LEMMA CancelSendsIs ==
  ASSUME Base, CancelSends
  PROVE  \/ \E q : Mute(q)
         \/ Plain
<1> DEFINE q == Packet("cancel", 0, 0)
<1>1. /\ call.op = "cancel"
      /\ UNCHANGED <<chans, next, opening, direct, listen, brigade, adding, calls, told, seen>>
      /\ TransportSend(q) \/ SendBlocks(q) \/ UNCHANGED <<out, server, peer>>
      /\ \/ call' = CancelNext(listener.queue)
         \/ UNCHANGED call
  BY DEF CancelSends, In
<1>2. q \in WirePackets /\ q.what = "cancel"
  <2>1. "cancel" \in Whats /\ 0 \in Nat
    BY DEF Whats
  <2> QED BY <2>1, PacketTyped
<1> HIDE DEF q
<1>3. MutePacket(q)
  BY <1>2 DEF MutePacket
<1>4. call'.op = "cancel"
  BY <1>1 DEF CancelNext, Base, Types, CallType
<1>5. CASE TransportSend(q) \/ SendBlocks(q)
  <2>1. Stays(q) \/ \E w : Ships(q, w) /\ w.what = q.what
    BY <1>3, <1>5, MuteShips
  <2>2. Mute(q)
    BY <1>1, <1>3, <1>4, <2>1, CallsGrow, SameKeeps, SeenSame DEF Mute, Closings, SameQueues, KeepsTold, Others
  <2> QED BY <2>2
<1>6. CASE UNCHANGED <<out, server, peer>>
  BY <1>1, <1>4, <1>6, CallsGrow, SameKeeps, SeenSame DEF Plain, Leaves, SameQueues, SameWires, KeepsTold, Others
<1> QED BY <1>1, <1>5, <1>6

(* A call begins. *)
Calls(op, id) ==
  /\ call = NoCall /\ calls' = calls + 1 /\ told' = Silent
  /\ call'.op = op /\ call'.id = id /\ call'.n = calls + 1
(* A call goes on to its reply. *)
Waiting == call'.op = call.op /\ call'.id = call.id /\ call'.n = call.n /\ call'.ph = "reply"

(* The steps of an open. *)
OpenBegins(type) ==
  /\ direct' = IF type = "tcpip" /\ direct = 0 THEN calls + 1 ELSE direct
  /\ \/ /\ opening.st = "idle" /\ Calls(type, next)
        /\ opening'.st = "created" /\ opening'.type = type /\ opening'.n = calls + 1 /\ opening'.id = next
        /\ Adds(next, 0) /\ next' = next + 1
     \/ /\ opening.st # "idle" /\ Calls(type, opening.id)
        /\ UNCHANGED <<opening, chans, next>>
  /\ SameWires /\ UNCHANGED <<listen, adding, seen>>
OpenPacket(q) ==
  q \in WirePackets /\ q.what = "open" /\ q.id = opening.id /\ q.n = opening.n /\ q.to = Message
OpenGoesOn ==
  /\ call.op \in Opens /\ call.ph = "send" /\ call.id = opening.id /\ opening.st = "created"
  /\ UNCHANGED <<chans, next, direct, listen, brigade, adding, calls, told, seen>>
OpenStays(q) == OpenGoesOn /\ OpenPacket(q) /\ Stays(q) /\ UNCHANGED <<opening, call>>
OpenSent(q, w) ==
  /\ OpenGoesOn /\ OpenPacket(q) /\ Ships(q, w) /\ w.what = "open" /\ Waiting
  /\ opening'.st = "sent" /\ opening'.type = opening.type
  /\ opening'.n = opening.n /\ opening'.id = opening.id
OpenAnswered(i) ==
  /\ call.op \in Opens /\ call.ph = "reply" /\ call.id = opening.id /\ opening.st = "sent"
  /\ call.op = opening.type
  /\ i \in DOMAIN brigade /\ brigade[i].t \in {"confirm", "refuse"} /\ brigade[i].id = opening.id
  /\ brigade' = RemoveAt(brigade, i)
  /\ opening' = NotOpening /\ call' = NoCall
  /\ direct' = IF call.op = "tcpip" THEN 0 ELSE direct
  /\ told'.op = call.op /\ told'.id = call.id /\ told'.n = call.n
  /\ told'.by = brigade[i].n /\ told'.to = brigade[i].to
  /\ brigade[i].t = "confirm" /\ brigade[i].n # 0 => Adds(opening.id, brigade[i].n)
  /\ brigade[i].t = "refuse" \/ brigade[i].n = 0 => chans' = Without(opening.id)
  /\ UNCHANGED <<next, listen, adding, out, server, peer, calls, seen>>
OpenFailed ==
  /\ call.op \in Opens /\ call.id = opening.id /\ opening.st = "sent"
  /\ opening' = NotOpening /\ call' = NoCall /\ told' = Silent
  /\ direct' = IF call.op = "tcpip" THEN 0 ELSE direct
  /\ chans' = Without(opening.id)
  /\ seen' = [seen EXCEPT !.given = @ \cup {call.id}, !.lost = @ \cup {opening.n}]
  /\ SameWires /\ UNCHANGED <<next, listen, adding, calls>>

(* The calls of an open. *)
LEMMA OpenCallsIs ==
  ASSUME Base, OpenSession \/ DirectTcpip
  PROVE  \E type \in Opens : OpenBegins(type)
<1>1. PICK type \in Opens :
        Open(type) /\ direct' = IF type = "tcpip" /\ direct = 0 THEN calls + 1 ELSE direct
  BY DEF OpenSession, DirectTcpip, Opens
<1>2. UNCHANGED <<listen, listener, brigade, adding, out, server, peer, budget, seen>>
  BY <1>1 DEF Open
<1>3. next \in Nat \ {0}
  BY DEF Base, Types
<1>4. \E ph : Begin(type, ph, IF opening.st = "idle" THEN next ELSE opening.id)
  BY <1>1 DEF Open
<1>5. CASE opening.st = "idle"
  <2>1. /\ opening' = [st |-> "created", type |-> type, n |-> calls + 1, id |-> next]
        /\ chans' = With(next, Channel(0, "session")) /\ next' = next + 1
    BY <1>1, <1>5 DEF Open
  <2>2. Adds(next, 0)
    BY <1>3, <2>1, WithAdds
  <2>3. Calls(type, next)
    BY <1>4, <1>5 DEF Begin, Calls
  <2> QED BY <1>1, <1>2, <1>5, <2>1, <2>2, <2>3 DEF OpenBegins, SameWires
<1>6. CASE opening.st # "idle"
  <2>1. UNCHANGED <<opening, chans, next>>
    BY <1>1, <1>6 DEF Open
  <2>2. Calls(type, opening.id)
    BY <1>4, <1>6 DEF Begin, Calls
  <2> QED BY <1>1, <1>2, <1>6, <2>1, <2>2 DEF OpenBegins, SameWires
<1> QED BY <1>5, <1>6

(* How the open is sent. *)
LEMMA OpenSendsIs ==
  ASSUME Base, OpenSends
  PROVE  \E q : OpenStays(q) \/ \E w : OpenSent(q, w)
<1>1. /\ opening \in OpeningType /\ opening.id \in Nat /\ opening.n \in Nat /\ Message \in Nat
      /\ call.op \in Opens /\ call.ph = "send" /\ call \in CallType
  BY DEF OpenSends, Base, Types, OpeningType, Message
<1> DEFINE q == [Packet("open", opening.id, opening.n) EXCEPT !.to = Message]
<1>2. OpenPacket(q)
  <2> DEFINE p == Packet("open", opening.id, opening.n)
  <2>1. p \in WirePackets /\ p.what = "open" /\ p.id = opening.id /\ p.n = opening.n
    <3>1. "open" \in Whats
      BY DEF Whats
    <3> QED BY <1>1, <3>1, PacketTyped
  <2> HIDE DEF p
  <2>2. q = [p EXCEPT !.to = Message]
    BY DEF p
  <2> HIDE DEF q
  <2> QED BY <1>1, <2>1, <2>2 DEF WirePackets, OpenPacket
<1>3. \/ TransportSend(q) /\ opening' = [opening EXCEPT !.st = "sent"] /\ Phase("reply")
      \/ SendBlocks(q) /\ UNCHANGED <<opening, call>>
  BY DEF OpenSends
<1> HIDE DEF q
<1>4. OpenGoesOn
  BY <1>1 DEF OpenSends, OpenGoesOn, Base, Callers
<1>5. CASE SendBlocks(q) /\ UNCHANGED <<opening, call>>
  BY <1>2, <1>4, <1>5, StaysIs DEF OpenStays
<1>6. CASE TransportSend(q) /\ opening' = [opening EXCEPT !.st = "sent"] /\ Phase("reply")
  <2>1. q \in WirePackets /\ q.what \notin {"confirm", "refuse", "pty", "size"}
    BY <1>2 DEF OpenPacket
  <2>2. PICK w : Ships(q, w)
    BY <1>6, <2>1, ShipsIs
  <2>3. w.what = "open"
    BY <1>2, <2>1, <2>2 DEF Ships, OpenPacket
  <2>4. Waiting
    BY <1>1, <1>6 DEF Waiting, Phase, CallType
  <2>5. /\ opening'.st = "sent" /\ opening'.type = opening.type
        /\ opening'.n = opening.n /\ opening'.id = opening.id
    BY <1>1, <1>6 DEF OpeningType
  <2>6. OpenSent(q, w)
    BY <1>2, <1>4, <2>2, <2>3, <2>4, <2>5 DEF OpenSent
  <2> QED BY <2>6
<1> QED BY <1>3, <1>5, <1>6

(* How it is answered. *)
LEMMA OpenRepliesIs ==
  ASSUME Base, OpenReplies
  PROVE  \E i : OpenAnswered(i)
<1> DEFINE i == FirstOf(brigade)
           r == brigade[i]
           what == [op |-> call.op, id |-> call.id, n |-> call.n, by |-> r.n, to |-> r.to, ok |-> r.t = "confirm"]
<1>1. /\ Found(brigade) /\ brigade' = RemoveAt(brigade, i)
      /\ call.op \in Opens /\ call.ph = "reply"
      /\ OpenEnds(Channel(IF r.t = "confirm" THEN r.n ELSE 0, "session"), what)
      /\ UNCHANGED <<next, listen, listener, adding, out, server, peer, calls, seen>>
  BY Zenon DEF OpenReplies
<1>2. i \in DOMAIN brigade /\ IsAnswer(r) /\ r \in ReplyType
  BY <1>1, TakesReply
<1>3. call.id = opening.id /\ opening.st = "sent"
  BY <1>1 DEF Base, Callers
<1>4. r.t \in {"confirm", "refuse"} /\ r.id = opening.id /\ call.op = opening.type
  <2>1. call.op \notin Kinds /\ call.op # "listen"
    BY <1>1, OpsApart
  <2>2. Wanted = {"confirm", "refuse"}
    BY <1>1, <2>1 DEF Wanted
  <2> HIDE DEF r, i
  <2> QED BY <1>1, <1>2, <1>3, <2>2 DEF IsAnswer
<1>5. /\ opening' = NotOpening /\ call' = NoCall
      /\ direct' = IF call.op = "tcpip" THEN 0 ELSE direct
      /\ told' = what
      /\ LET ch == Channel(IF r.t = "confirm" THEN r.n ELSE 0, "session") IN
         chans' = IF ch.remote = 0 THEN Without(opening.id) ELSE With(opening.id, ch)
  BY <1>1 DEF OpenEnds, Returns
<1>6. /\ told'.op = call.op /\ told'.id = call.id /\ told'.n = call.n
      /\ told'.by = r.n /\ told'.to = r.to
  BY <1>5
<1> HIDE DEF i, what
<1>7. r.n \in Nat /\ 0 \in Nat
  BY <1>2 DEF ReplyType
<1>8. r.t = "confirm" /\ r.n # 0 => Adds(opening.id, r.n)
  <2> SUFFICES ASSUME r.t = "confirm" /\ r.n # 0
               PROVE  Adds(opening.id, r.n)
    OBVIOUS
  <2>1. Channel(r.n, "session").remote = r.n
    BY <1>7, ChannelTyped
  <2>2. chans' = With(opening.id, Channel(r.n, "session"))
    BY <1>5, <2>1
  <2> HIDE DEF r
  <2> QED BY <1>7, <2>2, WithAdds
<1>9. r.t = "refuse" \/ r.n = 0 => chans' = Without(opening.id)
  <2> SUFFICES ASSUME r.t = "refuse" \/ r.n = 0
               PROVE  chans' = Without(opening.id)
    OBVIOUS
  <2>1. (IF r.t = "confirm" THEN r.n ELSE 0) = 0
    OBVIOUS
  <2>2. Channel(0, "session").remote = 0
    BY <1>7, ChannelTyped
  <2> QED BY <1>5, <2>1, <2>2
<1>10. OpenAnswered(i)
  BY <1>1, <1>2, <1>3, <1>4, <1>5, <1>6, <1>8, <1>9 DEF OpenAnswered
<1> QED BY <1>10

(* How it fails. *)
LEMMA OpenFailsIs ==
  ASSUME Base, OpenFails
  PROVE  OpenFailed
<1>1. /\ OpenEnds(Channel(0, "session"), Silent) /\ call.op \in Opens /\ call.ph # "send"
      /\ UNCHANGED <<next, listen, listener, brigade, adding, out, server, peer, calls>>
      /\ seen' = [seen EXCEPT !.given = @ \cup {call.id}, !.lost = @ \cup {opening.n}]
  BY DEF OpenFails
<1>2. call.id = opening.id /\ opening.st = "sent"
  BY <1>1 DEF Base, Callers
<1>3. Channel(0, "session").remote = 0
  BY ChannelTyped
<1>4. /\ opening' = NotOpening /\ call' = NoCall /\ told' = Silent
      /\ direct' = IF call.op = "tcpip" THEN 0 ELSE direct
      /\ chans' = Without(opening.id)
  BY <1>1, <1>3 DEF OpenEnds, Returns
<1> QED BY <1>1, <1>2, <1>4 DEF OpenFailed, SameWires

-----------------------------------------------------------------------------
(* The steps of a request. *)
RequestBegins(kind, id) ==
  /\ kind \in Kinds /\ id \in Mine /\ Calls(kind, id)
  /\ chans[id].req[kind].st # "end"
  /\ \/ chans[id].req[kind].st = "idle" /\ RequestSet(id, kind, [st |-> "created", n |-> calls + 1])
        /\ call'.ph = "send"
     \/ chans[id].req[kind].st # "idle" /\ chans' = chans
  /\ SameQueues /\ SameWires /\ UNCHANGED seen
RequestPacket(q, kind) ==
  q \in WirePackets /\ q.what = kind /\ q.id = call.id /\ q.n = chans[call.id].req[kind].n
RequestGoesOn(kind) ==
  /\ kind \in Kinds /\ call.op = kind /\ call.ph = "send" /\ call.id \in Mine
  /\ SameQueues /\ UNCHANGED <<brigade, calls, told, seen>>
RequestStays(kind, q) ==
  RequestGoesOn(kind) /\ RequestPacket(q, kind) /\ Stays(q) /\ UNCHANGED <<chans, call>>
RequestSent(kind, q, w) ==
  /\ RequestGoesOn(kind) /\ RequestPacket(q, kind) /\ Ships(q, w) /\ Waiting
  /\ RequestSet(call.id, kind, [chans[call.id].req[kind] EXCEPT !.st = "sent"])
Told(kind, i) ==
  [op |-> kind, id |-> call.id, n |-> call.n, by |-> brigade[i].n, to |-> 0, ok |-> brigade[i].t = "success"]
RequestAnswered(kind, i, r) ==
  /\ kind \in Kinds /\ call.op = kind /\ call.ph = "reply" /\ call.id \in Mine
  /\ i \in DOMAIN brigade /\ brigade[i].t \in {"success", "failure"} /\ brigade[i].id = call.id
  /\ brigade' = RemoveAt(brigade, i)
  /\ RequestSet(call.id, kind, r) /\ RequestOver(kind, Told(kind, i), r)
  /\ SameQueues /\ UNCHANGED <<out, server, peer, calls, seen>>
RequestFailed(kind, r) ==
  /\ kind \in Kinds /\ call.op = kind /\ call.ph \in {"reply", "fail"} /\ call.id \in Mine
  /\ RequestSet(call.id, kind, r) /\ RequestOver(kind, Silent, r)
  /\ seen' = [seen EXCEPT !.given = @ \cup {call.id}]
  /\ SameQueues /\ SameWires /\ UNCHANGED calls

(* The calls of a request. *)
LEMMA RequestIs ==
  ASSUME Base, NEW kind \in Kinds, NEW id, Request(kind, id)
  PROVE  RequestBegins(kind, id)
<1>1. /\ id \in Mine /\ chans[id].req[kind].st # "end"
      /\ Begin(kind, IF chans[id].req[kind].st = "sent" THEN "reply" ELSE "send", id)
      /\ chans' = IF chans[id].req[kind].st = "idle"
                  THEN [chans EXCEPT ![id].req[kind] = [st |-> "created", n |-> calls + 1]]
                  ELSE chans
      /\ UNCHANGED <<next, opening, direct, listen, listener, brigade, adding, out, server, peer, budget, seen>>
  BY DEF Request
<1>2. Calls(kind, id)
  BY <1>1 DEF Begin, Calls
<1>3. CASE chans[id].req[kind].st = "idle"
  <2>1. chans' = [chans EXCEPT ![id].req[kind] = [st |-> "created", n |-> calls + 1]]
    BY <1>1, <1>3
  <2>2. [st |-> "created", n |-> calls + 1] \in RequestType
    BY BoundsAssumption DEF RequestType, Base, Types
  <2>3. id \in DOMAIN chans
    BY <1>1 DEF Mine
  <2>4. RequestSet(id, kind, [st |-> "created", n |-> calls + 1])
    BY <2>1, <2>2, <2>3, RequestOnly DEF Base
  <2>5. call'.ph = "send"
    BY <1>1, <1>3 DEF Begin
  <2> QED BY <1>1, <1>2, <1>3, <2>4, <2>5 DEF RequestBegins, SameQueues, SameWires
<1>4. CASE chans[id].req[kind].st # "idle"
  BY <1>1, <1>2, <1>4 DEF RequestBegins, SameQueues, SameWires
<1> QED BY <1>3, <1>4

(* Of any kind. *)
LEMMA RequestsIs ==
  ASSUME Base, Setenv \/ RequestPty \/ RequestAuthAgent \/ ProcessStartup
  PROVE  \E kind \in Kinds, id \in Mine : RequestBegins(kind, id)
BY Names, RequestIs DEF Setenv, RequestPty, RequestAuthAgent, ProcessStartup

(* How a request is sent. *)
LEMMA RequestSendsIs ==
  ASSUME Base, NEW kind \in Kinds, RequestSends(kind)
  PROVE  \E q : RequestStays(kind, q) \/ \E w : RequestSent(kind, q, w)
<1>1. /\ call.op = kind /\ call.ph = "send" /\ call.id \in Mine /\ call \in CallType
      /\ call.id \in DOMAIN chans /\ call.id \in Nat
      /\ chans[call.id].req[kind] \in RequestType /\ chans[call.id] \in ChannelType
  BY DEF RequestSends, In, Base, Callers, Mine, Types, ChannelType, CallType
<1> DEFINE q == Packet(kind, call.id, chans[call.id].req[kind].n)
<1>2. RequestPacket(q, kind)
  <2>1. kind \in Whats /\ chans[call.id].req[kind].n \in Nat
    BY <1>1 DEF Whats, RequestType
  <2> QED BY <1>1, <2>1, PacketTyped DEF RequestPacket
<1>3. \/ TransportSend(q) /\ chans' = [chans EXCEPT ![call.id].req[kind].st = "sent"] /\ Phase("reply")
      \/ SendBlocks(q) /\ UNCHANGED <<chans, call>>
  BY DEF RequestSends
<1> HIDE DEF q
<1>4. RequestGoesOn(kind)
  BY <1>1 DEF RequestSends, RequestGoesOn, SameQueues
<1>5. CASE SendBlocks(q) /\ UNCHANGED <<chans, call>>
  BY <1>2, <1>4, <1>5, StaysIs DEF RequestStays
<1>6. CASE TransportSend(q) /\ chans' = [chans EXCEPT ![call.id].req[kind].st = "sent"] /\ Phase("reply")
  <2>1. q \in WirePackets /\ q.what \notin {"confirm", "refuse"}
    BY <1>2, Names DEF RequestPacket, OtherNames
  <2>2. PICK w : Ships(q, w)
    BY <1>6, <2>1, ShipsIs
  <2> DEFINE r == [chans[call.id].req[kind] EXCEPT !.st = "sent"]
  <2>3. r \in RequestType
    BY <1>1 DEF RequestType
  <2>4. chans' = [chans EXCEPT ![call.id].req[kind] = r]
    BY <1>6
  <2> HIDE DEF r
  <2>5. RequestSet(call.id, kind, r)
    BY <1>1, <2>3, <2>4, RequestOnly DEF Base
  <2>6. Waiting
    BY <1>1, <1>6 DEF Waiting, Phase, CallType
  <2>7. RequestSent(kind, q, w)
    BY <1>2, <1>4, <2>2, <2>5, <2>6 DEF RequestSent, r
  <2> QED BY <2>7
<1> QED BY <1>3, <1>5, <1>6

(* How it is answered. *)
LEMMA RequestRepliesIs ==
  ASSUME Base, NEW kind \in Kinds, RequestReplies(kind)
  PROVE  \E i, r : RequestAnswered(kind, i, r)
<1> DEFINE i == FirstOf(brigade)
<1>1. /\ Found(brigade) /\ brigade' = RemoveAt(brigade, i) /\ call.op = kind /\ call.ph = "reply"
      /\ RequestEnds(kind, Told(kind, i))
      /\ UNCHANGED <<next, opening, direct, listen, listener, adding, out, server, peer, calls, budget, seen>>
  BY Zenon DEF RequestReplies, In, Told
<1>2. i \in DOMAIN brigade /\ IsAnswer(brigade[i])
  BY <1>1, TakesReply
<1> HIDE DEF i
<1>3. brigade[i].t \in {"success", "failure"} /\ brigade[i].id = call.id
  <2>1. call.op \in Kinds /\ call.op \notin Opens /\ call.op # "listen"
    BY <1>1, OpsApart
  <2> QED BY <1>2, <2>1 DEF IsAnswer, Wanted
<1>4. call.id \in Mine
  BY <1>1 DEF Base, Callers
<1>5. PICK r \in RequestType : RequestSet(call.id, kind, r) /\ RequestOver(kind, Told(kind, i), r)
  <2> DEFINE reply == Told(kind, i)
  <2>1. call.ph \in {"reply", "fail"} /\ RequestEnds(kind, reply)
    BY <1>1
  <2> HIDE DEF reply
  <2>2. \E r \in RequestType : RequestSet(call.id, kind, r) /\ RequestOver(kind, reply, r)
    BY <1>1, <2>1, RequestEndsIs, Zenon
  <2> QED BY <2>2 DEF reply
<1>6. RequestAnswered(kind, i, r)
  BY <1>1, <1>2, <1>3, <1>4, <1>5 DEF RequestAnswered, SameQueues
<1> QED BY <1>6

(* How it fails. *)
LEMMA RequestFailsIs ==
  ASSUME Base, NEW kind \in Kinds, RequestFails(kind)
  PROVE  \E r : RequestFailed(kind, r)
<1>1. /\ RequestEnds(kind, Silent) /\ call.op = kind /\ call.ph \in {"reply", "fail"}
      /\ seen' = [seen EXCEPT !.given = @ \cup {call.id}]
      /\ UNCHANGED <<next, opening, direct, listen, listener, brigade, adding, out, server, peer, calls>>
  BY DEF RequestFails, In
<1>2. call.id \in Mine
  BY <1>1 DEF Base, Callers
<1>3. PICK r \in RequestType : RequestSet(call.id, kind, r) /\ RequestOver(kind, Silent, r)
  BY <1>1, RequestEndsIs, Zenon
<1>4. RequestFailed(kind, r)
  BY <1>1, <1>2, <1>3 DEF RequestFailed, SameQueues, SameWires
<1> QED BY <1>4

(* A size: it takes the place of a terminal request, or leaves itself unsent. *)
PtySized(id, q) ==
  /\ call = NoCall /\ call' = NoCall /\ id \in Mine /\ calls' = calls + 1 /\ told' = told
  /\ q \in WirePackets /\ q.what = "size" /\ q.id = id
  /\ \/ /\ chans[id].req["pty"].st = "sent" /\ UNCHANGED <<out, server, peer>>
        /\ RequestSet(id, "pty", Idle)
        /\ seen' = [seen EXCEPT !.given = @ \cup {id}]
     \/ /\ chans[id].req["pty"].st # "sent" /\ \E w : Ships(q, w)
        /\ RequestSet(id, "pty", Idle)
        /\ IF chans[id].req["pty"].st = "idle" THEN seen' = seen ELSE seen' = [seen EXCEPT !.given = @ \cup {id}]
     \/ /\ chans[id].req["pty"].st = "idle" /\ Stays(q)
        /\ RequestSet(id, "pty", [st |-> "created", n |-> calls + 1])
        /\ seen' = [seen EXCEPT !.given = @ \cup {id}, !.sized = @ \cup {id}]
  /\ SameQueues /\ UNCHANGED brigade

(* A size is one of these. *)
LEMMA PtySizeIs ==
  ASSUME Base, PtySize
  PROVE  \E id, q : PtySized(id, q)
<1>1. call = NoCall /\ call' = NoCall /\ calls' = calls + 1
      /\ UNCHANGED <<next, opening, direct, listen, listener, brigade, adding, told>>
  BY DEF PtySize
<1>2. PICK id \in Mine :
       LET r == chans[id].req["pty"]
           p == Packet("size", id, calls + 1)
       IN
       \/ /\ r.st = "sent" \/ TransportSend(p)
          /\ r.st = "sent" => UNCHANGED <<out, server, peer>>
          /\ chans' = [chans EXCEPT ![id].req["pty"] = Idle]
          /\ seen' = [seen EXCEPT !.given = IF r.st = "idle" THEN @ ELSE @ \cup {id}]
          /\ UNCHANGED budget
       \/ /\ r.st = "idle" /\ SendBlocks(p)
          /\ chans' = [chans EXCEPT ![id].req["pty"] = [st |-> "created", n |-> calls + 1]]
          /\ seen' = [seen EXCEPT !.given = @ \cup {id}, !.sized = @ \cup {id}]
  BY Zenon DEF PtySize
<1> DEFINE q == Packet("size", id, calls + 1)
           st == chans[id].req["pty"].st
<1>3. id \in DOMAIN chans /\ id \in Nat /\ calls \in Nat /\ seen \in SeenType
  BY BoundsAssumption DEF Mine, Base, Types
<1>4. q \in WirePackets /\ q.what = "size" /\ q.id = id
  <2>1. "size" \in Whats /\ calls + 1 \in Nat
    BY <1>3 DEF Whats
  <2> QED BY <1>3, <2>1, PacketTyped
<1>5. "pty" \in Kinds /\ Idle \in RequestType /\ [st |-> "created", n |-> calls + 1] \in RequestType
  BY <1>3, Names DEF Idle, RequestType
<1>6. \/ /\ st = "sent" \/ TransportSend(q)
         /\ st = "sent" => UNCHANGED <<out, server, peer>>
         /\ chans' = [chans EXCEPT ![id].req["pty"] = Idle]
         /\ seen' = [seen EXCEPT !.given = IF st = "idle" THEN @ ELSE @ \cup {id}]
      \/ /\ st = "idle" /\ SendBlocks(q)
         /\ chans' = [chans EXCEPT ![id].req["pty"] = [st |-> "created", n |-> calls + 1]]
         /\ seen' = [seen EXCEPT !.given = @ \cup {id}, !.sized = @ \cup {id}]
  BY <1>2, Zenon
<1> HIDE DEF q
<1>7. CASE /\ st = "sent" \/ TransportSend(q)
           /\ st = "sent" => UNCHANGED <<out, server, peer>>
           /\ chans' = [chans EXCEPT ![id].req["pty"] = Idle]
           /\ seen' = [seen EXCEPT !.given = IF st = "idle" THEN @ ELSE @ \cup {id}]
  <2>1. RequestSet(id, "pty", Idle)
    BY <1>3, <1>5, <1>7, RequestOnly DEF Base
  <2>2. IF st = "idle" THEN seen' = seen ELSE seen' = [seen EXCEPT !.given = @ \cup {id}]
    <3>1. seen = [seen EXCEPT !.given = @]
      BY <1>3 DEF SeenType
    <3> QED BY <1>7, <3>1
  <2>3. CASE st = "sent"
    <3>1. PtySized(id, q)
      BY <1>1, <1>4, <1>7, <2>1, <2>2, <2>3 DEF PtySized, SameQueues
    <3> QED BY <3>1
  <2>4. CASE st # "sent"
    <3>1. \E w : Ships(q, w)
      <4>1. TransportSend(q) /\ q.what \notin {"confirm", "refuse"}
        BY <1>4, <1>7, <2>4
      <4> QED BY <1>4, <4>1, ShipsIs
    <3>2. PtySized(id, q)
      BY <1>1, <1>4, <2>1, <2>2, <2>4, <3>1 DEF PtySized, SameQueues
    <3> QED BY <3>2
  <2> QED BY <2>3, <2>4
<1>8. CASE /\ st = "idle" /\ SendBlocks(q)
           /\ chans' = [chans EXCEPT ![id].req["pty"] = [st |-> "created", n |-> calls + 1]]
           /\ seen' = [seen EXCEPT !.given = @ \cup {id}, !.sized = @ \cup {id}]
  <2>1. RequestSet(id, "pty", [st |-> "created", n |-> calls + 1])
    BY <1>3, <1>5, <1>8, RequestOnly DEF Base
  <2>2. Stays(q)
    BY <1>8, StaysIs
  <2>3. PtySized(id, q)
    BY <1>1, <1>4, <1>8, <2>1, <2>2 DEF PtySized, SameQueues
  <2> QED BY <2>3
<1> QED BY <1>6, <1>7, <1>8

-----------------------------------------------------------------------------
(* The steps of a forwarding. *)
ListenBegins ==
  /\ Calls("listen", 0) /\ KeepsChans /\ KeepsClosing /\ DOMAIN chans' = DOMAIN chans
  /\ \/ listen.st = "idle" /\ listen'.st = "created" /\ listen'.n = calls + 1 /\ call'.ph = "send"
     \/ listen.st = "created" /\ listen' = listen /\ call'.ph = "send"
     \/ listen.st = "sent" /\ listen' = listen
  /\ SameWires /\ UNCHANGED <<next, opening, direct, adding, seen>>
ListenPacket(q) == q \in WirePackets /\ q.what = "listen" /\ q.id = 0 /\ q.n = listen.n
ListenGoesOn ==
  /\ call.op = "listen" /\ call.ph = "send" /\ call.id = 0 /\ listen.st = "created"
  /\ UNCHANGED <<chans, next, opening, direct, brigade, adding, calls, told, seen>>
ListenStays(q) == ListenGoesOn /\ ListenPacket(q) /\ Stays(q) /\ UNCHANGED <<listen, call>>
ListenSent(q, w) ==
  /\ ListenGoesOn /\ ListenPacket(q) /\ Ships(q, w) /\ w.what = "listen" /\ Waiting
  /\ listen'.st = "sent" /\ listen'.n = listen.n
ListenAnswered(i) ==
  /\ call.op = "listen" /\ call.ph = "reply" /\ call.id = 0
  /\ i \in DOMAIN brigade /\ brigade[i].t \in {"rsuccess", "rfailure"} /\ brigade[i].id = 0
  /\ brigade' = RemoveAt(brigade, i) /\ listen' = Idle /\ call' = NoCall
  /\ told'.op = "listen" /\ told'.n = call.n /\ told'.by = brigade[i].n
  /\ UNCHANGED <<chans, next, opening, direct, adding, out, server, peer, calls, seen>>
ListenFailed ==
  /\ call.op = "listen" /\ call.id = 0 /\ listen' = Idle /\ call' = NoCall
  /\ seen' = [seen EXCEPT !.given = @ \cup {0}]
  /\ SameWires /\ UNCHANGED <<chans, next, opening, direct, adding, calls, told>>
(* A call is given up. *)
Abandoned ==
  /\ call' = NoCall
  /\ seen' = [seen EXCEPT !.given = IF call.op \in {"listen"} \cup Opens \cup Kinds THEN @ \cup {call.id} ELSE @,
                          !.stale = @ \/ call.op = "tcpip"]
  /\ SameQueues /\ SameWires /\ UNCHANGED <<chans, calls, told>>

(* The call of a forwarding. *)
LEMMA ListenIs ==
  ASSUME Base, Listen
  PROVE  ListenBegins
<1>1. /\ Begin("listen", IF listen.st = "sent" THEN "reply" ELSE "send", 0)
      /\ listen' = IF listen.st = "idle" THEN [st |-> "created", n |-> calls + 1] ELSE listen
      /\ UNCHANGED <<chans, next, opening, direct, listener, brigade, adding, out, server, peer, budget, seen>>
  BY DEF Listen
<1>2. listen.st \in {"idle", "created", "sent"}
  BY DEF Base, Types, ListenType
<1>3. Calls("listen", 0) /\ call'.ph = IF listen.st = "sent" THEN "reply" ELSE "send"
  BY <1>1 DEF Begin, Calls
<1> QED BY <1>1, <1>2, <1>3, SameKeeps DEF ListenBegins, SameWires

(* How it is sent. *)
LEMMA ListenSendsIs ==
  ASSUME Base, ListenSends
  PROVE  \E q : ListenStays(q) \/ \E w : ListenSent(q, w)
<1>1. /\ call.op = "listen" /\ call.ph = "send" /\ call \in CallType /\ listen \in ListenType
      /\ call.id = 0 /\ listen.st = "created"
  BY DEF ListenSends, In, Base, Types, Callers
<1> DEFINE q == Packet("listen", 0, listen.n)
<1>2. ListenPacket(q)
  <2>1. "listen" \in Whats /\ listen.n \in Nat /\ 0 \in Nat
    BY <1>1 DEF Whats, ListenType
  <2> QED BY <2>1, PacketTyped DEF ListenPacket
<1>3. \/ TransportSend(q) /\ listen' = [listen EXCEPT !.st = "sent"] /\ Phase("reply")
      \/ SendBlocks(q) /\ UNCHANGED <<listen, call>>
  BY DEF ListenSends
<1> HIDE DEF q
<1>4. ListenGoesOn
  BY <1>1 DEF ListenSends, ListenGoesOn
<1>5. CASE SendBlocks(q) /\ UNCHANGED <<listen, call>>
  BY <1>2, <1>4, <1>5, StaysIs DEF ListenStays
<1>6. CASE TransportSend(q) /\ listen' = [listen EXCEPT !.st = "sent"] /\ Phase("reply")
  <2>1. q \in WirePackets /\ q.what \notin {"confirm", "refuse", "pty", "size"}
    BY <1>2 DEF ListenPacket
  <2>2. PICK w : Ships(q, w)
    BY <1>6, <2>1, ShipsIs
  <2>3. w.what = "listen"
    BY <1>2, <2>1, <2>2 DEF Ships, ListenPacket
  <2>4. Waiting
    BY <1>1, <1>6 DEF Waiting, Phase, CallType
  <2>5. listen'.st = "sent" /\ listen'.n = listen.n
    BY <1>1, <1>6 DEF ListenType
  <2>6. ListenSent(q, w)
    BY <1>2, <1>4, <2>2, <2>3, <2>4, <2>5 DEF ListenSent
  <2> QED BY <2>6
<1> QED BY <1>3, <1>5, <1>6

(* How it is answered. *)
LEMMA ListenRepliesIs ==
  ASSUME Base, ListenReplies
  PROVE  \E i : ListenAnswered(i)
<1> DEFINE i == FirstOf(brigade)
<1>1. /\ Found(brigade) /\ brigade' = RemoveAt(brigade, i)
      /\ call.op = "listen" /\ call.ph = "reply" /\ call' = NoCall /\ listen' = Idle
      /\ \E ok : told' = [op |-> "listen", id |-> 0, n |-> call.n, by |-> brigade[i].n, to |-> 0, ok |-> ok]
      /\ UNCHANGED <<chans, next, opening, direct, adding, out, server, peer, calls, budget, seen>>
  BY DEF ListenReplies, Returns, In
<1>2. i \in DOMAIN brigade /\ IsAnswer(brigade[i])
  BY <1>1, TakesReply
<1> HIDE DEF i
<1>3. call.id = 0
  BY <1>1 DEF Base, Callers
<1>4. brigade[i].t \in {"rsuccess", "rfailure"} /\ brigade[i].id = 0
  <2>1. call.op \notin Kinds /\ call.op \notin Opens
    BY <1>1, OpsApart
  <2>2. Wanted = {"rsuccess", "rfailure"}
    BY <1>1, <2>1 DEF Wanted
  <2> QED BY <1>2, <1>3, <2>2 DEF IsAnswer
<1>5. told'.op = "listen" /\ told'.n = call.n /\ told'.by = brigade[i].n
  BY <1>1
<1>6. ListenAnswered(i)
  BY <1>1, <1>2, <1>3, <1>4, <1>5 DEF ListenAnswered
<1> QED BY <1>6

(* How it fails. *)
LEMMA ListenFailsIs ==
  ASSUME Base, ListenFails
  PROVE  ListenFailed
<1>1. call.op = "listen"
  BY DEF ListenFails, In
<1>2. call.id = 0
  BY <1>1 DEF Base, Callers
<1> QED BY <1>1, <1>2 DEF ListenFails, ListenFailed, Returns, SameWires

(* Leaving a call off gives away the reply it may yet get. *)
LEMMA AbandonIs ==
  ASSUME Base, Abandon
  PROVE  Abandoned
BY DEF Abandon, Abandoned, Returns, SameQueues, SameWires

-----------------------------------------------------------------------------
(* Every step is one of these. *)
ServerStep ==
  \/ \E i \in DOMAIN server, t \in Tags : Reads(i, t)
  \/ \E i \in DOMAIN server : Closes(i)
  \/ ServerWaits \/ AddingLost \/ \E id, n : ServerKeeps(id, n)
OtherStep == Plain \/ \E q : Mute(q)
OpenStep ==
  \/ \E type \in Opens : OpenBegins(type)
  \/ \E q : OpenStays(q) \/ \E w : OpenSent(q, w)
  \/ \E i : OpenAnswered(i)
  \/ OpenFailed
RequestStep ==
  \/ \E kind \in Kinds, id \in Mine : RequestBegins(kind, id)
  \/ \E kind \in Kinds : \E q : RequestStays(kind, q) \/ \E w : RequestSent(kind, q, w)
  \/ \E kind \in Kinds : \E i, r : RequestAnswered(kind, i, r)
  \/ \E kind \in Kinds : \E r : RequestFailed(kind, r)
  \/ \E id, q : PtySized(id, q)
ListenStep ==
  \/ ListenBegins
  \/ \E q : ListenStays(q) \/ \E w : ListenSent(q, w)
  \/ \E i : ListenAnswered(i)
  \/ ListenFailed

(* Every action is one of them. *)
LEMMA StepIs ==
  ASSUME Base, Next
  PROVE  ServerStep \/ OtherStep \/ OpenStep \/ RequestStep \/ ListenStep \/ Abandoned
<1>0. CASE OtherArrives
  BY <1>0, OtherArrivesIs DEF OtherStep
<1>1. CASE Arrives \/ ServerOpens \/ X11Open \/ ServerIsRefused \/ AddingResumes
  BY <1>1, ArrivesIs, ServerOpensIs, RefusesIs, AddingResumesIs DEF X11Open, ServerIsRefused, ServerStep
<1>2. CASE OpenSession \/ DirectTcpip \/ OpenSends \/ OpenReplies \/ OpenFails
  BY <1>2, OpenCallsIs, OpenSendsIs, OpenRepliesIs, OpenFailsIs DEF OpenStep
<1>3. CASE Setenv \/ RequestPty \/ RequestAuthAgent \/ ProcessStartup
  BY <1>3, RequestsIs DEF RequestStep
<1>4. CASE \E kind \in Kinds : RequestSends(kind) \/ RequestReplies(kind) \/ RequestFails(kind)
  BY <1>4, RequestSendsIs, RequestRepliesIs, RequestFailsIs DEF RequestStep
<1>5. CASE PtySize
  BY <1>5, PtySizeIs DEF RequestStep
<1>6. CASE Signal \/ KeepaliveSend \/ FreeSends \/ CancelSends
  BY <1>6, SignalIs, KeepaliveSendIs, FreeSendsIs, CancelSendsIs DEF OtherStep
<1>7. CASE Listen \/ ListenSends \/ ListenReplies \/ ListenFails
  BY <1>7, ListenIs, ListenSendsIs, ListenRepliesIs, ListenFailsIs DEF ListenStep
<1>8. CASE Accept \/ AcceptTakes \/ Free \/ FreeDisposes \/ Cancel \/ CancelDisposes \/ CancelEnds
  BY <1>8, PlainSteps DEF OtherStep
<1>9. CASE Abandon
  BY <1>9, AbandonIs
<1> QED BY <1>0, <1>1, <1>2, <1>3, <1>4, <1>5, <1>6, <1>7, <1>8, <1>9 DEF Next

(* A packet that starts a program is sent once for a channel: what has been sent shows
   in the channel's request, a channel to come has none, and a packet the transport has
   a part of has not been sent. *)
Fresh(id) == id \notin peer.started /\ ~(out # None /\ out.what = "startup" /\ out.id = id)
Started(id) == chans[id].req["startup"].st \in {"sent", "end"}
StartedOk ==
  /\ ~peer.twice
  /\ \A id \in peer.started : id \in Nat /\ id < next
  /\ out # None /\ out.what = "startup" => out.id < next /\ out.id \notin peer.started
  /\ \A id \in DOMAIN chans : id \in peer.started => Started(id)
  /\ opening.st # "idle" => Fresh(opening.id)
  /\ adding # Nothing /\ adding.p.what = "confirm" => Fresh(adding.p.id)

(* What keeps it. *)
StartedFrame ==
  /\ KeepsPeer
  /\ out' = None \/ out' = out \/ out'.what # "startup"
  /\ next <= next'
  /\ \A id \in DOMAIN chans' :
       id \notin peer.started \/ (id \in DOMAIN chans /\ (Started(id) => Started(id)'))
  /\ opening'.st # "idle" => opening'.id = next \/ (opening.st # "idle" /\ opening'.id = opening.id)
  /\ adding' # Nothing /\ adding'.p.what = "confirm" =>
       adding'.p.id = next \/ (adding # Nothing /\ adding.p.what = "confirm" /\ adding'.p.id = adding.p.id)

(* Such a step keeps it. *)
LEMMA StartedFrames ==
  ASSUME Base, Base', StartedOk, StartedFrame
  PROVE  StartedOk'
<1>1. next \in Nat /\ next' \in Nat /\ peer'.started = peer.started /\ peer'.twice = peer.twice
  BY DEF Base, Types, StartedFrame, KeepsPeer
<1>2. out # None => out.id \in Nat
  BY DEF Base, Types, WirePackets
<1>3. Fresh(next)
  BY <1>1, <1>2 DEF StartedOk, Fresh
<1>4. \A id : Fresh(id) => Fresh(id)'
  BY <1>1 DEF StartedFrame, Fresh
<1>5. opening'.st # "idle" => Fresh(opening'.id)
  BY <1>3 DEF StartedOk, StartedFrame
<1>6. opening'.st # "idle" => Fresh(opening.id)'
  BY <1>4, <1>5 DEF Fresh
<1>7. adding' # Nothing /\ adding'.p.what = "confirm" => Fresh(adding.p.id)'
  BY <1>3, <1>4 DEF StartedOk, StartedFrame, Fresh
<1>8. /\ ~peer'.twice /\ \A id \in peer'.started : id \in Nat /\ id < next'
      /\ out' # None /\ out'.what = "startup" => out'.id < next' /\ out'.id \notin peer'.started
  BY <1>1, <1>2 DEF StartedOk, StartedFrame
<1>9. \A id \in DOMAIN chans' : id \in peer'.started => Started(id)'
  BY <1>1 DEF StartedOk, StartedFrame
<1> QED BY <1>6, <1>7, <1>8, <1>9 DEF StartedOk

(* No program is started. *)
LEMMA InitStarted ==
  ASSUME Init
  PROVE  StartedOk
BY DEF Init, StartedOk, NotOpening

(* The channels in it, by what is done to them. *)
StartedChans ==
  \A id \in DOMAIN chans' :
    id \notin peer.started \/ (id \in DOMAIN chans /\ (Started(id) => Started(id)'))

(* The channels are as they were. *)
LEMMA KeepsStarted ==
  ASSUME KeepsChans
  PROVE  StartedChans
BY DEF KeepsChans, Started, StartedChans

(* A new one has started nothing. *)
LEMMA AddsStarted ==
  ASSUME NEW id, NEW n, Adds(id, n), id \notin peer.started
  PROVE  StartedChans
BY DEF Adds, Started, StartedChans

(* A request of another kind, or one that goes on. *)
LEMMA RequestStarted ==
  ASSUME NEW id, NEW kind, NEW r, RequestSet(id, kind, r), id \in DOMAIN chans,
         kind # "startup" \/ id \notin peer.started \/ r.st \in {"sent", "end"}
  PROVE  StartedChans
<1>1. "startup" \in Kinds
  BY Names
<1> QED BY <1>1 DEF RequestSet, Started, StartedChans

(* No channel changes. *)
LEMMA SameStarted ==
  ASSUME chans' = chans
  PROVE  StartedChans
BY DEF Started, StartedChans

(* The server's steps. *)
LEMMA ServerStarted ==
  ASSUME Base, Base', StartedOk, ServerStep
  PROVE  StartedOk'
<1>1. next \in Nat /\ next \notin peer.started
  BY DEF Base, Types, StartedOk
<1>2. ASSUME NEW i, NEW t, Reads(i, t)
      PROVE  StartedFrame
  BY <1>1, <1>2, SameStarted DEF Reads, StartedFrame, StartedChans, SameQueues
<1>3. ASSUME NEW i, Closes(i)
      PROVE  StartedFrame
  BY <1>1, <1>3 DEF Closes, StartedFrame, Started, SameQueues
<1>4. CASE ServerWaits
  BY <1>1, <1>4, SameStarted, StartedFrames DEF ServerWaits, StartedFrame, StartedChans
<1>5. CASE AddingLost
  BY <1>1, <1>5, SameStarted, StartedFrames DEF AddingLost, StartedFrame, StartedChans
<1>6. ASSUME NEW id, NEW n, ServerKeeps(id, n)
      PROVE  StartedFrame
  <2>1. id \notin peer.started
    BY <1>1, <1>6 DEF ServerKeeps, StartedOk, Fresh
  <2>2. StartedChans
    BY <1>6, <2>1, AddsStarted DEF ServerKeeps
  <2>3. next <= next'
    BY <1>1, <1>6 DEF ServerKeeps
  <2> QED BY <1>6, <2>2, <2>3 DEF ServerKeeps, StartedFrame, StartedChans
<1> QED BY <1>2, <1>3, <1>4, <1>5, <1>6, StartedFrames DEF ServerStep

(* The calls that ask for nothing. *)
LEMMA OtherStarted ==
  ASSUME Base, Base', StartedOk, OtherStep
  PROVE  StartedOk'
<1>1. next \in Nat
  BY DEF Base, Types
<1>2. CASE Plain
  BY <1>1, <1>2, KeepsStarted, StartedFrames DEF Plain, StartedFrame, StartedChans, SameQueues, SameWires, KeepsPeer
<1>3. ASSUME NEW q, Mute(q)
      PROVE  StartedFrame
  <2>1. StartedChans /\ UNCHANGED <<next, opening, adding>>
    BY <1>3, KeepsStarted DEF Mute, SameQueues
  <2>2. KeepsPeer /\ (out' = None \/ out' = out \/ out'.what # "startup")
    BY <1>3 DEF Mute, MutePacket, Stays, Ships, KeepsPeer
  <2> QED BY <1>1, <2>1, <2>2 DEF StartedFrame, StartedChans
<1> QED BY <1>2, <1>3, StartedFrames DEF OtherStep

(* The opens. *)
LEMMA OpenStarted ==
  ASSUME Base, Base', StartedOk, OpenStep
  PROVE  StartedOk'
<1>1. next \in Nat /\ next \notin peer.started
  BY DEF Base, Types, StartedOk
<1>2. ASSUME NEW type, OpenBegins(type)
      PROVE  StartedFrame
  <2>1. CASE opening.st = "idle"
    BY <1>1, <1>2, <2>1, AddsStarted DEF OpenBegins, SameWires, StartedFrame, StartedChans, KeepsPeer
  <2>2. CASE opening.st # "idle"
    BY <1>1, <1>2, <2>2, SameStarted DEF OpenBegins, SameWires, StartedFrame, StartedChans, KeepsPeer
  <2> QED BY <2>1, <2>2
<1>3. ASSUME NEW q, OpenStays(q)
      PROVE  StartedFrame
  BY <1>1, <1>3, SameStarted DEF OpenStays, OpenGoesOn, OpenPacket, Stays, StartedFrame, StartedChans, KeepsPeer
<1>4. ASSUME NEW q, NEW w, OpenSent(q, w)
      PROVE  StartedFrame
  <2>1. StartedChans /\ UNCHANGED <<next, adding>> /\ opening.st # "idle" /\ opening'.id = opening.id
    BY <1>4, SameStarted DEF OpenSent, OpenGoesOn
  <2>2. KeepsPeer /\ out' = None
    BY <1>4 DEF OpenSent, Ships
  <2> QED BY <1>1, <2>1, <2>2 DEF StartedFrame, StartedChans
<1>5. ASSUME NEW i, OpenAnswered(i)
      PROVE  StartedFrame
  <2>1. opening.id \notin peer.started /\ NotOpening.st = "idle"
    BY <1>5 DEF OpenAnswered, StartedOk, Fresh, NotOpening
  <2>2. StartedChans
    <3>1. brigade[i].t \in {"confirm", "refuse"}
      BY <1>5 DEF OpenAnswered
    <3>2. CASE brigade[i].t = "confirm" /\ brigade[i].n # 0
      <4>1. Adds(opening.id, brigade[i].n)
        BY <1>5, <3>2 DEF OpenAnswered
      <4> QED BY <2>1, <4>1, AddsStarted
    <3>3. CASE brigade[i].t = "refuse" \/ brigade[i].n = 0
      <4>1. chans' = Without(opening.id)
        BY <1>5, <3>3 DEF OpenAnswered
      <4> QED BY <4>1, WithoutKeeps, KeepsStarted
    <3> QED BY <3>1, <3>2, <3>3
  <2>3. UNCHANGED <<next, adding, out, peer>> /\ opening' = NotOpening
    BY <1>5 DEF OpenAnswered
  <2> QED BY <1>1, <2>1, <2>2, <2>3 DEF StartedFrame, StartedChans, KeepsPeer
<1>6. CASE OpenFailed
  <2>1. StartedChans
    BY <1>6, WithoutKeeps, KeepsStarted DEF OpenFailed
  <2>2. UNCHANGED <<next, adding, out, peer>> /\ opening' = NotOpening /\ NotOpening.st = "idle"
    BY <1>6 DEF OpenFailed, SameWires, NotOpening
  <2> QED BY <1>1, <2>1, <2>2, StartedFrames DEF StartedFrame, StartedChans, KeepsPeer
<1> QED BY <1>2, <1>3, <1>4, <1>5, <1>6, StartedFrames DEF OpenStep

(* The requests: the one that starts a program is not sent again. *)
LEMMA RequestStepStarted ==
  ASSUME Base, Base', StartedOk, RequestStep
  PROVE  StartedOk'
<1>1. next \in Nat /\ next \notin peer.started
  BY DEF Base, Types, StartedOk
<1>2. \A id \in Mine : id \in DOMAIN chans /\ id \in Nat /\ id < next /\ (opening.st # "idle" => id # opening.id)
  BY DEF Mine, Base, Types
<1>3. ASSUME NEW kind \in Kinds, NEW id \in Mine, RequestBegins(kind, id)
      PROVE  StartedFrame
  <2>1. StartedChans
    <3>1. CASE chans[id].req[kind].st = "idle"
      <4>1. kind = "startup" => id \notin peer.started
        BY <1>2, <3>1 DEF StartedOk, Started
      <4>2. RequestSet(id, kind, [st |-> "created", n |-> calls + 1])
        BY <1>3, <3>1 DEF RequestBegins
      <4> QED BY <1>2, <4>1, <4>2, RequestStarted
    <3>2. CASE chans[id].req[kind].st # "idle"
      BY <1>3, <3>2, SameStarted DEF RequestBegins
    <3> QED BY <3>1, <3>2
  <2> QED BY <1>1, <1>3, <2>1 DEF RequestBegins, SameQueues, SameWires, StartedFrame, StartedChans, KeepsPeer
<1>4. ASSUME NEW kind \in Kinds, RequestGoesOn(kind), kind = "startup"
      PROVE  call.id \notin peer.started
  <2>1. call.id \in DOMAIN chans /\ chans[call.id].req["startup"].st = "created"
    BY <1>2, <1>4 DEF RequestGoesOn, Base, Callers
  <2> QED BY <2>1 DEF StartedOk, Started
<1>5. ASSUME NEW kind \in Kinds, NEW q, RequestStays(kind, q)
      PROVE  StartedOk'
  <2>1. /\ out' = q /\ q.what = kind /\ q.id = call.id /\ UNCHANGED <<chans, next, opening, adding, peer>>
        /\ call.id \in Mine /\ RequestGoesOn(kind)
    BY <1>5 DEF RequestStays, RequestGoesOn, RequestPacket, SameQueues, Stays
  <2>2. CASE kind # "startup"
    BY <1>1, <2>1, <2>2, SameStarted, StartedFrames DEF StartedFrame, StartedChans, KeepsPeer
  <2>3. CASE kind = "startup"
    <3>1. call.id \notin peer.started
      BY <1>4, <2>1, <2>3
    <3>2. adding # Nothing /\ adding.p.what = "confirm" => adding.p.id # call.id
      BY <1>2, <2>1 DEF Base, AddingOk
    <3>3. opening.st # "idle" => opening.id # call.id
      BY <1>2, <2>1
    <3>4. /\ ~peer'.twice /\ \A id \in peer'.started : id \in Nat /\ id < next'
          /\ out' # None /\ out'.what = "startup" => out'.id < next' /\ out'.id \notin peer'.started
      BY <1>2, <2>1, <3>1 DEF StartedOk
    <3>5. \A id \in DOMAIN chans' : id \in peer'.started => Started(id)'
      BY <2>1 DEF StartedOk, Started
    <3>6. /\ opening'.st # "idle" => Fresh(opening.id)'
          /\ adding' # Nothing /\ adding'.p.what = "confirm" => Fresh(adding.p.id)'
      BY <2>1, <3>2, <3>3 DEF StartedOk, Fresh
    <3> QED BY <3>4, <3>5, <3>6 DEF StartedOk
  <2> QED BY <2>2, <2>3
<1>6. ASSUME NEW kind \in Kinds, NEW q, NEW w, RequestSent(kind, q, w)
      PROVE  StartedOk'
  <2>1. /\ Ships(q, w) /\ q.what = kind /\ q.id = call.id /\ UNCHANGED <<next, opening, adding>>
        /\ call.id \in Mine /\ RequestGoesOn(kind) /\ out' = None /\ w.id = call.id
    BY <1>6 DEF RequestSent, RequestGoesOn, RequestPacket, SameQueues, Ships
  <2> DEFINE r == [chans[call.id].req[kind] EXCEPT !.st = "sent"]
  <2>2. RequestSet(call.id, kind, r)
    BY <1>6 DEF RequestSent
  <2>3. r.st = "sent"
    <3>1. chans[call.id].req[kind] \in RequestType
      BY <1>2, <2>1 DEF Base, Types, ChannelType
    <3> QED BY <3>1 DEF RequestType
  <2> HIDE DEF r
  <2>4. StartedChans
    BY <1>2, <2>1, <2>2, <2>3, RequestStarted
  <2>5. CASE w.what # "startup"
    <3>1. KeepsPeer
      BY <2>1, <2>5 DEF Ships
    <3> QED BY <1>1, <2>1, <2>4, <3>1, StartedFrames DEF StartedFrame, StartedChans
  <2>6. CASE w.what = "startup"
    <3>1. kind = "startup"
      BY <2>1, <2>6 DEF Ships
    <3>2. call.id \notin peer.started
      BY <1>4, <2>1, <3>1
    <3>3. peer'.started = peer.started \cup {call.id} /\ peer'.twice = peer.twice
      BY <2>1, <2>6, <3>2 DEF Ships
    <3>4. adding # Nothing /\ adding.p.what = "confirm" => adding.p.id # call.id
      BY <1>2, <2>1 DEF Base, AddingOk
    <3>5. /\ ~peer'.twice /\ \A id \in peer'.started : id \in Nat /\ id < next'
          /\ out' # None /\ out'.what = "startup" => out'.id < next' /\ out'.id \notin peer'.started
      BY <1>2, <2>1, <3>3 DEF StartedOk
    <3>6. Started(call.id)'
      <4>1. chans'[call.id].req["startup"] = r
        BY <2>2, <3>1 DEF RequestSet
      <4>2. call'.id = call.id
        BY <1>6 DEF RequestSent, Waiting
      <4> QED BY <2>3, <4>1, <4>2 DEF Started
    <3>7. \A id \in DOMAIN chans' : id \in peer'.started => Started(id)'
      <4>1. call'.id = call.id
        BY <1>6 DEF RequestSent, Waiting
      <4> QED BY <2>4, <3>3, <3>6, <4>1 DEF StartedOk, StartedChans, Started
    <3>8. /\ opening'.st # "idle" => Fresh(opening.id)'
          /\ adding' # Nothing /\ adding'.p.what = "confirm" => Fresh(adding.p.id)'
      BY <1>2, <2>1, <3>3, <3>4 DEF StartedOk, Fresh
    <3> QED BY <3>5, <3>7, <3>8 DEF StartedOk
  <2> QED BY <2>5, <2>6
<1>7. ASSUME NEW kind \in Kinds, NEW reply, NEW r, RequestOver(kind, reply, r), RequestSet(call.id, kind, r), call.id \in Mine
      PROVE  StartedChans
  <2>1. kind = "startup" => r.st = "end"
    BY <1>7 DEF RequestOver
  <2> QED BY <1>2, <1>7, <2>1, RequestStarted
<1>8. ASSUME NEW kind \in Kinds, NEW i, NEW r, RequestAnswered(kind, i, r)
      PROVE  StartedFrame
  <2>1. StartedChans
    BY <1>7, <1>8 DEF RequestAnswered
  <2> QED BY <1>1, <1>8, <2>1 DEF RequestAnswered, SameQueues, StartedFrame, StartedChans, KeepsPeer
<1>9. ASSUME NEW kind \in Kinds, NEW r, RequestFailed(kind, r)
      PROVE  StartedFrame
  <2>1. StartedChans
    BY <1>7, <1>9 DEF RequestFailed
  <2> QED BY <1>1, <1>9, <2>1 DEF RequestFailed, SameQueues, SameWires, StartedFrame, StartedChans, KeepsPeer
<1>10. ASSUME NEW id, NEW q, PtySized(id, q)
       PROVE  StartedFrame
  <2>1. UNCHANGED <<next, opening, adding>> /\ id \in Mine /\ \E r : RequestSet(id, "pty", r)
    BY <1>10 DEF PtySized, SameQueues
  <2>2. StartedChans
    BY <1>2, <2>1, RequestStarted
  <2>3. KeepsPeer /\ (out' = None \/ out' = out \/ out'.what # "startup")
    <3>1. CASE UNCHANGED <<out, server, peer>>
      BY <3>1 DEF KeepsPeer
    <3>2. CASE Stays(q)
      BY <1>10, <3>2 DEF KeepsPeer, Stays, PtySized
    <3>3. CASE \E w : Ships(q, w)
      BY <1>10, <3>3 DEF Ships, PtySized
    <3> QED BY <1>10, <3>1, <3>2, <3>3 DEF PtySized
  <2> QED BY <1>1, <2>1, <2>2, <2>3 DEF StartedFrame, StartedChans
<1> QED BY <1>3, <1>5, <1>6, <1>8, <1>9, <1>10, StartedFrames DEF RequestStep

(* The forwardings. *)
LEMMA ListenStarted ==
  ASSUME Base, Base', StartedOk, ListenStep
  PROVE  StartedOk'
<1>1. next \in Nat
  BY DEF Base, Types
<1>2. CASE ListenBegins
  BY <1>1, <1>2, KeepsStarted, StartedFrames DEF ListenBegins, SameWires, StartedFrame, StartedChans, KeepsPeer
<1>3. ASSUME NEW q, ListenStays(q)
      PROVE  StartedFrame
  BY <1>1, <1>3, SameStarted DEF ListenStays, ListenGoesOn, ListenPacket, Stays, StartedFrame, StartedChans, KeepsPeer
<1>4. ASSUME NEW q, NEW w, ListenSent(q, w)
      PROVE  StartedFrame
  <2>1. KeepsPeer /\ out' = None
    BY <1>4 DEF ListenSent, Ships
  <2> QED BY <1>1, <1>4, <2>1, SameStarted DEF ListenSent, ListenGoesOn, StartedFrame, StartedChans
<1>5. ASSUME NEW i, ListenAnswered(i)
      PROVE  StartedFrame
  BY <1>1, <1>5, SameStarted DEF ListenAnswered, StartedFrame, StartedChans, KeepsPeer
<1>6. CASE ListenFailed
  BY <1>1, <1>6, SameStarted, StartedFrames DEF ListenFailed, SameWires, StartedFrame, StartedChans, KeepsPeer
<1> QED BY <1>2, <1>3, <1>4, <1>5, <1>6, StartedFrames DEF ListenStep

(* Every step keeps it. *)
LEMMA StepStarted ==
  ASSUME Base, Base', StartedOk, [Next]_vars
  PROVE  StartedOk'
<1>1. CASE Abandoned
  <2>1. next \in Nat
    BY DEF Base, Types
  <2> QED BY <1>1, <2>1, SameStarted, StartedFrames DEF Abandoned, SameQueues, SameWires, StartedFrame, StartedChans, KeepsPeer
<1>2. CASE UNCHANGED vars
  BY <1>2 DEF vars, StartedOk, Started, Fresh
<1> QED BY <1>1, <1>2, StepIs, ServerStarted, OtherStarted, OpenStarted, RequestStepStarted, ListenStarted

-----------------------------------------------------------------------------
(* Nothing of a kind is asked or answered in a step. *)
Kept(kind) ==
  /\ \A S : (\A x \in S : x.kind = kind) => Keeping(server, server', S)
  /\ \A S : (\A x \in S : TagOf(kind, x.t)) => Keeping(brigade, brigade', S)

(* When nothing is. *)
LEMMA SameKept ==
  ASSUME NEW kind, server' = server, brigade' = brigade
  PROVE  Kept(kind)
BY KeepsAll DEF Kept

(* What waits at the server, and what is read. *)
LEMMA Sequences ==
  ASSUME Base
  PROVE  server \in Seq(QuestionType) /\ brigade \in Seq(ReplyType)
BY DEF Base, Types

(* A reply of another kind. *)
LEMMA ReadsKept ==
  ASSUME Base, NEW i, NEW t, Reads(i, t), NEW kind, server[i].kind # kind
  PROVE  Kept(kind)
<1>1. /\ i \in DOMAIN server /\ TagOf(server[i].kind, t) /\ server[i] \in QuestionType
      /\ server' = RemoveAt(server, i) /\ brigade' = Append(brigade, Reply(t, server[i]))
  BY Sequences DEF Reads
<1>2. Reply(t, server[i]) \in ReplyType /\ Reply(t, server[i]).t = t
  BY <1>1 DEF Reply, ReplyType, TagOf, Tags, QuestionType
<1>3. ~TagOf(kind, t)
  BY <1>1 DEF TagOf
<1>4. ASSUME NEW S, \A x \in S : x.kind = kind
      PROVE  Keeping(server, server', S)
  <2>1. server[i] \notin S
    BY <1>4
  <2> QED BY <1>1, <2>1, Sequences, KeepsRemove
<1>5. ASSUME NEW S, \A x \in S : TagOf(kind, x.t)
      PROVE  Keeping(brigade, brigade', S)
  <2>1. Reply(t, server[i]) \notin S
    BY <1>2, <1>3, <1>5
  <2> QED BY <1>1, <1>2, <2>1, Sequences, KeepsAppend
<1> QED BY <1>4, <1>5 DEF Kept

(* A close. *)
LEMMA ClosesKept ==
  ASSUME Base, NEW i, Closes(i), NEW kind, kind # "close"
  PROVE  Kept(kind)
<1>1. i \in DOMAIN server /\ server[i].kind = "close" /\ server' = RemoveAt(server, i) /\ brigade' = brigade
  BY DEF Closes
<1>2. ASSUME NEW S, \A x \in S : x.kind = kind
      PROVE  Keeping(server, server', S)
  <2>1. server[i] \notin S
    BY <1>1, <1>2
  <2> QED BY <1>1, <2>1, Sequences, KeepsRemove
<1> QED BY <1>1, <1>2, KeepsAll DEF Kept

(* A packet of another kind. *)
LEMMA ShipsKept ==
  ASSUME Base, NEW q, NEW w, Ships(q, w), brigade' = brigade, NEW kind,
         w.what \in Questioned => Question(w).kind # kind
  PROVE  Kept(kind)
<1>1. ASSUME NEW S, \A x \in S : x.kind = kind
      PROVE  Keeping(server, server', S)
  <2>1. CASE w.what \in Questioned
    <3>1. Question(w) \notin S /\ server' = Append(server, Question(w)) /\ Question(w) \in QuestionType
      BY <1>1, <2>1, QuestionTyped DEF Ships
    <3> QED BY <3>1, Sequences, KeepsAppend
  <2>2. CASE w.what \notin Questioned
    BY <2>2, KeepsAll DEF Ships
  <2> QED BY <2>1, <2>2
<1> QED BY <1>1, KeepsAll DEF Kept

(* A part of a packet. *)
LEMMA StaysKept ==
  ASSUME NEW q, Stays(q), brigade' = brigade, NEW kind
  PROVE  Kept(kind)
BY SameKept DEF Stays

(* A reply of another kind is taken. *)
LEMMA TakenKept ==
  ASSUME Base, NEW i \in DOMAIN brigade, brigade' = RemoveAt(brigade, i), server' = server,
         NEW kind, ~TagOf(kind, brigade[i].t)
  PROVE  Kept(kind)
<1>1. ASSUME NEW S, \A x \in S : TagOf(kind, x.t)
      PROVE  Keeping(brigade, brigade', S)
  <2>1. brigade[i] \notin S
    BY <1>1
  <2> QED BY <2>1, Sequences, KeepsRemove
<1> QED BY <1>1, KeepsAll DEF Kept

(* What is done to a count when an element moves, comes or goes. *)
LEMMA ReadsMoves ==
  ASSUME Base, NEW i, NEW t, Reads(i, t), NEW S, NEW R,
         server[i] \in S <=> Reply(t, server[i]) \in R
  PROVE  /\ Count(server, S)' + Count(brigade, R)' = Count(server, S) + Count(brigade, R)
         /\ ToSet(server') \subseteq ToSet(server) /\ server[i] \in ToSet(server)
         /\ ToSet(brigade') = ToSet(brigade) \cup {Reply(t, server[i])}
<1>1. /\ i \in DOMAIN server /\ TagOf(server[i].kind, t) /\ server[i] \in QuestionType
      /\ server' = RemoveAt(server, i) /\ brigade' = Append(brigade, Reply(t, server[i]))
  BY Sequences DEF Reads
<1> DEFINE r == Reply(t, server[i])
<1>2. r \in ReplyType
  BY <1>1 DEF Reply, ReplyType, TagOf, Tags, QuestionType
<1> HIDE DEF r
<1>3. Added(brigade', ReplyType, brigade, R, r)
  BY <1>1, <1>2, Sequences, CountAppend, Zenon DEF r
<1>4. /\ server[i] \in S => Count(server', S) = Count(server, S) - 1
      /\ server[i] \notin S => Count(server', S) = Count(server, S)
  BY <1>1, Sequences, CountRemove, Zenon
<1>5. Count(server, S) \in Nat /\ Count(brigade, R) \in Nat
  BY Sequences, CountNat
<1>6. ToSet(server') \subseteq ToSet(server) /\ server[i] \in ToSet(server)
  BY <1>1, Sequences, RemovedElements, Zenon
<1>7. Count(server', S) + Count(brigade', R) = Count(server, S) + Count(brigade, R)
  <2>1. CASE server[i] \in S
    <3>1. r \in R
      BY <2>1 DEF r
    <3> QED BY <1>3, <1>4, <1>5, <2>1, <3>1 DEF Added
  <2>2. CASE server[i] \notin S
    <3>1. r \notin R
      BY <2>2 DEF r
    <3> QED BY <1>3, <1>4, <1>5, <2>2, <3>1 DEF Added
  <2> QED BY <2>1, <2>2
<1>8. ToSet(brigade') = ToSet(brigade) \cup {r}
  BY <1>3 DEF Added
<1>9. Count(server, S)' = Count(server', S) /\ Count(brigade, R)' = Count(brigade', R)
  OBVIOUS
<1> QED BY <1>6, <1>7, <1>8 DEF r

(* A packet that goes out asks one thing more. *)
LEMMA ShipsAsks ==
  ASSUME Base, NEW q, NEW w, Ships(q, w), w.what \in Questioned, NEW S
  PROVE  /\ Question(w) \in S => Count(server', S) = Count(server, S) + 1
         /\ Question(w) \notin S => Count(server', S) = Count(server, S)
         /\ ToSet(server') = ToSet(server) \cup {Question(w)}
<1>1. w \in WirePackets /\ server' = Append(server, Question(w))
  BY DEF Ships
<1>2. Question(w) \in QuestionType
  BY <1>1, QuestionTyped
<1>3. Added(server', QuestionType, server, S, Question(w))
  BY <1>1, <1>2, Sequences, CountAppend, Zenon
<1> QED BY <1>3 DEF Added

(* A reply that is taken is one less. *)
LEMMA TakenCounts ==
  ASSUME Base, NEW i \in DOMAIN brigade, brigade' = RemoveAt(brigade, i), NEW S
  PROVE  /\ brigade[i] \in S => Count(brigade', S) = Count(brigade, S) - 1
         /\ brigade[i] \notin S => Count(brigade', S) = Count(brigade, S)
         /\ ToSet(brigade') \subseteq ToSet(brigade) /\ brigade[i] \in ToSet(brigade)
         /\ brigade[i] \in ReplyType
BY Sequences, CountRemove, RemovedElements, Zenon

-----------------------------------------------------------------------------
(* The opens: those that wait at the server and those answered, by the number of the
   call that built them. *)
OpensAsked(n) == {x \in QuestionType : x.kind = "open" /\ x.n = n}
OpensTold(n) == {x \in ReplyType : x.t \in {"confirm", "refuse"} /\ x.n = n}
Opened(n) == Count(server, OpensAsked(n)) + Count(brigade, OpensTold(n))
AskedOpens == {x \in ToSet(server) : x.kind = "open"}
ToldOpens == {x \in ToSet(brigade) : x.t \in {"confirm", "refuse"}}
Remote(n) == \E id \in DOMAIN chans : chans[id].remote = n

(* What waits or is answered counts. *)
LEMMA OpenedCounts ==
  ASSUME Base
  PROVE  /\ \A n : Opened(n) \in Nat
         /\ \A x \in AskedOpens : Opened(x.n) > 0 /\ x.n \in Nat /\ x.id \in Nat /\ x \in QuestionType
         /\ \A x \in ToldOpens : Opened(x.n) > 0 /\ x.n \in Nat /\ x.id \in Nat /\ x \in ReplyType
         /\ \A x \in AskedOpens, y \in ToldOpens : x.n = y.n => Opened(x.n) > 1
<1>1. \A n : Count(server, OpensAsked(n)) \in Nat /\ Count(brigade, OpensTold(n)) \in Nat
  BY Sequences, CountNat
<1>2. ASSUME NEW x \in AskedOpens
      PROVE  Count(server, OpensAsked(x.n)) > 0 /\ x.n \in Nat /\ x.id \in Nat /\ x \in QuestionType
  <2>1. x \in ToSet(server) /\ x \in QuestionType /\ x.kind = "open"
    BY Sequences DEF AskedOpens, ToSet
  <2>2. x \in OpensAsked(x.n) /\ x.n \in Nat /\ x.id \in Nat
    BY <2>1 DEF OpensAsked, QuestionType
  <2>3. Count(server, OpensAsked(x.n)) # 0
    BY <2>1, <2>2, Sequences, CountNone
  <2> QED BY <1>1, <2>1, <2>2, <2>3
<1>3. ASSUME NEW x \in ToldOpens
      PROVE  Count(brigade, OpensTold(x.n)) > 0 /\ x.n \in Nat /\ x.id \in Nat /\ x \in ReplyType
  <2>1. x \in ToSet(brigade) /\ x \in ReplyType /\ x.t \in {"confirm", "refuse"}
    BY Sequences DEF ToldOpens, ToSet
  <2>2. x \in OpensTold(x.n) /\ x.n \in Nat /\ x.id \in Nat
    BY <2>1 DEF OpensTold, ReplyType
  <2>3. Count(brigade, OpensTold(x.n)) # 0
    BY <2>1, <2>2, Sequences, CountNone
  <2> QED BY <1>1, <2>1, <2>2, <2>3
<1> QED BY <1>1, <1>2, <1>3 DEF Opened

(* Nothing is asked or answered. *)
OpensKept ==
  /\ \A n : Opened(n)' = Opened(n)
  /\ AskedOpens' \subseteq AskedOpens /\ ToldOpens' \subseteq ToldOpens

(* Steps of other kinds leave the opens. *)
LEMMA KeptOpens ==
  ASSUME Base, Base', Kept("open")
  PROVE  OpensKept
<1>1. ASSUME NEW n
      PROVE  Keeping(server, server', OpensAsked(n)) /\ Keeping(brigade, brigade', OpensTold(n))
  <2>1. \A x \in OpensAsked(n) : x.kind = "open"
    BY DEF OpensAsked
  <2>2. \A x \in OpensTold(n) : TagOf("open", x.t)
    BY DEF OpensTold, TagOf
  <2> QED BY <2>1, <2>2 DEF Kept
<1>2. \A n : Opened(n)' = Opened(n)
  BY <1>1 DEF Opened, Keeping
<1>3. ASSUME NEW x \in AskedOpens'
      PROVE  x \in AskedOpens
  <2>1. x \in ToSet(server') /\ x \in QuestionType /\ x.kind = "open"
    BY DEF Base, Types, AskedOpens, ToSet
  <2>2. x \in OpensAsked(x.n)
    BY <2>1 DEF OpensAsked
  <2> QED BY <1>1, <2>1, <2>2 DEF Keeping, AskedOpens
<1>4. ASSUME NEW x \in ToldOpens'
      PROVE  x \in ToldOpens
  <2>1. x \in ToSet(brigade') /\ x \in ReplyType /\ x.t \in {"confirm", "refuse"}
    BY DEF Base, Types, ToldOpens, ToSet
  <2>2. x \in OpensTold(x.n)
    BY <2>1 DEF OpensTold
  <2> QED BY <1>1, <2>1, <2>2 DEF Keeping, ToldOpens
<1> QED BY <1>2, <1>3, <1>4 DEF OpensKept

-----------------------------------------------------------------------------
(* The numbers of the opens are apart: every channel has its own, and none has that of
   an open in progress, of one the server still answers or of one not yet taken. *)
Numbered(n) == n <= calls \/ (FirstConn <= n /\ n <= FirstConn + peer.conns)
Token(x) == x.n \in 1..calls /\ x.id < next /\ ~Remote(x.n) /\ (opening.st # "idle" /\ x.id = opening.id => x.n = opening.n)
OneChannel ==
  \A i, j \in DOMAIN chans : chans[i].remote = chans[j].remote /\ chans[i].remote # 0 => i = j
(* All of that. *)
NumbersOk ==
  /\ OneChannel
  /\ \A n : Remote(n) => Numbered(n)
  /\ opening.st # "idle" => opening.n \in 1..calls /\ ~Remote(opening.n)
  /\ opening.st = "created" => Opened(opening.n) = 0
  /\ adding # Nothing => adding.p.n \in FirstConn + 1..FirstConn + peer.conns /\ ~Remote(adding.p.n)
  /\ \A x \in AskedOpens \cup ToldOpens : Token(x)
  /\ \A n : Opened(n) <= 1
  /\ out # None /\ out.what = "open" =>
       opening.st = "created" /\ out.n = opening.n /\ out.id = opening.id

(* What keeps it. *)
KeepsRemotes == \A id \in DOMAIN chans' : id \in DOMAIN chans /\ chans'[id].remote = chans[id].remote
NumbersFrame ==
  /\ KeepsRemotes /\ opening' = opening
  /\ calls <= calls' /\ next <= next' /\ peer.conns <= peer'.conns
  /\ adding' = Nothing \/ adding' = adding
  /\ out' = None \/ out' = out \/ out'.what # "open"

(* Numbers are numbers, and those of calls and of connections are apart. *)
LEMMA Bounds ==
  ASSUME Base
  PROVE  /\ calls \in Nat /\ next \in Nat /\ FirstConn \in Nat /\ peer.conns \in Nat /\ calls < FirstConn
         /\ \A id \in DOMAIN chans : chans[id].remote \in Nat /\ id \in Nat /\ id < next
         /\ opening.n \in Nat /\ opening.id \in Nat
         /\ adding # Nothing => adding.p.n \in Nat /\ adding.p.id \in Nat
         /\ out # None => out.n \in Nat /\ out.id \in Nat
<1>1. \A id \in DOMAIN chans : chans[id] \in ChannelType
  BY DEF Base, Types
<1>2. calls \in Nat /\ next \in Nat /\ FirstConn \in Nat /\ peer.conns \in Nat /\ calls < FirstConn
  BY BoundsAssumption DEF Base, Types, PeerType, FirstConn
<1>3. \A id \in DOMAIN chans : chans[id].remote \in Nat /\ id \in Nat /\ id < next
  BY <1>1 DEF Base, Types, ChannelType
<1>4. opening.n \in Nat /\ opening.id \in Nat
  BY DEF Base, Types, OpeningType
<1>5. /\ adding # Nothing => adding.p.n \in Nat /\ adding.p.id \in Nat
      /\ out # None => out.n \in Nat /\ out.id \in Nat
  BY DEF Base, Types, AddingType, WirePackets
<1> QED BY <1>2, <1>3, <1>4, <1>5

(* After the step as well. *)
LEMMA BoundsNext ==
  ASSUME Base'
  PROVE  calls' \in Nat /\ next' \in Nat /\ peer'.conns \in Nat
BY BoundsAssumption DEF Base, Types, PeerType

(* Such a step keeps it, whatever moves between server and library. *)
LEMMA NumbersFrames ==
  ASSUME Base, Base', NumbersOk, NumbersFrame, \A n : Opened(n)' = Opened(n),
         \A x \in (AskedOpens \cup ToldOpens)' : \E y \in AskedOpens \cup ToldOpens : y.id = x.id /\ y.n = x.n
  PROVE  NumbersOk'
<1> USE DEF NumbersFrame
<1>1. /\ calls \in Nat /\ calls' \in Nat /\ next \in Nat /\ next' \in Nat /\ FirstConn \in Nat
      /\ peer.conns \in Nat /\ peer'.conns \in Nat
      /\ \A id \in DOMAIN chans : chans[id].remote \in Nat
      /\ adding # Nothing => adding.p.n \in Nat
  BY Bounds, BoundsNext
<1>2. \A n : Remote(n)' => Remote(n)
  BY DEF Remote, KeepsRemotes
<1>3. OneChannel'
  BY DEF NumbersOk, OneChannel, KeepsRemotes
<1>4. \A n \in Nat : Numbered(n) => Numbered(n)'
  BY <1>1 DEF Numbered
<1>5. \A n : Remote(n)' => Numbered(n)'
  <2>1. \A n : Remote(n) => n \in Nat
    BY <1>1 DEF Remote
  <2> QED BY <1>2, <1>4, <2>1 DEF NumbersOk
<1>6. /\ opening'.st # "idle" => opening'.n \in 1..calls' /\ ~Remote(opening.n)'
      /\ opening'.st = "created" => Opened(opening.n)' = 0
  <2>1. opening.st # "idle" => opening.n \in 1..calls'
    BY <1>1 DEF NumbersOk
  <2>2. opening.st # "idle" => ~Remote(opening.n)'
    BY DEF NumbersOk, Remote, KeepsRemotes
  <2>3. opening.st = "created" => Opened(opening.n)' = 0
    <3>1. PICK n : n = opening.n
      OBVIOUS
    <3>2. Opened(n)' = Opened(n)
      OBVIOUS
    <3>3. Opened(opening.n)' = Opened(n)'
      BY <3>1 DEF Opened
    <3> QED BY <3>1, <3>2, <3>3 DEF NumbersOk
  <2> QED BY <2>1, <2>2, <2>3
<1>7. adding' # Nothing => adding'.p.n \in FirstConn + 1..FirstConn + peer'.conns /\ ~Remote(adding.p.n)'
  BY <1>1 DEF NumbersOk, Remote, KeepsRemotes
<1>8. ASSUME NEW x \in (AskedOpens \cup ToldOpens)'
      PROVE  Token(x)'
  <2>1. PICK y \in AskedOpens \cup ToldOpens : y.id = x.id /\ y.n = x.n
    OBVIOUS
  <2>2. Token(y) /\ y.n \in Nat /\ y.id \in Nat
    BY OpenedCounts DEF NumbersOk
  <2>3. ~Remote(x.n)'
    BY <2>1, <2>2 DEF Token, Remote, KeepsRemotes
  <2>4. x.n \in 1..calls' /\ x.id < next' /\ (opening'.st # "idle" /\ x.id = opening'.id => x.n = opening'.n)
    BY <1>1, <2>1, <2>2 DEF Token
  <2> QED BY <2>3, <2>4 DEF Token
<1>9. \A n : Opened(n)' <= 1
  BY DEF NumbersOk
<1>10. out' # None /\ out'.what = "open" =>
       opening'.st = "created" /\ out'.n = opening'.n /\ out'.id = opening'.id
  BY DEF NumbersOk
<1> QED BY <1>3, <1>5, <1>6, <1>7, <1>8, <1>9, <1>10 DEF NumbersOk

(* A step of another kind does. *)
LEMMA NumbersKept ==
  ASSUME Base, Base', NumbersOk, NumbersFrame, Kept("open")
  PROVE  NumbersOk'
<1>1. OpensKept
  BY KeptOpens
<1>2. \A x \in (AskedOpens \cup ToldOpens)' : x \in AskedOpens \cup ToldOpens
  BY <1>1 DEF OpensKept
<1> QED BY <1>1, <1>2, NumbersFrames DEF OpensKept

(* No number is given. *)
LEMMA InitNumbers ==
  ASSUME Init
  PROVE  NumbersOk
<1>1. /\ chans = [id \in {1} |-> Channel(FirstConn, "session")] /\ brigade = <<>> /\ server = <<>>
      /\ opening = NotOpening /\ adding = Nothing /\ out = None /\ peer.conns = 0
  BY DEF Init
<1>2. Channel(FirstConn, "session").remote = FirstConn /\ FirstConn \in Nat
  BY BoundsAssumption DEF Channel, FirstConn
<1>3. AskedOpens = {} /\ ToldOpens = {}
  BY <1>1 DEF AskedOpens, ToldOpens, ToSet
<1>4. \A n : Opened(n) = 0
  <2>1. ToSet(<<>>) = {} /\ <<>> \in Seq(QuestionType) /\ <<>> \in Seq(ReplyType)
    BY EmptyQueue
  <2>2. \A S : Count(<<>>, S) = 0
    BY <2>1, CountNone
  <2> QED BY <1>1, <2>2 DEF Opened
<1>5. Numbered(FirstConn)
  BY <1>1, <1>2 DEF Numbered
<1> QED BY <1>1, <1>2, <1>3, <1>4, <1>5 DEF NumbersOk, OneChannel, NotOpening, Remote

(* Channels that stay have theirs. *)
LEMMA KeepsChansRemotes ==
  ASSUME KeepsChans
  PROVE  KeepsRemotes
BY DEF KeepsChans, KeepsRemotes

(* A request leaves them. *)
LEMMA RequestRemotes ==
  ASSUME NEW id, NEW kind, NEW r, RequestSet(id, kind, r)
  PROVE  KeepsRemotes
BY DEF RequestSet, SameChans, KeepsRemotes

(* A channel of the server is added, with a number nobody has. *)
LEMMA AddsRemotes ==
  ASSUME Base, NEW id, NEW n, Adds(id, n), NumbersOk, ~Remote(n) \/ n = 0
  PROVE  /\ OneChannel'
         /\ \A m : Remote(m)' => Remote(m) \/ m = n
<1>1. \A i \in DOMAIN chans' : i # id => i \in DOMAIN chans /\ chans'[i].remote = chans[i].remote
  BY DEF Adds
<1>2. chans'[id].remote = n /\ id \in DOMAIN chans'
  BY DEF Adds
<1>3. \A m : Remote(m)' => Remote(m) \/ m = n
  BY <1>1, <1>2 DEF Remote
<1>4. OneChannel'
  <2> SUFFICES ASSUME NEW i \in DOMAIN chans', NEW j \in DOMAIN chans',
                      chans'[i].remote = chans'[j].remote, chans'[i].remote # 0
               PROVE  i = j
    BY DEF OneChannel
  <2>1. CASE i # id /\ j # id
    BY <1>1, <2>1 DEF NumbersOk, OneChannel
  <2>2. CASE i = id /\ j # id
    BY <1>1, <1>2, <2>2 DEF Remote
  <2>3. CASE i # id /\ j = id
    BY <1>1, <1>2, <2>3 DEF Remote
  <2> QED BY <2>1, <2>2, <2>3
<1> QED BY <1>3, <1>4

(* A reply to an open moves from the server to the library. *)
LEMMA ReadsNumbers ==
  ASSUME Base, Base', NumbersOk, NEW i, NEW t, Reads(i, t)
  PROVE  NumbersOk'
<1>1. NumbersFrame
  BY Bounds DEF Reads, NumbersFrame, KeepsRemotes, SameQueues
<1>2. CASE server[i].kind # "open"
  BY <1>1, <1>2, ReadsKept, NumbersKept
<1>3. CASE server[i].kind = "open"
  <2> DEFINE r == Reply(t, server[i])
  <2>1. /\ i \in DOMAIN server /\ server[i] \in QuestionType /\ TagOf("open", t)
        /\ t \in {"confirm", "refuse"}
    BY <1>3, Sequences DEF Reads, TagOf
  <2>2. r \in ReplyType /\ r.t = t /\ r.n = server[i].n /\ r.id = server[i].id
    BY <2>1 DEF Reply, ReplyType, Tags, QuestionType
  <2>3. ASSUME NEW n
        PROVE  Opened(n)' = Opened(n)
    <3>1. server[i] \in OpensAsked(n) <=> r \in OpensTold(n)
      BY <1>3, <2>1, <2>2 DEF OpensAsked, OpensTold
    <3>2. Count(server, OpensAsked(n))' + Count(brigade, OpensTold(n))' = Count(server, OpensAsked(n)) + Count(brigade, OpensTold(n))
      <4> DEFINE S == OpensAsked(n)
                 R == OpensTold(n)
      <4>1. server[i] \in S <=> r \in R
        BY <3>1
      <4>2. Count(server, S)' + Count(brigade, R)' = Count(server, S) + Count(brigade, R)
        <5> HIDE DEF S, R
        <5> QED BY <4>1, ReadsMoves
      <4> QED BY <4>2
    <3> QED BY <3>2 DEF Opened
  <2>4. /\ ToSet(server') \subseteq ToSet(server) /\ server[i] \in ToSet(server)
        /\ ToSet(brigade') = ToSet(brigade) \cup {r}
    <3>1. server[i] \in {server[i]} <=> r \in {r}
      OBVIOUS
    <3> QED BY <3>1, ReadsMoves
  <2>5. ASSUME NEW x \in (AskedOpens \cup ToldOpens)'
        PROVE  \E y \in AskedOpens \cup ToldOpens : y.id = x.id /\ y.n = x.n
    <3>1. server[i] \in AskedOpens
      BY <1>3, <2>4 DEF AskedOpens
    <3>2. x \in AskedOpens \cup ToldOpens \/ x = r
      BY <2>4 DEF AskedOpens, ToldOpens
    <3> QED BY <2>2, <3>1, <3>2
  <2> HIDE DEF r
  <2> QED BY <1>1, <2>3, <2>5, NumbersFrames
<1> QED BY <1>2, <1>3

(* The server takes a new number. *)
LEMMA ServerWaitsNumbers ==
  ASSUME Base, Base', NumbersOk, ServerWaits
  PROVE  NumbersOk'
<1> USE DEF ServerWaits
<1>1. /\ calls \in Nat /\ calls' = calls /\ next \in Nat /\ next <= next' /\ FirstConn \in Nat
      /\ peer.conns \in Nat /\ peer'.conns = peer.conns + 1 /\ next' \in Nat
      /\ calls < FirstConn
  BY Bounds
<1>2. OpensKept
  BY SameKept, KeptOpens
<1>3. \A n : Remote(n)' <=> Remote(n)
  BY DEF Remote
<1>4. \A n : Remote(n) => n \in Nat
  BY Bounds DEF Remote
<1>5. \A n : Remote(n)' => Numbered(n)'
  BY <1>1, <1>3, <1>4 DEF NumbersOk, Numbered
<1>6. opening'.st # "idle" => opening'.n \in 1..calls' /\ ~Remote(opening.n)'
  BY <1>3 DEF NumbersOk, Remote
<1>7. opening'.st = "created" => Opened(opening.n)' = 0
  BY <1>2 DEF NumbersOk, OpensKept, Opened
<1>8. adding' # Nothing => adding'.p.n \in FirstConn + 1..FirstConn + peer'.conns /\ ~Remote(adding.p.n)'
  <2> SUFFICES ASSUME adding' # Nothing
               PROVE  adding'.p.n \in FirstConn + 1..FirstConn + peer'.conns /\ ~Remote(adding.p.n)'
    OBVIOUS
  <2>1. adding'.p.n = FirstConn + 1 + peer.conns
    BY DEF NewConn
  <2>2. ~Remote(FirstConn + 1 + peer.conns)
    BY <1>1 DEF NumbersOk, Numbered
  <2> QED BY <1>1, <2>1, <2>2 DEF Remote
<1>9. ASSUME NEW x \in (AskedOpens \cup ToldOpens)'
      PROVE  Token(x)'
  <2>1. x \in AskedOpens \cup ToldOpens
    BY <1>2 DEF OpensKept
  <2>2. Token(x) /\ x.id \in Nat
    BY <2>1, OpenedCounts DEF NumbersOk
  <2> QED BY <1>1, <2>2 DEF Token, Remote
<1>10. OneChannel' /\ \A n : Opened(n)' <= 1
  BY <1>2 DEF NumbersOk, OneChannel, OpensKept
<1>11. out' # None /\ out'.what = "open" => opening'.st = "created" /\ out'.n = opening'.n /\ out'.id = opening'.id
  BY DEF NumbersOk
<1> QED BY <1>5, <1>6, <1>7, <1>8, <1>9, <1>10, <1>11 DEF NumbersOk

(* The library keeps a channel of the server. *)
LEMMA ServerKeepsNumbers ==
  ASSUME Base, Base', NumbersOk, NEW id, NEW n, ServerKeeps(id, n)
  PROVE  NumbersOk'
<1> USE DEF ServerKeeps
<1>1. /\ calls \in Nat /\ calls' = calls /\ next \in Nat /\ FirstConn \in Nat
      /\ peer.conns \in Nat /\ next' \in Nat /\ calls < FirstConn /\ next <= next'
      /\ peer'.conns = peer.conns \/ peer'.conns = peer.conns + 1
  BY Bounds
<1>2. OpensKept
  BY SameKept, KeptOpens
<1>3. n \in FirstConn + 1..FirstConn + peer'.conns /\ ~Remote(n) /\ n \in Nat
  <2>1. CASE n = NewConn /\ peer'.conns = peer.conns + 1
    <3>1. ~Remote(FirstConn + 1 + peer.conns)
      BY <1>1 DEF NumbersOk, Numbered
    <3> QED BY <1>1, <2>1, <3>1 DEF NewConn
  <2>2. CASE adding # Nothing /\ n = adding.p.n /\ peer'.conns = peer.conns
    BY <1>1, <2>2 DEF NumbersOk
  <2> QED BY <2>1, <2>2
<1>4. OneChannel' /\ \A m : Remote(m)' => Remote(m) \/ m = n
  BY <1>3, AddsRemotes
<1>5. \A m : Remote(m)' => Numbered(m)'
  <2>1. \A m : Remote(m) => m \in Nat
    BY Bounds DEF Remote
  <2> QED BY <1>1, <1>3, <1>4, <2>1 DEF NumbersOk, Numbered
<1>6. ASSUME NEW m \in 1..calls, ~Remote(m)
      PROVE  ~Remote(m)'
  BY <1>1, <1>3, <1>4, <1>6
<1>7. opening'.st # "idle" => opening'.n \in 1..calls' /\ ~Remote(opening.n)'
  <2>1. opening.st # "idle" => ~Remote(opening.n)'
    <3>1. PICK m : m = opening.n
      OBVIOUS
    <3>2. opening.st # "idle" => ~Remote(m)'
      BY <1>6, <3>1 DEF NumbersOk
    <3> QED BY <3>1, <3>2 DEF Remote
  <2> QED BY <1>1, <2>1 DEF NumbersOk
<1>8. opening'.st = "created" => Opened(opening.n)' = 0
  BY <1>2 DEF NumbersOk, OpensKept, Opened
<1>9. ASSUME NEW x \in (AskedOpens \cup ToldOpens)'
      PROVE  Token(x)'
  <2>1. x \in AskedOpens \cup ToldOpens
    BY <1>2 DEF OpensKept
  <2>2. Token(x) /\ x.id \in Nat
    BY <2>1, OpenedCounts DEF NumbersOk
  <2>3. ~Remote(x.n)'
    BY <1>6, <2>2 DEF Token
  <2> QED BY <1>1, <2>2, <2>3 DEF Token
<1>10. \A m : Opened(m)' <= 1
  BY <1>2 DEF NumbersOk, OpensKept
<1> QED BY <1>4, <1>5, <1>7, <1>8, <1>9, <1>10 DEF NumbersOk

(* The server's steps. *)
LEMMA ServerNumbers ==
  ASSUME Base, Base', NumbersOk, ServerStep
  PROVE  NumbersOk'
<1>1. ASSUME NEW i, Closes(i)
      PROVE  NumbersOk'
  <2>1. NumbersFrame
    BY <1>1, Bounds DEF Closes, NumbersFrame, KeepsRemotes, SameQueues
  <2> QED BY <1>1, <2>1, ClosesKept, NumbersKept
<1>2. CASE AddingLost
  <2>1. NumbersFrame
    BY <1>2, Bounds DEF AddingLost, NumbersFrame, KeepsRemotes
  <2> QED BY <1>2, <2>1, SameKept, NumbersKept DEF AddingLost
<1> QED BY <1>1, <1>2, ReadsNumbers, ServerWaitsNumbers, ServerKeepsNumbers DEF ServerStep

(* The packets of those calls are neither opens nor requests. *)
LEMMA MuteKept ==
  ASSUME Base, NEW q, Mute(q), NEW kind \in {"open", "request"}
  PROVE  Kept(kind)
<1>1. q.what \in {"close", "cancel", "signal", "keepalive"} /\ brigade' = brigade
  BY DEF Mute, MutePacket
<1>2. ASSUME NEW w, Ships(q, w), w.what = q.what
      PROVE  Kept(kind)
  <2>1. w.what \in Questioned => Question(w).kind # kind
    <3>1. w.what \notin Kinds /\ w.what # "open" /\ w \in WirePackets
      BY <1>1, <1>2, Names DEF OtherNames, Ships
    <3> QED BY <3>1, QuestionTyped
  <2> QED BY <1>1, <1>2, <2>1, ShipsKept
<1> QED BY <1>1, <1>2, StaysKept DEF Mute

(* The calls that ask for nothing. *)
LEMMA OtherNumbers ==
  ASSUME Base, Base', NumbersOk, OtherStep
  PROVE  NumbersOk'
<1>1. CASE Plain
  <2>1. NumbersFrame
    BY <1>1, Bounds, KeepsChansRemotes DEF Plain, NumbersFrame, SameQueues, SameWires
  <2> QED BY <1>1, <2>1, SameKept, NumbersKept DEF Plain, SameWires
<1>2. ASSUME NEW q, Mute(q)
      PROVE  NumbersOk'
  <2>1. NumbersFrame
    <3>1. KeepsRemotes /\ UNCHANGED <<next, opening, adding>> /\ calls <= calls'
      BY <1>2, KeepsChansRemotes DEF Mute, SameQueues
    <3>2. peer'.conns = peer.conns /\ (out' = None \/ out'.what # "open")
      BY <1>2 DEF Mute, MutePacket, Ships, Stays
    <3> QED BY <3>1, <3>2, Bounds DEF NumbersFrame
  <2> QED BY <1>2, <2>1, MuteKept, NumbersKept
<1> QED BY <1>1, <1>2 DEF OtherStep

(* The forwardings. *)
LEMMA ListenNumbers ==
  ASSUME Base, Base', NumbersOk, ListenStep
  PROVE  NumbersOk'
<1>1. CASE ListenBegins
  <2>1. NumbersFrame
    BY <1>1, Bounds, KeepsChansRemotes DEF ListenBegins, Calls, NumbersFrame, SameWires
  <2> QED BY <1>1, <2>1, SameKept, NumbersKept DEF ListenBegins, SameWires
<1>2. ASSUME NEW q, ListenStays(q)
      PROVE  NumbersOk'
  <2>1. NumbersFrame
    BY <1>2, Bounds DEF ListenStays, ListenGoesOn, ListenPacket, Stays, NumbersFrame, KeepsRemotes
  <2> QED BY <1>2, <2>1, StaysKept, NumbersKept DEF ListenStays, ListenGoesOn
<1>3. ASSUME NEW q, NEW w, ListenSent(q, w)
      PROVE  NumbersOk'
  <2>1. Ships(q, w) /\ w \in WirePackets /\ w.what = "listen"
    BY <1>3 DEF ListenSent, Ships
  <2>2. NumbersFrame
    <3>1. peer'.conns = peer.conns /\ out' = None
      BY <2>1 DEF Ships
    <3> QED BY <1>3, <3>1, Bounds DEF ListenSent, ListenGoesOn, NumbersFrame, KeepsRemotes
  <2>3. w.what \in Questioned => Question(w).kind # "open"
    BY <2>1, QuestionTyped
  <2> QED BY <1>3, <2>1, <2>2, <2>3, ShipsKept, NumbersKept DEF ListenSent, ListenGoesOn
<1>4. ASSUME NEW i, ListenAnswered(i)
      PROVE  NumbersOk'
  <2>1. NumbersFrame
    BY <1>4, Bounds DEF ListenAnswered, NumbersFrame, KeepsRemotes
  <2>2. i \in DOMAIN brigade /\ brigade' = RemoveAt(brigade, i) /\ server' = server /\ ~TagOf("open", brigade[i].t)
    BY <1>4 DEF ListenAnswered, TagOf
  <2> QED BY <2>1, <2>2, TakenKept, NumbersKept
<1>5. CASE ListenFailed
  <2>1. NumbersFrame
    BY <1>5, Bounds DEF ListenFailed, NumbersFrame, SameWires, KeepsRemotes
  <2> QED BY <1>5, <2>1, SameKept, NumbersKept DEF ListenFailed, SameWires
<1> QED BY <1>1, <1>2, <1>3, <1>4, <1>5 DEF ListenStep

(* What is sent for a request is one, or a size. *)
LEMMA ShipsRequest ==
  ASSUME NEW q, NEW w, Ships(q, w), q.what \in Kinds \cup {"size"}
  PROVE  /\ w.what \in Kinds \cup {"size"}
         /\ w.what \in Questioned => Question(w).kind = "request"
         /\ peer'.conns = peer.conns /\ peer'.open = peer.open
         /\ out' = None /\ w \in WirePackets
<1>1. w.what \in Kinds \cup {"size"} /\ w \in WirePackets
  BY Names DEF Ships
<1>2. "size" \notin Questioned
  BY Names DEF Questioned, OtherNames
<1>3. w.what \in Questioned => Question(w).kind = "request"
  BY <1>1, <1>2, QuestionTyped
<1> QED BY <1>1, <1>3 DEF Ships

(* A size is no open, no close and no forwarding. *)
LEMMA SizedIs ==
  ASSUME Base, NEW id, NEW q, PtySized(id, q), NEW kind, kind # "request"
  PROVE  /\ Kept(kind) /\ peer'.conns = peer.conns /\ peer'.open = peer.open
         /\ out' = None \/ out' = out \/ out'.what \in Kinds \cup {"size"}
<1>1. q.what \in Kinds \cup {"size"} /\ q.what = "size" /\ brigade' = brigade
  BY DEF PtySized
<1>2. CASE UNCHANGED <<out, server, peer>>
  BY <1>1, <1>2, SameKept
<1>3. CASE Stays(q)
  BY <1>1, <1>3, StaysKept DEF Stays
<1>4. ASSUME NEW w, Ships(q, w)
      PROVE  Kept(kind) /\ peer'.conns = peer.conns /\ peer'.open = peer.open /\ out' = None
  BY <1>1, <1>4, ShipsRequest, ShipsKept
<1> QED BY <1>2, <1>3, <1>4 DEF PtySized

(* It forgets no excuse. *)
LEMMA SizedSeen ==
  ASSUME Base, NEW id, NEW q, PtySized(id, q)
  PROVE  /\ seen.given \subseteq seen'.given /\ seen'.lost = seen.lost
         /\ seen'.kept = seen.kept /\ seen'.stale = seen.stale
<1>1. seen \in SeenType
  BY DEF Base, Types
<1>2. \/ seen' = seen \/ seen' = [seen EXCEPT !.given = @ \cup {id}]
      \/ seen' = [seen EXCEPT !.given = @ \cup {id}, !.sized = @ \cup {id}]
  BY Zenon DEF PtySized
<1> QED BY <1>1, <1>2 DEF SeenType

(* The requests. *)
LEMMA RequestNumbers ==
  ASSUME Base, Base', NumbersOk, RequestStep
  PROVE  NumbersOk'
<1>1. ASSUME NEW kind \in Kinds, NEW id \in Mine, RequestBegins(kind, id)
      PROVE  NumbersOk'
  <2>1. KeepsRemotes
    BY <1>1, RequestRemotes DEF RequestBegins, KeepsRemotes
  <2>2. NumbersFrame
    BY <1>1, <2>1, Bounds DEF RequestBegins, Calls, NumbersFrame, SameQueues, SameWires
  <2> QED BY <1>1, <2>2, SameKept, NumbersKept DEF RequestBegins, SameWires
<1>2. ASSUME NEW kind \in Kinds, NEW q, RequestStays(kind, q)
      PROVE  NumbersOk'
  <2>1. kind # "open"
    BY Names DEF OtherNames
  <2>2. NumbersFrame
    BY <1>2, <2>1, Bounds DEF RequestStays, RequestGoesOn, RequestPacket, Stays, NumbersFrame, SameQueues, KeepsRemotes
  <2> QED BY <1>2, <2>2, StaysKept, NumbersKept DEF RequestStays, RequestGoesOn
<1>3. ASSUME NEW kind \in Kinds, NEW q, NEW w, RequestSent(kind, q, w)
      PROVE  NumbersOk'
  <2>1. /\ Ships(q, w) /\ q.what \in Kinds \cup {"size"} /\ brigade' = brigade
        /\ UNCHANGED <<next, opening, adding, calls>>
    BY <1>3 DEF RequestSent, RequestPacket, RequestGoesOn, SameQueues
  <2>2. /\ peer'.conns = peer.conns /\ out' = None
        /\ w.what \in Questioned => Question(w).kind = "request"
    BY <2>1, ShipsRequest
  <2>3. KeepsRemotes
    BY <1>3, RequestRemotes DEF RequestSent
  <2>4. NumbersFrame
    BY <2>1, <2>2, <2>3, Bounds DEF NumbersFrame
  <2>5. Kept("open")
    BY <2>1, <2>2, ShipsKept
  <2> QED BY <2>4, <2>5, NumbersKept
<1>4. ASSUME NEW kind \in Kinds, NEW i, NEW r, RequestAnswered(kind, i, r)
      PROVE  NumbersOk'
  <2>1. NumbersFrame
    BY <1>4, Bounds, RequestRemotes DEF RequestAnswered, NumbersFrame, SameQueues
  <2>2. i \in DOMAIN brigade /\ brigade' = RemoveAt(brigade, i) /\ server' = server /\ ~TagOf("open", brigade[i].t)
    BY <1>4 DEF RequestAnswered, TagOf
  <2> QED BY <2>1, <2>2, TakenKept, NumbersKept
<1>5. ASSUME NEW kind \in Kinds, NEW r, RequestFailed(kind, r)
      PROVE  NumbersOk'
  <2>1. NumbersFrame
    BY <1>5, Bounds, RequestRemotes DEF RequestFailed, NumbersFrame, SameQueues, SameWires
  <2> QED BY <1>5, <2>1, SameKept, NumbersKept DEF RequestFailed, SameWires
<1>6. ASSUME NEW id, NEW q, PtySized(id, q)
      PROVE  NumbersOk'
  <2>1. Kept("open") /\ peer'.conns = peer.conns /\ (out' = None \/ out' = out \/ out'.what # "open")
    <3>1. "open" \notin Kinds \cup {"size"}
      BY Names DEF OtherNames
    <3> QED BY <1>6, <3>1, SizedIs
  <2>2. KeepsRemotes /\ UNCHANGED <<next, opening, adding>> /\ calls' = calls + 1
    BY <1>6, RequestRemotes DEF PtySized, SameQueues
  <2>3. NumbersFrame
    BY <2>1, <2>2, Bounds DEF NumbersFrame
  <2> QED BY <2>1, <2>3, NumbersKept
<1> QED BY <1>1, <1>2, <1>3, <1>4, <1>5, <1>6 DEF RequestStep

(* A number that nobody has counts for nothing. *)
LEMMA OpenedBy ==
  ASSUME Base, NEW n, \A x \in AskedOpens \cup ToldOpens : x.n # n
  PROVE  Opened(n) = 0
<1>1. \A x \in ToSet(server) : x \notin OpensAsked(n)
  BY DEF AskedOpens, OpensAsked
<1>2. \A x \in ToSet(brigade) : x \notin OpensTold(n)
  BY DEF ToldOpens, OpensTold
<1> QED BY <1>1, <1>2, Sequences, CountNone DEF Opened

(* An open takes the number of its call, which is new. *)
LEMMA OpenBeginsNumbers ==
  ASSUME Base, Base', NumbersOk, NEW type \in Opens, OpenBegins(type)
  PROVE  NumbersOk'
<1>1. OpensKept /\ calls' = calls + 1 /\ UNCHANGED <<out, peer, adding>>
  BY SameKept, KeptOpens DEF OpenBegins, SameWires, Calls
<1>2. CASE opening.st # "idle"
  <2>1. NumbersFrame
    BY <1>1, <1>2, Bounds DEF OpenBegins, NumbersFrame, KeepsRemotes
  <2> QED BY <2>1, SameKept, NumbersKept DEF OpenBegins, SameWires
<1>3. CASE opening.st = "idle"
  <2>1. /\ opening'.st = "created" /\ opening'.n = calls + 1 /\ opening'.id = next
        /\ Adds(next, 0) /\ next' = next + 1
    BY <1>3 DEF OpenBegins
  <2>2. calls \in Nat /\ next \in Nat /\ FirstConn \in Nat /\ peer.conns \in Nat /\ calls' < FirstConn
    <3>1. calls' \in 0..MaxCalls
      BY DEF Base, Types
    <3> QED BY <3>1, Bounds, BoundsAssumption DEF FirstConn
  <2>3. OneChannel' /\ \A m : Remote(m)' => Remote(m) \/ m = 0
    BY <2>1, AddsRemotes
  <2>4. \A m : Remote(m) => m \in Nat
    BY Bounds DEF Remote
  <2>5. \A m : Remote(m)' => Numbered(m)'
    BY <1>1, <2>2, <2>3, <2>4 DEF NumbersOk, Numbered
  <2>7. opening'.n \in 1..calls' /\ ~Remote(opening.n)'
    <3>1. PICK m : m = calls + 1
      OBVIOUS
    <3>2. ~Remote(m)'
      <4>1. ~Numbered(m)
        BY <2>2, <3>1, <1>1 DEF Numbered
      <4>2. m # 0
        BY <2>2, <3>1
      <4> QED BY <2>3, <4>1, <4>2 DEF NumbersOk
    <3>3. ~Remote(opening.n)'
      BY <2>1, <3>1, <3>2 DEF Remote
    <3> QED BY <1>1, <2>1, <2>2, <3>3
  <2>8. Opened(opening.n)' = 0
    <3>1. PICK m : m = calls + 1
      OBVIOUS
    <3>2. \A x \in AskedOpens \cup ToldOpens : x.n # m
      BY <2>2, <3>1 DEF NumbersOk, Token
    <3>3. Opened(m)' = 0
      BY <1>1, <3>2, OpenedBy DEF OpensKept
    <3> QED BY <2>1, <3>1, <3>3 DEF Opened
  <2>9. ASSUME NEW x \in (AskedOpens \cup ToldOpens)'
        PROVE  Token(x)'
    <3>1. x \in AskedOpens \cup ToldOpens
      BY <1>1 DEF OpensKept
    <3>2. Token(x) /\ x.id \in Nat /\ x.n \in Nat
      BY <3>1, OpenedCounts DEF NumbersOk
    <3>3. ~Remote(x.n)'
      BY <2>2, <2>3, <3>2 DEF Token
    <3> QED BY <1>1, <2>1, <2>2, <3>2, <3>3 DEF Token
  <2>10. adding' # Nothing => adding'.p.n \in FirstConn + 1..FirstConn + peer'.conns /\ ~Remote(adding.p.n)'
    <3>1. PICK m : m = adding.p.n
      OBVIOUS
    <3>2. adding # Nothing => m \in FirstConn + 1..FirstConn + peer.conns /\ ~Remote(m)'
      BY <2>2, <2>3, <3>1 DEF NumbersOk
    <3> QED BY <1>1, <3>1, <3>2 DEF Remote
  <2>11. \A m : Opened(m)' <= 1
    BY <1>1 DEF NumbersOk, OpensKept
  <2>12. out = None \/ out.what # "open"
    BY <1>3 DEF NumbersOk
  <2> QED BY <1>1, <2>1, <2>3, <2>5, <2>7, <2>8, <2>9, <2>10, <2>11, <2>12 DEF NumbersOk
<1> QED BY <1>2, <1>3

(* What is sent for an open is the open in progress. *)
LEMMA OpenSentIs ==
  ASSUME Base, NumbersOk, NEW q, NEW w, OpenSent(q, w)
  PROVE  /\ w \in WirePackets /\ w.what = "open" /\ w.what \in Questioned
         /\ w.id = opening.id /\ w.n = opening.n /\ opening.st = "created"
         /\ Question(w) \in QuestionType /\ Question(w).kind = "open"
         /\ Question(w).id = opening.id /\ Question(w).n = opening.n /\ Question(w).to = w.to
         /\ out' = None /\ peer'.open = peer.open /\ peer'.conns = peer.conns
<1>1. /\ Ships(q, w) /\ q.id = opening.id /\ q.n = opening.n /\ w.what = "open" /\ opening.st = "created"
  BY DEF OpenSent, OpenPacket, OpenGoesOn
<1>2. w \in WirePackets /\ w.id = q.id /\ (w = q \/ (out # None /\ w = out))
      /\ out' = None /\ peer'.open = peer.open /\ peer'.conns = peer.conns
  BY <1>1 DEF Ships
<1>3. w.n = opening.n
  BY <1>1, <1>2 DEF NumbersOk
<1>4. w.what \in Questioned
  BY <1>1 DEF Questioned
<1> QED BY <1>1, <1>2, <1>3, <1>4, QuestionTyped

(* It is asked for once. *)
LEMMA OpenSentNumbers ==
  ASSUME Base, Base', NumbersOk, NEW q, NEW w, OpenSent(q, w)
  PROVE  NumbersOk'
<1>1. /\ w \in WirePackets /\ w.what = "open" /\ w.what \in Questioned
      /\ w.id = opening.id /\ w.n = opening.n /\ opening.st = "created"
      /\ Question(w) \in QuestionType /\ Question(w).kind = "open"
      /\ Question(w).id = opening.id /\ Question(w).n = opening.n
      /\ out' = None /\ peer'.conns = peer.conns
  BY OpenSentIs
<1>2. /\ Ships(q, w) /\ UNCHANGED <<chans, next, brigade, adding, calls>>
      /\ opening'.st = "sent" /\ opening'.n = opening.n /\ opening'.id = opening.id
  BY DEF OpenSent, OpenGoesOn
<1>3. calls \in Nat /\ next \in Nat /\ opening.id < next /\ opening.n \in 1..calls /\ ~Remote(opening.n)
      /\ Opened(opening.n) = 0
  BY <1>1, Bounds DEF Base, OpeningOk, NumbersOk
<1>4. \A n : Remote(n)' <=> Remote(n)
  BY <1>2 DEF Remote
<1>5. ASSUME NEW n
      PROVE  Opened(n)' = IF n = opening.n THEN Opened(n) + 1 ELSE Opened(n)
  <2> DEFINE S == OpensAsked(n)
  <2>1. /\ Question(w) \in S => Count(server', S) = Count(server, S) + 1
        /\ Question(w) \notin S => Count(server', S) = Count(server, S)
    <3> HIDE DEF S
    <3> QED BY <1>1, <1>2, ShipsAsks
  <2>2. Question(w) \in S <=> n = opening.n
    BY <1>1 DEF OpensAsked
  <2>3. Count(server, S) \in Nat /\ Count(brigade, OpensTold(n)) \in Nat
    BY Sequences, CountNat
  <2> QED BY <1>2, <2>1, <2>2, <2>3 DEF Opened
<1>6. ToSet(server') = ToSet(server) \cup {Question(w)}
  <2>1. \A S : ToSet(server') = ToSet(server) \cup {Question(w)}
    BY <1>1, <1>2, ShipsAsks
  <2> QED BY <2>1
<1>7. ASSUME NEW x \in (AskedOpens \cup ToldOpens)'
      PROVE  Token(x)'
  <2>1. x \in AskedOpens \cup ToldOpens \/ x = Question(w)
    BY <1>2, <1>6 DEF AskedOpens, ToldOpens
  <2>2. CASE x \in AskedOpens \cup ToldOpens
    BY <1>1, <1>2, <1>4, <2>2 DEF NumbersOk, Token
  <2>3. CASE x = Question(w)
    BY <1>1, <1>2, <1>3, <1>4, <2>3 DEF Token
  <2> QED BY <2>1, <2>2, <2>3
<1>8. \A n : Opened(n)' <= 1
  <2>1. \A n : Opened(n) \in Nat
    BY OpenedCounts
  <2> QED BY <1>3, <1>5, <2>1 DEF NumbersOk
<1>9. \A n : Remote(n)' => Numbered(n)'
  BY <1>1, <1>2, <1>4 DEF NumbersOk, Numbered
<1>10. OneChannel'
  BY <1>2 DEF NumbersOk, OneChannel
<1>11. opening'.n \in 1..calls' /\ ~Remote(opening.n)'
  BY <1>2, <1>3, <1>4 DEF Remote
<1>12. adding' # Nothing => adding'.p.n \in FirstConn + 1..FirstConn + peer'.conns /\ ~Remote(adding.p.n)'
  BY <1>1, <1>2, <1>4 DEF NumbersOk, Remote
<1> QED BY <1>1, <1>2, <1>7, <1>8, <1>9, <1>10, <1>11, <1>12 DEF NumbersOk

(* The answer that is taken is that of the open in progress, and it was the only one. *)
LEMMA OpenAnsweredIs ==
  ASSUME Base, Base', NumbersOk, NEW i, OpenAnswered(i)
  PROVE  /\ brigade[i] \in ToldOpens /\ brigade[i].n = opening.n /\ opening.n \in 1..calls
         /\ brigade[i].n # 0 /\ opening.st = "sent"
         /\ \A n : Opened(n)' <= Opened(n)
         /\ (AskedOpens \cup ToldOpens)' \subseteq AskedOpens \cup ToldOpens
         /\ AskedOpens' = AskedOpens
         /\ \A x \in (AskedOpens \cup ToldOpens)' : x.n # opening.n
<1>1. /\ i \in DOMAIN brigade /\ brigade' = RemoveAt(brigade, i) /\ server' = server
      /\ brigade[i].t \in {"confirm", "refuse"} /\ brigade[i].id = opening.id /\ opening.st = "sent"
  BY DEF OpenAnswered
<1>2. /\ ToSet(brigade') \subseteq ToSet(brigade) /\ brigade[i] \in ToSet(brigade)
      /\ brigade[i] \in ReplyType
  <2>1. \A S : /\ ToSet(brigade') \subseteq ToSet(brigade) /\ brigade[i] \in ToSet(brigade)
               /\ brigade[i] \in ReplyType
    BY <1>1, TakenCounts
  <2> QED BY <2>1
<1>3. brigade[i] \in ToldOpens
  BY <1>1, <1>2 DEF ToldOpens
<1>4. brigade[i].n = opening.n /\ opening.n \in 1..calls
  BY <1>1, <1>3 DEF NumbersOk, Token
<1>5. ASSUME NEW n
      PROVE  Opened(n)' = IF n = opening.n THEN Opened(n) - 1 ELSE Opened(n)
  <2> DEFINE S == OpensTold(n)
  <2>1. /\ brigade[i] \in S => Count(brigade', S) = Count(brigade, S) - 1
        /\ brigade[i] \notin S => Count(brigade', S) = Count(brigade, S)
    <3> HIDE DEF S
    <3> QED BY <1>1, TakenCounts
  <2>2. brigade[i] \in S <=> n = opening.n
    BY <1>1, <1>2, <1>4 DEF OpensTold
  <2>3. Count(brigade, S) \in Nat /\ Count(server, OpensAsked(n)) \in Nat
    BY Sequences, CountNat
  <2> QED BY <1>1, <2>1, <2>2, <2>3 DEF Opened
<1>6. \A n : Opened(n) \in Nat
  BY OpenedCounts
<1>7. (AskedOpens \cup ToldOpens)' \subseteq AskedOpens \cup ToldOpens /\ AskedOpens' = AskedOpens
  BY <1>1, <1>2 DEF AskedOpens, ToldOpens
<1>8. ASSUME NEW x \in (AskedOpens \cup ToldOpens)', x.n = opening.n
      PROVE  FALSE
  <2>1. \A y \in (AskedOpens \cup ToldOpens)' : Opened(y.n)' > 0
    <3>1. ASSUME NEW n, Opened(n)' = 0
          PROVE  \A y \in (AskedOpens \cup ToldOpens)' : y.n # n
      <4>1. \A S, T : S \in {server'} /\ T \in {brigade'} => S \in Seq(QuestionType) /\ T \in Seq(ReplyType)
        BY DEF Base, Types
      <4>2. server' \in Seq(QuestionType) /\ brigade' \in Seq(ReplyType)
        BY <4>1
      <4>3. Count(server', OpensAsked(n)) \in Nat /\ Count(brigade', OpensTold(n)) \in Nat
        BY <4>2, CountNat
      <4>4. Count(server', OpensAsked(n)) = 0 /\ Count(brigade', OpensTold(n)) = 0
        BY <3>1, <4>3 DEF Opened
      <4>5. \A y \in ToSet(server') : y \notin OpensAsked(n)
        BY <4>2, <4>4, CountNone
      <4>6. \A y \in ToSet(brigade') : y \notin OpensTold(n)
        BY <4>2, <4>4, CountNone
      <4>7. \A y \in ToSet(server') : y \in QuestionType
        BY <4>2 DEF ToSet
      <4>8. \A y \in ToSet(brigade') : y \in ReplyType
        BY <4>2 DEF ToSet
      <4> QED BY <4>5, <4>6, <4>7, <4>8 DEF AskedOpens, ToldOpens, OpensAsked, OpensTold
    <3>2. \A n : Opened(n)' \in Nat
      BY <1>5, <1>6, <1>3, <1>4, OpenedCounts
    <3> QED BY <3>1, <3>2
  <2>2. Opened(opening.n) <= 1
    BY DEF NumbersOk
  <2>3. Opened(x.n)' = Opened(opening.n) - 1
    BY <1>5, <1>8
  <2> QED BY <1>6, <2>1, <2>2, <2>3
<1> QED BY <1>1, <1>3, <1>4, <1>5, <1>6, <1>7, <1>8

(* Its channel gets the number, and the open is over. *)
LEMMA OpenAnsweredNumbers ==
  ASSUME Base, Base', NumbersOk, NEW i, OpenAnswered(i)
  PROVE  NumbersOk'
<1>1. /\ brigade[i] \in ToldOpens /\ brigade[i].n = opening.n /\ opening.n \in 1..calls
      /\ brigade[i].n # 0 /\ opening.st = "sent"
      /\ \A n : Opened(n)' <= Opened(n)
      /\ (AskedOpens \cup ToldOpens)' \subseteq AskedOpens \cup ToldOpens
      /\ \A x \in (AskedOpens \cup ToldOpens)' : x.n # opening.n
  BY OpenAnsweredIs
<1>2. /\ opening' = NotOpening /\ UNCHANGED <<next, adding, out, peer, calls>>
      /\ brigade[i].t = "confirm" => Adds(opening.id, opening.n)
      /\ brigade[i].t = "refuse" => chans' = Without(opening.id)
      /\ brigade[i].t \in {"confirm", "refuse"}
  BY <1>1 DEF OpenAnswered
<1>3. ~Remote(opening.n) /\ calls \in Nat /\ FirstConn \in Nat /\ calls < FirstConn /\ peer.conns \in Nat
  BY <1>1, Bounds DEF NumbersOk
<1>4. OneChannel' /\ \A m : Remote(m)' => Remote(m) \/ m = opening.n
  <2>1. CASE brigade[i].t = "confirm"
    BY <1>2, <1>3, <2>1, AddsRemotes
  <2>2. CASE brigade[i].t = "refuse"
    <3>1. KeepsRemotes
      BY <1>2, <2>2, WithoutKeeps, KeepsChansRemotes
    <3> QED BY <3>1 DEF KeepsRemotes, Remote, OneChannel, NumbersOk
  <2> QED BY <1>2, <2>1, <2>2
<1>5. \A m : Remote(m)' => Numbered(m)'
  BY <1>1, <1>2, <1>3, <1>4 DEF NumbersOk, Numbered
<1>6. adding' # Nothing => adding'.p.n \in FirstConn + 1..FirstConn + peer'.conns /\ ~Remote(adding.p.n)'
  <2>1. PICK m : m = adding.p.n
    OBVIOUS
  <2>2. adding # Nothing => m \in FirstConn + 1..FirstConn + peer.conns /\ ~Remote(m)'
    BY <1>1, <1>3, <1>4, <2>1 DEF NumbersOk
  <2> QED BY <1>2, <2>1, <2>2 DEF Remote
<1>7. ASSUME NEW x \in (AskedOpens \cup ToldOpens)'
      PROVE  Token(x)'
  <2>1. Token(x) /\ x.n # opening.n
    BY <1>1 DEF NumbersOk
  <2>2. ~Remote(x.n)'
    BY <1>4, <2>1 DEF Token
  <2>3. opening'.st = "idle"
    BY <1>2 DEF NotOpening
  <2> QED BY <1>2, <2>1, <2>2, <2>3 DEF Token
<1>8. \A n : Opened(n)' <= 1
  <2>1. \A n : Opened(n) \in Nat /\ Opened(n)' \in Nat
    <3>1. \A S, T : S \in {server'} /\ T \in {brigade'} => S \in Seq(QuestionType) /\ T \in Seq(ReplyType)
      BY DEF Base, Types
    <3>2. server' \in Seq(QuestionType) /\ brigade' \in Seq(ReplyType)
      BY <3>1
    <3>3. \A n : Count(server', OpensAsked(n)) \in Nat /\ Count(brigade', OpensTold(n)) \in Nat
      BY <3>2, CountNat
    <3> QED BY <3>3, OpenedCounts DEF Opened
  <2> QED BY <1>1, <2>1 DEF NumbersOk
<1>9. out = None \/ out.what # "open"
  BY <1>1 DEF NumbersOk
<1>10. opening'.st = "idle"
  BY <1>2 DEF NotOpening
<1> QED BY <1>2, <1>4, <1>5, <1>6, <1>7, <1>8, <1>9, <1>10 DEF NumbersOk

(* Or nobody gets it. *)
LEMMA OpenFailedNumbers ==
  ASSUME Base, Base', NumbersOk, OpenFailed
  PROVE  NumbersOk'
<1>1. /\ opening' = NotOpening /\ UNCHANGED <<next, adding, calls>> /\ opening.st = "sent"
      /\ chans' = Without(opening.id) /\ SameWires
  BY DEF OpenFailed
<1>2. KeepsRemotes /\ OpensKept
  BY <1>1, WithoutKeeps, KeepsChansRemotes, SameKept, KeptOpens DEF SameWires
<1>3. \A m : Remote(m)' => Remote(m)
  BY <1>2 DEF KeepsRemotes, Remote
<1>4. OneChannel' /\ \A m : Remote(m)' => Numbered(m)'
  BY <1>1, <1>2, <1>3 DEF KeepsRemotes, OneChannel, NumbersOk, Numbered, SameWires
<1>5. adding' # Nothing => adding'.p.n \in FirstConn + 1..FirstConn + peer'.conns /\ ~Remote(adding.p.n)'
  BY <1>1, <1>2 DEF NumbersOk, SameWires, Remote, KeepsRemotes
<1>6. opening'.st = "idle" /\ (out' = None \/ out'.what # "open")
  BY <1>1 DEF NotOpening, NumbersOk, SameWires
<1>7. ASSUME NEW x \in (AskedOpens \cup ToldOpens)'
      PROVE  Token(x)'
  <2>1. Token(x)
    BY <1>2 DEF NumbersOk, OpensKept
  <2> QED BY <1>1, <1>3, <1>6, <2>1 DEF Token
<1>8. \A n : Opened(n)' <= 1
  BY <1>2 DEF OpensKept, NumbersOk
<1> QED BY <1>4, <1>5, <1>6, <1>7, <1>8 DEF NumbersOk

(* Every step keeps it. *)
LEMMA StepNumbers ==
  ASSUME Base, Base', NumbersOk, [Next]_vars
  PROVE  NumbersOk'
<1>1. ASSUME NEW q, OpenStays(q)
      PROVE  NumbersOk'
  <2>1. /\ q.what = "open" /\ q.n = opening.n /\ q.id = opening.id /\ out' = q /\ opening.st = "created"
        /\ UNCHANGED <<chans, next, opening, brigade, adding, server, peer, calls>>
    BY <1>1 DEF OpenStays, OpenGoesOn, OpenPacket, Stays
  <2> QED BY <2>1 DEF NumbersOk, OneChannel, Remote, Numbered, Opened, AskedOpens, ToldOpens, Token
<1>2. CASE OpenStep
  BY <1>1, <1>2, OpenBeginsNumbers, OpenSentNumbers, OpenAnsweredNumbers, OpenFailedNumbers DEF OpenStep
<1>3. CASE Abandoned
  <2>1. NumbersFrame
    BY <1>3, Bounds DEF Abandoned, NumbersFrame, KeepsRemotes, SameQueues, SameWires
  <2> QED BY <1>3, <2>1, SameKept, NumbersKept DEF Abandoned, SameWires
<1>4. CASE UNCHANGED vars
  <2>1. NumbersFrame
    BY <1>4, Bounds DEF NumbersFrame, KeepsRemotes, vars
  <2> QED BY <1>4, <2>1, SameKept, NumbersKept DEF vars
<1> QED BY <1>2, <1>3, <1>4, StepIs, ServerNumbers, OtherNumbers, RequestNumbers, ListenNumbers

(* What the run checks follows. *)
LEMMA InvHolds ==
  ASSUME Base, NumbersOk
  PROVE  Inv
BY DEF Base, Types, OpeningType, ListenType, ListenerType, CallType, Phases, OpeningOk, QueueOk,
       NumbersOk, OneChannel, Inv, TypeOK, Linked

(* The objects of the session hang together: the open in progress has its channel, the queue
   of the listener holds the channels that wait in it and is within its limit, and no two
   channels are one channel of the server. *)
THEOREM ChannelsLinked == Spec => []Inv
<1>1. Init => Base /\ NumbersOk
  BY InitBase, InitNumbers
<1>2. Base /\ NumbersOk /\ [Next]_vars => (Base /\ NumbersOk)'
  BY StepBase, StepNumbers
<1>3. Base /\ NumbersOk => Inv
  BY InvHolds
<1> QED BY <1>1, <1>2, <1>3, PTL DEF Spec

-----------------------------------------------------------------------------
(* A close that is sent or on its way names a channel that was open, by its number at
   the server: never the channel of an open in progress, nor one that is yet to be kept. *)
AskedCloses == {x \in ToSet(server) : x.kind = "close"}
(* A close of a channel that is there, or was. *)
CloseFits(x) ==
  /\ x.id < next
  /\ opening.st # "idle" => x.id # opening.id
  /\ adding # Nothing /\ adding.p.what = "confirm" => x.id # adding.p.id
  /\ x.id \in DOMAIN chans => chans[x.id].remote = x.n
(* All of them. *)
ClosesOk ==
  /\ \A x \in AskedCloses : CloseFits(x)
  /\ out # None /\ out.what = "close" => CloseFits(out)

(* What keeps it: the numbers are given in order. *)
NewId(id) ==
  \/ id = next
  \/ opening.st # "idle" /\ id = opening.id
  \/ adding # Nothing /\ adding.p.what = "confirm" /\ id = adding.p.id
IdsFrame ==
  /\ next <= next'
  /\ \A id \in DOMAIN chans' : (id \in DOMAIN chans /\ chans'[id].remote = chans[id].remote) \/ NewId(id)
  /\ opening'.st # "idle" => opening'.id = next \/ (opening.st # "idle" /\ opening'.id = opening.id)
  /\ adding' # Nothing /\ adding'.p.what = "confirm" =>
       adding'.p.id = next \/ (adding # Nothing /\ adding.p.what = "confirm" /\ adding'.p.id = adding.p.id)

(* A close that fits goes on to. *)
LEMMA CloseStays ==
  ASSUME Base, Base', IdsFrame, NEW x, x.id \in Nat, CloseFits(x)
  PROVE  CloseFits(x)'
<1>1. next \in Nat /\ next' \in Nat
  BY Bounds, BoundsNext
<1>2. ~NewId(x.id)
  BY <1>1 DEF CloseFits, NewId
<1> QED BY <1>1, <1>2 DEF CloseFits, IdsFrame

(* Such a step keeps it. *)
LEMMA ClosesFrames ==
  ASSUME Base, Base', ClosesOk, IdsFrame,
         \A x \in AskedCloses' : x \in AskedCloses \/ CloseFits(x),
         out' = None \/ out' = out \/ out'.what # "close" \/ \E x : out' = x /\ CloseFits(x)
  PROVE  ClosesOk'
<1>1. \A x \in AskedCloses' : x.id \in Nat
  <2>1. \A x \in ToSet(server') : x \in QuestionType
    BY DEF Base, Types, ToSet
  <2> QED BY <2>1 DEF AskedCloses, QuestionType
<1>2. ASSUME NEW x \in AskedCloses'
      PROVE  CloseFits(x)'
  BY <1>1, CloseStays DEF ClosesOk
<1>3. ASSUME out' # None, out'.what = "close"
      PROVE  CloseFits(out)'
  <2>1. \E x : out' = x /\ CloseFits(x)
    BY <1>3 DEF ClosesOk
  <2>2. PICK x : out' = x /\ CloseFits(x)
    BY <2>1
  <2>3. x.id \in Nat
    BY <1>3, <2>2 DEF Base, Types, WirePackets
  <2>4. CloseFits(x)'
    BY <2>2, <2>3, CloseStays
  <2> QED BY <2>2, <2>4 DEF CloseFits
<1> QED BY <1>2, <1>3 DEF ClosesOk

(* Steps of other kinds leave the closes. *)
LEMMA KeptCloses ==
  ASSUME Base, Base', Kept("close")
  PROVE  AskedCloses' \subseteq AskedCloses
<1> DEFINE S == {x \in QuestionType : x.kind = "close"}
<1>1. Keeping(server, server', S)
  BY DEF Kept
<1>2. \A x \in ToSet(server') : x \in QuestionType
  BY DEF Base, Types, ToSet
<1> QED BY <1>1, <1>2 DEF Keeping, AskedCloses

(* And keep it. *)
LEMMA ClosesKeptOk ==
  ASSUME Base, Base', ClosesOk, IdsFrame, Kept("close"), out' = None \/ out' = out \/ out'.what # "close"
  PROVE  ClosesOk'
BY KeptCloses, ClosesFrames

(* Nothing is closed. *)
LEMMA InitCloses ==
  ASSUME Init
  PROVE  ClosesOk
BY DEF Init, ClosesOk, AskedCloses, ToSet

(* The open in progress and the answer that waits are as they were. *)
LEMMA KeepsIds ==
  ASSUME Base, KeepsRemotes, next <= next', opening' = opening, adding' = adding
  PROVE  IdsFrame
BY DEF KeepsRemotes, IdsFrame

(* The server's steps. *)
LEMMA ServerCloses ==
  ASSUME Base, Base', ClosesOk, ServerStep
  PROVE  ClosesOk'
<1>1. ASSUME NEW i, NEW t, Reads(i, t)
      PROVE  ClosesOk'
  <2>1. IdsFrame /\ out' = out
    BY <1>1, KeepsIds, Bounds DEF Reads, KeepsRemotes, SameQueues
  <2>2. server[i].kind # "close"
    BY <1>1 DEF Reads, TagOf
  <2> QED BY <1>1, <2>1, <2>2, ReadsKept, ClosesKeptOk
<1>2. ASSUME NEW i, Closes(i)
      PROVE  ClosesOk'
  <2>1. IdsFrame /\ out' = out
    BY <1>2, KeepsIds, Bounds DEF Closes, KeepsRemotes, SameQueues
  <2>2. ToSet(server') \subseteq ToSet(server)
    BY <1>2, Sequences, RemovedElements, Zenon DEF Closes
  <2> QED BY <2>1, <2>2, ClosesFrames DEF AskedCloses
<1>3. CASE ServerWaits
  <2>1. IdsFrame /\ (out' = out \/ out'.what # "close")
    BY <1>3, Bounds DEF ServerWaits, IdsFrame
  <2> QED BY <1>3, <2>1, SameKept, ClosesKeptOk DEF ServerWaits
<1>4. CASE AddingLost
  <2>1. IdsFrame /\ out' = None
    BY <1>4, Bounds DEF AddingLost, IdsFrame
  <2> QED BY <1>4, <2>1, SameKept, ClosesKeptOk DEF AddingLost
<1>5. ASSUME NEW id, NEW n, ServerKeeps(id, n)
      PROVE  ClosesOk'
  <2>1. IdsFrame /\ out' = None
    BY <1>5, Bounds DEF ServerKeeps, IdsFrame, Adds, NewId
  <2> QED BY <1>5, <2>1, SameKept, ClosesKeptOk DEF ServerKeeps
<1> QED BY <1>1, <1>2, <1>3, <1>4, <1>5 DEF ServerStep

(* A free or a cancel sends the close of a channel it has. *)
LEMMA OtherCloses ==
  ASSUME Base, Base', ClosesOk, OtherStep
  PROVE  ClosesOk'
<1>1. CASE Plain
  <2>1. IdsFrame /\ out' = out
    BY <1>1, KeepsIds, KeepsChansRemotes, Bounds DEF Plain, SameQueues, SameWires
  <2> QED BY <1>1, <2>1, SameKept, ClosesKeptOk DEF Plain, SameWires
<1>2. ASSUME NEW q, Mute(q)
      PROVE  ClosesOk'
  <2>1. IdsFrame /\ MutePacket(q) /\ brigade' = brigade
    BY <1>2, KeepsIds, KeepsChansRemotes, Bounds DEF Mute, SameQueues
  <2>2. q.what = "close" => CloseFits(q)
    BY <2>1, Bounds DEF MutePacket, CloseFits, Base, AddingOk
  <2>3. CASE Stays(q)
    <3>1. Kept("close")
      BY <2>1, <2>3, StaysKept
    <3> QED BY <2>1, <2>2, <2>3, <3>1, KeptCloses, ClosesFrames DEF Stays
  <2>4. ASSUME NEW w, Ships(q, w), w.what = q.what
        PROVE  ClosesOk'
    <3>1. out' = None /\ w \in WirePackets /\ (w = q \/ (out # None /\ w = out))
      BY <2>4 DEF Ships
    <3>2. CASE q.what = "close"
      <4>1. CloseFits(w)
        BY <2>2, <2>4, <3>1, <3>2 DEF ClosesOk
      <4>2. w.what \in Questioned
        BY <2>4, <3>2 DEF Questioned
      <4>3. ToSet(server') = ToSet(server) \cup {Question(w)}
        <5>1. \A S : ToSet(server') = ToSet(server) \cup {Question(w)}
          BY <2>4, <4>2, ShipsAsks
        <5> QED BY <5>1
      <4>4. Question(w).id = w.id /\ Question(w).n = w.n
        BY <3>1, <4>2, QuestionTyped
      <4>5. CloseFits(Question(w))
        BY <4>1, <4>4 DEF CloseFits
      <4>6. \A x \in AskedCloses' : x \in AskedCloses \/ CloseFits(x)
        BY <4>3, <4>5 DEF AskedCloses
      <4> QED BY <2>1, <3>1, <4>6, ClosesFrames
    <3>3. CASE q.what # "close"
      <4>1. w.what \in Questioned => Question(w).kind # "close"
        BY <2>4, <3>1, <3>3, QuestionTyped
      <4> QED BY <2>1, <2>4, <3>1, <4>1, ShipsKept, ClosesKeptOk
    <3> QED BY <3>2, <3>3
  <2> QED BY <1>2, <2>3, <2>4 DEF Mute
<1> QED BY <1>1, <1>2 DEF OtherStep

(* The opens. *)
LEMMA OpenCloses ==
  ASSUME Base, Base', ClosesOk, NumbersOk, OpenStep
  PROVE  ClosesOk'
<1>1. ASSUME NEW type \in Opens, OpenBegins(type)
      PROVE  ClosesOk'
  <2>1. IdsFrame
    BY <1>1, Bounds DEF OpenBegins, Adds, IdsFrame, NewId
  <2> QED BY <1>1, <2>1, SameKept, ClosesKeptOk DEF OpenBegins, SameWires
<1>2. ASSUME NEW q, OpenStays(q)
      PROVE  ClosesOk'
  <2>1. IdsFrame /\ out'.what # "close"
    BY <1>2, KeepsIds, Bounds DEF OpenStays, OpenGoesOn, OpenPacket, Stays, KeepsRemotes
  <2> QED BY <1>2, <2>1, StaysKept, ClosesKeptOk DEF OpenStays, OpenGoesOn
<1>3. ASSUME NEW q, NEW w, OpenSent(q, w)
      PROVE  ClosesOk'
  <2>1. IdsFrame
    BY <1>3, Bounds DEF OpenSent, OpenGoesOn, IdsFrame
  <2>2. Question(w).kind # "close" /\ out' = None
    BY <1>3, OpenSentIs
  <2> QED BY <1>3, <2>1, <2>2, ShipsKept, ClosesKeptOk DEF OpenSent, OpenGoesOn
<1>4. ASSUME NEW i, OpenAnswered(i)
      PROVE  ClosesOk'
  <2>1. /\ opening' = NotOpening /\ UNCHANGED <<next, adding, out, server>> /\ opening.st = "sent"
        /\ \/ \E n : Adds(opening.id, n)
           \/ chans' = Without(opening.id)
    BY <1>4 DEF OpenAnswered
  <2>2. IdsFrame
    BY <2>1, Bounds DEF IdsFrame, Adds, Without, NewId, NotOpening
  <2>3. i \in DOMAIN brigade /\ brigade' = RemoveAt(brigade, i) /\ server' = server /\ ~TagOf("close", brigade[i].t)
    BY <1>4 DEF OpenAnswered, TagOf
  <2> QED BY <2>1, <2>2, <2>3, TakenKept, ClosesKeptOk
<1>5. CASE OpenFailed
  <2>1. IdsFrame
    BY <1>5, Bounds DEF OpenFailed, IdsFrame, Without, NotOpening
  <2> QED BY <1>5, <2>1, SameKept, ClosesKeptOk DEF OpenFailed, SameWires
<1> QED BY <1>1, <1>2, <1>3, <1>4, <1>5 DEF OpenStep

(* The requests. *)
LEMMA RequestCloses ==
  ASSUME Base, Base', ClosesOk, RequestStep
  PROVE  ClosesOk'
<1> USE DEF SameQueues
<1>0. "close" \notin Kinds \cup {"size"}
  BY Names DEF OtherNames
<1>1. ASSUME NEW kind \in Kinds, NEW id \in Mine, RequestBegins(kind, id)
      PROVE  ClosesOk'
  <2>1. KeepsRemotes
    BY <1>1, RequestRemotes DEF RequestBegins, KeepsRemotes
  <2>2. IdsFrame
    BY <1>1, <2>1, KeepsIds, Bounds DEF RequestBegins
  <2> QED BY <1>1, <2>2, SameKept, ClosesKeptOk DEF RequestBegins, SameWires
<1>2. ASSUME NEW kind \in Kinds, NEW q, RequestStays(kind, q)
      PROVE  ClosesOk'
  <2>1. IdsFrame /\ out'.what # "close"
    BY <1>0, <1>2, KeepsIds, Bounds DEF RequestStays, RequestGoesOn, RequestPacket, Stays, KeepsRemotes
  <2> QED BY <1>2, <2>1, StaysKept, ClosesKeptOk DEF RequestStays, RequestGoesOn
<1>3. ASSUME NEW kind \in Kinds, NEW q, NEW w, RequestSent(kind, q, w)
      PROVE  ClosesOk'
  <2>1. /\ Ships(q, w) /\ q.what \in Kinds \cup {"size"} /\ brigade' = brigade
        /\ UNCHANGED <<next, opening, adding>>
    BY <1>3 DEF RequestSent, RequestPacket, RequestGoesOn
  <2>2. out' = None /\ (w.what \in Questioned => Question(w).kind # "close")
    BY <2>1, ShipsRequest
  <2>3. IdsFrame
    BY <1>3, <2>1, RequestRemotes, KeepsIds, Bounds DEF RequestSent
  <2> QED BY <2>1, <2>2, <2>3, ShipsKept, ClosesKeptOk
<1>4. ASSUME NEW kind \in Kinds, NEW i, NEW r, RequestAnswered(kind, i, r)
      PROVE  ClosesOk'
  <2>1. IdsFrame /\ out' = out
    BY <1>4, KeepsIds, Bounds, RequestRemotes DEF RequestAnswered
  <2>2. i \in DOMAIN brigade /\ brigade' = RemoveAt(brigade, i) /\ server' = server /\ ~TagOf("close", brigade[i].t)
    BY <1>4 DEF RequestAnswered, TagOf
  <2> QED BY <2>1, <2>2, TakenKept, ClosesKeptOk
<1>5. ASSUME NEW kind \in Kinds, NEW r, RequestFailed(kind, r)
      PROVE  ClosesOk'
  <2>1. IdsFrame
    BY <1>5, KeepsIds, Bounds, RequestRemotes DEF RequestFailed
  <2> QED BY <1>5, <2>1, SameKept, ClosesKeptOk DEF RequestFailed, SameWires
<1>6. ASSUME NEW id, NEW q, PtySized(id, q)
      PROVE  ClosesOk'
  <2>1. Kept("close") /\ (out' = None \/ out' = out \/ out'.what # "close")
    BY <1>0, <1>6, SizedIs
  <2>2. KeepsRemotes /\ UNCHANGED <<next, opening, adding>>
    BY <1>6, RequestRemotes DEF PtySized
  <2>3. IdsFrame
    BY <2>2, KeepsIds, Bounds
  <2> QED BY <2>1, <2>3, ClosesKeptOk
<1> QED BY <1>1, <1>2, <1>3, <1>4, <1>5, <1>6 DEF RequestStep

(* Every step keeps it. *)
LEMMA StepCloses ==
  ASSUME Base, Base', ClosesOk, NumbersOk, [Next]_vars
  PROVE  ClosesOk'
<1>1. CASE ListenBegins
  <2>1. IdsFrame
    BY <1>1, KeepsIds, KeepsChansRemotes, Bounds DEF ListenBegins
  <2> QED BY <1>1, <2>1, SameKept, ClosesKeptOk DEF ListenBegins, SameWires
<1>2. ASSUME NEW q, ListenStays(q)
      PROVE  ClosesOk'
  <2>1. IdsFrame /\ out'.what # "close"
    BY <1>2, KeepsIds, Bounds DEF ListenStays, ListenGoesOn, ListenPacket, Stays, KeepsRemotes
  <2> QED BY <1>2, <2>1, StaysKept, ClosesKeptOk DEF ListenStays, ListenGoesOn
<1>3. ASSUME NEW q, NEW w, ListenSent(q, w)
      PROVE  ClosesOk'
  <2>1. Ships(q, w) /\ w \in WirePackets /\ w.what = "listen" /\ out' = None
    BY <1>3 DEF ListenSent, Ships
  <2>2. IdsFrame
    BY <1>3, KeepsIds, Bounds DEF ListenSent, ListenGoesOn, KeepsRemotes
  <2>3. w.what \in Questioned => Question(w).kind # "close"
    BY <2>1, QuestionTyped
  <2> QED BY <1>3, <2>1, <2>2, <2>3, ShipsKept, ClosesKeptOk DEF ListenSent, ListenGoesOn
<1>4. ASSUME NEW i, ListenAnswered(i)
      PROVE  ClosesOk'
  <2>1. IdsFrame /\ out' = out
    BY <1>4, KeepsIds, Bounds DEF ListenAnswered, KeepsRemotes
  <2>2. i \in DOMAIN brigade /\ brigade' = RemoveAt(brigade, i) /\ server' = server /\ ~TagOf("close", brigade[i].t)
    BY <1>4 DEF ListenAnswered, TagOf
  <2> QED BY <2>1, <2>2, TakenKept, ClosesKeptOk
<1>5. CASE ListenFailed
  <2>1. IdsFrame
    BY <1>5, KeepsIds, Bounds DEF ListenFailed, KeepsRemotes
  <2> QED BY <1>5, <2>1, SameKept, ClosesKeptOk DEF ListenFailed, SameWires
<1>6. CASE Abandoned \/ UNCHANGED vars
  <2>1. UNCHANGED <<chans, next, opening, adding, out, server, brigade>>
    BY <1>6 DEF Abandoned, SameQueues, SameWires, vars
  <2>2. IdsFrame
    BY <2>1, KeepsIds, Bounds DEF KeepsRemotes
  <2> QED BY <2>1, <2>2, SameKept, ClosesKeptOk
<1> QED BY <1>1, <1>2, <1>3, <1>4, <1>5, <1>6, StepIs, ServerCloses, OtherCloses, OpenCloses, RequestCloses DEF ListenStep

-----------------------------------------------------------------------------
(* What the server has been told to close, and what the library knows of. *)
Closing(n) == \E x \in AskedCloses : x.n = n
Known(n) == (\E id \in DOMAIN chans : chans[id].remote = n) \/ Closing(n)
(* What the server has open: nothing under the number of an open that it has yet to
   answer or has refused; a channel whose close is sent only until the close comes to
   the server; and, but for what is lost, only channels that the library has, is about
   to take or has told it to close. *)
StrayOk ==
  /\ \A n \in peer.open : n # 0 /\ Numbered(n)
  /\ opening.st = "created" => opening.n \notin peer.open
  /\ \A x \in AskedOpens :
       x.n \notin peer.open /\ (x.n \in seen.lost \/ (opening.st = "sent" /\ x.n = opening.n))
  /\ \A x \in ToldOpens : x.t = "refuse" => x.n \notin peer.open
  /\ \A id \in DOMAIN chans :
       chans[id].closing = "sent" => chans[id].remote \notin peer.open \/ Closing(chans[id].remote)
  /\ \A n \in peer.open \ seen.lost : Known(n) \/ opening.n = n

(* Channels that stay are what they were to the server, or it has been told to close
   them. *)
KeepsFlags ==
  \A id \in DOMAIN chans' :
    /\ id \in DOMAIN chans /\ chans'[id].remote = chans[id].remote
    /\ chans'[id].closing = "sent" => chans[id].closing = "sent" \/ Closing(chans[id].remote)'
(* No close is taken by the server. *)
ClosesStay == AskedCloses \subseteq AskedCloses'
(* What opens and closes nothing. *)
StrayFrame ==
  /\ peer'.open = peer.open /\ opening' = opening /\ KeepsFlags /\ Leaves
  /\ calls <= calls' /\ peer.conns <= peer'.conns
  /\ seen.lost \subseteq seen'.lost

(* A step that opens and closes nothing keeps it. *)
LEMMA StrayFrames ==
  ASSUME Base, Base', StrayOk, StrayFrame, OpensKept, ClosesStay
  PROVE  StrayOk'
<1>1. /\ calls \in Nat /\ calls' \in Nat /\ FirstConn \in Nat /\ peer.conns \in Nat /\ peer'.conns \in Nat
  BY Bounds, BoundsNext
<1>2. peer.open \subseteq Nat
  BY DEF Base, Types, PeerType
<1>3. \A n \in peer'.open : n # 0 /\ Numbered(n)'
  BY <1>1, <1>2 DEF StrayOk, StrayFrame, Numbered
<1>4. /\ opening'.st = "created" => opening'.n \notin peer'.open
      /\ \A x \in AskedOpens' :
           x.n \notin peer'.open /\ (x.n \in seen'.lost \/ (opening'.st = "sent" /\ x.n = opening'.n))
      /\ \A x \in ToldOpens' : x.t = "refuse" => x.n \notin peer'.open
  BY DEF StrayOk, StrayFrame, OpensKept
<1>5. \A n : Closing(n) => Closing(n)'
  BY DEF Closing, ClosesStay
<1>6. ASSUME NEW id \in DOMAIN chans', chans'[id].closing = "sent"
      PROVE  chans'[id].remote \notin peer'.open \/ Closing(chans[id].remote)'
  <2>1. /\ id \in DOMAIN chans /\ chans'[id].remote = chans[id].remote
        /\ chans[id].closing = "sent" \/ Closing(chans[id].remote)'
    BY <1>6 DEF StrayFrame, KeepsFlags
  <2> QED BY <1>5, <2>1 DEF StrayOk, StrayFrame
<1>7. \A id \in DOMAIN chans' :
        chans'[id].closing = "sent" => chans'[id].remote \notin peer'.open \/ Closing(chans[id].remote)'
  BY <1>6
<1>8. ASSUME NEW n \in peer'.open \ seen'.lost, opening'.n # n
      PROVE  Known(n)'
  <2>1. n \in peer.open \ seen.lost /\ Known(n)
    BY <1>8 DEF StrayOk, StrayFrame
  <2>2. CASE Closing(n)
    BY <1>5, <2>2 DEF Known
  <2>3. CASE \E id \in DOMAIN chans : chans[id].remote = n
    <3>1. PICK id \in DOMAIN chans : chans[id].remote = n
      BY <2>3
    <3>2. id \in DOMAIN chans' \/ Closing(n)
      BY <1>8, <2>1, <3>1 DEF StrayOk, StrayFrame, Leaves
    <3>3. id \in DOMAIN chans' => chans'[id].remote = n
      BY <3>1 DEF StrayFrame, KeepsFlags
    <3> QED BY <1>5, <3>2, <3>3 DEF Known
  <2> QED BY <2>1, <2>2, <2>3 DEF Known
<1> QED BY <1>3, <1>4, <1>7, <1>8 DEF StrayOk

(* The server has nothing open. *)
LEMMA InitStray ==
  ASSUME Init
  PROVE  StrayOk
<1>1. /\ chans = [id \in {1} |-> Channel(FirstConn, "session")] /\ brigade = <<>> /\ server = <<>>
      /\ opening = NotOpening /\ peer.conns = 0 /\ peer.open = {FirstConn}
  BY DEF Init
<1>2. Channel(FirstConn, "session").remote = FirstConn /\ Channel(FirstConn, "session").closing = "idle"
      /\ FirstConn \in Nat /\ FirstConn # 0
  BY BoundsAssumption DEF Channel, FirstConn
<1>3. AskedOpens = {} /\ ToldOpens = {}
  BY <1>1 DEF AskedOpens, ToldOpens, ToSet
<1> QED BY <1>1, <1>2, <1>3 DEF StrayOk, Numbered, Known, NotOpening

(* Channels that stay are as closed as they were. *)
LEMMA KeepsChansFlags ==
  ASSUME KeepsChans, KeepsClosing
  PROVE  KeepsFlags
BY DEF KeepsChans, KeepsClosing, KeepsFlags

(* So when none changes. *)
LEMMA SameFlags ==
  ASSUME chans' = chans
  PROVE  KeepsFlags /\ Leaves
BY DEF KeepsFlags, Leaves

(* And when a request does. *)
LEMMA RequestFlags ==
  ASSUME NEW id, NEW kind, NEW r, RequestSet(id, kind, r)
  PROVE  KeepsFlags /\ Leaves
BY DEF RequestSet, SameChans, KeepsFlags, Leaves

(* No channel leaves. *)
LEMMA DomainLeaves ==
  ASSUME DOMAIN chans' = DOMAIN chans
  PROVE  Leaves
BY DEF Leaves

(* One more channel is open at the server. *)
LEMMA GrowsStray ==
  ASSUME Base, Base', NumbersOk, StrayOk, OpensKept, ClosesStay, NEW m,
         m \in FirstConn + 1..FirstConn + peer'.conns, ~Remote(m),
         peer'.open \subseteq peer.open \cup {m}, peer.conns <= peer'.conns,
         UNCHANGED <<opening, calls>>, seen.lost \subseteq seen'.lost,
         m \in seen'.lost \/ \E id \in DOMAIN chans' : chans'[id].remote = m,
         \A id \in DOMAIN chans : chans[id].remote # 0 =>
           id \in DOMAIN chans' /\ chans'[id].remote = chans[id].remote,
         \A id \in DOMAIN chans' : chans'[id].closing = "sent" =>
           id \in DOMAIN chans /\ chans'[id].remote = chans[id].remote /\ chans[id].closing = "sent"
  PROVE  StrayOk'
<1>1. /\ calls \in Nat /\ FirstConn \in Nat /\ peer.conns \in Nat /\ peer'.conns \in Nat /\ calls < FirstConn
  BY Bounds, BoundsNext
<1>2. m \in Nat /\ m # 0 /\ m > calls /\ peer.open \subseteq Nat
  <2>1. peer.open \subseteq Nat
    BY DEF Base, Types, PeerType
  <2>2. m \in Nat /\ m > FirstConn
    BY <1>1
  <2> QED BY <1>1, <2>1, <2>2
<1>3. \A n \in peer'.open : n # 0 /\ Numbered(n)'
  BY <1>1, <1>2 DEF StrayOk, Numbered
<1>4. opening'.st = "created" => opening'.n \notin peer'.open
  BY <1>1, <1>2 DEF StrayOk, NumbersOk
<1>5. ASSUME NEW x \in AskedOpens'
      PROVE  x.n \notin peer'.open /\ (x.n \in seen'.lost \/ (opening'.st = "sent" /\ x.n = opening'.n))
  <2>1. x \in AskedOpens
    BY DEF OpensKept
  <2>2. x.n # m
    BY <1>1, <1>2, <2>1 DEF NumbersOk, Token
  <2> QED BY <2>1, <2>2 DEF StrayOk
<1>6. ASSUME NEW x \in ToldOpens', x.t = "refuse"
      PROVE  x.n \notin peer'.open
  <2>1. x \in ToldOpens
    BY DEF OpensKept
  <2>2. x.n # m
    BY <1>1, <1>2, <2>1 DEF NumbersOk, Token
  <2> QED BY <1>6, <2>1, <2>2 DEF StrayOk
<1>9. \A n : Closing(n) => Closing(n)'
  BY DEF Closing, ClosesStay
<1>7. ASSUME NEW id \in DOMAIN chans', chans'[id].closing = "sent"
      PROVE  chans'[id].remote \notin peer'.open \/ Closing(chans[id].remote)'
  <2>1. id \in DOMAIN chans /\ chans'[id].remote = chans[id].remote /\ chans[id].closing = "sent"
    BY <1>7
  <2>2. chans[id].remote # m
    BY <2>1 DEF Remote
  <2> QED BY <1>9, <2>1, <2>2 DEF StrayOk
<1>8. ASSUME NEW n \in peer'.open \ seen'.lost, opening'.n # n
      PROVE  Known(n)'
  <2>1. CASE n = m
    BY <1>8, <2>1 DEF Known
  <2>2. CASE n # m
    <3>1. n \in peer.open /\ n # 0 /\ Known(n)
      BY <1>8, <2>2 DEF StrayOk
    <3> QED BY <1>9, <3>1 DEF Known
  <2> QED BY <2>1, <2>2
<1> QED BY <1>3, <1>4, <1>5, <1>6, <1>7, <1>8 DEF StrayOk

(* A reply opens the channel or refuses it. *)
LEMMA ReadsStray ==
  ASSUME Base, Base', NumbersOk, StrayOk, ClosesStay, NEW i, NEW t, Reads(i, t)
  PROVE  StrayOk'
<1>1. UNCHANGED <<opening, chans, calls, seen>> /\ peer'.conns = peer.conns
  BY DEF Reads, SameQueues
<1>2. CASE server[i].kind # "open"
  <2>1. t # "confirm"
    BY <1>2 DEF Reads, TagOf
  <2>2. StrayFrame
    BY <1>1, <2>1, SameFlags, Bounds DEF Reads, StrayFrame
  <2> QED BY <1>2, <2>2, ReadsKept, KeptOpens, StrayFrames
<1>3. CASE server[i].kind = "open"
  <2>0. PICK m : m = server[i].n
    OBVIOUS
  <2> DEFINE r == Reply(t, server[i])
  <2>1. /\ i \in DOMAIN server /\ server[i] \in QuestionType /\ t \in {"confirm", "refuse"}
        /\ peer'.open = IF t = "confirm" THEN peer.open \cup {m} ELSE peer.open
        /\ r.t = t /\ r.n = m
    BY <1>3, <2>0, Sequences DEF Reads, TagOf, Reply
  <2>2. /\ ToSet(server') \subseteq ToSet(server) /\ server[i] \in ToSet(server)
        /\ ToSet(brigade') = ToSet(brigade) \cup {r}
        /\ Opened(m)' = Opened(m)
    <3> DEFINE S == OpensAsked(m)
               R == OpensTold(m)
    <3>1. server[i] \in S <=> r \in R
      <4>1. r \in ReplyType
        BY <2>1 DEF ReplyType, Tags, QuestionType, Reply
      <4> QED BY <1>3, <2>0, <2>1, <4>1 DEF OpensAsked, OpensTold
    <3>2. /\ Count(server, S)' + Count(brigade, R)' = Count(server, S) + Count(brigade, R)
          /\ ToSet(server') \subseteq ToSet(server) /\ server[i] \in ToSet(server)
          /\ ToSet(brigade') = ToSet(brigade) \cup {r}
      <4> HIDE DEF S, R
      <4> QED BY <3>1, ReadsMoves
    <3> QED BY <3>2 DEF Opened
  <2>3. server[i] \in AskedOpens
    BY <1>3, <2>2 DEF AskedOpens
  <2>4. m \in 1..calls /\ ~Remote(m) /\ m \notin peer.open
        /\ (m \in seen.lost \/ (opening.st = "sent" /\ m = opening.n))
    BY <2>0, <2>3 DEF NumbersOk, Token, StrayOk
  <2>5. \A x \in AskedOpens' : x \in AskedOpens
    BY <2>2 DEF AskedOpens
  <2>6. \A x \in AskedOpens' : x.n # m
    <3>1. NumbersOk'
      BY ReadsNumbers
    <3> SUFFICES ASSUME NEW x \in AskedOpens', x.n = m
                 PROVE  FALSE
      OBVIOUS
    <3>2. r \in ToldOpens'
      BY <2>1, <2>2 DEF ToldOpens
    <3>3. server' \in Seq(QuestionType) /\ brigade' \in Seq(ReplyType)
      BY DEF Base, Types
    <3>4. x \in OpensAsked(m) /\ x \in ToSet(server')
      <4>1. x \in ToSet(server') /\ x \in QuestionType /\ x.kind = "open"
        BY <3>3 DEF AskedOpens, ToSet
      <4> QED BY <4>1 DEF OpensAsked
    <3>5. r \in OpensTold(m) /\ r \in ToSet(brigade')
      <4>1. r \in ToSet(brigade') /\ r \in ReplyType
        BY <3>2, <3>3 DEF ToldOpens, ToSet
      <4> QED BY <2>1, <4>1 DEF OpensTold
    <3>6. Count(server', OpensAsked(m)) # 0 /\ Count(brigade', OpensTold(m)) # 0
      BY <3>3, <3>4, <3>5, CountNone
    <3>7. Count(server', OpensAsked(m)) \in Nat /\ Count(brigade', OpensTold(m)) \in Nat
      BY <3>3, CountNat
    <3>8. Count(server', OpensAsked(m)) + Count(brigade', OpensTold(m)) <= 1
      <4>1. Opened(m)' <= 1
        BY <3>1 DEF NumbersOk
      <4> QED BY <4>1 DEF Opened
    <3> QED BY <3>6, <3>7, <3>8
  <2>7. \A x \in ToldOpens : x.n # m
    <3>1. Opened(m) <= 1
      BY DEF NumbersOk
    <3>2. ASSUME NEW x \in ToldOpens, x.n = m
          PROVE  Opened(m) > 1
      BY <2>0, <2>3, <3>2, OpenedCounts
    <3>3. Opened(m) \in Nat
      BY OpenedCounts
    <3> QED BY <3>1, <3>2, <3>3
  <2>8. opening.st = "created" => opening.n # m
    <3>1. Opened(m) > 0
      BY <2>0, <2>3, OpenedCounts
    <3> QED BY <3>1 DEF NumbersOk
  <2> HIDE DEF r
  <2>9. /\ \A n \in peer'.open : n # 0 /\ Numbered(n)'
        /\ opening'.st = "created" => opening'.n \notin peer'.open
    <3>1. Numbered(m) /\ m # 0
      BY <2>4, Bounds DEF Numbered
    <3> QED BY <1>1, <2>1, <2>8, <3>1 DEF StrayOk, Numbered
  <2>10. \A x \in AskedOpens' :
           x.n \notin peer'.open /\ (x.n \in seen'.lost \/ (opening'.st = "sent" /\ x.n = opening'.n))
    BY <1>1, <2>1, <2>5, <2>6 DEF StrayOk
  <2>11. ASSUME NEW x \in ToldOpens', x.t = "refuse"
         PROVE  x.n \notin peer'.open
    <3>1. x \in ToldOpens \/ x = r
      BY <2>2 DEF ToldOpens
    <3>2. CASE x \in ToldOpens
      BY <2>1, <2>7, <2>11, <3>2 DEF StrayOk
    <3>3. CASE x = r
      BY <2>1, <2>4, <2>11, <3>3
    <3> QED BY <3>1, <3>2, <3>3
  <2>14. \A n : Closing(n) => Closing(n)'
    BY DEF Closing, ClosesStay
  <2>12. ASSUME NEW id \in DOMAIN chans', chans'[id].closing = "sent"
         PROVE  chans'[id].remote \notin peer'.open \/ Closing(chans[id].remote)'
    <3>1. id \in DOMAIN chans /\ chans'[id] = chans[id] /\ chans[id].remote # m
      BY <1>1, <2>4, <2>12 DEF Remote
    <3> QED BY <2>1, <2>12, <2>14, <3>1 DEF StrayOk
  <2>13. \A n \in peer'.open \ seen'.lost : Known(n)' \/ opening'.n = n
    BY <1>1, <2>1, <2>4, <2>14 DEF StrayOk, Known
  <2> QED BY <2>9, <2>10, <2>11, <2>12, <2>13 DEF StrayOk
<1> QED BY <1>2, <1>3

(* A close takes the channel from the server's and is noted in the library's. *)
LEMMA ClosesStray ==
  ASSUME Base, Base', StrayOk, NEW i, Closes(i)
  PROVE  StrayOk'
<1>1. /\ i \in DOMAIN server /\ server[i].kind = "close" /\ server' = RemoveAt(server, i)
      /\ peer'.open = peer.open \ {server[i].n} /\ peer'.conns = peer.conns
      /\ UNCHANGED <<opening, calls, seen>> /\ DOMAIN chans' = DOMAIN chans
      /\ \A id \in DOMAIN chans :
           chans'[id].remote = chans[id].remote /\ chans'[id].closing = chans[id].closing
  BY DEF Closes, SameQueues
<1>2. ToSet(server) \subseteq ToSet(server') \cup {server[i]}
  BY <1>1, Sequences, RemovedElements
<1>3. ASSUME NEW n, Closing(n)
      PROVE  Closing(n)' \/ n = server[i].n
  BY <1>2, <1>3 DEF Closing, AskedCloses
<1>4. OpensKept
  BY ClosesKept, KeptOpens
<1>5. /\ \A n \in peer'.open : n # 0 /\ Numbered(n)'
      /\ opening'.st = "created" => opening'.n \notin peer'.open
      /\ \A x \in AskedOpens' :
           x.n \notin peer'.open /\ (x.n \in seen'.lost \/ (opening'.st = "sent" /\ x.n = opening'.n))
      /\ \A x \in ToldOpens' : x.t = "refuse" => x.n \notin peer'.open
  BY <1>1, <1>4 DEF StrayOk, Numbered, OpensKept
<1>6. ASSUME NEW id \in DOMAIN chans', chans'[id].closing = "sent"
      PROVE  chans'[id].remote \notin peer'.open \/ Closing(chans[id].remote)'
  <2>1. id \in DOMAIN chans /\ chans'[id].remote = chans[id].remote /\ chans[id].closing = "sent"
    BY <1>1, <1>6
  <2> QED BY <1>1, <1>3, <2>1 DEF StrayOk
<1>7. ASSUME NEW n \in peer'.open \ seen'.lost, opening'.n # n
      PROVE  Known(n)'
  <2>1. n \in peer.open \ seen.lost /\ n # server[i].n /\ Known(n)
    BY <1>1, <1>7 DEF StrayOk
  <2> QED BY <1>1, <1>3, <2>1 DEF Known
<1> QED BY <1>5, <1>6, <1>7 DEF StrayOk

(* Nothing is sent to the server, or taken by it, *)
LEMMA SameCloses ==
  ASSUME server' = server
  PROVE  ClosesStay
BY DEF ClosesStay, AskedCloses

(* or something more is sent. *)
LEMMA ShipsCloses ==
  ASSUME Base, NEW q, NEW w, Ships(q, w)
  PROVE  ClosesStay
<1>1. CASE w.what \in Questioned
  <2>1. w \in WirePackets /\ server' = Append(server, Question(w))
    BY <1>1 DEF Ships
  <2>2. ToSet(server') = ToSet(server) \cup {Question(w)}
    <3>1. Added(server', QuestionType, server, {}, Question(w))
      BY <1>1, <2>1, Sequences, QuestionTyped, CountAppend
    <3> QED BY <3>1 DEF Added
  <2> QED BY <2>2 DEF ClosesStay, AskedCloses
<1>2. CASE w.what \notin Questioned
  BY <1>2, SameCloses DEF Ships
<1> QED BY <1>1, <1>2

(* The server's steps. *)
LEMMA ServerStray ==
  ASSUME Base, Base', NumbersOk, StrayOk, ServerStep
  PROVE  StrayOk'
<1>1. CASE ServerWaits
  <2>1. StrayFrame
    BY <1>1, SameFlags, Bounds DEF ServerWaits, StrayFrame
  <2> QED BY <1>1, <2>1, SameKept, KeptOpens, SameCloses, StrayFrames DEF ServerWaits
<1>2. CASE AddingLost
  <2>1. PICK m : m = adding.p.n
    OBVIOUS
  <2>2. m \in FirstConn + 1..FirstConn + peer.conns /\ ~Remote(m)
    BY <1>2, <2>1 DEF AddingLost, NumbersOk
  <2>3. peer'.open \subseteq peer.open \cup {m} /\ peer'.conns = peer.conns
    BY <1>2, <2>1 DEF AddingLost
  <2>4. seen.lost \subseteq seen'.lost /\ m \in seen'.lost
    BY <1>2, <2>1 DEF AddingLost, Base, Types, SeenType
  <2>5. OpensKept /\ UNCHANGED <<chans, opening, calls>>
    BY <1>2, SameKept, KeptOpens DEF AddingLost
  <2>6. peer.conns <= peer'.conns
    BY <2>3, Bounds
  <2>7. ClosesStay
    BY <1>2, SameCloses DEF AddingLost
  <2> QED BY <2>2, <2>3, <2>4, <2>5, <2>6, <2>7, GrowsStray
<1>3. ASSUME NEW id, NEW n, ServerKeeps(id, n)
      PROVE  StrayOk'
  <2>1. n \in FirstConn + 1..FirstConn + peer'.conns /\ ~Remote(n) /\ peer.conns <= peer'.conns
    <3>1. calls \in Nat /\ FirstConn \in Nat /\ peer.conns \in Nat /\ calls < FirstConn
      BY Bounds
    <3>2. CASE n = NewConn /\ peer'.conns = peer.conns + 1
      <4>1. ~Remote(FirstConn + 1 + peer.conns)
        BY <3>1 DEF NumbersOk, Numbered
      <4> QED BY <3>1, <3>2, <4>1 DEF NewConn
    <3>3. CASE adding # Nothing /\ n = adding.p.n /\ peer'.conns = peer.conns
      BY <3>1, <3>3 DEF NumbersOk
    <3> QED BY <1>3, <3>2, <3>3 DEF ServerKeeps
  <2>2. Adds(id, n) /\ peer'.open = peer.open \cup {n} /\ UNCHANGED <<opening, calls, seen>>
    BY <1>3 DEF ServerKeeps
  <2>3. OpensKept
    BY <1>3, SameKept, KeptOpens DEF ServerKeeps
  <2>4. id \notin DOMAIN chans
    BY <1>3, Bounds DEF ServerKeeps, Base, AddingOk
  <2>5. /\ \A j \in DOMAIN chans : chans[j].remote # 0 =>
             j \in DOMAIN chans' /\ chans'[j].remote = chans[j].remote
        /\ \A j \in DOMAIN chans' : chans'[j].closing = "sent" =>
             j \in DOMAIN chans /\ chans'[j].remote = chans[j].remote /\ chans[j].closing = "sent"
        /\ \E j \in DOMAIN chans' : chans'[j].remote = n
    BY <2>2, <2>4 DEF Adds
  <2>6. ClosesStay
    BY <1>3, SameCloses DEF ServerKeeps
  <2> QED BY <2>1, <2>2, <2>3, <2>5, <2>6, GrowsStray
<1>4. ASSUME NEW i, NEW t, Reads(i, t)
      PROVE  ClosesStay
  <2>1. /\ i \in DOMAIN server /\ server[i].kind # "close" /\ server' = RemoveAt(server, i)
    BY <1>4 DEF Reads, TagOf
  <2>2. ToSet(server) \subseteq ToSet(server') \cup {server[i]}
    BY <2>1, Sequences, RemovedElements
  <2> QED BY <2>1, <2>2 DEF ClosesStay, AskedCloses
<1> QED BY <1>1, <1>2, <1>3, <1>4, ReadsStray, ClosesStray DEF ServerStep

(* Only a channel the server is told to close, or has lost, is freed. *)
LEMMA OtherStray ==
  ASSUME Base, Base', ClosesOk, StrayOk, OtherStep
  PROVE  StrayOk'
<1>1. CASE Plain
  <2>1. StrayFrame
    BY <1>1, KeepsChansFlags, Bounds DEF Plain, StrayFrame, SameQueues, SameWires, KeepsSeen
  <2> QED BY <1>1, <2>1, SameKept, KeptOpens, SameCloses, StrayFrames DEF Plain, SameWires
<1>2. ASSUME NEW q, Mute(q)
      PROVE  StrayOk'
  <2>1. peer'.open = peer.open /\ peer'.conns = peer.conns
    BY <1>2 DEF Mute, Stays, Ships
  <2>2. Leaves /\ opening' = opening /\ calls <= calls' /\ seen.lost \subseteq seen'.lost
    BY <1>2, DomainLeaves DEF Mute, SameQueues, KeepsSeen
  <2>4. KeepsFlags
    <3>1. CASE KeepsClosing
      BY <1>2, <3>1, KeepsChansFlags DEF Mute
    <3>2. ASSUME q.what = "close", NEW w, Ships(q, w), w.what = "close",
                 \A id \in DOMAIN chans' : id # q.id => chans'[id].closing = chans[id].closing
          PROVE  KeepsFlags
      <4>1. q.id \in DOMAIN chans /\ q.n = chans[q.id].remote /\ w.id = q.id
        BY <1>2, <3>2 DEF Mute, MutePacket, Ships
      <4>2. w.n = chans[q.id].remote
        BY <3>2, <4>1 DEF Ships, ClosesOk, CloseFits
      <4>3. Question(w).kind = "close" /\ Question(w).n = w.n /\ Question(w) \in ToSet(server')
        <5>1. w \in WirePackets /\ w.what \in Questioned /\ server' = Append(server, Question(w))
          BY <3>2 DEF Ships, Questioned
        <5>2. Question(w).kind = "close" /\ Question(w).n = w.n /\ Question(w) \in QuestionType
          BY <3>2, <5>1, QuestionTyped
        <5>3. Added(server', QuestionType, server, {}, Question(w))
          BY <5>1, <5>2, Sequences, CountAppend
        <5> QED BY <5>2, <5>3 DEF Added
      <4>4. Closing(w.n)'
        BY <4>3 DEF Closing, AskedCloses
      <4>5. \A id \in DOMAIN chans' : id \in DOMAIN chans /\ chans'[id].remote = chans[id].remote
        BY <1>2 DEF Mute, KeepsChans
      <4>6. \A id \in DOMAIN chans' : id = q.id => chans'[id].remote = w.n
        BY <4>2, <4>5
      <4> QED BY <3>2, <4>4, <4>5, <4>6 DEF KeepsFlags
    <3> QED BY <1>2, <3>1, <3>2 DEF Mute, Closings
  <2>3. StrayFrame
    BY <2>1, <2>2, <2>4, Bounds DEF StrayFrame
  <2>5. ClosesStay
    BY <1>2, SameCloses, ShipsCloses DEF Mute, Stays
  <2> QED BY <1>2, <2>3, <2>5, MuteKept, KeptOpens, StrayFrames
<1> QED BY <1>1, <1>2 DEF OtherStep

(* The requests. *)
LEMMA RequestStray ==
  ASSUME Base, Base', StrayOk, RequestStep
  PROVE  StrayOk'
<1> USE DEF SameQueues
<1>1. ASSUME NEW kind \in Kinds, NEW id \in Mine, RequestBegins(kind, id)
      PROVE  StrayOk'
  <2>1. KeepsFlags /\ Leaves
    BY <1>1, RequestFlags, SameFlags DEF RequestBegins
  <2>2. StrayFrame
    BY <1>1, <2>1, Bounds DEF RequestBegins, Calls, SameWires, StrayFrame
  <2> QED BY <1>1, <2>2, SameKept, SameCloses, KeptOpens, StrayFrames DEF RequestBegins, SameWires
<1>2. ASSUME NEW kind \in Kinds, NEW q, RequestStays(kind, q)
      PROVE  StrayOk'
  <2>1. StrayFrame
    BY <1>2, SameFlags, Bounds DEF RequestStays, RequestGoesOn, Stays, StrayFrame
  <2> QED BY <1>2, <2>1, StaysKept, SameCloses, KeptOpens, StrayFrames DEF Stays, RequestStays, RequestGoesOn
<1>3. ASSUME NEW kind \in Kinds, NEW q, NEW w, RequestSent(kind, q, w)
      PROVE  StrayOk'
  <2>1. /\ Ships(q, w) /\ q.what \in Kinds \cup {"size"} /\ brigade' = brigade
        /\ UNCHANGED <<opening, calls, seen>>
    BY <1>3 DEF RequestSent, RequestPacket, RequestGoesOn
  <2>2. /\ peer'.conns = peer.conns /\ peer'.open = peer.open
        /\ w.what \in Questioned => Question(w).kind = "request"
    BY <2>1, ShipsRequest
  <2>3. StrayFrame
    BY <1>3, <2>1, <2>2, RequestFlags, Bounds DEF RequestSent, StrayFrame
  <2> QED BY <2>1, <2>2, <2>3, ShipsKept, ShipsCloses, KeptOpens, StrayFrames
<1>4. ASSUME NEW kind \in Kinds, NEW i, NEW r, RequestAnswered(kind, i, r)
      PROVE  StrayOk'
  <2>1. StrayFrame
    BY <1>4, Bounds, RequestFlags DEF RequestAnswered, StrayFrame
  <2>2. i \in DOMAIN brigade /\ brigade' = RemoveAt(brigade, i) /\ server' = server /\ ~TagOf("open", brigade[i].t)
    BY <1>4 DEF RequestAnswered, TagOf
  <2> QED BY <2>1, <2>2, TakenKept, SameCloses, KeptOpens, StrayFrames
<1>5. ASSUME NEW kind \in Kinds, NEW r, RequestFailed(kind, r)
      PROVE  StrayOk'
  <2>1. seen'.lost = seen.lost
    BY <1>5 DEF RequestFailed, Base, Types, SeenType
  <2>2. StrayFrame
    BY <1>5, <2>1, Bounds, RequestFlags DEF RequestFailed, StrayFrame, SameWires
  <2> QED BY <1>5, <2>2, SameKept, SameCloses, KeptOpens, StrayFrames DEF RequestFailed, SameWires
<1>6. ASSUME NEW id, NEW q, PtySized(id, q)
      PROVE  StrayOk'
  <2>1. Kept("open") /\ peer'.conns = peer.conns /\ peer'.open = peer.open
    BY <1>6, SizedIs
  <2>2. KeepsFlags /\ Leaves /\ opening' = opening /\ calls' = calls + 1
    BY <1>6, RequestFlags DEF PtySized
  <2>3. seen'.lost = seen.lost
    BY <1>6, SizedSeen
  <2>4. StrayFrame
    BY <2>1, <2>2, <2>3, Bounds DEF StrayFrame
  <2>5. ClosesStay
    BY <1>6, SameCloses, ShipsCloses DEF PtySized, Stays
  <2> QED BY <2>1, <2>4, <2>5, KeptOpens, StrayFrames
<1> QED BY <1>1, <1>2, <1>3, <1>4, <1>5, <1>6 DEF RequestStep

(* The forwardings. *)
LEMMA ListenStray ==
  ASSUME Base, Base', StrayOk, ListenStep
  PROVE  StrayOk'
<1>1. CASE ListenBegins
  <2>1. StrayFrame
    BY <1>1, KeepsChansFlags, DomainLeaves, Bounds DEF ListenBegins, Calls, SameWires, StrayFrame
  <2> QED BY <1>1, <2>1, SameKept, SameCloses, KeptOpens, StrayFrames DEF ListenBegins, SameWires
<1>2. ASSUME NEW q, ListenStays(q)
      PROVE  StrayOk'
  <2>1. StrayFrame
    BY <1>2, SameFlags, Bounds DEF ListenStays, ListenGoesOn, Stays, StrayFrame
  <2> QED BY <1>2, <2>1, StaysKept, SameCloses, KeptOpens, StrayFrames DEF Stays, ListenStays, ListenGoesOn
<1>3. ASSUME NEW q, NEW w, ListenSent(q, w)
      PROVE  StrayOk'
  <2>1. Ships(q, w) /\ w \in WirePackets /\ w.what = "listen" /\ peer'.open = peer.open /\ peer'.conns = peer.conns
    BY <1>3 DEF ListenSent, Ships
  <2>2. StrayFrame
    BY <1>3, <2>1, SameFlags, Bounds DEF ListenSent, ListenGoesOn, StrayFrame
  <2>3. w.what \in Questioned => Question(w).kind # "open"
    BY <2>1, QuestionTyped
  <2> QED BY <1>3, <2>1, <2>2, <2>3, ShipsKept, ShipsCloses, KeptOpens, StrayFrames DEF ListenSent, ListenGoesOn
<1>4. ASSUME NEW i, ListenAnswered(i)
      PROVE  StrayOk'
  <2>1. StrayFrame
    BY <1>4, SameFlags, Bounds DEF ListenAnswered, StrayFrame
  <2>2. i \in DOMAIN brigade /\ brigade' = RemoveAt(brigade, i) /\ server' = server /\ ~TagOf("open", brigade[i].t)
    BY <1>4 DEF ListenAnswered, TagOf
  <2> QED BY <2>1, <2>2, TakenKept, SameCloses, KeptOpens, StrayFrames
<1>5. CASE ListenFailed
  <2>1. seen'.lost = seen.lost
    BY <1>5 DEF ListenFailed, Base, Types, SeenType
  <2>2. StrayFrame
    BY <1>5, <2>1, SameFlags, Bounds DEF ListenFailed, SameWires, StrayFrame
  <2> QED BY <1>5, <2>2, SameKept, SameCloses, KeptOpens, StrayFrames DEF ListenFailed, SameWires
<1> QED BY <1>1, <1>2, <1>3, <1>4, <1>5 DEF ListenStep

(* A new open has nothing at the server. *)
LEMMA OpenBeginsStray ==
  ASSUME Base, Base', NumbersOk, StrayOk, NEW type \in Opens, OpenBegins(type)
  PROVE  StrayOk'
<1>1. OpensKept /\ ClosesStay /\ calls' = calls + 1 /\ UNCHANGED <<peer, seen>>
  BY SameKept, KeptOpens, SameCloses DEF OpenBegins, SameWires, Calls
<1>2. CASE opening.st # "idle"
  <2>1. StrayFrame
    BY <1>1, <1>2, SameFlags, Bounds DEF OpenBegins, StrayFrame
  <2> QED BY <1>1, <2>1, StrayFrames
<1>3. CASE opening.st = "idle"
  <2>1. /\ opening'.st = "created" /\ opening'.n = calls + 1 /\ Adds(next, 0) /\ opening = NotOpening
        /\ next \notin DOMAIN chans
    BY <1>3, Bounds DEF OpenBegins, Base, OpeningOk
  <2>2. calls \in Nat /\ FirstConn \in Nat /\ peer.conns \in Nat /\ calls + 1 < FirstConn /\ peer.open \subseteq Nat
    <3>1. calls' \in 0..MaxCalls
      BY DEF Base, Types
    <3>2. calls + 1 < FirstConn
      BY <1>1, <3>1, BoundsAssumption DEF FirstConn
    <3>3. peer.open \subseteq Nat
      BY DEF Base, Types, PeerType
    <3> QED BY <3>2, <3>3, Bounds
  <2>3. \A n \in peer'.open : n # 0 /\ Numbered(n)'
    BY <1>1, <2>2 DEF StrayOk, Numbered
  <2>4. opening'.n \notin peer'.open
    <3>1. ~Numbered(calls + 1)
      BY <2>2 DEF Numbered
    <3> QED BY <1>1, <2>1, <3>1 DEF StrayOk
  <2>5. \A x \in AskedOpens' :
           x.n \notin peer'.open /\ (x.n \in seen'.lost \/ (opening'.st = "sent" /\ x.n = opening'.n))
    BY <1>1, <1>3 DEF StrayOk, OpensKept
  <2>6. \A x \in ToldOpens' : x.t = "refuse" => x.n \notin peer'.open
    BY <1>1 DEF StrayOk, OpensKept
  <2>9. \A n : Closing(n) => Closing(n)'
    BY <1>1 DEF Closing, ClosesStay
  <2>7. ASSUME NEW id \in DOMAIN chans', chans'[id].closing = "sent"
        PROVE  chans'[id].remote \notin peer'.open \/ Closing(chans[id].remote)'
    <3>1. id \in DOMAIN chans /\ chans'[id].remote = chans[id].remote /\ chans[id].closing = "sent"
      BY <2>1, <2>7 DEF Adds
    <3> QED BY <1>1, <2>9, <3>1 DEF StrayOk
  <2>8. ASSUME NEW n \in peer'.open \ seen'.lost
        PROVE  Known(n)'
    <3>1. n \in peer.open /\ n # 0 /\ n \notin seen.lost /\ opening.n = 0
      BY <1>1, <2>1 DEF StrayOk, NotOpening
    <3>2. Known(n)
      BY <3>1 DEF StrayOk
    <3> QED BY <2>1, <2>9, <3>2 DEF Adds, Known
  <2> QED BY <2>3, <2>4, <2>5, <2>6, <2>7, <2>8 DEF StrayOk
<1> QED BY <1>2, <1>3

(* It is the open in progress that is sent. *)
LEMMA OpenSentStray ==
  ASSUME Base, Base', NumbersOk, StrayOk, NEW q, NEW w, OpenSent(q, w)
  PROVE  StrayOk'
<1>1. /\ w.what = "open" /\ w.what \in Questioned /\ opening.st = "created"
      /\ Question(w).n = opening.n /\ peer'.open = peer.open /\ peer'.conns = peer.conns
  BY OpenSentIs
<1>2. /\ Ships(q, w) /\ UNCHANGED <<chans, brigade, calls, seen>>
      /\ opening'.st = "sent" /\ opening'.n = opening.n
  BY DEF OpenSent, OpenGoesOn
<1>3. ToSet(server') = ToSet(server) \cup {Question(w)}
  <2>1. \A S : ToSet(server') = ToSet(server) \cup {Question(w)}
    BY <1>1, <1>2, ShipsAsks
  <2> QED BY <2>1
<1>4. ASSUME NEW x \in AskedOpens'
      PROVE  x.n \notin peer'.open /\ (x.n \in seen'.lost \/ (opening'.st = "sent" /\ x.n = opening'.n))
  <2>1. x \in AskedOpens \/ x = Question(w)
    BY <1>3 DEF AskedOpens
  <2>2. CASE x \in AskedOpens
    BY <1>1, <1>2, <2>2 DEF StrayOk
  <2>3. CASE x = Question(w)
    BY <1>1, <1>2, <2>3 DEF StrayOk
  <2> QED BY <2>1, <2>2, <2>3
<1>5. /\ \A n \in peer'.open : n # 0 /\ Numbered(n)'
      /\ \A x \in ToldOpens' : x.t = "refuse" => x.n \notin peer'.open
  BY <1>1, <1>2 DEF StrayOk, Numbered, ToldOpens
<1>7. \A n : Closing(n) => Closing(n)'
  BY <1>2, ShipsCloses DEF Closing, ClosesStay
<1>8. ASSUME NEW id \in DOMAIN chans', chans'[id].closing = "sent"
      PROVE  chans'[id].remote \notin peer'.open \/ Closing(chans[id].remote)'
  BY <1>1, <1>2, <1>7, <1>8 DEF StrayOk
<1>6. \A n \in peer'.open \ seen'.lost : Known(n)' \/ opening'.n = n
  BY <1>1, <1>2, <1>7 DEF StrayOk, Known
<1> QED BY <1>2, <1>4, <1>5, <1>6, <1>8 DEF StrayOk

(* Its channel is taken, or was refused. *)
LEMMA OpenAnsweredStray ==
  ASSUME Base, Base', NumbersOk, StrayOk, NEW i, OpenAnswered(i)
  PROVE  StrayOk'
<1>1. /\ brigade[i] \in ToldOpens /\ brigade[i].n = opening.n /\ opening.n \in 1..calls
      /\ brigade[i].n # 0 /\ opening.st = "sent"
      /\ (AskedOpens \cup ToldOpens)' \subseteq AskedOpens \cup ToldOpens
      /\ AskedOpens' = AskedOpens
      /\ \A x \in (AskedOpens \cup ToldOpens)' : x.n # opening.n
  BY OpenAnsweredIs
<1>2. /\ opening' = NotOpening /\ UNCHANGED <<peer, calls, seen, server>>
      /\ brigade' = RemoveAt(brigade, i) /\ i \in DOMAIN brigade
      /\ brigade[i].t = "confirm" => Adds(opening.id, opening.n)
      /\ brigade[i].t = "refuse" => chans' = Without(opening.id)
      /\ brigade[i].t \in {"confirm", "refuse"}
  BY <1>1 DEF OpenAnswered
<1>3. opening.id \in DOMAIN chans /\ chans[opening.id].remote = 0
  BY <1>1 DEF Base, OpeningOk
<1>4. /\ \A n \in peer'.open : n # 0 /\ Numbered(n)'
      /\ opening'.st = "idle"
      /\ \A x \in AskedOpens' : x.n \notin peer'.open /\ x.n \in seen'.lost
  BY <1>1, <1>2 DEF StrayOk, Numbered, NotOpening
<1>5. \A x \in ToldOpens' : x.t = "refuse" => x.n \notin peer'.open
  <2>1. ToSet(brigade') \subseteq ToSet(brigade)
    BY <1>2, Sequences, RemovedElements
  <2> QED BY <1>2, <2>1 DEF StrayOk, ToldOpens
<1>8. \A n : Closing(n) => Closing(n)'
  BY <1>2, SameCloses DEF Closing, ClosesStay
<1>6. ASSUME NEW id \in DOMAIN chans', chans'[id].closing = "sent"
      PROVE  chans'[id].remote \notin peer'.open \/ Closing(chans[id].remote)'
  <2>1. id \in DOMAIN chans /\ chans'[id].remote = chans[id].remote /\ chans[id].closing = "sent"
    BY <1>2, <1>6 DEF Adds, Without
  <2> QED BY <1>2, <1>8, <2>1 DEF StrayOk
<1>7. ASSUME NEW n \in peer'.open \ seen'.lost
      PROVE  Known(n)'
  <2>1. n \in peer.open /\ n # 0 /\ n \notin seen.lost
    BY <1>2, <1>7 DEF StrayOk
  <2>2. CASE n = opening.n
    <3>1. brigade[i].t = "confirm"
      BY <1>1, <1>2, <2>1, <2>2 DEF StrayOk
    <3> QED BY <1>2, <2>2, <3>1 DEF Adds, Known
  <2>3. CASE n # opening.n
    <3>1. Known(n)
      BY <2>1, <2>3 DEF StrayOk
    <3>2. ASSUME NEW id \in DOMAIN chans, chans[id].remote = n
          PROVE  id \in DOMAIN chans' /\ chans'[id].remote = n
      <4>1. id # opening.id
        BY <1>3, <2>1, <3>2
      <4> QED BY <1>2, <3>2, <4>1 DEF Adds, Without
    <3> QED BY <1>8, <3>1, <3>2 DEF Known
  <2> QED BY <2>2, <2>3
<1> QED BY <1>4, <1>5, <1>6, <1>7 DEF StrayOk

(* What an open that failed leaves is lost. *)
LEMMA OpenFailedStray ==
  ASSUME Base, Base', StrayOk, OpenFailed
  PROVE  StrayOk'
<1>1. /\ opening' = NotOpening /\ UNCHANGED calls /\ opening.st = "sent"
      /\ chans' = Without(opening.id) /\ SameWires
      /\ seen'.lost = seen.lost \cup {opening.n}
  BY DEF OpenFailed, Base, Types, SeenType
<1>2. opening.id \in DOMAIN chans /\ chans[opening.id].remote = 0
  BY <1>1 DEF Base, OpeningOk
<1>3. OpensKept
  BY <1>1, SameKept, KeptOpens DEF SameWires
<1>4. /\ \A n \in peer'.open : n # 0 /\ Numbered(n)'
      /\ opening'.st = "idle"
      /\ \A x \in AskedOpens' : x.n \notin peer'.open /\ x.n \in seen'.lost
      /\ \A x \in ToldOpens' : x.t = "refuse" => x.n \notin peer'.open
  BY <1>1, <1>3 DEF StrayOk, Numbered, NotOpening, SameWires, OpensKept
<1>7. \A n : Closing(n) => Closing(n)'
  BY <1>1, SameCloses DEF Closing, ClosesStay, SameWires
<1>5. ASSUME NEW id \in DOMAIN chans', chans'[id].closing = "sent"
      PROVE  chans'[id].remote \notin peer'.open \/ Closing(chans[id].remote)'
  BY <1>1, <1>5, <1>7 DEF StrayOk, Without, SameWires
<1>6. ASSUME NEW n \in peer'.open \ seen'.lost
      PROVE  Known(n)'
  <2>1. n \in peer.open \ seen.lost /\ n # 0 /\ Known(n)
    BY <1>1, <1>6 DEF StrayOk, SameWires
  <2> QED BY <1>1, <1>2, <1>7, <2>1 DEF Known, Without
<1> QED BY <1>4, <1>5, <1>6 DEF StrayOk

(* Every step keeps it. *)
LEMMA StepStray ==
  ASSUME Base, Base', NumbersOk, ClosesOk, StrayOk, [Next]_vars
  PROVE  StrayOk'
<1>1. ASSUME NEW q, OpenStays(q)
      PROVE  StrayOk'
  <2>1. StrayFrame
    BY <1>1, SameFlags, Bounds DEF OpenStays, OpenGoesOn, Stays, StrayFrame
  <2> QED BY <1>1, <2>1, StaysKept, SameCloses, KeptOpens, StrayFrames DEF Stays, OpenStays, OpenGoesOn
<1>2. CASE OpenStep
  BY <1>1, <1>2, OpenBeginsStray, OpenSentStray, OpenAnsweredStray, OpenFailedStray DEF OpenStep
<1>3. CASE Abandoned
  <2>1. seen'.lost = seen.lost
    BY <1>3 DEF Abandoned, Base, Types, SeenType
  <2>2. StrayFrame
    BY <1>3, <2>1, SameFlags, Bounds DEF Abandoned, StrayFrame, SameQueues, SameWires
  <2> QED BY <1>3, <2>2, SameKept, SameCloses, KeptOpens, StrayFrames DEF Abandoned, SameWires
<1>4. CASE UNCHANGED vars
  <2>1. StrayFrame
    BY <1>4, SameFlags, Bounds DEF StrayFrame, vars
  <2> QED BY <1>4, <2>1, SameKept, SameCloses, KeptOpens, StrayFrames DEF vars
<1> QED BY <1>2, <1>3, <1>4, StepIs, ServerStray, OtherStray, RequestStray, ListenStray

(* Who knows a channel has it, and what closes it is a message at the server. *)
LEMMA StrayKnown ==
  ASSUME StrayOk
  PROVE  NoStrayChannel
<1> SUFFICES ASSUME NEW n \in peer.open \ seen.lost, opening.n # n,
                    ~\E id \in DOMAIN chans : chans[id].remote = n
             PROVE  \E i \in DOMAIN server : server[i].kind = "close" /\ server[i].n = n
  BY DEF NoStrayChannel
<1> QED BY DEF StrayOk, Known, Closing, AskedCloses, ToSet

(* What the server has open, but for what is lost, the library knows, or told it to
   close: it has the channel, or the open that asked for it goes on, or the channel was
   disposed of, or is about to be, and its close is at the server. *)
THEOREM NoChannelStrays == Spec => []NoStrayChannel
<1> DEFINE IInv == Base /\ NumbersOk /\ ClosesOk /\ StrayOk
<1>1. Init => IInv
  BY InitBase, InitNumbers, InitCloses, InitStray
<1>2. IInv /\ [Next]_vars => IInv'
  BY StepBase, StepNumbers, StepCloses, StepStray
<1>3. IInv => NoStrayChannel
  BY StrayKnown
<1> HIDE DEF IInv
<1> QED BY <1>1, <1>2, <1>3, PTL DEF Spec

(* Steps of other kinds leave what waits and what is answered. *)
LEMMA KeptTokens ==
  ASSUME Base, Base', NEW kind, Kept(kind)
  PROVE  /\ \A x \in ToSet(server) : x.kind = kind => x \in ToSet(server')
         /\ \A x \in ToSet(server') : x.kind = kind => x \in ToSet(server)
         /\ \A x \in ToSet(brigade) : TagOf(kind, x.t) => x \in ToSet(brigade')
         /\ \A x \in ToSet(brigade') : TagOf(kind, x.t) => x \in ToSet(brigade)
<1>1. server' \in Seq(QuestionType) /\ brigade' \in Seq(ReplyType)
  BY DEF Base, Types
<1>2. ASSUME NEW x, x.kind = kind
      PROVE  x \in ToSet(server) <=> x \in ToSet(server')
  <2>1. Keeping(server, server', {x})
    BY <1>2 DEF Kept
  <2>2. Count(server', {x}) = Count(server, {x})
    BY <2>1 DEF Keeping
  <2>3. /\ Count(server, {x}) = 0 <=> x \notin ToSet(server)
        /\ Count(server', {x}) = 0 <=> x \notin ToSet(server')
    BY <1>1, Sequences, CountNone
  <2> QED BY <2>2, <2>3
<1>3. ASSUME NEW x, TagOf(kind, x.t)
      PROVE  x \in ToSet(brigade) <=> x \in ToSet(brigade')
  <2>1. Keeping(brigade, brigade', {x})
    BY <1>3 DEF Kept
  <2>2. Count(brigade', {x}) = Count(brigade, {x})
    BY <2>1 DEF Keeping
  <2>3. /\ Count(brigade, {x}) = 0 <=> x \notin ToSet(brigade)
        /\ Count(brigade', {x}) = 0 <=> x \notin ToSet(brigade')
    BY <1>1, Sequences, CountNone
  <2> QED BY <2>2, <2>3
<1> QED BY <1>2, <1>3

-----------------------------------------------------------------------------
(* Whose an open is: of the call that built it, unless that was given up, and its message
   too; and the server still answers it or has answered it. *)
OwnOpensOk ==
  /\ opening.st # "idle" /\ opening.id \notin seen.given =>
       call.op \in Opens /\ call.n = opening.n /\ call.op = opening.type
  /\ direct # 0 => seen.stale \/ (call.op = "tcpip" /\ direct = call.n)
  /\ call.op = "tcpip" => direct # 0
  /\ call.op = "tcpip" /\ opening.id \notin seen.given /\ ~seen.stale =>
       /\ \A x \in AskedOpens \cup ToldOpens : x.id = opening.id => x.to = call.n
       /\ out # None /\ out.what = "open" => out.to = call.n
  /\ opening.st = "sent" => \E x \in AskedOpens \cup ToldOpens : x.id = opening.id
  /\ OwnChannel

(* What moves only from the server to the library. *)
OpensMove ==
  /\ \A x \in (AskedOpens \cup ToldOpens)' : \E y \in AskedOpens \cup ToldOpens : y.id = x.id /\ y.to = x.to
  /\ \A x \in AskedOpens \cup ToldOpens : \E y \in (AskedOpens \cup ToldOpens)' : y.id = x.id
(* What no other kind of call changes. *)
OwnFrame ==
  /\ UNCHANGED <<opening, direct>>
  /\ seen.given \subseteq seen'.given /\ (seen.stale => seen'.stale)
  /\ \/ call'.op = call.op /\ call'.n = call.n
     \/ call.op \notin Opens /\ call'.op \notin Opens
  /\ told' = told \/ told' = Silent \/ told'.op \notin Opens
  /\ out' = None \/ out' = out \/ out'.what # "open"

(* No reply is to no one. *)
LEMMA SilentNot ==
  Silent.op = "none" /\ ~Silent.ok /\ "tcpip" \in Opens /\ "session" \in Opens /\ "none" \notin Opens
BY DEF Silent, Opens

(* A step of another kind of call keeps it. *)
LEMMA OwnFrames ==
  ASSUME Base, Base', OwnOpensOk, OwnFrame, OpensMove
  PROVE  OwnOpensOk'
<1> USE SilentNot
<1>1. opening'.st # "idle" /\ opening'.id \notin seen'.given =>
        call'.op \in Opens /\ call'.n = opening'.n /\ call'.op = opening'.type
  BY DEF OwnOpensOk, OwnFrame
<1>2. /\ direct' # 0 => seen'.stale \/ (call'.op = "tcpip" /\ direct' = call'.n)
      /\ call'.op = "tcpip" => direct' # 0
  BY DEF OwnOpensOk, OwnFrame
<1>3. call'.op = "tcpip" /\ opening'.id \notin seen'.given /\ ~seen'.stale =>
       /\ \A x \in (AskedOpens \cup ToldOpens)' : x.id = opening'.id => x.to = call'.n
       /\ out' # None /\ out'.what = "open" => out'.to = call'.n
  <2> SUFFICES ASSUME call'.op = "tcpip", opening'.id \notin seen'.given, ~seen'.stale
               PROVE  /\ \A x \in (AskedOpens \cup ToldOpens)' : x.id = opening'.id => x.to = call'.n
                      /\ out' # None /\ out'.what = "open" => out'.to = call'.n
    OBVIOUS
  <2>1. call.op = "tcpip" /\ opening.id \notin seen.given /\ ~seen.stale /\ call'.n = call.n /\ opening' = opening
    BY DEF OwnFrame
  <2>2. \A x \in AskedOpens \cup ToldOpens : x.id = opening.id => x.to = call.n
    BY <2>1 DEF OwnOpensOk
  <2>3. out # None /\ out.what = "open" => out.to = call.n
    BY <2>1 DEF OwnOpensOk
  <2> QED BY <2>1, <2>2, <2>3 DEF OwnFrame, OpensMove
<1>4. opening'.st = "sent" => \E x \in (AskedOpens \cup ToldOpens)' : x.id = opening'.id
  BY DEF OwnOpensOk, OwnFrame, OpensMove
<1>5. OwnChannel'
  BY DEF OwnOpensOk, OwnFrame, OwnChannel
<1> QED BY <1>1, <1>2, <1>3, <1>4, <1>5 DEF OwnOpensOk

(* Such steps leave the opens. *)
LEMMA KeptMove ==
  ASSUME Base, Base', Kept("open")
  PROVE  OpensMove
<1>1. \A x : TagOf("open", x.t) <=> x.t \in {"confirm", "refuse"}
  BY DEF TagOf
<1>2. (AskedOpens \cup ToldOpens)' = AskedOpens \cup ToldOpens
  BY <1>1, KeptTokens DEF AskedOpens, ToldOpens
<1> QED BY <1>2 DEF OpensMove

(* And keep it. *)
LEMMA OwnKept ==
  ASSUME Base, Base', OwnOpensOk, OwnFrame, Kept("open")
  PROVE  OwnOpensOk'
BY KeptMove, OwnFrames

(* No open is in progress. *)
LEMMA InitOwnOpens ==
  ASSUME Init
  PROVE  OwnOpensOk
BY SilentNot DEF Init, OwnOpensOk, NotOpening, NoCall, OwnChannel

(* The calls are of different kinds. *)
LEMMA OthersApart ==
  /\ \A op \in Others : op \notin Opens /\ op \notin Kinds /\ op # "listen"
  /\ "listen" \notin Opens /\ \A k \in Kinds : k \notin Opens
  /\ NoCall.op \notin Opens /\ NoCall.op \notin Kinds /\ NoCall.op # "listen"
BY OpsApart DEF Others, NoCall, Opens

(* A call that goes on stays what it was, and stays where it was unless it asks for nothing. *)
LEMMA CallKept ==
  ASSUME KeepsCall
  PROVE  /\ call'.op = call.op /\ call'.id = call.id /\ call'.n = call.n
         /\ \/ call'.ph = call.ph
            \/ call.op \notin Kinds /\ call'.op \notin Kinds /\ call.op # "listen" /\ call'.op # "listen"
BY OthersApart DEF KeepsCall

(* The server answers with what it was asked. *)
LEMMA ServerOwn ==
  ASSUME Base, Base', OwnOpensOk, ServerStep
  PROVE  OwnOpensOk'
<1>1. ASSUME NEW i, NEW t, Reads(i, t)
      PROVE  OwnOpensOk'
  <2>1. OwnFrame
    BY <1>1 DEF Reads, SameQueues, OwnFrame
  <2>2. CASE server[i].kind # "open"
    BY <1>1, <2>1, <2>2, ReadsKept, OwnKept
  <2>3. CASE server[i].kind = "open"
    <3> DEFINE r == Reply(t, server[i])
    <3>1. /\ i \in DOMAIN server /\ t \in {"confirm", "refuse"} /\ r.t = t
          /\ r.id = server[i].id /\ r.to = server[i].to
          /\ server' = RemoveAt(server, i)
      BY <1>1, <2>3 DEF Reads, TagOf, Reply
    <3>2. ToSet(brigade') = ToSet(brigade) \cup {r}
      <4>1. server[i] \in {server[i]} <=> r \in {r}
        OBVIOUS
      <4> QED BY <1>1, <4>1, ReadsMoves
    <3>3. ToSet(server') \subseteq ToSet(server) /\ ToSet(server) \subseteq ToSet(server') \cup {server[i]}
          /\ server[i] \in ToSet(server)
      BY <3>1, Sequences, RemovedElements, Zenon
    <3> HIDE DEF r
    <3>4. server[i] \in AskedOpens /\ r \in ToldOpens'
      BY <2>3, <3>1, <3>2, <3>3 DEF AskedOpens, ToldOpens
    <3>5. ASSUME NEW x \in (AskedOpens \cup ToldOpens)'
          PROVE  \E y \in AskedOpens \cup ToldOpens : y.id = x.id /\ y.to = x.to
      <4>1. x \in AskedOpens \cup ToldOpens \/ x = r
        BY <3>2, <3>3 DEF AskedOpens, ToldOpens
      <4> QED BY <3>1, <3>4, <4>1
    <3>6. ASSUME NEW x \in AskedOpens \cup ToldOpens
          PROVE  \E y \in (AskedOpens \cup ToldOpens)' : y.id = x.id
      <4>1. x \in (AskedOpens \cup ToldOpens)' \/ x = server[i]
        BY <3>2, <3>3 DEF AskedOpens, ToldOpens
      <4> QED BY <3>1, <3>4, <4>1
    <3> QED BY <2>1, <3>5, <3>6, OwnFrames DEF OpensMove
  <2> QED BY <2>2, <2>3
<1>2. ASSUME NEW i, Closes(i)
      PROVE  OwnOpensOk'
  <2>1. OwnFrame
    BY <1>2, CallKept DEF Closes, SameQueues, OwnFrame
  <2> QED BY <1>2, <2>1, ClosesKept, OwnKept
<1>3. CASE ServerWaits
  <2>1. OwnFrame
    BY <1>3, CallKept DEF ServerWaits, OwnFrame
  <2> QED BY <1>3, <2>1, SameKept, OwnKept DEF ServerWaits
<1>4. CASE AddingLost
  <2>1. seen'.given = seen.given /\ seen'.stale = seen.stale
    BY <1>4 DEF AddingLost, Base, Types, SeenType
  <2>2. OwnFrame
    BY <1>4, <2>1, CallKept DEF AddingLost, OwnFrame
  <2> QED BY <1>4, <2>2, SameKept, OwnKept DEF AddingLost
<1>5. ASSUME NEW id, NEW n, ServerKeeps(id, n)
      PROVE  OwnOpensOk'
  <2>1. OwnFrame
    BY <1>5, CallKept DEF ServerKeeps, OwnFrame
  <2> QED BY <1>5, <2>1, SameKept, OwnKept DEF ServerKeeps
<1> QED BY <1>1, <1>2, <1>3, <1>4, <1>5 DEF ServerStep

(* The calls that ask for nothing. *)
LEMMA OtherOwn ==
  ASSUME Base, Base', OwnOpensOk, OtherStep
  PROVE  OwnOpensOk'
<1>1. CASE Plain
  <2>1. OwnFrame
    BY <1>1, OthersApart DEF Plain, SameQueues, SameWires, KeepsSeen, KeepsTold, OwnFrame
  <2> QED BY <1>1, <2>1, SameKept, OwnKept DEF Plain, SameWires
<1>2. ASSUME NEW q, Mute(q)
      PROVE  OwnOpensOk'
  <2>1. out' = None \/ out'.what # "open"
    BY <1>2 DEF Mute, MutePacket, Stays, Ships
  <2>2. OwnFrame
    BY <1>2, <2>1, OthersApart DEF Mute, SameQueues, KeepsSeen, KeepsTold, OwnFrame
  <2> QED BY <1>2, <2>2, MuteKept, OwnKept
<1> QED BY <1>1, <1>2 DEF OtherStep

(* A call of a request that ends, or is made again. *)
LEMMA OverIs ==
  ASSUME Base, NEW kind \in Kinds, NEW reply, NEW r, RequestOver(kind, reply, r), call.op = kind
  PROVE  /\ call'.op \notin Opens /\ call'.op \in Kinds \cup {"none"}
         /\ call' = NoCall \/ (call'.id = call.id /\ call'.n = call.n /\ call'.op = call.op /\ call'.ph = "send")
         /\ told' = told \/ told' = reply
BY OthersApart DEF RequestOver, NoCall, Base, Types, CallType

(* The requests. *)
LEMMA RequestOwn ==
  ASSUME Base, Base', OwnOpensOk, RequestStep
  PROVE  OwnOpensOk'
<1> USE OthersApart, SilentNot
<1>1. ASSUME NEW kind \in Kinds, NEW id \in Mine, RequestBegins(kind, id)
      PROVE  OwnOpensOk'
  <2>1. OwnFrame
    BY <1>1 DEF RequestBegins, Calls, OwnFrame, SameQueues, SameWires
  <2> QED BY <1>1, <2>1, SameKept, OwnKept DEF RequestBegins, SameWires
<1>2. ASSUME NEW kind \in Kinds, NEW q, RequestStays(kind, q)
      PROVE  OwnOpensOk'
  <2>1. kind # "open"
    BY Names DEF OtherNames
  <2>2. OwnFrame
    BY <1>2, <2>1 DEF RequestStays, RequestGoesOn, RequestPacket, Stays, OwnFrame, SameQueues
  <2> QED BY <1>2, <2>2, StaysKept, OwnKept DEF RequestStays, RequestGoesOn
<1>3. ASSUME NEW kind \in Kinds, NEW q, NEW w, RequestSent(kind, q, w)
      PROVE  OwnOpensOk'
  <2>1. /\ Ships(q, w) /\ q.what \in Kinds \cup {"size"} /\ brigade' = brigade
        /\ UNCHANGED <<opening, direct, told, seen>> /\ call'.op = call.op /\ call'.n = call.n
    BY <1>3 DEF RequestSent, RequestPacket, RequestGoesOn, SameQueues, Waiting
  <2>2. out' = None /\ (w.what \in Questioned => Question(w).kind = "request")
    BY <2>1, ShipsRequest
  <2>4. OwnFrame
    BY <2>1, <2>2 DEF OwnFrame
  <2>5. Kept("open")
    BY <2>1, <2>2, ShipsKept
  <2> QED BY <2>4, <2>5, OwnKept
<1>4. ASSUME NEW kind \in Kinds, NEW i, NEW r, RequestAnswered(kind, i, r)
      PROVE  OwnOpensOk'
  <2>0. RequestOver(kind, Told(kind, i), r) /\ call.op = kind /\ Told(kind, i).op = kind
    BY <1>4 DEF RequestAnswered, Told
  <2>3. call'.op \notin Opens /\ (told' = told \/ told'.op \notin Opens)
    BY <2>0, OverIs
  <2>1. OwnFrame
    BY <1>4, <2>0, <2>3 DEF RequestAnswered, OwnFrame, SameQueues
  <2>2. i \in DOMAIN brigade /\ brigade' = RemoveAt(brigade, i) /\ server' = server /\ ~TagOf("open", brigade[i].t)
    BY <1>4 DEF RequestAnswered, TagOf
  <2> QED BY <2>1, <2>2, TakenKept, OwnKept
<1>5. ASSUME NEW kind \in Kinds, NEW r, RequestFailed(kind, r)
      PROVE  OwnOpensOk'
  <2>0. RequestOver(kind, Silent, r) /\ call.op = kind
    BY <1>5 DEF RequestFailed
  <2>3. call'.op \notin Opens /\ (told' = told \/ told' = Silent)
    BY <2>0, OverIs
  <2>2. seen.given \subseteq seen'.given /\ seen'.stale = seen.stale
    BY <1>5 DEF RequestFailed, Base, Types, SeenType
  <2>4. UNCHANGED <<opening, direct, out>> /\ call.op \notin Opens
    BY <1>5, <2>0, OthersApart DEF RequestFailed, SameQueues, SameWires
  <2>1. OwnFrame
    BY <2>2, <2>3, <2>4 DEF OwnFrame
  <2> QED BY <1>5, <2>1, SameKept, OwnKept DEF RequestFailed, SameWires
<1>6. ASSUME NEW id, NEW q, PtySized(id, q)
      PROVE  OwnOpensOk'
  <2>1. Kept("open") /\ (out' = None \/ out' = out \/ out'.what # "open")
    <3>1. "open" \notin Kinds \cup {"size"}
      BY Names DEF OtherNames
    <3> QED BY <1>6, <3>1, SizedIs
  <2>2. seen.given \subseteq seen'.given /\ seen'.stale = seen.stale
    BY <1>6, SizedSeen
  <2>3. OwnFrame
    BY <1>6, <2>1, <2>2 DEF OwnFrame, PtySized, SameQueues
  <2> QED BY <2>1, <2>3, OwnKept
<1> QED BY <1>1, <1>2, <1>3, <1>4, <1>5, <1>6 DEF RequestStep

(* The forwardings. *)
LEMMA ListenStepOwn ==
  ASSUME Base, Base', OwnOpensOk, ListenStep
  PROVE  OwnOpensOk'
<1> USE OthersApart, SilentNot
<1>1. CASE ListenBegins
  <2>1. OwnFrame
    BY <1>1 DEF ListenBegins, Calls, OwnFrame, SameWires
  <2> QED BY <1>1, <2>1, SameKept, OwnKept DEF ListenBegins, SameWires
<1>2. ASSUME NEW q, ListenStays(q)
      PROVE  OwnOpensOk'
  <2>1. OwnFrame
    BY <1>2 DEF ListenStays, ListenGoesOn, ListenPacket, Stays, OwnFrame
  <2> QED BY <1>2, <2>1, StaysKept, OwnKept DEF ListenStays, ListenGoesOn
<1>3. ASSUME NEW q, NEW w, ListenSent(q, w)
      PROVE  OwnOpensOk'
  <2>1. Ships(q, w) /\ w \in WirePackets /\ w.what = "listen" /\ out' = None
    BY <1>3 DEF ListenSent, Ships
  <2>2. OwnFrame
    BY <1>3, <2>1 DEF ListenSent, ListenGoesOn, OwnFrame, Waiting
  <2>3. w.what \in Questioned => Question(w).kind # "open"
    BY <2>1, QuestionTyped
  <2> QED BY <1>3, <2>1, <2>2, <2>3, ShipsKept, OwnKept DEF ListenSent, ListenGoesOn
<1>4. ASSUME NEW i, ListenAnswered(i)
      PROVE  OwnOpensOk'
  <2>1. OwnFrame
    BY <1>4 DEF ListenAnswered, OwnFrame
  <2>2. i \in DOMAIN brigade /\ brigade' = RemoveAt(brigade, i) /\ server' = server /\ ~TagOf("open", brigade[i].t)
    BY <1>4 DEF ListenAnswered, TagOf
  <2> QED BY <2>1, <2>2, TakenKept, OwnKept
<1>5. CASE ListenFailed
  <2>1. seen.given \subseteq seen'.given /\ seen'.stale = seen.stale
    BY <1>5 DEF ListenFailed, Base, Types, SeenType
  <2>2. OwnFrame
    BY <1>5, <2>1 DEF ListenFailed, OwnFrame, SameWires
  <2> QED BY <1>5, <2>2, SameKept, OwnKept DEF ListenFailed, SameWires
<1> QED BY <1>1, <1>2, <1>3, <1>4, <1>5 DEF ListenStep

(* An open left off is no longer its call's. *)
LEMMA AbandonOwn ==
  ASSUME Base, Base', OwnOpensOk, Abandoned
  PROVE  OwnOpensOk'
<1>1. /\ call' = NoCall /\ UNCHANGED <<opening, direct, brigade, server, out, told>>
      /\ seen.given \subseteq seen'.given /\ (seen.stale => seen'.stale)
      /\ call.op \in Opens => call.id \in seen'.given
      /\ call.op = "tcpip" => seen'.stale
  BY DEF Abandoned, SameQueues, SameWires, Base, Types, SeenType
<1>2. call.op \in Opens => call.id = opening.id
  BY DEF Base, Callers
<1>3. (AskedOpens \cup ToldOpens)' = AskedOpens \cup ToldOpens
  BY <1>1 DEF AskedOpens, ToldOpens
<1>4. OwnChannel'
  BY <1>1 DEF OwnOpensOk, OwnChannel
<1>5. opening'.st # "idle" => opening'.id \in seen'.given
  BY <1>1, <1>2 DEF OwnOpensOk
<1>6. direct' # 0 => seen'.stale
  BY <1>1 DEF OwnOpensOk
<1>7. call'.op \notin Opens /\ call'.op # "tcpip"
  BY <1>1, OthersApart, SilentNot
<1> QED BY <1>1, <1>3, <1>4, <1>5, <1>6, <1>7 DEF OwnOpensOk

(* A new open is its call's. *)
LEMMA OpenBeginsOwn ==
  ASSUME Base, Base', NumbersOk, OwnOpensOk, NEW type \in Opens, OpenBegins(type)
  PROVE  OwnOpensOk'
<1>1. /\ call = NoCall /\ call'.op = type /\ call'.n = calls + 1 /\ told' = Silent
      /\ direct' = IF type = "tcpip" /\ direct = 0 THEN calls + 1 ELSE direct
      /\ UNCHANGED <<brigade, out, server, seen>>
  BY DEF OpenBegins, Calls, SameWires
<1>2. call.op \notin Opens /\ call.op # "tcpip" /\ calls + 1 # 0 /\ calls \in Nat
  BY <1>1, OthersApart, SilentNot, Bounds
<1>3. (AskedOpens \cup ToldOpens)' = AskedOpens \cup ToldOpens
  BY <1>1 DEF AskedOpens, ToldOpens
<1>4. OwnChannel'
  BY <1>1, SilentNot DEF OwnChannel
<1>5. /\ direct' # 0 => seen'.stale \/ (call'.op = "tcpip" /\ direct' = call'.n)
      /\ call'.op = "tcpip" => direct' # 0
  <2>1. direct # 0 => seen.stale
    BY <1>2 DEF OwnOpensOk
  <2> QED BY <1>1, <1>2, <2>1
<1>6. CASE /\ opening.st = "idle" /\ opening'.st = "created" /\ opening'.type = type
           /\ opening'.n = calls + 1 /\ opening'.id = next
  <2>1. \A x \in (AskedOpens \cup ToldOpens)' : x.id # opening'.id
    <3>1. \A x \in AskedOpens \cup ToldOpens : x.id < next
      BY DEF NumbersOk, Token
    <3> QED BY <1>3, <1>6, <3>1, Bounds
  <2>2. ~(out' # None /\ out'.what = "open")
    BY <1>1, <1>6 DEF NumbersOk
  <2> QED BY <1>1, <1>4, <1>5, <1>6, <2>1, <2>2 DEF OwnOpensOk
<1>7. CASE opening.st # "idle" /\ opening' = opening
  <2>1. opening'.id \in seen'.given
    BY <1>1, <1>2, <1>7 DEF OwnOpensOk
  <2>2. opening'.st = "sent" => \E x \in (AskedOpens \cup ToldOpens)' : x.id = opening'.id
    BY <1>3, <1>7 DEF OwnOpensOk
  <2> QED BY <1>4, <1>5, <2>1, <2>2 DEF OwnOpensOk
<1> QED BY <1>6, <1>7 DEF OpenBegins

(* A part of it is sent, with the message of the call. *)
LEMMA OpenStaysOwn ==
  ASSUME Base, Base', OwnOpensOk, NEW q, OpenStays(q)
  PROVE  OwnOpensOk'
<1>1. /\ UNCHANGED <<opening, direct, call, seen, told, server, brigade>> /\ out' = q
      /\ call.op = "tcpip" => q.to = direct
  BY DEF OpenStays, OpenGoesOn, Stays, OpenPacket, Message
<1>2. (AskedOpens \cup ToldOpens)' = AskedOpens \cup ToldOpens
  BY <1>1 DEF AskedOpens, ToldOpens
<1>3. OwnChannel'
  BY <1>1 DEF OwnOpensOk, OwnChannel
<1>4. call.op = "tcpip" /\ ~seen.stale => q.to = call.n
  BY <1>1 DEF OwnOpensOk
<1>5. call'.op = "tcpip" /\ opening'.id \notin seen'.given /\ ~seen'.stale =>
       /\ \A x \in (AskedOpens \cup ToldOpens)' : x.id = opening'.id => x.to = call'.n
       /\ out' # None /\ out'.what = "open" => out'.to = call'.n
  BY <1>1, <1>2, <1>4 DEF OwnOpensOk
<1>6. /\ opening'.st # "idle" /\ opening'.id \notin seen'.given =>
           call'.op \in Opens /\ call'.n = opening'.n /\ call'.op = opening'.type
      /\ direct' # 0 => seen'.stale \/ (call'.op = "tcpip" /\ direct' = call'.n)
      /\ call'.op = "tcpip" => direct' # 0
      /\ opening'.st = "sent" => \E x \in (AskedOpens \cup ToldOpens)' : x.id = opening'.id
  BY <1>1, <1>2 DEF OwnOpensOk
<1> QED BY <1>3, <1>5, <1>6 DEF OwnOpensOk

(* It is sent. *)
LEMMA OpenSentOwn ==
  ASSUME Base, Base', NumbersOk, OwnOpensOk, NEW q, NEW w, OpenSent(q, w)
  PROVE  OwnOpensOk'
<1>1. /\ w.what = "open" /\ w.what \in Questioned /\ opening.st = "created"
      /\ Question(w).kind = "open" /\ Question(w).id = opening.id /\ Question(w).to = w.to
      /\ out' = None
  BY OpenSentIs
<1>2. /\ UNCHANGED <<direct, seen, told, brigade>> /\ call'.op = call.op /\ call'.n = call.n
      /\ opening'.type = opening.type /\ opening'.n = opening.n /\ opening'.id = opening.id
      /\ opening'.st = "sent" /\ Ships(q, w)
      /\ w = q \/ (out # None /\ w = out)
      /\ call.op = "tcpip" => q.to = direct
  BY DEF OpenSent, OpenGoesOn, Waiting, Ships, OpenPacket, Message
<1>3. ToSet(server') = ToSet(server) \cup {Question(w)}
  <2>1. \A S : ToSet(server') = ToSet(server) \cup {Question(w)}
    BY <1>1, <1>2, ShipsAsks
  <2> QED BY <2>1
<1>4. (AskedOpens \cup ToldOpens)' = AskedOpens \cup ToldOpens \cup {Question(w)}
  BY <1>1, <1>2, <1>3 DEF AskedOpens, ToldOpens
<1>5. OwnChannel'
  BY <1>2 DEF OwnOpensOk, OwnChannel
<1>6. call.op = "tcpip" /\ opening.id \notin seen.given /\ ~seen.stale => w.to = call.n
  BY <1>1, <1>2 DEF OwnOpensOk
<1>7. call'.op = "tcpip" /\ opening'.id \notin seen'.given /\ ~seen'.stale =>
       /\ \A x \in (AskedOpens \cup ToldOpens)' : x.id = opening'.id => x.to = call'.n
       /\ out' # None /\ out'.what = "open" => out'.to = call'.n
  BY <1>1, <1>2, <1>4, <1>6 DEF OwnOpensOk
<1>8. /\ opening'.st # "idle" /\ opening'.id \notin seen'.given =>
           call'.op \in Opens /\ call'.n = opening'.n /\ call'.op = opening'.type
      /\ direct' # 0 => seen'.stale \/ (call'.op = "tcpip" /\ direct' = call'.n)
      /\ call'.op = "tcpip" => direct' # 0
      /\ opening'.st = "sent" => \E x \in (AskedOpens \cup ToldOpens)' : x.id = opening'.id
  BY <1>1, <1>2, <1>4 DEF OwnOpensOk
<1> QED BY <1>5, <1>7, <1>8 DEF OwnOpensOk

(* The answer taken is that of the call. *)
LEMMA OpenAnsweredOwn ==
  ASSUME Base, Base', NumbersOk, OwnOpensOk, NEW i, OpenAnswered(i)
  PROVE  OwnOpensOk'
<1>1. brigade[i] \in ToldOpens /\ brigade[i].n = opening.n /\ opening.st = "sent"
  BY OpenAnsweredIs
<1>2. /\ call' = NoCall /\ opening'.st = "idle" /\ UNCHANGED seen
      /\ direct' = IF call.op = "tcpip" THEN 0 ELSE direct
      /\ told'.op = call.op /\ told'.id = opening.id /\ told'.n = call.n
      /\ told'.by = opening.n /\ told'.to = brigade[i].to
      /\ brigade[i].id = opening.id
  BY <1>1 DEF OpenAnswered, NotOpening
<1>3. direct' # 0 => seen'.stale
  BY <1>2 DEF OwnOpensOk
<1>4. OwnChannel'
  <2>1. opening.id \notin seen.given => call.n = opening.n
    BY <1>1 DEF OwnOpensOk
  <2>2. call.op = "tcpip" /\ opening.id \notin seen.given /\ ~seen.stale => brigade[i].to = call.n
    BY <1>1, <1>2 DEF OwnOpensOk
  <2> QED BY <1>2, <2>1, <2>2 DEF OwnChannel
<1>5. call'.op \notin Opens /\ call'.op # "tcpip"
  BY <1>2, OthersApart, SilentNot
<1> QED BY <1>2, <1>3, <1>4, <1>5 DEF OwnOpensOk

(* The open fails. *)
LEMMA OpenFailedOwn ==
  ASSUME Base, Base', OwnOpensOk, OpenFailed
  PROVE  OwnOpensOk'
<1>1. /\ call' = NoCall /\ opening'.st = "idle" /\ seen'.stale = seen.stale /\ told' = Silent
      /\ direct' = IF call.op = "tcpip" THEN 0 ELSE direct
  BY DEF OpenFailed, NotOpening, Base, Types, SeenType
<1>2. direct' # 0 => seen'.stale
  BY <1>1 DEF OwnOpensOk
<1>3. call'.op \notin Opens /\ call'.op # "tcpip"
  BY <1>1, OthersApart, SilentNot
<1> QED BY <1>1, <1>2, <1>3, SilentNot DEF OwnOpensOk, OwnChannel

(* Every step keeps it. *)
LEMMA StepOwnOpens ==
  ASSUME Base, Base', NumbersOk, OwnOpensOk, [Next]_vars
  PROVE  OwnOpensOk'
<1>1. CASE OpenStep
  BY <1>1, OpenBeginsOwn, OpenStaysOwn, OpenSentOwn, OpenAnsweredOwn, OpenFailedOwn DEF OpenStep
<1>2. CASE UNCHANGED vars
  <2>1. OwnFrame
    BY <1>2 DEF OwnFrame, vars
  <2> QED BY <1>2, <2>1, SameKept, OwnKept DEF vars
<1> QED BY <1>1, <1>2, StepIs, ServerOwn, OtherOwn, RequestOwn, ListenStepOwn, AbandonOwn

(* An open that waits gets its answer. *)
LEMMA OpenHasAnswer ==
  ASSUME Base, OwnOpensOk, call.op \in Opens, call.ph = "reply"
  PROVE  WaiterHasAnswer
<1>1. opening.st = "sent" /\ call.id = opening.id
  BY DEF Base, Callers
<1>2. PICK x \in AskedOpens \cup ToldOpens : x.id = call.id
  BY <1>1 DEF OwnOpensOk
<1>3. CASE x \in AskedOpens
  BY <1>2, <1>3 DEF AskedOpens, WaiterHasAnswer, ToSet
<1>4. CASE x \in ToldOpens /\ call.op = opening.type
  <2>1. PICK i \in DOMAIN brigade : brigade[i] = x
    BY <1>4 DEF ToldOpens, ToSet
  <2>2. Wanted = {"confirm", "refuse"} /\ x.t \in {"confirm", "refuse"}
    <3>1. call.op # "listen" /\ call.op \notin Kinds
      BY OthersApart
    <3> QED BY <1>4, <3>1 DEF ToldOpens, Wanted
  <2>3. Found(brigade)
    BY <1>2, <1>4, <2>1, <2>2 DEF Found, IsAnswer
  <2> QED BY <2>3 DEF WaiterHasAnswer
<1>5. CASE call.op # opening.type
  BY <1>5 DEF WaiterHasAnswer
<1> QED BY <1>2, <1>3, <1>4, <1>5

-----------------------------------------------------------------------------
(* Whose the answers to global requests are: but for keepalives and a forwarding that was
   given up, of the call that asked for the forwarding, which asks once. *)
Tainted == seen.kept \/ 0 \in seen.given
GlobalsAsked == {x \in QuestionType : x.kind = "global"}
GlobalsTold == {x \in ReplyType : x.t \in {"rsuccess", "rfailure"}}
Globals == Count(server, GlobalsAsked) + Count(brigade, GlobalsTold)
AskedGlobals == {x \in ToSet(server) : x.kind = "global"}
ToldGlobals == {x \in ToSet(brigade) : x.t \in {"rsuccess", "rfailure"}}
ListenOk ==
  /\ \A x \in AskedGlobals \cup ToldGlobals :
       x.id = 0 /\ (Tainted \/ (call.op = "listen" /\ call.n = x.n /\ call.ph # "send"))
  /\ Tainted \/ Globals <= 1
  /\ out # None /\ out.what = "keepalive" => seen.kept
  /\ out # None /\ out.what = "listen" =>
       Tainted \/ (call.op = "listen" /\ call.n = out.n /\ call.ph = "send")
  /\ listen.st # "idle" => Tainted \/ (call.op = "listen" /\ listen.n = call.n)
  /\ listen.st = "sent" => AskedGlobals \cup ToldGlobals # {}
  /\ OwnListener

(* What no other call changes. *)
ListenFrame ==
  /\ listen' = listen /\ (seen.kept => seen'.kept) /\ (Tainted => Tainted')
  /\ \/ call'.op = call.op /\ call'.n = call.n /\ call'.ph = call.ph
     \/ call'.op = call.op /\ call'.n = call.n /\ call.ph # "send" /\ call'.ph # "send"
        /\ (out' = None \/ out' = out)
     \/ call.op # "listen" /\ call'.op # "listen"
  /\ told' = told \/ told' = Silent \/ told'.op # "listen"
  /\ out' = None \/ out' = out \/ out'.what \notin {"listen", "keepalive"}
(* Nothing is asked or taken. *)
GlobalsMove ==
  /\ Globals' = Globals
  /\ \A x \in (AskedGlobals \cup ToldGlobals)' :
       \E y \in AskedGlobals \cup ToldGlobals : y.id = x.id /\ y.n = x.n
  /\ AskedGlobals \cup ToldGlobals # {} => (AskedGlobals \cup ToldGlobals)' # {}

(* Such a step keeps it. *)
LEMMA ListenFrames ==
  ASSUME Base, Base', ListenOk, ListenFrame, GlobalsMove
  PROVE  ListenOk'
<1>1. \A x \in (AskedGlobals \cup ToldGlobals)' :
        x.id = 0 /\ (Tainted' \/ (call'.op = "listen" /\ call'.n = x.n /\ call'.ph # "send"))
  <2> SUFFICES ASSUME NEW x \in (AskedGlobals \cup ToldGlobals)'
               PROVE  x.id = 0 /\ (Tainted' \/ (call'.op = "listen" /\ call'.n = x.n /\ call'.ph # "send"))
    OBVIOUS
  <2>1. PICK y \in AskedGlobals \cup ToldGlobals : y.id = x.id /\ y.n = x.n
    BY DEF GlobalsMove
  <2> QED BY <2>1 DEF ListenOk, ListenFrame
<1>2. Tainted' \/ Globals' <= 1
  BY DEF ListenOk, ListenFrame, GlobalsMove
<1>3. /\ out' # None /\ out'.what = "keepalive" => seen'.kept
      /\ out' # None /\ out'.what = "listen" =>
           Tainted' \/ (call'.op = "listen" /\ call'.n = out'.n /\ call'.ph = "send")
  BY DEF ListenOk, ListenFrame
<1>4. /\ listen'.st # "idle" => Tainted' \/ (call'.op = "listen" /\ listen'.n = call'.n)
      /\ listen'.st = "sent" => (AskedGlobals \cup ToldGlobals)' # {}
  BY DEF ListenOk, ListenFrame, GlobalsMove
<1>5. OwnListener'
  BY SilentNot DEF ListenOk, ListenFrame, OwnListener, Tainted
<1> QED BY <1>1, <1>2, <1>3, <1>4, <1>5 DEF ListenOk

(* Steps of other kinds leave the global requests. *)
LEMMA KeptGlobals ==
  ASSUME Base, Base', Kept("global")
  PROVE  GlobalsMove
<1>1. \A x : TagOf("global", x.t) <=> x.t \in {"rsuccess", "rfailure"}
  BY DEF TagOf
<1>2. (AskedGlobals \cup ToldGlobals)' = AskedGlobals \cup ToldGlobals
  BY <1>1, KeptTokens DEF AskedGlobals, ToldGlobals
<1>3. Keeping(server, server', GlobalsAsked) /\ Keeping(brigade, brigade', GlobalsTold)
  BY <1>1 DEF Kept, GlobalsAsked, GlobalsTold
<1>4. Globals' = Globals
  BY <1>3 DEF Globals, Keeping, GlobalsAsked, GlobalsTold
<1> QED BY <1>2, <1>4 DEF GlobalsMove

(* And keep it. *)
LEMMA ListenKept ==
  ASSUME Base, Base', ListenOk, ListenFrame, Kept("global")
  PROVE  ListenOk'
BY KeptGlobals, ListenFrames

(* They count when there are any. *)
LEMMA GlobalsCount ==
  ASSUME Base
  PROVE  /\ Globals \in Nat
         /\ Globals = 0 <=> AskedGlobals \cup ToldGlobals = {}
<1>1. /\ Count(server, GlobalsAsked) \in Nat /\ Count(brigade, GlobalsTold) \in Nat
      /\ Count(server, GlobalsAsked) = 0 <=> \A q \in ToSet(server) : q \notin GlobalsAsked
      /\ Count(brigade, GlobalsTold) = 0 <=> \A q \in ToSet(brigade) : q \notin GlobalsTold
  BY Sequences, CountNat, CountNone
<1>2. /\ \A q \in ToSet(server) : q \in QuestionType
      /\ \A q \in ToSet(brigade) : q \in ReplyType
  BY Sequences DEF ToSet
<1>3. Globals \in Nat /\ (Globals = 0 <=> Count(server, GlobalsAsked) = 0 /\ Count(brigade, GlobalsTold) = 0)
  BY <1>1 DEF Globals
<1>4. /\ Count(server, GlobalsAsked) = 0 <=> AskedGlobals = {}
      /\ Count(brigade, GlobalsTold) = 0 <=> ToldGlobals = {}
  BY <1>1, <1>2 DEF AskedGlobals, ToldGlobals, GlobalsAsked, GlobalsTold
<1> QED BY <1>3, <1>4

(* Nothing is asked. *)
LEMMA InitListen ==
  ASSUME Init
  PROVE  ListenOk
<1>1. Base
  BY InitBase
<1>2. AskedGlobals \cup ToldGlobals = {}
  BY DEF Init, AskedGlobals, ToldGlobals, ToSet
<1>3. Globals = 0
  BY <1>1, <1>2, GlobalsCount
<1> QED BY <1>2, <1>3, SilentNot DEF Init, ListenOk, Idle, OwnListener

(* The server answers with what it was asked. *)
LEMMA ServerListen ==
  ASSUME Base, Base', ListenOk, ServerStep
  PROVE  ListenOk'
<1>1. ASSUME NEW i, NEW t, Reads(i, t)
      PROVE  ListenOk'
  <2>1. ListenFrame
    <3>1. call.ph # "send" /\ (call'.ph = call.ph \/ call'.ph = "fail" \/ (call.op # "listen" /\ call'.op # "listen"))
      BY <1>1, CallKept DEF Reads
    <3> QED BY <1>1, <3>1 DEF Reads, SameQueues, ListenFrame, Tainted
  <2>2. CASE server[i].kind # "global"
    BY <1>1, <2>1, <2>2, ReadsKept, ListenKept
  <2>3. CASE server[i].kind = "global"
    <3> DEFINE r == Reply(t, server[i])
    <3>1. /\ i \in DOMAIN server /\ t \in {"rsuccess", "rfailure"} /\ r.t = t
          /\ r.id = server[i].id /\ r.n = server[i].n
          /\ server' = RemoveAt(server, i) /\ r \in ToSet(brigade')
      <4>1. server[i] \in {server[i]} <=> r \in {r}
        OBVIOUS
      <4>2. ToSet(brigade') = ToSet(brigade) \cup {r}
        BY <1>1, <4>1, ReadsMoves
      <4>3. /\ i \in DOMAIN server /\ t \in {"rsuccess", "rfailure"}
            /\ server' = RemoveAt(server, i)
        BY <1>1, <2>3 DEF Reads, TagOf
      <4>4. r.t = t /\ r.id = server[i].id /\ r.n = server[i].n
        BY DEF Reply
      <4> QED BY <4>2, <4>3, <4>4
    <3>2. server[i] \in QuestionType /\ r \in ReplyType
      <4>1. ToSet(brigade') \subseteq ReplyType
        BY DEF Base, Types, ToSet
      <4> QED BY <3>1, <4>1, Sequences
    <3>3. server[i] \in GlobalsAsked <=> Reply(t, server[i]) \in GlobalsTold
      BY <2>3, <3>1, <3>2 DEF GlobalsAsked, GlobalsTold
    <3>4. /\ Count(server, GlobalsAsked)' + Count(brigade, GlobalsTold)' = Count(server, GlobalsAsked) + Count(brigade, GlobalsTold)
          /\ ToSet(server') \subseteq ToSet(server) /\ server[i] \in ToSet(server)
          /\ ToSet(brigade') = ToSet(brigade) \cup {r}
      BY <1>1, <3>3, ReadsMoves
    <3> HIDE DEF r
    <3>5. Globals' = Globals
      BY <3>4 DEF Globals
    <3>6. r \in ToldGlobals' /\ server[i] \in AskedGlobals
      BY <2>3, <3>1, <3>4 DEF ToldGlobals, AskedGlobals
    <3>7. ASSUME NEW x \in (AskedGlobals \cup ToldGlobals)'
          PROVE  \E y \in AskedGlobals \cup ToldGlobals : y.id = x.id /\ y.n = x.n
      <4>1. x \in AskedGlobals \cup ToldGlobals \/ x = r
        BY <3>4 DEF AskedGlobals, ToldGlobals
      <4> QED BY <3>1, <3>6, <4>1
    <3> QED BY <2>1, <3>5, <3>6, <3>7, ListenFrames DEF GlobalsMove
  <2> QED BY <2>2, <2>3
<1>2. ASSUME NEW i, Closes(i)
      PROVE  ListenOk'
  <2>1. ListenFrame
    BY <1>2, CallKept DEF Closes, SameQueues, ListenFrame, Tainted
  <2> QED BY <1>2, <2>1, ClosesKept, ListenKept
<1>3. CASE ServerWaits
  <2>1. ListenFrame
    BY <1>3, CallKept DEF ServerWaits, ListenFrame, Tainted
  <2> QED BY <1>3, <2>1, SameKept, ListenKept DEF ServerWaits
<1>4. CASE AddingLost
  <2>1. seen'.given = seen.given /\ seen'.kept = seen.kept
    BY <1>4 DEF AddingLost, Base, Types, SeenType
  <2>2. ListenFrame
    BY <1>4, <2>1, CallKept DEF AddingLost, ListenFrame, Tainted
  <2> QED BY <1>4, <2>2, SameKept, ListenKept DEF AddingLost
<1>5. ASSUME NEW id, NEW n, ServerKeeps(id, n)
      PROVE  ListenOk'
  <2>1. ListenFrame
    BY <1>5, CallKept DEF ServerKeeps, ListenFrame, Tainted
  <2> QED BY <1>5, <2>1, SameKept, ListenKept DEF ServerKeeps
<1> QED BY <1>1, <1>2, <1>3, <1>4, <1>5 DEF ServerStep

(* A keepalive shows in the history. *)
LEMMA OtherListen ==
  ASSUME Base, Base', ListenOk, OtherStep
  PROVE  ListenOk'
<1> USE OthersApart
<1>1. CASE Plain
  <2>1. ListenFrame
    BY <1>1 DEF Plain, SameQueues, SameWires, KeepsSeen, KeepsTold, ListenFrame, Tainted
  <2> QED BY <1>1, <2>1, SameKept, ListenKept DEF Plain, SameWires
<1>2. ASSUME NEW q, Mute(q), q.what # "keepalive"
      PROVE  ListenOk'
  <2>1. out' = None \/ out'.what \notin {"listen", "keepalive"}
    BY <1>2 DEF Mute, MutePacket, Stays, Ships
  <2>2. ListenFrame
    BY <1>2, <2>1 DEF Mute, SameQueues, KeepsSeen, KeepsTold, ListenFrame, Tainted
  <2>3. Kept("global")
    <3>1. CASE Stays(q)
      BY <1>2, <3>1, StaysKept DEF Mute
    <3>2. ASSUME NEW w, Ships(q, w), w.what = q.what
          PROVE  Kept("global")
      <4>1. w.what \in Questioned => Question(w).kind # "global"
        <5>1. w \in WirePackets /\ w.what \in {"close", "cancel", "signal"}
          BY <1>2, <3>2 DEF Ships, Mute, MutePacket
        <5> QED BY <5>1, QuestionTyped
      <4> QED BY <1>2, <3>2, <4>1, ShipsKept DEF Mute
    <3> QED BY <1>2, <3>1, <3>2 DEF Mute
  <2> QED BY <2>2, <2>3, ListenKept
<1>3. ASSUME NEW q, Mute(q), q.what = "keepalive"
      PROVE  ListenOk'
  <2>1. /\ q.id = 0 /\ seen'.kept /\ listen' = listen /\ brigade' = brigade
        /\ told' = told \/ told' = Silent
    BY <1>3 DEF Mute, MutePacket, SameQueues, KeepsTold
  <2>2. Tainted'
    BY <2>1 DEF Tainted
  <2>3. /\ ToSet(server) \subseteq ToSet(server')
        /\ \A x \in ToSet(server') : x \in ToSet(server) \/ x.id = 0
    <3>1. CASE Stays(q)
      BY <3>1 DEF Stays
    <3>2. CASE \E w : Ships(q, w) /\ w.what = q.what
      <4>0. PICK w : Ships(q, w) /\ w.what = q.what
        BY <3>2
      <4>1. w.what \in Questioned /\ (w = q \/ w = out) /\ w.id = 0 /\ w \in WirePackets
        BY <1>3, <2>1, <4>0 DEF Ships, Questioned
      <4>2. \A S : ToSet(server') = ToSet(server) \cup {Question(w)}
        BY <4>0, <4>1, ShipsAsks
      <4>3. ToSet(server') = ToSet(server) \cup {Question(w)}
        BY <4>2
      <4>4. Question(w).id = 0
        BY <4>1 DEF Question
      <4> QED BY <4>1, <4>3, <4>4
    <3> QED BY <1>3, <3>1, <3>2 DEF Mute
  <2>4. \A x \in (AskedGlobals \cup ToldGlobals)' : x.id = 0
    BY <2>1, <2>3 DEF ListenOk, AskedGlobals, ToldGlobals
  <2>5. AskedGlobals \cup ToldGlobals # {} => (AskedGlobals \cup ToldGlobals)' # {}
    BY <2>1, <2>3 DEF AskedGlobals, ToldGlobals
  <2>6. OwnListener'
    BY <2>1, SilentNot DEF ListenOk, OwnListener
  <2> QED BY <2>1, <2>2, <2>4, <2>5, <2>6 DEF ListenOk
<1> QED BY <1>1, <1>2, <1>3 DEF OtherStep

(* The opens. *)
LEMMA OpenListen ==
  ASSUME Base, Base', NumbersOk, ListenOk, OpenStep
  PROVE  ListenOk'
<1> USE OthersApart, SilentNot
<1>1. ASSUME NEW type \in Opens, OpenBegins(type)
      PROVE  ListenOk'
  <2>1. ListenFrame
    BY <1>1 DEF OpenBegins, Calls, ListenFrame, SameWires, Tainted
  <2> QED BY <1>1, <2>1, SameKept, ListenKept DEF OpenBegins, SameWires
<1>2. ASSUME NEW q, OpenStays(q)
      PROVE  ListenOk'
  <2>1. ListenFrame
    BY <1>2 DEF OpenStays, OpenGoesOn, OpenPacket, Stays, ListenFrame, Tainted
  <2> QED BY <1>2, <2>1, StaysKept, ListenKept DEF OpenStays, OpenGoesOn
<1>3. ASSUME NEW q, NEW w, OpenSent(q, w)
      PROVE  ListenOk'
  <2>1. Ships(q, w) /\ w.what \in Questioned /\ Question(w).kind # "global" /\ out' = None
    BY <1>3, OpenSentIs DEF OpenSent
  <2>2. ListenFrame
    BY <1>3, <2>1 DEF OpenSent, OpenGoesOn, Waiting, ListenFrame, Tainted
  <2> QED BY <1>3, <2>1, <2>2, ShipsKept, ListenKept DEF OpenSent, OpenGoesOn
<1>4. ASSUME NEW i, OpenAnswered(i)
      PROVE  ListenOk'
  <2>1. ListenFrame
    BY <1>4 DEF OpenAnswered, ListenFrame, Tainted
  <2>2. i \in DOMAIN brigade /\ brigade' = RemoveAt(brigade, i) /\ server' = server /\ ~TagOf("global", brigade[i].t)
    BY <1>4 DEF OpenAnswered, TagOf
  <2> QED BY <2>1, <2>2, TakenKept, ListenKept
<1>5. CASE OpenFailed
  <2>1. seen.given \subseteq seen'.given /\ seen'.kept = seen.kept
    BY <1>5 DEF OpenFailed, Base, Types, SeenType
  <2>2. ListenFrame
    BY <1>5, <2>1 DEF OpenFailed, ListenFrame, SameWires, Tainted
  <2> QED BY <1>5, <2>2, SameKept, ListenKept DEF OpenFailed, SameWires
<1> QED BY <1>1, <1>2, <1>3, <1>4, <1>5 DEF OpenStep

(* The requests of channels. *)
LEMMA RequestListen ==
  ASSUME Base, Base', ListenOk, RequestStep
  PROVE  ListenOk'
<1> USE OthersApart, SilentNot
<1>0. \A k \in Kinds \cup {"size"} : k \notin {"listen", "keepalive"}
  BY Names DEF OtherNames
<1>1. ASSUME NEW kind \in Kinds, NEW id \in Mine, RequestBegins(kind, id)
      PROVE  ListenOk'
  <2>1. ListenFrame
    BY <1>1, <1>0 DEF RequestBegins, Calls, ListenFrame, SameQueues, SameWires, Tainted
  <2> QED BY <1>1, <2>1, SameKept, ListenKept DEF RequestBegins, SameWires
<1>2. ASSUME NEW kind \in Kinds, NEW q, RequestStays(kind, q)
      PROVE  ListenOk'
  <2>2. ListenFrame
    BY <1>2, <1>0 DEF RequestStays, RequestGoesOn, RequestPacket, Stays, ListenFrame, SameQueues, Tainted
  <2> QED BY <1>2, <2>2, StaysKept, ListenKept DEF RequestStays, RequestGoesOn
<1>3. ASSUME NEW kind \in Kinds, NEW q, NEW w, RequestSent(kind, q, w)
      PROVE  ListenOk'
  <2>1. /\ Ships(q, w) /\ q.what \in Kinds \cup {"size"} /\ brigade' = brigade
        /\ UNCHANGED <<listen, told, seen>> /\ call'.op = call.op /\ call.op # "listen"
    BY <1>3, <1>0 DEF RequestSent, RequestPacket, RequestGoesOn, SameQueues, Waiting
  <2>2. out' = None /\ (w.what \in Questioned => Question(w).kind = "request")
    BY <2>1, ShipsRequest
  <2>4. ListenFrame
    BY <2>1, <2>2 DEF ListenFrame, Tainted
  <2>5. Kept("global")
    BY <2>1, <2>2, ShipsKept
  <2> QED BY <2>4, <2>5, ListenKept
<1>4. ASSUME NEW kind \in Kinds, NEW i, NEW r, RequestAnswered(kind, i, r)
      PROVE  ListenOk'
  <2>0. RequestOver(kind, Told(kind, i), r) /\ call.op = kind /\ Told(kind, i).op = kind
    BY <1>4 DEF RequestAnswered, Told
  <2>3. call'.op # "listen" /\ call.op # "listen" /\ (told' = told \/ told'.op # "listen")
    BY <2>0, <1>0, OverIs
  <2>1. ListenFrame
    BY <1>4, <2>3 DEF RequestAnswered, ListenFrame, SameQueues, Tainted
  <2>2. i \in DOMAIN brigade /\ brigade' = RemoveAt(brigade, i) /\ server' = server /\ ~TagOf("global", brigade[i].t)
    BY <1>4 DEF RequestAnswered, TagOf
  <2> QED BY <2>1, <2>2, TakenKept, ListenKept
<1>5. ASSUME NEW kind \in Kinds, NEW r, RequestFailed(kind, r)
      PROVE  ListenOk'
  <2>0. RequestOver(kind, Silent, r) /\ call.op = kind
    BY <1>5 DEF RequestFailed
  <2>3. call'.op # "listen" /\ call.op # "listen" /\ (told' = told \/ told' = Silent)
    BY <2>0, <1>0, OverIs
  <2>2. seen.given \subseteq seen'.given /\ seen'.kept = seen.kept
    BY <1>5 DEF RequestFailed, Base, Types, SeenType
  <2>4. UNCHANGED <<listen, out>>
    BY <1>5 DEF RequestFailed, SameQueues, SameWires
  <2>1. ListenFrame
    BY <2>2, <2>3, <2>4 DEF ListenFrame, Tainted
  <2> QED BY <1>5, <2>1, SameKept, ListenKept DEF RequestFailed, SameWires
<1>6. ASSUME NEW id, NEW q, PtySized(id, q)
      PROVE  ListenOk'
  <2>1. Kept("global") /\ (out' = None \/ out' = out \/ out'.what \notin {"listen", "keepalive"})
    BY <1>0, <1>6, SizedIs
  <2>2. seen.given \subseteq seen'.given /\ seen'.kept = seen.kept
    BY <1>6, SizedSeen
  <2>3. ListenFrame
    BY <1>6, <2>1, <2>2 DEF ListenFrame, PtySized, SameQueues, Tainted
  <2> QED BY <2>1, <2>3, ListenKept
<1> QED BY <1>1, <1>2, <1>3, <1>4, <1>5, <1>6 DEF RequestStep

(* The forwarding is asked for, once. *)
LEMMA ListenSentListen ==
  ASSUME Base, Base', ListenOk, NEW q, NEW w, ListenSent(q, w)
  PROVE  ListenOk'
<1>1. /\ Ships(q, w) /\ w \in WirePackets /\ w.what = "listen" /\ w.id = 0 /\ out' = None
      /\ w = q \/ (out # None /\ w = out)
      /\ q.n = listen.n /\ w.what \in Questioned
  BY DEF ListenSent, ListenPacket, Ships, Questioned
<1>2. /\ call.op = "listen" /\ call.ph = "send" /\ call'.op = "listen" /\ call'.n = call.n /\ call'.ph = "reply"
      /\ UNCHANGED <<brigade, seen, told>> /\ listen.st = "created"
      /\ listen'.n = listen.n
  BY DEF ListenSent, ListenGoesOn, Waiting
<1>3. Question(w) \in QuestionType /\ Question(w).kind = "global" /\ Question(w).id = 0 /\ Question(w).n = w.n
  BY <1>1, QuestionTyped
<1>4. Question(w) \in GlobalsAsked
  BY <1>3 DEF GlobalsAsked
<1>5. /\ Count(server', GlobalsAsked) = Count(server, GlobalsAsked) + 1
      /\ ToSet(server') = ToSet(server) \cup {Question(w)}
  BY <1>1, <1>4, ShipsAsks
<1>6. (AskedGlobals \cup ToldGlobals)' = AskedGlobals \cup ToldGlobals \cup {Question(w)}
  BY <1>2, <1>3, <1>5 DEF AskedGlobals, ToldGlobals
<1>7. Tainted' <=> Tainted
  BY <1>2 DEF Tainted
<1>8. ~Tainted => w.n = call.n
  BY <1>1, <1>2 DEF ListenOk
<1>9. \A x \in (AskedGlobals \cup ToldGlobals)' :
        x.id = 0 /\ (Tainted' \/ (call'.op = "listen" /\ call'.n = x.n /\ call'.ph # "send"))
  <2>1. \A x \in AskedGlobals \cup ToldGlobals : x.id = 0 /\ Tainted
    BY <1>2 DEF ListenOk
  <2> QED BY <1>2, <1>3, <1>6, <1>7, <1>8, <2>1
<1>10. Tainted' \/ Globals' <= 1
  <2>1. CASE ~Tainted
    <3>1. AskedGlobals \cup ToldGlobals = {}
      BY <1>2, <2>1 DEF ListenOk
    <3>2. Globals = 0
      BY <3>1, GlobalsCount
    <3>3. Globals' = Globals + 1
      <4>1. Count(server, GlobalsAsked)' = Count(server', GlobalsAsked) /\ Count(brigade, GlobalsTold)' = Count(brigade, GlobalsTold)
        BY <1>2 DEF GlobalsAsked, GlobalsTold
      <4>2. Count(server, GlobalsAsked) \in Nat /\ Count(brigade, GlobalsTold) \in Nat
        BY Sequences, CountNat
      <4> QED BY <1>5, <4>1, <4>2 DEF Globals
    <3> QED BY <3>2, <3>3
  <2> QED BY <1>7, <2>1
<1>11. listen'.st # "idle" => Tainted' \/ (call'.op = "listen" /\ listen'.n = call'.n)
  BY <1>2, <1>7 DEF ListenOk
<1>12. (AskedGlobals \cup ToldGlobals)' # {}
  BY <1>6
<1>13. OwnListener'
  BY <1>2 DEF ListenOk, OwnListener
<1> QED BY <1>1, <1>9, <1>10, <1>11, <1>12, <1>13 DEF ListenOk

(* Nothing counts when there is nothing. *)
LEMMA GlobalsNone ==
  ASSUME NEW s \in Seq(QuestionType), NEW b \in Seq(ReplyType)
  PROVE  /\ Count(s, GlobalsAsked) + Count(b, GlobalsTold) \in Nat
         /\ Count(s, GlobalsAsked) + Count(b, GlobalsTold) = 0 =>
              /\ \A x \in ToSet(s) : x.kind # "global"
              /\ \A x \in ToSet(b) : x.t \notin {"rsuccess", "rfailure"}
<1>1. /\ Count(s, GlobalsAsked) \in Nat /\ Count(b, GlobalsTold) \in Nat
      /\ Count(s, GlobalsAsked) = 0 <=> \A q \in ToSet(s) : q \notin GlobalsAsked
      /\ Count(b, GlobalsTold) = 0 <=> \A q \in ToSet(b) : q \notin GlobalsTold
  BY CountNat, CountNone
<1>2. /\ \A q \in ToSet(s) : q \in QuestionType
      /\ \A q \in ToSet(b) : q \in ReplyType
  BY DEF ToSet
<1>3. /\ Count(s, GlobalsAsked) = 0 => \A x \in ToSet(s) : x.kind # "global"
      /\ Count(b, GlobalsTold) = 0 => \A x \in ToSet(b) : x.t \notin {"rsuccess", "rfailure"}
  BY <1>1, <1>2 DEF GlobalsAsked, GlobalsTold
<1> QED BY <1>1, <1>3

(* The answer taken is that of the call. *)
LEMMA ListenAnsweredListen ==
  ASSUME Base, Base', ListenOk, NEW i, ListenAnswered(i)
  PROVE  ListenOk'
<1>1. /\ i \in DOMAIN brigade /\ brigade[i].t \in {"rsuccess", "rfailure"}
      /\ brigade' = RemoveAt(brigade, i) /\ listen'.st = "idle" /\ call' = NoCall
      /\ told'.op = "listen" /\ told'.n = call.n /\ told'.by = brigade[i].n
      /\ UNCHANGED <<out, server, seen>>
  BY DEF ListenAnswered, Idle
<1>2. call.op = "listen" /\ call.ph = "reply"
  BY DEF ListenAnswered
<1>3. /\ \A S : brigade[i] \in S => Count(brigade', S) = Count(brigade, S) - 1
      /\ \A S : ToSet(brigade') \subseteq ToSet(brigade) /\ brigade[i] \in ToSet(brigade) /\ brigade[i] \in ReplyType
  BY <1>1, TakenCounts
<1>4. ToSet(brigade') \subseteq ToSet(brigade) /\ brigade[i] \in ToSet(brigade) /\ brigade[i] \in ReplyType
  BY <1>3
<1>5. brigade[i] \in ToldGlobals /\ brigade[i] \in GlobalsTold
  BY <1>1, <1>4 DEF ToldGlobals, GlobalsTold
<1>6. Globals' = Globals - 1
  <2>1. Count(server, GlobalsAsked)' = Count(server, GlobalsAsked) /\ Count(brigade, GlobalsTold)' = Count(brigade', GlobalsTold)
    BY <1>1 DEF GlobalsAsked, GlobalsTold
  <2>2. Count(server, GlobalsAsked) \in Nat /\ Count(brigade, GlobalsTold) \in Nat
    BY Sequences, CountNat
  <2>3. Count(brigade', GlobalsTold) = Count(brigade, GlobalsTold) - 1
    BY <1>3, <1>5
  <2> QED BY <2>1, <2>2, <2>3 DEF Globals
<1>7. Tainted' <=> Tainted
  BY <1>1 DEF Tainted
<1>8. (AskedGlobals \cup ToldGlobals)' \subseteq AskedGlobals \cup ToldGlobals
  BY <1>1, <1>4 DEF AskedGlobals, ToldGlobals
<1>9. Tainted' \/ (AskedGlobals \cup ToldGlobals)' = {}
  <2>1. CASE ~Tainted
    <3>1. Globals <= 1
      BY <2>1 DEF ListenOk
    <3>2. /\ Globals' \in Nat
          /\ Globals' = 0 =>
               /\ \A x \in ToSet(server') : x.kind # "global"
               /\ \A x \in ToSet(brigade') : x.t \notin {"rsuccess", "rfailure"}
      <4>1. server' \in Seq(QuestionType) /\ brigade' \in Seq(ReplyType)
        BY DEF Base, Types
      <4>2. Globals' = Count(server', GlobalsAsked) + Count(brigade', GlobalsTold)
        BY DEF Globals, GlobalsAsked, GlobalsTold
      <4> QED BY <4>1, <4>2, GlobalsNone
    <3>3. Globals' = 0
      BY <1>6, <3>1, <3>2, GlobalsCount
    <3> QED BY <3>2, <3>3 DEF AskedGlobals, ToldGlobals
  <2> QED BY <1>7, <2>1
<1>10. \A x \in (AskedGlobals \cup ToldGlobals)' : x.id = 0 /\ Tainted'
  BY <1>8, <1>9 DEF ListenOk
<1>11. Tainted' \/ Globals' <= 1
  <2>1. CASE ~Tainted
    <3>1. Globals <= 1 /\ Globals \in Nat
      BY <2>1, GlobalsCount DEF ListenOk
    <3> QED BY <1>6, <3>1
  <2> QED BY <1>7, <2>1
<1>12. /\ out' # None /\ out'.what = "keepalive" => seen'.kept
       /\ out' # None /\ out'.what = "listen" => Tainted'
  BY <1>1, <1>2, <1>7 DEF ListenOk
<1>13. OwnListener'
  <2>1. Tainted \/ call.n = brigade[i].n
    BY <1>5 DEF ListenOk
  <2> QED BY <1>1, <2>1 DEF OwnListener, Tainted
<1> QED BY <1>1, <1>10, <1>11, <1>12, <1>13 DEF ListenOk

(* A call begins, or goes on with what another left. *)
LEMMA ListenBeginsListen ==
  ASSUME Base, Base', ListenOk, ListenBegins
  PROVE  ListenOk'
<1>1. /\ call = NoCall /\ told' = Silent /\ call'.op = "listen" /\ call'.n = calls + 1
      /\ UNCHANGED <<brigade, out, server, seen>>
      /\ \/ listen.st = "idle" /\ listen'.st = "created" /\ listen'.n = calls + 1
         \/ listen.st # "idle" /\ listen' = listen
  BY DEF ListenBegins, Calls, SameWires
<1>2. call.op # "listen"
  BY <1>1, OthersApart
<1>3. (Tainted' <=> Tainted) /\ (AskedGlobals \cup ToldGlobals)' = AskedGlobals \cup ToldGlobals /\ Globals' = Globals
  BY <1>1 DEF Tainted, AskedGlobals, ToldGlobals, Globals, Count, Places, GlobalsAsked, GlobalsTold
<1>4. \A x \in (AskedGlobals \cup ToldGlobals)' : x.id = 0 /\ Tainted'
  BY <1>2, <1>3 DEF ListenOk
<1>5. /\ Tainted' \/ Globals' <= 1
      /\ out' # None /\ out'.what = "keepalive" => seen'.kept
      /\ out' # None /\ out'.what = "listen" => Tainted'
  BY <1>1, <1>2, <1>3 DEF ListenOk
<1>6. /\ listen'.st # "idle" => Tainted' \/ (call'.op = "listen" /\ listen'.n = call'.n)
      /\ listen'.st = "sent" => (AskedGlobals \cup ToldGlobals)' # {}
  BY <1>1, <1>2, <1>3 DEF ListenOk
<1>7. OwnListener'
  BY <1>1, SilentNot DEF OwnListener
<1> QED BY <1>4, <1>5, <1>6, <1>7 DEF ListenOk

(* A part of it is sent. *)
LEMMA ListenStaysListen ==
  ASSUME Base, Base', ListenOk, NEW q, ListenStays(q)
  PROVE  ListenOk'
<1>1. /\ call.op = "listen" /\ call.ph = "send" /\ listen.st = "created"
      /\ UNCHANGED <<call, listen, brigade, server, seen, told>> /\ out' = q
      /\ q.what = "listen" /\ q.n = listen.n
  BY DEF ListenStays, ListenGoesOn, ListenPacket, Stays
<1>2. (Tainted' <=> Tainted) /\ (AskedGlobals \cup ToldGlobals)' = AskedGlobals \cup ToldGlobals /\ Globals' = Globals
  BY <1>1 DEF Tainted, AskedGlobals, ToldGlobals, Globals, Count, Places, GlobalsAsked, GlobalsTold
<1>3. /\ out' # None /\ out'.what = "keepalive" => seen'.kept
      /\ out' # None /\ out'.what = "listen" =>
           Tainted' \/ (call'.op = "listen" /\ call'.n = out'.n /\ call'.ph = "send")
  BY <1>1, <1>2 DEF ListenOk
<1>4. OwnListener'
  BY <1>1 DEF OwnListener, ListenOk
<1>5. /\ \A x \in (AskedGlobals \cup ToldGlobals)' :
            x.id = 0 /\ (Tainted' \/ (call'.op = "listen" /\ call'.n = x.n /\ call'.ph # "send"))
      /\ Tainted' \/ Globals' <= 1
      /\ listen'.st # "idle" => Tainted' \/ (call'.op = "listen" /\ listen'.n = call'.n)
      /\ listen'.st = "sent" => (AskedGlobals \cup ToldGlobals)' # {}
  BY <1>1, <1>2 DEF ListenOk
<1> QED BY <1>3, <1>4, <1>5 DEF ListenOk

(* A forwarding that is given up taints what follows. *)
LEMMA TaintedListen ==
  ASSUME Base, Base', ListenOk, call' = NoCall, UNCHANGED <<brigade, server, out, told>>,
         listen' = listen \/ listen'.st = "idle", seen'.kept = seen.kept,
         seen.given \subseteq seen'.given, call.op = "listen" => 0 \in seen'.given
  PROVE  ListenOk'
<1>1. call'.op # "listen"
  BY OthersApart
<1>2. (AskedGlobals \cup ToldGlobals)' = AskedGlobals \cup ToldGlobals /\ Globals' = Globals
  BY DEF AskedGlobals, ToldGlobals, Globals, Count, Places, GlobalsAsked, GlobalsTold
<1>3. (Tainted => Tainted') /\ (call.op = "listen" => Tainted')
  BY DEF Tainted
<1>4. /\ \A x \in (AskedGlobals \cup ToldGlobals)' :
            x.id = 0 /\ (Tainted' \/ (call'.op = "listen" /\ call'.n = x.n /\ call'.ph # "send"))
      /\ Tainted' \/ Globals' <= 1
      /\ listen'.st # "idle" => Tainted' \/ (call'.op = "listen" /\ listen'.n = call'.n)
      /\ listen'.st = "sent" => (AskedGlobals \cup ToldGlobals)' # {}
  BY <1>2, <1>3 DEF ListenOk
<1>5. /\ out' # None /\ out'.what = "keepalive" => seen'.kept
      /\ out' # None /\ out'.what = "listen" =>
           Tainted' \/ (call'.op = "listen" /\ call'.n = out'.n /\ call'.ph = "send")
  BY <1>3 DEF ListenOk
<1>6. OwnListener'
  BY DEF OwnListener, ListenOk
<1> QED BY <1>4, <1>5, <1>6 DEF ListenOk

(* Every step keeps it. *)
LEMMA StepListen ==
  ASSUME Base, Base', NumbersOk, ListenOk, [Next]_vars
  PROVE  ListenOk'
<1>1. CASE ListenFailed
  <2>1. /\ seen'.kept = seen.kept /\ seen.given \subseteq seen'.given /\ 0 \in seen'.given
        /\ listen'.st = "idle"
    BY <1>1 DEF ListenFailed, Idle, Base, Types, SeenType
  <2> QED BY <1>1, <2>1, TaintedListen DEF ListenFailed, SameWires
<1>2. CASE Abandoned
  <2>1. /\ seen'.kept = seen.kept /\ seen.given \subseteq seen'.given
        /\ call.op = "listen" => call.id \in seen'.given
    BY <1>2 DEF Abandoned, Base, Types, SeenType
  <2>2. call.op = "listen" => call.id = 0
    BY DEF Base, Callers
  <2> QED BY <1>2, <2>1, <2>2, TaintedListen DEF Abandoned, SameQueues, SameWires
<1>3. CASE UNCHANGED vars
  <2>1. ListenFrame
    BY <1>3 DEF ListenFrame, vars, Tainted
  <2> QED BY <1>3, <2>1, SameKept, ListenKept DEF vars
<1>4. CASE ListenStep
  BY <1>1, <1>4, ListenBeginsListen, ListenStaysListen, ListenSentListen, ListenAnsweredListen DEF ListenStep
<1> QED BY <1>2, <1>3, <1>4, StepIs, ServerListen, OtherListen, OpenListen, RequestListen

(* A call for a forwarding that waits gets its answer. *)
LEMMA ListenHasAnswer ==
  ASSUME Base, ListenOk, call.op = "listen", call.ph = "reply"
  PROVE  WaiterHasAnswer
<1>1. listen.st = "sent" /\ call.id = 0
  BY DEF Base, Callers
<1>2. PICK x \in AskedGlobals \cup ToldGlobals : x.id = call.id
  BY <1>1 DEF ListenOk
<1>3. CASE x \in AskedGlobals
  BY <1>2, <1>3 DEF AskedGlobals, WaiterHasAnswer, ToSet
<1>4. CASE x \in ToldGlobals
  <2>1. PICK i \in DOMAIN brigade : brigade[i] = x
    BY <1>4 DEF ToldGlobals, ToSet
  <2>2. Wanted = {"rsuccess", "rfailure"} /\ x.t \in {"rsuccess", "rfailure"} /\ call.op \notin Opens
    <3>1. call.op \notin Opens /\ call.op \notin Kinds
      BY OthersApart, OpsApart
    <3> QED BY <1>4, <3>1 DEF ToldGlobals, Wanted
  <2>3. Found(brigade)
    BY <1>2, <2>1, <2>2 DEF Found, IsAnswer
  <2> QED BY <2>3 DEF WaiterHasAnswer
<1> QED BY <1>2, <1>3, <1>4

-----------------------------------------------------------------------------
(* Whose the requests of a channel are: but for a channel on which one was given up, of the
   call that built them, which is answered once. *)
RequestsAsked(id) == {x \in QuestionType : x.kind = "request" /\ x.id = id}
RequestsTold(id) == {x \in ReplyType : x.t \in {"success", "failure"} /\ x.id = id}
Pending(id) == Count(server, RequestsAsked(id)) + Count(brigade, RequestsTold(id))
AskedRequests == {x \in ToSet(server) : x.kind = "request"}
ToldRequests == {x \in ToSet(brigade) : x.t \in {"success", "failure"}}
Own(id, n) == call.op \in Kinds /\ call.id = id /\ call.n = n
Begun(r) == r.st \in {"created", "sent"}
(* Of the call: what is asked and answered, what the transport has a part of, what was begun. *)
RepliesOk ==
  /\ \A x \in AskedRequests \cup ToldRequests :
       x.id \in seen.given \/ (Own(x.id, x.n) /\ call.ph # "send")
  /\ \A id : id \in seen.given \/ Pending(id) <= 1
  /\ out # None /\ out.what \in Kinds =>
       out.id \in seen.given \/ (Own(out.id, out.n) /\ call.op = out.what /\ call.ph = "send")
  /\ out # None /\ out.what = "size" => out.id \in seen.given /\ out.id \in seen.sized
  /\ \A id \in DOMAIN chans, k \in Kinds :
       Begun(chans[id].req[k]) => id \in seen.given \/ (Own(id, chans[id].req[k].n) /\ call.op = k)
  /\ OwnReply

(* And as many are on their way as the channel waits for. *)
Sent(id) == {k \in Kinds : chans[id].req[k].st = "sent"}
CountedOk == \A id \in DOMAIN chans : id \in seen.sized \/ Cardinality(Sent(id)) <= Pending(id)

(* What no other call changes. *)
RepliesFrame ==
  /\ seen.given \subseteq seen'.given /\ seen.sized \subseteq seen'.sized
  /\ \/ call'.op = call.op /\ call'.id = call.id /\ call'.n = call.n /\ call'.ph = call.ph
     \/ call'.op = call.op /\ call'.id = call.id /\ call'.n = call.n /\ call.ph # "send" /\ call'.ph # "send"
     \/ call.op \notin Kinds /\ call'.op \notin Kinds
  /\ told' = told \/ told' = Silent \/ told'.op \notin Kinds
  /\ out' = None \/ out' = out \/ out'.what \notin Kinds \cup {"size"}
  /\ \A id \in DOMAIN chans' :
       (id \in DOMAIN chans /\ chans'[id].req = chans[id].req) \/ \A k \in Kinds : chans'[id].req[k] = Idle
RequestsMove ==
  /\ \A id : Pending(id)' = Pending(id)
  /\ \A x \in (AskedRequests \cup ToldRequests)' :
       \E y \in AskedRequests \cup ToldRequests : y.id = x.id /\ y.n = x.n

(* Nothing counts when there is nothing. *)
LEMMA PendingNone ==
  ASSUME NEW s \in Seq(QuestionType), NEW b \in Seq(ReplyType), NEW id
  PROVE  /\ Count(s, RequestsAsked(id)) \in Nat /\ Count(b, RequestsTold(id)) \in Nat
         /\ Count(s, RequestsAsked(id)) + Count(b, RequestsTold(id)) = 0 <=>
              /\ \A x \in ToSet(s) : x.kind = "request" => x.id # id
              /\ \A x \in ToSet(b) : x.t \in {"success", "failure"} => x.id # id
<1>1. /\ Count(s, RequestsAsked(id)) \in Nat /\ Count(b, RequestsTold(id)) \in Nat
      /\ Count(s, RequestsAsked(id)) = 0 <=> \A q \in ToSet(s) : q \notin RequestsAsked(id)
      /\ Count(b, RequestsTold(id)) = 0 <=> \A q \in ToSet(b) : q \notin RequestsTold(id)
  BY CountNat, CountNone
<1>2. /\ \A q \in ToSet(s) : q \in QuestionType
      /\ \A q \in ToSet(b) : q \in ReplyType
  BY DEF ToSet
<1>3. /\ Count(s, RequestsAsked(id)) = 0 <=> \A x \in ToSet(s) : x.kind = "request" => x.id # id
      /\ Count(b, RequestsTold(id)) = 0 <=> \A x \in ToSet(b) : x.t \in {"success", "failure"} => x.id # id
  BY <1>1, <1>2 DEF RequestsAsked, RequestsTold
<1>4. Count(s, RequestsAsked(id)) + Count(b, RequestsTold(id)) = 0 <=>
        Count(s, RequestsAsked(id)) = 0 /\ Count(b, RequestsTold(id)) = 0
  BY <1>1
<1> QED BY <1>1, <1>3, <1>4

(* Such a step keeps whose they are. *)
LEMMA RepliesFrames ==
  ASSUME Base, Base', RepliesOk, RepliesFrame, RequestsMove
  PROVE  RepliesOk'
<1>1. \A x \in (AskedRequests \cup ToldRequests)' :
        x.id \in seen'.given \/ (Own(x.id, x.n)' /\ call'.ph # "send")
  <2> SUFFICES ASSUME NEW x \in (AskedRequests \cup ToldRequests)'
               PROVE  x.id \in seen'.given \/ (call'.op \in Kinds /\ call'.id = x.id /\ call'.n = x.n /\ call'.ph # "send")
    BY DEF Own
  <2>1. PICK y \in AskedRequests \cup ToldRequests : y.id = x.id /\ y.n = x.n
    BY DEF RequestsMove
  <2>2. y.id \in seen.given \/ (call.op \in Kinds /\ call.id = y.id /\ call.n = y.n /\ call.ph # "send")
    BY DEF RepliesOk, Own
  <2> QED BY <2>1, <2>2 DEF RepliesFrame
<1>2. \A id : id \in seen'.given \/ Pending(id)' <= 1
  BY DEF RepliesOk, RepliesFrame, RequestsMove
<1>3. /\ out' # None /\ out'.what \in Kinds =>
           out'.id \in seen'.given \/ (call'.op \in Kinds /\ call'.id = out'.id /\ call'.n = out'.n /\ call'.op = out'.what /\ call'.ph = "send")
      /\ out' # None /\ out'.what = "size" => out'.id \in seen'.given /\ out'.id \in seen'.sized
  BY DEF RepliesOk, RepliesFrame, Own
<1>4. ASSUME NEW id \in DOMAIN chans', NEW k \in Kinds, Begun(chans'[id].req[k])
      PROVE  id \in seen'.given \/ (call'.op \in Kinds /\ call'.id = id /\ call'.n = chans'[id].req[k].n /\ call'.op = k)
  <2>1. id \in DOMAIN chans /\ chans'[id].req = chans[id].req
    BY <1>4 DEF RepliesFrame, Begun, Idle
  <2>2. id \in seen.given \/ (call.op \in Kinds /\ call.id = id /\ call.n = chans[id].req[k].n /\ call.op = k)
    BY <1>4, <2>1 DEF RepliesOk, Own
  <2> QED BY <2>1, <2>2 DEF RepliesFrame
<1>5. OwnReply'
  BY SilentNot DEF RepliesOk, RepliesFrame, OwnReply
<1> QED BY <1>1, <1>2, <1>3, <1>4, <1>5 DEF RepliesOk, Own

(* And how many. *)
LEMMA CountedFrames ==
  ASSUME Base, Base', CountedOk, RepliesFrame, RequestsMove
  PROVE  CountedOk'
<1> SUFFICES ASSUME NEW id \in DOMAIN chans', id \notin seen'.sized
             PROVE  Cardinality(Sent(id)') <= Pending(id)'
  BY DEF CountedOk
<1>1. id \notin seen.sized /\ Pending(id)' = Pending(id)
  BY DEF RepliesFrame, RequestsMove
<1>2. CASE id \in DOMAIN chans /\ chans'[id].req = chans[id].req
  <2>1. Sent(id)' = Sent(id)
    BY <1>2 DEF Sent
  <2> QED BY <1>1, <1>2, <2>1 DEF CountedOk
<1>3. CASE \A k \in Kinds : chans'[id].req[k] = Idle
  <2>1. Sent(id)' = {}
    BY <1>3 DEF Sent, Idle
  <2>2. Pending(id) \in Nat
    BY Sequences, PendingNone DEF Pending
  <2> QED BY <1>1, <2>1, <2>2, FS_EmptySet
<1> QED BY <1>2, <1>3 DEF RepliesFrame

(* Steps of other kinds leave the requests. *)
LEMMA KeptRequests ==
  ASSUME Base, Base', Kept("request")
  PROVE  RequestsMove
<1>1. \A x : TagOf("request", x.t) <=> x.t \in {"success", "failure"}
  BY DEF TagOf
<1>2. (AskedRequests \cup ToldRequests)' = AskedRequests \cup ToldRequests
  BY <1>1, KeptTokens DEF AskedRequests, ToldRequests
<1>3. ASSUME NEW id
      PROVE  Keeping(server, server', RequestsAsked(id)) /\ Keeping(brigade, brigade', RequestsTold(id))
  <2>1. /\ \A x \in RequestsAsked(id) : x.kind = "request"
        /\ \A x \in RequestsTold(id) : TagOf("request", x.t)
    BY <1>1 DEF RequestsAsked, RequestsTold
  <2> QED BY <2>1 DEF Kept
<1>4. \A id : Pending(id)' = Pending(id)
  BY <1>3 DEF Pending, Keeping
<1> QED BY <1>2, <1>4 DEF RequestsMove

(* Both. *)
RequestsOk == RepliesOk /\ CountedOk

(* And keep it. *)
LEMMA RepliesKept ==
  ASSUME Base, Base', RequestsOk, RepliesFrame, Kept("request")
  PROVE  RequestsOk'
BY KeptRequests, RepliesFrames, CountedFrames DEF RequestsOk

(* Nothing is asked. *)
LEMMA InitRequests ==
  ASSUME Init
  PROVE  RequestsOk
<1>1. Base /\ server = <<>> /\ brigade = <<>>
  BY InitBase DEF Init
<1>2. ASSUME NEW id
      PROVE  Pending(id) = 0
  <2>1. ToSet(server) = {} /\ ToSet(brigade) = {}
    BY <1>1 DEF ToSet
  <2>2. Count(server, RequestsAsked(id)) + Count(brigade, RequestsTold(id)) = 0
    <3>1. /\ \A x \in ToSet(server) : x.kind = "request" => x.id # id
          /\ \A x \in ToSet(brigade) : x.t \in {"success", "failure"} => x.id # id
      BY <2>1
    <3>2. server \in Seq(QuestionType) /\ brigade \in Seq(ReplyType)
      BY <1>1, Sequences
    <3> QED BY <3>1, <3>2, PendingNone
  <2> QED BY <2>2 DEF Pending
<1>3. AskedRequests \cup ToldRequests = {}
  BY <1>1 DEF AskedRequests, ToldRequests, ToSet
<1>4. \A id \in DOMAIN chans : \A k \in Kinds : chans[id].req[k] = Idle
  BY DEF Init, Channel
<1>5. \A id \in DOMAIN chans : Sent(id) = {}
  BY <1>4 DEF Sent, Idle
<1>6. CountedOk
  BY <1>2, <1>5, FS_EmptySet DEF CountedOk
<1>7. RepliesOk
  BY <1>2, <1>3, <1>4, SilentNot DEF Init, RepliesOk, Begun, Idle, OwnReply
<1> QED BY <1>6, <1>7 DEF RequestsOk

(* Channels that stay have the requests they had. *)
KeepsReqs ==
  \A id \in DOMAIN chans' :
    (id \in DOMAIN chans /\ chans'[id].req = chans[id].req) \/ \A k \in Kinds : chans'[id].req[k] = Idle

(* What is done to channels leaves their requests, or begins with none. *)
LEMMA ReqsKept ==
  /\ chans' = chans => KeepsReqs
  /\ KeepsChans => KeepsReqs
  /\ \A id, n : Adds(id, n) => KeepsReqs
  /\ \A id : chans' = Without(id) => KeepsReqs
BY DEF KeepsReqs, KeepsChans, Adds, Without

(* A reply moves from the server to the library. *)
LEMMA ReadsRequests ==
  ASSUME Base, Base', NEW i, NEW t, Reads(i, t), server[i].kind = "request"
  PROVE  RequestsMove
<1> DEFINE r == Reply(t, server[i])
<1>1. /\ i \in DOMAIN server /\ server[i] \in QuestionType /\ t \in {"success", "failure"}
  BY Sequences DEF Reads, TagOf
<1>2. r \in ReplyType /\ r.t = t /\ r.n = server[i].n /\ r.id = server[i].id
  BY <1>1 DEF Reply, ReplyType, Tags, QuestionType
<1>3. ASSUME NEW id
      PROVE  Pending(id)' = Pending(id)
  <2>1. server[i] \in RequestsAsked(id) <=> r \in RequestsTold(id)
    BY <1>1, <1>2 DEF RequestsAsked, RequestsTold
  <2>2. Count(server, RequestsAsked(id))' + Count(brigade, RequestsTold(id))' = Count(server, RequestsAsked(id)) + Count(brigade, RequestsTold(id))
    <3> DEFINE S == RequestsAsked(id)
               R == RequestsTold(id)
    <3>1. server[i] \in S <=> r \in R
      BY <2>1
    <3>2. Count(server, S)' + Count(brigade, R)' = Count(server, S) + Count(brigade, R)
      <4> HIDE DEF S, R
      <4> QED BY <3>1, ReadsMoves
    <3> QED BY <3>2
  <2> QED BY <2>2 DEF Pending
<1>4. /\ ToSet(server') \subseteq ToSet(server) /\ server[i] \in ToSet(server)
      /\ ToSet(brigade') = ToSet(brigade) \cup {r}
  <2>1. server[i] \in {server[i]} <=> r \in {r}
    OBVIOUS
  <2> QED BY <2>1, ReadsMoves
<1>5. ASSUME NEW x \in (AskedRequests \cup ToldRequests)'
      PROVE  \E y \in AskedRequests \cup ToldRequests : y.id = x.id /\ y.n = x.n
  <2>1. server[i] \in AskedRequests
    BY <1>4 DEF AskedRequests
  <2>2. x \in AskedRequests \cup ToldRequests \/ x = r
    BY <1>4 DEF AskedRequests, ToldRequests
  <2> QED BY <1>2, <2>1, <2>2
<1> QED BY <1>3, <1>5 DEF RequestsMove

(* The server answers with what it was asked. *)
LEMMA ServerRequests ==
  ASSUME Base, Base', RequestsOk, ServerStep
  PROVE  RequestsOk'
<1>0. \A k \in Kinds \cup {"size"} : k \notin {"confirm", "refuse"}
  BY Names DEF OtherNames
<1>1. ASSUME NEW i, NEW t, Reads(i, t)
      PROVE  RequestsOk'
  <2>1. RepliesFrame
    <3>1. /\ call.ph # "send"
          /\ call'.ph = call.ph \/ call'.ph = "fail" \/ (call.op \notin Kinds /\ call'.op \notin Kinds)
      BY <1>1, CallKept DEF Reads
    <3> QED BY <1>1, <3>1 DEF Reads, RepliesFrame
  <2>2. CASE server[i].kind # "request"
    BY <1>1, <2>1, <2>2, ReadsKept, RepliesKept
  <2>3. CASE server[i].kind = "request"
    BY <1>1, <2>1, <2>3, ReadsRequests, RepliesFrames, CountedFrames DEF RequestsOk
  <2> QED BY <2>2, <2>3
<1>2. ASSUME NEW i, Closes(i)
      PROVE  RequestsOk'
  <2>1. RepliesFrame
    BY <1>2, CallKept DEF Closes, RepliesFrame
  <2> QED BY <1>2, <2>1, ClosesKept, RepliesKept
<1>3. CASE ServerWaits
  <2>1. RepliesFrame
    BY <1>0, <1>3, CallKept DEF ServerWaits, RepliesFrame
  <2> QED BY <1>3, <2>1, SameKept, RepliesKept DEF ServerWaits
<1>4. CASE AddingLost
  <2>1. seen'.given = seen.given /\ seen'.sized = seen.sized
    BY <1>4 DEF AddingLost, Base, Types, SeenType
  <2>2. RepliesFrame
    BY <1>4, <2>1, CallKept DEF AddingLost, RepliesFrame
  <2> QED BY <1>4, <2>2, SameKept, RepliesKept DEF AddingLost
<1>5. ASSUME NEW id, NEW n, ServerKeeps(id, n)
      PROVE  RequestsOk'
  <2>0. KeepsReqs
    BY <1>5, ReqsKept DEF ServerKeeps
  <2>1. RepliesFrame
    BY <1>5, <2>0, CallKept DEF ServerKeeps, RepliesFrame, KeepsReqs
  <2> QED BY <1>5, <2>1, SameKept, RepliesKept DEF ServerKeeps
<1> QED BY <1>1, <1>2, <1>3, <1>4, <1>5 DEF ServerStep

(* The calls that ask for nothing. *)
LEMMA OtherRequests ==
  ASSUME Base, Base', RequestsOk, OtherStep
  PROVE  RequestsOk'
<1>1. CASE Plain
  <2>0. KeepsReqs
    BY <1>1, ReqsKept DEF Plain
  <2>1. RepliesFrame
    BY <1>1, <2>0, OthersApart DEF Plain, SameWires, KeepsSeen, KeepsTold, RepliesFrame, KeepsReqs
  <2> QED BY <1>1, <2>1, SameKept, RepliesKept DEF Plain, SameWires
<1>2. ASSUME NEW q, Mute(q)
      PROVE  RequestsOk'
  <2>0. KeepsReqs
    BY <1>2, ReqsKept DEF Mute
  <2>1. out' = None \/ out'.what \notin Kinds \cup {"size"}
    <3>1. \A k \in Kinds \cup {"size"} : k \notin {"close", "cancel", "signal", "keepalive"}
      BY Names DEF OtherNames
    <3> QED BY <1>2, <3>1 DEF Mute, MutePacket, Stays, Ships
  <2>2. RepliesFrame
    BY <1>2, <2>0, <2>1, OthersApart DEF Mute, KeepsSeen, KeepsTold, RepliesFrame, KeepsReqs
  <2> QED BY <1>2, <2>2, MuteKept, RepliesKept
<1> QED BY <1>1, <1>2 DEF OtherStep

(* The opens: a new channel has asked for nothing. *)
LEMMA OpenRequests ==
  ASSUME Base, Base', NumbersOk, RequestsOk, OpenStep
  PROVE  RequestsOk'
<1> USE OthersApart
<1>1. ASSUME NEW type \in Opens, OpenBegins(type)
      PROVE  RequestsOk'
  <2>0. KeepsReqs
    BY <1>1, ReqsKept DEF OpenBegins
  <2>2. call.op \notin Kinds /\ call'.op \notin Kinds /\ told' = Silent
    BY <1>1 DEF OpenBegins, Calls
  <2>1. RepliesFrame
    BY <1>1, <2>0, <2>2 DEF OpenBegins, RepliesFrame, SameWires, KeepsReqs
  <2> QED BY <1>1, <2>1, SameKept, RepliesKept DEF OpenBegins, SameWires
<1>2. ASSUME NEW q, OpenStays(q)
      PROVE  RequestsOk'
  <2>0. \A k \in Kinds \cup {"size"} : k # "open"
    BY Names DEF OtherNames
  <2>1. RepliesFrame
    BY <1>2, <2>0 DEF OpenStays, OpenGoesOn, OpenPacket, Stays, RepliesFrame
  <2> QED BY <1>2, <2>1, StaysKept, RepliesKept DEF OpenStays, OpenGoesOn
<1>3. ASSUME NEW q, NEW w, OpenSent(q, w)
      PROVE  RequestsOk'
  <2>1. Ships(q, w) /\ w.what \in Questioned /\ Question(w).kind # "request" /\ out' = None
    BY <1>3, OpenSentIs DEF OpenSent
  <2>3. call.op \notin Kinds /\ call'.op \notin Kinds
    BY <1>3 DEF OpenSent, OpenGoesOn, Waiting
  <2>2. RepliesFrame
    BY <1>3, <2>1, <2>3 DEF OpenSent, OpenGoesOn, RepliesFrame
  <2> QED BY <1>3, <2>1, <2>2, ShipsKept, RepliesKept DEF OpenSent, OpenGoesOn
<1>4. ASSUME NEW i, OpenAnswered(i)
      PROVE  RequestsOk'
  <2>0. KeepsReqs
    BY <1>4, ReqsKept DEF OpenAnswered
  <2>3. call.op \notin Kinds /\ call'.op \notin Kinds /\ told'.op \notin Kinds
    BY <1>4 DEF OpenAnswered
  <2>1. RepliesFrame
    BY <1>4, <2>0, <2>3 DEF OpenAnswered, RepliesFrame, KeepsReqs
  <2>2. i \in DOMAIN brigade /\ brigade' = RemoveAt(brigade, i) /\ server' = server /\ ~TagOf("request", brigade[i].t)
    BY <1>4 DEF OpenAnswered, TagOf
  <2> QED BY <2>1, <2>2, TakenKept, RepliesKept
<1>5. CASE OpenFailed
  <2>0. KeepsReqs
    BY <1>5, ReqsKept DEF OpenFailed
  <2>1. seen.given \subseteq seen'.given /\ seen'.sized = seen.sized
    BY <1>5 DEF OpenFailed, Base, Types, SeenType
  <2>3. call.op \notin Kinds /\ call'.op \notin Kinds
    BY <1>5 DEF OpenFailed
  <2>2. RepliesFrame
    BY <1>5, <2>0, <2>1, <2>3 DEF OpenFailed, RepliesFrame, SameWires, KeepsReqs
  <2> QED BY <1>5, <2>2, SameKept, RepliesKept DEF OpenFailed, SameWires
<1> QED BY <1>1, <1>2, <1>3, <1>4, <1>5 DEF OpenStep

(* One request changes, and the set of those that wait with it. *)
LEMMA RequestSetIs ==
  ASSUME NEW id \in DOMAIN chans, NEW kind \in Kinds, NEW r, RequestSet(id, kind, r)
  PROVE  /\ DOMAIN chans' = DOMAIN chans /\ chans'[id].req[kind] = r
         /\ \A i \in DOMAIN chans, k \in Kinds : i # id \/ k # kind => chans'[i].req[k] = chans[i].req[k]
         /\ \A i \in DOMAIN chans : i # id => Sent(i)' = Sent(i)
         /\ r.st = "sent" => Sent(id)' = Sent(id) \cup {kind}
         /\ r.st # "sent" => Sent(id)' = Sent(id) \ {kind}
<1>1. /\ DOMAIN chans' = DOMAIN chans /\ chans'[id].req[kind] = r
      /\ \A i \in DOMAIN chans, k \in Kinds : i # id \/ k # kind => chans'[i].req[k] = chans[i].req[k]
  BY DEF RequestSet
<1>2. \A i \in DOMAIN chans : i # id => Sent(i)' = Sent(i)
  BY <1>1 DEF Sent
<1>3. \A k \in Kinds : k # kind => chans'[id].req[k] = chans[id].req[k]
  BY <1>1
<1>4. /\ r.st = "sent" => Sent(id)' = Sent(id) \cup {kind}
      /\ r.st # "sent" => Sent(id)' = Sent(id) \ {kind}
  BY <1>1, <1>3 DEF Sent
<1> QED BY <1>1, <1>2, <1>4

(* Such a set has one more or one less. *)
LEMMA SentCounts ==
  ASSUME NEW S, S \subseteq Kinds, NEW kind
  PROVE  /\ Cardinality(S) \in Nat
         /\ Cardinality(S \cup {kind}) <= Cardinality(S) + 1
         /\ Cardinality(S \cup {kind}) \in Nat /\ Cardinality(S \ {kind}) \in Nat
         /\ Cardinality(S \ {kind}) <= Cardinality(S)
         /\ kind \in S => Cardinality(S \ {kind}) = Cardinality(S) - 1
<1>1. IsFiniteSet(S)
  BY KindsAssumption, FS_Subset
<1>2. Cardinality(S) \in Nat
  BY <1>1, FS_CardinalityType
<1>3. IsFiniteSet(S \cup {kind}) /\ Cardinality(S \cup {kind}) = IF kind \in S THEN Cardinality(S) ELSE Cardinality(S) + 1
  BY <1>1, FS_AddElement
<1>4. IsFiniteSet(S \ {kind}) /\ Cardinality(S \ {kind}) = IF kind \in S THEN Cardinality(S) - 1 ELSE Cardinality(S)
  BY <1>1, FS_RemoveElement
<1>5. Cardinality(S \cup {kind}) \in Nat /\ Cardinality(S \ {kind}) \in Nat
  BY <1>3, <1>4, FS_CardinalityType
<1> QED BY <1>2, <1>3, <1>4, <1>5

(* What is counted is a number. *)
LEMMA PendingNat ==
  ASSUME Base
  PROVE  \A id : Pending(id) \in Nat
BY Sequences, PendingNone DEF Pending

(* Where no request waits, those that are on their way are of channels with one given up. *)
LEMMA NoneWaits ==
  ASSUME Base, RepliesOk, call.op \notin Kinds \/ call.ph = "send"
  PROVE  /\ \A x \in AskedRequests \cup ToldRequests : x.id \in seen.given
         /\ \A id : id \notin seen.given => Pending(id) = 0
<1>1. \A x \in AskedRequests \cup ToldRequests : x.id \in seen.given
  BY DEF RepliesOk, Own
<1>2. ASSUME NEW id, id \notin seen.given
      PROVE  Pending(id) = 0
  <2>1. /\ \A x \in ToSet(server) : x.kind = "request" => x.id # id
        /\ \A x \in ToSet(brigade) : x.t \in {"success", "failure"} => x.id # id
    BY <1>1, <1>2 DEF AskedRequests, ToldRequests
  <2> QED BY <2>1, Sequences, PendingNone DEF Pending
<1> QED BY <1>1, <1>2

(* Nothing moves. *)
LEMMA SameRequests ==
  ASSUME UNCHANGED <<server, brigade>>
  PROVE  /\ \A id : Pending(id)' = Pending(id)
         /\ (AskedRequests \cup ToldRequests)' = AskedRequests \cup ToldRequests
BY DEF Pending, Count, Places, RequestsAsked, RequestsTold, AskedRequests, ToldRequests

(* A request is built, or its call goes on with what another left. *)
LEMMA RequestBeginsRequests ==
  ASSUME Base, Base', RequestsOk, NEW kind \in Kinds, NEW id \in Mine, RequestBegins(kind, id)
  PROVE  RequestsOk'
<1>1. /\ call = NoCall /\ told' = Silent /\ call'.op = kind /\ call'.id = id /\ call'.n = calls + 1
      /\ UNCHANGED <<server, brigade, out, seen>> /\ id \in DOMAIN chans
  BY DEF RequestBegins, Calls, SameWires, Mine
<1>2. call.op \notin Kinds
  BY <1>1, OthersApart
<1>3. /\ \A i : Pending(i)' = Pending(i)
      /\ (AskedRequests \cup ToldRequests)' = AskedRequests \cup ToldRequests
  BY <1>1, SameRequests
<1>4. \A x \in (AskedRequests \cup ToldRequests)' : x.id \in seen'.given
  BY <1>1, <1>2, <1>3, NoneWaits DEF RequestsOk
<1>5. \A i : i \in seen'.given \/ Pending(i)' <= 1
  BY <1>1, <1>3 DEF RequestsOk, RepliesOk
<1>6. /\ out' # None /\ out'.what \in Kinds => out'.id \in seen'.given
      /\ out' # None /\ out'.what = "size" => out'.id \in seen'.given /\ out'.id \in seen'.sized
  BY <1>1, <1>2 DEF RequestsOk, RepliesOk, Own
<1>7. OwnReply'
  BY <1>1, OthersApart, SilentNot DEF OwnReply
<1>8. \A i \in DOMAIN chans, k \in Kinds : Begun(chans[i].req[k]) => i \in seen.given
  BY <1>2 DEF RequestsOk, RepliesOk, Own
<1>9. CASE chans' = chans
  <2>1. \A i \in DOMAIN chans', k \in Kinds : Begun(chans'[i].req[k]) => i \in seen'.given
    BY <1>1, <1>8, <1>9
  <2>2. CountedOk'
    BY <1>1, <1>3, <1>9 DEF RequestsOk, CountedOk, Sent
  <2> QED BY <1>4, <1>5, <1>6, <1>7, <2>1, <2>2 DEF RequestsOk, RepliesOk
<1>10. CASE /\ chans[id].req[kind].st = "idle"
            /\ RequestSet(id, kind, [st |-> "created", n |-> calls + 1])
  <2> DEFINE r == [st |-> "created", n |-> calls + 1]
  <2>1. /\ DOMAIN chans' = DOMAIN chans /\ chans'[id].req[kind] = r
        /\ \A i \in DOMAIN chans, k \in Kinds : i # id \/ k # kind => chans'[i].req[k] = chans[i].req[k]
        /\ \A i \in DOMAIN chans : i # id => Sent(i)' = Sent(i)
        /\ r.st # "sent" => Sent(id)' = Sent(id) \ {kind}
    BY <1>1, <1>10, RequestSetIs
  <2>2. ASSUME NEW i \in DOMAIN chans', NEW k \in Kinds, Begun(chans'[i].req[k])
        PROVE  i \in seen'.given \/ (call'.op \in Kinds /\ call'.id = i /\ call'.n = chans'[i].req[k].n /\ call'.op = k)
    <3>1. CASE i = id /\ k = kind
      BY <1>1, <2>1, <3>1
    <3>2. CASE i # id \/ k # kind
      BY <1>1, <1>8, <2>1, <2>2, <3>2
    <3> QED BY <3>1, <3>2
  <2>3. Sent(id)' = Sent(id)
    BY <1>10, <2>1 DEF Sent
  <2>4. CountedOk'
    <3>1. \A i \in DOMAIN chans : Sent(i)' = Sent(i)
      BY <2>1, <2>3
    <3> QED BY <1>1, <1>3, <2>1, <3>1 DEF RequestsOk, CountedOk
  <2> QED BY <1>4, <1>5, <1>6, <1>7, <2>2, <2>4 DEF RequestsOk, RepliesOk, Own
<1> QED BY <1>9, <1>10 DEF RequestBegins

(* A part of it is sent. *)
LEMMA RequestStaysRequests ==
  ASSUME Base, Base', RequestsOk, NEW kind \in Kinds, NEW q, RequestStays(kind, q)
  PROVE  RequestsOk'
<1>1. /\ call.op = kind /\ call.ph = "send" /\ call.id \in DOMAIN chans
      /\ UNCHANGED <<call, chans, brigade, server, seen, told>> /\ out' = q
      /\ q.what = kind /\ q.id = call.id /\ q.n = chans[call.id].req[kind].n
  BY DEF RequestStays, RequestGoesOn, RequestPacket, Stays, SameQueues, Mine
<1>2. chans[call.id].req[kind].st = "created"
  BY <1>1 DEF Base, Callers
<1>3. q.id \in seen.given \/ (call.op \in Kinds /\ call.id = q.id /\ call.n = q.n)
  BY <1>1, <1>2 DEF RequestsOk, RepliesOk, Own, Begun
<1>4. kind # "size"
  BY Names DEF OtherNames
<1>5. /\ \A i : Pending(i)' = Pending(i)
      /\ (AskedRequests \cup ToldRequests)' = AskedRequests \cup ToldRequests
  BY <1>1, SameRequests
<1>6. /\ out' # None /\ out'.what \in Kinds =>
           out'.id \in seen'.given \/ (call'.op \in Kinds /\ call'.id = out'.id /\ call'.n = out'.n /\ call'.op = out'.what /\ call'.ph = "send")
      /\ out' # None /\ out'.what = "size" => out'.id \in seen'.given /\ out'.id \in seen'.sized
  BY <1>1, <1>3, <1>4
<1>7. OwnReply'
  BY <1>1 DEF RequestsOk, RepliesOk, OwnReply
<1>8. CountedOk'
  BY <1>1, <1>5 DEF RequestsOk, CountedOk, Sent
<1>9. /\ \A x \in (AskedRequests \cup ToldRequests)' :
            x.id \in seen'.given \/ (call'.op \in Kinds /\ call'.id = x.id /\ call'.n = x.n /\ call'.ph # "send")
      /\ \A id : id \in seen'.given \/ Pending(id)' <= 1
      /\ \A id \in DOMAIN chans', k \in Kinds :
           Begun(chans'[id].req[k]) =>
             id \in seen'.given \/ (call'.op \in Kinds /\ call'.id = id /\ call'.n = chans'[id].req[k].n /\ call'.op = k)
  BY <1>1, <1>5 DEF RequestsOk, RepliesOk, Own
<1> QED BY <1>6, <1>7, <1>8, <1>9 DEF RequestsOk, RepliesOk, Own

(* What a request that goes out adds to the answers to come. *)
LEMMA RequestAdds ==
  ASSUME Base, NEW q, NEW w, Ships(q, w), w.what \in Kinds, brigade' = brigade
  PROVE  /\ \A i : Pending(i)' = IF i = w.id THEN Pending(i) + 1 ELSE Pending(i)
         /\ (AskedRequests \cup ToldRequests)' = AskedRequests \cup ToldRequests \cup {Question(w)}
         /\ Question(w).id = w.id /\ Question(w).n = w.n
<1>1. w \in WirePackets /\ w.what \in Questioned
  BY DEF Ships, Questioned
<1>2. Question(w) \in QuestionType /\ Question(w).kind = "request" /\ Question(w).id = w.id /\ Question(w).n = w.n
  BY <1>1, QuestionTyped
<1>3. ASSUME NEW i
      PROVE  Pending(i)' = IF i = w.id THEN Pending(i) + 1 ELSE Pending(i)
  <2> DEFINE S == RequestsAsked(i)
  <2>1. /\ Question(w) \in S => Count(server', S) = Count(server, S) + 1
        /\ Question(w) \notin S => Count(server', S) = Count(server, S)
    <3> HIDE DEF S
    <3> QED BY <1>1, ShipsAsks
  <2>2. Question(w) \in S <=> i = w.id
    BY <1>2 DEF RequestsAsked
  <2>3. Count(server, S) \in Nat /\ Count(brigade, RequestsTold(i)) \in Nat
    BY Sequences, CountNat
  <2> QED BY <2>1, <2>2, <2>3 DEF Pending
<1>4. ToSet(server') = ToSet(server) \cup {Question(w)}
  <2>1. \A S : ToSet(server') = ToSet(server) \cup {Question(w)}
    BY <1>1, ShipsAsks
  <2> QED BY <2>1
<1>5. (AskedRequests \cup ToldRequests)' = AskedRequests \cup ToldRequests \cup {Question(w)}
  BY <1>2, <1>4 DEF AskedRequests, ToldRequests
<1> QED BY <1>2, <1>3, <1>5

(* A size asks for no reply. *)
LEMMA SizeAdds ==
  ASSUME Base, NEW q, NEW w, Ships(q, w), w.what = "size", brigade' = brigade
  PROVE  /\ \A i : Pending(i)' = Pending(i)
         /\ (AskedRequests \cup ToldRequests)' = AskedRequests \cup ToldRequests
<1>1. w.what \notin Questioned
  BY Names DEF Questioned, OtherNames
<1>2. server' = server
  BY <1>1 DEF Ships
<1> QED BY <1>2, SameRequests

(* The request goes out, or what the transport had of it. *)
LEMMA RequestSentRequests ==
  ASSUME Base, Base', RequestsOk, NEW kind \in Kinds, NEW q, NEW w, RequestSent(kind, q, w)
  PROVE  RequestsOk'
<1>0. PICK c : c = call.id
  OBVIOUS
<1>1. /\ call.op = kind /\ call.ph = "send" /\ c \in DOMAIN chans
      /\ call'.op = kind /\ call'.id = c /\ call'.n = call.n /\ call'.ph = "reply"
      /\ UNCHANGED <<brigade, seen, told>> /\ Ships(q, w)
      /\ q.what = kind /\ q.id = c /\ q.n = chans[c].req[kind].n
      /\ RequestSet(c, kind, [chans[c].req[kind] EXCEPT !.st = "sent"])
  BY <1>0 DEF RequestSent, RequestGoesOn, RequestPacket, Waiting, SameQueues, Mine
<1>2. chans[c].req[kind].st = "created" /\ chans[c].req[kind] \in RequestType
  BY <1>0, <1>1 DEF Base, Callers, Types, ChannelType
<1>3. PICK r : r = [chans[c].req[kind] EXCEPT !.st = "sent"]
  OBVIOUS
<1>4. r.st = "sent" /\ r.n = chans[c].req[kind].n
  BY <1>2, <1>3 DEF RequestType
<1>5. /\ DOMAIN chans' = DOMAIN chans /\ chans'[c].req[kind] = r
      /\ \A i \in DOMAIN chans, k \in Kinds : i # c \/ k # kind => chans'[i].req[k] = chans[i].req[k]
      /\ \A i \in DOMAIN chans : i # c => Sent(i)' = Sent(i)
      /\ Sent(c)' = Sent(c) \cup {kind}
  <2>1. RequestSet(c, kind, r) /\ c \in DOMAIN chans
    BY <1>1, <1>3
  <2> QED BY <1>4, <2>1, RequestSetIs
<1>6. /\ w.id = c /\ out' = None /\ (w.what \in Kinds \/ w.what = "size")
      /\ w = q \/ (out # None /\ w = out)
  <2>1. w.what \in Kinds \cup {"size"} /\ out' = None
    BY <1>1, ShipsRequest
  <2> QED BY <1>1, <2>1 DEF Ships
<1>7. c \in seen.given \/ (call.n = chans[c].req[kind].n)
  BY <1>0, <1>1, <1>2 DEF RequestsOk, RepliesOk, Own, Begun
<1>8. /\ \A x \in AskedRequests \cup ToldRequests : x.id \in seen.given
      /\ \A id : id \notin seen.given => Pending(id) = 0
  BY <1>1, NoneWaits DEF RequestsOk
<1>10. w.what = "size" => c \in seen.given /\ c \in seen.sized
  <2>1. kind # "size"
    BY Names DEF OtherNames
  <2> QED BY <1>1, <1>6, <2>1 DEF RequestsOk, RepliesOk
<1>11. w.what \in Kinds => c \in seen.given \/ w.n = call.n
  BY <1>1, <1>6, <1>7 DEF RequestsOk, RepliesOk, Own
<1>12. /\ \A x \in (AskedRequests \cup ToldRequests)' : x.id \in seen'.given \/ (x.id = c /\ x.n = call.n)
       /\ \A i : i \in seen'.given \/ Pending(i)' <= 1
       /\ \A i : i # c => Pending(i)' = Pending(i)
       /\ c \in seen.sized \/ Pending(c)' = Pending(c) + 1
  <2>1. CASE w.what \in Kinds
    <3>1. /\ \A i : Pending(i)' = IF i = c THEN Pending(i) + 1 ELSE Pending(i)
          /\ (AskedRequests \cup ToldRequests)' = AskedRequests \cup ToldRequests \cup {Question(w)}
          /\ Question(w).id = c /\ Question(w).n = w.n
      BY <1>1, <1>6, <2>1, RequestAdds
    <3>2. \A x \in (AskedRequests \cup ToldRequests)' : x.id \in seen'.given \/ (x.id = c /\ x.n = call.n)
      BY <1>1, <1>8, <1>11, <2>1, <3>1
    <3>3. \A i : i \in seen'.given \/ Pending(i)' <= 1
      BY <1>1, <1>8, <3>1 DEF RequestsOk, RepliesOk
    <3> QED BY <3>1, <3>2, <3>3
  <2>2. CASE w.what = "size"
    <3>1. /\ \A i : Pending(i)' = Pending(i)
          /\ (AskedRequests \cup ToldRequests)' = AskedRequests \cup ToldRequests
      BY <1>1, <2>2, SizeAdds
    <3> QED BY <1>1, <1>8, <1>10, <2>2, <3>1 DEF RequestsOk, RepliesOk
  <2> QED BY <1>6, <2>1, <2>2
<1>13. ASSUME NEW i \in DOMAIN chans', NEW k \in Kinds, Begun(chans'[i].req[k])
       PROVE  i \in seen'.given \/ (call'.op \in Kinds /\ call'.id = i /\ call'.n = chans'[i].req[k].n /\ call'.op = k)
  <2>1. CASE i = c /\ k = kind
    BY <1>1, <1>4, <1>5, <1>7, <2>1
  <2>2. CASE i # c \/ k # kind
    <3>1. i \in seen.given \/ (call.id = i /\ call.op = k)
      BY <1>5, <1>13, <2>2 DEF RequestsOk, RepliesOk, Own
    <3> QED BY <1>0, <1>1, <2>2, <3>1
  <2> QED BY <2>1, <2>2
<1>14. CountedOk'
  <2> SUFFICES ASSUME NEW i \in DOMAIN chans', i \notin seen'.sized
               PROVE  Cardinality(Sent(i)') <= Pending(i)'
    BY DEF CountedOk
  <2>1. Cardinality(Sent(i)) <= Pending(i) /\ i \notin seen.sized
    BY <1>1, <1>5 DEF RequestsOk, CountedOk
  <2>2. CASE i # c
    BY <1>5, <1>12, <2>1, <2>2
  <2>3. CASE i = c
    <3>1. Sent(c) \subseteq Kinds /\ Pending(c) \in Nat
      BY PendingNat DEF Sent
    <3>2. /\ Cardinality(Sent(c)) \in Nat /\ Cardinality(Sent(c) \cup {kind}) \in Nat
          /\ Cardinality(Sent(c) \cup {kind}) <= Cardinality(Sent(c)) + 1
      BY <3>1, SentCounts
    <3>3. Sent(i)' = Sent(c) \cup {kind} /\ Pending(i)' = Pending(c) + 1
      BY <1>5, <1>12, <2>1, <2>3
    <3> QED BY <2>1, <2>3, <3>1, <3>2, <3>3
  <2> QED BY <2>2, <2>3
<1>15. OwnReply'
  BY <1>1 DEF RequestsOk, RepliesOk, OwnReply
<1> QED BY <1>1, <1>6, <1>12, <1>13, <1>14, <1>15 DEF RequestsOk, RepliesOk, Own

(* A reply that is taken is one of the channel's. *)
LEMMA RequestTakes ==
  ASSUME Base, NEW i \in DOMAIN brigade, brigade' = RemoveAt(brigade, i), server' = server,
         brigade[i].t \in {"success", "failure"}, NEW c, brigade[i].id = c
  PROVE  /\ \A n : Pending(n)' = IF n = c THEN Pending(n) - 1 ELSE Pending(n)
         /\ (AskedRequests \cup ToldRequests)' \subseteq AskedRequests \cup ToldRequests
         /\ brigade[i] \in ToldRequests
         /\ \A x \in (AskedRequests \cup ToldRequests)' : Pending(x.id)' # 0
<1>1. brigade[i] \in ReplyType /\ ToSet(brigade') \subseteq ToSet(brigade) /\ brigade[i] \in ToSet(brigade)
  <2>1. \A S : /\ ToSet(brigade') \subseteq ToSet(brigade) /\ brigade[i] \in ToSet(brigade)
               /\ brigade[i] \in ReplyType
    BY TakenCounts
  <2> QED BY <2>1
<1>2. ASSUME NEW n
      PROVE  Pending(n)' = IF n = c THEN Pending(n) - 1 ELSE Pending(n)
  <2> DEFINE S == RequestsTold(n)
  <2>1. /\ brigade[i] \in S => Count(brigade', S) = Count(brigade, S) - 1
        /\ brigade[i] \notin S => Count(brigade', S) = Count(brigade, S)
    <3> HIDE DEF S
    <3> QED BY TakenCounts
  <2>2. brigade[i] \in S <=> n = c
    BY <1>1 DEF RequestsTold
  <2>3. Count(brigade, S) \in Nat /\ Count(server, RequestsAsked(n)) \in Nat
    BY Sequences, CountNat
  <2> QED BY <2>1, <2>2, <2>3 DEF Pending
<1>3. (AskedRequests \cup ToldRequests)' \subseteq AskedRequests \cup ToldRequests /\ brigade[i] \in ToldRequests
  BY <1>1 DEF AskedRequests, ToldRequests
<1>4. ASSUME NEW n, Pending(n)' = 0
      PROVE  \A x \in (AskedRequests \cup ToldRequests)' : x.id # n
  <2>1. server' \in Seq(QuestionType) /\ brigade' \in Seq(ReplyType)
    <3>1. brigade' \in Seq(ReplyType)
      BY Sequences, RemovedElements
    <3> QED BY <3>1, Sequences
  <2>2. Count(server', RequestsAsked(n)) + Count(brigade', RequestsTold(n)) = 0
    BY <1>4 DEF Pending
  <2>3. /\ \A x \in ToSet(server') : x.kind = "request" => x.id # n
        /\ \A x \in ToSet(brigade') : x.t \in {"success", "failure"} => x.id # n
    BY <2>1, <2>2, PendingNone
  <2> QED BY <2>3 DEF AskedRequests, ToldRequests
<1> QED BY <1>2, <1>3, <1>4

(* The reply is that of the call, unless the channel has one that was given up. *)
LEMMA RequestAnsweredRequests ==
  ASSUME Base, Base', RequestsOk, NEW kind \in Kinds, NEW i, NEW r, RequestAnswered(kind, i, r)
  PROVE  RequestsOk'
<1>0. PICK c : c = call.id
  OBVIOUS
<1>1. /\ call.op = kind /\ call.ph = "reply" /\ c \in DOMAIN chans
      /\ i \in DOMAIN brigade /\ brigade[i].t \in {"success", "failure"} /\ brigade[i].id = c
      /\ brigade' = RemoveAt(brigade, i)
      /\ RequestSet(c, kind, r) /\ RequestOver(kind, Told(kind, i), r)
      /\ UNCHANGED <<out, server, seen>>
  BY <1>0 DEF RequestAnswered, Mine
<1>2. chans[c].req[kind].st = "sent"
  BY <1>0, <1>1 DEF Base, Callers
<1>3. /\ call' = NoCall \/ (call'.id = c /\ call'.n = call.n /\ call'.op = kind /\ call'.ph = "send")
      /\ told' = told \/ told' = Told(kind, i)
  BY <1>0, <1>1, OverIs
<1>4. r.st # "sent" /\ (Begun(r) => call' # NoCall /\ r.n = call.n)
  <2>1. CASE call' = NoCall
    BY <1>1, <2>1 DEF RequestOver, Begun, NoCall
  <2>2. CASE call' # NoCall
    BY <1>1, <2>2 DEF RequestOver, Begun
  <2> QED BY <2>1, <2>2
<1>5. /\ DOMAIN chans' = DOMAIN chans /\ chans'[c].req[kind] = r
      /\ \A j \in DOMAIN chans, k \in Kinds : j # c \/ k # kind => chans'[j].req[k] = chans[j].req[k]
      /\ \A j \in DOMAIN chans : j # c => Sent(j)' = Sent(j)
      /\ Sent(c)' = Sent(c) \ {kind}
  BY <1>1, <1>4, RequestSetIs
<1>6. /\ \A n : Pending(n)' = IF n = c THEN Pending(n) - 1 ELSE Pending(n)
      /\ (AskedRequests \cup ToldRequests)' \subseteq AskedRequests \cup ToldRequests
      /\ brigade[i] \in ToldRequests
      /\ \A x \in (AskedRequests \cup ToldRequests)' : Pending(x.id)' # 0
  BY <1>1, RequestTakes
<1>7. Pending(c) \in Nat
  BY PendingNat
<1>8. \A x \in (AskedRequests \cup ToldRequests)' : x.id \in seen'.given
  <2> SUFFICES ASSUME NEW x \in (AskedRequests \cup ToldRequests)', x.id \notin seen.given
               PROVE  FALSE
    BY <1>1
  <2>1. x.id = c
    BY <1>0, <1>6 DEF RequestsOk, RepliesOk, Own
  <2>2. Pending(c) <= 1
    BY <2>1 DEF RequestsOk, RepliesOk
  <2>3. Pending(c)' = Pending(c) - 1 /\ Pending(c)' # 0
    BY <1>6, <2>1
  <2>4. Pending(c) = 0
    BY <1>7, <2>2, <2>3
  <2>5. brigade[i] \in ToSet(brigade) /\ brigade[i].t \in {"success", "failure"} /\ brigade[i].id = c
    BY <1>1, <1>6 DEF ToldRequests
  <2>6. \A y \in ToSet(brigade) : y.t \in {"success", "failure"} => y.id # c
    BY <2>4, Sequences, PendingNone DEF Pending
  <2> QED BY <2>5, <2>6
<1>9. \A n : n \in seen'.given \/ Pending(n)' <= 1
  BY <1>1, <1>6, <1>7 DEF RequestsOk, RepliesOk
<1>10. /\ out' # None /\ out'.what \in Kinds => out'.id \in seen'.given
       /\ out' # None /\ out'.what = "size" => out'.id \in seen'.given /\ out'.id \in seen'.sized
  BY <1>1 DEF RequestsOk, RepliesOk
<1>11. ASSUME NEW j \in DOMAIN chans', NEW k \in Kinds, Begun(chans'[j].req[k])
       PROVE  j \in seen'.given \/ (call'.op \in Kinds /\ call'.id = j /\ call'.n = chans'[j].req[k].n /\ call'.op = k)
  <2>1. CASE j = c /\ k = kind
    BY <1>3, <1>4, <1>5, <1>11, <2>1
  <2>2. CASE j # c \/ k # kind
    <3>1. j \in seen.given \/ (call.id = j /\ call.op = k)
      BY <1>5, <1>11, <2>2 DEF RequestsOk, RepliesOk, Own
    <3> QED BY <1>0, <1>1, <2>2, <3>1
  <2> QED BY <2>1, <2>2
<1>12. CountedOk'
  <2> SUFFICES ASSUME NEW j \in DOMAIN chans', j \notin seen'.sized
               PROVE  Cardinality(Sent(j)') <= Pending(j)'
    BY DEF CountedOk
  <2>1. Cardinality(Sent(j)) <= Pending(j)
    BY <1>1, <1>5 DEF RequestsOk, CountedOk
  <2>2. CASE j # c
    BY <1>5, <1>6, <2>1, <2>2
  <2>3. CASE j = c
    <3>1. Sent(c) \subseteq Kinds /\ kind \in Sent(c)
      BY <1>2 DEF Sent
    <3>2. Cardinality(Sent(c)) \in Nat /\ Cardinality(Sent(c) \ {kind}) = Cardinality(Sent(c)) - 1
      BY <3>1, SentCounts
    <3>3. Sent(j)' = Sent(c) \ {kind} /\ Pending(j)' = Pending(c) - 1
      BY <1>5, <1>6, <2>3
    <3> QED BY <1>7, <2>1, <2>3, <3>2, <3>3
  <2> QED BY <2>2, <2>3
<1>13. OwnReply'
  <2>1. CASE told' = told
    BY <1>1, <2>1 DEF RequestsOk, RepliesOk, OwnReply
  <2>2. CASE told' = Told(kind, i)
    <3>1. c \in seen.given \/ brigade[i].n = call.n
      BY <1>1, <1>6 DEF RequestsOk, RepliesOk, Own
    <3>2. told'.id = c /\ told'.n = call.n /\ told'.by = brigade[i].n
      BY <1>0, <2>2 DEF Told
    <3> QED BY <1>1, <3>1, <3>2 DEF OwnReply
  <2> QED BY <1>3, <2>1, <2>2
<1> QED BY <1>1, <1>8, <1>9, <1>10, <1>11, <1>12, <1>13 DEF RequestsOk, RepliesOk, Own

(* The request fails and is given up. *)
LEMMA RequestFailedRequests ==
  ASSUME Base, Base', RequestsOk, NEW kind \in Kinds, NEW r, RequestFailed(kind, r)
  PROVE  RequestsOk'
<1>0. PICK c : c = call.id
  OBVIOUS
<1>1. /\ call.op = kind /\ c \in DOMAIN chans /\ call.ph # "send"
      /\ RequestSet(c, kind, r) /\ RequestOver(kind, Silent, r)
      /\ UNCHANGED <<brigade, out, server>>
  BY <1>0 DEF RequestFailed, Mine, SameWires
<1>2. seen'.sized = seen.sized /\ seen'.given = seen.given \cup {c}
  BY <1>0 DEF RequestFailed, Base, Types, SeenType
<1>3. /\ call' = NoCall \/ (call'.id = c /\ call'.n = call.n /\ call'.op = kind /\ call'.ph = "send")
      /\ told' = told \/ told' = Silent
  BY <1>0, <1>1, OverIs
<1>4. r.st # "sent"
  BY <1>1 DEF RequestOver
<1>5. /\ DOMAIN chans' = DOMAIN chans /\ chans'[c].req[kind] = r
      /\ \A j \in DOMAIN chans, k \in Kinds : j # c \/ k # kind => chans'[j].req[k] = chans[j].req[k]
      /\ \A j \in DOMAIN chans : j # c => Sent(j)' = Sent(j)
      /\ Sent(c)' = Sent(c) \ {kind}
  BY <1>1, <1>4, RequestSetIs
<1>6. /\ \A n : Pending(n)' = Pending(n)
      /\ (AskedRequests \cup ToldRequests)' = AskedRequests \cup ToldRequests
  BY <1>1, SameRequests
<1>7. \A x \in (AskedRequests \cup ToldRequests)' : x.id \in seen'.given
  BY <1>0, <1>2, <1>6 DEF RequestsOk, RepliesOk, Own
<1>8. \A n : n \in seen'.given \/ Pending(n)' <= 1
  BY <1>2, <1>6 DEF RequestsOk, RepliesOk
<1>9. /\ out' # None /\ out'.what \in Kinds => out'.id \in seen'.given
      /\ out' # None /\ out'.what = "size" => out'.id \in seen'.given /\ out'.id \in seen'.sized
  BY <1>1, <1>2 DEF RequestsOk, RepliesOk
<1>10. ASSUME NEW j \in DOMAIN chans', NEW k \in Kinds, Begun(chans'[j].req[k])
       PROVE  j \in seen'.given
  <2>1. CASE j = c
    BY <1>2, <2>1
  <2>2. CASE j # c
    <3>1. j \in seen.given \/ call.id = j
      BY <1>5, <1>10, <2>2 DEF RequestsOk, RepliesOk, Own
    <3> QED BY <1>0, <1>2, <2>2, <3>1
  <2> QED BY <2>1, <2>2
<1>11. CountedOk'
  <2> SUFFICES ASSUME NEW j \in DOMAIN chans', j \notin seen'.sized
               PROVE  Cardinality(Sent(j)') <= Pending(j)'
    BY DEF CountedOk
  <2>1. Cardinality(Sent(j)) <= Pending(j)
    BY <1>2, <1>5 DEF RequestsOk, CountedOk
  <2>2. CASE j # c
    BY <1>5, <1>6, <2>1, <2>2
  <2>3. CASE j = c
    <3>1. Sent(c) \subseteq Kinds /\ Pending(c) \in Nat
      BY PendingNat DEF Sent
    <3>2. /\ Cardinality(Sent(c)) \in Nat /\ Cardinality(Sent(c) \ {kind}) \in Nat
          /\ Cardinality(Sent(c) \ {kind}) <= Cardinality(Sent(c))
      BY <3>1, SentCounts
    <3>3. Sent(j)' = Sent(c) \ {kind} /\ Pending(j)' = Pending(c)
      BY <1>5, <1>6, <2>3
    <3> QED BY <2>1, <2>3, <3>1, <3>2, <3>3
  <2> QED BY <2>2, <2>3
<1>12. OwnReply'
  BY <1>2, <1>3, SilentNot DEF RequestsOk, RepliesOk, OwnReply
<1> QED BY <1>7, <1>8, <1>9, <1>10, <1>11, <1>12 DEF RequestsOk, RepliesOk

(* A size gives up a terminal request it takes the place of. *)
LEMMA PtySizedRequests ==
  ASSUME Base, Base', RequestsOk, NEW c, NEW q, PtySized(c, q)
  PROVE  RequestsOk'
<1>1. /\ call = NoCall /\ call' = NoCall /\ c \in DOMAIN chans /\ told' = told /\ brigade' = brigade
      /\ q.what = "size" /\ q.id = c
  BY DEF PtySized, Mine
<1>2. call.op \notin Kinds /\ call'.op \notin Kinds
  BY <1>1, OthersApart
<1>3. PICK r : /\ RequestSet(c, "pty", r) /\ r.st # "sent"
               /\ Begun(r) => c \in seen'.given /\ c \in seen'.sized
               /\ chans[c].req["pty"].st = "sent" => UNCHANGED <<out, server>> /\ r = Idle
               /\ seen.given \subseteq seen'.given /\ seen.sized \subseteq seen'.sized
               /\ \/ UNCHANGED <<out, server>>
                  \/ Stays(q) /\ c \in seen'.given /\ c \in seen'.sized
                  \/ \E w : Ships(q, w)
  <2>1. CASE /\ chans[c].req["pty"].st = "sent" /\ UNCHANGED <<out, server, peer>>
             /\ RequestSet(c, "pty", Idle)
             /\ seen' = [seen EXCEPT !.given = @ \cup {c}]
    BY <2>1 DEF Idle, Begun, Base, Types, SeenType
  <2>2. CASE /\ chans[c].req["pty"].st # "sent" /\ \E w : Ships(q, w)
             /\ RequestSet(c, "pty", Idle)
             /\ IF chans[c].req["pty"].st = "idle" THEN seen' = seen ELSE seen' = [seen EXCEPT !.given = @ \cup {c}]
    <3>1. seen.given \subseteq seen'.given /\ seen.sized \subseteq seen'.sized
      BY <2>2 DEF Base, Types, SeenType
    <3> QED BY <2>2, <3>1 DEF Idle, Begun
  <2>3. CASE /\ chans[c].req["pty"].st = "idle" /\ Stays(q)
             /\ RequestSet(c, "pty", [st |-> "created", n |-> calls + 1])
             /\ seen' = [seen EXCEPT !.given = @ \cup {c}, !.sized = @ \cup {c}]
    <3>1. /\ seen.given \subseteq seen'.given /\ seen.sized \subseteq seen'.sized
          /\ c \in seen'.given /\ c \in seen'.sized
      BY <2>3 DEF Base, Types, SeenType
    <3> QED BY <2>3, <3>1
  <2> QED BY <2>1, <2>2, <2>3 DEF PtySized
<1>4. /\ DOMAIN chans' = DOMAIN chans /\ chans'[c].req["pty"] = r
      /\ \A j \in DOMAIN chans, k \in Kinds : j # c \/ k # "pty" => chans'[j].req[k] = chans[j].req[k]
      /\ \A j \in DOMAIN chans : j # c => Sent(j)' = Sent(j)
      /\ Sent(c)' = Sent(c) \ {"pty"}
  BY <1>1, <1>3, Names, RequestSetIs
<1>5. /\ \A x \in AskedRequests \cup ToldRequests : x.id \in seen.given
      /\ \A id : id \notin seen.given => Pending(id) = 0
  BY <1>2, NoneWaits DEF RequestsOk
<1>6. \A k \in Kinds : k # "size"
  BY Names DEF OtherNames
<1>7. /\ \A x \in (AskedRequests \cup ToldRequests)' : x.id \in seen'.given
      /\ \A i : i \in seen'.given \/ Pending(i)' <= 1
      /\ \A i : Pending(i)' \in Nat /\ Pending(i) <= Pending(i)'
      /\ out' # None /\ out'.what \in Kinds => out'.id \in seen'.given
      /\ out' # None /\ out'.what = "size" => out'.id \in seen'.given /\ out'.id \in seen'.sized
  <2>0. \A i : Pending(i) \in Nat
    BY PendingNat
  <2>1. CASE UNCHANGED <<out, server>>
    <3>1. /\ \A i : Pending(i)' = Pending(i)
          /\ (AskedRequests \cup ToldRequests)' = AskedRequests \cup ToldRequests
      BY <1>1, <2>1, SameRequests
    <3>2. /\ out # None /\ out.what \in Kinds => out.id \in seen.given
          /\ out # None /\ out.what = "size" => out.id \in seen.given /\ out.id \in seen.sized
      BY <1>2 DEF RequestsOk, RepliesOk, Own
    <3> QED BY <1>3, <1>5, <2>0, <2>1, <3>1, <3>2
  <2>2. CASE Stays(q) /\ c \in seen'.given /\ c \in seen'.sized
    <3>1. /\ \A i : Pending(i)' = Pending(i)
          /\ (AskedRequests \cup ToldRequests)' = AskedRequests \cup ToldRequests
      BY <1>1, <2>2, SameRequests DEF Stays
    <3>2. out' = q
      BY <2>2 DEF Stays
    <3> QED BY <1>1, <1>3, <1>5, <2>0, <2>2, <3>1, <3>2
  <2>3. CASE \E w : Ships(q, w)
    <3>1. PICK w : Ships(q, w)
      BY <2>3
    <3>2. out' = None /\ (w.what \in Kinds \/ w.what = "size") /\ w.id = c /\ (w = q \/ (out # None /\ w = out))
      <4>1. w.what \in Kinds \cup {"size"} /\ out' = None
        BY <1>1, <3>1, ShipsRequest
      <4> QED BY <1>1, <3>1, <4>1 DEF Ships
    <3>3. CASE w.what \in Kinds
      <4>1. c \in seen.given
        BY <1>1, <1>2, <1>6, <3>2, <3>3 DEF RequestsOk, RepliesOk, Own
      <4>2. /\ \A i : Pending(i)' = IF i = c THEN Pending(i) + 1 ELSE Pending(i)
            /\ (AskedRequests \cup ToldRequests)' = AskedRequests \cup ToldRequests \cup {Question(w)}
            /\ Question(w).id = c
        BY <1>1, <3>1, <3>2, <3>3, RequestAdds
      <4>3. \A i : Pending(i)' \in Nat /\ Pending(i) <= Pending(i)'
        BY <2>0, <4>2
      <4> QED BY <1>3, <1>5, <2>0, <3>2, <4>1, <4>2, <4>3
    <3>4. CASE w.what = "size"
      <4>1. /\ \A i : Pending(i)' = Pending(i)
            /\ (AskedRequests \cup ToldRequests)' = AskedRequests \cup ToldRequests
        BY <1>1, <3>1, <3>4, SizeAdds
      <4> QED BY <1>3, <1>5, <2>0, <3>2, <4>1
    <3> QED BY <3>2, <3>3, <3>4
  <2> QED BY <1>3, <2>1, <2>2, <2>3
<1>8. ASSUME NEW j \in DOMAIN chans', NEW k \in Kinds, Begun(chans'[j].req[k])
      PROVE  j \in seen'.given
  <2>1. CASE j = c /\ k = "pty"
    BY <1>3, <1>4, <1>8, <2>1
  <2>2. CASE j # c \/ k # "pty"
    BY <1>2, <1>3, <1>4, <1>8, <2>2 DEF RequestsOk, RepliesOk, Own
  <2> QED BY <2>1, <2>2
<1>9. CountedOk'
  <2> SUFFICES ASSUME NEW j \in DOMAIN chans', j \notin seen'.sized
               PROVE  Cardinality(Sent(j)') <= Pending(j)'
    BY DEF CountedOk
  <2>1. Cardinality(Sent(j)) <= Pending(j)
    BY <1>3, <1>4 DEF RequestsOk, CountedOk
  <2>2. Sent(j) \subseteq Kinds /\ Pending(j) \in Nat
    BY PendingNat DEF Sent
  <2>3. /\ Cardinality(Sent(j)) \in Nat /\ Cardinality(Sent(j) \ {"pty"}) \in Nat
        /\ Cardinality(Sent(j) \ {"pty"}) <= Cardinality(Sent(j))
    BY <2>2, SentCounts
  <2>4. Sent(j)' = Sent(j) \/ Sent(j)' = Sent(j) \ {"pty"}
    BY <1>4
  <2>5. Cardinality(Sent(j)') \in Nat /\ Cardinality(Sent(j)') <= Cardinality(Sent(j))
    BY <2>3, <2>4
  <2> QED BY <1>7, <2>1, <2>2, <2>3, <2>5
<1>10. OwnReply'
  BY <1>1, <1>3 DEF RequestsOk, RepliesOk, OwnReply
<1> QED BY <1>7, <1>8, <1>9, <1>10 DEF RequestsOk, RepliesOk

(* The requests. *)
LEMMA RequestStepRequests ==
  ASSUME Base, Base', RequestsOk, RequestStep
  PROVE  RequestsOk'
BY RequestBeginsRequests, RequestStaysRequests, RequestSentRequests, RequestAnsweredRequests,
   RequestFailedRequests, PtySizedRequests DEF RequestStep

(* The forwardings. *)
LEMMA ListenRequests ==
  ASSUME Base, Base', RequestsOk, ListenStep
  PROVE  RequestsOk'
<1>0. call'.op = "listen" \/ call' = NoCall => call'.op \notin Kinds
  BY OthersApart, OpsApart
<1>1. CASE ListenBegins
  <2>0. KeepsReqs
    BY <1>1, ReqsKept DEF ListenBegins
  <2>1. call.op \notin Kinds /\ call'.op \notin Kinds /\ told' = Silent
    BY <1>0, <1>1, OthersApart DEF ListenBegins, Calls
  <2>2. RepliesFrame
    BY <1>1, <2>0, <2>1 DEF ListenBegins, RepliesFrame, SameWires, KeepsReqs
  <2> QED BY <1>1, <2>2, SameKept, RepliesKept DEF ListenBegins, SameWires
<1>2. ASSUME NEW q, ListenStays(q)
      PROVE  RequestsOk'
  <2>0. "listen" \notin Kinds \cup {"size"}
    BY Names DEF OtherNames
  <2>1. RepliesFrame
    BY <1>2, <2>0 DEF ListenStays, ListenGoesOn, ListenPacket, Stays, RepliesFrame
  <2> QED BY <1>2, <2>1, StaysKept, RepliesKept DEF ListenStays, ListenGoesOn
<1>3. ASSUME NEW q, NEW w, ListenSent(q, w)
      PROVE  RequestsOk'
  <2>1. Ships(q, w) /\ w \in WirePackets /\ w.what = "listen" /\ out' = None
    BY <1>3 DEF ListenSent, Ships
  <2>2. call.op \notin Kinds /\ call'.op \notin Kinds
    BY <1>3, OpsApart DEF ListenSent, ListenGoesOn, Waiting
  <2>3. RepliesFrame
    BY <1>3, <2>1, <2>2 DEF ListenSent, ListenGoesOn, RepliesFrame
  <2>4. w.what \in Questioned => Question(w).kind # "request"
    BY <2>1, QuestionTyped
  <2> QED BY <1>3, <2>1, <2>3, <2>4, ShipsKept, RepliesKept DEF ListenSent, ListenGoesOn
<1>4. ASSUME NEW i, ListenAnswered(i)
      PROVE  RequestsOk'
  <2>1. call.op \notin Kinds /\ call'.op \notin Kinds /\ told'.op \notin Kinds
    BY <1>0, <1>4, OpsApart DEF ListenAnswered
  <2>2. RepliesFrame
    BY <1>4, <2>1 DEF ListenAnswered, RepliesFrame
  <2>3. i \in DOMAIN brigade /\ brigade' = RemoveAt(brigade, i) /\ server' = server /\ ~TagOf("request", brigade[i].t)
    BY <1>4 DEF ListenAnswered, TagOf
  <2> QED BY <2>2, <2>3, TakenKept, RepliesKept
<1>5. CASE ListenFailed
  <2>1. seen.given \subseteq seen'.given /\ seen'.sized = seen.sized
    BY <1>5 DEF ListenFailed, Base, Types, SeenType
  <2>2. call.op \notin Kinds /\ call'.op \notin Kinds
    BY <1>0, <1>5, OpsApart DEF ListenFailed
  <2>3. RepliesFrame
    BY <1>5, <2>1, <2>2 DEF ListenFailed, RepliesFrame, SameWires
  <2> QED BY <1>5, <2>3, SameKept, RepliesKept DEF ListenFailed, SameWires
<1> QED BY <1>1, <1>2, <1>3, <1>4, <1>5 DEF ListenStep

(* A request that is left off is given up. *)
LEMMA AbandonRequests ==
  ASSUME Base, Base', RequestsOk, Abandoned
  PROVE  RequestsOk'
<1>1. /\ UNCHANGED <<brigade, out, server, chans, told>> /\ seen'.sized = seen.sized
      /\ seen.given \subseteq seen'.given
      /\ call.op \in Kinds => call.id \in seen'.given
  BY DEF Abandoned, SameWires, Base, Types, SeenType
<1>2. /\ \A n : Pending(n)' = Pending(n)
      /\ (AskedRequests \cup ToldRequests)' = AskedRequests \cup ToldRequests
  BY <1>1, SameRequests
<1>3. /\ \A x \in (AskedRequests \cup ToldRequests)' : x.id \in seen'.given
      /\ \A n : n \in seen'.given \/ Pending(n)' <= 1
  BY <1>1, <1>2 DEF RequestsOk, RepliesOk, Own
<1>4. /\ out' # None /\ out'.what \in Kinds => out'.id \in seen'.given
      /\ out' # None /\ out'.what = "size" => out'.id \in seen'.given /\ out'.id \in seen'.sized
  BY <1>1 DEF RequestsOk, RepliesOk, Own
<1>5. \A j \in DOMAIN chans', k \in Kinds : Begun(chans'[j].req[k]) => j \in seen'.given
  BY <1>1 DEF RequestsOk, RepliesOk, Own
<1>6. CountedOk'
  BY <1>1, <1>2 DEF RequestsOk, CountedOk, Sent
<1>7. OwnReply'
  BY <1>1 DEF RequestsOk, RepliesOk, OwnReply
<1> QED BY <1>3, <1>4, <1>5, <1>6, <1>7 DEF RequestsOk, RepliesOk

(* Every step keeps it. *)
LEMMA StepRequests ==
  ASSUME Base, Base', NumbersOk, RequestsOk, [Next]_vars
  PROVE  RequestsOk'
<1>1. CASE UNCHANGED vars
  <2>1. RepliesFrame
    BY <1>1 DEF RepliesFrame, vars
  <2> QED BY <1>1, <2>1, SameKept, RepliesKept DEF vars
<1> QED BY <1>1, StepIs, ServerRequests, OtherRequests, OpenRequests, RequestStepRequests,
           ListenRequests, AbandonRequests

(* A request that waits gets its answer, but where a size was left unsent. *)
LEMMA RequestHasAnswer ==
  ASSUME Base, RequestsOk, call.op \in Kinds, call.ph = "reply"
  PROVE  WaiterHasAnswer
<1>1. call.id \in DOMAIN chans /\ chans[call.id].req[call.op].st = "sent"
  BY DEF Base, Callers, Mine
<1>2. CASE call.id \in seen.sized
  BY <1>2 DEF WaiterHasAnswer
<1>3. CASE call.id \notin seen.sized
  <2>1. Cardinality(Sent(call.id)) <= Pending(call.id)
    BY <1>1, <1>3 DEF RequestsOk, CountedOk
  <2>2. Pending(call.id) # 0
    <3>1. Sent(call.id) \subseteq Kinds /\ call.op \in Sent(call.id)
      BY <1>1 DEF Sent
    <3>2. Cardinality(Sent(call.id)) \in Nat /\ Cardinality(Sent(call.id) \ {call.op}) \in Nat
          /\ Cardinality(Sent(call.id) \ {call.op}) = Cardinality(Sent(call.id)) - 1
      BY <3>1, SentCounts
    <3>3. Pending(call.id) \in Nat
      BY PendingNat
    <3> QED BY <2>1, <3>2, <3>3
  <2>3. \/ \E x \in ToSet(server) : x.kind = "request" /\ x.id = call.id
        \/ \E x \in ToSet(brigade) : x.t \in {"success", "failure"} /\ x.id = call.id
    BY <2>2, Sequences, PendingNone DEF Pending
  <2>4. CASE \E x \in ToSet(server) : x.id = call.id
    BY <2>4 DEF ToSet, WaiterHasAnswer
  <2>5. CASE \E x \in ToSet(brigade) : x.t \in {"success", "failure"} /\ x.id = call.id
    <3>1. PICK i \in DOMAIN brigade : brigade[i].t \in {"success", "failure"} /\ brigade[i].id = call.id
      BY <2>5 DEF ToSet
    <3>2. call.op \notin Opens /\ call.op # "listen"
      BY OthersApart, OpsApart
    <3>3. Wanted = {"success", "failure"}
      BY <3>2 DEF Wanted
    <3> QED BY <3>1, <3>2, <3>3 DEF Found, IsAnswer, WaiterHasAnswer
  <2> QED BY <2>3, <2>4, <2>5
<1> QED BY <1>2, <1>3

-----------------------------------------------------------------------------
(* All of it, which every step of the channels preserves. *)
ChannelsOk ==
  /\ Base /\ NumbersOk /\ ClosesOk /\ StrayOk /\ StartedOk
  /\ OwnOpensOk /\ ListenOk /\ RequestsOk

(* It holds at the beginning, *)
LEMMA InitChannels ==
  ASSUME Init
  PROVE  ChannelsOk
BY InitBase, InitNumbers, InitCloses, InitStray, InitStarted, InitOwnOpens, InitListen, InitRequests
   DEF ChannelsOk

(* every step keeps it, *)
LEMMA StepChannels ==
  ASSUME ChannelsOk, [Next]_vars
  PROVE  ChannelsOk'
<1>1. Base'
  BY StepBase DEF ChannelsOk
<1> QED BY <1>1, StepNumbers, StepCloses, StepStray, StepStarted, StepOwnOpens, StepListen, StepRequests
        DEF ChannelsOk

(* and the four properties follow. *)
LEMMA ChannelsAre ==
  ASSUME ChannelsOk
  PROVE  Inv /\ OwnAnswers /\ NoStrayChannel /\ AskedOnceAndAnswered
<1>1. OwnAnswers
  BY DEF ChannelsOk, OwnAnswers, RequestsOk, RepliesOk, OwnOpensOk, ListenOk
<1>2. WaiterHasAnswer
  <2>1. CASE call.op \in Kinds \cup Opens \cup {"listen"} /\ call.ph = "reply"
    BY <2>1, RequestHasAnswer, OpenHasAnswer, ListenHasAnswer DEF ChannelsOk
  <2>2. CASE ~(call.op \in Kinds \cup Opens \cup {"listen"} /\ call.ph = "reply")
    BY <2>2 DEF WaiterHasAnswer
  <2> QED BY <2>1, <2>2
<1> QED BY <1>1, <1>2, InvHolds, StrayKnown DEF ChannelsOk, StartedOk, StartedOnce, AskedOnceAndAnswered

(* A call gets the reply to its own request: what it is told is what the server said of
   the packet that call built, under the channel it was for, if no open, request or
   forwarding of the same kind was given up before it (session_startup and the calls of
   channel.c take whatever reply with the right tag comes first). *)
THEOREM OwnAnswersCorrect == Spec => []OwnAnswers
<1>1. ChannelsOk => OwnAnswers
  BY ChannelsAre
<1> QED BY <1>1, InitChannels, StepChannels, PTL DEF Spec

(* A request is made once and answered: a program is started once on a channel, however
   often its call is interrupted, and a call that waits has its reply on the way or
   read, so that it does not wait for what never comes. *)
THEOREM AskedOnceCorrect == Spec => []AskedOnceAndAnswered
<1>1. ChannelsOk => AskedOnceAndAnswered
  BY ChannelsAre
<1> QED BY <1>1, InitChannels, StepChannels, PTL DEF Spec

=============================================================================
