------------------------ MODULE SshStream_proofs ------------------------
(* Proofs about SshStream: whatever the application calls, is interrupted in and
   leaves off, the library and the server agree on both windows (TypeCorrect),
   the receive window neither grows without bound nor dries up (WindowMoves), the
   bytes of both directions arrive in order and wholly before the end
   (BytesArrive), and a channel ends on both sides and takes no half-sent packet
   with it (CloseCorrect).

   The functions of the queue are folds: lemmas say what they do to an empty
   queue and to one packet more, and induction over sequences gives what a read
   takes and a flush drops.  Then come the parts of the invariant, in the order
   they rest on one another: the types of the state (Ready), the ends and the
   half-sent packet (Clean), the windows (Windows), and the place of the
   application in the streams (Bytes). *)
EXTENDS SshStream, CommonLemmas

-----------------------------------------------------------------------------
(* What the folds over the queue compute. *)

UnreadBy == [x \in Nat \X Packets |-> x[1] + x[2].left]

\* What is unread is the sum over the queue, from its head.
LEMMA UnreadRun ==
    ASSUME NEW q \in Seq(Packets)
    PROVE  FoldsTo(Unread(q), Nat, 0, UnreadBy, Len(q), q)
<1> DEFINE n == Len(q)
           Run(g) == g = [s \in SUBSET DOMAIN q |->
                            IF s = {} THEN 0 ELSE g[s \ {Max(s)}] + q[Max(s)].left]
           g == CHOOSE g : Run(g)
<1>1. n \in Nat /\ DOMAIN q = 1 .. n /\ q \in [1 .. n -> Packets]
  OBVIOUS
<1>2. UnreadBy \in [Nat \X Packets -> Nat] /\ 0 \in Nat
  BY DEF UnreadBy, Packets
<1>3. \A a \in Nat, p \in Packets : UnreadBy[<<a, p>>] = a + p.left
  BY DEF UnreadBy
<1>4. \A s \in SUBSET (1 .. n) : s # {} => Max(s) \in 1 .. n /\ s \ {Max(s)} \in SUBSET (1 .. n)
  BY <1>1, LargestIn
<1>5. PICK f : SetFold(f, Nat, 0, UnreadBy, n, q)
  <2> HIDE DEF n
  <2> QED BY <1>1, <1>2, FoldExists
<1>6. \A s \in SUBSET (1 .. n) :
        f[s] = IF s = {} THEN 0 ELSE f[s \ {Max(s)}] + q[Max(s)].left
  BY <1>1, <1>3, <1>4, <1>5 DEF SetFold
<1>7. Run(f)
  BY <1>1, <1>5, <1>6 DEF SetFold
<1>8. Run(g)
  BY <1>7
<1>9. Unread(q) = g[DOMAIN q]
  BY Zenon DEF Unread, FoldLeft, MapThenFoldSet
<1>10. Steps(g, Nat, 0, UnreadBy, n, q)
  BY <1>1, <1>3, <1>4, <1>8 DEF Steps
<1>11. FoldsTo(g[1 .. n], Nat, 0, UnreadBy, n, q)
  <2> HIDE DEF g, n
  <2> QED BY <1>1, <1>2, <1>10, FoldPrefixes
<1> HIDE DEF g
<1> QED BY <1>1, <1>9, <1>11

(* What a read takes: pieces of packets. *)
Pieces == [s : Streams, at : Nat, n : Nat \ {0}]
Takes == [want : Nat, rest : Seq(Packets), bytes : Seq(Pieces)]
TakeBy(s) == [x \in Takes \X Packets |-> Take(x[1], x[2], Taken(x[1], x[2], s))]

\* The lesser of two numbers.
LEMMA LeastOf ==
    ASSUME NEW a \in Int, NEW b \in Int
    PROVE  Min({a, b}) = IF a <= b THEN a ELSE b
<1>1. \E m \in {a, b} : \A k \in {a, b} : m <= k
  OBVIOUS
<1>2. \A m \in {a, b} : (\A k \in {a, b} : m <= k) => m = IF a <= b THEN a ELSE b
  OBVIOUS
<1> QED BY <1>1, <1>2 DEF Min

\* A read takes what the packet has or what it still wants, of a stream it reads.
LEMMA TakenIs ==
    ASSUME NEW a \in Takes, NEW p \in Packets, NEW s
    PROVE  /\ Taken(a, p, s) \in Nat /\ Taken(a, p, s) <= p.left /\ Taken(a, p, s) <= a.want
           /\ Taken(a, p, s) # p.left /\ Wanted(p, s) => Taken(a, p, s) = a.want
           /\ ~ Wanted(p, s) => Taken(a, p, s) = 0
<1>1. a.want \in Nat /\ p.left \in Nat
  BY DEF Takes, Packets
<1>2. Min({p.left, a.want}) = IF p.left <= a.want THEN p.left ELSE a.want
  BY <1>1, LeastOf
<1> QED BY <1>1, <1>2 DEF Taken

\* What is left of a packet is a packet.
LEMMA TakeIn ==
    ASSUME NEW a \in Takes, NEW p \in Packets, NEW k \in Nat, k <= p.left, k <= a.want
    PROVE  Take(a, p, k) \in Takes
<1>1. a.want - k \in Nat
  BY DEF Takes, Packets
<1>2. k # p.left => Append(a.rest, [p EXCEPT !.at = @ + k, !.left = @ - k]) \in Seq(Packets)
  <2>1. /\ p.s \in Streams /\ p.at + k \in Nat /\ p.size \in Nat
        /\ k # p.left => p.left - k \in Nat \ {0}
    BY DEF Packets
  <2>2. k # p.left => [p EXCEPT !.at = @ + k, !.left = @ - k] \in Packets
    BY <2>1 DEF Packets
  <2> QED BY <2>2 DEF Takes
<1>3. k # 0 => Append(a.bytes, [s |-> p.s, at |-> p.at, n |-> k]) \in Seq(Pieces)
  <2>1. k # 0 => [s |-> p.s, at |-> p.at, n |-> k] \in Pieces
    BY DEF Packets, Pieces
  <2> QED BY <2>1 DEF Takes
<1>4. a.rest \in Seq(Packets) /\ a.bytes \in Seq(Pieces)
  BY DEF Takes
<1> QED BY <1>1, <1>2, <1>3, <1>4 DEF Take, Takes

\* A read takes from the packets one after the other.
LEMMA TakeRun ==
    ASSUME NEW q \in Seq(Packets), NEW s, NEW k \in Nat
    PROVE  FoldsTo(TakeFrom(q, s, k), Takes, [want |-> k, rest |-> <<>>, bytes |-> <<>>],
                   TakeBy(s), Len(q), q)
<1> DEFINE n == Len(q)
           base == [want |-> k, rest |-> <<>>, bytes |-> <<>>]
           Run(g) == g = [z \in SUBSET DOMAIN q |->
                            IF z = {} THEN base
                            ELSE Take(g[z \ {Max(z)}], q[Max(z)],
                                      Taken(g[z \ {Max(z)}], q[Max(z)], s))]
           g == CHOOSE g : Run(g)
<1>1. n \in Nat /\ DOMAIN q = 1 .. n /\ q \in [1 .. n -> Packets]
  OBVIOUS
<1>2. TakeBy(s) \in [Takes \X Packets -> Takes] /\ base \in Takes
  <2>1. \A a \in Takes, p \in Packets : Take(a, p, Taken(a, p, s)) \in Takes
    BY TakenIs, TakeIn
  <2>2. base \in Takes
    BY EmptySeq DEF Takes
  <2> HIDE DEF base
  <2> QED BY <2>1, <2>2 DEF TakeBy
<1>3. \A a \in Takes, p \in Packets : TakeBy(s)[<<a, p>>] = Take(a, p, Taken(a, p, s))
  BY DEF TakeBy
<1>4. \A z \in SUBSET (1 .. n) : z # {} =>
        /\ Max(z) \in 1 .. n /\ z \ {Max(z)} \in SUBSET (1 .. n) /\ q[Max(z)] \in Packets
  BY <1>1, LargestIn
<1>5. PICK f : SetFold(f, Takes, base, TakeBy(s), n, q)
  <2> HIDE DEF n, base
  <2> QED BY <1>1, <1>2, FoldExists
<1>6. Run(f)
  <2>1. f \in [SUBSET DOMAIN q -> Takes]
    BY <1>1, <1>5 DEF SetFold
  <2>2. \A z \in SUBSET DOMAIN q :
          f[z] = IF z = {} THEN base
                 ELSE Take(f[z \ {Max(z)}], q[Max(z)], Taken(f[z \ {Max(z)}], q[Max(z)], s))
    <3> HIDE DEF base
    <3> QED BY <1>1, <1>3, <1>4, <1>5, <2>1 DEF SetFold
  <2> HIDE DEF base
  <2> QED BY <2>1, <2>2
<1>7. Run(g)
  BY <1>6
<1>8. TakeFrom(q, s, k) = g[DOMAIN q]
  BY Zenon DEF TakeFrom, FoldLeft, MapThenFoldSet
<1>9. Steps(g, Takes, base, TakeBy(s), n, q)
  <2>1. \A z \in SUBSET (1 .. n) :
          g[z] = IF z = {} THEN base
                 ELSE Take(g[z \ {Max(z)}], q[Max(z)], Taken(g[z \ {Max(z)}], q[Max(z)], s))
    <3> HIDE DEF g, base, n
    <3> QED BY <1>1, <1>7
  <2> HIDE DEF g, n, base, Run
  <2> QED BY <1>3, <1>4, <2>1 DEF Steps
<1>10. FoldsTo(g[1 .. n], Takes, base, TakeBy(s), n, q)
  <2> HIDE DEF g, n, base
  <2> QED BY <1>1, <1>2, <1>9, FoldPrefixes
<1> HIDE DEF g
<1> QED BY <1>1, <1>8, <1>10

(* What a flush makes of a packet. *)
Flushes(a, p, which) ==
  IF Flushable(p, which) THEN Discard(a, p) ELSE [a EXCEPT !.kept = Append(@, p)]
Leaves == [kept : Seq(Packets), gone : SUBSET Streams, bytes : Nat, refund : Int]
FlushBy(which) == [x \in Leaves \X Packets |-> Flushes(x[1], x[2], which)]
Nothing == [kept |-> <<>>, gone |-> {}, bytes |-> 0, refund |-> 0]

\* It counts the packet or keeps it.
LEMMA FlushesIn ==
    ASSUME NEW a \in Leaves, NEW p \in Packets, NEW which
    PROVE  Flushes(a, p, which) \in Leaves
<1>1. p.left \in Nat /\ p.s \in Streams /\ p.size \in Nat
  BY DEF Packets
<1>2. a.bytes + p.left \in Nat /\ a.gone \cup {p.s} \in SUBSET Streams
  BY <1>1 DEF Leaves
<1>3. a.refund + p.size - (IF p.s = 0 THEN Missing ELSE 0) \in Int
  BY <1>1, StreamAssumption DEF Leaves
<1>4. Discard(a, p) \in Leaves
  BY <1>2, <1>3 DEF Discard, Leaves
<1>5. Append(a.kept, p) \in Seq(Packets)
  BY DEF Leaves
<1>6. [a EXCEPT !.kept = Append(@, p)] \in Leaves
  BY <1>5 DEF Leaves
<1> QED BY <1>4, <1>6 DEF Flushes

\* A flush goes through the packets one after the other.
LEMMA FlushRun ==
    ASSUME NEW q \in Seq(Packets), NEW which
    PROVE  FoldsTo(Flushed(q, which), Leaves, Nothing, FlushBy(which), Len(q), q)
<1> DEFINE n == Len(q)
           base == Nothing
           Run(g) == g = [z \in SUBSET DOMAIN q |->
                            IF z = {} THEN base ELSE Flushes(g[z \ {Max(z)}], q[Max(z)], which)]
           g == CHOOSE g : Run(g)
<1>1. n \in Nat /\ DOMAIN q = 1 .. n /\ q \in [1 .. n -> Packets]
  OBVIOUS
<1>2. FlushBy(which) \in [Leaves \X Packets -> Leaves] /\ base \in Leaves
  <2>1. Nothing \in Leaves
    BY EmptySeq DEF Leaves, Nothing
  <2> HIDE DEF base
  <2> QED BY <2>1, FlushesIn DEF FlushBy, base
<1>3. \A a \in Leaves, p \in Packets : FlushBy(which)[<<a, p>>] = Flushes(a, p, which)
  BY DEF FlushBy
<1>4. \A z \in SUBSET (1 .. n) : z # {} =>
        /\ Max(z) \in 1 .. n /\ z \ {Max(z)} \in SUBSET (1 .. n) /\ q[Max(z)] \in Packets
  BY <1>1, LargestIn
<1>5. PICK f : SetFold(f, Leaves, base, FlushBy(which), n, q)
  <2> HIDE DEF n, base
  <2> QED BY <1>1, <1>2, FoldExists
<1>6. Run(f)
  <2>1. f \in [SUBSET DOMAIN q -> Leaves]
    BY <1>1, <1>5 DEF SetFold
  <2>2. \A z \in SUBSET DOMAIN q : f[z] = IF z = {} THEN base ELSE Flushes(f[z \ {Max(z)}], q[Max(z)], which)
    <3> HIDE DEF base
    <3> QED BY <1>1, <1>3, <1>4, <1>5, <2>1 DEF SetFold
  <2> HIDE DEF base
  <2> QED BY <2>1, <2>2
<1>7. Run(g)
  BY <1>6
<1>8. Flushed(q, which) = g[DOMAIN q]
  BY Zenon DEF Flushed, Flushes, Nothing, FoldLeft, MapThenFoldSet
<1>9. Steps(g, Leaves, base, FlushBy(which), n, q)
  <2>1. \A z \in SUBSET (1 .. n) : g[z] = IF z = {} THEN base ELSE Flushes(g[z \ {Max(z)}], q[Max(z)], which)
    <3> HIDE DEF g, base, n
    <3> QED BY <1>1, <1>7
  <2> HIDE DEF g, n, base, Run
  <2> QED BY <1>3, <1>4, <2>1 DEF Steps
<1>10. FoldsTo(g[1 .. n], Leaves, base, FlushBy(which), n, q)
  <2> HIDE DEF g, n, base
  <2> QED BY <1>1, <1>2, <1>9, FoldPrefixes
<1> HIDE DEF g
<1> QED BY <1>1, <1>8, <1>10

Positions == [Streams -> Nat \cup {-1}]
ReachBy == [x \in Positions \X Pieces |-> Reach(x[1], x[2])]

\* A piece moves the position of its stream.
LEMMA ReachIn ==
    ASSUME NEW a \in Positions, NEW b \in Pieces
    PROVE  /\ Reach(a, b) \in Positions
           /\ \A s \in Streams : Reach(a, b)[s] =
                IF s # b.s THEN a[s] ELSE IF b.at = a[s] THEN a[s] + b.n ELSE -1
<1>1. b.s \in Streams /\ b.at \in Nat /\ b.n \in Nat /\ a[b.s] \in Nat \cup {-1}
  BY DEF Pieces, Positions
<1>2. (IF b.at = a[b.s] THEN a[b.s] + b.n ELSE -1) \in Nat \cup {-1}
  BY <1>1
<1> QED BY <1>1, <1>2 DEF Reach, Positions

\* The application follows the pieces one after the other.
LEMMA FollowRun ==
    ASSUME NEW q \in Seq(Pieces), NEW read \in Positions
    PROVE  FoldsTo(Follow(read, q), Positions, read, ReachBy, Len(q), q)
<1> DEFINE n == Len(q)
           base == read
           Run(g) == g = [z \in SUBSET DOMAIN q |->
                            IF z = {} THEN base ELSE Reach(g[z \ {Max(z)}], q[Max(z)])]
           g == CHOOSE g : Run(g)
<1>1. n \in Nat /\ DOMAIN q = 1 .. n /\ q \in [1 .. n -> Pieces]
  OBVIOUS
<1>2. ReachBy \in [Positions \X Pieces -> Positions] /\ base \in Positions
  BY ReachIn DEF ReachBy
<1>3. \A a \in Positions, p \in Pieces : ReachBy[<<a, p>>] = Reach(a, p)
  BY DEF ReachBy
<1>4. \A z \in SUBSET (1 .. n) : z # {} =>
        /\ Max(z) \in 1 .. n /\ z \ {Max(z)} \in SUBSET (1 .. n) /\ q[Max(z)] \in Pieces
  BY <1>1, LargestIn
<1>5. PICK f : SetFold(f, Positions, base, ReachBy, n, q)
  <2> HIDE DEF n, base
  <2> QED BY <1>1, <1>2, FoldExists
<1>6. Run(f)
  <2>1. f \in [SUBSET DOMAIN q -> Positions]
    BY <1>1, <1>5 DEF SetFold
  <2>2. \A z \in SUBSET DOMAIN q : f[z] = IF z = {} THEN base ELSE Reach(f[z \ {Max(z)}], q[Max(z)])
    <3> HIDE DEF base
    <3> QED BY <1>1, <1>3, <1>4, <1>5, <2>1 DEF SetFold
  <2> HIDE DEF base
  <2> QED BY <2>1, <2>2
<1>7. Run(g)
  BY <1>6
<1>8. Follow(read, q) = g[DOMAIN q]
  BY Zenon DEF Follow, FoldLeft, MapThenFoldSet
<1>9. Steps(g, Positions, base, ReachBy, n, q)
  <2>1. \A z \in SUBSET (1 .. n) : g[z] = IF z = {} THEN base ELSE Reach(g[z \ {Max(z)}], q[Max(z)])
    <3> HIDE DEF g, base, n
    <3> QED BY <1>1, <1>7
  <2> HIDE DEF g, n, base, Run
  <2> QED BY <1>3, <1>4, <2>1 DEF Steps
<1>10. FoldsTo(g[1 .. n], Positions, base, ReachBy, n, q)
  <2> HIDE DEF g, n, base
  <2> QED BY <1>1, <1>2, <1>9, FoldPrefixes
<1> HIDE DEF g
<1> QED BY <1>1, <1>8, <1>10

\* The sum of nothing is nothing; a packet more adds its bytes.
LEMMA UnreadIs ==
    /\ Unread(<<>>) = 0
    /\ \A q \in Seq(Packets) :
         /\ Unread(q) \in Nat
         /\ \A p \in Packets : Unread(Append(q, p)) = Unread(q) + p.left
<1>1. UnreadBy \in [Nat \X Packets -> Nat] /\ 0 \in Nat
  BY DEF UnreadBy, Packets
<1>2. Unread(<<>>) = 0
  <2>1. <<>> \in Seq(Packets) /\ Len(<<>>) = 0
    BY EmptySeq
  <2>2. FoldsTo(Unread(<<>>), Nat, 0, UnreadBy, 0, <<>>)
    BY <2>1, UnreadRun
  <2> QED BY <2>2, FoldEmpty
<1>3. ASSUME NEW q \in Seq(Packets), NEW p \in Packets
      PROVE  Unread(q) \in Nat /\ Unread(Append(q, p)) = Unread(q) + p.left
  <2> DEFINE r == Append(q, p)
  <2>1. /\ r \in Seq(Packets) /\ Len(q) \in Nat /\ Len(r) = Len(q) + 1
        /\ r[Len(r)] = p /\ \A i \in 1 .. Len(q) : q[i] = r[i]
    BY AppendIs
  <2> HIDE DEF r
  <2>2. /\ FoldsTo(Unread(q), Nat, 0, UnreadBy, Len(q), q)
        /\ FoldsTo(Unread(r), Nat, 0, UnreadBy, Len(r), r)
    BY <2>1, UnreadRun
  <2>3. Unread(q) \in Nat /\ Unread(r) = UnreadBy[<<Unread(q), p>>]
    <3>2. Unread(q) \in Nat
      BY <2>1, <2>2, FoldIn
    <3>4. Unread(r) = UnreadBy[<<Unread(q), p>>]
      BY ONLY <2>1, <2>2, FoldStep
    <3> QED BY <3>2, <3>4
  <2> QED BY <2>3 DEF UnreadBy, r
<1>4. [s |-> 0, at |-> 0, left |-> 1, size |-> 0] \in Packets
  BY DEF Packets, Streams
<1> QED BY <1>2, <1>3, <1>4

\* Whatever is queued has something to read.
LEMMA UnreadNone ==
    ASSUME NEW q \in Seq(Packets), Unread(q) = 0
    PROVE  q = <<>>
<1> DEFINE T == {r \in Seq(Packets) : r # <<>> => Unread(r) > 0}
<1>1. <<>> \in T
  BY EmptySeq
<1>2. ASSUME NEW r \in T \cap Seq(Packets), NEW p \in Packets
      PROVE  Append(r, p) \in T
  <2>1. Unread(r) \in Nat /\ Unread(Append(r, p)) = Unread(r) + p.left /\ p.left \in Nat \ {0}
    BY UnreadIs DEF Packets
  <2>2. Append(r, p) \in Seq(Packets) /\ Unread(Append(r, p)) > 0
    BY <2>1
  <2> QED BY <2>2
<1>3. Seq(Packets) \subseteq T
  <2> HIDE DEF T
  <2> QED BY <1>1, <1>2, SequenceInduction
<1> QED BY <1>3

Untaken(k) == [want |-> k, rest |-> <<>>, bytes |-> <<>>]

\* What a read takes, packet by packet.
LEMMA TakeIs ==
    ASSUME NEW s, NEW k \in Nat
    PROVE  /\ TakeFrom(<<>>, s, k) = Untaken(k)
           /\ \A q \in Seq(Packets) :
                /\ TakeFrom(q, s, k) \in Takes
                /\ \A p \in Packets : TakeFrom(Append(q, p), s, k) =
                     Take(TakeFrom(q, s, k), p, Taken(TakeFrom(q, s, k), p, s))
<1>1. TakeBy(s) \in [Takes \X Packets -> Takes] /\ Untaken(k) \in Takes
  <2>1. \A a \in Takes, p \in Packets : Take(a, p, Taken(a, p, s)) \in Takes
    BY TakenIs, TakeIn
  <2>2. Untaken(k) \in Takes
    BY EmptySeq DEF Takes, Untaken
  <2> QED BY <2>1, <2>2 DEF TakeBy
<1>2. TakeFrom(<<>>, s, k) = Untaken(k)
  <2>1. <<>> \in Seq(Packets) /\ Len(<<>>) = 0
    BY EmptySeq
  <2>2. FoldsTo(TakeFrom(<<>>, s, k), Takes, Untaken(k), TakeBy(s), 0, <<>>)
    BY <2>1, TakeRun DEF Untaken
  <2> QED BY <2>2, FoldEmpty
<1>3. ASSUME NEW q \in Seq(Packets), NEW p \in Packets
      PROVE  /\ TakeFrom(q, s, k) \in Takes
             /\ TakeFrom(Append(q, p), s, k) =
                  Take(TakeFrom(q, s, k), p, Taken(TakeFrom(q, s, k), p, s))
  <2> DEFINE r == Append(q, p)
  <2>1. /\ r \in Seq(Packets) /\ Len(q) \in Nat /\ Len(r) = Len(q) + 1
        /\ r[Len(r)] = p /\ \A i \in 1 .. Len(q) : q[i] = r[i]
    BY AppendIs
  <2> HIDE DEF r
  <2>2. /\ FoldsTo(TakeFrom(q, s, k), Takes, Untaken(k), TakeBy(s), Len(q), q)
        /\ FoldsTo(TakeFrom(r, s, k), Takes, Untaken(k), TakeBy(s), Len(r), r)
    BY <2>1, TakeRun DEF Untaken
  <2>3. /\ TakeFrom(q, s, k) \in Takes
        /\ TakeFrom(r, s, k) = TakeBy(s)[<<TakeFrom(q, s, k), p>>]
    <3>2. TakeFrom(q, s, k) \in Takes
      BY <2>1, <2>2, FoldIn
    <3>4. TakeFrom(r, s, k) = TakeBy(s)[<<TakeFrom(q, s, k), p>>]
      BY ONLY <2>1, <2>2, FoldStep
    <3> QED BY <3>2, <3>4
  <2> QED BY <2>3 DEF TakeBy, r
<1>4. [s |-> 0, at |-> 0, left |-> 1, size |-> 0] \in Packets
  BY DEF Packets, Streams
<1> QED BY <1>2, <1>3, <1>4

\* What is taken is no more than wanted, and leaves the queue.
LEMMA TakeSum ==
    ASSUME NEW s, NEW k \in Nat, NEW q \in Seq(Packets)
    PROVE  /\ TakeFrom(q, s, k).want <= k
           /\ Unread(TakeFrom(q, s, k).rest) = Unread(q) - (k - TakeFrom(q, s, k).want)
<1> DEFINE t(r) == TakeFrom(r, s, k)
           T == {r \in Seq(Packets) : /\ t(r).want <= k
                                      /\ Unread(t(r).rest) = Unread(r) - (k - t(r).want)}
<1>1. <<>> \in T
  BY EmptySeq, TakeIs, UnreadIs DEF Untaken
<1>2. ASSUME NEW r \in T \cap Seq(Packets), NEW p \in Packets
      PROVE  Append(r, p) \in T
  <2> DEFINE a == t(r)  m == Taken(a, p, s)  b == t(Append(r, p))
  <2>1. a \in Takes /\ b = Take(a, p, m)
    BY TakeIs
  <2>2. m \in Nat /\ m <= p.left /\ m <= a.want /\ a.want \in Nat /\ p.left \in Nat \ {0}
    <3> HIDE DEF a
    <3> QED BY <2>1, TakenIs DEF Takes, Packets
  <2>3. b.want = a.want - m
    <3> HIDE DEF a, m, b
    <3> QED BY <2>1 DEF Take
  <2>4. Unread(b.rest) = Unread(a.rest) + p.left - m
    <3> HIDE DEF a, m, b
    <3>1. a.rest \in Seq(Packets) /\ Unread(a.rest) \in Nat
      BY <2>1, UnreadIs DEF Takes
    <3>2. CASE m = p.left
      BY <2>1, <2>2, <3>1, <3>2 DEF Take
    <3>3. CASE m # p.left
      <4> DEFINE r2 == [p EXCEPT !.at = @ + m, !.left = @ - m]
      <4>1. p.left - m \in Nat \ {0} /\ p.at + m \in Nat
        BY <2>2, <3>3 DEF Packets
      <4>2. r2 \in Packets /\ r2.left = p.left - m
        BY <4>1 DEF Packets
      <4>3. b.rest = Append(a.rest, r2)
        BY <2>1, <3>3 DEF Take
      <4> HIDE DEF r2
      <4> QED BY <2>2, <3>1, <4>2, <4>3, UnreadIs
    <3> QED BY <3>2, <3>3
  <2>5. /\ Append(r, p) \in Seq(Packets) /\ Unread(r) \in Nat
        /\ Unread(Append(r, p)) = Unread(r) + p.left
    BY UnreadIs
  <2>6. a.want <= k /\ Unread(a.rest) = Unread(r) - (k - a.want)
    OBVIOUS
  <2>7. b.want <= k /\ Unread(b.rest) = Unread(Append(r, p)) - (k - b.want)
    <3> HIDE DEF a, m, b
    <3> QED BY <2>2, <2>3, <2>4, <2>5, <2>6
  <2> QED BY <2>5, <2>7
<1>3. Seq(Packets) \subseteq T
  <2> HIDE DEF T
  <2> QED BY <1>1, <1>2, SequenceInduction
<1> QED BY <1>3

\* What a flush drops, packet by packet.
LEMMA FlushIs ==
    ASSUME NEW which
    PROVE  /\ Flushed(<<>>, which) = Nothing
           /\ \A q \in Seq(Packets) :
                /\ Flushed(q, which) \in Leaves
                /\ \A p \in Packets :
                     Flushed(Append(q, p), which) = Flushes(Flushed(q, which), p, which)
<1>1. Flushed(<<>>, which) = Nothing
  <2>1. <<>> \in Seq(Packets) /\ Len(<<>>) = 0
    BY EmptySeq
  <2>2. FoldsTo(Flushed(<<>>, which), Leaves, Nothing, FlushBy(which), 0, <<>>)
    BY <2>1, FlushRun
  <2> QED BY <2>2, FoldEmpty
<1>2. ASSUME NEW q \in Seq(Packets), NEW p \in Packets
      PROVE  /\ Flushed(q, which) \in Leaves
             /\ Flushed(Append(q, p), which) = Flushes(Flushed(q, which), p, which)
  <2> DEFINE r == Append(q, p)
  <2>1. /\ r \in Seq(Packets) /\ Len(q) \in Nat /\ Len(r) = Len(q) + 1
        /\ r[Len(r)] = p /\ \A i \in 1 .. Len(q) : q[i] = r[i]
    BY AppendIs
  <2> HIDE DEF r
  <2>2. /\ FoldsTo(Flushed(q, which), Leaves, Nothing, FlushBy(which), Len(q), q)
        /\ FoldsTo(Flushed(r, which), Leaves, Nothing, FlushBy(which), Len(r), r)
    BY <2>1, FlushRun
  <2>3. Flushed(q, which) \in Leaves
    BY <2>1, <2>2, FoldIn
  <2>4. Flushed(r, which) = FlushBy(which)[<<Flushed(q, which), p>>]
    BY ONLY <2>1, <2>2, FoldStep
  <2> QED BY <2>3, <2>4 DEF FlushBy, r
<1>3. [s |-> 0, at |-> 0, left |-> 1, size |-> 0] \in Packets
  BY DEF Packets, Streams
<1> QED BY <1>1, <1>2, <1>3

\* What a flush counts leaves the queue; without a packet gone, nothing happens.
LEMMA FlushSum ==
    ASSUME NEW which, NEW q \in Seq(Packets)
    PROVE  LET f == Flushed(q, which) IN
           /\ f \in Leaves
           /\ Unread(f.kept) + f.bytes = Unread(q)
           /\ f.gone = {} => f.bytes = 0 /\ f.refund = 0
<1> DEFINE f(r) == Flushed(r, which)
           T == {r \in Seq(Packets) :
                  /\ Unread(f(r).kept) + f(r).bytes = Unread(r)
                  /\ f(r).gone = {} => f(r).bytes = 0 /\ f(r).refund = 0}
<1>1. <<>> \in T
  BY EmptySeq, FlushIs, UnreadIs DEF Nothing
<1>2. ASSUME NEW r \in T \cap Seq(Packets), NEW p \in Packets
      PROVE  Append(r, p) \in T
  <2> DEFINE a == f(r)  b == f(Append(r, p))
  <2>1. a \in Leaves /\ b = Flushes(a, p, which)
    BY FlushIs
  <2>2. /\ Unread(a.kept) + a.bytes = Unread(r)
        /\ a.gone = {} => a.bytes = 0 /\ a.refund = 0
    OBVIOUS
  <2>3. /\ Append(r, p) \in Seq(Packets) /\ Unread(r) \in Nat
        /\ Unread(Append(r, p)) = Unread(r) + p.left /\ p.left \in Nat
    <3>1. Append(r, p) \in Seq(Packets)
      OBVIOUS
    <3>2. p.left \in Nat
      BY DEF Packets
    <3> QED BY <3>1, <3>2, UnreadIs
  <2> HIDE DEF a, b
  <2>4. CASE Flushable(p, which)
    <3>1. b = Discard(a, p)
      BY <2>1, <2>4 DEF Flushes
    <3>2. b.kept = a.kept /\ b.bytes = a.bytes + p.left /\ b.gone # {}
      BY <2>1, <3>1 DEF Discard, Leaves
    <3>3. Unread(a.kept) \in Nat /\ a.bytes \in Nat
      BY <2>1, UnreadIs DEF Leaves
    <3>4. Unread(b.kept) + b.bytes = Unread(Append(r, p))
      BY <2>2, <2>3, <3>2, <3>3
    <3> QED BY <2>3, <3>2, <3>4 DEF b
  <2>5. CASE ~ Flushable(p, which)
    <3>1. b = [a EXCEPT !.kept = Append(@, p)]
      BY <2>1, <2>5 DEF Flushes
    <3>2. /\ b.kept = Append(a.kept, p) /\ b.bytes = a.bytes
          /\ b.gone = a.gone /\ b.refund = a.refund
      BY <2>1, <3>1 DEF Leaves
    <3>3. a.kept \in Seq(Packets) /\ Unread(a.kept) \in Nat /\ a.bytes \in Nat
      BY <2>1, UnreadIs DEF Leaves
    <3>4. Unread(b.kept) = Unread(a.kept) + p.left
      BY <3>2, <3>3, UnreadIs
    <3>5. Unread(b.kept) + b.bytes = Unread(Append(r, p))
      BY <2>2, <2>3, <3>2, <3>3, <3>4
    <3> QED BY <2>2, <2>3, <3>2, <3>5 DEF b
  <2> QED BY <2>4, <2>5
<1>3. Seq(Packets) \subseteq T
  <2> HIDE DEF T
  <2> QED BY <1>1, <1>2, SequenceInduction
<1>4. f(q) \in Leaves
  BY FlushIs
<1> QED BY <1>3, <1>4

\* What the application sees, piece by piece.
LEMMA FollowIs ==
    ASSUME NEW read \in Positions
    PROVE  /\ Follow(read, <<>>) = read
           /\ \A q \in Seq(Pieces) :
                /\ Follow(read, q) \in Positions
                /\ \A b \in Pieces : Follow(read, Append(q, b)) = Reach(Follow(read, q), b)
<1>1. Follow(read, <<>>) = read
  <2>1. <<>> \in Seq(Pieces) /\ Len(<<>>) = 0
    BY EmptySeq
  <2>2. FoldsTo(Follow(read, <<>>), Positions, read, ReachBy, 0, <<>>)
    BY <2>1, FollowRun
  <2> QED BY <2>2, FoldEmpty
<1>2. ASSUME NEW q \in Seq(Pieces), NEW p \in Pieces
      PROVE  /\ Follow(read, q) \in Positions
             /\ Follow(read, Append(q, p)) = Reach(Follow(read, q), p)
  <2> DEFINE r == Append(q, p)
  <2>1. /\ r \in Seq(Pieces) /\ Len(q) \in Nat /\ Len(r) = Len(q) + 1
        /\ r[Len(r)] = p /\ \A i \in 1 .. Len(q) : q[i] = r[i]
    BY AppendIs
  <2> HIDE DEF r
  <2>2. /\ FoldsTo(Follow(read, q), Positions, read, ReachBy, Len(q), q)
        /\ FoldsTo(Follow(read, r), Positions, read, ReachBy, Len(r), r)
    BY <2>1, FollowRun
  <2>3. Follow(read, q) \in Positions
    BY <2>1, <2>2, FoldIn
  <2>4. Follow(read, r) = ReachBy[<<Follow(read, q), p>>]
    BY ONLY <2>1, <2>2, FoldStep
  <2> QED BY <2>3, <2>4 DEF ReachBy, r
<1>3. [s |-> 0, at |-> 0, n |-> 1] \in Pieces
  BY DEF Pieces, Streams
<1> QED BY <1>1, <1>2, <1>3

(* Where the application will be when it has read all that is queued. *)
AsPiece(p) == [s |-> p.s, at |-> p.at, n |-> p.left]
Ahead(read, q) == Follow(read, [i \in DOMAIN q |-> AsPiece(q[i])])

\* What it will see, packet by packet.
LEMMA AheadIs ==
    ASSUME NEW read \in Positions
    PROVE  /\ Ahead(read, <<>>) = read
           /\ \A q \in Seq(Packets) :
                /\ Ahead(read, q) \in Positions
                /\ \A p \in Packets : Ahead(read, Append(q, p)) = Reach(Ahead(read, q), AsPiece(p))
<1>1. \A p \in Packets : AsPiece(p) \in Pieces
  BY DEF Packets, Pieces, AsPiece
<1>2. ASSUME NEW q \in Seq(Packets)
      PROVE  [i \in DOMAIN q |-> AsPiece(q[i])] \in Seq(Pieces)
  <2>1. Len(q) \in Nat /\ DOMAIN q = 1 .. Len(q) /\ \A i \in 1 .. Len(q) : q[i] \in Packets
    OBVIOUS
  <2>2. [i \in DOMAIN q |-> AsPiece(q[i])] \in [1 .. Len(q) -> Pieces]
    BY <1>1, <2>1
  <2> QED BY <2>1, <2>2, SeqDef
<1>3. ASSUME NEW q \in Seq(Packets), NEW p \in Packets
      PROVE  [i \in DOMAIN Append(q, p) |-> AsPiece(Append(q, p)[i])] =
             Append([i \in DOMAIN q |-> AsPiece(q[i])], AsPiece(p))
  <2> DEFINE r == Append(q, p)
             a == [i \in DOMAIN q |-> AsPiece(q[i])]
             b == [i \in DOMAIN r |-> AsPiece(r[i])]
  <2>1. /\ r \in Seq(Packets) /\ Len(q) \in Nat /\ Len(r) = Len(q) + 1
        /\ r[Len(r)] = p /\ \A i \in 1 .. Len(q) : q[i] = r[i]
        /\ DOMAIN q = 1 .. Len(q) /\ DOMAIN r = 1 .. Len(r)
    BY AppendIs
  <2> HIDE DEF r
  <2>2. a \in Seq(Pieces) /\ b \in Seq(Pieces) /\ AsPiece(p) \in Pieces
    BY <1>1, <1>2, <2>1
  <2>3. Len(a) = Len(q) /\ Len(b) = Len(q) + 1
    BY <2>1, <2>2, LenProperties
  <2>4. \A i \in 1 .. Len(q) : a[i] = AsPiece(q[i]) /\ b[i] = AsPiece(q[i])
    BY <2>1
  <2>5. b[Len(q) + 1] = AsPiece(p)
    BY <2>1
  <2> HIDE DEF a, b
  <2> DEFINE d == Append(a, AsPiece(p))
  <2>6. /\ d \in Seq(Pieces) /\ Len(d) = Len(q) + 1 /\ d[Len(q) + 1] = AsPiece(p)
        /\ \A i \in 1 .. Len(q) : d[i] = a[i]
    BY <2>1, <2>2, <2>3
  <2>7. \A i \in 1 .. Len(b) : b[i] = d[i]
    <3> HIDE DEF d
    <3> QED BY <2>1, <2>3, <2>4, <2>5, <2>6
  <2>8. b = d
    <3> HIDE DEF d
    <3> QED BY <2>2, <2>3, <2>6, <2>7, SeqEqual
  <2> QED BY <2>8 DEF a, b, r
<1>4. Ahead(read, <<>>) = read
  <2>1. [i \in DOMAIN <<>> |-> AsPiece(<<>>[i])] = <<>>
    <3>1. <<>> \in Seq(Packets)
      BY EmptySeq
    <3>2. [i \in DOMAIN <<>> |-> AsPiece(<<>>[i])] \in Seq(Pieces)
      BY <1>2, <3>1
    <3>3. DOMAIN <<>> = {}
      BY EmptySeq
    <3> QED BY <3>2, <3>3, EmptySeq, LenProperties
  <2> QED BY <2>1, FollowIs DEF Ahead
<1>5. ASSUME NEW q \in Seq(Packets), NEW p \in Packets
      PROVE  /\ Ahead(read, q) \in Positions
             /\ Ahead(read, Append(q, p)) = Reach(Ahead(read, q), AsPiece(p))
  <2> DEFINE a == [i \in DOMAIN q |-> AsPiece(q[i])]
             r == Append(q, p)
             b == [i \in DOMAIN r |-> AsPiece(r[i])]
  <2>1. a \in Seq(Pieces) /\ AsPiece(p) \in Pieces /\ b = Append(a, AsPiece(p))
    BY <1>1, <1>2, <1>3
  <2>2. Ahead(read, q) = Follow(read, a) /\ Ahead(read, r) = Follow(read, b)
    BY DEF Ahead
  <2> HIDE DEF a, b, r
  <2>3. Follow(read, a) \in Positions /\ Follow(read, b) = Reach(Follow(read, a), AsPiece(p))
    BY <2>1, FollowIs
  <2> QED BY <2>2, <2>3 DEF r
<1>6. [s |-> 0, at |-> 0, left |-> 1, size |-> 0] \in Packets
  BY DEF Packets, Streams
<1> QED BY <1>4, <1>5, <1>6

-----------------------------------------------------------------------------
(* Where the application will be when all that is queued is read. *)

\* A position in a stream depends on the packets of that stream alone: it moves
\* as the piece says, and not at all without one.
LEMMA ReachAt ==
    ASSUME NEW a \in Positions, NEW p \in Packets, NEW w \in Streams
    PROVE  /\ Reach(a, AsPiece(p)) \in Positions
           /\ a[w] \in Nat \cup {-1}
           /\ Reach(a, AsPiece(p))[w] =
                IF w # p.s THEN a[w] ELSE IF p.at = a[w] THEN a[w] + p.left ELSE -1
<1>1. AsPiece(p) \in Pieces /\ AsPiece(p).s = p.s /\ AsPiece(p).at = p.at /\ AsPiece(p).n = p.left
  BY DEF Packets, Pieces, AsPiece
<1>2. a[w] \in Nat \cup {-1}
  BY DEF Positions
<1> HIDE DEF AsPiece
<1> QED BY <1>1, <1>2, ReachIn

\* One packet more moves its own stream only, and by what it holds.
LEMMA AheadAt ==
    ASSUME NEW a \in Positions, NEW q \in Seq(Packets), NEW p \in Packets, NEW w \in Streams
    PROVE  /\ Append(q, p) \in Seq(Packets)
           /\ Ahead(a, q) \in Positions /\ Ahead(a, q)[w] \in Nat \cup {-1}
           /\ Ahead(a, Append(q, p))[w] =
                IF w # p.s THEN Ahead(a, q)[w]
                ELSE IF p.at = Ahead(a, q)[w] THEN Ahead(a, q)[w] + p.left ELSE -1
<1>1. Ahead(a, q) \in Positions /\ Ahead(a, Append(q, p)) = Reach(Ahead(a, q), AsPiece(p))
  BY AheadIs
<1>2. Append(q, p) \in Seq(Packets)
  OBVIOUS
<1> QED BY <1>1, <1>2, ReachAt

\* What is ahead in a stream depends on the place in that stream alone.
LEMMA AheadSame ==
    ASSUME NEW a \in Positions, NEW b \in Positions, NEW w \in Streams, a[w] = b[w],
           NEW q \in Seq(Packets)
    PROVE  Ahead(a, q)[w] = Ahead(b, q)[w]
<1> DEFINE T == {r \in Seq(Packets) : Ahead(a, r)[w] = Ahead(b, r)[w]}
<1>1. <<>> \in T
  BY EmptySeq, AheadIs
<1>2. ASSUME NEW r \in T \cap Seq(Packets), NEW p \in Packets
      PROVE  Append(r, p) \in T
  <2>1. Ahead(a, r)[w] = Ahead(b, r)[w]
    OBVIOUS
  <2> QED BY <2>1, AheadAt
<1>3. Seq(Packets) \subseteq T
  <2> HIDE DEF T
  <2> QED BY <1>1, <1>2, SequenceInduction
<1> QED BY <1>3

\* Without a packet of the stream, nothing is ahead in it.
LEMMA AheadNone ==
    ASSUME NEW a \in Positions, NEW w \in Streams, NEW q \in Seq(Packets),
           \A i \in DOMAIN q : q[i].s # w
    PROVE  Ahead(a, q)[w] = a[w]
<1> DEFINE T == {r \in Seq(Packets) :
                   (\A i \in DOMAIN r : r[i].s # w) => Ahead(a, r)[w] = a[w]}
<1>1. <<>> \in T
  BY EmptySeq, AheadIs
<1>2. ASSUME NEW r \in T \cap Seq(Packets), NEW p \in Packets
      PROVE  Append(r, p) \in T
  <2> DEFINE z == Append(r, p)
  <2>1. /\ z \in Seq(Packets) /\ Len(r) \in Nat /\ Len(z) = Len(r) + 1
        /\ z[Len(z)] = p /\ \A i \in 1 .. Len(r) : r[i] = z[i]
        /\ DOMAIN r = 1 .. Len(r) /\ DOMAIN z = 1 .. Len(z)
    BY AppendIs
  <2> SUFFICES ASSUME \A i \in DOMAIN z : z[i].s # w
               PROVE  Ahead(a, z)[w] = a[w]
    BY <2>1
  <2> HIDE DEF z
  <2>2. p.s # w /\ \A i \in DOMAIN r : r[i].s # w
    BY <2>1
  <2>3. Ahead(a, r)[w] = a[w]
    BY <2>2
  <2> QED BY <2>2, <2>3, AheadAt DEF z
<1>3. Seq(Packets) \subseteq T
  <2> HIDE DEF T
  <2> QED BY <1>1, <1>2, SequenceInduction
<1> QED BY <1>3

\* A gap stays.
LEMMA AheadLost ==
    ASSUME NEW a \in Positions, NEW w \in Streams, NEW q \in Seq(Packets), a[w] = -1
    PROVE  Ahead(a, q)[w] = -1
<1> DEFINE T == {r \in Seq(Packets) : Ahead(a, r)[w] = -1}
<1>1. <<>> \in T
  BY EmptySeq, AheadIs
<1>2. ASSUME NEW r \in T \cap Seq(Packets), NEW p \in Packets
      PROVE  Append(r, p) \in T
  <2>1. Ahead(a, r)[w] = -1 /\ p.at \in Nat
    BY DEF Packets
  <2>2. p.at # -1
    BY <2>1
  <2> QED BY <2>1, <2>2, AheadAt
<1>3. Seq(Packets) \subseteq T
  <2> HIDE DEF T
  <2> QED BY <1>1, <1>2, SequenceInduction
<1> QED BY <1>3

\* A flush is not noticed in the streams of which nothing is gone.
LEMMA FlushAhead ==
    ASSUME NEW which, NEW a \in Positions, NEW w \in Streams, NEW q \in Seq(Packets),
           w \notin Flushed(q, which).gone
    PROVE  Ahead(a, Flushed(q, which).kept)[w] = Ahead(a, q)[w]
<1> DEFINE f(r) == Flushed(r, which)
           T == {r \in Seq(Packets) :
                   w \notin f(r).gone => Ahead(a, f(r).kept)[w] = Ahead(a, r)[w]}
<1>1. <<>> \in T
  BY EmptySeq, FlushIs DEF Nothing
<1>2. ASSUME NEW r \in T \cap Seq(Packets), NEW p \in Packets
      PROVE  Append(r, p) \in T
  <2> DEFINE x == f(r)  z == Append(r, p)  y == f(z)
  <2>1. x \in Leaves /\ y = Flushes(x, p, which) /\ z \in Seq(Packets)
    <3>1. z \in Seq(Packets)
      OBVIOUS
    <3>2. x \in Leaves /\ y = Flushes(x, p, which)
      BY FlushIs
    <3> QED BY <3>1, <3>2
  <2>2. w \notin x.gone => Ahead(a, x.kept)[w] = Ahead(a, r)[w]
    OBVIOUS
  <2>3. Ahead(a, z)[w] = IF w # p.s THEN Ahead(a, r)[w]
                         ELSE IF p.at = Ahead(a, r)[w] THEN Ahead(a, r)[w] + p.left ELSE -1
    BY AheadAt
  <2> SUFFICES ASSUME w \notin y.gone PROVE Ahead(a, y.kept)[w] = Ahead(a, z)[w]
    BY <2>1
  <2> HIDE DEF x, y, z
  <2>4. CASE Flushable(p, which)
    <3>1. y = Discard(x, p)
      BY <2>1, <2>4 DEF Flushes
    <3>2. y.kept = x.kept /\ y.gone = x.gone \cup {p.s}
      BY <2>1, <3>1 DEF Discard, Leaves
    <3> QED BY <2>2, <2>3, <3>2
  <2>5. CASE ~ Flushable(p, which)
    <3>1. y = [x EXCEPT !.kept = Append(@, p)]
      BY <2>1, <2>5 DEF Flushes
    <3>2. y.kept = Append(x.kept, p) /\ y.gone = x.gone /\ x.kept \in Seq(Packets)
      BY <2>1, <3>1 DEF Leaves
    <3>3. Ahead(a, y.kept)[w] =
            IF w # p.s THEN Ahead(a, x.kept)[w]
            ELSE IF p.at = Ahead(a, x.kept)[w] THEN Ahead(a, x.kept)[w] + p.left ELSE -1
      BY <3>2, AheadAt
    <3> QED BY <2>2, <2>3, <3>2, <3>3
  <2> QED BY <2>4, <2>5
<1>3. Seq(Packets) \subseteq T
  <2> HIDE DEF T
  <2> QED BY <1>1, <1>2, SequenceInduction
<1> QED BY <1>3

\* A read that still wants bytes has left none of the streams it reads.
LEMMA TakeRest ==
    ASSUME NEW s, NEW k \in Nat, NEW w \in Streams, w = s \/ (s = 0 /\ c.merge),
           NEW q \in Seq(Packets), TakeFrom(q, s, k).want # 0
    PROVE  \A i \in DOMAIN TakeFrom(q, s, k).rest : TakeFrom(q, s, k).rest[i].s # w
<1> DEFINE t(r) == TakeFrom(r, s, k)
           Without(r) == \A i \in DOMAIN r : r[i].s # w
           T == {r \in Seq(Packets) : t(r).want # 0 => Without(t(r).rest)}
<1>1. <<>> \in T
  BY EmptySeq, TakeIs DEF Untaken
<1>2. ASSUME NEW r \in T \cap Seq(Packets), NEW p \in Packets
      PROVE  Append(r, p) \in T
  <2> DEFINE a == t(r)  z == Append(r, p)  b == t(z)  m == Taken(a, p, s)
  <2>1. z \in Seq(Packets)
    OBVIOUS
  <2>2. a \in Takes /\ b = Take(a, p, m)
    BY TakeIs
  <2>3. a.want # 0 => Without(a.rest)
    OBVIOUS
  <2> SUFFICES ASSUME b.want # 0 PROVE Without(b.rest)
    BY <2>1
  <2> HIDE DEF a, z, b
  <2>4. /\ m \in Nat /\ m <= p.left /\ m <= a.want /\ a.want \in Nat /\ p.left \in Nat \ {0}
        /\ m # p.left /\ Wanted(p, s) => m = a.want
        /\ ~ Wanted(p, s) => m = 0
    BY <2>2, TakenIs DEF Takes, Packets
  <2> HIDE DEF m
  <2>5. b.want = a.want - m
    BY <2>2 DEF Take
  <2>6. a.want # 0 /\ m # a.want
    BY <2>4, <2>5
  <2>7. a.rest \in Seq(Packets)
    BY <2>2 DEF Takes
  <2>8. CASE m = p.left
    BY <2>2, <2>3, <2>6, <2>8 DEF Take
  <2>9. CASE m # p.left
    <3> DEFINE v == [p EXCEPT !.at = @ + m, !.left = @ - m]
               y == Append(a.rest, v)
    <3>1. ~ Wanted(p, s) /\ p.s # w
      BY <2>4, <2>6, <2>9 DEF Wanted
    <3>2. b.rest = y
      BY <2>2, <2>9 DEF Take
    <3>3. v.s = p.s /\ v \in Packets
      <4>1. p.at + m \in Nat /\ p.left - m \in Nat \ {0}
        BY <2>4, <2>9 DEF Packets
      <4> QED BY <4>1 DEF Packets
    <3> HIDE DEF v
    <3>4. /\ y \in Seq(Packets) /\ Len(a.rest) \in Nat /\ Len(y) = Len(a.rest) + 1
          /\ y[Len(y)] = v /\ \A i \in 1 .. Len(a.rest) : a.rest[i] = y[i]
          /\ DOMAIN a.rest = 1 .. Len(a.rest) /\ DOMAIN y = 1 .. Len(y)
      BY <2>7, <3>3, AppendIs
    <3> HIDE DEF y
    <3>5. \A i \in DOMAIN a.rest : a.rest[i].s # w
      BY <2>3, <2>6
    <3>6. ASSUME NEW i \in DOMAIN y PROVE y[i].s # w
      <4>1. CASE i = Len(y)
        BY <3>1, <3>3, <3>4, <4>1
      <4>2. CASE i \in DOMAIN a.rest
        BY <3>4, <3>5, <4>2
      <4> QED BY <3>4, <4>1, <4>2
    <3> QED BY <3>2, <3>6
  <2> QED BY <2>8, <2>9
<1>3. Seq(Packets) \subseteq T
  <2> HIDE DEF T
  <2> QED BY <1>1, <1>2, SequenceInduction
<1> QED BY <1>3

\* A read moves the application along the queue: where it will be when all is read
\* stays the same.
LEMMA TakeAhead ==
    ASSUME NEW s, NEW k \in Nat, NEW w \in Streams, NEW q \in Seq(Packets),
           NEW read \in Positions, Ahead(read, q)[w] # -1
    PROVE  LET t == TakeFrom(q, s, k) IN Ahead(Follow(read, t.bytes), t.rest)[w] = Ahead(read, q)[w]
<1> DEFINE t(r) == TakeFrom(r, s, k)
           Place(r) == Ahead(Follow(read, t(r).bytes), t(r).rest)[w]
           T == {r \in Seq(Packets) : Ahead(read, r)[w] # -1 => Place(r) = Ahead(read, r)[w]}
<1>1. <<>> \in T
  BY EmptySeq, TakeIs, FollowIs DEF Untaken
<1>2. ASSUME NEW r \in T \cap Seq(Packets), NEW p \in Packets
      PROVE  Append(r, p) \in T
  <2> DEFINE a == t(r)  z == Append(r, p)  b == t(z)  m == Taken(a, p, s)
             was == Ahead(read, r)[w]
             pos == Follow(read, a.bytes)
             pos2 == Follow(read, b.bytes)
  <2>1. z \in Seq(Packets)
    OBVIOUS
  <2>2. a \in Takes /\ b = Take(a, p, m)
    BY TakeIs
  <2>3. was # -1 => Ahead(pos, a.rest)[w] = was
    OBVIOUS
  <2>4. Ahead(read, z)[w] = (IF w # p.s THEN was ELSE IF p.at = was THEN was + p.left ELSE -1)
        /\ was \in Nat \cup {-1}
    BY AheadAt
  <2> SUFFICES ASSUME Ahead(read, z)[w] # -1 PROVE Ahead(pos2, b.rest)[w] = Ahead(read, z)[w]
    BY <2>1
  <2> HIDE DEF a, z, b, was
  <2>5. was # -1 /\ (w = p.s => p.at = was)
    <3>1. p.at \in Nat /\ p.at # -1
      BY DEF Packets
    <3> QED BY <2>4, <3>1
  <2>6. /\ m \in Nat /\ m <= p.left /\ m <= a.want /\ a.want \in Nat /\ p.left \in Nat \ {0}
        /\ m # p.left /\ Wanted(p, s) => m = a.want
        /\ ~ Wanted(p, s) => m = 0
        /\ p.s \in Streams /\ p.at \in Nat
    BY <2>2, TakenIs DEF Takes, Packets
  <2>7. a.rest \in Seq(Packets) /\ a.bytes \in Seq(Pieces) /\ pos \in Positions
    <3>1. a.rest \in Seq(Packets) /\ a.bytes \in Seq(Pieces)
      BY <2>2 DEF Takes
    <3> QED BY <3>1, FollowIs
  <2> HIDE DEF m
  <2>8. CASE m = 0
    <3>1. b.bytes = a.bytes /\ b.rest = Append(a.rest, [p EXCEPT !.at = @ + m, !.left = @ - m])
      BY <2>2, <2>6, <2>8 DEF Take
    <3>2. [p EXCEPT !.at = @ + m, !.left = @ - m] = p
      <4>1. p.at + m = p.at /\ p.left - m = p.left
        BY <2>6, <2>8
      <4> QED BY <4>1 DEF Packets
    <3>3. b.rest = Append(a.rest, p) /\ pos2 = pos
      BY <3>1, <3>2
    <3> HIDE DEF pos, pos2, m
    <3> QED BY <2>3, <2>4, <2>5, <2>7, <3>3, AheadAt
  <2>9. CASE m # 0
    <3> DEFINE piece == [s |-> p.s, at |-> p.at, n |-> m]
               v == [p EXCEPT !.at = @ + m, !.left = @ - m]
    <3>1. piece \in Pieces
      BY <2>6, <2>9 DEF Pieces
    <3>2. pos2 = Reach(pos, piece)
      <4>1. b.bytes = Append(a.bytes, piece)
        BY <2>2, <2>9 DEF Take
      <4> HIDE DEF piece
      <4> QED BY <2>7, <3>1, <4>1, FollowIs
    <3>3. pos2 \in Positions /\ pos2[w] =
            (IF w # p.s THEN pos[w] ELSE IF p.at = pos[w] THEN pos[w] + m ELSE -1)
      <4>1. piece.s = p.s /\ piece.at = p.at /\ piece.n = m
        OBVIOUS
      <4> HIDE DEF piece, pos, pos2, m
      <4> QED BY <2>7, <3>1, <3>2, <4>1, ReachIn
    <3>4. b.rest = IF m = p.left THEN a.rest ELSE Append(a.rest, v)
      BY <2>2 DEF Take
    <3>5. m # p.left => v \in Packets /\ v.s = p.s /\ v.at = p.at + m /\ v.left = p.left - m
      <4>1. m # p.left => p.at + m \in Nat /\ p.left - m \in Nat \ {0}
        BY <2>6
      <4> QED BY <4>1 DEF Packets
    <3> HIDE DEF piece, v, pos, pos2
    <3>6. Wanted(p, s)
      BY <2>6, <2>9
    <3>7. CASE w # p.s
      <4>1. Ahead(pos2, a.rest)[w] = was
        BY <2>3, <2>5, <2>7, <3>3, <3>7, AheadSame
      <4>2. m # p.left => Ahead(pos2, Append(a.rest, v))[w] = was
        <5> HIDE DEF m
        <5> QED BY <2>7, <3>3, <3>5, <3>7, <4>1, AheadAt
      <4> QED BY <2>4, <3>4, <3>7, <4>1, <4>2
    <3>8. CASE w = p.s
      <4>1. \A i \in DOMAIN a.rest : a.rest[i].s # w
        <5>1. a.want # 0
          BY <2>6, <2>9
        <5>2. w = s \/ (s = 0 /\ c.merge)
          BY <3>6, <3>8 DEF Wanted
        <5> QED BY <5>1, <5>2, TakeRest DEF a
      <4>2. pos[w] = was /\ Ahead(pos2, a.rest)[w] = pos2[w]
        BY <2>3, <2>5, <2>7, <3>3, <4>1, AheadNone
      <4>3. pos2[w] = was + m
        BY <2>5, <3>3, <3>8, <4>2
      <4>4. Ahead(read, z)[w] = was + p.left
        BY <2>4, <2>5, <3>8
      <4>5. m # p.left => Ahead(pos2, Append(a.rest, v))[w] = was + p.left
        <5>1. was \in Nat
          BY <2>4, <2>5
        <5>2. pos2 \in Positions /\ Ahead(pos2, a.rest)[w] = was + m
          BY <3>3, <4>2, <4>3
        <5>3. SUFFICES ASSUME m # p.left
                       PROVE  Ahead(pos2, Append(a.rest, v))[w] = was + p.left
          OBVIOUS
        <5>4. v \in Packets /\ v.s = w /\ v.at = was + m /\ v.left = p.left - m
          BY <2>5, <3>5, <3>8, <5>3
        <5>5. Ahead(pos2, Append(a.rest, v))[w] = (was + m) + v.left
          BY <2>7, <5>2, <5>4, AheadAt
        <5> QED BY <2>6, <5>1, <5>4, <5>5
      <4> QED BY <3>4, <4>2, <4>3, <4>4, <4>5
    <3> QED BY <3>7, <3>8
  <2> QED BY <2>8, <2>9
<1>3. Seq(Packets) \subseteq T
  <2> HIDE DEF T
  <2> QED BY <1>1, <1>2, SequenceInduction
<1> QED BY <1>3

-----------------------------------------------------------------------------
(* The widths of the counters, and the least and greatest of a few numbers. *)

\* The widths of the counters: a value that fits is kept as it is.
LEMMA Widths ==
    /\ Mod \in Nat /\ Mod * Mod \in Nat /\ 1 < Mod /\ Mod <= Mod * Mod
    /\ \A x \in Int : U32(x) \in 0..(Mod - 1) /\ Size(x) \in 0..(Mod * Mod - 1)
    /\ \A x \in 0..(Mod - 1) : U32(x) = x /\ Size(x) = x
    /\ \A x \in Nat : U32(x) <= x
<1>1. Mod \in Nat /\ 1 < Mod
  BY StreamAssumption
<1>2. Mod * Mod \in Nat /\ Mod <= Mod * Mod
  BY <1>1
<1> DEFINE w == Mod * Mod
<1>3. w \in Nat /\ Mod <= w /\ \A x \in Int : Size(x) = x % w
  BY <1>2 DEF Size
<1> HIDE DEF w
<1>4. \A x \in Int : U32(x) \in 0..(Mod - 1) /\ Size(x) \in 0..(w - 1)
  <2>1. \A x \in Int, m \in Nat \ {0} : x % m \in 0..(m - 1)
    OBVIOUS
  <2>2. Mod \in Nat \ {0} /\ w \in Nat \ {0}
    BY <1>1, <1>3
  <2>3. \A x \in Int : x % Mod \in 0..(Mod - 1) /\ x % w \in 0..(w - 1)
    BY <2>1, <2>2
  <2> QED BY <1>3, <2>3 DEF U32
<1>5. \A x \in 0..(Mod - 1) : U32(x) = x /\ Size(x) = x
  BY <1>1, <1>3 DEF U32
<1>6. \A x \in Nat : U32(x) <= x
  BY <1>1 DEF U32
<1> QED BY <1>1, <1>3, <1>4, <1>5, <1>6 DEF w

\* The greater of two numbers.
LEMMA MostOf ==
    ASSUME NEW a \in Int, NEW b \in Int
    PROVE  Max({a, b}) = IF a <= b THEN b ELSE a
<1>1. \E m \in {a, b} : \A k \in {a, b} : k <= m
  OBVIOUS
<1>2. \A m \in {a, b} : (\A k \in {a, b} : k <= m) => m = IF a <= b THEN b ELSE a
  OBVIOUS
<1> QED BY <1>1, <1>2 DEF Max

\* The least of the three numbers that bound a write.
LEMMA LeastOfThree ==
    ASSUME NEW a \in Nat, NEW b \in Nat, NEW d \in Nat
    PROVE  LET m == Min({a, b, d}) IN m \in {a, b, d} /\ m \in Nat /\ m <= a /\ m <= b /\ m <= d
<1>1. \E m \in {a, b, d} : \A k \in {a, b, d} : m <= k
  OBVIOUS
<1>2. PICK m \in {a, b, d} : m = Min({a, b, d}) /\ \A k \in {a, b, d} : m <= k
  BY <1>1 DEF Min
<1> QED BY <1>2

-----------------------------------------------------------------------------
(* The parts of the invariant. *)

(* Calls have the arguments they were given, and a channel that is there. *)
CallInv ==
  /\ call.op = "read" => call.s \in Streams /\ call.n \in ReadSizes
  /\ call.op \in {"write", "window_adjust"} => call.n >= 1
  /\ call.ph \in {"adjust", "force adjust", "again"} => c.adj > 0
  /\ c.freed => call.op = "none" /\ c.lclose

(* How far each side has ended: what the library has noted is what was sent. *)
EndInv ==
  /\ c.leof <=> peer.geof
  /\ c.closing = "sent" => peer.gclose /\ c.leof
  /\ peer.gclose => c.leof /\ (c.closing = "sent" \/ c.lclose)
  /\ ~peer.twice
  /\ call.ph = "close" => c.leof /\ ~c.lclose /\ c.closing # "sent"
  /\ call.ph = "eof" /\ call.op # "send_eof" => ~c.leof
  /\ call.op \in {"close", "free"} /\ call.ph \in {"wait", "closed"} => c.closing = "sent"
  /\ call.ph = "closed" => ignored = 0
  /\ call.ph = "dispose" => c.lclose
  /\ c.lclose => peer.gclose /\ c.leof /\ c.closing = "idle" /\ (ignored # 0 => seen.late)
  /\ call.op = "wait_closed" => peer.eof
  /\ c.reof \/ c.rclose => peer.eof
  /\ peer.close => peer.eof
  /\ peer.eof => ignored = 0

(* The call that a part-sent packet waits for is still to be made. *)
Owner(half, chan, at) ==
  /\ half.type = "adjust" => chan.adj > 0
  /\ half.type = "data" => chan.wr > 0 /\ half.n = chan.wr /\ half.at = at
  /\ half.type = "close" => chan.closing = "created"
  /\ half.type = "eof" => ~chan.leof \/ half.by = "send_eof"
(* The calls that go on using a channel that may have been closed. *)
Reopens == {"read", "flush", "window_adjust", "wait_eof"}
PartInv ==
  /\ out # None => Owner(out, c, app.written)
  /\ CloseSent /\ out # None => seen.late \/ ignored > 0
  /\ call.op \in {"read", "flush", "window_adjust", "wait_eof"} /\ CloseSent => seen.late
  /\ call.op \in {"write", "send_eof"} /\ c.leof => seen.late

(* A write is not counted before its packet is out. *)
WriteInv ==
  /\ call.op = "write" => (call.ph = "send" <=> c.wr > 0)
  /\ c.wr <= c.lwin
  /\ c.lwin = PeerWindow - peer.owes
  /\ app.written = peer.got /\ (peer.wrong => seen.late)

(* Bytes a flush has dropped and not yet counted. *)
Pending == IF In("flush", "count") THEN c.flush.bytes ELSE 0
WindowInv ==
  ~seen.skewed =>
    /\ c.rwin = peer.credit + c.avail /\ Unread(queue) + Pending <= c.avail
    /\ ~c.freed => c.avail = Unread(queue) + Pending

(* Until the application widens the window or flushes, only reads adjust it. *)
ByHandInv ==
  ~seen.byHand =>
    /\ c.adjq = 0 /\ c.flush.refund = 0 /\ c.flush.bytes = 0
    /\ call.op # "window_adjust" /\ (call.op = "flush" => call.ph = "count")

(* What a read may have granted for data that was then ignored. *)
Extra == IF 1 \in seen.skipped THEN PacketMax ELSE 0
SkipInv == ignored > 0 => 1 \in seen.skipped
ReadInv ==
  /\ call.op = "read" /\ ~seen.skewed =>
     /\ call.ph \in {"force", "force adjust"} => c.rwin < call.n
     /\ call.ph = "adjust" => call.amt >= 1 /\ c.rwin <= Window + call.n
     /\ call.ph \in {"drain", "wait"} => c.rwin + ignored >= 1
  /\ call.op = "read" /\ ~seen.skewed /\ ~seen.byHand =>
     /\ call.ph = "force adjust" => call.amt = call.n
     /\ call.ph = "adjust" => c.rwin + call.amt <= Window + call.n + MinAdjust
GrantInv == ~seen.skewed /\ ~seen.byHand => c.rwin + ignored <= LargestGrant + Extra

(* What the application has read and what is queued make up what was sent. *)
ByteInv ==
  \A s \in Streams : s \notin seen.skipped /\ ~seen.skewed =>
    /\ app.read[s] # -1
    /\ ~c.freed => Ahead(app.read, queue)[s] = peer.sent[s]
    /\ s \in app.ended => app.read[s] = peer.sent[s]
EofInv == app.ended # {} => peer.eof

\* What the transport sends has its type.
LEMMA SendTypes ==
    ASSUME out \in Sent, peer \in Servers, NEW p \in Sent \ {None}
    PROVE  /\ CanSend(p) => OnWire(p) \in Sent \ {None} /\ OnWire(p).type = p.type
           /\ TransportSend(p) => peer' \in Servers /\ out' \in Sent
           /\ SendBlocks(p) /\ budget \in Budgets =>
                out' \in Sent /\ peer' \in Servers /\ budget' \in Budgets
<1>1. CanSend(p) => OnWire(p) \in Sent \ {None} /\ OnWire(p).type = p.type
  BY DEF CanSend, OnWire, Sent, None
<1>2. ASSUME NEW w \in Sent \ {None} PROVE Delivered(w) \in Servers
  <2>1. CASE w \in [type : {"adjust"}, n : Nat]
    BY <2>1 DEF Delivered, Servers
  <2>2. CASE w \in [type : {"data"}, at : Nat, n : Nat]
    <3>1. (peer.wrong \/ w.at # peer.got \/ peer.geof \/ peer.gclose) \in BOOLEAN
      BY Zenon
    <3>2. peer.got + w.n \in Nat /\ peer.owes + w.n \in Nat /\ w.type = "data"
      BY <2>2 DEF Servers
    <3>3. Delivered(w) = [peer EXCEPT !.got = @ + w.n, !.owes = @ + w.n,
                             !.wrong = @ \/ w.at # peer.got \/ peer.geof \/ peer.gclose]
      BY <3>2 DEF Delivered
    <3> QED BY <3>1, <3>2, <3>3 DEF Servers
  <2>3. CASE w \in [type : {"eof"}, by : {"send_eof", "close", "free"}]
    BY <2>3 DEF Delivered, Servers
  <2>4. CASE w \in [type : {"close"}]
    BY <2>4 DEF Delivered, Servers
  <2> QED BY <2>1, <2>2, <2>3, <2>4 DEF Sent
<1>3. TransportSend(p) => peer' \in Servers /\ out' \in Sent
  BY <1>1, <1>2 DEF TransportSend, Sent
<1>4. ASSUME SendBlocks(p), budget \in Budgets
      PROVE  out' \in Sent /\ peer' \in Servers /\ budget' \in Budgets
  BY <1>4 DEF SendBlocks, Spend, Budgets
<1> QED BY <1>1, <1>3, <1>4

\* An adjust that is built stays one to be sent.
LEMMA AdjustTypes ==
    ASSUME c \in Channels, NEW n \in Nat \ {0}
    PROVE  LET e == AdjustEnter(n) IN
           /\ e.chan \in Channels /\ e.chan.adj > 0 /\ e.amt \in Nat \ {0}
           /\ [type |-> "adjust", n |-> e.chan.adj] \in Sent \ {None}
           /\ \A amt \in Nat : AdjustSent(e.chan, amt) \in Channels /\ AdjustSent(c, amt) \in Channels
<1> DEFINE e == AdjustEnter(n)
<1>1. c.adj \in Nat /\ c.adjq \in Nat
  BY DEF Channels
<1>2. e.chan \in Channels /\ e.chan.adj > 0 /\ e.amt \in Nat \ {0}
  <2>1. CASE c.adj = 0
    <3>1. n + c.adjq \in Nat \ {0}
      BY <1>1
    <3>2. [c EXCEPT !.adj = n + c.adjq, !.adjq = 0] \in Channels
      BY <3>1 DEF Channels
    <3>3. e.chan = [c EXCEPT !.adj = n + c.adjq, !.adjq = 0] /\ e.amt = n + c.adjq
      BY <2>1 DEF AdjustEnter
    <3>4. e.chan.adj = n + c.adjq
      BY <3>3 DEF Channels
    <3> HIDE DEF e
    <3> QED BY <3>1, <3>2, <3>3, <3>4
  <2>2. CASE c.adj # 0
    BY <1>1, <2>2 DEF AdjustEnter
  <2> QED BY <2>1, <2>2
<1>3. \A d \in Channels, amt \in Nat : AdjustSent(d, amt) \in Channels
  <2> TAKE d \in Channels, amt \in Nat
  <2>1. U32(d.rwin + amt) \in 0..(Mod - 1)
    BY Widths DEF Channels
  <2> QED BY <2>1 DEF AdjustSent, Channels
<1>4. \A d \in Channels : d.adj > 0 => [type |-> "adjust", n |-> d.adj] \in Sent \ {None}
  BY DEF Channels, Sent, None
<1> HIDE DEF e
<1> QED BY <1>2, <1>3, <1>4 DEF e

-----------------------------------------------------------------------------
(* Types: every step keeps them. *)

\* A call has an operation and one of the phases of that operation.
CallOK(x) ==
  /\ x \in Calls
  /\ x.op = "none" => x.ph = "idle"
  /\ x.op = "read" => x.ph \in {"force", "force adjust", "expand", "adjust", "drain", "wait"}
  /\ x.op = "write" => x.ph \in {"drain", "wait", "send"}
  /\ x.op = "flush" => x.ph \in {"count", "adjust", "again"}
  /\ x.op = "window_adjust" => x.ph = "adjust"
  /\ x.op = "send_eof" => x.ph = "eof"
  /\ x.op \in {"wait_eof", "wait_closed"} => x.ph = "wait"
  /\ x.op \in {"close", "free"} => x.ph \in {"eof", "close", "wait", "closed", "dispose"}

\* Calls begin and end as their type says.
LEMMA CallSteps ==
    ASSUME TypeOK
    PROVE  /\ CallOK(NoCall)
           /\ \A after \in Apps : Returns(after) => CallOK(call') /\ app' \in Apps
           /\ \A op, ph, s, n : Begin(op, ph, s, n) => calls' \in Nat /\ ~c.freed /\ call = NoCall
<1>1. CallOK(NoCall)
  BY DEF CallOK, NoCall, Ops, Calls
<1>2. call.op \in Ops
  BY DEF TypeOK, Calls
<1>3. ASSUME NEW after \in Apps PROVE [after EXCEPT !.last = call.op] \in Apps
  BY <1>2 DEF Apps
<1> QED BY <1>1, <1>3 DEF Returns, Begin, TypeOK

\* A budget that is spent is a budget.
LEMMA SpendTypes ==
    ASSUME budget \in Budgets, NEW what \in {"block", "abandon"}, Spend(what)
    PROVE  budget' \in Budgets
<1>1. budget.block \in Nat /\ budget.abandon \in Nat /\ budget[what] \in Nat
  BY DEF Budgets
<1>2. budget[what] - 1 \in Nat
  BY <1>1 DEF Spend
<1>3. CASE what = "block"
  BY <1>2, <1>3 DEF Spend, Budgets
<1>4. CASE what = "abandon"
  BY <1>2, <1>4 DEF Spend, Budgets
<1> QED BY <1>3, <1>4

\* What a packet sent or stopped leaves of the server, the transport and the budget.
LEMMA Sending ==
    ASSUME TypeOK, NEW p \in Sent \ {None}
    PROVE  /\ TransportSend(p) => peer' \in Servers /\ out' \in Sent
           /\ SendBlocks(p) => out' \in Sent /\ peer' \in Servers /\ budget' \in Budgets
           /\ EAgain(p) => out' \in Sent /\ peer' \in Servers /\ budget' \in Budgets
<1>1. out \in Sent /\ peer \in Servers /\ budget \in Budgets
  BY DEF TypeOK
<1>2. /\ TransportSend(p) => peer' \in Servers /\ out' \in Sent
      /\ SendBlocks(p) => out' \in Sent /\ peer' \in Servers /\ budget' \in Budgets
  BY <1>1, SendTypes
<1> QED BY <1>1, <1>2 DEF EAgain

\* Starting a call.
LEMMA Beginning ==
    ASSUME TypeOK, NEW op \in Ops, NEW ph, NEW s \in 0..2, NEW n \in Nat, Begin(op, ph, s, n),
           CallOK([op |-> op, ph |-> ph, s |-> s, n |-> n, amt |-> 0])
    PROVE  CallOK(call') /\ calls' \in Nat
BY DEF Begin, TypeOK

\* The numbers of a typed state.
LEMMA Numbers ==
    ASSUME TypeOK
    PROVE  /\ c.rwin \in Nat /\ c.rwin < Mod /\ c.avail \in Nat /\ c.adj \in Nat /\ c.adjq \in Nat
           /\ c.lwin \in Nat /\ c.lwin < Mod /\ c.wr \in Nat
           /\ c.flush.bytes \in Nat /\ c.flush.refund \in Nat
           /\ peer.credit \in Nat /\ peer.owes \in Nat /\ peer.got \in Nat
           /\ \A s \in Streams : peer.sent[s] \in Nat
           /\ call.n \in Nat /\ call.amt \in Nat /\ ignored \in Nat /\ ignored <= PacketMax
           /\ app.written \in Nat /\ app.read \in Positions
           /\ Window \in Nat \ {0} /\ MinAdjust \in Nat \ {0} /\ PacketMax \in Nat \ {0}
<1>1. Window \in Nat \ {0} /\ MinAdjust \in Nat \ {0} /\ PacketMax \in Nat \ {0}
  BY StreamAssumption
<1>2. \A x \in 0..(Mod * Mod - 1) : x \in Nat
  BY Widths
<1>3. \A x \in 0..(Mod - 1) : x \in Nat /\ x < Mod
  BY Widths
<1>4. /\ c.rwin \in 0..(Mod - 1) /\ c.avail \in 0..(Mod * Mod - 1) /\ c.adj \in Nat /\ c.adjq \in Nat
      /\ c.lwin \in 0..(Mod - 1) /\ c.wr \in Nat
      /\ c.flush.bytes \in Nat /\ c.flush.refund \in 0..(Mod * Mod - 1)
  BY DEF TypeOK, Channels
<1>5. /\ peer.credit \in Nat /\ peer.owes \in Nat /\ peer.got \in Nat
      /\ \A s \in Streams : peer.sent[s] \in Nat
  BY DEF TypeOK, Servers
<1>6. call.n \in Nat /\ call.amt \in Nat
  BY DEF TypeOK, Calls
<1>7. ignored \in Nat /\ ignored <= PacketMax
  BY <1>1 DEF TypeOK
<1>8. app.written \in Nat /\ app.read \in Positions
  BY DEF TypeOK, Apps, Positions
<1> QED BY <1>1, <1>2, <1>3, <1>4, <1>5, <1>6, <1>7, <1>8

\* A packet ends the wait of a close, and leaves every other call alone.
LEMMA GoesOnIs ==
    ASSUME CallOK(call), GoesOn
    PROVE  /\ CallOK(call')
           /\ call'.op = call.op /\ call'.n = call.n /\ call'.s = call.s /\ call'.amt = call.amt
           /\ \/ call' = call
              \/ WaitsForClose /\ ignored' = 0 /\ call'.ph = "closed"
<1>1. CASE WaitsForClose /\ ignored' = 0
  BY <1>1 DEF GoesOn, WaitsForClose, Phase, CallOK, Calls, Ops
<1>2. CASE ~(WaitsForClose /\ ignored' = 0)
  BY <1>2 DEF GoesOn
<1> QED BY <1>1, <1>2

\* An arriving packet is queued, counted or dropped.
LEMMA ArriveTypes ==
    ASSUME TypeOK, CallOK(call), Arrives
    PROVE  TypeOK' /\ CallOK(call')
<1> DEFINE Kept == c' \in Channels /\ queue' \in Seq(Packets) /\ ignored' \in 0..PacketMax
                   /\ peer' \in Servers /\ seen' \in Histories
<1>1. ASSUME NEW s \in Streams, NEW n \in 1..PacketMax, n <= peer.credit, PacketAddData(s, n)
      PROVE  Kept
  <2> DEFINE room == Size(c.rwin - c.avail)
             take == Min({n, room})
  <2>1. PacketMax \in Nat /\ c.rwin \in 0..(Mod - 1) /\ c.avail \in Nat /\ n \in Nat
    <3>1. n \in Nat
      BY Numbers
    <3>2. c.rwin \in 0..(Mod - 1)
      BY DEF TypeOK, Channels
    <3> QED BY Numbers, <3>1, <3>2
  <2>2. room \in Nat /\ (c.rwin > c.avail => room > 0)
    <3>1. c.rwin > c.avail => Size(c.rwin - c.avail) = c.rwin - c.avail
      <4>1. c.rwin > c.avail => c.rwin - c.avail \in 0..(Mod - 1)
        BY <2>1, Widths
      <4> QED BY <4>1, Widths
    <3> QED BY <2>1, <3>1, Widths
  <2>3. take \in 0..PacketMax /\ (c.rwin > c.avail => take > 0) /\ take <= room
    <3> HIDE DEF room
    <3> QED BY <2>1, <2>2, LeastOf
  <2>4. peer' \in Servers
    <3>1. peer.credit - n \in Nat /\ peer.sent[s] + n \in Nat /\ peer.sent \in [Streams -> Nat]
      BY <1>1, <2>1 DEF TypeOK, Servers
    <3>2. [peer.sent EXCEPT ![s] = @ + n] \in [Streams -> Nat]
      BY <3>1
    <3>3. peer' = [peer EXCEPT !.sent = [peer.sent EXCEPT ![s] = @ + n], !.credit = @ - n]
      BY <1>1 DEF PacketAddData, TypeOK, Servers
    <3> QED BY <3>1, <3>2, <3>3 DEF TypeOK, Servers
  <2>5. CASE c.ignore /\ s = 1
    <3>1. /\ c' = [c EXCEPT !.rwin = U32(@ - take)] /\ ignored' = take
          /\ seen' = [seen EXCEPT !.skipped = @ \cup {1}] /\ queue' = queue
      BY <1>1, <2>5 DEF PacketAddData
    <3> HIDE DEF take
    <3>2. U32(c.rwin - take) \in 0..(Mod - 1)
      BY <2>1, <2>3, Widths
    <3>3. c' \in Channels
      BY <3>1, <3>2 DEF TypeOK, Channels
    <3>4. seen' \in Histories
      BY <3>1, <2>5 DEF TypeOK, Histories
    <3> QED BY <2>3, <2>4, <3>1, <3>3, <3>4 DEF TypeOK
  <2>6. CASE ~(c.ignore /\ s = 1) /\ c.rwin <= c.avail
    BY <1>1, <2>4, <2>6 DEF PacketAddData, TypeOK
  <2>7. CASE ~(c.ignore /\ s = 1) /\ ~(c.rwin <= c.avail)
    <3>1. /\ c' = [c EXCEPT !.avail = Size(@ + take), !.reof = FALSE]
          /\ queue' = Append(queue, Packet(s, take)) /\ ignored' = ignored /\ seen' = seen
      BY <1>1, <2>7 DEF PacketAddData
    <3>2. take \in Nat \ {0}
      BY <2>1, <2>3, <2>7
    <3> HIDE DEF take
    <3>3. Size(c.avail + take) \in 0..(Mod * Mod - 1)
      BY <2>1, <3>2, Widths
    <3>4. c' \in Channels
      BY <3>1, <3>3 DEF TypeOK, Channels
    <3>5. Packet(s, take) \in Packets
      BY <3>2 DEF Packet, Packets, TypeOK, Servers
    <3> QED BY <2>4, <3>1, <3>4, <3>5 DEF TypeOK
  <2> QED BY <2>1, <2>5, <2>6, <2>7
<1>2. ASSUME PacketAddEof PROVE Kept
  BY <1>2 DEF PacketAddEof, TypeOK, Channels, Servers
<1>3. ASSUME PacketAddClose PROVE Kept
  BY <1>3 DEF PacketAddClose, TypeOK, Channels, Servers
<1>4. ASSUME PacketAddAdjust(peer.owes) PROVE Kept
  <2>1. U32(c.lwin + peer.owes) \in 0..(Mod - 1) /\ peer.owes - peer.owes = 0
    <3>1. c.lwin \in Nat /\ peer.owes \in Nat
      BY StreamAssumption DEF TypeOK, Channels, Servers
    <3>2. c.lwin + peer.owes \in Int
      BY <3>1
    <3> QED BY <3>1, <3>2, Widths
  <2>2. c' \in Channels
    BY <1>4, <2>1 DEF PacketAddAdjust, TypeOK, Channels
  <2>3. peer' \in Servers
    <3>1. peer' = [peer EXCEPT !.owes = 0] /\ peer \in Servers
      BY <1>4, <2>1 DEF PacketAddAdjust, TypeOK
    <3> QED BY <3>1 DEF Servers
  <2> QED BY <1>4, <2>2, <2>3 DEF PacketAddAdjust, TypeOK
<1>5. Kept
  <2> HIDE DEF Kept
  <2> QED BY <1>1, <1>2, <1>3, <1>4 DEF Arrives
<1>6. UNCHANGED <<out, calls, budget, app>> /\ CallOK(call')
  BY GoesOnIs DEF Arrives
<1> QED BY <1>5, <1>6 DEF TypeOK, CallOK

\* What a call that ends or goes on leaves of itself.
LEMMA Going ==
    ASSUME TypeOK, CallOK(call), NEW ph, Phase(ph), CallOK([call EXCEPT !.ph = ph])
    PROVE  CallOK(call')
BY DEF Phase

\* The refund of ignored data keeps the types.
LEMMA RefundTypes ==
    ASSUME TypeOK, CallOK(call), RefundsIgnored
    PROVE  TypeOK' /\ CallOK(call')
<1> DEFINE e == AdjustEnter(ignored)
           p == [type |-> "adjust", n |-> e.chan.adj]
<1>1. /\ e.chan \in Channels /\ e.amt \in Nat /\ p \in Sent \ {None}
      /\ AdjustSent(e.chan, e.amt) \in Channels
  <2>1. ignored \in Nat \ {0} /\ c \in Channels
    BY Numbers DEF RefundsIgnored, TypeOK
  <2> QED BY <2>1, AdjustTypes
<1>2. /\ TransportSend(p) => peer' \in Servers /\ out' \in Sent
      /\ SendBlocks(p) => out' \in Sent /\ peer' \in Servers /\ budget' \in Budgets
  <2> HIDE DEF p
  <2> QED BY <1>1, Sending
<1>3. 0 \in 0..PacketMax
  BY Numbers
<1>4. /\ \/ /\ TransportSend(p) /\ c' = AdjustSent(e.chan, e.amt) /\ ignored' = 0
            /\ seen' = [seen EXCEPT !.skewed = @ \/ Off(e.amt, OnWire(p).n)]
            /\ UNCHANGED budget
         \/ SendBlocks(p) /\ c' = e.chan /\ UNCHANGED <<ignored, seen>>
      /\ UNCHANGED <<queue, calls, app>> /\ GoesOn
  BY DEF RefundsIgnored
<1> HIDE DEF e, p
<1>5. seen' \in Histories
  BY <1>4 DEF TypeOK, Histories
<1>6. c' \in Channels /\ ignored' \in 0..PacketMax /\ peer' \in Servers /\ out' \in Sent /\ budget' \in Budgets
  BY <1>1, <1>2, <1>3, <1>4 DEF TypeOK
<1>7. CallOK(call')
  BY <1>4, GoesOnIs
<1> QED BY <1>4, <1>5, <1>6, <1>7 DEF TypeOK, CallOK

\* A read widens the window by something.
LEMMA ExpansionIs ==
    ASSUME TypeOK
    PROVE  Expansion \in Nat \ {0}
<1> DEFINE x == U32(Window + call.n - c.rwin)
<1>1. x \in Nat /\ MinAdjust \in Nat \ {0}
  <2>1. Window + call.n - c.rwin \in Int
    BY Numbers
  <2> QED BY <2>1, Numbers, Widths
<1> HIDE DEF x
<1>2. Max({x, MinAdjust}) \in Nat \ {0}
  BY <1>1, MostOf
<1> QED BY <1>2 DEF Expansion, x

\* Reads.
LEMMA ReadTypes ==
    ASSUME TypeOK, CallOK(call), CallInv, Read
    PROVE  TypeOK' /\ CallOK(call')
<1>1. ASSUME NEW s \in Streams, NEW n \in ReadSizes, ReadEnter(s, n)
      PROVE  TypeOK' /\ CallOK(call')
  <2>1. s \in 0..2 /\ n \in Nat
    BY StreamAssumption DEF Streams
  <2>2. \A ph \in {"force", "expand"} :
          CallOK([op |-> "read", ph |-> ph, s |-> s, n |-> n, amt |-> 0])
    BY <2>1 DEF CallOK, Calls, Ops
  <2>3. CallOK(call') /\ calls' \in Nat
    <3>1. \E ph \in {"force", "expand"} : Begin("read", ph, s, n)
      BY <1>1 DEF ReadEnter
    <3> QED BY <2>2, <3>1 DEF Begin, TypeOK
  <2>4. seen' \in Histories
    BY <1>1 DEF ReadEnter, TypeOK, Histories
  <2> QED BY <1>1, <2>3, <2>4 DEF TypeOK, ReadEnter, CallOK
<1>2. CASE ReadForces
  <2> DEFINE e == AdjustEnter(call.n)
  <2>1. call.n \in Nat \ {0} /\ c \in Channels
    BY <1>2, StreamAssumption DEF ReadForces, In, CallInv, TypeOK
  <2>2. e.chan \in Channels /\ e.amt \in Nat
    BY <2>1, AdjustTypes
  <2>3. /\ In("read", "force") /\ c' = e.chan
        /\ call' = [call EXCEPT !.ph = "force adjust", !.amt = e.amt]
        /\ UNCHANGED <<queue, ignored, out, peer, calls, budget, app, seen>>
    BY <1>2 DEF ReadForces
  <2> HIDE DEF e
  <2>4. CallOK(call')
    BY <2>2, <2>3 DEF In, CallOK, Calls
  <2> QED BY <2>2, <2>3, <2>4 DEF TypeOK, CallOK
<1>3. Expansion \in Nat \ {0}
  BY ExpansionIs
<1>4. CASE ReadExpands
  <2>1. CASE Narrow
    <3> DEFINE e == AdjustEnter(Expansion)
    <3>1. e.chan \in Channels /\ e.amt \in Nat
      BY <1>3, AdjustTypes DEF TypeOK
    <3>2. /\ In("read", "expand") /\ c' = [e.chan EXCEPT !.jump = TRUE]
          /\ call' = [call EXCEPT !.ph = "adjust", !.amt = e.amt]
          /\ seen' = [seen EXCEPT !.skewed = @ \/ c.rwin > Window + call.n]
          /\ UNCHANGED <<queue, ignored, out, peer, calls, budget, app>>
      BY <1>4, <2>1 DEF ReadExpands
    <3> HIDE DEF e
    <3>3. CallOK(call')
      BY <3>1, <3>2 DEF In, CallOK, Calls
    <3>4. seen' \in Histories
      BY <3>2 DEF TypeOK, Histories
    <3>5. c' \in Channels
      BY <3>1, <3>2 DEF Channels
    <3> QED BY <3>2, <3>3, <3>4, <3>5 DEF TypeOK, CallOK
  <2>2. CASE ~Narrow
    <3>1. CallOK(call')
      BY <1>4, <2>2 DEF ReadExpands, In, Phase, CallOK, Calls
    <3> QED BY <1>4, <2>2, <3>1 DEF ReadExpands, TypeOK, CallOK
  <2> QED BY <2>1, <2>2
<1>5. CASE ReadAdjusts
  <2>1. AdjustPacket \in Sent \ {None} /\ call.amt \in Nat /\ c \in Channels
    BY <1>5, Numbers DEF ReadAdjusts, CallInv, AdjustPacket, Sent, None, TypeOK
  <2>2. /\ TransportSend(AdjustPacket) => peer' \in Servers /\ out' \in Sent
        /\ EAgain(AdjustPacket) => out' \in Sent /\ peer' \in Servers /\ budget' \in Budgets
    BY <2>1, Sending
  <2>3. AdjustSent(c, call.amt) \in Channels
    <3>1. U32(c.rwin + call.amt) \in 0..(Mod - 1)
      BY Numbers, Widths
    <3> QED BY <3>1 DEF AdjustSent, TypeOK, Channels
  <2>4. /\ call.op = "read" /\ call.ph \in {"force adjust", "adjust"}
        /\ UNCHANGED <<queue, ignored, calls, app>>
    BY <1>5 DEF ReadAdjusts
  <2>5. CASE TransportSend(AdjustPacket) /\ UNCHANGED budget /\ Skewed(call.amt)
             /\ IF call.ph = "adjust"
                THEN c' = [AdjustSent(c, call.amt) EXCEPT !.jump = FALSE] /\ Phase("drain")
                ELSE c' = AdjustSent(c, call.amt) /\ Phase("expand")
    <3>1. CallOK(call')
      <4>1. CASE Phase("drain")
        BY <2>4, <4>1 DEF Phase, CallOK, Calls
      <4>2. CASE Phase("expand")
        BY <2>4, <4>2 DEF Phase, CallOK, Calls
      <4> QED BY <2>5, <4>1, <4>2
    <3>2. seen' \in Histories
      BY <2>5 DEF Skewed, TypeOK, Histories
    <3>3. c' \in Channels
      <4>1. [AdjustSent(c, call.amt) EXCEPT !.jump = FALSE] \in Channels
        BY <2>3 DEF Channels
      <4> QED BY <2>3, <2>5, <4>1
    <3> QED BY <2>2, <2>4, <2>5, <3>1, <3>2, <3>3 DEF TypeOK, CallOK
  <2>6. CASE EAgain(AdjustPacket) /\ call' = [call EXCEPT !.amt = Amount] /\ UNCHANGED <<c, seen>>
    <3>1. Amount \in Nat
      BY <1>3, Numbers DEF Amount
    <3>2. CallOK(call')
      BY <2>6, <3>1 DEF CallOK, Calls
    <3> QED BY <2>2, <2>4, <2>6, <3>2 DEF TypeOK, CallOK
  <2> QED BY <1>5, <2>4, <2>5, <2>6 DEF ReadAdjusts
<1>6. CASE ReadSkipsForce
  <2>1. CallOK(call')
    BY <1>6 DEF ReadSkipsForce, In, Phase, CallOK, Calls
  <2>2. budget' \in Budgets
    BY <1>6, SpendTypes DEF ReadSkipsForce, TypeOK
  <2> QED BY <1>6, <2>1, <2>2 DEF ReadSkipsForce, TypeOK, CallOK
<1>7. CASE ReadTakes
  <2> DEFINE t == TakeFrom(queue, call.s, call.n)
             n == call.n - t.want
  <2>1. t \in Takes
    BY Numbers, TakeIs DEF TypeOK
  <2>2. Follow(app.read, t.bytes) \in Positions
    <3> HIDE DEF t
    <3> QED BY <2>1, Numbers, FollowIs DEF Takes
  <2>3. /\ \/ /\ Returns([app EXCEPT !.read = Follow(@, t.bytes)])
              /\ queue' = t.rest
              /\ c' = [c EXCEPT !.avail = Size(@ - n), !.rwin = U32(@ - n)]
           \/ Returns([app EXCEPT !.ended = @ \cup {call.s}]) /\ call.s \in Streams /\ UNCHANGED <<queue, c>>
           \/ Phase("wait") /\ In("read", "drain") /\ UNCHANGED <<queue, c, app>>
        /\ UNCHANGED <<ignored, out, peer, calls, budget, seen>>
    BY <1>7 DEF ReadTakes, In, CallInv
  <2>4. c.rwin - n \in Int /\ c.avail - n \in Int
    <3> HIDE DEF t
    <3>1. t.want \in Nat
      BY <2>1 DEF Takes
    <3> QED BY <3>1, Numbers
  <2> HIDE DEF t, n
  <2>5. c' \in Channels /\ queue' \in Seq(Packets)
    <3>1. U32(c.rwin - n) \in 0..(Mod - 1) /\ Size(c.avail - n) \in 0..(Mod * Mod - 1)
      BY <2>4, Widths
    <3>2. t.rest \in Seq(Packets)
      BY <2>1 DEF Takes
    <3> QED BY <2>3, <3>1, <3>2 DEF TypeOK, Channels
  <2>6. /\ [app EXCEPT !.read = Follow(@, t.bytes)] \in Apps
        /\ call.s \in Streams => [app EXCEPT !.ended = @ \cup {call.s}] \in Apps
    BY <2>2 DEF TypeOK, Apps, Positions
  <2>7. CallOK(call') /\ app' \in Apps
    <3>1. CASE Phase("wait") /\ In("read", "drain") /\ UNCHANGED app
      BY <3>1 DEF Phase, In, CallOK, Calls, TypeOK
    <3> QED BY <2>3, <2>6, <3>1, CallSteps
  <2> QED BY <2>3, <2>5, <2>7 DEF TypeOK, CallOK
<1>8. CASE ReadAgain
  <2>1. CallOK(call')
    BY <1>8 DEF ReadAgain, In, Phase, CallOK, Calls
  <2> QED BY <1>8, <2>1 DEF ReadAgain, TypeOK, CallOK
<1> QED BY <1>1, <1>2, <1>4, <1>5, <1>6, <1>7, <1>8 DEF Read

\* Writes.
LEMMA WriteTypes ==
    ASSUME TypeOK, CallOK(call), WriteInv, Write
    PROVE  TypeOK' /\ CallOK(call')
<1>1. ASSUME NEW n \in WriteSizes, WriteEnter(n) PROVE TypeOK' /\ CallOK(call')
  <2>1. n \in Nat /\ 0 \in 0..2
    BY StreamAssumption
  <2>2. \A ph \in {"drain", "send"} :
          CallOK([op |-> "write", ph |-> ph, s |-> 0, n |-> n, amt |-> 0])
    BY <2>1 DEF CallOK, Calls, Ops
  <2>3. CallOK(call') /\ calls' \in Nat
    <3>1. \E ph \in {"drain", "send"} : Begin("write", ph, 0, n)
      BY <1>1 DEF WriteEnter
    <3> QED BY <2>2, <3>1 DEF Begin, TypeOK
  <2>4. seen' \in Histories
    BY <1>1 DEF WriteEnter, TypeOK, Histories
  <2> QED BY <1>1, <2>3, <2>4 DEF TypeOK, WriteEnter, CallOK
<1>2. CASE WriteBuilds
  <2> DEFINE w == Min({call.n, c.lwin, PacketMax})
  <2>1. w \in Nat
    <3>1. call.n \in Nat /\ c.lwin \in Nat /\ PacketMax \in Nat
      BY Numbers
    <3> HIDE DEF w
    <3>2. \A a, b, d \in Nat : Min({a, b, d}) \in Nat
      BY LeastOfThree
    <3> QED BY <3>1, <3>2 DEF w
  <2>2. /\ In("write", "drain")
        /\ \/ Phase("wait") /\ UNCHANGED c
           \/ c' = [c EXCEPT !.wr = w] /\ Phase("send")
        /\ UNCHANGED <<queue, ignored, out, peer, calls, budget, app, seen>>
    BY <1>2 DEF WriteBuilds
  <2> HIDE DEF w
  <2>3. c' \in Channels
    BY <2>1, <2>2 DEF TypeOK, Channels
  <2>4. CallOK(call')
    <3>1. CASE Phase("wait")
      BY <2>2, <3>1 DEF In, Phase, CallOK, Calls
    <3>2. CASE Phase("send")
      BY <2>2, <3>2 DEF In, Phase, CallOK, Calls
    <3> QED BY <2>2, <3>1, <3>2
  <2> QED BY <2>2, <2>3, <2>4 DEF TypeOK, CallOK
<1>3. CASE WriteAgain
  <2>1. CallOK(call')
    BY <1>3 DEF WriteAgain, In, Phase, CallOK, Calls
  <2> QED BY <1>3, <2>1 DEF WriteAgain, TypeOK, CallOK
<1>4. CASE WriteSends
  <2> DEFINE p == [type |-> "data", at |-> app.written, n |-> c.wr]
  <2>1. p \in Sent \ {None}
    BY Numbers DEF Sent, None
  <2>2. /\ In("write", "send")
        /\ \/ /\ TransportSend(p) /\ c' = [c EXCEPT !.lwin = U32(@ - c.wr), !.wr = 0]
              /\ Returns([app EXCEPT !.written = @ + c.wr]) /\ UNCHANGED budget
           \/ SendBlocks(p) /\ UNCHANGED <<c, app, call>>
        /\ UNCHANGED <<queue, ignored, calls, seen>>
    BY <1>4 DEF WriteSends
  <2> HIDE DEF p
  <2>3. /\ TransportSend(p) => peer' \in Servers /\ out' \in Sent
        /\ SendBlocks(p) => out' \in Sent /\ peer' \in Servers /\ budget' \in Budgets
    BY <2>1, Sending
  <2>4. [app EXCEPT !.written = @ + c.wr] \in Apps
    <3>1. app.written + c.wr \in Nat
      BY Numbers
    <3> QED BY <3>1 DEF TypeOK, Apps
  <2>5. c' \in Channels
    <3>1. U32(c.lwin - c.wr) \in 0..(Mod - 1)
      <4>1. c.lwin - c.wr \in Int
        BY Numbers
      <4> QED BY <4>1, Widths
    <3>2. [c EXCEPT !.lwin = U32(@ - c.wr), !.wr = 0] \in Channels
      BY <3>1 DEF TypeOK, Channels
    <3> QED BY <2>2, <3>2 DEF TypeOK
  <2>6. CallOK(call') /\ app' \in Apps
    BY <2>2, <2>4, CallSteps DEF TypeOK
  <2> QED BY <2>2, <2>3, <2>5, <2>6 DEF TypeOK, CallOK
<1> QED BY <1>1, <1>2, <1>3, <1>4 DEF Write

\* Flushes.
LEMMA FlushTypes ==
    ASSUME TypeOK, CallOK(call), CallInv, Flush
    PROVE  TypeOK' /\ CallOK(call')
<1>1. ASSUME NEW which \in 0..2, FlushEnter(which) PROVE TypeOK' /\ CallOK(call')
  <2> DEFINE f == Flushed(queue, which)
  <2>1. f \in Leaves
    BY FlushSum DEF TypeOK
  <2>2. /\ Begin("flush", "count", which, 0)
        /\ UNCHANGED <<ignored, out, peer, budget, app>>
        /\ \/ UNCHANGED <<c, queue>>
           \/ /\ queue' = f.kept
              /\ c' = [c EXCEPT !.flush = [on |-> TRUE, refund |-> Size(f.refund), bytes |-> f.bytes]]
    BY <1>1 DEF FlushEnter
  <2>3. seen' \in Histories
    <3>1. \/ seen' = [seen EXCEPT !.skewed = @ \/ c.flush.bytes > 0, !.late = @ \/ CloseSent]
          \/ seen' = [seen EXCEPT !.skipped = @ \cup f.gone, !.skewed = @ \/ f.refund < 0,
                                  !.byHand = @ \/ f.gone # {}, !.late = @ \/ CloseSent]
      BY <1>1 DEF FlushEnter
    <3> HIDE DEF f
    <3>2. f.gone \subseteq Streams
      BY <2>1 DEF Leaves
    <3> QED BY <3>1, <3>2 DEF TypeOK, Histories
  <2> HIDE DEF f
  <2>4. c' \in Channels /\ queue' \in Seq(Packets)
    <3>1. Size(f.refund) \in 0..(Mod * Mod - 1) /\ f.bytes \in Nat /\ f.kept \in Seq(Packets)
      BY <2>1, Widths DEF Leaves
    <3>2. [on |-> TRUE, refund |-> Size(f.refund), bytes |-> f.bytes] \in
            [on : BOOLEAN, refund : 0..(Mod * Mod - 1), bytes : Nat]
      BY <3>1
    <3> QED BY <2>2, <3>1, <3>2 DEF TypeOK, Channels
  <2>5. CallOK(call') /\ calls' \in Nat
    <3>1. CallOK([op |-> "flush", ph |-> "count", s |-> which, n |-> 0, amt |-> 0])
      BY DEF CallOK, Calls, Ops
    <3> QED BY <2>2, <3>1 DEF Begin, TypeOK
  <2> QED BY <2>2, <2>3, <2>4, <2>5 DEF TypeOK, CallOK
<1>2. CASE FlushCounts
  <2> DEFINE d == Counted(c, c.flush.bytes)
             add == U32(d.flush.refund)
  <2>1. d \in Channels
    <3>1. Size(c.avail - c.flush.bytes) \in 0..(Mod * Mod - 1) /\ U32(c.rwin - c.flush.bytes) \in 0..(Mod - 1)
      BY Numbers, Widths
    <3> QED BY <3>1 DEF Counted, TypeOK, Channels
  <2>2. /\ In("flush", "count")
        /\ \/ c' = [d EXCEPT !.flush.on = FALSE] /\ Returns(app)
           \/ /\ \/ c' = [d EXCEPT !.adj = add + d.adjq, !.adjq = 0]
                 \/ c' = d
              /\ \E amt \in {add + d.adjq, add + 0} :
                   call' = [call EXCEPT !.ph = "adjust", !.amt = amt]
              /\ UNCHANGED app
        /\ UNCHANGED <<queue, ignored, out, peer, calls, budget, seen>>
    <3> HIDE DEF d
    <3> QED BY <1>2 DEF FlushCounts, FlushRefunds, d
  <2> HIDE DEF d
  <2>3. add \in Nat /\ d.adjq \in Nat
    <3>1. d.flush.refund \in 0..(Mod * Mod - 1) /\ d.adjq \in Nat
      BY <2>1 DEF Channels
    <3>2. d.flush.refund \in Int
      BY <3>1, Widths
    <3> QED BY <3>1, <3>2, Widths
  <2> HIDE DEF add
  <2>4. add + d.adjq \in Nat /\ add + 0 \in Nat
    BY <2>3
  <2>5. c' \in Channels
    <3>1. [d EXCEPT !.flush.on = FALSE] \in Channels
      BY <2>1 DEF Channels
    <3>2. [d EXCEPT !.adj = add + d.adjq, !.adjq = 0] \in Channels
      BY <2>1, <2>4 DEF Channels
    <3> QED BY <2>1, <2>2, <3>1, <3>2
  <2>6. CallOK(call') /\ app' \in Apps
    <3>1. CASE Returns(app)
      BY <3>1, CallSteps DEF TypeOK
    <3>2. ASSUME NEW amt \in Nat, call' = [call EXCEPT !.ph = "adjust", !.amt = amt] PROVE CallOK(call')
      BY <2>2, <3>2 DEF In, CallOK, Calls
    <3> QED BY <2>2, <2>4, <3>1, <3>2 DEF TypeOK
  <2> QED BY <2>2, <2>5, <2>6 DEF TypeOK, CallOK
<1>3. CASE FlushAdjusts
  <2>1. AdjustPacket \in Sent \ {None}
    BY <1>3, Numbers DEF FlushAdjusts, In, CallInv, AdjustPacket, Sent, None
  <2>2. /\ TransportSend(AdjustPacket) => peer' \in Servers /\ out' \in Sent
        /\ EAgain(AdjustPacket) => out' \in Sent /\ peer' \in Servers /\ budget' \in Budgets
    BY <2>1, Sending
  <2>3. [AdjustSent(c, call.amt) EXCEPT !.flush.on = FALSE] \in Channels
    <3>1. U32(c.rwin + call.amt) \in 0..(Mod - 1)
      BY Numbers, Widths
    <3> QED BY <3>1 DEF AdjustSent, TypeOK, Channels
  <2>4. CASE /\ TransportSend(AdjustPacket) /\ c' = [AdjustSent(c, call.amt) EXCEPT !.flush.on = FALSE]
             /\ Skewed(call.amt) /\ Returns(app) /\ UNCHANGED <<budget, queue, ignored, calls>>
    <3>1. seen' \in Histories
      BY <2>4 DEF Skewed, TypeOK, Histories
    <3>2. CallOK(call') /\ app' \in Apps
      BY <2>4, CallSteps DEF TypeOK
    <3> QED BY <2>2, <2>3, <2>4, <3>1, <3>2 DEF TypeOK, CallOK
  <2>5. CASE /\ EAgain(AdjustPacket) /\ Phase("again") /\ In("flush", "adjust")
             /\ UNCHANGED <<c, app, seen, queue, ignored, calls>>
    <3>1. CallOK(call')
      BY <2>5 DEF In, Phase, CallOK, Calls
    <3> QED BY <2>2, <2>5, <3>1 DEF TypeOK, CallOK
  <2> QED BY <1>3, <2>4, <2>5 DEF FlushAdjusts
<1>4. CASE FlushAgain
  <2>1. CallOK(call')
    BY <1>4 DEF FlushAgain, In, Phase, CallOK, Calls
  <2>2. seen' \in Histories
    BY <1>4 DEF FlushAgain, TypeOK, Histories
  <2> QED BY <1>4, <2>1, <2>2 DEF FlushAgain, TypeOK, CallOK
<1> QED BY <1>1, <1>2, <1>3, <1>4 DEF Flush

\* Windows widened by hand.
LEMMA WindowTypes ==
    ASSUME TypeOK, CallOK(call), CallInv,
           (\E n \in ReadSizes, force \in BOOLEAN : WindowAdjust(n, force)) \/ WindowAdjusted
    PROVE  TypeOK' /\ CallOK(call')
<1>1. ASSUME NEW n \in ReadSizes, NEW force \in BOOLEAN, WindowAdjust(n, force)
      PROVE  TypeOK' /\ CallOK(call')
  <2> DEFINE e == AdjustEnter(n)
  <2>1. n \in Nat \ {0} /\ 0 \in 0..2
    BY StreamAssumption
  <2>2. e.chan \in Channels /\ [c EXCEPT !.adjq = @ + n] \in Channels
    <3>1. c.adjq + n \in Nat
      BY <2>1, Numbers
    <3>2. [c EXCEPT !.adjq = @ + n] \in Channels
      BY <3>1 DEF TypeOK, Channels
    <3> QED BY <2>1, <3>2, AdjustTypes DEF TypeOK
  <2>3. /\ \/ calls' = calls + 1 /\ c' = [c EXCEPT !.adjq = @ + n] /\ UNCHANGED call
           \/ Begin("window_adjust", "adjust", 0, n) /\ c' = e.chan
        /\ seen' = [seen EXCEPT !.byHand = TRUE, !.late = @ \/ CloseSent]
        /\ UNCHANGED <<queue, ignored, out, peer, budget, app>>
    BY <1>1 DEF WindowAdjust
  <2> HIDE DEF e
  <2>4. CallOK([op |-> "window_adjust", ph |-> "adjust", s |-> 0, n |-> n, amt |-> 0])
    BY <2>1 DEF CallOK, Calls, Ops
  <2>5. CallOK(call') /\ calls' \in Nat
    BY <2>3, <2>4 DEF Begin, TypeOK
  <2>6. seen' \in Histories
    BY <2>3 DEF TypeOK, Histories
  <2> QED BY <2>2, <2>3, <2>5, <2>6 DEF TypeOK, CallOK
<1>2. CASE WindowAdjusted
  <2>1. AdjustPacket \in Sent \ {None}
    BY <1>2, Numbers DEF WindowAdjusted, In, CallInv, AdjustPacket, Sent, None
  <2>2. /\ TransportSend(AdjustPacket) => peer' \in Servers /\ out' \in Sent
        /\ SendBlocks(AdjustPacket) => out' \in Sent /\ peer' \in Servers /\ budget' \in Budgets
    BY <2>1, Sending
  <2>3. \A amt \in Nat : AdjustSent(c, amt) \in Channels
    <3> TAKE amt \in Nat
    <3>1. U32(c.rwin + amt) \in 0..(Mod - 1)
      BY Numbers, Widths
    <3> QED BY <3>1 DEF AdjustSent, TypeOK, Channels
  <2>4. ASSUME NEW amt \in {call.n, c.adj}, c' = AdjustSent(c, amt), Skewed(amt)
        PROVE  c' \in Channels /\ seen' \in Histories
    <3>1. seen' \in Histories
      BY <2>4 DEF Skewed, TypeOK, Histories
    <3>2. amt \in Nat
      BY Numbers
    <3> QED BY <2>3, <2>4, <3>1, <3>2
  <2>5. CASE TransportSend(AdjustPacket) /\ Returns(app) /\ UNCHANGED <<budget, queue, ignored, calls>>
             /\ c' \in Channels /\ seen' \in Histories
    <3>1. CallOK(call') /\ app' \in Apps
      BY <2>5, CallSteps DEF TypeOK
    <3> QED BY <2>2, <2>5, <3>1 DEF TypeOK, CallOK
  <2>6. CASE SendBlocks(AdjustPacket) /\ UNCHANGED <<c, seen, app, call, queue, ignored, calls>>
    BY <2>2, <2>6 DEF TypeOK, CallOK
  <2> QED BY <1>2, <2>4, <2>5, <2>6 DEF WindowAdjusted
<1> QED BY <1>1, <1>2

\* Ends and closes.
LEMMA CloseTypes ==
    ASSUME TypeOK, CallOK(call), Close
    PROVE  TypeOK' /\ CallOK(call')
<1>0. 0 \in 0..2 /\ 0 \in Nat
  OBVIOUS
<1>1. ASSUME NEW op \in Ops, NEW ph, Begin(op, ph, 0, 0),
             \/ op = "send_eof" /\ ph = "eof"
             \/ op \in {"wait_eof", "wait_closed"} /\ ph = "wait"
             \/ op \in {"close", "free"} /\ ph \in {"dispose", "eof", "wait", "closed", "close"}
      PROVE  CallOK(call') /\ calls' \in Nat
  <2>1. CallOK([op |-> op, ph |-> ph, s |-> 0, n |-> 0, amt |-> 0])
    BY <1>0, <1>1 DEF CallOK, Calls, Ops
  <2> QED BY <1>1, <2>1 DEF Begin, TypeOK
<1>2. CASE SendEofEnter
  <2>1. CallOK(call') /\ calls' \in Nat
    BY <1>1, <1>2 DEF SendEofEnter, Ops
  <2>2. seen' \in Histories
    BY <1>2 DEF SendEofEnter, TypeOK, Histories
  <2> QED BY <1>2, <2>1, <2>2 DEF SendEofEnter, TypeOK, CallOK
<1>3. CASE EofSends
  <2> DEFINE p == [type |-> "eof", by |-> call.op]
  <2>1. call.op \in {"send_eof", "close", "free"}
    BY <1>3 DEF EofSends, CallOK, Calls, Ops
  <2>2. p \in Sent \ {None}
    BY <2>1 DEF Sent, None
  <2>3. /\ call.ph = "eof"
        /\ \/ /\ TransportSend(p) /\ c' = [c EXCEPT !.leof = TRUE] /\ UNCHANGED budget
              /\ \/ Returns(app)
                 \/ call.op # "send_eof" /\ Phase("close") /\ UNCHANGED app
           \/ SendBlocks(p) /\ UNCHANGED <<c, app, call>>
        /\ UNCHANGED <<queue, ignored, calls, seen>>
    BY <1>3 DEF EofSends
  <2> HIDE DEF p
  <2>4. /\ TransportSend(p) => peer' \in Servers /\ out' \in Sent
        /\ SendBlocks(p) => out' \in Sent /\ peer' \in Servers /\ budget' \in Budgets
    BY <2>2, Sending
  <2>5. c' \in Channels
    BY <2>3 DEF TypeOK, Channels
  <2>6. CallOK(call') /\ app' \in Apps
    <3>1. CASE call.op # "send_eof" /\ Phase("close") /\ UNCHANGED app
      BY <2>1, <3>1 DEF Phase, CallOK, Calls, TypeOK
    <3> QED BY <2>3, <3>1, CallSteps DEF TypeOK
  <2> QED BY <2>3, <2>4, <2>5, <2>6 DEF TypeOK, CallOK
<1>4. CASE WaitEofEnter
  <2>1. CallOK(call') /\ calls' \in Nat
    BY <1>1, <1>4 DEF WaitEofEnter, Ops
  <2>2. seen' \in Histories
    BY <1>4 DEF WaitEofEnter, TypeOK, Histories
  <2> QED BY <1>4, <2>1, <2>2 DEF WaitEofEnter, TypeOK, CallOK
<1>5. CASE WaitClosedEnter
  <2>1. CallOK(call') /\ calls' \in Nat
    BY <1>1, <1>5 DEF WaitClosedEnter, Ops
  <2> QED BY <1>5, <2>1 DEF WaitClosedEnter, TypeOK, CallOK
<1>6. CASE WaitEofEnds \/ WaitClosedEnds
  <2>1. CallOK(call') /\ app' \in Apps
    BY <1>6, CallSteps DEF WaitEofEnds, WaitClosedEnds, TypeOK
  <2> QED BY <1>6, <2>1 DEF WaitEofEnds, WaitClosedEnds, TypeOK, CallOK
<1>7. ASSUME NEW op \in {"close", "free"}, CloseEnter(op) PROVE TypeOK' /\ CallOK(call')
  <2>1. \E ph \in {"dispose", "eof", "wait", "closed", "close"} : Begin(op, ph, 0, 0)
    BY <1>7 DEF CloseEnter, CloseStart, CloseWait
  <2>2. CallOK(call') /\ calls' \in Nat
    BY <1>1, <2>1 DEF Ops
  <2> QED BY <1>7, <2>2 DEF CloseEnter, TypeOK, CallOK
<1>8. CASE CloseSends
  <2> DEFINE p == [type |-> "close"]
  <2>1. p \in Sent \ {None}
    BY DEF Sent, None
  <2>2. /\ call.ph = "close"
        /\ \/ TransportSend(p) /\ c' = [c EXCEPT !.closing = "sent"] /\ Phase(CloseWait) /\ UNCHANGED budget
           \/ SendBlocks(p) /\ c' = [c EXCEPT !.closing = "created"] /\ UNCHANGED call
        /\ UNCHANGED <<queue, ignored, calls, app, seen>>
    BY <1>8 DEF CloseSends
  <2> HIDE DEF p
  <2>3. /\ TransportSend(p) => peer' \in Servers /\ out' \in Sent
        /\ SendBlocks(p) => out' \in Sent /\ peer' \in Servers /\ budget' \in Budgets
    BY <2>1, Sending
  <2>4. c' \in Channels
    BY <2>2 DEF TypeOK, Channels
  <2>5. CallOK(call')
    BY <2>2 DEF Phase, CloseWait, CallOK, Calls, Ops
  <2> QED BY <2>2, <2>3, <2>4, <2>5 DEF TypeOK, CallOK
<1>9. CASE CloseEnds
  <2>1. c' \in Channels
    BY <1>9 DEF CloseEnds, TypeOK, Channels
  <2>2. CallOK(call') /\ app' \in Apps
    <3>1. CASE call.op = "free" /\ Phase("dispose") /\ UNCHANGED app
      BY <3>1 DEF Phase, CallOK, Calls, TypeOK
    <3> QED BY <1>9, <3>1, CallSteps DEF CloseEnds, TypeOK
  <2> QED BY <1>9, <2>1, <2>2 DEF CloseEnds, TypeOK, CallOK
<1>10. CASE FreeDisposes
  <2>1. c' \in Channels
    BY <1>10 DEF FreeDisposes, TypeOK, Channels
  <2>2. CallOK(call') /\ app' \in Apps
    BY <1>10, CallSteps DEF FreeDisposes, TypeOK
  <2>3. queue' \in Seq(Packets)
    BY <1>10, EmptySeq DEF FreeDisposes
  <2> QED BY <1>10, <2>1, <2>2, <2>3 DEF FreeDisposes, TypeOK, CallOK
<1> QED BY <1>2, <1>3, <1>4, <1>5, <1>6, <1>7, <1>8, <1>9, <1>10 DEF Close

\* The types of every step.
LEMMA TypeStep ==
    ASSUME TypeOK, CallOK(call), CallInv, WriteInv, Next
    PROVE  TypeOK' /\ CallOK(call')
<1>1. ASSUME NEW mode, HandleExtendedData(mode) PROVE TypeOK' /\ CallOK(call')
  <2>1. c' \in Channels
    BY <1>1 DEF HandleExtendedData, TypeOK, Channels
  <2>2. calls' \in Nat
    BY <1>1 DEF HandleExtendedData, TypeOK
  <2> QED BY <1>1, <2>1, <2>2 DEF HandleExtendedData, TypeOK, CallOK
<1>2. CASE Abandon
  <2>1. budget' \in Budgets
    BY <1>2, SpendTypes DEF Abandon, TypeOK
  <2>2. CallOK(call') /\ app' \in Apps
    BY <1>2, CallSteps DEF Abandon, TypeOK
  <2> QED BY <1>2, <2>1, <2>2 DEF Abandon, TypeOK, CallOK
<1>3. CASE OtherArrives
  <2>1. CallOK(call')
    BY <1>3 DEF OtherArrives, WaitsForClose, Phase, CallOK, Calls, Ops
  <2> QED BY <1>3, <2>1 DEF OtherArrives, TypeOK, CallOK
<1> QED BY <1>1, <1>2, <1>3, ArriveTypes, RefundTypes, ReadTypes, WriteTypes, FlushTypes, WindowTypes, CloseTypes DEF Next

-----------------------------------------------------------------------------
(* How far the channel is ended: what most steps leave alone. *)

(* Reads, flushes and adjusts leave alone how far the channel is ended, and what
   is written. *)
SameChannel(a, b) ==
  /\ a.leof = b.leof /\ a.lclose = b.lclose /\ a.closing = b.closing
  /\ a.rclose = b.rclose /\ a.reof = b.reof /\ a.freed = b.freed
  /\ a.wr = b.wr /\ a.lwin = b.lwin
SameServer ==
  /\ peer'.eof = peer.eof /\ peer'.close = peer.close
  /\ peer'.geof = peer.geof /\ peer'.gclose = peer.gclose /\ peer'.twice = peer.twice
  /\ peer'.got = peer.got /\ peer'.owes = peer.owes /\ peer'.wrong = peer.wrong
(* They are on the record when they come after the close, with what they send. *)
Recorded ==
  /\ \/ call' = call \/ call'.op = "none" \/ (call'.op = "wait_closed" /\ c.reof)
     \/ call'.op \in Reopens /\ (CloseSent => seen'.late)
     \/ /\ WaitsForClose /\ ignored' = 0
        /\ call'.op = call.op /\ call'.ph = "closed"
  /\ seen.late => seen'.late
PartIsKept ==
  /\ \/ out' = None /\ ignored' \in {ignored, 0}
     \/ out' = out /\ ignored' = ignored
     \/ out'.type = "adjust" /\ ignored' = ignored /\ (CloseSent => seen'.late \/ ignored > 0)
  /\ out' # None /\ out'.type = "adjust" => c'.adj > 0
Quiet ==
  /\ SameChannel(c', c) /\ SameServer /\ app'.written = app.written
  /\ Recorded /\ PartIsKept
Ready == TypeOK /\ CallOK(call) /\ CallInv /\ PartInv

\* A running call has a channel; half an adjust has its owner.
LEMMA ReadyIs ==
    ASSUME Ready
    PROVE  /\ call.op # "none" => ~c.freed
           /\ out # None /\ out.type = "adjust" => c.adj > 0
           /\ call.op \in {"read", "flush", "window_adjust"} /\ CloseSent => seen.late
           /\ call.op = "read" => call.n \in ReadSizes /\ call.s \in Streams
           /\ c.freed => c.lclose
           /\ c \in Channels
<1>1. out # None /\ out.type = "adjust" => c.adj > 0
  BY DEF Ready, PartInv, Owner
<1>2. call.op # "none" => ~c.freed
  BY DEF Ready, CallInv
<1> QED BY <1>1, <1>2 DEF Ready, PartInv, Reopens, CallInv, TypeOK

\* No call runs, and the application knows no more than it was told.
LEMMA Ended ==
    ASSUME NEW after \in Apps, Returns(after)
    PROVE  /\ call'.op = "none" /\ call'.ph = "idle" /\ call' = NoCall
           /\ app'.written = after.written /\ app'.read = after.read /\ app'.ended = after.ended
BY DEF Returns, NoCall, Apps

\* A call that goes on is the same call.
LEMMA SameCall ==
    ASSUME CallOK(call), NEW ph, Phase(ph)
    PROVE  call'.op = call.op /\ call'.n = call.n /\ call'.s = call.s /\ call'.ph = ph
           /\ call'.amt = call.amt
BY DEF Phase, CallOK, Calls

\* An adjust that goes out widens the server's window by what it was built with.
LEMMA AdjustOut ==
    ASSUME TypeOK, NEW p \in Sent \ {None}, p.type = "adjust", TransportSend(p)
    PROVE  LET n == OnWire(p).n IN
           /\ n \in Nat /\ (out = None => n = p.n)
           /\ peer' = [peer EXCEPT !.credit = @ + n] /\ out' = None
<1>1. OnWire(p) \in Sent \ {None} /\ OnWire(p).type = "adjust"
  BY SendTypes DEF TypeOK, TransportSend
<1>2. OnWire(p).n \in Nat
  BY <1>1 DEF Sent
<1>3. Delivered(OnWire(p)) = [peer EXCEPT !.credit = @ + OnWire(p).n]
  BY <1>1 DEF Delivered
<1> QED BY <1>2, <1>3 DEF TransportSend, OnWire

\* What adjusts and flushes make of the channel object leaves those fields alone.
LEMMA ChannelIsSame ==
    ASSUME NEW d \in Channels
    PROVE  /\ SameChannel(d, d)
           /\ \A amt : SameChannel(AdjustSent(d, amt), d)
           /\ \A b, x : SameChannel([d EXCEPT !.adj = x, !.adjq = b], d)
           /\ \A b, x : SameChannel([d EXCEPT !.avail = x, !.rwin = b], d)
           /\ \A b, x : SameChannel([d EXCEPT !.ignore = x, !.merge = b], d)
           /\ \A x : SameChannel([d EXCEPT !.adjq = x], d)
           /\ \A x : SameChannel([d EXCEPT !.jump = x], d)
           /\ \A x : SameChannel([d EXCEPT !.flush = x], d)
           /\ \A x : SameChannel([d EXCEPT !.flush.on = x], d)
BY DEF Channels, SameChannel, AdjustSent

\* Building an adjust leaves those fields alone.
LEMMA EnterIsSame ==
    ASSUME c \in Channels, NEW n
    PROVE  SameChannel(AdjustEnter(n).chan, c)
BY DEF AdjustEnter, Channels, SameChannel

\* Two such steps do.
LEMMA SameTwice ==
    ASSUME NEW a, NEW b, NEW d, SameChannel(a, b), SameChannel(b, d)
    PROVE  SameChannel(a, d)
BY DEF SameChannel

\* What an adjust does, whether it goes out or not.
LEMMA AdjustStep ==
    ASSUME TypeOK, NEW p \in Sent \ {None}, p.type = "adjust",
           TransportSend(p) \/ SendBlocks(p) \/ EAgain(p)
    PROVE  /\ SameServer
           /\ TransportSend(p) => out' = None
           /\ ~ TransportSend(p) => out' = p \/ out' = out
<1>1. CASE TransportSend(p)
  <2>1. out' = None /\ \E n : peer' = [peer EXCEPT !.credit = @ + n]
    BY <1>1, AdjustOut
  <2> QED BY <1>1, <2>1 DEF SameServer, TypeOK, Servers
<1>2. CASE SendBlocks(p) \/ EAgain(p)
  <2>1. peer' = peer /\ (out' = p \/ out' = out)
    BY <1>2 DEF SendBlocks, EAgain
  <2> QED BY <2>1, <1>1 DEF SameServer
<1> QED BY <1>1, <1>2

\* The refund of ignored data.
LEMMA RefundQuiet ==
    ASSUME Ready, RefundsIgnored
    PROVE  Quiet /\ CallInv'
<1> DEFINE e == AdjustEnter(ignored)
           p == [type |-> "adjust", n |-> e.chan.adj]
<1> USE DEF Ready
<1>1. ignored \in Nat \ {0} /\ c \in Channels /\ call.ph \in {"drain", "wait"}
  BY Numbers DEF RefundsIgnored, TypeOK
<1>2. e.chan \in Channels /\ e.amt \in Nat /\ p \in Sent \ {None} /\ e.chan.adj > 0
  BY <1>1, AdjustTypes
<1>3. e.chan = c \/ e.chan = [c EXCEPT !.adj = ignored + c.adjq, !.adjq = 0]
  BY DEF AdjustEnter
<1>4. /\ \/ /\ TransportSend(p) /\ c' = AdjustSent(e.chan, e.amt) /\ ignored' = 0
            /\ seen' = [seen EXCEPT !.skewed = @ \/ Off(e.amt, OnWire(p).n)]
         \/ SendBlocks(p) /\ c' = e.chan /\ UNCHANGED <<ignored, seen>>
      /\ UNCHANGED <<queue, calls, app>> /\ GoesOn
  BY DEF RefundsIgnored
<1>5. p.type = "adjust" /\ p.n = e.chan.adj
  OBVIOUS
<1> HIDE DEF e, p
<1>6. SameServer /\ (TransportSend(p) => out' = None)
  BY <1>2, <1>4, <1>5, AdjustStep
<1>7. SameChannel(c', c)
  <2>1. SameChannel(e.chan, c)
    BY <1>1, EnterIsSame DEF e
  <2>2. SameChannel(c', e.chan)
    BY <1>2, <1>4, ChannelIsSame
  <2> QED BY <2>1, <2>2, SameTwice
<1>8. Recorded
  <2>1. seen.late => seen'.late
    BY <1>4 DEF TypeOK, Histories
  <2> QED BY <1>4, <2>1, GoesOnIs DEF Recorded, Reopens
<1>9. PartIsKept
  <2>1. CASE TransportSend(p)
    BY <2>1, <1>4, <1>6 DEF PartIsKept
  <2>2. CASE SendBlocks(p) /\ c' = e.chan /\ UNCHANGED <<ignored, seen>>
    BY <1>1, <1>2, <1>5, <2>2 DEF PartIsKept, SendBlocks
  <2> QED BY <1>4, <2>1, <2>2
<1>10. CallInv'
  BY <1>1, <1>4, <1>7, GoesOnIs DEF CallInv, SameChannel
<1> QED BY <1>4, <1>6, <1>7, <1>8, <1>9, <1>10 DEF Quiet

\* Reads.
LEMMA ReadQuiet ==
    ASSUME Ready, Read
    PROVE  Quiet /\ CallInv'
<1> USE DEF Ready
<1>0. c \in Channels
  BY DEF TypeOK
<1>1. ASSUME NEW s \in Streams, NEW n \in ReadSizes, ReadEnter(s, n) PROVE Quiet /\ CallInv'
  <2>1. /\ \E ph \in {"force", "expand"} :
             call' = [op |-> "read", ph |-> ph, s |-> s, n |-> n, amt |-> 0]
        /\ seen' = [seen EXCEPT !.late = @ \/ CloseSent] /\ ~c.freed
        /\ UNCHANGED <<c, queue, ignored, out, peer, budget, app>>
    BY <1>1 DEF ReadEnter, Begin
  <2>2. (CloseSent => seen'.late) /\ (seen.late => seen'.late)
    BY <2>1 DEF TypeOK, Histories
  <2>3. Recorded /\ PartIsKept
    <3>1. Recorded
      BY <2>1, <2>2 DEF Recorded, Reopens
    <3> QED BY <2>1, <3>1, ReadyIs DEF PartIsKept
  <2>4. CallInv'
    <3>1. /\ call'.op = "read" /\ call'.s = s /\ call'.n = n
          /\ call'.ph \in {"force", "expand"} /\ c'.freed = FALSE
      BY <2>1 DEF TypeOK, Channels
    <3> QED BY <3>1 DEF CallInv
  <2> QED BY <2>1, <2>3, <2>4 DEF Quiet, SameChannel, SameServer
<1>2. CASE ReadForces
  <2> DEFINE e == AdjustEnter(call.n)
  <2>1. call.n \in Nat \ {0} /\ In("read", "force") /\ call.n \in ReadSizes /\ call.s \in Streams /\ ~c.freed
    BY <1>2, StreamAssumption, ReadyIs DEF ReadForces, In
  <2>2. e.chan.adj > 0 /\ SameChannel(e.chan, c)
    BY <1>0, <2>1, AdjustTypes, EnterIsSame
  <2>3. /\ c' = e.chan /\ call' = [call EXCEPT !.ph = "force adjust", !.amt = e.amt]
        /\ UNCHANGED <<queue, ignored, out, peer, calls, budget, app, seen>>
    BY <1>2 DEF ReadForces
  <2> HIDE DEF e
  <2>4. /\ call'.op = "read" /\ call'.n = call.n /\ call'.s = call.s /\ call'.ph = "force adjust"
    BY <2>1, <2>3 DEF In, CallOK, Calls
  <2>5. Recorded /\ PartIsKept
    BY <2>1, <2>2, <2>3, <2>4 DEF Recorded, Reopens, PartIsKept, PartInv, In, CloseSent
  <2>6. CallInv'
    BY <2>1, <2>2, <2>3, <2>4 DEF CallInv, SameChannel
  <2> QED BY <2>2, <2>3, <2>5, <2>6 DEF Quiet, SameServer
<1>3. CASE ReadExpands
  <2>1. In("read", "expand") /\ call.n \in ReadSizes /\ call.s \in Streams /\ ~c.freed
        /\ (CloseSent => seen.late)
    BY <1>3, ReadyIs DEF ReadExpands, In
  <2>2. CASE Narrow
    <3> DEFINE e == AdjustEnter(Expansion)
    <3>1. /\ c' = [e.chan EXCEPT !.jump = TRUE]
          /\ call' = [call EXCEPT !.ph = "adjust", !.amt = e.amt]
          /\ seen' = [seen EXCEPT !.skewed = @ \/ c.rwin > Window + call.n]
          /\ UNCHANGED <<queue, ignored, out, peer, calls, budget, app>>
      BY <1>3, <2>2 DEF ReadExpands
    <3>2. e.chan \in Channels /\ e.chan.adj > 0 /\ SameChannel(e.chan, c)
      BY <1>0, ExpansionIs, AdjustTypes, EnterIsSame
    <3> HIDE DEF e
    <3>3. call'.op = "read" /\ call'.n = call.n /\ call'.s = call.s /\ call'.ph = "adjust"
      BY <2>1, <3>1 DEF In, CallOK, Calls
    <3>4. c'.adj > 0 /\ SameChannel(c', c)
      <4>1. SameChannel(c', e.chan)
        BY <3>1, <3>2, ChannelIsSame
      <4> QED BY <3>1, <3>2, <4>1, SameTwice DEF Channels
    <3>5. seen'.late = seen.late
      BY <3>1 DEF TypeOK, Histories
    <3>6. Recorded /\ PartIsKept
      BY <2>1, <3>1, <3>3, <3>4, <3>5 DEF Recorded, Reopens, PartIsKept
    <3>7. CallInv'
      BY <2>1, <3>3, <3>4 DEF CallInv, SameChannel
    <3> QED BY <3>1, <3>4, <3>6, <3>7 DEF Quiet, SameServer
  <2>3. CASE ~Narrow
    <3>1. Phase("drain") /\ UNCHANGED <<c, queue, ignored, out, peer, calls, budget, app, seen>>
      BY <1>3, <2>3 DEF ReadExpands
    <3>2. call'.op = "read" /\ call'.n = call.n /\ call'.s = call.s /\ call'.ph = "drain"
      BY <2>1, <3>1 DEF Phase, In, CallOK, Calls
    <3>3. Recorded /\ PartIsKept
      BY <2>1, <3>1, <3>2, ReadyIs DEF Recorded, Reopens, PartIsKept
    <3>4. CallInv'
      BY <2>1, <3>1, <3>2 DEF CallInv
    <3> QED BY <3>1, <3>3, <3>4 DEF Quiet, SameChannel, SameServer
  <2> QED BY <2>2, <2>3
<1>4. CASE ReadAdjusts
  <2>1. /\ call.op = "read" /\ call.ph \in {"force adjust", "adjust"}
        /\ call.n \in ReadSizes /\ call.s \in Streams /\ ~c.freed /\ c.adj > 0
        /\ (CloseSent => seen.late)
    BY <1>4, ReadyIs DEF ReadAdjusts, CallInv
  <2>2. AdjustPacket \in Sent \ {None} /\ AdjustPacket.type = "adjust"
    BY Numbers DEF AdjustPacket, Sent, None
  <2>3. CASE /\ TransportSend(AdjustPacket) /\ \/ c' = AdjustSent(c, call.amt) /\ Phase("expand")
                                               \/ /\ c' = [AdjustSent(c, call.amt) EXCEPT !.jump = FALSE]
                                                  /\ Phase("drain")
             /\ Skewed(call.amt) /\ UNCHANGED <<queue, ignored, calls, app>>
    <3>1. SameServer /\ out' = None
      BY <2>2, <2>3, AdjustStep
    <3>2. SameChannel(c', c)
      <4>1. AdjustSent(c, call.amt) \in Channels
        <5>1. U32(c.rwin + call.amt) \in 0..(Mod - 1)
          BY Numbers, Widths
        <5> QED BY <1>0, <5>1 DEF AdjustSent, Channels
      <4>2. SameChannel(AdjustSent(c, call.amt), c) /\ SameChannel(c, c)
        BY <1>0, ChannelIsSame
      <4>3. SameChannel([AdjustSent(c, call.amt) EXCEPT !.jump = FALSE], AdjustSent(c, call.amt))
        BY <4>1, ChannelIsSame
      <4>4. SameChannel([AdjustSent(c, call.amt) EXCEPT !.jump = FALSE], c)
        BY <4>2, <4>3, SameTwice
      <4> QED BY <2>3, <4>2, <4>4
    <3>3. call'.op = "read" /\ call'.n = call.n /\ call'.s = call.s /\ call'.ph \in {"drain", "expand"}
      <4>1. \E ph \in {"drain", "expand"} : call' = [call EXCEPT !.ph = ph]
        BY <2>3 DEF Phase
      <4> QED BY <2>1, <4>1 DEF CallOK, Calls
    <3>4. seen'.late = seen.late
      BY <2>3 DEF Skewed, TypeOK, Histories
    <3>5. Recorded /\ PartIsKept
      BY <2>1, <2>3, <3>1, <3>3, <3>4 DEF Recorded, Reopens, PartIsKept
    <3>6. CallInv'
      BY <2>1, <3>2, <3>3 DEF CallInv, SameChannel
    <3> QED BY <2>3, <3>1, <3>2, <3>5, <3>6 DEF Quiet
  <2>4. CASE EAgain(AdjustPacket) /\ call' = [call EXCEPT !.amt = Amount]
             /\ UNCHANGED <<c, seen, queue, ignored, calls, app>>
    <3>1. SameServer /\ (out' = AdjustPacket \/ out' = out)
      BY <2>2, <2>4, AdjustStep DEF EAgain, SendBlocks, SameServer
    <3>2. call'.op = "read" /\ call'.n = call.n /\ call'.s = call.s
      BY <2>1, <2>4 DEF CallOK, Calls
    <3>3. Recorded /\ PartIsKept
      BY <2>1, <2>2, <2>4, <3>1, <3>2 DEF Recorded, Reopens, PartIsKept
    <3>4. CallInv'
      BY <2>1, <2>4, <3>2 DEF CallInv
    <3> QED BY <2>4, <3>1, <3>3, <3>4 DEF Quiet, SameChannel
  <2> QED BY <1>4, <2>3, <2>4 DEF ReadAdjusts
<1>5. CASE ReadSkipsForce \/ ReadAgain
  <2>1. /\ call.op = "read" /\ Phase("expand")
        /\ UNCHANGED <<c, queue, ignored, out, peer, calls, app, seen>>
    BY <1>5 DEF ReadSkipsForce, ReadAgain, In
  <2>2. call'.op = "read" /\ call'.n = call.n /\ call'.s = call.s /\ call'.ph = "expand"
    BY <2>1, SameCall
  <2>3. Recorded /\ PartIsKept
    BY <2>1, <2>2, ReadyIs DEF Recorded, Reopens, PartIsKept
  <2>4. CallInv'
    BY <2>1, <2>2, ReadyIs DEF CallInv
  <2> QED BY <2>1, <2>3, <2>4 DEF Quiet, SameChannel, SameServer
<1>6. CASE ReadTakes
  <2>1. /\ In("read", "drain") /\ call.op = "read"
        /\ UNCHANGED <<ignored, out, peer, calls, budget, seen>>
        /\ \/ /\ \E r : Returns([app EXCEPT !.read = r])
              /\ \E a, r : c' = [c EXCEPT !.avail = a, !.rwin = r]
           \/ /\ \E s : Returns([app EXCEPT !.ended = @ \cup {s}])
              /\ UNCHANGED <<queue, c>>
           \/ Phase("wait") /\ UNCHANGED <<queue, c, app>>
    BY <1>6 DEF ReadTakes, In
  <2>2. SameChannel(c', c) /\ c'.adj = c.adj
    <3>1. ASSUME NEW a, NEW r, c' = [c EXCEPT !.avail = a, !.rwin = r]
          PROVE  SameChannel(c', c) /\ c'.adj = c.adj
      BY <1>0, <3>1 DEF Channels, SameChannel
    <3> QED BY <2>1, <3>1 DEF SameChannel
  <2>4. app'.written = app.written
    <3>1. ASSUME NEW r, Returns([app EXCEPT !.read = r]) PROVE app'.written = app.written
      BY <3>1 DEF Returns, TypeOK, Apps
    <3>2. ASSUME NEW s, Returns([app EXCEPT !.ended = @ \cup {s}]) PROVE app'.written = app.written
      BY <3>2 DEF Returns, TypeOK, Apps
    <3> QED BY <2>1, <3>1, <3>2
  <2>5. \/ call'.op = "none" /\ call'.ph = "idle"
        \/ call'.op = "read" /\ call'.n = call.n /\ call'.s = call.s /\ call'.ph = "wait"
    <3>1. NoCall.op = "none" /\ NoCall.ph = "idle"
      BY DEF NoCall
    <3>2. Phase("wait") \/ call' = NoCall
      BY <2>1 DEF Returns
    <3> QED BY <2>1, <3>1, <3>2, SameCall
  <2>6. Recorded /\ PartIsKept
    <3>1. call'.op = "none" \/ call'.op = "read"
      BY <2>5
    <3> QED BY <2>1, <2>2, <3>1, ReadyIs DEF Recorded, Reopens, PartIsKept, In
  <2>7. CallInv'
    <3>1. ~c'.freed
      BY <2>1, <2>2, ReadyIs DEF SameChannel
    <3>2. \/ call'.op = "none" /\ call'.ph = "idle"
          \/ call'.op = "read" /\ call'.ph = "wait" /\ call'.n \in ReadSizes /\ call'.s \in Streams
      BY <2>1, <2>5, ReadyIs
    <3> QED BY <3>1, <3>2 DEF CallInv
  <2> QED BY <2>1, <2>2, <2>4, <2>6, <2>7 DEF Quiet, SameServer
<1> QED BY <1>1, <1>2, <1>3, <1>4, <1>5, <1>6 DEF Read

\* Flushes.
LEMMA FlushQuiet ==
    ASSUME Ready, Flush
    PROVE  Quiet /\ CallInv'
<1> USE DEF Ready
<1>0. c \in Channels
  BY DEF TypeOK
<1>1. ASSUME NEW which \in 0..2, FlushEnter(which) PROVE Quiet /\ CallInv'
  <2>1. /\ call' = [op |-> "flush", ph |-> "count", s |-> which, n |-> 0, amt |-> 0]
        /\ c' = c \/ \E x : c' = [c EXCEPT !.flush = x]
        /\ ~c.freed
        /\ UNCHANGED <<ignored, out, peer, budget, app>>
    BY <1>1 DEF FlushEnter, Begin
  <2>2. SameChannel(c', c) /\ c'.adj = c.adj
    <3>1. ASSUME NEW x, c' = [c EXCEPT !.flush = x] PROVE SameChannel(c', c) /\ c'.adj = c.adj
      BY <1>0, <3>1 DEF Channels, SameChannel
    <3> QED BY <2>1, <3>1 DEF SameChannel
  <2>3. (CloseSent => seen'.late) /\ (seen.late => seen'.late)
    <3> DEFINE f == Flushed(queue, which)
    <3>1. \/ seen' = [seen EXCEPT !.skewed = @ \/ c.flush.bytes > 0, !.late = @ \/ CloseSent]
          \/ seen' = [seen EXCEPT !.skipped = @ \cup f.gone, !.skewed = @ \/ f.refund < 0,
                                  !.byHand = @ \/ f.gone # {}, !.late = @ \/ CloseSent]
      BY <1>1 DEF FlushEnter
    <3> HIDE DEF f
    <3>2. seen'.late = (seen.late \/ CloseSent)
      BY <3>1 DEF TypeOK, Histories
    <3> QED BY <3>2
  <2>4. call'.op = "flush" /\ call'.ph = "count"
    BY <2>1
  <2>5. Recorded /\ PartIsKept
    <3>1. Recorded
      BY <2>3, <2>4 DEF Recorded, Reopens
    <3> QED BY <2>1, <2>2, <3>1, ReadyIs DEF PartIsKept
  <2>6. CallInv'
    BY <2>1, <2>2, <2>4 DEF CallInv, SameChannel
  <2> QED BY <2>1, <2>2, <2>5, <2>6 DEF Quiet, SameServer
<1>2. CASE FlushCounts
  <2> DEFINE d == Counted(c, c.flush.bytes)
             add == U32(d.flush.refund)
  <2>1. /\ call.op = "flush" /\ ~c.freed /\ (CloseSent => seen.late)
        /\ UNCHANGED <<queue, ignored, out, peer, seen>>
        /\ \/ c' = [d EXCEPT !.flush.on = FALSE] /\ Returns(app)
           \/ /\ d.adj + d.adjq + add # 0
              /\ c' = IF d.adj = 0 THEN [d EXCEPT !.adj = add + d.adjq, !.adjq = 0] ELSE d
              /\ \E amt : call' = [call EXCEPT !.ph = "adjust", !.amt = amt]
              /\ UNCHANGED app
    <3>1. In("flush", "count") /\ FlushRefunds(d) /\ UNCHANGED <<queue, ignored, out, peer, seen>>
      BY <1>2 DEF FlushCounts
    <3>2. call.op = "flush"
      BY <3>1 DEF In
    <3> HIDE DEF d
    <3> QED BY <3>1, <3>2, ReadyIs DEF FlushRefunds, d
  <2>2. d \in Channels /\ SameChannel(d, c) /\ d.adj = c.adj
    <3>1. Size(c.avail - c.flush.bytes) \in 0..(Mod * Mod - 1) /\ U32(c.rwin - c.flush.bytes) \in 0..(Mod - 1)
      BY Numbers, Widths
    <3>2. d \in Channels
      BY <1>0, <3>1 DEF Counted, Channels
    <3>3. SameChannel(d, c) /\ d.adj = c.adj
      BY <1>0 DEF Counted, Channels, SameChannel
    <3> QED BY <3>2, <3>3
  <2> HIDE DEF d
  <2>3. add \in Nat /\ d.adjq \in Nat /\ d.adj \in Nat
    <3>1. d.flush.refund \in 0..(Mod * Mod - 1) /\ d.adjq \in Nat /\ d.adj \in Nat
      BY <2>2 DEF Channels
    <3>2. d.flush.refund \in Int
      BY <3>1, Widths
    <3> QED BY <3>1, <3>2, Widths
  <2> HIDE DEF add
  <2>4. SameChannel(c', c) /\ (c.adj > 0 => c'.adj > 0)
    <3>1. CASE c' = d
      BY <2>2, <3>1
    <3>2. CASE c' = [d EXCEPT !.flush.on = FALSE]
      <4>1. c'.adj = d.adj
        BY <2>2, <3>2 DEF Channels
      <4> QED BY <2>2, <3>2, <4>1, ChannelIsSame, SameTwice
    <3>3. CASE d.adj = 0 /\ c' = [d EXCEPT !.adj = add + d.adjq, !.adjq = 0]
      <4>1. SameChannel(c', d)
        BY <2>2, <3>3, ChannelIsSame
      <4> QED BY <2>2, <3>3, <4>1, SameTwice
    <3> QED BY <2>1, <3>1, <3>2, <3>3
  <2>5. \/ call'.op = "none" /\ call'.ph = "idle" /\ app'.written = app.written
        \/ call'.op = "flush" /\ call'.ph = "adjust" /\ app' = app /\ c'.adj > 0
    <3>1. CASE Returns(app)
      BY <3>1, Ended DEF TypeOK
    <3>2. ASSUME /\ d.adj + d.adjq + add # 0
                 /\ c' = IF d.adj = 0 THEN [d EXCEPT !.adj = add + d.adjq, !.adjq = 0] ELSE d
          PROVE  c'.adj > 0
      <4>1. CASE d.adj = 0
        <5>1. c'.adj = add + d.adjq
          BY <2>2, <3>2, <4>1 DEF Channels
        <5> QED BY <2>3, <3>2, <4>1, <5>1
      <4>2. CASE d.adj # 0
        BY <2>3, <3>2, <4>2
      <4> QED BY <4>1, <4>2
    <3>3. ASSUME NEW amt, call' = [call EXCEPT !.ph = "adjust", !.amt = amt]
          PROVE  call'.op = "flush" /\ call'.ph = "adjust"
      BY <2>1, <3>3 DEF CallOK, Calls
    <3> QED BY <2>1, <3>1, <3>2, <3>3
  <2>6. Recorded /\ PartIsKept
    BY <2>1, <2>4, <2>5, ReadyIs DEF Recorded, Reopens, PartIsKept
  <2>7. CallInv'
    BY <2>1, <2>4, <2>5 DEF CallInv, SameChannel
  <2> QED BY <2>1, <2>4, <2>5, <2>6, <2>7 DEF Quiet, SameServer
<1>3. CASE FlushAdjusts
  <2>1. call.op = "flush" /\ c.adj > 0 /\ ~c.freed /\ (CloseSent => seen.late)
    BY <1>3, ReadyIs DEF FlushAdjusts, In, CallInv
  <2>2. AdjustPacket \in Sent \ {None} /\ AdjustPacket.type = "adjust"
    BY Numbers DEF AdjustPacket, Sent, None
  <2>3. CASE /\ TransportSend(AdjustPacket) /\ c' = [AdjustSent(c, call.amt) EXCEPT !.flush.on = FALSE]
             /\ Skewed(call.amt) /\ Returns(app) /\ UNCHANGED <<queue, ignored, calls>>
    <3>1. SameServer /\ out' = None
      BY <2>2, <2>3, AdjustStep
    <3>2. SameChannel(c', c)
      <4>1. AdjustSent(c, call.amt) \in Channels
        <5>1. U32(c.rwin + call.amt) \in 0..(Mod - 1)
          BY Numbers, Widths
        <5> QED BY <1>0, <5>1 DEF AdjustSent, Channels
      <4>2. SameChannel(AdjustSent(c, call.amt), c)
        BY <1>0, ChannelIsSame
      <4>3. SameChannel(c', AdjustSent(c, call.amt))
        BY <2>3, <4>1, ChannelIsSame
      <4> QED BY <4>2, <4>3, SameTwice
    <3>3. call'.op = "none" /\ call'.ph = "idle" /\ app'.written = app.written
      BY <2>3, Ended DEF TypeOK
    <3>4. seen'.late = seen.late
      BY <2>3 DEF Skewed, TypeOK, Histories
    <3>5. Recorded /\ PartIsKept
      BY <2>3, <3>1, <3>3, <3>4 DEF Recorded, Reopens, PartIsKept
    <3>6. CallInv'
      BY <2>1, <3>2, <3>3 DEF CallInv, SameChannel
    <3> QED BY <3>1, <3>2, <3>3, <3>5, <3>6 DEF Quiet
  <2>4. CASE EAgain(AdjustPacket) /\ Phase("again") /\ UNCHANGED <<c, app, seen, queue, ignored, calls>>
    <3>1. SameServer /\ (out' = AdjustPacket \/ out' = out)
      BY <2>2, <2>4, AdjustStep DEF EAgain, SendBlocks, SameServer
    <3>2. call'.op = "flush" /\ call'.ph = "again"
      BY <2>1, <2>4, SameCall
    <3>3. Recorded /\ PartIsKept
      BY <2>1, <2>2, <2>4, <3>1, <3>2 DEF Recorded, Reopens, PartIsKept
    <3>4. CallInv'
      BY <2>1, <2>4, <3>2 DEF CallInv
    <3> QED BY <2>4, <3>1, <3>3, <3>4 DEF Quiet, SameChannel
  <2> QED BY <1>3, <2>3, <2>4 DEF FlushAdjusts
<1>4. CASE FlushAgain
  <2>1. /\ call.op = "flush" /\ Phase("count") /\ ~c.freed
        /\ UNCHANGED <<c, queue, ignored, out, peer, calls, budget, app>>
    BY <1>4, ReadyIs DEF FlushAgain, In
  <2>2. call'.op = "flush" /\ call'.ph = "count"
    BY <2>1, SameCall
  <2>3. seen'.late = seen.late
    BY <1>4 DEF FlushAgain, TypeOK, Histories
  <2>4. Recorded /\ PartIsKept
    BY <2>1, <2>2, <2>3, ReadyIs DEF Recorded, Reopens, PartIsKept
  <2>5. CallInv'
    BY <2>1, <2>2 DEF CallInv
  <2> QED BY <2>1, <2>4, <2>5 DEF Quiet, SameChannel, SameServer
<1> QED BY <1>1, <1>2, <1>3, <1>4 DEF Flush

\* Windows widened by hand.
LEMMA WindowQuiet ==
    ASSUME Ready,
           (\E n \in ReadSizes, force \in BOOLEAN : WindowAdjust(n, force)) \/ WindowAdjusted
    PROVE  Quiet /\ CallInv'
<1> USE DEF Ready
<1>0. c \in Channels
  BY DEF TypeOK
<1>1. ASSUME NEW n \in ReadSizes, NEW force \in BOOLEAN, WindowAdjust(n, force)
      PROVE  Quiet /\ CallInv'
  <2> DEFINE e == AdjustEnter(n)
  <2>1. n \in Nat \ {0}
    BY StreamAssumption
  <2>2. e.chan.adj > 0 /\ e.chan \in Channels /\ SameChannel(e.chan, c)
    BY <1>0, <2>1, AdjustTypes, EnterIsSame
  <2>3. /\ \/ c' = [c EXCEPT !.adjq = @ + n] /\ UNCHANGED call /\ call = NoCall
           \/ Begin("window_adjust", "adjust", 0, n) /\ c' = e.chan
        /\ ~c.freed
        /\ seen' = [seen EXCEPT !.byHand = TRUE, !.late = @ \/ CloseSent]
        /\ UNCHANGED <<queue, ignored, out, peer, budget, app>>
    BY <1>1 DEF WindowAdjust, Begin
  <2> HIDE DEF e
  <2>4. (CloseSent => seen'.late) /\ (seen.late => seen'.late)
    BY <2>3 DEF TypeOK, Histories
  <2>5. SameChannel(c', c) /\ (c.adj > 0 => c'.adj > 0)
    <3>1. CASE c' = [c EXCEPT !.adjq = @ + n]
      <4>1. c'.adj = c.adj
        BY <1>0, <3>1 DEF Channels
      <4> QED BY <1>0, <3>1, <4>1, ChannelIsSame
    <3> QED BY <2>2, <2>3, <3>1
  <2>6. \/ call' = call /\ call'.op = "none" /\ call'.ph = "idle"
        \/ call'.op = "window_adjust" /\ call'.ph = "adjust" /\ call'.n = n /\ c'.adj > 0
    BY <2>2, <2>3 DEF Begin, NoCall
  <2>7. Recorded /\ PartIsKept
    BY <2>3, <2>4, <2>5, <2>6, ReadyIs DEF Recorded, Reopens, PartIsKept
  <2>8. CallInv'
    <3>1. ~c'.freed
      BY <2>3, <2>5 DEF SameChannel
    <3>2. /\ call'.op # "read" /\ call'.op # "write"
          /\ call'.op = "window_adjust" => call'.n >= 1
          /\ call'.ph = "idle" \/ c'.adj > 0
      BY <2>1, <2>6
    <3> QED BY <3>1, <3>2 DEF CallInv
  <2> QED BY <2>3, <2>5, <2>7, <2>8 DEF Quiet, SameServer
<1>2. CASE WindowAdjusted
  <2>1. call.op = "window_adjust" /\ c.adj > 0 /\ ~c.freed /\ (CloseSent => seen.late)
    BY <1>2, ReadyIs DEF WindowAdjusted, In, CallInv
  <2>2. AdjustPacket \in Sent \ {None} /\ AdjustPacket.type = "adjust"
    BY Numbers DEF AdjustPacket, Sent, None
  <2>3. CASE /\ TransportSend(AdjustPacket) /\ \E amt : c' = AdjustSent(c, amt) /\ Skewed(amt)
             /\ Returns(app) /\ UNCHANGED <<queue, ignored, calls>>
    <3>1. SameServer /\ out' = None
      BY <2>2, <2>3, AdjustStep
    <3>2. SameChannel(c', c)
      BY <1>0, <2>3, ChannelIsSame
    <3>3. call'.op = "none" /\ call'.ph = "idle" /\ app'.written = app.written
      BY <2>3, Ended DEF TypeOK
    <3>4. seen'.late = seen.late
      BY <2>3 DEF Skewed, TypeOK, Histories
    <3>5. Recorded /\ PartIsKept
      BY <2>3, <3>1, <3>3, <3>4 DEF Recorded, Reopens, PartIsKept
    <3>6. CallInv'
      BY <2>1, <3>2, <3>3 DEF CallInv, SameChannel
    <3> QED BY <3>1, <3>2, <3>3, <3>5, <3>6 DEF Quiet
  <2>4. CASE SendBlocks(AdjustPacket) /\ UNCHANGED <<c, seen, app, call, queue, ignored, calls>>
    <3>1. SameServer /\ out' = AdjustPacket
      BY <2>2, <2>4, AdjustStep DEF SendBlocks, SameServer
    <3>2. Recorded /\ PartIsKept
      BY <2>1, <2>2, <2>4, <3>1 DEF Recorded, Reopens, PartIsKept
    <3>3. CallInv'
      BY <2>4 DEF CallInv
    <3> QED BY <2>4, <3>1, <3>2, <3>3 DEF Quiet, SameChannel
  <2> QED BY <1>2, <2>3, <2>4 DEF WindowAdjusted
<1> QED BY <1>1, <1>2

\* Waits, what returns without an answer, and the mode of the extended data.
LEMMA OtherQuiet ==
    ASSUME Ready,
           \/ \E mode \in {"normal", "merge", "ignore"} : HandleExtendedData(mode)
           \/ WaitEofEnter \/ WaitEofEnds \/ WaitClosedEnter \/ WaitClosedEnds \/ Abandon
           \/ OtherArrives
    PROVE  Quiet /\ CallInv'
<1> USE DEF Ready
<1>0. c \in Channels
  BY DEF TypeOK
<1>1. ASSUME NEW mode \in {"normal", "merge", "ignore"}, HandleExtendedData(mode)
      PROVE  Quiet /\ CallInv'
  <2>1. /\ c' = [c EXCEPT !.ignore = (mode = "ignore"), !.merge = (mode = "merge")]
        /\ UNCHANGED <<queue, ignored, out, peer, call, budget, app, seen>>
    BY <1>1 DEF HandleExtendedData
  <2>2. SameChannel(c', c) /\ c'.adj = c.adj
    BY <1>0, <2>1 DEF Channels, SameChannel
  <2>3. Recorded /\ PartIsKept
    BY <2>1, <2>2, ReadyIs DEF Recorded, Reopens, PartIsKept
  <2>4. CallInv'
    BY <2>1, <2>2 DEF CallInv, SameChannel
  <2> QED BY <2>1, <2>2, <2>3, <2>4 DEF Quiet, SameServer
<1>2. CASE WaitEofEnter \/ WaitClosedEnter
  <2>1. /\ \E op \in {"wait_eof", "wait_closed"} : Begin(op, "wait", 0, 0)
        /\ UNCHANGED <<c, queue, ignored, out, peer, budget, app>>
    BY <1>2 DEF WaitEofEnter, WaitClosedEnter
  <2>2. /\ \/ call'.op = "wait_eof" /\ (CloseSent => seen'.late)
           \/ call'.op = "wait_closed" /\ c.reof
        /\ call'.ph = "wait" /\ ~c.freed /\ (seen.late => seen'.late)
    <3>1. CASE WaitEofEnter
      BY <3>1 DEF WaitEofEnter, Begin, TypeOK, Histories
    <3>2. CASE WaitClosedEnter
      BY <3>2 DEF WaitClosedEnter, Begin
    <3> QED BY <1>2, <3>1, <3>2
  <2>3. Recorded /\ PartIsKept
    BY <2>1, <2>2, ReadyIs DEF Recorded, PartIsKept, Reopens
  <2>4. CallInv'
    BY <2>1, <2>2 DEF CallInv
  <2> QED BY <2>1, <2>3, <2>4 DEF Quiet, SameServer, SameChannel
<1>3. CASE WaitEofEnds \/ WaitClosedEnds \/ Abandon
  <2>1. Returns(app) /\ UNCHANGED <<c, queue, ignored, out, peer, calls, seen>> /\ call.op # "none"
    BY <1>3 DEF WaitEofEnds, WaitClosedEnds, Abandon, In, CallOK
  <2>2. call'.op = "none" /\ call'.ph = "idle" /\ app'.written = app.written
    BY <2>1, Ended DEF TypeOK
  <2>3. Recorded /\ PartIsKept
    BY <2>1, <2>2, ReadyIs DEF Recorded, Reopens, PartIsKept
  <2>4. CallInv'
    BY <2>1, <2>2, ReadyIs DEF CallInv
  <2> QED BY <2>1, <2>2, <2>3, <2>4 DEF Quiet, SameServer, SameChannel
<1>4. CASE OtherArrives
  <2>1. /\ WaitsForClose /\ ignored = 0 /\ call'.op = call.op /\ call'.ph = "closed"
        /\ UNCHANGED <<c, queue, ignored, out, peer, calls, budget, app, seen>>
    BY <1>4, SameCall DEF OtherArrives, Reading
  <2>2. Recorded /\ PartIsKept
    BY <2>1, ReadyIs DEF Recorded, PartIsKept
  <2>3. CallInv'
    BY <2>1 DEF CallInv, WaitsForClose
  <2> QED BY <2>1, <2>2, <2>3 DEF Quiet, SameServer, SameChannel
<1> QED BY <1>1, <1>2, <1>3, <1>4

-----------------------------------------------------------------------------
(* The ends of the channel and the half-sent packet. *)

(* What holds of the ends of a channel and of what is written. *)
Clean == Ready /\ EndInv /\ WriteInv

\* What reads, flushes, adjusts and waits do keeps it.
LEMMA QuietKeeps ==
    ASSUME Clean, Quiet, CallOK(call')
    PROVE  EndInv' /\ PartInv' /\ WriteInv'
<1> USE DEF Clean, Ready
<1>1. /\ SameChannel(c', c) /\ SameServer /\ app'.written = app.written
      /\ Recorded /\ PartIsKept
  BY DEF Quiet
<1>2. \/ call' = call
      \/ /\ \/ call'.op = "none" \/ (call'.op = "wait_closed" /\ c.reof)
            \/ (call'.op \in Reopens /\ (CloseSent => seen'.late))
         /\ call'.ph \notin {"close", "closed", "eof", "dispose"}
      \/ WaitsForClose /\ ignored' = 0 /\ call'.op = call.op /\ call'.ph = "closed"
  BY <1>1 DEF Recorded, CallOK, Reopens
<1>3. ignored' = 0 \/ ignored' = ignored
  BY <1>1 DEF PartIsKept
<1>4. CloseSent' <=> CloseSent
  BY <1>1 DEF SameChannel, CloseSent
<1>5. EndInv'
  <2>1. /\ call'.ph = "close" => c.leof /\ ~c.lclose /\ c.closing # "sent"
        /\ call'.ph = "eof" /\ call'.op # "send_eof" => ~c.leof
        /\ call'.op \in {"close", "free"} /\ call'.ph \in {"wait", "closed"} => c.closing = "sent"
        /\ call'.ph = "closed" => ignored' = 0
        /\ call'.ph = "dispose" => c.lclose
        /\ call'.op = "wait_closed" => peer.eof
    BY <1>2, <1>3 DEF EndInv, WaitsForClose, Reopens
  <2>2. seen.late => seen'.late
    BY <1>1 DEF Recorded
  <2> QED BY <1>1, <1>3, <2>1, <2>2 DEF EndInv, SameChannel, SameServer
<1>6. PartInv'
  <2>1. out' # None => Owner(out', c', app'.written)
    <3>1. CASE out' = out
      BY <1>1, <3>1 DEF PartInv, PartIsKept, SameChannel, Owner
    <3>2. CASE out'.type = "adjust"
      BY <1>1, <3>2 DEF PartIsKept, Owner
    <3> QED BY <1>1, <3>1, <3>2 DEF PartIsKept
  <2>2. CloseSent' /\ out' # None => seen'.late \/ ignored' > 0
    BY <1>1, <1>4 DEF PartInv, PartIsKept, Recorded
  <2>3. call'.op \in Reopens /\ CloseSent' => seen'.late
    BY <1>1, <1>4 DEF PartInv, Recorded, Reopens, WaitsForClose
  <2>4. call'.op \in {"write", "send_eof"} /\ c'.leof => seen'.late
    BY <1>1, <1>2 DEF PartInv, SameChannel, Recorded, Reopens, WaitsForClose
  <2> QED BY <2>1, <2>2, <2>3, <2>4 DEF PartInv, Reopens
<1>7. WriteInv'
  BY <1>1, <1>2 DEF WriteInv, SameChannel, SameServer, Recorded, Reopens, WaitsForClose
<1> QED BY <1>5, <1>6, <1>7

\* What arrives: an end of file comes when nothing ignored waits for its refund.
LEMMA ArriveEnds ==
    ASSUME Clean, Arrives
    PROVE  CallInv' /\ EndInv' /\ PartInv' /\ WriteInv'
<1> USE DEF Clean, Ready
<1>0. c \in Channels /\ peer \in Servers /\ seen \in Histories
  BY DEF TypeOK
<1>1. /\ ignored = 0 /\ out' = out /\ app' = app /\ call.ph \in {"drain", "wait"}
      /\ call' = call \/ (WaitsForClose /\ ignored' = 0 /\ call'.ph = "closed")
      /\ call'.op = call.op /\ call'.n = call.n /\ call'.s = call.s
  BY GoesOnIs DEF Arrives, Reading
<1>a. /\ call'.ph \notin {"close", "eof", "dispose", "adjust", "force adjust", "again", "send"}
      /\ call'.op \in {"close", "free"} /\ call'.ph \in {"wait", "closed"} => c.closing = "sent"
      /\ call'.ph = "closed" => ignored' = 0
      /\ call'.op = "wait_closed" => peer.eof
      /\ call.ph # "send"
  BY <1>1 DEF EndInv, WaitsForClose, CallOK
<1>b. ~peer.eof /\ c.lclose => seen.late
  <2> SUFFICES ASSUME ~peer.eof, c.lclose PROVE seen.late
    OBVIOUS
  <2>1. c.closing = "idle" /\ c.leof /\ CloseSent
    BY DEF EndInv, CloseSent
  <2>2. call.op \notin {"close", "free", "wait_closed"}
    BY <1>1, <2>1 DEF EndInv, CallOK
  <2>3. call.op \in Reopens \cup {"write"}
    BY <1>1, <2>2 DEF CallOK, Calls, Ops, Reopens
  <2> QED BY <2>1, <2>3 DEF PartInv, Reopens
<1>2. ASSUME NEW s \in Streams, NEW n, ~peer.eof, PacketAddData(s, n)
      PROVE  CallInv' /\ EndInv' /\ PartInv' /\ WriteInv'
  <2>1. /\ c'.adj = c.adj /\ c'.freed = c.freed /\ c'.wr = c.wr /\ c'.lwin = c.lwin
        /\ c'.leof = c.leof /\ c'.lclose = c.lclose /\ c'.closing = c.closing
        /\ c'.rclose = c.rclose /\ (c'.reof => c.reof)
    <3>1. \/ \E x : c' = [c EXCEPT !.rwin = x] \/ c' = c
          \/ \E x : c' = [c EXCEPT !.avail = x, !.reof = FALSE]
      BY <1>2 DEF PacketAddData
    <3> QED BY <1>0, <3>1 DEF Channels
  <2>2. SameServer
    BY <1>0, <1>2 DEF PacketAddData, SameServer, Servers
  <2>3. seen'.late = seen.late
    BY <1>0, <1>2 DEF PacketAddData, Histories
  <2>4. CallInv'
    BY <1>1, <1>a, <2>1 DEF CallInv
  <2>5. EndInv'
    BY <1>a, <1>b, <1>2, <2>1, <2>2, <2>3 DEF EndInv, SameServer
  <2>6. PartInv'
    <3>1. CloseSent' <=> CloseSent
      BY <2>1 DEF CloseSent
    <3> QED BY <1>1, <2>1, <2>3, <3>1 DEF PartInv, Owner
  <2>7. WriteInv'
    BY <1>1, <1>a, <2>1, <2>2, <2>3 DEF WriteInv, SameServer
  <2> QED BY <2>4, <2>5, <2>6, <2>7
<1>3. CASE PacketAddEof \/ PacketAddClose
  <2>1. /\ c'.adj = c.adj /\ c'.freed = c.freed /\ c'.wr = c.wr /\ c'.lwin = c.lwin
        /\ c'.leof = c.leof /\ c'.lclose = c.lclose /\ c'.closing = c.closing
        /\ c.rclose => c'.rclose
    BY <1>0, <1>3 DEF PacketAddEof, PacketAddClose, Channels
  <2>2. /\ peer'.geof = peer.geof /\ peer'.gclose = peer.gclose /\ peer'.eof /\ peer'.twice = peer.twice
        /\ peer'.got = peer.got /\ peer'.owes = peer.owes /\ peer'.wrong = peer.wrong
        /\ seen' = seen /\ ignored' = ignored
    BY <1>0, <1>3 DEF PacketAddEof, PacketAddClose, Servers
  <2>3. CloseSent' <=> CloseSent
    BY <2>1 DEF CloseSent
  <2>4. CallInv' /\ PartInv'
    BY <1>1, <1>a, <2>1, <2>2, <2>3 DEF CallInv, PartInv, Owner
  <2>5. EndInv' /\ WriteInv'
    BY <1>1, <1>a, <2>1, <2>2 DEF EndInv, WriteInv, WaitsForClose
  <2> QED BY <2>4, <2>5
<1>4. CASE PacketAddAdjust(peer.owes)
  <2>1. SameChannel([c EXCEPT !.lwin = 0], [c' EXCEPT !.lwin = 0]) /\ c'.adj = c.adj /\ c'.lwin = PeerWindow
    <3>1. c.lwin + peer.owes = PeerWindow /\ U32(PeerWindow) = PeerWindow
      <4>1. c.lwin \in Nat /\ peer.owes \in Nat /\ PeerWindow \in 0..(Mod - 1)
        BY Numbers, StreamAssumption
      <4> QED BY <4>1, Widths DEF WriteInv
    <3>2. c' = [c EXCEPT !.lwin = PeerWindow]
      BY <1>4, <3>1 DEF PacketAddAdjust
    <3> QED BY <1>0, <3>2 DEF Channels, SameChannel
  <2>2. /\ c'.freed = c.freed /\ c'.wr = c.wr /\ c'.leof = c.leof /\ c'.lclose = c.lclose
        /\ c'.closing = c.closing /\ c'.rclose = c.rclose /\ c'.reof = c.reof
    BY <1>0, <1>4 DEF PacketAddAdjust, Channels
  <2>3. /\ peer'.geof = peer.geof /\ peer'.gclose = peer.gclose /\ peer'.eof = peer.eof
        /\ peer'.twice = peer.twice
        /\ peer'.got = peer.got /\ peer'.owes = 0 /\ peer'.wrong = peer.wrong
        /\ peer'.close = peer.close /\ seen' = seen /\ ignored' = ignored
    <3>1. peer.owes - peer.owes = 0
      BY Numbers
    <3> QED BY <1>0, <1>4, <3>1 DEF PacketAddAdjust, Servers
  <2>4. CloseSent' <=> CloseSent
    BY <2>2 DEF CloseSent
  <2>5. CallInv' /\ PartInv'
    BY <1>1, <1>a, <2>1, <2>2, <2>3, <2>4 DEF CallInv, PartInv, Owner
  <2>6. EndInv'
    BY <1>1, <1>a, <2>2, <2>3 DEF EndInv
  <2>7. WriteInv'
    <3>1. c.lwin <= PeerWindow /\ PeerWindow = PeerWindow - 0
      <4>1. c.lwin \in Nat /\ peer.owes \in Nat /\ PeerWindow \in Nat
        BY Numbers, StreamAssumption
      <4> QED BY <4>1 DEF WriteInv
    <3>2. c'.wr <= c'.lwin
      <4>1. c.wr \in Nat /\ c.lwin \in Nat /\ PeerWindow \in Nat
        BY Numbers, StreamAssumption
      <4> QED BY <2>1, <2>2, <3>1, <4>1 DEF WriteInv
    <3> QED BY <1>1, <1>a, <2>1, <2>2, <2>3, <3>1, <3>2 DEF WriteInv
  <2> QED BY <2>5, <2>6, <2>7
<1> QED BY <1>2, <1>3, <1>4 DEF Arrives

\* Writes: the rest of a packet is sent before anything else.
LEMMA WriteEnds ==
    ASSUME Clean, Write
    PROVE  CallInv' /\ EndInv' /\ PartInv' /\ WriteInv'
<1> USE DEF Clean, Ready
<1>0. /\ c \in Channels /\ peer \in Servers /\ seen \in Histories
      /\ c.wr \in Nat /\ c.lwin \in Nat /\ c.lwin < Mod
  BY Numbers DEF TypeOK
<1>1. ASSUME NEW n \in WriteSizes, WriteEnter(n)
      PROVE  CallInv' /\ EndInv' /\ PartInv' /\ WriteInv'
  <2>1. /\ call'.op = "write" /\ call'.n = n /\ n >= 1
        /\ call'.ph = IF c.wr = 0 THEN "drain" ELSE "send"
        /\ ~c.freed /\ UNCHANGED <<c, queue, ignored, out, peer, budget, app>>
    <3>1. n >= 1
      BY StreamAssumption
    <3> QED BY <1>1, <3>1 DEF WriteEnter, Begin
  <2>2. (c.leof => seen'.late) /\ (seen.late => seen'.late)
    BY <1>0, <1>1 DEF WriteEnter, Histories
  <2>3. CloseSent' <=> CloseSent
    BY <2>1 DEF CloseSent
  <2>4. CallInv' /\ EndInv'
    BY <2>1, <2>2 DEF CallInv, EndInv
  <2>5. PartInv' /\ WriteInv'
    BY <1>0, <2>1, <2>2, <2>3 DEF PartInv, WriteInv
  <2> QED BY <2>4, <2>5
<1>2. CASE WriteBuilds \/ WriteAgain
  <2> DEFINE w == Min({call.n, c.lwin, PacketMax})
  <2>1. w \in Nat /\ w <= c.lwin /\ (c.lwin # 0 /\ call.n >= 1 => w > 0)
    <3>1. call.n \in Nat /\ c.lwin \in Nat /\ PacketMax \in Nat \ {0}
      BY Numbers
    <3>2. \A a, b, d \in Nat : LET m == Min({a, b, d}) IN m \in {a, b, d} /\ m \in Nat /\ m <= b
      BY LeastOfThree
    <3>3. w \in {call.n, c.lwin, PacketMax} /\ w \in Nat /\ w <= c.lwin
      BY <3>1, <3>2
    <3> HIDE DEF w
    <3> QED BY <3>1, <3>3
  <2>2. /\ call.op = "write" /\ call.ph # "send"
        /\ \/ Phase("wait") /\ UNCHANGED c
           \/ Phase("drain") /\ UNCHANGED c
           \/ c.lwin # 0 /\ c' = [c EXCEPT !.wr = w] /\ Phase("send")
        /\ UNCHANGED <<queue, ignored, out, peer, calls, budget, app, seen>>
    BY <1>2 DEF WriteBuilds, WriteAgain, In
  <2> HIDE DEF w
  <2>3. c.wr = 0 /\ call.n >= 1 /\ ~c.freed /\ (c.leof => seen.late)
    <3>1. call.n >= 1 /\ ~c.freed
      BY <2>2 DEF CallInv
    <3>2. c.leof => seen.late
      BY <2>2 DEF PartInv
    <3>3. c.wr = 0
      BY <1>0, <2>2 DEF WriteInv
    <3> QED BY <3>1, <3>2, <3>3
  <2>4. /\ call'.op = "write" /\ call'.n = call.n
        /\ \/ call'.ph \in {"wait", "drain"} /\ c' = c
           \/ call'.ph = "send" /\ c' = [c EXCEPT !.wr = w] /\ w > 0
    BY <2>1, <2>2, <2>3, SameCall
  <2>5. /\ c'.adj = c.adj /\ c'.freed = c.freed /\ c'.lwin = c.lwin
        /\ c'.leof = c.leof /\ c'.lclose = c.lclose /\ c'.closing = c.closing
        /\ c'.rclose = c.rclose /\ c'.reof = c.reof
        /\ (call'.ph = "send" <=> c'.wr > 0) /\ c'.wr <= c'.lwin
    <3>1. CASE call'.ph \in {"wait", "drain"} /\ c' = c
      BY <1>0, <2>3, <3>1
    <3>2. CASE call'.ph = "send" /\ c' = [c EXCEPT !.wr = w] /\ w > 0
      BY <1>0, <2>1, <3>2 DEF Channels
    <3> QED BY <2>4, <3>1, <3>2
  <2>6. CloseSent' <=> CloseSent
    BY <2>5 DEF CloseSent
  <2>7. CallInv' /\ EndInv'
    BY <2>2, <2>3, <2>4, <2>5 DEF CallInv, EndInv
  <2>8. PartInv'
    <3>1. out # None => out.type # "data"
      BY <2>3 DEF PartInv, Owner
    <3> QED BY <2>2, <2>3, <2>4, <2>5, <2>6, <3>1 DEF PartInv, Owner
  <2>9. WriteInv'
    BY <2>2, <2>5 DEF WriteInv
  <2> QED BY <2>7, <2>8, <2>9
<1>3. CASE WriteSends
  <2> DEFINE p == [type |-> "data", at |-> app.written, n |-> c.wr]
  <2>1. /\ call.op = "write" /\ call.ph = "send"
        /\ \/ /\ TransportSend(p) /\ c' = [c EXCEPT !.lwin = U32(@ - c.wr), !.wr = 0]
              /\ Returns([app EXCEPT !.written = @ + c.wr])
           \/ SendBlocks(p) /\ UNCHANGED <<c, app, call>>
        /\ UNCHANGED <<queue, ignored, calls, seen>>
    BY <1>3 DEF WriteSends, In
  <2>2. c.wr > 0 /\ ~c.freed /\ (c.leof => seen.late) /\ (CloseSent => c.leof)
    BY <2>1, ReadyIs DEF WriteInv, PartInv, EndInv, CloseSent
  <2>3. p.type = "data" /\ p.n = c.wr /\ p.at = app.written /\ p # None
    BY DEF None
  <2>4. CASE TransportSend(p)
    <3>1. OnWire(p) = p
      <4>1. CASE out # None /\ out.type = "data"
        <5>1. out.n = c.wr /\ out.at = app.written
          BY <4>1 DEF PartInv, Owner
        <5>2. out \in [type : {"data"}, at : Nat, n : Nat]
          BY <4>1 DEF TypeOK, Sent
        <5> QED BY <4>1, <5>1, <5>2 DEF OnWire
      <4> QED BY <2>4, <4>1 DEF TransportSend, CanSend, OnWire
    <3>2. /\ peer' = [peer EXCEPT !.got = @ + c.wr, !.owes = @ + c.wr,
                             !.wrong = @ \/ app.written # peer.got \/ peer.geof \/ peer.gclose]
          /\ out' = None
      <4>1. peer' = Delivered(p) /\ out' = None
        BY <2>4, <3>1 DEF TransportSend
      <4> HIDE DEF p
      <4>2. Delivered(p) = [peer EXCEPT !.got = @ + p.n, !.owes = @ + p.n,
                             !.wrong = @ \/ p.at # peer.got \/ peer.geof \/ peer.gclose]
        BY <2>3 DEF Delivered
      <4> QED BY <2>3, <4>1, <4>2
    <3>3. /\ peer'.got = peer.got + c.wr /\ peer'.owes = peer.owes + c.wr
          /\ (peer'.wrong => seen.late)
          /\ peer'.geof = peer.geof /\ peer'.gclose = peer.gclose /\ peer'.eof = peer.eof
          /\ peer'.close = peer.close
      <4>1. peer.wrong \/ app.written # peer.got \/ peer.geof \/ peer.gclose => seen.late
        BY <2>2 DEF WriteInv, EndInv
      <4> QED BY <1>0, <3>2, <4>1 DEF Servers
    <3>4. /\ c' = [c EXCEPT !.lwin = U32(@ - c.wr), !.wr = 0]
          /\ Returns([app EXCEPT !.written = @ + c.wr])
      <4>1. ~SendBlocks(p)
        BY <2>3, <2>4, <3>2 DEF SendBlocks
      <4> QED BY <2>1, <4>1
    <3>5. call'.op = "none" /\ call'.ph = "idle" /\ app'.written = app.written + c.wr
      <4>1. app.written + c.wr \in Nat
        BY Numbers
      <4>2. [app EXCEPT !.written = @ + c.wr] \in Apps /\ [app EXCEPT !.written = @ + c.wr].written = app.written + c.wr
        BY <4>1 DEF TypeOK, Apps
      <4> QED BY <3>4, <4>2, Ended
    <3>6. c'.lwin = c.lwin - c.wr /\ c'.wr = 0 /\ c'.wr <= c'.lwin
      <4>1. c.lwin - c.wr \in 0..(Mod - 1)
        BY <1>0, Widths DEF WriteInv
      <4>2. U32(c.lwin - c.wr) = c.lwin - c.wr
        BY <4>1, Widths
      <4>3. c'.lwin = c.lwin - c.wr /\ c'.wr = 0
        BY <1>0, <3>4, <4>2 DEF Channels
      <4> QED BY <4>1, <4>3
    <3>7. /\ c'.adj = c.adj /\ c'.freed = c.freed
          /\ c'.leof = c.leof /\ c'.lclose = c.lclose /\ c'.closing = c.closing
          /\ c'.rclose = c.rclose /\ c'.reof = c.reof
      BY <1>0, <3>4 DEF Channels
    <3>8. CallInv' /\ EndInv' /\ PartInv'
      BY <2>1, <2>2, <3>2, <3>3, <3>5, <3>7 DEF CallInv, EndInv, PartInv, Owner
    <3>9. WriteInv'
      <4>1. c.lwin - c.wr = PeerWindow - (peer.owes + c.wr)
        <5>1. peer.owes \in Nat /\ PeerWindow \in Nat
          BY Numbers, StreamAssumption
        <5> QED BY <1>0, <5>1 DEF WriteInv
      <4>2. app'.written = peer'.got
        BY <3>3, <3>5 DEF WriteInv
      <4> QED BY <2>1, <3>3, <3>5, <3>6, <4>1, <4>2 DEF WriteInv
    <3> QED BY <3>8, <3>9
  <2>5. CASE SendBlocks(p) /\ UNCHANGED <<c, app, call>>
    <3>1. out' = p /\ peer' = peer
      BY <2>5 DEF SendBlocks
    <3> HIDE DEF p
    <3>2. CloseSent' <=> CloseSent
      BY <2>5 DEF CloseSent
    <3>3. PartInv'
      BY <2>1, <2>2, <2>3, <2>5, <3>1, <3>2 DEF PartInv, Owner
    <3>4. CallInv' /\ EndInv' /\ WriteInv'
      BY <2>1, <2>5, <3>1 DEF CallInv, EndInv, WriteInv
    <3> QED BY <3>3, <3>4
  <2> QED BY <2>1, <2>4, <2>5
<1> QED BY <1>1, <1>2, <1>3 DEF Write

(* What an end of file or a close changes of the server. *)
SameData ==
  /\ peer'.eof = peer.eof /\ peer'.close = peer.close
  /\ peer'.got = peer.got /\ peer'.owes = peer.owes /\ peer'.wrong = peer.wrong

\* An end of file or a close that goes out is recorded by the server, and only that.
LEMMA EndOut ==
    ASSUME TypeOK, NEW p \in Sent \ {None}, p.type \in {"eof", "close"}, TransportSend(p)
    PROVE  /\ SameData /\ out' = None
           /\ p.type = "eof" => peer'.geof /\ peer'.gclose = peer.gclose /\ peer'.twice = peer.twice
           /\ p.type = "close" => /\ peer'.gclose /\ peer'.geof = peer.geof
                                  /\ peer'.twice <=> peer.twice \/ peer.gclose
<1>1. OnWire(p) \in Sent \ {None} /\ OnWire(p).type = p.type
  BY SendTypes DEF TypeOK, TransportSend
<1>2. p.type = "eof" => Delivered(OnWire(p)) = [peer EXCEPT !.geof = TRUE]
  BY <1>1 DEF Delivered
<1>3. p.type = "close" => Delivered(OnWire(p)) = [peer EXCEPT !.gclose = TRUE, !.twice = @ \/ peer.gclose]
  BY <1>1 DEF Delivered
<1> QED BY <1>2, <1>3 DEF TransportSend, SameData, TypeOK, Servers

\* The end of file.
LEMMA EofEnds ==
    ASSUME Clean, SendEofEnter \/ EofSends
    PROVE  CallInv' /\ EndInv' /\ PartInv' /\ WriteInv'
<1> USE DEF Clean, Ready
<1>0. c \in Channels /\ seen \in Histories
  BY DEF TypeOK
<1>1. CASE SendEofEnter
  <2>1. /\ call'.op = "send_eof" /\ call'.ph = "eof" /\ ~c.freed
        /\ UNCHANGED <<c, queue, ignored, out, peer, budget, app>>
    BY <1>1 DEF SendEofEnter, Begin
  <2>2. (c.leof => seen'.late) /\ (seen.late => seen'.late)
    BY <1>0, <1>1 DEF SendEofEnter, Histories
  <2>3. CloseSent' <=> CloseSent
    BY <2>1 DEF CloseSent
  <2>4. CallInv' /\ EndInv'
    BY <2>1, <2>2 DEF CallInv, EndInv
  <2>5. PartInv' /\ WriteInv'
    BY <2>1, <2>2, <2>3 DEF PartInv, WriteInv
  <2> QED BY <2>4, <2>5
<1>2. CASE EofSends
  <2> DEFINE p == [type |-> "eof", by |-> call.op]
  <2>1. call.ph = "eof" /\ call.op \in {"send_eof", "close", "free"} /\ ~c.freed
        /\ (call.op # "send_eof" => ~c.leof) /\ (CloseSent => c.leof)
    <3>1. call.ph = "eof" /\ call.op \in {"send_eof", "close", "free"}
      BY <1>2 DEF EofSends, CallOK, Calls, Ops
    <3> QED BY <3>1, ReadyIs DEF EndInv, CloseSent
  <2>2. p \in Sent \ {None} /\ p.type = "eof" /\ p.by = call.op
    BY <2>1 DEF Sent, None
  <2>3. /\ \/ /\ TransportSend(p) /\ c' = [c EXCEPT !.leof = TRUE]
              /\ \/ Returns(app)
                 \/ call.op # "send_eof" /\ Phase("close") /\ UNCHANGED app
           \/ SendBlocks(p) /\ UNCHANGED <<c, app, call>>
        /\ UNCHANGED <<queue, ignored, calls, seen>>
    BY <1>2 DEF EofSends
  <2> HIDE DEF p
  <2>4. CASE /\ TransportSend(p) /\ c' = [c EXCEPT !.leof = TRUE]
             /\ \/ Returns(app)
                \/ call.op # "send_eof" /\ Phase("close") /\ UNCHANGED app
    <3>1. SameData /\ out' = None /\ peer'.geof /\ peer'.gclose = peer.gclose /\ peer'.twice = peer.twice
      BY <2>2, <2>4, EndOut
    <3>2. /\ c'.leof /\ c'.adj = c.adj /\ c'.freed = c.freed /\ c'.wr = c.wr /\ c'.lwin = c.lwin
          /\ c'.lclose = c.lclose /\ c'.closing = c.closing
          /\ c'.rclose = c.rclose /\ c'.reof = c.reof
      BY <1>0, <2>4 DEF Channels
    <3>3. /\ app'.written = app.written
          /\ \/ call'.op = "none" /\ call'.ph = "idle"
             \/ call'.op \in {"close", "free"} /\ call'.ph = "close" /\ ~CloseSent
      <4>1. CASE Returns(app)
        BY <4>1, Ended DEF TypeOK
      <4>2. CASE call.op # "send_eof" /\ Phase("close") /\ UNCHANGED app
        BY <2>1, <4>2, SameCall
      <4> QED BY <2>4, <4>1, <4>2
    <3>4. CallInv' /\ EndInv'
      BY <2>1, <2>3, <3>1, <3>2, <3>3 DEF CallInv, EndInv, SameData, CloseSent
    <3>5. PartInv' /\ WriteInv'
      BY <2>3, <3>1, <3>2, <3>3 DEF PartInv, WriteInv, SameData
    <3> QED BY <3>4, <3>5
  <2>5. CASE SendBlocks(p) /\ UNCHANGED <<c, app, call>>
    <3>1. out' = p /\ peer' = peer
      BY <2>5 DEF SendBlocks
    <3>2. CloseSent' <=> CloseSent
      BY <2>5 DEF CloseSent
    <3>3. CloseSent => seen.late
      BY <2>1 DEF PartInv
    <3>4. CallInv' /\ EndInv' /\ WriteInv'
      BY <2>3, <2>5, <3>1 DEF CallInv, EndInv, WriteInv
    <3>5. PartInv'
      BY <2>1, <2>2, <2>3, <2>5, <3>1, <3>2, <3>3 DEF PartInv, Owner
    <3> QED BY <3>4, <3>5
  <2> QED BY <2>3, <2>4, <2>5
<1> QED BY <1>1, <1>2

\* The close, to the channel's end.
LEMMA CloseEndsClean ==
    ASSUME Clean,
           CloseEnter("close") \/ CloseEnter("free") \/ CloseSends \/ CloseEnds \/ FreeDisposes
    PROVE  CallInv' /\ EndInv' /\ PartInv' /\ WriteInv'
<1> USE DEF Clean, Ready
<1>0. c \in Channels /\ seen \in Histories
  BY DEF TypeOK
<1>1. ASSUME NEW op \in {"close", "free"}, CloseEnter(op)
      PROVE  CallInv' /\ EndInv' /\ PartInv' /\ WriteInv'
  <2>1. /\ call'.op \in {"close", "free"} /\ ~c.freed
        /\ \/ call'.ph = "dispose" /\ c.lclose
           \/ call'.ph = "eof" /\ ~c.leof
           \/ call'.ph = "wait" /\ c.closing = "sent"
           \/ call'.ph = "closed" /\ c.closing = "sent" /\ c.rclose
           \/ call'.ph = "close" /\ c.leof /\ ~c.lclose /\ c.closing # "sent"
        /\ UNCHANGED <<c, queue, ignored, out, peer, budget, app, seen>>
    BY <1>1 DEF CloseEnter, CloseStart, CloseWait, Begin
  <2>2. CloseSent' <=> CloseSent
    BY <2>1 DEF CloseSent
  <2>3. CallInv' /\ EndInv'
    BY <2>1 DEF CallInv, EndInv
  <2>4. PartInv' /\ WriteInv'
    BY <2>1, <2>2 DEF PartInv, WriteInv
  <2> QED BY <2>3, <2>4
<1>2. CASE CloseSends
  <2> DEFINE p == [type |-> "close"]
  <2>1. /\ call.ph = "close" /\ call.op \in {"close", "free"} /\ ~c.freed
        /\ c.leof /\ ~c.lclose /\ c.closing # "sent"
    <3>1. call.ph = "close" /\ call.op \in {"close", "free"}
      BY <1>2 DEF CloseSends, CallOK, Calls, Ops
    <3> QED BY <3>1, ReadyIs DEF EndInv
  <2>2. p \in Sent \ {None} /\ p.type = "close"
    BY DEF Sent, None
  <2>3. /\ \/ TransportSend(p) /\ c' = [c EXCEPT !.closing = "sent"] /\ Phase(CloseWait)
           \/ SendBlocks(p) /\ c' = [c EXCEPT !.closing = "created"] /\ UNCHANGED call
        /\ UNCHANGED <<queue, ignored, calls, app, seen>>
    BY <1>2 DEF CloseSends
  <2> HIDE DEF p
  <2>4. /\ c'.leof = c.leof /\ c'.adj = c.adj /\ c'.freed = c.freed /\ c'.wr = c.wr
        /\ c'.lwin = c.lwin /\ c'.lclose = c.lclose
        /\ c'.rclose = c.rclose /\ c'.reof = c.reof
    BY <1>0, <2>3 DEF Channels
  <2>5. CASE TransportSend(p) /\ c' = [c EXCEPT !.closing = "sent"] /\ Phase(CloseWait)
    <3>1. /\ SameData /\ out' = None /\ peer'.gclose /\ peer'.geof = peer.geof
          /\ peer'.twice <=> peer.twice \/ peer.gclose
      BY <2>2, <2>5, EndOut
    <3>2. c'.closing = "sent"
      BY <1>0, <2>5 DEF Channels
    <3>3. call'.op = call.op /\ (call'.ph = "wait" \/ (call'.ph = "closed" /\ c.rclose))
      BY <2>5, SameCall DEF CloseWait
    <3>4. CallInv' /\ EndInv'
      BY <2>1, <2>3, <2>4, <3>1, <3>2, <3>3 DEF CallInv, EndInv, SameData
    <3>5. PartInv' /\ WriteInv'
      BY <2>1, <2>3, <2>4, <3>1, <3>3 DEF PartInv, WriteInv, SameData
    <3> QED BY <3>4, <3>5
  <2>6. CASE SendBlocks(p) /\ c' = [c EXCEPT !.closing = "created"] /\ UNCHANGED call
    <3>1. out' = p /\ peer' = peer
      BY <2>6 DEF SendBlocks
    <3>2. c'.closing = "created"
      BY <1>0, <2>6 DEF Channels
    <3>3. ~CloseSent'
      BY <2>1, <2>4, <3>2 DEF CloseSent
    <3>4. CallInv' /\ EndInv' /\ WriteInv'
      BY <2>1, <2>3, <2>4, <2>6, <3>1, <3>2 DEF CallInv, EndInv, WriteInv
    <3>5. PartInv'
      BY <2>1, <2>2, <2>6, <3>1, <3>2, <3>3 DEF PartInv, Owner
    <3> QED BY <3>4, <3>5
  <2> QED BY <2>3, <2>5, <2>6
<1>3. CASE CloseEnds
  <2>1. /\ call.op \in {"close", "free"} /\ call.ph = "closed" /\ ignored = 0 /\ ~c.freed
        /\ c.closing = "sent" /\ c.leof /\ peer.gclose
        /\ UNCHANGED <<queue, ignored, out, peer, calls, budget, seen>>
    BY <1>3, ReadyIs DEF CloseEnds, EndInv
  <2>2. /\ c'.lclose /\ c'.closing = "idle"
        /\ c'.leof = c.leof /\ c'.adj = c.adj /\ c'.freed = c.freed /\ c'.wr = c.wr
        /\ c'.lwin = c.lwin /\ c'.rclose = c.rclose /\ c'.reof = c.reof
    BY <1>0, <1>3 DEF CloseEnds, Channels
  <2>3. /\ app'.written = app.written
        /\ \/ call'.op = "none" /\ call'.ph = "idle"
           \/ call'.op = "free" /\ call'.ph = "dispose"
    <3>1. CASE Returns(app)
      BY <3>1, Ended DEF TypeOK
    <3>2. CASE call.op # "close" /\ Phase("dispose") /\ UNCHANGED app
      BY <2>1, <3>2, SameCall
    <3> QED BY <1>3, <3>1, <3>2 DEF CloseEnds
  <2>4. CallInv' /\ EndInv'
    BY <2>1, <2>2, <2>3 DEF CallInv, EndInv
  <2>5. PartInv'
    <3>1. CloseSent
      BY <2>1 DEF CloseSent
    <3> QED BY <2>1, <2>2, <2>3, <3>1 DEF PartInv, Owner
  <2>6. WriteInv'
    BY <2>1, <2>2, <2>3 DEF WriteInv
  <2> QED BY <2>4, <2>5, <2>6
<1>4. CASE FreeDisposes
  <2>1. call.op = "free" /\ c.lclose /\ UNCHANGED <<ignored, out, peer, calls, budget, seen>>
    BY <1>4 DEF FreeDisposes, In, EndInv
  <2>2. /\ c'.lclose = c.lclose /\ c'.closing = c.closing
        /\ c'.leof = c.leof /\ c'.adj = c.adj /\ c'.wr = c.wr
        /\ c'.lwin = c.lwin /\ c'.rclose = c.rclose /\ c'.reof = c.reof
    BY <1>0, <1>4 DEF FreeDisposes, Channels
  <2>3. call'.op = "none" /\ call'.ph = "idle" /\ app'.written = app.written
    BY <1>4, Ended DEF FreeDisposes, TypeOK
  <2>4. CloseSent' <=> CloseSent
    BY <2>2 DEF CloseSent
  <2>5. CallInv' /\ EndInv'
    BY <2>1, <2>2, <2>3 DEF CallInv, EndInv
  <2>6. PartInv' /\ WriteInv'
    BY <2>1, <2>2, <2>3, <2>4 DEF PartInv, WriteInv, Owner
  <2> QED BY <2>5, <2>6
<1> QED BY <1>1, <1>2, <1>3, <1>4

\* Every step keeps the ends of the channel clean.
LEMMA CleanStep ==
    ASSUME Clean, Next
    PROVE  Clean'
<1>1. TypeOK' /\ CallOK(call')
  BY TypeStep DEF Clean, Ready
<1>2. Ready
  BY DEF Clean
<1>3. CASE Quiet /\ CallInv'
  BY <1>1, <1>3, QuietKeeps DEF Clean, Ready
<1>4. RefundsIgnored => Quiet /\ CallInv'
  BY <1>2, RefundQuiet
<1>5. Read => Quiet /\ CallInv'
  BY <1>2, ReadQuiet
<1>6. Flush => Quiet /\ CallInv'
  BY <1>2, FlushQuiet
<1>7. (\E n \in ReadSizes, force \in BOOLEAN : WindowAdjust(n, force)) \/ WindowAdjusted
        => Quiet /\ CallInv'
  BY <1>2, WindowQuiet
<1>8. (\/ \E mode \in {"normal", "merge", "ignore"} : HandleExtendedData(mode)
       \/ WaitEofEnter \/ WaitEofEnds \/ WaitClosedEnter \/ WaitClosedEnds \/ Abandon
       \/ OtherArrives)
        => Quiet /\ CallInv'
  BY <1>2, OtherQuiet
<1>9. CASE CallInv' /\ EndInv' /\ PartInv' /\ WriteInv'
  BY <1>1, <1>9 DEF Clean, Ready
<1>10. CASE Arrives \/ Write
  BY <1>9, <1>10, ArriveEnds, WriteEnds
<1>11. CASE Close
  <2>1. CASE WaitEofEnter \/ WaitEofEnds \/ WaitClosedEnter \/ WaitClosedEnds
    BY <1>3, <1>8, <2>1
  <2>2. CASE SendEofEnter \/ EofSends
    BY <1>9, <2>2, EofEnds
  <2>3. CASE CloseEnter("close") \/ CloseEnter("free") \/ CloseSends \/ CloseEnds \/ FreeDisposes
    BY <1>9, <2>3, CloseEndsClean
  <2> QED BY <1>11, <2>1, <2>2, <2>3 DEF Close
<1>12. CASE RefundsIgnored \/ Read \/ Flush
  BY <1>3, <1>4, <1>5, <1>6, <1>12
<1>13. CASE (\E n \in ReadSizes, force \in BOOLEAN : WindowAdjust(n, force)) \/ WindowAdjusted
  BY <1>3, <1>7, <1>13
<1>14. CASE (\E mode \in {"normal", "merge", "ignore"} : HandleExtendedData(mode)) \/ Abandon \/ OtherArrives
  BY <1>3, <1>8, <1>14
<1> QED BY <1>10, <1>11, <1>12, <1>13, <1>14 DEF Next

\* A channel just opened.
LEMMA CleanInit == Init => Clean
<1> SUFFICES ASSUME Init PROVE Clean
  OBVIOUS
<1>1. 0 \in 0..(Mod - 1) /\ 0 \in 0..(Mod * Mod - 1) /\ Window \in 0..(Mod - 1) /\ Window \in Nat
      /\ PeerWindow \in 0..(Mod - 1) /\ PeerWindow \in Nat /\ 0 \in 0..PacketMax
      /\ MaxBlock \in Nat /\ MaxAbandon \in Nat
  BY StreamAssumption, Widths
<1>2. c = Channel /\ Channel \in Channels
  <2>1. [on |-> FALSE, refund |-> 0, bytes |-> 0] \in
          [on : BOOLEAN, refund : 0..(Mod * Mod - 1), bytes : Nat]
    BY <1>1
  <2> QED BY <1>1, <2>1 DEF Init, Channel, Channels
<1>3. peer \in Servers /\ app \in Apps /\ budget \in Budgets /\ seen \in Histories
  BY <1>1 DEF Init, Servers, Apps, Budgets, Histories, Ops
<1>4. call = NoCall /\ NoCall \in Calls
  BY DEF Init, NoCall, Calls, Ops
<1>5. queue \in Seq(Packets) /\ out = None /\ out \in Sent /\ ignored = 0 /\ calls = 0
  BY EmptySeq DEF Init, Sent
<1>6. TypeOK /\ CallOK(call)
  BY <1>1, <1>2, <1>3, <1>4, <1>5 DEF TypeOK, CallOK, NoCall
<1>7. CallInv /\ PartInv
  BY <1>2, <1>4, <1>5 DEF CallInv, PartInv, NoCall, Channel, CloseSent
<1>8. EndInv /\ WriteInv
  BY <1>1, <1>2, <1>4, <1>5 DEF Init, EndInv, WriteInv, NoCall, Channel
<1> QED BY <1>6, <1>7, <1>8 DEF Clean, Ready

\* A step that changes nothing keeps it.
LEMMA CleanStutter == Clean /\ UNCHANGED vars => Clean'
<1>1. UNCHANGED vars => (CloseSent' <=> CloseSent)
  BY DEF vars, CloseSent
<1>2. TypeOK /\ UNCHANGED vars => TypeOK'
  BY DEF vars, TypeOK
<1>3. CallInv /\ EndInv /\ WriteInv /\ UNCHANGED vars => CallInv' /\ EndInv' /\ WriteInv'
  BY DEF vars, CallInv, EndInv, WriteInv
<1>4. PartInv /\ UNCHANGED vars => PartInv'
  BY <1>1 DEF vars, PartInv
<1>5. CallOK(call) /\ UNCHANGED vars => CallOK(call')
  BY DEF vars, CallOK
<1> QED BY <1>2, <1>3, <1>4, <1>5 DEF Clean, Ready

\* The invariant the close rests on.
THEOREM AlwaysClean == Spec => []Clean
<1>1. Clean /\ [Next]_vars => Clean'
  BY CleanStep, CleanStutter
<1> QED BY <1>1, CleanInit, PTL DEF Spec

\* A channel that is closed or freed has told the server so, once and behind its end of
\* file, and takes no part of a packet with it.
THEOREM CloseCorrect == Spec => []CloseIsClean
<1>1. Clean => CloseIsClean
  <2> SUFFICES ASSUME Clean PROVE CloseIsClean
    OBVIOUS
  <2> USE DEF Clean, Ready
  <2>1. CloseIsTold
    BY DEF CloseIsTold, EndInv, CallInv
  <2>2. c.freed /\ out # None => seen.late
    <3>1. c.freed => CloseSent /\ (ignored # 0 => seen.late)
      BY DEF CallInv, EndInv, CloseSent
    <3> QED BY <3>1 DEF PartInv
  <2>3. HalfSentHasOwner
    <3> SUFFICES ASSUME out # None PROVE HalfSentHasOwner
      BY DEF HalfSentHasOwner
    <3>1. Owner(out, c, app.written)
      BY DEF PartInv
    <3>2. out.type \in {"adjust", "data", "eof", "close"}
      BY DEF TypeOK, Sent
    <3> QED BY <2>2, <3>1, <3>2 DEF HalfSentHasOwner, Owner
  <2> QED BY <2>1, <2>3 DEF CloseIsClean
<1> QED BY <1>1, AlwaysClean, PTL

-----------------------------------------------------------------------------
(* The windows. *)

(* What holds of the windows. *)
Windows == WindowInv /\ ByHandInv /\ SkipInv /\ ReadInv /\ GrantInv

\* What a read of any size may grant.
LEMMA LargestIs ==
    /\ LargestGrant \in Nat /\ Window <= LargestGrant
    /\ \A n \in ReadSizes : /\ n \in Nat \ {0}
                            /\ Window + n + MinAdjust <= LargestGrant
                            /\ 2 * n - 1 <= LargestGrant
<1> DEFINE m == Max(ReadSizes)
<1>1. m \in ReadSizes /\ \A k \in ReadSizes : k <= m
  <2>1. Mod - 1 \in Nat /\ ReadSizes \in SUBSET (1..(Mod - 1)) /\ ReadSizes # {}
    BY StreamAssumption
  <2>2. \E i \in ReadSizes : \A j \in ReadSizes : j <= i
    BY <2>1, LastPosition
  <2> QED BY <2>2 DEF Max
<1>2. \A k \in ReadSizes : k \in Nat \ {0}
  BY StreamAssumption
<1>3. Window \in Nat \ {0} /\ MinAdjust \in Nat \ {0}
  BY StreamAssumption
<1> HIDE DEF m
<1> DEFINE x == Window + m + MinAdjust
           y == 2 * m - 1
<1>4. x \in Nat /\ y \in Nat
  BY <1>1, <1>2, <1>3
<1>5. LargestGrant = IF x <= y THEN y ELSE x
  <2> HIDE DEF x, y
  <2>1. LargestGrant = Max({x, y})
    BY DEF LargestGrant, m, x, y
  <2> QED BY <1>4, <2>1, MostOf
<1>6. LargestGrant \in Nat /\ x <= LargestGrant /\ y <= LargestGrant
  <2> HIDE DEF x, y
  <2> QED BY <1>4, <1>5
<1>7. ASSUME NEW n \in ReadSizes
      PROVE  Window + n + MinAdjust <= x /\ 2 * n - 1 <= y /\ n \in Nat \ {0}
  BY <1>1, <1>2, <1>3
<1>8. Window <= x
  BY <1>1, <1>2, <1>3
<1>9. ASSUME NEW n \in ReadSizes
      PROVE  Window + n + MinAdjust <= LargestGrant /\ 2 * n - 1 <= LargestGrant /\ n \in Nat \ {0}
  <2>1. n \in Nat /\ x \in Nat /\ y \in Nat /\ LargestGrant \in Nat /\ Window \in Nat /\ MinAdjust \in Nat
    BY <1>3, <1>4, <1>6, <1>7
  <2>2. Window + n + MinAdjust <= x /\ 2 * n - 1 <= y /\ x <= LargestGrant /\ y <= LargestGrant
    BY <1>6, <1>7
  <2> HIDE DEF x, y
  <2> QED BY <1>7, <2>1, <2>2
<1>10. Window <= LargestGrant
  <2>1. Window \in Nat /\ x \in Nat /\ LargestGrant \in Nat
    BY <1>3, <1>4, <1>6
  <2> HIDE DEF x
  <2> QED BY <1>6, <1>8, <2>1
<1> QED BY <1>6, <1>9, <1>10

\* What is granted for ignored data is a packet.
LEMMA ExtraIs ==
    ASSUME TypeOK
    PROVE  Extra \in Nat /\ (SkipInv => ignored <= Extra)
<1>1. PacketMax \in Nat /\ ignored \in Nat /\ ignored <= PacketMax
  BY Numbers
<1> QED BY <1>1 DEF Extra, SkipInv

\* An adjust that is not off widens both windows by the same.
LEMMA Widened ==
    ASSUME TypeOK, NEW p \in Sent \ {None}, p.type = "adjust", TransportSend(p),
           NEW amt \in Nat, ~Off(amt, OnWire(p).n)
    PROVE  peer'.credit = peer.credit + amt /\ U32(c.rwin + amt) = c.rwin + amt
<1>1. amt = OnWire(p).n /\ c.rwin + amt < Mod
  <2>1. c.rwin \in Nat /\ c.rwin + amt \in Nat /\ Mod \in Nat
    BY Numbers, Widths
  <2> QED BY <2>1 DEF Off
<1>2. peer' = [peer EXCEPT !.credit = @ + amt]
  BY <1>1, AdjustOut
<1>3. c.rwin + amt \in 0..(Mod - 1)
  BY <1>1, Numbers, Widths
<1> QED BY <1>2, <1>3, Widths DEF TypeOK, Servers

(* Nothing of the windows changes. *)
SameWindow ==
  /\ c'.rwin = c.rwin /\ c'.avail = c.avail /\ c'.adjq = c.adjq /\ c'.flush = c.flush
  /\ c'.freed = c.freed
  /\ queue' = queue /\ ignored' = ignored /\ peer'.credit = peer.credit
  /\ seen'.skewed = seen.skewed /\ seen'.byHand = seen.byHand /\ seen'.skipped = seen.skipped
OtherCall ==
  call' = call \/ (call'.op \notin {"read", "flush", "window_adjust"} /\ ~In("flush", "count"))

\* A step that leaves the windows and the calls that go by them alone.
LEMMA FrameKeeps ==
    ASSUME Windows, SameWindow, OtherCall
    PROVE  Windows'
<1> USE DEF Windows, SameWindow
<1>1. Pending' = Pending
  BY DEF Pending, In, OtherCall
<1>2. Extra' = Extra
  BY DEF Extra
<1>3. WindowInv'
  BY <1>1 DEF WindowInv
<1>4. ByHandInv'
  BY DEF ByHandInv, OtherCall
<1>5. SkipInv' /\ GrantInv'
  BY <1>2 DEF SkipInv, GrantInv
<1>6. ReadInv'
  BY DEF ReadInv, OtherCall
<1> QED BY <1>3, <1>4, <1>5, <1>6

\* What does not touch the windows.
LEMMA OtherWindows ==
    ASSUME Ready, Windows,
           \/ Write \/ SendEofEnter \/ EofSends \/ CloseSends \/ CloseEnds
           \/ CloseEnter("close") \/ CloseEnter("free")
           \/ \E mode \in {"normal", "merge", "ignore"} : HandleExtendedData(mode)
           \/ WaitEofEnter \/ WaitEofEnds \/ WaitClosedEnter \/ WaitClosedEnds \/ Abandon
           \/ OtherArrives
    PROVE  Windows'
<1> USE DEF Ready
<1>0. c \in Channels /\ seen \in Histories /\ peer \in Servers
  BY DEF TypeOK
<1>1. CASE \/ \E mode \in {"normal", "merge", "ignore"} : HandleExtendedData(mode)
           \/ WaitEofEnds \/ WaitClosedEnter \/ WaitClosedEnds \/ Abandon
           \/ CloseEnter("close") \/ CloseEnter("free") \/ CloseEnds \/ OtherArrives
  <2>1. /\ UNCHANGED <<queue, ignored, peer, seen>>
        /\ OtherCall
    <3>1. ASSUME Returns(app), ~In("flush", "count") PROVE OtherCall
      BY <3>1 DEF Returns, NoCall, OtherCall
    <3>2. ASSUME NEW op \in {"wait_closed", "close", "free"}, NEW ph, Begin(op, ph, 0, 0)
          PROVE  OtherCall
      BY <3>2 DEF Begin, OtherCall, NoCall, In
    <3>3. ASSUME call.op # "read", call.op # "flush", call.op # "window_adjust",
                  NEW ph, Phase(ph)
          PROVE  OtherCall
      <4>1. call'.op = call.op
        BY <3>3, SameCall
      <4> QED BY <3>3, <4>1 DEF OtherCall, In
    <3>4. CASE WaitEofEnds \/ WaitClosedEnds \/ Abandon
      <4>1. Returns(app) /\ ~In("flush", "count") /\ UNCHANGED <<queue, ignored, peer, seen>>
        BY <3>4 DEF WaitEofEnds, WaitClosedEnds, Abandon, In
      <4> QED BY <3>1, <4>1
    <3>5. CASE WaitClosedEnter \/ CloseEnter("close") \/ CloseEnter("free")
      <4>1. /\ \E op \in {"wait_closed", "close", "free"} : \E ph : Begin(op, ph, 0, 0)
            /\ UNCHANGED <<queue, ignored, peer, seen>>
        BY <3>5 DEF WaitClosedEnter, CloseEnter
      <4> QED BY <3>2, <4>1
    <3>6. CASE CloseEnds
      <4>1. /\ call.op \in {"close", "free"} /\ (Returns(app) \/ Phase("dispose"))
            /\ UNCHANGED <<queue, ignored, peer, seen>>
        BY <3>6 DEF CloseEnds
      <4> QED BY <3>1, <3>3, <4>1 DEF In
    <3>7. CASE \E mode \in {"normal", "merge", "ignore"} : HandleExtendedData(mode)
      BY <3>7 DEF HandleExtendedData, OtherCall
    <3>8. CASE OtherArrives
      <4>1. call.op \in {"close", "free"} /\ Phase("closed") /\ UNCHANGED <<queue, ignored, peer, seen>>
        BY <3>8 DEF OtherArrives, WaitsForClose
      <4> QED BY <3>3, <4>1
    <3> QED BY <1>1, <3>4, <3>5, <3>6, <3>7, <3>8
  <2>2. /\ c'.rwin = c.rwin /\ c'.avail = c.avail /\ c'.adjq = c.adjq /\ c'.flush = c.flush
        /\ c'.freed = c.freed
    <3>1. ASSUME NEW mode, HandleExtendedData(mode)
          PROVE  /\ c'.rwin = c.rwin /\ c'.avail = c.avail /\ c'.adjq = c.adjq
                 /\ c'.flush = c.flush /\ c'.freed = c.freed
      BY <1>0, <3>1 DEF HandleExtendedData, Channels
    <3>2. CASE c' = c \/ c' = [c EXCEPT !.lclose = TRUE, !.closing = "idle"]
      BY <1>0, <3>2 DEF Channels
    <3>3. (\E mode \in {"normal", "merge", "ignore"} : HandleExtendedData(mode))
          \/ c' = c \/ c' = [c EXCEPT !.lclose = TRUE, !.closing = "idle"]
      BY <1>1 DEF WaitEofEnds, WaitClosedEnter, WaitClosedEnds,
                  Abandon, CloseEnter, CloseEnds, OtherArrives
    <3> QED BY <3>1, <3>2, <3>3
  <2> QED BY <2>1, <2>2, FrameKeeps DEF SameWindow
<1>2. CASE Write \/ SendEofEnter \/ WaitEofEnter \/ EofSends \/ CloseSends
  <2>1. /\ UNCHANGED <<queue, ignored>>
        /\ seen' = seen \/ \E x : seen' = [seen EXCEPT !.late = @ \/ x]
    BY <1>2 DEF Write, WriteEnter, WriteBuilds, WriteAgain, WriteSends, SendEofEnter, WaitEofEnter,
                EofSends, CloseSends
  <2>2. \/ c' = c \/ \E x : c' = [c EXCEPT !.wr = x]
        \/ \E x : c' = [c EXCEPT !.lwin = x, !.wr = 0]
        \/ c' = [c EXCEPT !.leof = TRUE]
        \/ \E x : c' = [c EXCEPT !.closing = x]
    BY <1>2 DEF Write, WriteEnter, WriteBuilds, WriteAgain, WriteSends, SendEofEnter, WaitEofEnter,
                EofSends, CloseSends
  <2>3. /\ c'.rwin = c.rwin /\ c'.avail = c.avail /\ c'.adjq = c.adjq /\ c'.flush = c.flush
        /\ c'.freed = c.freed
    BY <1>0, <2>2 DEF Channels
  <2>4. seen'.skewed = seen.skewed /\ seen'.byHand = seen.byHand /\ seen'.skipped = seen.skipped
    BY <1>0, <2>1 DEF Histories
  <2>5. peer'.credit = peer.credit
    <3>1. CASE SendEofEnter \/ WaitEofEnter \/ peer' = peer
      BY <3>1 DEF SendEofEnter, WaitEofEnter
    <3>2. ASSUME NEW p \in Sent \ {None}, p.type \in {"eof", "close", "data"}, TransportSend(p)
          PROVE  peer'.credit = peer.credit
      <4>1. OnWire(p) \in Sent \ {None} /\ OnWire(p).type = p.type
        BY <3>2, SendTypes DEF TypeOK, TransportSend
      <4>2. Delivered(OnWire(p)).credit = peer.credit
        <5>1. CASE p.type = "eof"
          BY <1>0, <4>1, <5>1 DEF Delivered, Servers
        <5>2. CASE p.type = "close"
          BY <1>0, <4>1, <5>2 DEF Delivered, Servers
        <5>3. CASE p.type = "data"
          <6> DEFINE w == OnWire(p)
          <6>1. Delivered(w) = [peer EXCEPT !.got = @ + w.n, !.owes = @ + w.n,
                             !.wrong = @ \/ w.at # peer.got \/ peer.geof \/ peer.gclose]
            BY <4>1, <5>3 DEF Delivered
          <6> HIDE DEF w
          <6>2. Delivered(w).credit = peer.credit
            BY <1>0, <6>1 DEF Servers
          <6> QED BY <6>2 DEF w
        <5> QED BY <3>2, <5>1, <5>2, <5>3
      <4> QED BY <3>2, <4>2 DEF TransportSend
    <3>3. \/ peer' = peer
          \/ \E p \in Sent \ {None} : p.type \in {"eof", "close", "data"} /\ TransportSend(p)
      <4>1. CASE Write
        <5>1. [type |-> "data", at |-> app.written, n |-> c.wr] \in Sent \ {None}
          BY Numbers DEF Sent, None
        <5> QED BY <4>1, <5>1 DEF Write, WriteEnter, WriteBuilds, WriteAgain, WriteSends, SendBlocks
      <4>2. CASE EofSends
        <5>1. call.op \in {"send_eof", "close", "free"}
          BY <4>2 DEF EofSends, CallOK, Calls, Ops
        <5>2. [type |-> "eof", by |-> call.op] \in Sent \ {None}
          BY <5>1 DEF Sent, None
        <5> QED BY <4>2, <5>2 DEF EofSends, SendBlocks
      <4>3. CASE CloseSends
        <5>1. [type |-> "close"] \in Sent \ {None}
          BY DEF Sent, None
        <5> QED BY <4>3, <5>1 DEF CloseSends, SendBlocks
      <4> QED BY <1>2, <4>1, <4>2, <4>3 DEF SendEofEnter, WaitEofEnter
    <3> QED BY <3>1, <3>2, <3>3
  <2>6. OtherCall
    <3>1. CASE call' = call
      BY <3>1 DEF OtherCall
    <3>2. ASSUME NEW after, Returns(after), call.op # "flush" PROVE OtherCall
      BY <3>2 DEF Returns, NoCall, OtherCall, In
    <3>3. ASSUME NEW op \in {"write", "send_eof", "wait_eof"}, NEW ph, NEW n, Begin(op, ph, 0, n) PROVE OtherCall
      BY <3>3 DEF Begin, OtherCall, NoCall, In
    <3>4. ASSUME call.op \notin {"read", "flush", "window_adjust"}, NEW ph, Phase(ph) PROVE OtherCall
      <4>1. call'.op = call.op
        BY <3>4, SameCall
      <4> QED BY <3>4, <4>1 DEF OtherCall, In
    <3>5. CASE Write
      <4>1. \/ \E ph, n : Begin("write", ph, 0, n)
            \/ call.op = "write" /\ ((\E ph : Phase(ph)) \/ (\E after : Returns(after)) \/ call' = call)
        BY <3>5 DEF Write, WriteEnter, WriteBuilds, WriteAgain, WriteSends, In
      <4> QED BY <3>1, <3>2, <3>3, <3>4, <4>1
    <3>6. CASE SendEofEnter \/ WaitEofEnter
      BY <3>3, <3>6 DEF SendEofEnter, WaitEofEnter
    <3>7. CASE EofSends \/ CloseSends
      <4>1. call.op \in {"send_eof", "close", "free"}
        BY <3>7 DEF EofSends, CloseSends, CallOK, Calls, Ops
      <4>2. Returns(app) \/ (\E ph : Phase(ph)) \/ call' = call
        BY <3>7 DEF EofSends, CloseSends
      <4> QED BY <3>1, <3>2, <3>4, <4>1, <4>2
    <3> QED BY <1>2, <3>5, <3>6, <3>7
  <2> QED BY <2>1, <2>3, <2>4, <2>5, <2>6, FrameKeeps DEF SameWindow
<1> QED BY <1>1, <1>2

\* What arrives is taken out of the server's window, and fits.
LEMMA ArriveWindows ==
    ASSUME Ready, Windows, Arrives
    PROVE  Windows'
<1> USE DEF Ready
<1>0. c \in Channels /\ seen \in Histories /\ peer \in Servers /\ queue \in Seq(Packets)
  BY DEF TypeOK
<1>1. /\ ignored = 0 /\ call.ph \in {"drain", "wait"} /\ ~c.freed
      /\ Pending = 0
  <2>1. ignored = 0 /\ call.ph \in {"drain", "wait"}
    BY DEF Arrives, Reading
  <2>2. call.op # "none"
    BY <2>1 DEF CallOK
  <2> QED BY <2>1, <2>2, ReadyIs DEF Pending, In
<1>g. /\ call'.op = call.op /\ (call.op \in {"read", "flush", "window_adjust"} => call' = call)
      /\ ~In("flush", "count")'
  <2>1. call'.op = call.op /\ (call.op \in {"read", "flush", "window_adjust"} => call' = call)
    BY GoesOnIs DEF Arrives, WaitsForClose
  <2>2. call.ph # "count"
    BY <1>1
  <2> QED BY <2>1, <2>2 DEF In
<1>2. /\ c.rwin \in Nat /\ c.rwin < Mod /\ c.avail \in Nat /\ peer.credit \in Nat
      /\ Unread(queue) \in Nat /\ PacketMax \in Nat
  BY <1>0, Numbers, UnreadIs
<1>3. ASSUME NEW s \in Streams, NEW n \in 1..PacketMax, n <= peer.credit, PacketAddData(s, n)
      PROVE  Windows'
  <2> DEFINE room == Size(c.rwin - c.avail)
             take == Min({n, room})
             ignore == c.ignore /\ s = 1
             credit == [peer EXCEPT !.sent[s] = @ + n, !.credit = @ - n]
  <2>1. /\ peer' = credit
        /\ \/ ignore /\ c' = [c EXCEPT !.rwin = U32(@ - take)] /\ ignored' = take
              /\ seen' = [seen EXCEPT !.skipped = @ \cup {1}] /\ UNCHANGED queue
           \/ ~ignore /\ c.rwin <= c.avail /\ UNCHANGED <<c, queue, ignored, seen>>
           \/ ~ignore /\ ~(c.rwin <= c.avail) /\ queue' = Append(queue, Packet(s, take))
              /\ c' = [c EXCEPT !.avail = Size(@ + take), !.reof = FALSE]
              /\ UNCHANGED <<ignored, seen>>
    BY <1>3 DEF PacketAddData
  <2>2. n \in Nat \ {0} /\ n <= PacketMax
    BY <1>2
  <2>3. take \in Nat /\ take <= n /\ (~(c.rwin <= c.avail) => take > 0)
    <3>1. room \in Nat /\ (~(c.rwin <= c.avail) => room > 0)
      <4>1. ~(c.rwin <= c.avail) => c.rwin - c.avail \in 0..(Mod - 1) /\ c.rwin - c.avail > 0
        BY <1>2, Widths
      <4>2. c.rwin - c.avail \in Int
        BY <1>2
      <4> QED BY <4>1, <4>2, Widths
    <3> HIDE DEF room
    <3> QED BY <2>2, <3>1, LeastOf
  <2>4. ASSUME ~seen.skewed PROVE take = n /\ c.rwin = peer.credit + c.avail /\ c.avail = Unread(queue)
    <3>1. c.rwin = peer.credit + c.avail /\ c.avail = Unread(queue)
      BY <1>1, <1>2, <2>4 DEF Windows, WindowInv
    <3>2. room = peer.credit
      <4>1. c.rwin - c.avail = peer.credit /\ peer.credit \in 0..(Mod - 1)
        BY <1>2, <3>1, Widths
      <4> QED BY <4>1, Widths
    <3> HIDE DEF room
    <3>3. take = n
      BY <1>2, <1>3, <2>2, <3>2, LeastOf
    <3> QED BY <3>1, <3>3
  <2>5. peer'.credit = peer.credit - n
    BY <1>0, <2>1 DEF Servers
  <2> HIDE DEF take, ignore, credit
  <2>6. CASE ignore /\ c' = [c EXCEPT !.rwin = U32(@ - take)] /\ ignored' = take
              /\ seen' = [seen EXCEPT !.skipped = @ \cup {1}] /\ UNCHANGED queue
    <3>1. /\ c'.rwin = U32(c.rwin - take) /\ c'.avail = c.avail /\ c'.adjq = c.adjq
          /\ c'.flush = c.flush /\ c'.freed = c.freed
      BY <1>0, <2>6 DEF Channels
    <3>2. /\ seen'.skewed = seen.skewed /\ seen'.byHand = seen.byHand
          /\ 1 \in seen'.skipped
      BY <1>0, <2>6 DEF Histories
    <3>3. Pending' = 0
      BY <1>g DEF Pending
    <3>4. ByHandInv'
      BY <1>1, <1>g, <3>1, <3>2 DEF Windows, ByHandInv
    <3>5. SkipInv' /\ Extra' = PacketMax
      BY <3>2 DEF SkipInv, Extra
    <3>6. ASSUME ~seen'.skewed
          PROVE  /\ c'.rwin = peer'.credit + c'.avail /\ Unread(queue') + Pending' <= c'.avail
                 /\ c'.avail = Unread(queue') + Pending'
                 /\ c'.rwin + ignored' = c.rwin + ignored /\ c'.rwin <= c.rwin
      <4>1. take = n /\ c.rwin = peer.credit + c.avail /\ c.avail = Unread(queue)
        BY <2>4, <3>2, <3>6
      <4>2. U32(c.rwin - n) = c.rwin - n
        <5>1. c.rwin - n \in 0..(Mod - 1)
          BY <1>2, <1>3, <2>2, <4>1, Widths
        <5> QED BY <5>1, Widths
      <4>3. queue' = queue /\ ignored' = take
        BY <2>6
      <4> QED BY <1>1, <1>2, <2>2, <2>5, <3>1, <3>3, <4>1, <4>2, <4>3
    <3>7. WindowInv'
      BY <3>6 DEF WindowInv
    <3>8. ReadInv'
      BY <1>1, <1>g, <3>2, <3>6 DEF Windows, ReadInv
    <3>9. GrantInv'
      <4>1. PacketMax \in Nat /\ LargestGrant \in Nat /\ Extra \in Nat /\ Extra <= PacketMax
        BY <1>2, LargestIs, ExtraIs DEF Extra
      <4>2. ASSUME ~seen'.skewed, ~seen'.byHand PROVE c'.rwin + ignored' <= LargestGrant + Extra'
        <5>1. c.rwin + ignored <= LargestGrant + Extra
          BY <3>2, <4>2 DEF Windows, GrantInv
        <5>2. c'.rwin + ignored' = c.rwin + ignored
          BY <3>6, <4>2
        <5> QED BY <1>1, <1>2, <3>5, <4>1, <5>1, <5>2
      <4> QED BY <4>2 DEF GrantInv
    <3> QED BY <3>4, <3>5, <3>7, <3>8, <3>9 DEF Windows
  <2>7. CASE c.rwin <= c.avail /\ UNCHANGED <<c, queue, ignored, seen>>
    <3>1. seen.skewed
      <4> SUFFICES ASSUME ~seen.skewed PROVE FALSE
        OBVIOUS
      <4> QED BY <1>2, <1>3, <2>2, <2>4, <2>7
    <3> QED BY <1>1, <1>g, <2>7, <3>1 DEF Windows, WindowInv, ByHandInv, SkipInv, ReadInv, GrantInv
  <2>8. CASE ~(c.rwin <= c.avail) /\ queue' = Append(queue, Packet(s, take))
              /\ c' = [c EXCEPT !.avail = Size(@ + take), !.reof = FALSE]
              /\ UNCHANGED <<ignored, seen>>
    <3>1. /\ c'.rwin = c.rwin /\ c'.avail = Size(c.avail + take) /\ c'.adjq = c.adjq
          /\ c'.flush = c.flush /\ c'.freed = c.freed
      BY <1>0, <2>8 DEF Channels
    <3>2. Pending' = 0 /\ Extra' = Extra
      BY <1>g, <2>8 DEF Pending, Extra
    <3>3. ByHandInv' /\ SkipInv'
      BY <1>1, <1>g, <2>8, <3>1 DEF Windows, ByHandInv, SkipInv
    <3>4. Unread(queue') = Unread(queue) + take
      <4>1. Packet(s, take) \in Packets
        BY <1>0, <2>3, <2>8 DEF Packet, Packets, Servers
      <4>2. Packet(s, take).left = take
        BY DEF Packet
      <4> QED BY <1>0, <2>8, <4>1, <4>2, UnreadIs
    <3>5. ASSUME ~seen'.skewed
          PROVE  /\ c'.rwin = peer'.credit + c'.avail /\ Unread(queue') + Pending' <= c'.avail
                 /\ c'.avail = Unread(queue') + Pending'
      <4>1. take = n /\ c.rwin = peer.credit + c.avail /\ c.avail = Unread(queue)
        BY <2>4, <2>8, <3>5
      <4>2. Size(c.avail + n) = c.avail + n
        <5>1. c.avail + n \in 0..(Mod - 1)
          BY <1>2, <1>3, <2>2, <4>1, Widths
        <5> QED BY <5>1, Widths
      <4> QED BY <1>1, <1>2, <2>2, <2>5, <3>1, <3>2, <3>4, <4>1, <4>2
    <3>6. WindowInv'
      BY <3>5 DEF WindowInv
    <3>7. ReadInv' /\ GrantInv'
      BY <1>1, <1>g, <2>8, <3>1, <3>2 DEF Windows, ReadInv, GrantInv
    <3> QED BY <3>3, <3>6, <3>7 DEF Windows
  <2> QED BY <2>1, <2>6, <2>7, <2>8
<1>4. CASE PacketAddEof \/ PacketAddClose \/ PacketAddAdjust(peer.owes)
  <2>1. UNCHANGED <<queue, ignored, seen>>
    BY <1>4 DEF PacketAddEof, PacketAddClose, PacketAddAdjust
  <2>2. /\ c'.rwin = c.rwin /\ c'.avail = c.avail /\ c'.adjq = c.adjq /\ c'.flush = c.flush
        /\ c'.freed = c.freed
    BY <1>0, <1>4 DEF PacketAddEof, PacketAddClose, PacketAddAdjust, Channels
  <2>3. peer'.credit = peer.credit
    BY <1>0, <1>4 DEF PacketAddEof, PacketAddClose, PacketAddAdjust, Servers
  <2>4. OtherCall
    BY <1>1, <1>g DEF OtherCall, In
  <2> QED BY <2>1, <2>2, <2>3, <2>4, FrameKeeps DEF SameWindow
<1> QED BY <1>3, <1>4 DEF Arrives

\* The refund of what was ignored gives back what was taken.
LEMMA RefundWindows ==
    ASSUME Ready, Windows, RefundsIgnored
    PROVE  Windows'
<1> DEFINE e == AdjustEnter(ignored)
           p == [type |-> "adjust", n |-> e.chan.adj]
<1> USE DEF Ready
<1>0. c \in Channels /\ seen \in Histories /\ peer \in Servers /\ queue \in Seq(Packets)
  BY DEF TypeOK
<1>1. ignored \in Nat \ {0} /\ call.ph \in {"drain", "wait"} /\ Pending = 0
  BY Numbers DEF RefundsIgnored, Pending, In
<1>2. e.chan \in Channels /\ e.amt \in Nat /\ p \in Sent \ {None} /\ p.type = "adjust"
  BY <1>0, <1>1, AdjustTypes
<1>3. /\ e.chan.rwin = c.rwin /\ e.chan.avail = c.avail /\ e.chan.flush = c.flush
      /\ e.chan.freed = c.freed /\ e.chan.adjq \in {c.adjq, 0}
      /\ e.amt >= ignored /\ (c.adjq = 0 => e.amt = ignored)
  <2>1. c.adjq \in Nat
    BY Numbers
  <2> QED BY <1>0, <1>1, <2>1 DEF AdjustEnter, Channels
<1>4. /\ \/ /\ TransportSend(p) /\ c' = AdjustSent(e.chan, e.amt) /\ ignored' = 0
            /\ seen' = [seen EXCEPT !.skewed = @ \/ Off(e.amt, OnWire(p).n)]
         \/ SendBlocks(p) /\ c' = e.chan /\ UNCHANGED <<ignored, seen>>
      /\ UNCHANGED <<queue, calls, app>> /\ GoesOn
  BY DEF RefundsIgnored
<1>g. /\ call'.op = call.op /\ (call.op \in {"read", "flush", "window_adjust"} => call' = call)
      /\ ~In("flush", "count")'
  <2>1. call'.op = call.op /\ (call.op \in {"read", "flush", "window_adjust"} => call' = call)
    BY GoesOnIs DEF RefundsIgnored, WaitsForClose
  <2>2. call.ph # "count"
    BY <1>1
  <2> QED BY <2>1, <2>2 DEF In
<1>5. /\ c.rwin \in Nat /\ c.avail \in Nat /\ peer.credit \in Nat /\ Unread(queue) \in Nat
  BY <1>0, Numbers, UnreadIs
<1> HIDE DEF e, p
<1>6. CASE /\ TransportSend(p) /\ c' = AdjustSent(e.chan, e.amt) /\ ignored' = 0
           /\ seen' = [seen EXCEPT !.skewed = @ \/ Off(e.amt, OnWire(p).n)]
  <2>1. /\ c'.rwin = U32(c.rwin + e.amt) /\ c'.avail = c.avail /\ c'.flush = c.flush
        /\ c'.freed = c.freed /\ c'.adjq \in {c.adjq, 0}
    BY <1>2, <1>3, <1>6 DEF AdjustSent, Channels
  <2>2. /\ seen'.byHand = seen.byHand /\ seen'.skipped = seen.skipped
        /\ seen'.skewed = (seen.skewed \/ Off(e.amt, OnWire(p).n))
    BY <1>0, <1>6 DEF Histories
  <2>3. Pending' = 0 /\ Extra' = Extra
    BY <1>g, <2>2 DEF Pending, Extra
  <2>4. ByHandInv' /\ SkipInv'
    BY <1>1, <1>g, <1>6, <2>1, <2>2 DEF Windows, ByHandInv, SkipInv
  <2>5. ASSUME ~seen'.skewed
        PROVE  ~seen.skewed /\ c'.rwin = c.rwin + e.amt /\ peer'.credit = peer.credit + e.amt
    BY <1>2, <1>6, <2>1, <2>2, <2>5, Widened
  <2>6. WindowInv'
    <3> SUFFICES ASSUME ~seen'.skewed PROVE WindowInv'
      BY DEF WindowInv
    <3> QED BY <1>1, <1>2, <1>4, <1>5, <2>1, <2>3, <2>5 DEF Windows, WindowInv
  <2>7. ReadInv'
    <3> SUFFICES ASSUME ~seen'.skewed PROVE ReadInv'
      BY DEF ReadInv
    <3>1. c'.rwin + ignored' >= 1
      BY <1>1, <1>2, <1>3, <1>5, <1>6, <2>5
    <3> QED BY <1>1, <1>g, <3>1 DEF ReadInv
  <2>8. GrantInv'
    <3> SUFFICES ASSUME ~seen'.skewed, ~seen'.byHand PROVE c'.rwin + ignored' <= LargestGrant + Extra'
      BY DEF GrantInv
    <3>1. e.amt = ignored
      BY <1>3, <2>2 DEF Windows, ByHandInv
    <3> QED BY <1>1, <1>5, <1>6, <2>2, <2>3, <2>5, <3>1 DEF Windows, GrantInv
  <2> QED BY <2>4, <2>6, <2>7, <2>8 DEF Windows
<1>7. CASE SendBlocks(p) /\ c' = e.chan /\ UNCHANGED <<ignored, seen>>
  <2>1. peer' = peer
    BY <1>7 DEF SendBlocks
  <2>2. Pending' = 0 /\ Extra' = Extra
    BY <1>g, <1>7 DEF Pending, Extra
  <2>3. ByHandInv' /\ SkipInv'
    BY <1>1, <1>3, <1>g, <1>7 DEF Windows, ByHandInv, SkipInv
  <2>4. WindowInv'
    BY <1>1, <1>3, <1>4, <1>7, <2>1, <2>2 DEF Windows, WindowInv
  <2>5. ReadInv' /\ GrantInv'
    BY <1>3, <1>g, <1>7, <2>2 DEF Windows, ReadInv, GrantInv
  <2> QED BY <2>3, <2>4, <2>5 DEF Windows
<1> QED BY <1>4, <1>6, <1>7

\* A freed channel has no queue.
LEMMA FreeWindows ==
    ASSUME Ready, Windows, FreeDisposes
    PROVE  Windows'
<1> USE DEF Ready
<1>0. c \in Channels /\ seen \in Histories /\ peer \in Servers /\ queue \in Seq(Packets)
  BY DEF TypeOK
<1>1. /\ c'.rwin = c.rwin /\ c'.avail = c.avail /\ c'.adjq = c.adjq /\ c'.flush = c.flush
      /\ c'.freed /\ UNCHANGED <<ignored, peer, seen>> /\ queue' = <<>>
      /\ call'.op = "none" /\ call'.ph = "idle"
  BY <1>0, Ended DEF FreeDisposes, Channels, TypeOK
<1>2. Unread(queue') = 0 /\ Pending' = 0 /\ Extra' = Extra /\ c.avail \in Nat
  BY <1>1, UnreadIs, Numbers DEF Pending, In, Extra
<1>3. WindowInv'
  BY <1>1, <1>2 DEF Windows, WindowInv
<1>4. ByHandInv' /\ SkipInv'
  BY <1>1 DEF Windows, ByHandInv, SkipInv
<1>5. ReadInv' /\ GrantInv'
  BY <1>1, <1>2 DEF Windows, ReadInv, GrantInv
<1> QED BY <1>3, <1>4, <1>5 DEF Windows

\* A read widens the window by what its own size asks for, and takes what it reads.
LEMMA ReadWindows ==
    ASSUME Ready, Windows, Read
    PROVE  Windows'
<1> USE DEF Ready
<1>0. c \in Channels /\ seen \in Histories /\ peer \in Servers /\ queue \in Seq(Packets)
  BY DEF TypeOK
<1>1. /\ c.rwin \in Nat /\ c.rwin < Mod /\ c.avail \in Nat /\ peer.credit \in Nat /\ c.adjq \in Nat
      /\ Unread(queue) \in Nat /\ ignored \in Nat /\ call.amt \in Nat /\ call.n \in Nat
      /\ Window \in Nat \ {0} /\ MinAdjust \in Nat \ {0}
      /\ LargestGrant \in Nat /\ Extra \in Nat /\ (SkipInv => ignored <= Extra)
  BY <1>0, Numbers, UnreadIs, LargestIs, ExtraIs
<1>2. ASSUME NEW s \in Streams, NEW n \in ReadSizes, ReadEnter(s, n) PROVE Windows'
  <2>1. /\ call'.op = "read" /\ call'.n = n
        /\ call'.ph = IF n > c.rwin THEN "force" ELSE "expand"
        /\ UNCHANGED <<c, queue, ignored, out, peer, budget, app>>
        /\ call.op = "none" /\ call.ph = "idle"
    BY <1>2 DEF ReadEnter, Begin, NoCall
  <2>2. /\ seen'.skewed = seen.skewed /\ seen'.byHand = seen.byHand /\ seen'.skipped = seen.skipped
    BY <1>0, <1>2 DEF ReadEnter, Histories
  <2>3. Pending' = Pending /\ Extra' = Extra
    BY <2>1, <2>2 DEF Pending, In, Extra
  <2>4. WindowInv' /\ GrantInv'
    BY <2>1, <2>2, <2>3 DEF Windows, WindowInv, GrantInv
  <2>5. ByHandInv' /\ SkipInv'
    BY <2>1, <2>2 DEF Windows, ByHandInv, SkipInv
  <2>6. ReadInv'
    <3>1. n \in Nat
      BY LargestIs
    <3> QED BY <1>1, <2>1, <3>1 DEF ReadInv
  <2> QED BY <2>4, <2>5, <2>6 DEF Windows
<1>3. CASE call.op = "read"
  <2>0. /\ call.n \in ReadSizes /\ call.n \in Nat \ {0} /\ ~c.freed /\ Pending = 0
        /\ Window + call.n + MinAdjust <= LargestGrant /\ 2 * call.n - 1 <= LargestGrant
    <3>1. call.n \in ReadSizes /\ ~c.freed
      BY <1>3, ReadyIs
    <3> QED BY <1>3, <3>1, LargestIs DEF Pending, In
  <2>1. CASE ReadForces
    <3> DEFINE e == AdjustEnter(call.n)
    <3>1. /\ call.ph = "force" /\ c' = e.chan
          /\ call' = [call EXCEPT !.ph = "force adjust", !.amt = e.amt]
          /\ UNCHANGED <<queue, ignored, out, peer, calls, budget, app, seen>>
      BY <2>1 DEF ReadForces, In
    <3>2. /\ e.chan.rwin = c.rwin /\ e.chan.avail = c.avail /\ e.chan.flush = c.flush
          /\ e.chan.freed = c.freed /\ e.chan.adjq \in {c.adjq, 0}
          /\ (c.adjq = 0 => e.amt = call.n)
      BY <1>0, <1>1 DEF AdjustEnter, Channels
    <3> HIDE DEF e
    <3>3. call'.op = "read" /\ call'.n = call.n /\ call'.ph = "force adjust" /\ call'.amt = e.amt
      BY <1>3, <3>1 DEF CallOK, Calls
    <3>4. Pending' = 0 /\ Extra' = Extra
      BY <3>1, <3>3 DEF Pending, In, Extra
    <3>5. WindowInv' /\ GrantInv'
      BY <2>0, <3>1, <3>2, <3>4 DEF Windows, WindowInv, GrantInv
    <3>6. ByHandInv' /\ SkipInv'
      BY <3>1, <3>2, <3>3 DEF Windows, ByHandInv, SkipInv
    <3>7. ReadInv'
      BY <1>3, <3>1, <3>2, <3>3 DEF Windows, ReadInv, ByHandInv
    <3> QED BY <3>5, <3>6, <3>7 DEF Windows
  <2>2. CASE ReadExpands /\ Narrow
    <3> DEFINE e == AdjustEnter(Expansion)
    <3>1. /\ call.ph = "expand" /\ c' = [e.chan EXCEPT !.jump = TRUE]
          /\ call' = [call EXCEPT !.ph = "adjust", !.amt = e.amt]
          /\ seen' = [seen EXCEPT !.skewed = @ \/ c.rwin > Window + call.n]
          /\ UNCHANGED <<queue, ignored, out, peer, calls, budget, app>>
      BY <2>2 DEF ReadExpands, In
    <3>2. /\ e.chan \in Channels /\ e.chan.rwin = c.rwin /\ e.chan.avail = c.avail
          /\ e.chan.flush = c.flush
          /\ e.chan.freed = c.freed /\ e.chan.adjq \in {c.adjq, 0}
          /\ (c.adjq = 0 => e.amt = Expansion) /\ e.amt \in Nat \ {0}
      <4>1. Expansion \in Nat \ {0}
        BY ExpansionIs
      <4>2. e.chan \in Channels /\ e.amt \in Nat \ {0}
        BY <1>0, <4>1, AdjustTypes
      <4> QED BY <1>0, <1>1, <4>1, <4>2 DEF AdjustEnter, Channels
    <3> HIDE DEF e
    <3>3. /\ c'.rwin = c.rwin /\ c'.avail = c.avail /\ c'.flush = c.flush
          /\ c'.freed = c.freed /\ c'.adjq \in {c.adjq, 0}
      BY <3>1, <3>2 DEF Channels
    <3>4. call'.op = "read" /\ call'.n = call.n /\ call'.ph = "adjust" /\ call'.amt = e.amt
      BY <1>3, <3>1 DEF CallOK, Calls
    <3>5. /\ seen'.byHand = seen.byHand /\ seen'.skipped = seen.skipped
          /\ seen'.skewed = (seen.skewed \/ c.rwin > Window + call.n)
      BY <1>0, <3>1 DEF Histories
    <3>6. Pending' = 0 /\ Extra' = Extra
      BY <3>4, <3>5 DEF Pending, In, Extra
    <3>7. WindowInv' /\ GrantInv'
      BY <2>0, <3>1, <3>3, <3>5, <3>6 DEF Windows, WindowInv, GrantInv
    <3>8. ByHandInv' /\ SkipInv'
      BY <3>1, <3>3, <3>4, <3>5 DEF Windows, ByHandInv, SkipInv
    <3>9. ReadInv'
      <4> SUFFICES ASSUME ~seen'.skewed PROVE ReadInv'
        BY DEF ReadInv
      <4>1. c.rwin <= Window + call.n
        <5>1. ~(c.rwin > Window + call.n)
          BY <3>5, Zenon
        <5>2. Window + call.n \in Nat
          BY <1>1
        <5> QED BY <1>1, <5>1, <5>2
      <4>2. e.amt >= 1
        BY <3>2
      <4>3. ASSUME ~seen.byHand PROVE c.rwin + e.amt <= Window + call.n + MinAdjust
        <5>1. e.amt = Expansion
          BY <3>2, <4>3 DEF Windows, ByHandInv
        <5> DEFINE x == Window + call.n - c.rwin
        <5>2. x \in Nat /\ U32(x) \in Nat /\ U32(x) <= x
          <6>1. x \in Nat
            BY <1>1, <4>1
          <6>2. U32(x) \in 0..(Mod - 1) /\ U32(x) <= x
            BY <6>1, Widths
          <6> QED BY <6>1, <6>2, Widths
        <5>3. Expansion = IF U32(x) <= MinAdjust THEN MinAdjust ELSE U32(x)
          <6> HIDE DEF x
          <6>1. Max({U32(x), MinAdjust}) = IF U32(x) <= MinAdjust THEN MinAdjust ELSE U32(x)
            BY <1>1, <5>2, MostOf
          <6> QED BY <6>1 DEF Expansion, x
        <5>4. Expansion <= x \/ Expansion = MinAdjust
          BY <5>2, <5>3
        <5>5. CASE Expansion <= x
          BY <1>1, <3>2, <5>1, <5>2, <5>5
        <5>6. CASE Expansion = MinAdjust
          BY <1>1, <4>1, <5>1, <5>6
        <5> QED BY <5>4, <5>5, <5>6
      <4> QED BY <3>3, <3>4, <3>5, <4>1, <4>2, <4>3 DEF ReadInv
    <3> QED BY <3>7, <3>8, <3>9 DEF Windows
  <2>3. CASE ReadExpands /\ ~Narrow
    <3>1. call.ph = "expand" /\ Phase("drain") /\ UNCHANGED <<c, queue, ignored, peer, seen>>
      BY <2>3 DEF ReadExpands, In
    <3>2. call'.op = "read" /\ call'.n = call.n /\ call'.ph = "drain"
      BY <1>3, <3>1, SameCall
    <3>3. Pending' = 0 /\ Extra' = Extra
      BY <3>1, <3>2 DEF Pending, In, Extra
    <3>4. c.rwin + ignored >= 1
      <4>1. Window \div 4 \in Nat
        BY <1>1
      <4>2. c.rwin >= (Window \div 4) * 3 + call.n
        BY <1>1, <2>3, <4>1 DEF Narrow
      <4> QED BY <1>1, <2>0, <4>1, <4>2
    <3>5. WindowInv' /\ GrantInv'
      BY <2>0, <3>1, <3>3 DEF Windows, WindowInv, GrantInv
    <3>6. ByHandInv' /\ SkipInv' /\ ReadInv'
      BY <3>1, <3>2, <3>4 DEF Windows, ByHandInv, SkipInv, ReadInv
    <3> QED BY <3>5, <3>6 DEF Windows
  <2>4. CASE ReadAdjusts
    <3>1. AdjustPacket \in Sent \ {None} /\ AdjustPacket.type = "adjust"
          /\ call.ph \in {"force adjust", "adjust"}
      BY <2>4, Numbers DEF ReadAdjusts, CallInv, AdjustPacket, Sent, None
    <3>2. CASE /\ TransportSend(AdjustPacket)
               /\ \/ /\ call.ph = "adjust" /\ Phase("drain")
                     /\ c' = [AdjustSent(c, call.amt) EXCEPT !.jump = FALSE]
                  \/ /\ call.ph = "force adjust" /\ Phase("expand") /\ c' = AdjustSent(c, call.amt)
               /\ Skewed(call.amt) /\ UNCHANGED <<queue, ignored, calls, app>>
      <4>1. /\ c'.rwin = U32(c.rwin + call.amt) /\ c'.avail = c.avail /\ c'.flush = c.flush
            /\ c'.freed = c.freed /\ c'.adjq = c.adjq
        <5>1. U32(c.rwin + call.amt) \in 0..(Mod - 1)
          BY <1>1, Widths
        <5>2. AdjustSent(c, call.amt) \in Channels
          BY <1>0, <5>1 DEF AdjustSent, Channels
        <5>3. CASE c' = AdjustSent(c, call.amt)
          BY <1>0, <5>3 DEF AdjustSent, Channels
        <5>4. CASE c' = [AdjustSent(c, call.amt) EXCEPT !.jump = FALSE]
          BY <1>0, <5>2, <5>4 DEF AdjustSent, Channels
        <5> QED BY <3>2, <5>3, <5>4
      <4>2. /\ seen'.byHand = seen.byHand /\ seen'.skipped = seen.skipped
            /\ seen'.skewed = (seen.skewed \/ Off(call.amt, OnWire(AdjustPacket).n))
        BY <1>0, <3>2 DEF Skewed, Histories
      <4>3. /\ call'.op = "read" /\ call'.n = call.n
            /\ \/ call.ph = "adjust" /\ call'.ph = "drain"
               \/ call.ph = "force adjust" /\ call'.ph = "expand"
        BY <1>3, <3>2, SameCall
      <4>4. Pending' = 0 /\ Extra' = Extra
        BY <4>2, <4>3 DEF Pending, In, Extra
      <4>5. ASSUME ~seen'.skewed
            PROVE  ~seen.skewed /\ c'.rwin = c.rwin + call.amt /\ peer'.credit = peer.credit + call.amt
        BY <1>1, <3>1, <3>2, <4>1, <4>2, <4>5, Widened
      <4>6. ByHandInv' /\ SkipInv'
        BY <3>2, <4>1, <4>2, <4>3 DEF Windows, ByHandInv, SkipInv
      <4>7. WindowInv'
        <5> SUFFICES ASSUME ~seen'.skewed PROVE WindowInv'
          BY DEF WindowInv
        <5>1. /\ c'.rwin = c.rwin + call.amt /\ peer'.credit = peer.credit + call.amt /\ queue' = queue
              /\ c.rwin = peer.credit + c.avail /\ c.avail = Unread(queue)
          <6>1. c'.rwin = c.rwin + call.amt /\ peer'.credit = peer.credit + call.amt /\ queue' = queue
                /\ ~seen.skewed
            BY <3>2, <4>5
          <6>2. WindowInv
            BY DEF Windows
          <6> QED BY <1>1, <2>0, <6>1, <6>2 DEF WindowInv
        <5> QED BY <1>1, <4>1, <4>4, <5>1 DEF WindowInv
      <4>8. ReadInv'
        <5> SUFFICES ASSUME ~seen'.skewed PROVE ReadInv'
          BY DEF ReadInv
        <5>1. call.ph = "adjust" => call.amt >= 1
          BY <1>3, <4>5 DEF Windows, ReadInv
        <5>2. call'.ph = "drain" => c'.rwin + ignored' >= 1
          <6>1. c'.rwin = c.rwin + call.amt /\ ignored' = ignored /\ (call'.ph = "drain" => call.ph = "adjust")
            BY <3>2, <4>3, <4>5
          <6> QED BY <1>1, <5>1, <6>1
        <5> QED BY <4>3, <5>2 DEF ReadInv
      <4>9. GrantInv'
        <5> SUFFICES ASSUME ~seen'.skewed, ~seen'.byHand PROVE c'.rwin + ignored' <= LargestGrant + Extra'
          BY DEF GrantInv
        <5>1. ignored <= Extra
          BY <1>1 DEF Windows
        <5>0. c'.rwin = c.rwin + call.amt /\ ignored' = ignored /\ ~seen.skewed /\ ~seen.byHand
          BY <3>2, <4>2, <4>5
        <5>2. CASE call.ph = "adjust"
          <6>1. c.rwin + call.amt <= Window + call.n + MinAdjust
            BY <1>3, <5>0, <5>2 DEF Windows, ReadInv
          <6> QED BY <1>1, <2>0, <4>4, <5>0, <5>1, <6>1
        <5>3. CASE call.ph = "force adjust"
          <6>1. call.amt = call.n /\ c.rwin < call.n
            BY <1>3, <5>0, <5>3 DEF Windows, ReadInv
          <6> QED BY <1>1, <2>0, <4>4, <5>0, <5>1, <6>1
        <5> QED BY <3>1, <5>2, <5>3
      <4> QED BY <4>6, <4>7, <4>8, <4>9 DEF Windows
    <3>3. CASE EAgain(AdjustPacket) /\ call' = [call EXCEPT !.amt = Amount]
               /\ UNCHANGED <<c, seen, queue, ignored, calls, app>>
      <4>1. peer' = peer
        BY <3>3 DEF EAgain, SendBlocks
      <4>2. call'.op = "read" /\ call'.n = call.n /\ call'.ph = call.ph /\ call'.amt = Amount
        BY <1>3, <3>3 DEF CallOK, Calls
      <4>3. Pending' = 0 /\ Extra' = Extra
        BY <1>3, <3>3, <4>2 DEF Pending, In, Extra
      <4>4. WindowInv' /\ GrantInv'
        BY <2>0, <3>3, <4>1, <4>3 DEF Windows, WindowInv, GrantInv
      <4>5. ByHandInv' /\ SkipInv'
        BY <3>3, <4>2 DEF Windows, ByHandInv, SkipInv
      <4>6. ASSUME ~seen.skewed, call.ph = "adjust"
            PROVE  Amount >= 1 /\ c.rwin + Amount <= Window + call.n + MinAdjust
        <5>1. Amount = Expansion /\ Expansion \in Nat \ {0} /\ c.rwin <= Window + call.n
          BY <1>3, <4>6, ExpansionIs DEF Amount, Windows, ReadInv
        <5> DEFINE x == Window + call.n - c.rwin
        <5>2. x \in Nat /\ U32(x) \in Nat /\ U32(x) <= x
          <6>1. x \in Nat
            BY <1>1, <5>1
          <6>2. U32(x) \in 0..(Mod - 1) /\ U32(x) <= x
            BY <6>1, Widths
          <6> QED BY <6>1, <6>2, Widths
        <5>3. Expansion = IF U32(x) <= MinAdjust THEN MinAdjust ELSE U32(x)
          <6> HIDE DEF x
          <6>1. Max({U32(x), MinAdjust}) = IF U32(x) <= MinAdjust THEN MinAdjust ELSE U32(x)
            BY <1>1, <5>2, MostOf
          <6> QED BY <6>1 DEF Expansion, x
        <5>4. CASE Expansion = MinAdjust
          BY <1>1, <5>1, <5>4
        <5>5. CASE Expansion = U32(x)
          BY <1>1, <5>1, <5>2, <5>5
        <5> QED BY <5>3, <5>4, <5>5
      <4>7. call.ph = "force adjust" => Amount = call.n
        BY DEF Amount
      <4>8. ReadInv'
        BY <1>3, <3>1, <3>3, <4>2, <4>6, <4>7 DEF Windows, ReadInv
      <4> QED BY <4>4, <4>5, <4>8 DEF Windows
    <3> QED BY <2>4, <3>1, <3>2, <3>3 DEF ReadAdjusts
  <2>5. CASE ReadSkipsForce \/ ReadAgain
    <3>1. Phase("expand") /\ UNCHANGED <<c, queue, ignored, peer, seen>>
      BY <2>5 DEF ReadSkipsForce, ReadAgain
    <3>2. call'.op = "read" /\ call'.n = call.n /\ call'.ph = "expand"
      BY <1>3, <3>1, SameCall
    <3>3. Pending' = 0 /\ Extra' = Extra
      BY <3>1, <3>2 DEF Pending, In, Extra
    <3>4. WindowInv' /\ GrantInv'
      BY <2>0, <3>1, <3>3 DEF Windows, WindowInv, GrantInv
    <3>5. ByHandInv' /\ SkipInv' /\ ReadInv'
      BY <3>1, <3>2 DEF Windows, ByHandInv, SkipInv, ReadInv
    <3> QED BY <3>4, <3>5 DEF Windows
  <2>6. CASE ReadTakes
    <3> DEFINE t == TakeFrom(queue, call.s, call.n)
               n == call.n - t.want
    <3>1. /\ t \in Takes /\ t.want <= call.n /\ Unread(t.rest) = Unread(queue) - n
          /\ t.want \in Nat /\ t.rest \in Seq(Packets)
      <4>1. t \in Takes
        BY <1>0, <1>1, TakeIs
      <4>2. t.want <= call.n /\ Unread(t.rest) = Unread(queue) - n
        BY <1>0, <1>1, TakeSum
      <4> HIDE DEF t
      <4> QED BY <4>1, <4>2 DEF Takes
    <3>2. /\ call.ph = "drain" /\ UNCHANGED <<ignored, peer, seen>>
          /\ \/ /\ \E after : Returns(after)
                /\ queue' = t.rest
                /\ c' = [c EXCEPT !.avail = Size(@ - n), !.rwin = U32(@ - n)]
             \/ (\E after : Returns(after)) /\ UNCHANGED <<queue, c>>
             \/ Phase("wait") /\ UNCHANGED <<queue, c>>
      BY <2>6 DEF ReadTakes, In
    <3>3. n \in Nat
      <4> HIDE DEF t
      <4> QED BY <1>1, <3>1
    <3> HIDE DEF t, n
    <3>4. \/ call'.op = "none" /\ call'.ph = "idle"
          \/ call'.op = "read" /\ call'.n = call.n /\ call'.ph = "wait" /\ UNCHANGED <<queue, c>>
      <4>1. CASE Phase("wait") /\ UNCHANGED <<queue, c>>
        BY <1>3, <4>1, SameCall
      <4> QED BY <3>2, <4>1 DEF Returns, NoCall
    <3>5. Pending' = 0 /\ Extra' = Extra
      BY <3>2, <3>4 DEF Pending, In, Extra
    <3>6. CASE UNCHANGED <<queue, c>>
      <4>1. WindowInv' /\ GrantInv'
        BY <2>0, <3>2, <3>5, <3>6 DEF Windows, WindowInv, GrantInv
      <4>2. ByHandInv' /\ SkipInv' /\ ReadInv'
        BY <1>3, <3>2, <3>4, <3>6 DEF Windows, ByHandInv, SkipInv, ReadInv
      <4> QED BY <4>1, <4>2 DEF Windows
    <3>7. CASE /\ call'.op = "none" /\ call'.ph = "idle" /\ queue' = t.rest
               /\ c' = [c EXCEPT !.avail = Size(@ - n), !.rwin = U32(@ - n)]
      <4>1. /\ c'.rwin = U32(c.rwin - n) /\ c'.avail = Size(c.avail - n) /\ c'.flush = c.flush
            /\ c'.freed = c.freed /\ c'.adjq = c.adjq
        BY <1>0, <3>7 DEF Channels
      <4>2. ASSUME ~seen.skewed
            PROVE  /\ c'.rwin = c.rwin - n /\ c'.avail = c.avail - n /\ Unread(queue') = Unread(queue) - n
                   /\ c.rwin = peer.credit + c.avail /\ c.avail = Unread(queue)
        <5>1. c.rwin = peer.credit + c.avail /\ c.avail = Unread(queue)
          BY <1>1, <2>0, <4>2 DEF Windows, WindowInv
        <5>2. n <= Unread(queue)
          <6>1. Unread(t.rest) \in Nat
            BY <3>1, UnreadIs
          <6> QED BY <1>1, <3>1, <3>3, <6>1
        <5>3. c.rwin - n \in 0..(Mod - 1) /\ c.avail - n \in 0..(Mod - 1)
          BY <1>1, <3>3, <5>1, <5>2, Widths
        <5> QED BY <3>1, <3>7, <4>1, <5>1, <5>3, Widths
      <4>3. WindowInv'
        <5> SUFFICES ASSUME ~seen'.skewed PROVE WindowInv'
          BY DEF WindowInv
        <5>1. ~seen.skewed
          BY <3>2
        <5> QED BY <1>1, <2>0, <3>2, <3>3, <3>5, <4>1, <4>2, <5>1 DEF WindowInv
      <4>4. GrantInv'
        <5> SUFFICES ASSUME ~seen'.skewed, ~seen'.byHand PROVE c'.rwin + ignored' <= LargestGrant + Extra'
          BY DEF GrantInv
        <5>1. ~seen.skewed /\ c.rwin + ignored <= LargestGrant + Extra
          BY <3>2 DEF Windows, GrantInv
        <5> QED BY <1>1, <3>2, <3>3, <3>5, <4>2, <5>1
      <4>5. ByHandInv' /\ SkipInv' /\ ReadInv'
        BY <3>2, <3>7, <4>1 DEF Windows, ByHandInv, SkipInv, ReadInv
      <4> QED BY <4>3, <4>4, <4>5 DEF Windows
    <3> QED BY <3>2, <3>4, <3>6, <3>7 DEF Returns, NoCall
  <2> QED BY <1>2, <2>1, <2>2, <2>3, <2>4, <2>5, <2>6 DEF Read
<1>4. CASE call.op # "read"
  BY <1>2, <1>4 DEF Read, ReadForces, ReadExpands, ReadAdjusts, ReadSkipsForce, ReadTakes, ReadAgain, In
<1> QED BY <1>3, <1>4

\* A flush takes its packets out of the queue, then out of the window, then refunds.
LEMMA FlushWindows ==
    ASSUME Ready, Windows, Flush
    PROVE  Windows'
<1> USE DEF Ready
<1>0. c \in Channels /\ seen \in Histories /\ peer \in Servers /\ queue \in Seq(Packets)
  BY DEF TypeOK
<1>1. /\ c.rwin \in Nat /\ c.rwin < Mod /\ c.avail \in Nat /\ peer.credit \in Nat /\ c.adjq \in Nat
      /\ Unread(queue) \in Nat /\ ignored \in Nat /\ call.amt \in Nat /\ c.flush.bytes \in Nat
      /\ LargestGrant \in Nat /\ Extra \in Nat
  BY <1>0, Numbers, UnreadIs, LargestIs, ExtraIs
<1>2. ASSUME NEW which \in 0..2, FlushEnter(which) PROVE Windows'
  <2> DEFINE f == Flushed(queue, which)
  <2>1. /\ call'.op = "flush" /\ call'.ph = "count" /\ call.op = "none" /\ call.ph = "idle" /\ ~c.freed
        /\ UNCHANGED <<ignored, out, peer, budget, app>>
        /\ \/ /\ seen' = [seen EXCEPT !.skewed = @ \/ c.flush.bytes > 0, !.late = @ \/ CloseSent]
              /\ UNCHANGED <<c, queue>>
           \/ /\ queue' = f.kept
              /\ c' = [c EXCEPT !.flush = [on |-> TRUE, refund |-> Size(f.refund), bytes |-> f.bytes]]
              /\ seen' = [seen EXCEPT !.skipped = @ \cup f.gone, !.skewed = @ \/ f.refund < 0,
                                      !.byHand = @ \/ f.gone # {}, !.late = @ \/ CloseSent]
    BY <1>2 DEF FlushEnter, Begin, NoCall
  <2>2. /\ f.gone \subseteq Streams /\ f.bytes \in Nat /\ f.refund \in Int
        /\ Unread(f.kept) \in Nat /\ Unread(f.kept) + f.bytes = Unread(queue)
        /\ f.gone = {} => f.bytes = 0 /\ f.refund = 0
    <3>1. f \in Leaves /\ Unread(f.kept) + f.bytes = Unread(queue)
          /\ (f.gone = {} => f.bytes = 0 /\ f.refund = 0)
      BY <1>0, FlushSum
    <3> HIDE DEF f
    <3> QED BY <3>1, UnreadIs DEF Leaves
  <2>3. Pending = 0
    BY <2>1 DEF Pending, In
  <2> HIDE DEF f
  <2>4. CASE /\ seen' = [seen EXCEPT !.skewed = @ \/ c.flush.bytes > 0, !.late = @ \/ CloseSent]
             /\ UNCHANGED <<c, queue>>
    <3>1. /\ seen'.byHand = seen.byHand /\ seen'.skipped = seen.skipped
          /\ seen'.skewed = (seen.skewed \/ c.flush.bytes > 0)
      BY <1>0, <2>4 DEF Histories
    <3>2. Extra' = Extra /\ (~seen'.skewed => ~seen.skewed /\ Pending' = 0)
      <4>1. ~seen'.skewed => ~seen.skewed /\ ~(c.flush.bytes > 0)
        BY <3>1, Zenon
      <4>2. Pending' = c.flush.bytes
        BY <2>1, <2>4 DEF Pending, In
      <4> QED BY <1>1, <3>1, <4>1, <4>2 DEF Extra
    <3>3. WindowInv' /\ GrantInv'
      BY <1>1, <2>1, <2>3, <2>4, <3>1, <3>2 DEF Windows, WindowInv, GrantInv
    <3>4. ByHandInv' /\ SkipInv' /\ ReadInv'
      BY <2>1, <2>4, <3>1 DEF Windows, ByHandInv, SkipInv, ReadInv
    <3> QED BY <3>3, <3>4 DEF Windows
  <2>5. CASE /\ queue' = f.kept
             /\ c' = [c EXCEPT !.flush = [on |-> TRUE, refund |-> Size(f.refund), bytes |-> f.bytes]]
             /\ seen' = [seen EXCEPT !.skipped = @ \cup f.gone, !.skewed = @ \/ f.refund < 0,
                                     !.byHand = @ \/ f.gone # {}, !.late = @ \/ CloseSent]
    <3>1. /\ seen'.byHand = (seen.byHand \/ f.gone # {}) /\ seen'.skipped = seen.skipped \cup f.gone
          /\ seen'.skewed = (seen.skewed \/ f.refund < 0)
      BY <1>0, <2>5 DEF Histories
    <3>2. (~seen'.skewed => ~seen.skewed) /\ (~seen'.byHand => ~seen.byHand /\ f.gone = {})
      BY <3>1, Zenon
    <3>3. /\ c'.rwin = c.rwin /\ c'.avail = c.avail /\ c'.adjq = c.adjq /\ c'.freed = c.freed
          /\ c'.flush.bytes = f.bytes /\ c'.flush.refund = Size(f.refund)
      BY <1>0, <2>5 DEF Channels
    <3>4. Pending' = f.bytes /\ Extra <= Extra' /\ Extra' \in Nat
      <4>1. PacketMax \in Nat
        BY Numbers
      <4> QED BY <2>1, <3>1, <3>3, <4>1 DEF Pending, In, Extra
    <3>5. WindowInv'
      <4> SUFFICES ASSUME ~seen'.skewed PROVE WindowInv'
        BY DEF WindowInv
      <4>1. c.rwin = peer.credit + c.avail /\ c.avail = Unread(queue)
        BY <1>1, <2>1, <2>3, <3>2 DEF Windows, WindowInv
      <4>2. peer' = peer /\ Unread(queue') = Unread(f.kept)
        BY <2>1, <2>5
      <4> QED BY <1>1, <2>2, <3>3, <3>4, <4>1, <4>2 DEF WindowInv
    <3>6. GrantInv'
      <4> SUFFICES ASSUME ~seen'.skewed, ~seen'.byHand PROVE c'.rwin + ignored' <= LargestGrant + Extra'
        BY DEF GrantInv
      <4>1. c.rwin + ignored <= LargestGrant + Extra /\ ignored' = ignored
        BY <2>1, <3>2 DEF Windows, GrantInv
      <4> QED BY <1>1, <3>3, <3>4, <4>1
    <3>7. ByHandInv'
      <4> SUFFICES ASSUME ~seen'.byHand PROVE ByHandInv'
        BY DEF ByHandInv
      <4>1. ~seen.byHand /\ f.bytes = 0 /\ f.refund = 0 /\ Size(0) = 0
        <5>1. 0 \in 0..(Mod - 1)
          BY Widths
        <5> QED BY <2>2, <3>2, <5>1, Widths
      <4> QED BY <2>1, <3>3, <4>1 DEF Windows, ByHandInv
    <3>8. SkipInv' /\ ReadInv'
      BY <2>1, <3>1 DEF Windows, SkipInv, ReadInv
    <3> QED BY <3>5, <3>6, <3>7, <3>8 DEF Windows
  <2> QED BY <2>1, <2>4, <2>5
<1>3. CASE FlushCounts
  <2> DEFINE d == Counted(c, c.flush.bytes)
             add == U32(d.flush.refund)
  <2>1. /\ call.op = "flush" /\ call.ph = "count" /\ ~c.freed /\ Pending = c.flush.bytes
        /\ UNCHANGED <<queue, ignored, out, peer, seen>>
        /\ \/ c' = [d EXCEPT !.flush.on = FALSE] /\ Returns(app)
           \/ /\ d.flush.refund # 0
              /\ c' = IF d.adj = 0 THEN [d EXCEPT !.adj = add + d.adjq, !.adjq = 0] ELSE d
              /\ \E amt : call' = [call EXCEPT !.ph = "adjust", !.amt = amt]
    <3>1. In("flush", "count") /\ FlushRefunds(d) /\ UNCHANGED <<queue, ignored, out, peer, seen>>
      BY <1>3 DEF FlushCounts
    <3>2. call.op = "flush" /\ call.ph = "count" /\ Pending = c.flush.bytes
      BY <3>1 DEF In, Pending
    <3> HIDE DEF d
    <3> QED BY <3>1, <3>2, ReadyIs DEF FlushRefunds, d
  <2>2. /\ d \in Channels /\ d.rwin = U32(c.rwin - c.flush.bytes) /\ d.avail = Size(c.avail - c.flush.bytes)
        /\ d.adjq = c.adjq /\ d.flush = c.flush /\ d.freed = c.freed
    <3>1. Size(c.avail - c.flush.bytes) \in 0..(Mod * Mod - 1) /\ U32(c.rwin - c.flush.bytes) \in 0..(Mod - 1)
      BY <1>1, Widths
    <3> QED BY <1>0, <3>1 DEF Counted, Channels
  <2> HIDE DEF d, add
  <2>3. /\ c'.rwin = d.rwin /\ c'.avail = d.avail /\ c'.adjq \in {d.adjq, 0} /\ c'.freed = d.freed
        /\ c'.flush.bytes = d.flush.bytes /\ c'.flush.refund = d.flush.refund
    <3>1. CASE c' = [d EXCEPT !.flush.on = FALSE]
      BY <2>2, <3>1 DEF Channels
    <3>2. CASE c' = [d EXCEPT !.adj = add + d.adjq, !.adjq = 0] \/ c' = d
      BY <2>2, <3>2 DEF Channels
    <3> QED BY <2>1, <3>1, <3>2
  <2>4. \/ call'.op = "none" /\ call'.ph = "idle"
        \/ call'.op = "flush" /\ call'.ph = "adjust" /\ d.flush.refund # 0
    <3>1. ASSUME NEW amt, call' = [call EXCEPT !.ph = "adjust", !.amt = amt]
          PROVE  call'.op = "flush" /\ call'.ph = "adjust"
      BY <2>1, <3>1 DEF CallOK, Calls
    <3>2. Returns(app) => call'.op = "none" /\ call'.ph = "idle"
      BY DEF Returns, NoCall
    <3> QED BY <2>1, <3>1, <3>2
  <2>5. Pending' = 0 /\ Extra' = Extra
    BY <2>1, <2>4 DEF Pending, In, Extra
  <2>6. ASSUME ~seen.skewed
        PROVE  /\ c'.rwin = c.rwin - c.flush.bytes /\ c'.avail = c.avail - c.flush.bytes
               /\ c.rwin = peer.credit + c.avail /\ c.avail = Unread(queue) + c.flush.bytes
    <3>1. c.rwin = peer.credit + c.avail /\ c.avail = Unread(queue) + c.flush.bytes
      BY <2>1, <2>6 DEF Windows, WindowInv
    <3>2. c.rwin - c.flush.bytes \in 0..(Mod - 1) /\ c.avail - c.flush.bytes \in 0..(Mod - 1)
      BY <1>1, <3>1, Widths
    <3> QED BY <2>2, <2>3, <3>1, <3>2, Widths
  <2>7. WindowInv'
    <3> SUFFICES ASSUME ~seen'.skewed PROVE WindowInv'
      BY DEF WindowInv
    <3>1. ~seen.skewed /\ peer' = peer /\ queue' = queue
      BY <2>1
    <3> QED BY <1>1, <2>5, <2>6, <3>1 DEF WindowInv
  <2>8. GrantInv'
    <3> SUFFICES ASSUME ~seen'.skewed, ~seen'.byHand PROVE c'.rwin + ignored' <= LargestGrant + Extra'
      BY DEF GrantInv
    <3>1. ~seen.skewed /\ c.rwin + ignored <= LargestGrant + Extra /\ ignored' = ignored
      BY <2>1 DEF Windows, GrantInv
    <3> QED BY <1>1, <2>5, <2>6, <3>1
  <2>9. ByHandInv'
    <3> SUFFICES ASSUME ~seen'.byHand PROVE ByHandInv'
      BY DEF ByHandInv
    <3>1. c.adjq = 0 /\ c.flush.refund = 0 /\ c.flush.bytes = 0
      BY <2>1 DEF Windows, ByHandInv
    <3> QED BY <2>2, <2>3, <2>4, <3>1 DEF ByHandInv
  <2>10. SkipInv' /\ ReadInv'
    BY <2>1, <2>4 DEF Windows, SkipInv, ReadInv
  <2> QED BY <2>7, <2>8, <2>9, <2>10 DEF Windows
<1>4. CASE FlushAdjusts
  <2>1. /\ call.op = "flush" /\ call.ph = "adjust" /\ ~c.freed /\ Pending = 0 /\ seen.byHand
    <3>1. call.op = "flush" /\ call.ph = "adjust"
      BY <1>4 DEF FlushAdjusts, In
    <3> QED BY <3>1, ReadyIs DEF Pending, In, Windows, ByHandInv
  <2>2. AdjustPacket \in Sent \ {None} /\ AdjustPacket.type = "adjust"
    BY Numbers DEF AdjustPacket, Sent, None
  <2>3. CASE /\ TransportSend(AdjustPacket) /\ c' = [AdjustSent(c, call.amt) EXCEPT !.flush.on = FALSE]
             /\ Skewed(call.amt) /\ Returns(app) /\ UNCHANGED <<queue, ignored, calls>>
    <3>1. /\ c'.rwin = U32(c.rwin + call.amt) /\ c'.avail = c.avail /\ c'.freed = c.freed
      <4>1. U32(c.rwin + call.amt) \in 0..(Mod - 1)
        BY <1>1, Widths
      <4>2. AdjustSent(c, call.amt) \in Channels
        BY <1>0, <4>1 DEF AdjustSent, Channels
      <4> QED BY <1>0, <2>3, <4>2 DEF AdjustSent, Channels
    <3>2. /\ seen'.byHand = seen.byHand /\ seen'.skipped = seen.skipped
          /\ seen'.skewed = (seen.skewed \/ Off(call.amt, OnWire(AdjustPacket).n))
      BY <1>0, <2>3 DEF Skewed, Histories
    <3>3. call'.op = "none" /\ call'.ph = "idle" /\ Pending' = 0
      BY <2>3 DEF Returns, NoCall, Pending, In
    <3>4. ASSUME ~seen'.skewed
          PROVE  /\ ~seen.skewed /\ c'.rwin = c.rwin + call.amt
                 /\ peer'.credit = peer.credit + call.amt /\ queue' = queue
      BY <1>1, <2>2, <2>3, <3>1, <3>2, <3>4, Widened
    <3>5. WindowInv'
      <4> SUFFICES ASSUME ~seen'.skewed PROVE WindowInv'
        BY DEF WindowInv
      <4>1. c.rwin = peer.credit + c.avail /\ c.avail = Unread(queue)
        BY <1>1, <2>1, <3>4 DEF Windows, WindowInv
      <4> QED BY <1>1, <3>1, <3>3, <3>4, <4>1 DEF WindowInv
    <3>6. ByHandInv' /\ GrantInv'
      BY <2>1, <3>2 DEF ByHandInv, GrantInv
    <3>7. SkipInv' /\ ReadInv'
      BY <2>3, <3>2, <3>3 DEF Windows, SkipInv, ReadInv
    <3> QED BY <3>5, <3>6, <3>7 DEF Windows
  <2>4. CASE EAgain(AdjustPacket) /\ Phase("again") /\ UNCHANGED <<c, app, seen, queue, ignored, calls>>
    <3>1. peer' = peer
      BY <2>4 DEF EAgain, SendBlocks
    <3>2. call'.op = "flush" /\ call'.ph = "again" /\ Pending' = 0
      BY <2>1, <2>4, SameCall DEF Pending, In
    <3>3. WindowInv'
      BY <2>1, <2>4, <3>1, <3>2 DEF Windows, WindowInv
    <3>4. ByHandInv' /\ SkipInv' /\ ReadInv' /\ GrantInv'
      BY <2>1, <2>4, <3>2 DEF Windows, ByHandInv, SkipInv, ReadInv, GrantInv
    <3> QED BY <3>3, <3>4 DEF Windows
  <2> QED BY <1>4, <2>3, <2>4 DEF FlushAdjusts
<1>5. CASE FlushAgain
  <2>1. /\ call.op = "flush" /\ call.ph = "again" /\ ~c.freed /\ Pending = 0 /\ seen.byHand
        /\ Phase("count") /\ UNCHANGED <<c, queue, ignored, peer>>
    <3>1. call.op = "flush" /\ call.ph = "again" /\ Phase("count") /\ UNCHANGED <<c, queue, ignored, peer>>
      BY <1>5 DEF FlushAgain, In
    <3> QED BY <3>1, ReadyIs DEF Pending, In, Windows, ByHandInv
  <2>2. /\ seen'.byHand = seen.byHand /\ seen'.skipped = seen.skipped
        /\ seen'.skewed = (seen.skewed \/ c.flush.bytes > 0)
    BY <1>0, <1>5 DEF FlushAgain, Histories
  <2>3. call'.op = "flush" /\ call'.ph = "count" /\ Pending' = c.flush.bytes
    BY <2>1, SameCall DEF Pending, In
  <2>4. ~seen'.skewed => ~seen.skewed /\ Pending' = 0
    <3>1. ~seen'.skewed => ~seen.skewed /\ ~(c.flush.bytes > 0)
      BY <2>2, Zenon
    <3> QED BY <1>1, <2>3, <3>1
  <2>5. WindowInv'
    BY <2>1, <2>4 DEF Windows, WindowInv
  <2>6. ByHandInv' /\ SkipInv' /\ ReadInv' /\ GrantInv'
    BY <2>1, <2>2, <2>3 DEF Windows, ByHandInv, SkipInv, ReadInv, GrantInv
  <2> QED BY <2>5, <2>6 DEF Windows
<1> QED BY <1>2, <1>3, <1>4, <1>5 DEF Flush

\* What the application widens by hand is widened on both sides.
LEMMA HandWindows ==
    ASSUME Ready, Windows,
           (\E n \in ReadSizes, force \in BOOLEAN : WindowAdjust(n, force)) \/ WindowAdjusted
    PROVE  Windows'
<1> USE DEF Ready
<1>0. c \in Channels /\ seen \in Histories /\ peer \in Servers /\ queue \in Seq(Packets)
  BY DEF TypeOK
<1>1. /\ c.rwin \in Nat /\ c.rwin < Mod /\ c.avail \in Nat /\ peer.credit \in Nat /\ c.adjq \in Nat
      /\ c.adj \in Nat /\ call.n \in Nat /\ Unread(queue) \in Nat
  BY <1>0, Numbers, UnreadIs
<1>2. ASSUME NEW n \in ReadSizes, NEW force \in BOOLEAN, WindowAdjust(n, force) PROVE Windows'
  <2>1. /\ call.op = "none" /\ call.ph = "idle" /\ ~c.freed
        /\ call' = call \/ call'.op = "window_adjust"
        /\ c' = [c EXCEPT !.adjq = @ + n] \/ c' = AdjustEnter(n).chan
        /\ seen' = [seen EXCEPT !.byHand = TRUE, !.late = @ \/ CloseSent]
        /\ UNCHANGED <<queue, ignored, out, peer, budget, app>>
    BY <1>2 DEF WindowAdjust, Begin, NoCall
  <2>2. c'.rwin = c.rwin /\ c'.avail = c.avail /\ c'.freed = c.freed
    BY <1>0, <2>1 DEF AdjustEnter, Channels
  <2>3. seen'.byHand /\ seen'.skewed = seen.skewed /\ seen'.skipped = seen.skipped
    BY <1>0, <2>1 DEF Histories
  <2>4. Pending = 0 /\ Pending' = 0 /\ call'.op # "read"
    BY <2>1 DEF Pending, In
  <2>5. WindowInv'
    BY <2>1, <2>2, <2>3, <2>4 DEF Windows, WindowInv
  <2>6. ByHandInv' /\ SkipInv' /\ ReadInv' /\ GrantInv'
    BY <2>1, <2>3, <2>4 DEF Windows, ByHandInv, SkipInv, ReadInv, GrantInv
  <2> QED BY <2>5, <2>6 DEF Windows
<1>3. CASE WindowAdjusted
  <2>1. /\ call.op = "window_adjust" /\ ~c.freed /\ Pending = 0 /\ seen.byHand
    <3>1. call.op = "window_adjust"
      BY <1>3 DEF WindowAdjusted, In
    <3> QED BY <3>1, ReadyIs DEF Pending, In, Windows, ByHandInv
  <2>2. AdjustPacket \in Sent \ {None} /\ AdjustPacket.type = "adjust"
    BY Numbers DEF AdjustPacket, Sent, None
  <2>3. ASSUME NEW amt \in {call.n, c.adj}, c' = AdjustSent(c, amt), Skewed(amt),
               TransportSend(AdjustPacket), Returns(app), UNCHANGED <<queue, ignored, calls>>
        PROVE  Windows'
    <3>1. c'.rwin = U32(c.rwin + amt) /\ c'.avail = c.avail /\ c'.freed = c.freed /\ amt \in Nat
      BY <1>0, <1>1, <2>3 DEF AdjustSent, Channels
    <3>2. /\ seen'.byHand = seen.byHand /\ seen'.skipped = seen.skipped
          /\ seen'.skewed = (seen.skewed \/ Off(amt, OnWire(AdjustPacket).n))
      BY <1>0, <2>3 DEF Skewed, Histories
    <3>3. call'.op = "none" /\ call'.ph = "idle" /\ Pending' = 0
      BY <2>3 DEF Returns, NoCall, Pending, In
    <3>4. ASSUME ~seen'.skewed
          PROVE  /\ ~seen.skewed /\ c'.rwin = c.rwin + amt
                 /\ peer'.credit = peer.credit + amt /\ queue' = queue
      BY <1>1, <2>2, <2>3, <3>1, <3>2, <3>4, Widened
    <3>5. WindowInv'
      <4> SUFFICES ASSUME ~seen'.skewed PROVE WindowInv'
        BY DEF WindowInv
      <4>1. c.rwin = peer.credit + c.avail /\ c.avail = Unread(queue)
        BY <1>1, <2>1, <3>4 DEF Windows, WindowInv
      <4> QED BY <1>1, <3>1, <3>3, <3>4, <4>1 DEF WindowInv
    <3>6. ByHandInv' /\ SkipInv' /\ ReadInv' /\ GrantInv'
      BY <2>1, <2>3, <3>2, <3>3 DEF Windows, ByHandInv, SkipInv, ReadInv, GrantInv
    <3> QED BY <3>5, <3>6 DEF Windows
  <2>4. CASE SendBlocks(AdjustPacket) /\ UNCHANGED <<c, seen, app, call, queue, ignored, calls>>
    <3>1. peer' = peer
      BY <2>4 DEF SendBlocks
    <3>2. Pending' = 0
      BY <2>1, <2>4 DEF Pending, In
    <3>3. WindowInv'
      BY <2>1, <2>4, <3>1, <3>2 DEF Windows, WindowInv
    <3>4. ByHandInv' /\ SkipInv' /\ ReadInv' /\ GrantInv'
      BY <2>1, <2>4 DEF Windows, ByHandInv, SkipInv, ReadInv, GrantInv
    <3> QED BY <3>3, <3>4 DEF Windows
  <2> QED BY <1>3, <2>3, <2>4 DEF WindowAdjusted
<1> QED BY <1>2, <1>3

\* Every step keeps the windows.
LEMMA WindowStep ==
    ASSUME Clean, Windows, Next
    PROVE  Windows'
<1>1. Ready
  BY DEF Clean
<1>2. CASE Arrives
  BY <1>1, <1>2, ArriveWindows
<1>3. CASE RefundsIgnored
  BY <1>1, <1>3, RefundWindows
<1>4. CASE Read
  BY <1>1, <1>4, ReadWindows
<1>5. CASE Flush
  BY <1>1, <1>5, FlushWindows
<1>6. CASE (\E n \in ReadSizes, force \in BOOLEAN : WindowAdjust(n, force)) \/ WindowAdjusted
  BY <1>1, <1>6, HandWindows
<1>7. CASE Write
  BY <1>1, <1>7, OtherWindows
<1>8. CASE (\E mode \in {"normal", "merge", "ignore"} : HandleExtendedData(mode)) \/ Abandon
           \/ OtherArrives
  BY <1>1, <1>8, OtherWindows
<1>9. CASE Close
  <2>1. CASE FreeDisposes
    BY <1>1, <2>1, FreeWindows
  <2>2. CASE \/ SendEofEnter \/ EofSends \/ WaitEofEnter \/ WaitEofEnds
             \/ CloseEnter("close") \/ CloseEnter("free") \/ CloseSends \/ CloseEnds
             \/ WaitClosedEnter \/ WaitClosedEnds
    BY <1>1, <2>2, OtherWindows
  <2> QED BY <1>9, <2>1, <2>2 DEF Close
<1> QED BY <1>2, <1>3, <1>4, <1>5, <1>6, <1>7, <1>8, <1>9 DEF Next

\* The windows of a channel just opened.
LEMMA WindowInit == Init => Windows
<1> SUFFICES ASSUME Init PROVE Windows
  OBVIOUS
<1>1. /\ c.rwin = Window /\ c.avail = 0 /\ c.adjq = 0 /\ c.flush.refund = 0 /\ c.flush.bytes = 0
      /\ call.op = "none" /\ call.ph = "idle" /\ peer.credit = Window /\ queue = <<>> /\ ignored = 0
  BY DEF Init, Channel, NoCall
<1>2. Unread(queue) = 0 /\ Pending = 0 /\ Extra \in Nat /\ Window \in Nat /\ LargestGrant \in Nat
      /\ Window <= LargestGrant
  <2>1. TypeOK
    BY CleanInit DEF Clean, Ready
  <2> QED BY <1>1, <2>1, UnreadIs, ExtraIs, LargestIs, Numbers DEF Pending, In
<1>3. WindowInv /\ GrantInv
  BY <1>1, <1>2 DEF WindowInv, GrantInv
<1>4. ByHandInv /\ SkipInv /\ ReadInv
  BY <1>1 DEF ByHandInv, SkipInv, ReadInv
<1> QED BY <1>3, <1>4 DEF Windows

\* A step that changes nothing keeps them.
LEMMA WindowStutter == Windows /\ UNCHANGED vars => Windows'
<1> SUFFICES ASSUME Windows, UNCHANGED vars PROVE Windows'
  OBVIOUS
<1>1. SameWindow /\ OtherCall
  BY DEF vars, SameWindow, OtherCall
<1> QED BY <1>1, FrameKeeps

(* A flush runs with its state set. *)
FlushInv == call.op = "flush" => c.flush.on

\* Only a flush touches the flush state, and it drops it when it returns.
LEMMA FlushStep ==
    ASSUME Ready, FlushInv, Next
    PROVE  FlushInv'
<1> USE DEF Ready
<1>0. c \in Channels /\ call \in Calls
  BY DEF TypeOK
<1>1. ASSUME c'.flush = c.flush, call'.op = "flush" => call.op = "flush" PROVE FlushInv'
  BY <1>1 DEF FlushInv
<1>2. ASSUME NEW after, Returns(after) PROVE call'.op # "flush"
  BY <1>2 DEF Returns, NoCall
<1>3. ASSUME NEW op \in Ops \ {"flush"}, NEW ph, NEW s, NEW n, Begin(op, ph, s, n) PROVE call'.op # "flush"
  BY <1>3 DEF Begin
<1>4. ASSUME NEW ph, Phase(ph) PROVE call'.op = call.op
  BY <1>4, SameCall
<1>5. CASE Flush
  <2>1. CASE \E which \in 0..2 : FlushEnter(which)
    <3>1. c'.flush.on
      BY <1>0, <2>1 DEF FlushEnter, Channels
    <3> QED BY <3>1 DEF FlushInv
  <2>2. CASE FlushCounts
    <3>1. \/ \E after : Returns(after)
          \/ /\ call'.op = "flush" /\ call.op = "flush"
             /\ c' = Counted(c, c.flush.bytes) \/
                (\E x : c' = [Counted(c, c.flush.bytes) EXCEPT !.adj = x, !.adjq = 0])
      BY <1>0, <2>2 DEF FlushCounts, FlushRefunds, In, Calls
    <3>2. Counted(c, c.flush.bytes).flush = c.flush
          /\ \A x : [Counted(c, c.flush.bytes) EXCEPT !.adj = x, !.adjq = 0].flush = c.flush
      BY <1>0 DEF Counted, Channels
    <3> QED BY <1>1, <1>2, <3>1, <3>2 DEF FlushInv
  <2>3. CASE FlushAdjusts \/ FlushAgain
    <3>1. (\E after : Returns(after)) \/ (c' = c /\ \E ph : Phase(ph))
      BY <2>3 DEF FlushAdjusts, FlushAgain
    <3> QED BY <1>1, <1>2, <1>4, <3>1 DEF FlushInv
  <2> QED BY <1>5, <2>1, <2>2, <2>3 DEF Flush
<1>6. \A n : AdjustEnter(n).chan.flush = c.flush
  BY <1>0 DEF AdjustEnter, Channels
<1>7. \A n : AdjustEnter(n).chan = c \/ \E x : AdjustEnter(n).chan = [c EXCEPT !.adj = x, !.adjq = 0]
  BY DEF AdjustEnter
<1>8. \A n, amt : AdjustSent(AdjustEnter(n).chan, amt).flush = c.flush
  <2> TAKE n, amt
  <2>1. CASE AdjustEnter(n).chan = c
    BY <1>0, <2>1 DEF AdjustSent, Channels
  <2>2. CASE \E x : AdjustEnter(n).chan = [c EXCEPT !.adj = x, !.adjq = 0]
    BY <1>0, <2>2 DEF AdjustSent, Channels
  <2> QED BY <1>7, <2>1, <2>2
<1>9. CASE Arrives \/ RefundsIgnored
  <2>1. call'.op = call.op
    BY <1>9, GoesOnIs DEF Arrives, RefundsIgnored
  <2>2. c'.flush = c.flush
    <3>1. CASE Arrives
      BY <1>0, <3>1 DEF Arrives, PacketAddData, PacketAddEof, PacketAddClose, PacketAddAdjust, Channels
    <3>2. CASE RefundsIgnored
      BY <1>6, <1>8, <3>2 DEF RefundsIgnored
    <3> QED BY <1>9, <3>1, <3>2
  <2> QED BY <1>1, <2>1, <2>2
<1>10. CASE Read
  <2>1. CASE \E s \in Streams, n \in ReadSizes : ReadEnter(s, n)
    BY <1>3, <2>1 DEF ReadEnter, Ops, FlushInv
  <2>2. CASE ~\E s \in Streams, n \in ReadSizes : ReadEnter(s, n)
    <3>1. call.op = "read"
      BY <1>10, <2>2 DEF Read, ReadForces, ReadExpands, ReadAdjusts, ReadSkipsForce, ReadTakes, ReadAgain, In
    <3>2. call'.op # "flush"
      <4>1. \/ \E after : Returns(after)
            \/ \E ph : Phase(ph)
            \/ call'.op = call.op
        BY <1>0, <1>10, <2>2 DEF Read, ReadForces, ReadExpands, ReadAdjusts, ReadSkipsForce, ReadTakes, ReadAgain, Calls
      <4> QED BY <1>2, <1>4, <3>1, <4>1
    <3> QED BY <3>2 DEF FlushInv
  <2> QED BY <2>1, <2>2
<1>11. CASE Write
  <2>1. \/ \E n : Begin("write", IF c.wr = 0 THEN "drain" ELSE "send", 0, n)
        \/ call.op = "write" /\ ((\E ph : Phase(ph)) \/ (\E after : Returns(after)) \/ call' = call)
    BY <1>11 DEF Write, WriteEnter, WriteBuilds, WriteAgain, WriteSends, In
  <2>2. call'.op # "flush"
    BY <1>2, <1>3, <1>4, <2>1 DEF Ops
  <2> QED BY <2>2 DEF FlushInv
<1>12. CASE (\E n \in ReadSizes, force \in BOOLEAN : WindowAdjust(n, force)) \/ WindowAdjusted
  <2>1. \/ call' = NoCall
        \/ \E n : Begin("window_adjust", "adjust", 0, n)
        \/ call.op = "window_adjust" /\ ((\E after : Returns(after)) \/ call' = call)
    BY <1>12 DEF WindowAdjust, WindowAdjusted, In
  <2>2. call'.op # "flush"
    BY <1>2, <1>3, <2>1 DEF Ops, NoCall
  <2> QED BY <2>2 DEF FlushInv
<1>13. CASE (\E mode \in {"normal", "merge", "ignore"} : HandleExtendedData(mode)) \/ Abandon
            \/ OtherArrives
  <2>1. call'.op # "flush"
    <3>1. CASE \E mode \in {"normal", "merge", "ignore"} : HandleExtendedData(mode)
      BY <3>1 DEF HandleExtendedData, NoCall
    <3>2. CASE Abandon
      BY <1>2, <3>2, Zenon DEF Abandon
    <3>3. CASE OtherArrives
      BY <1>4, <3>3 DEF OtherArrives, WaitsForClose
    <3> QED BY <1>13, <3>1, <3>2, <3>3
  <2> QED BY <2>1 DEF FlushInv
<1>14. CASE Close
  <2>1. call'.op # "flush"
    <3>1. CASE SendEofEnter \/ WaitEofEnter \/ CloseEnter("close") \/ CloseEnter("free") \/ WaitClosedEnter
      BY <1>3, <3>1 DEF SendEofEnter, WaitEofEnter, CloseEnter, WaitClosedEnter, Ops
    <3>2. CASE WaitEofEnds \/ WaitClosedEnds \/ FreeDisposes
      BY <1>2, <3>2 DEF WaitEofEnds, WaitClosedEnds, FreeDisposes
    <3>3. CASE EofSends \/ CloseSends \/ CloseEnds
      <4>1. call.op # "flush"
        BY <3>3 DEF EofSends, CloseSends, CloseEnds, CallOK
      <4>2. (\E ph : Phase(ph)) \/ (\E after : Returns(after)) \/ call' = call
        BY <3>3 DEF EofSends, CloseSends, CloseEnds
      <4> QED BY <1>2, <1>4, <4>1, <4>2
    <3> QED BY <1>14, <3>1, <3>2, <3>3 DEF Close
  <2> QED BY <2>1 DEF FlushInv
<1> QED BY <1>5, <1>9, <1>10, <1>11, <1>12, <1>13, <1>14 DEF Next

\* The invariant the windows rest on.
THEOREM AlwaysWindows == Spec => [](Clean /\ Windows /\ FlushInv)
<1>1. (Clean /\ Windows /\ FlushInv) /\ [Next]_vars => (Clean /\ Windows /\ FlushInv)'
  <2>1. Clean => Ready
    BY DEF Clean
  <2>2. FlushInv /\ UNCHANGED vars => FlushInv'
    BY DEF FlushInv, vars
  <2> QED BY <2>1, <2>2, WindowStep, WindowStutter, CleanStep, CleanStutter, FlushStep
<1>2. Init => FlushInv
  BY DEF Init, NoCall, FlushInv
<1> QED BY <1>1, <1>2, WindowInit, CleanInit, PTL DEF Spec

(* Whatever the application calls and is interrupted in, the state has its type
   and the library and the server agree on both windows. *)
THEOREM TypeCorrect == Spec => []Inv
<1>1. Clean /\ Windows /\ FlushInv => Inv
  <2> SUFFICES ASSUME Clean, Windows, FlushInv PROVE Inv
    OBVIOUS
  <2>1. TypeOK /\ SendWindow
    BY DEF Clean, Ready, WriteInv, SendWindow
  <2>2. ReceiveWindow
    <3> SUFFICES ASSUME ~seen.skewed, ~c.flush.on, ~c.freed
                 PROVE  c.avail = Unread(queue) /\ c.rwin = peer.credit + c.avail
      BY DEF ReceiveWindow
    <3>1. Pending = 0
      BY DEF FlushInv, Pending, In
    <3>2. Unread(queue) \in Nat
      BY <2>1, UnreadIs DEF TypeOK
    <3> QED BY <3>1, <3>2 DEF Windows, WindowInv
  <2> QED BY <2>1, <2>2 DEF Inv, WindowsAgree
<1> QED BY <1>1, AlwaysWindows, PTL

(* However reads, interruptions and arrivals follow one another, the window that
   is granted stays within one read of the initial one, and a read that waits
   with nothing queued waits for a server that may send. *)
THEOREM WindowMoves == Spec => []WindowKeepsMoving
<1>1. Clean /\ Windows => WindowKeepsMoving
  <2> SUFFICES ASSUME Clean, Windows PROVE WindowKeepsMoving
    OBVIOUS
  <2>1. TypeOK /\ Ready
    BY DEF Clean, Ready
  <2>2. Unread(queue) \in Nat /\ LargestGrant \in Nat /\ Extra \in Nat /\ ignored \in Nat
        /\ c.rwin \in Nat /\ c.avail \in Nat /\ peer.credit \in Nat
    BY <2>1, UnreadIs, LargestIs, ExtraIs, Numbers DEF TypeOK
  <2>3. CreditIsBounded
    <3> SUFFICES ASSUME ~seen.skewed, ~seen.byHand
                 PROVE  peer.credit + Unread(queue) + ignored <= LargestGrant + Extra
      BY DEF CreditIsBounded, Extra
    <3>1. Unread(queue) <= c.avail /\ c.rwin = peer.credit + c.avail
      <4>1. Pending \in Nat
        BY <2>1 DEF Pending, TypeOK, Channels
      <4> QED BY <2>2, <4>1 DEF Windows, WindowInv
    <3>2. c.rwin + ignored <= LargestGrant + Extra
      BY DEF Windows, GrantInv
    <3> QED BY <2>2, <3>1, <3>2
  <2>4. ReaderIsNotStarved
    <3> SUFFICES ASSUME In("read", "wait"), peer.credit = 0, ignored = 0, ~seen.skewed
                 PROVE  Unread(queue) > 0
      BY DEF ReaderIsNotStarved
    <3>1. c.rwin >= 1
      BY <2>2 DEF Windows, ReadInv, In
    <3>2. ~c.freed
      BY <2>1 DEF Ready, CallInv, In
    <3>3. Pending = 0
      BY DEF Pending, In
    <3>4. c.rwin = peer.credit + c.avail /\ c.avail = Unread(queue)
      BY <2>2, <3>2, <3>3 DEF Windows, WindowInv
    <3> QED BY <2>2, <3>1, <3>4
  <2> QED BY <2>3, <2>4 DEF WindowKeepsMoving
<1> QED BY <1>1, AlwaysWindows, PTL

-----------------------------------------------------------------------------
(* The bytes. *)

\* A read that got nothing leaves the queue as it is.
LEMMA TakeNothing ==
    ASSUME NEW s, NEW k \in Nat, NEW q \in Seq(Packets), TakeFrom(q, s, k).want = k
    PROVE  TakeFrom(q, s, k).rest = q
<1> DEFINE t(r) == TakeFrom(r, s, k)
           T == {r \in Seq(Packets) : t(r).want = k => t(r).rest = r}
<1>1. <<>> \in T
  BY EmptySeq, TakeIs DEF Untaken
<1>2. ASSUME NEW r \in T \cap Seq(Packets), NEW p \in Packets
      PROVE  Append(r, p) \in T
  <2> DEFINE a == t(r)  z == Append(r, p)  b == t(z)  m == Taken(a, p, s)
  <2>1. z \in Seq(Packets)
    OBVIOUS
  <2>2. a \in Takes /\ b = Take(a, p, m) /\ a.want <= k /\ (a.want = k => a.rest = r)
    <3>1. a.want <= k
      BY TakeSum
    <3> QED BY <3>1, TakeIs
  <2> SUFFICES ASSUME b.want = k PROVE b.rest = z
    BY <2>1
  <2> HIDE DEF a, b
  <2>3. m \in Nat /\ a.want \in Nat /\ p.left \in Nat \ {0} /\ p.at \in Nat
    BY <2>2, TakenIs DEF Takes, Packets
  <2> HIDE DEF m
  <2>4. m = 0 /\ a.want = k
    <3>1. b.want = a.want - m
      BY <2>2 DEF Take
    <3> QED BY <2>2, <2>3, <3>1
  <2>5. b.rest = Append(a.rest, [p EXCEPT !.at = @ + m, !.left = @ - m])
    BY <2>2, <2>3, <2>4 DEF Take
  <2>6. [p EXCEPT !.at = @ + m, !.left = @ - m] = p
    <3>1. p.at + m = p.at /\ p.left - m = p.left
      BY <2>3, <2>4
    <3> QED BY <3>1 DEF Packets
  <2> QED BY <2>2, <2>4, <2>5, <2>6
<1>3. Seq(Packets) \subseteq T
  <2> HIDE DEF T
  <2> QED BY <1>1, <1>2, SequenceInduction
<1> QED BY <1>3

\* Reading on loses the place or moves forward.
LEMMA FollowGrows ==
    ASSUME NEW a \in Positions, NEW w \in Streams, NEW q \in Seq(Pieces)
    PROVE  Follow(a, q)[w] = -1 \/ a[w] <= Follow(a, q)[w]
<1> DEFINE T == {r \in Seq(Pieces) : Follow(a, r)[w] = -1 \/ a[w] <= Follow(a, r)[w]}
<1>0. a[w] \in Int
  BY DEF Positions
<1>1. <<>> \in T
  BY <1>0, EmptySeq, FollowIs
<1>2. ASSUME NEW r \in T \cap Seq(Pieces), NEW b \in Pieces
      PROVE  Append(r, b) \in T
  <2> DEFINE f == Follow(a, r)
  <2>1. /\ f \in Positions /\ Follow(a, Append(r, b)) = Reach(f, b) /\ Append(r, b) \in Seq(Pieces)
    <3>1. Append(r, b) \in Seq(Pieces)
      OBVIOUS
    <3> QED BY <3>1, FollowIs
  <2>2. f[w] = -1 \/ a[w] <= f[w]
    OBVIOUS
  <2> HIDE DEF f
  <2>3. /\ f[w] \in Nat \cup {-1} /\ b.at \in Nat /\ b.n \in Nat
        /\ Reach(f, b)[w] = IF w # b.s THEN f[w] ELSE IF b.at = f[w] THEN f[w] + b.n ELSE -1
    <3>1. f[w] \in Nat \cup {-1} /\ b.at \in Nat /\ b.n \in Nat
      BY <2>1 DEF Positions, Pieces
    <3>2. Reach(f, b)[w] = IF w # b.s THEN f[w] ELSE IF b.at = f[w] THEN f[w] + b.n ELSE -1
      BY <2>1, ReachIn
    <3> QED BY <3>1, <3>2
  <2>4. Reach(f, b)[w] = -1 \/ a[w] <= Reach(f, b)[w]
    BY <1>0, <2>2, <2>3
  <2> QED BY <2>1, <2>4
<1>3. Seq(Pieces) \subseteq T
  <2> HIDE DEF T
  <2> QED BY <1>1, <1>2, SequenceInduction
<1> QED BY <1>3

\* So does the queue.
LEMMA AheadGrows ==
    ASSUME NEW a \in Positions, NEW w \in Streams, NEW q \in Seq(Packets)
    PROVE  Ahead(a, q)[w] = -1 \/ a[w] <= Ahead(a, q)[w]
<1> DEFINE T == {r \in Seq(Packets) : Ahead(a, r)[w] = -1 \/ a[w] <= Ahead(a, r)[w]}
<1>0. a[w] \in Int
  BY DEF Positions
<1>1. <<>> \in T
  BY <1>0, EmptySeq, AheadIs
<1>2. ASSUME NEW r \in T \cap Seq(Packets), NEW p \in Packets
      PROVE  Append(r, p) \in T
  <2>1. Ahead(a, r)[w] = -1 \/ a[w] <= Ahead(a, r)[w]
    OBVIOUS
  <2>2. p.at \in Nat /\ p.left \in Nat
    BY DEF Packets
  <2> QED BY <1>0, <2>1, <2>2, AheadAt
<1>3. Seq(Packets) \subseteq T
  <2> HIDE DEF T
  <2> QED BY <1>1, <1>2, SequenceInduction
<1> QED BY <1>3

(* Nothing of the bytes changes. *)
Bytes == ByteInv /\ EofInv
SameRead == app'.read = app.read /\ app'.ended = app.ended
SameSent == peer'.sent = peer.sent /\ (peer.eof => peer'.eof)
SameSeen == (seen.skewed => seen'.skewed) /\ seen.skipped \subseteq seen'.skipped

\* A step that reads nothing, gets nothing and drops nothing.
LEMMA BytesStay ==
    ASSUME Bytes, SameRead, SameSent, SameSeen, queue' = queue, c'.freed = c.freed
    PROVE  Bytes'
BY DEF Bytes, SameRead, SameSent, SameSeen, ByteInv, EofInv

\* What the library sends does not change what the server has sent.
LEMMA SendKeeps ==
    ASSUME TypeOK, NEW p \in Sent \ {None}, TransportSend(p) \/ SendBlocks(p) \/ EAgain(p)
    PROVE  SameSent
<1>1. CASE TransportSend(p)
  <2>1. OnWire(p) \in Sent \ {None} /\ peer' = Delivered(OnWire(p))
    BY <1>1, SendTypes DEF TypeOK, TransportSend
  <2>2. \A w \in Sent \ {None} : Delivered(w).sent = peer.sent /\ Delivered(w).eof = peer.eof
    <3> TAKE w \in Sent \ {None}
    <3>0. peer \in Servers
      BY DEF TypeOK
    <3>1. CASE w \in [type : {"adjust"}, n : Nat]
      BY <3>0, <3>1 DEF Delivered, Servers
    <3>2. CASE w \in [type : {"data"}, at : Nat, n : Nat]
      <4>1. \E x, y, z : Delivered(w) = [peer EXCEPT !.got = x, !.owes = y, !.wrong = z]
        BY <3>2 DEF Delivered
      <4> QED BY <3>0, <4>1 DEF Servers
    <3>3. CASE w \in [type : {"eof"}, by : {"send_eof", "close", "free"}]
      BY <3>0, <3>3 DEF Delivered, Servers
    <3>4. CASE w \in [type : {"close"}]
      BY <3>0, <3>4 DEF Delivered, Servers
    <3> QED BY <3>1, <3>2, <3>3, <3>4 DEF Sent
  <2> QED BY <2>1, <2>2 DEF SameSent
<1>2. CASE SendBlocks(p) \/ EAgain(p)
  BY <1>2 DEF SendBlocks, EAgain, SameSent
<1> QED BY <1>1, <1>2

\* What is on record stays there.
LEMMA SeenGrows ==
    ASSUME TypeOK, NEW x, NEW y, NEW z, NEW v,
           \/ seen' = seen
           \/ seen' = [seen EXCEPT !.late = x]
           \/ seen' = [seen EXCEPT !.skewed = @ \/ y]
           \/ seen' = [seen EXCEPT !.byHand = v, !.late = x]
           \/ seen' = [seen EXCEPT !.skipped = @ \cup z]
           \/ seen' = [seen EXCEPT !.skewed = @ \/ y, !.late = x]
           \/ seen' = [seen EXCEPT !.skipped = @ \cup z, !.skewed = @ \/ y, !.byHand = v, !.late = x]
    PROVE  SameSeen
<1>1. seen \in Histories
  BY DEF TypeOK
<1>2. seen'.skewed = seen.skewed \/ seen'.skewed = (seen.skewed \/ y)
  BY <1>1 DEF Histories
<1>3. seen'.skipped = seen.skipped \/ seen'.skipped = seen.skipped \cup z
  BY <1>1 DEF Histories
<1>4. seen.skewed => seen'.skewed
  BY <1>2, Zenon
<1> QED BY <1>3, <1>4 DEF SameSeen

\* Packets that arrive in the order of their stream, whole.
LEMMA ArriveBytes ==
    ASSUME Clean, Windows, Bytes, Arrives
    PROVE  Bytes'
<1> USE DEF Clean, Ready
<1>0. c \in Channels /\ seen \in Histories /\ peer \in Servers /\ queue \in Seq(Packets)
      /\ app.read \in Positions
  BY Numbers DEF TypeOK
<1>1. ignored = 0 /\ app' = app /\ ~c.freed /\ Pending = 0
  <2>1. ignored = 0 /\ app' = app /\ call.ph \in {"drain", "wait"}
    BY DEF Arrives, Reading
  <2>2. call.op # "none"
    BY <2>1 DEF CallOK
  <2> QED BY <2>1, <2>2, ReadyIs DEF Pending, In
<1>2. /\ c.rwin \in Nat /\ c.rwin < Mod /\ c.avail \in Nat /\ peer.credit \in Nat
      /\ Unread(queue) \in Nat
  BY <1>0, Numbers, UnreadIs
<1>3. ASSUME NEW s \in Streams, NEW n \in 1..PacketMax, n <= peer.credit, ~peer.eof,
             PacketAddData(s, n)
      PROVE  Bytes'
  <2> DEFINE room == Size(c.rwin - c.avail)
             take == Min({n, room})
             ignore == c.ignore /\ s = 1
  <2>1. /\ peer' = [peer EXCEPT !.sent[s] = @ + n, !.credit = @ - n]
        /\ \/ ignore /\ c' = [c EXCEPT !.rwin = U32(@ - take)]
              /\ seen' = [seen EXCEPT !.skipped = @ \cup {1}] /\ UNCHANGED queue
           \/ ~ignore /\ c.rwin <= c.avail /\ UNCHANGED <<c, queue, ignored, seen>>
           \/ ~ignore /\ ~(c.rwin <= c.avail) /\ queue' = Append(queue, Packet(s, take))
              /\ c' = [c EXCEPT !.avail = Size(@ + take), !.reof = FALSE]
              /\ UNCHANGED <<ignored, seen>>
    BY <1>3 DEF PacketAddData
  <2>2. n \in Nat \ {0}
    OBVIOUS
  <2>3. room \in Nat
    <3>1. c.rwin - c.avail \in Int
      BY <1>2
    <3> QED BY <3>1, Widths
  <2>4. ASSUME ~seen.skewed PROVE take = n /\ ~(c.rwin <= c.avail)
    <3>1. c.rwin = peer.credit + c.avail
      BY <1>1, <1>2, <2>4 DEF Windows, WindowInv
    <3>2. room = peer.credit
      <4>1. c.rwin - c.avail = peer.credit /\ peer.credit \in 0..(Mod - 1)
        BY <1>2, <3>1, Widths
      <4> QED BY <4>1, Widths
    <3> HIDE DEF room
    <3>3. take = n
      BY <1>2, <1>3, <2>2, <3>2, LeastOf
    <3> QED BY <1>2, <1>3, <2>2, <3>1, <3>3
  <2>5. take \in Nat
    <3> HIDE DEF room
    <3> QED BY <2>2, <2>3, LeastOf
  <2>6. /\ peer'.sent[s] = peer.sent[s] + n
        /\ \A w \in Streams \ {s} : peer'.sent[w] = peer.sent[w]
        /\ peer'.eof = peer.eof /\ peer.sent[s] \in Nat
    BY <1>0, <2>1 DEF Servers
  <2>7. app.ended = {}
    BY <1>3 DEF Bytes, EofInv
  <2>8. c'.freed = FALSE
    BY <1>0, <1>1, <2>1 DEF Channels
  <2>9. SameSeen
    BY <2>1, SeenGrows
  <2>10. EofInv'
    BY <1>1, <2>7 DEF EofInv
  <2> HIDE DEF take, ignore, room
  <2>11. ASSUME NEW w \in Streams, w \notin seen'.skipped, ~seen'.skewed
         PROVE  app'.read[w] # -1 /\ Ahead(app'.read, queue')[w] = peer'.sent[w]
    <3>1. w \notin seen.skipped /\ ~seen.skewed
      BY <2>9, <2>11 DEF SameSeen
    <3>2. app.read[w] # -1 /\ Ahead(app.read, queue)[w] = peer.sent[w]
      BY <1>1, <3>1 DEF Bytes, ByteInv
    <3>3. take = n /\ ~(c.rwin <= c.avail)
      BY <2>4, <3>1
    <3>4. CASE queue' = queue /\ w # s
      BY <1>1, <2>6, <3>2, <3>4
    <3>5. CASE queue' = queue /\ w = s
      <4>1. ignore /\ seen' = [seen EXCEPT !.skipped = @ \cup {1}]
        <5>1. queue' # Append(queue, Packet(s, take))
          <6>1. Len(Append(queue, Packet(s, take))) = Len(queue) + 1 /\ Len(queue) \in Nat
            BY <1>0
          <6> QED BY <3>5, <6>1
        <5> QED BY <2>1, <3>3, <5>1
      <4>2. s = 1 /\ 1 \in seen'.skipped
        BY <1>0, <4>1 DEF ignore, Histories
      <4> QED BY <2>11, <3>5, <4>2
    <3>6. CASE queue' = Append(queue, Packet(s, take))
      <4>1. Packet(s, take) \in Packets /\ Packet(s, take).s = s
            /\ Packet(s, take).at = peer.sent[s] /\ Packet(s, take).left = n
        BY <2>2, <2>6, <3>3 DEF Packet, Packets
      <4>2. Ahead(app.read, queue')[w] =
              IF w # s THEN Ahead(app.read, queue)[w]
              ELSE IF peer.sent[s] = Ahead(app.read, queue)[w]
                   THEN Ahead(app.read, queue)[w] + n ELSE -1
        BY <1>0, <3>6, <4>1, AheadAt
      <4> QED BY <1>1, <2>6, <3>2, <4>2
    <3> QED BY <2>1, <3>4, <3>5, <3>6
  <2>12. ByteInv'
    BY <1>1, <2>7, <2>11 DEF ByteInv
  <2> QED BY <2>10, <2>12 DEF Bytes
<1>4. CASE PacketAddEof \/ PacketAddClose \/ PacketAddAdjust(peer.owes)
  <2>1. UNCHANGED <<queue, seen>>
    BY <1>4 DEF PacketAddEof, PacketAddClose, PacketAddAdjust
  <2>2. SameSent /\ c'.freed = c.freed
    BY <1>0, <1>4 DEF PacketAddEof, PacketAddClose, PacketAddAdjust, SameSent, Servers, Channels
  <2> QED BY <1>1, <2>1, <2>2, BytesStay DEF SameRead, SameSeen
<1> QED BY <1>3, <1>4 DEF Arrives

\* What a read takes is what comes next; that it reports the end says all is read.
LEMMA TakeBytes ==
    ASSUME Clean, Windows, Bytes, ReadTakes
    PROVE  Bytes'
<1> USE DEF Clean, Ready
<1> DEFINE t == TakeFrom(queue, call.s, call.n)
           n == call.n - t.want
<1>0. /\ c \in Channels /\ app \in Apps /\ queue \in Seq(Packets) /\ app.read \in Positions
      /\ call.op = "read" /\ ~c.freed /\ call.s \in Streams /\ call.n \in Nat \ {0}
  <2>1. call.op = "read"
    BY DEF ReadTakes, In
  <2>2. call.n \in ReadSizes /\ call.s \in Streams /\ ~c.freed
    BY <2>1, ReadyIs
  <2> QED BY <2>1, <2>2, Numbers, LargestIs DEF TypeOK
<1>1. UNCHANGED <<ignored, out, peer, calls, budget, seen>>
  BY DEF ReadTakes
<1>2. t \in Takes /\ t.want <= call.n
  BY <1>0, TakeIs, TakeSum
<1>3. CASE n > 0 /\ Returns([app EXCEPT !.read = Follow(@, t.bytes)]) /\ queue' = t.rest
           /\ c' = [c EXCEPT !.avail = Size(@ - n), !.rwin = U32(@ - n)]
  <2>1. t.bytes \in Seq(Pieces) /\ t.rest \in Seq(Packets)
    BY <1>2 DEF Takes
  <2> DEFINE pos == Follow(app.read, t.bytes)
  <2>2. pos \in Positions
    BY <1>0, <2>1, FollowIs
  <2>3. app'.read = pos /\ app'.ended = app.ended
    <3>1. [app EXCEPT !.read = pos] \in Apps
      BY <1>0, <2>2 DEF Apps, Positions
    <3>2. [app EXCEPT !.read = pos].read = pos /\ [app EXCEPT !.read = pos].ended = app.ended
      BY <1>0 DEF Apps
    <3> QED BY <1>3, <3>1, <3>2, Ended
  <2>4. c'.freed = c.freed
    BY <1>0, <1>3 DEF Channels
  <2>5. EofInv'
    BY <1>1, <2>3 DEF Bytes, EofInv
  <2>6. ASSUME NEW w \in Streams, w \notin seen.skipped, ~seen.skewed
        PROVE  /\ pos[w] # -1 /\ Ahead(pos, queue')[w] = peer.sent[w]
               /\ w \in app.ended => pos[w] = peer.sent[w]
    <3>1. /\ Ahead(app.read, queue)[w] = peer.sent[w] /\ peer.sent[w] \in Nat
          /\ w \in app.ended => app.read[w] = peer.sent[w]
      BY <1>0, <2>6, Numbers DEF Bytes, ByteInv
    <3>2. Ahead(pos, t.rest)[w] = Ahead(app.read, queue)[w]
      <4>1. Ahead(app.read, queue)[w] # -1
        BY <3>1
      <4>2. call.n \in Nat
        BY <1>0
      <4> HIDE DEF pos, t
      <4>3. \A k \in Nat, z \in Streams :
              Ahead(Follow(app.read, TakeFrom(queue, z, k).bytes), TakeFrom(queue, z, k).rest)[w]
                = Ahead(app.read, queue)[w]
        BY <1>0, <4>1, TakeAhead
      <4> QED BY <1>0, <4>2, <4>3 DEF pos, t
    <3> HIDE DEF t, n
    <3>3. pos[w] # -1
      <4> SUFFICES ASSUME pos[w] = -1 PROVE FALSE
        OBVIOUS
      <4>1. Ahead(pos, t.rest)[w] = -1
        <5> HIDE DEF pos
        <5> QED BY <2>1, <2>2, AheadLost
      <4> QED BY <3>1, <3>2, <4>1
    <3>4. w \in app.ended => pos[w] = peer.sent[w]
      <4>1. app.read[w] <= pos[w]
        BY <1>0, <2>1, <3>3, FollowGrows
      <4>2. pos[w] <= peer.sent[w]
        <5>1. Ahead(pos, t.rest)[w] = peer.sent[w] /\ peer.sent[w] # -1
          BY <3>1, <3>2
        <5> HIDE DEF pos
        <5> QED BY <2>1, <2>2, <5>1, AheadGrows
      <4>3. pos[w] \in Int
        BY <2>2 DEF Positions
      <4> HIDE DEF pos
      <4> QED BY <3>1, <4>1, <4>2, <4>3
    <3> QED BY <1>3, <3>1, <3>2, <3>3, <3>4
  <2> HIDE DEF t, n, pos
  <2>7. ByteInv'
    BY <1>1, <2>3, <2>6 DEF ByteInv
  <2> QED BY <2>5, <2>7 DEF Bytes
<1>4. CASE n = 0 /\ (c.reof \/ c.rclose) /\ Returns([app EXCEPT !.ended = @ \cup {call.s}])
           /\ UNCHANGED <<queue, c>>
  <2>1. app'.read = app.read /\ app'.ended = app.ended \cup {call.s}
    <3>1. [app EXCEPT !.ended = @ \cup {call.s}] \in Apps
      BY <1>0 DEF Apps
    <3>2. /\ [app EXCEPT !.ended = @ \cup {call.s}].read = app.read
          /\ [app EXCEPT !.ended = @ \cup {call.s}].ended = app.ended \cup {call.s}
      BY <1>0 DEF Apps
    <3> QED BY <1>4, <3>1, <3>2, Ended
  <2>2. EofInv'
    BY <1>1, <1>4 DEF EndInv, EofInv
  <2>3. t.want = call.n
    BY <1>0, <1>2, <1>4 DEF Takes
  <2>4. \A i \in DOMAIN queue : queue[i].s # call.s
    <3>1. t.rest = queue
      BY <1>0, <2>3, TakeNothing
    <3>2. \A i \in DOMAIN t.rest : t.rest[i].s # call.s
      <4>1. TakeFrom(queue, call.s, call.n).want # 0 /\ call.n \in Nat
        BY <1>0, <2>3
      <4> QED BY <1>0, <4>1, TakeRest
    <3> QED BY <3>1, <3>2
  <2>5. Ahead(app.read, queue)[call.s] = app.read[call.s]
    BY <1>0, <2>4, AheadNone
  <2> HIDE DEF t, n
  <2>6. ByteInv'
    BY <1>0, <1>1, <1>4, <2>1, <2>5 DEF Bytes, ByteInv
  <2> QED BY <2>2, <2>6 DEF Bytes
<1>5. CASE UNCHANGED <<queue, c, app>>
  BY <1>1, <1>5, BytesStay DEF SameRead, SameSent, SameSeen
<1> QED BY <1>3, <1>4, <1>5 DEF ReadTakes

\* A flush drops the packets of streams it puts on record.
LEMMA DropBytes ==
    ASSUME Clean, Bytes, NEW which \in 0..2, FlushEnter(which)
    PROVE  Bytes'
<1> USE DEF Clean, Ready
<1> DEFINE f == Flushed(queue, which)
<1>0. c \in Channels /\ seen \in Histories /\ queue \in Seq(Packets) /\ app.read \in Positions
  BY Numbers DEF TypeOK
<1>1. UNCHANGED <<ignored, out, peer, budget, app>>
  BY DEF FlushEnter
<1>2. CASE c.flush.on
  <2>1. UNCHANGED <<c, queue>> /\ SameSeen
    BY <1>2, SeenGrows DEF FlushEnter
  <2> QED BY <1>1, <2>1, BytesStay DEF SameRead, SameSent
<1>3. CASE ~c.flush.on
  <2>1. /\ queue' = f.kept
        /\ \E x : c' = [c EXCEPT !.flush = x]
        /\ seen' = [seen EXCEPT !.skipped = @ \cup f.gone, !.skewed = @ \/ f.refund < 0,
                                !.byHand = @ \/ f.gone # {}, !.late = @ \/ CloseSent]
    BY <1>3 DEF FlushEnter
  <2>2. c'.freed = c.freed
    BY <1>0, <2>1 DEF Channels
  <2>3. SameSeen
    BY <2>1, SeenGrows
  <2>4. seen'.skipped = seen.skipped \cup f.gone
    BY <1>0, <2>1 DEF Histories
  <2>5. \A w \in Streams : w \notin f.gone => Ahead(app.read, f.kept)[w] = Ahead(app.read, queue)[w]
    BY <1>0, FlushAhead
  <2> HIDE DEF f
  <2>6. ByteInv'
    BY <1>1, <2>1, <2>2, <2>3, <2>4, <2>5 DEF Bytes, ByteInv, SameSeen
  <2>7. EofInv'
    BY <1>1 DEF Bytes, EofInv
  <2> QED BY <2>6, <2>7 DEF Bytes
<1> QED BY <1>2, <1>3

\* A call that returns without having read.
LEMMA ReturnsUnread ==
    ASSUME app \in Apps
    PROVE  /\ Returns(app) => SameRead
           /\ \A x \in Nat : Returns([app EXCEPT !.written = x]) => SameRead
<1>1. Returns(app) => SameRead
  BY Ended DEF SameRead
<1>2. ASSUME NEW x \in Nat, Returns([app EXCEPT !.written = x]) PROVE SameRead
  <2>1. /\ [app EXCEPT !.written = x] \in Apps
        /\ [app EXCEPT !.written = x].read = app.read
        /\ [app EXCEPT !.written = x].ended = app.ended
    BY DEF Apps
  <2> QED BY <1>2, <2>1, Ended DEF SameRead
<1> QED BY <1>1, <1>2

\* Adjusts, as reads, flushes and the application's hand send them.
LEMMA AdjustBytes ==
    ASSUME Clean, Bytes, \/ RefundsIgnored \/ Read \/ FlushCounts \/ FlushAdjusts \/ FlushAgain
                         \/ \E n \in ReadSizes, force \in BOOLEAN : WindowAdjust(n, force)
                         \/ WindowAdjusted,
           ~ReadTakes
    PROVE  Bytes'
<1> USE DEF Clean, Ready
<1>0. app \in Apps /\ c \in Channels
  BY DEF TypeOK
<1>1. queue' = queue
  BY Zenon DEF RefundsIgnored, Read, ReadEnter, ReadForces, ReadExpands, ReadAdjusts, ReadSkipsForce,
     ReadAgain, FlushCounts, FlushAdjusts, FlushAgain, WindowAdjust, WindowAdjusted
<1>2. SameRead
  <2>1. app' = app \/ Returns(app)
    BY DEF RefundsIgnored, Read, ReadEnter, ReadForces, ReadExpands, ReadAdjusts, ReadSkipsForce,
     ReadAgain, FlushCounts, FlushRefunds, FlushAdjusts, FlushAgain, WindowAdjust, WindowAdjusted
  <2> QED BY <1>0, <2>1, ReturnsUnread DEF SameRead
<1>3. c'.freed = c.freed
  <2>1. Quiet
    <3>1. Flush \/ ~(FlushCounts \/ FlushAdjusts \/ FlushAgain)
      BY DEF Flush
    <3> QED BY <3>1, RefundQuiet, ReadQuiet, FlushQuiet, WindowQuiet
  <2> QED BY <2>1 DEF Quiet, SameChannel
<1>4. SameSeen
  <2>1. \/ seen' = seen
        \/ \E x : seen' = [seen EXCEPT !.late = x]
        \/ \E y : seen' = [seen EXCEPT !.skewed = @ \/ y]
        \/ \E v, x : seen' = [seen EXCEPT !.byHand = v, !.late = x]
    <3>1. CASE RefundsIgnored
      BY <3>1, Zenon DEF RefundsIgnored
    <3>2. CASE Read
      BY <3>2, Zenon DEF Read, ReadEnter, ReadForces, ReadExpands, ReadAdjusts, ReadSkipsForce, ReadAgain, Skewed
    <3>3. CASE FlushCounts \/ FlushAdjusts \/ FlushAgain
      BY <3>3, Zenon DEF FlushCounts, FlushAdjusts, FlushAgain, Skewed
    <3>4. CASE (\E n \in ReadSizes, force \in BOOLEAN : WindowAdjust(n, force)) \/ WindowAdjusted
      BY <3>4, Zenon DEF WindowAdjust, WindowAdjusted, Skewed
    <3> QED BY <3>1, <3>2, <3>3, <3>4
  <2> QED BY <2>1, SeenGrows
<1>5. SameSent
  <2>1. AdjustPacket \in Sent \ {None}
    BY Numbers DEF AdjustPacket, Sent, None
  <2>2. ASSUME RefundsIgnored PROVE SameSent
    <3>1. ignored \in Nat \ {0}
      BY <2>2, Numbers DEF RefundsIgnored
    <3>2. [type |-> "adjust", n |-> AdjustEnter(ignored).chan.adj] \in Sent \ {None}
      BY <1>0, <3>1, AdjustTypes
    <3>3. LET p == [type |-> "adjust", n |-> AdjustEnter(ignored).chan.adj]
          IN TransportSend(p) \/ SendBlocks(p)
      BY <2>2, Zenon DEF RefundsIgnored
    <3> QED BY <3>2, <3>3, SendKeeps
  <2>3. peer' = peer \/ RefundsIgnored \/ TransportSend(AdjustPacket) \/ SendBlocks(AdjustPacket)
        \/ EAgain(AdjustPacket)
    BY Zenon DEF Read, ReadEnter, ReadForces, ReadExpands, ReadAdjusts, ReadSkipsForce, ReadAgain,
       FlushCounts, FlushAdjusts, FlushAgain, WindowAdjust, WindowAdjusted
  <2> QED BY <2>1, <2>2, <2>3, SendKeeps DEF SameSent
<1> QED BY <1>1, <1>2, <1>3, <1>4, <1>5, BytesStay

\* Writes, ends of file, closes, and what only waits.
LEMMA OtherBytes ==
    ASSUME Clean, Bytes,
           \/ Write \/ SendEofEnter \/ EofSends \/ CloseSends \/ CloseEnds
           \/ CloseEnter("close") \/ CloseEnter("free")
           \/ \E mode \in {"normal", "merge", "ignore"} : HandleExtendedData(mode)
           \/ WaitEofEnter \/ WaitEofEnds \/ WaitClosedEnter \/ WaitClosedEnds \/ Abandon
           \/ OtherArrives
    PROVE  Bytes'
<1> USE DEF Clean, Ready
<1>0. app \in Apps /\ c \in Channels
  BY DEF TypeOK
<1>1. queue' = queue
  BY Zenon DEF Write, WriteEnter, WriteBuilds, WriteAgain, WriteSends, SendEofEnter, EofSends, CloseSends,
     CloseEnds, CloseEnter, HandleExtendedData, WaitEofEnter, WaitEofEnds, WaitClosedEnter,
     WaitClosedEnds, Abandon, OtherArrives
<1>2. SameRead
  <2>1. app.written + c.wr \in Nat
    BY Numbers
  <2>2. app' = app \/ Returns(app) \/ Returns([app EXCEPT !.written = app.written + c.wr])
    BY Zenon DEF Write, WriteEnter, WriteBuilds, WriteAgain, WriteSends, SendEofEnter, EofSends, CloseSends,
     CloseEnds, CloseEnter, HandleExtendedData, WaitEofEnter, WaitEofEnds, WaitClosedEnter,
     WaitClosedEnds, Abandon, OtherArrives
  <2> QED BY <1>0, <2>1, <2>2, ReturnsUnread DEF SameRead
<1>3. c'.freed = c.freed
  <2>1. \/ c' = c \/ (\E x : c' = [c EXCEPT !.wr = x])
        \/ (\E x : c' = [c EXCEPT !.lwin = x, !.wr = 0])
        \/ c' = [c EXCEPT !.leof = TRUE]
        \/ (\E x : c' = [c EXCEPT !.closing = x])
        \/ c' = [c EXCEPT !.lclose = TRUE, !.closing = "idle"]
        \/ (\E x, y : c' = [c EXCEPT !.ignore = x, !.merge = y])
    <3>1. CASE Write \/ EofSends \/ CloseSends \/ CloseEnds
      BY <3>1, Zenon DEF Write, WriteEnter, WriteBuilds, WriteAgain, WriteSends, EofSends, CloseSends, CloseEnds
    <3>2. ASSUME NEW mode, HandleExtendedData(mode)
          PROVE  \E x, y : c' = [c EXCEPT !.ignore = x, !.merge = y]
      BY <3>2, Zenon DEF HandleExtendedData
    <3>3. CASE \/ SendEofEnter \/ CloseEnter("close") \/ CloseEnter("free") \/ WaitEofEnter
               \/ WaitEofEnds \/ WaitClosedEnter \/ WaitClosedEnds \/ Abandon \/ OtherArrives
      BY <3>3, Zenon DEF SendEofEnter, CloseEnter, WaitEofEnter, WaitEofEnds,
         WaitClosedEnter, WaitClosedEnds, Abandon, OtherArrives
    <3> QED BY <3>1, <3>2, <3>3
  <2> QED BY <1>0, <2>1 DEF Channels
<1>4. SameSeen
  <2>1. seen' = seen \/ \E x : seen' = [seen EXCEPT !.late = x]
    BY Zenon DEF Write, WriteEnter, WriteBuilds, WriteAgain, WriteSends, SendEofEnter, EofSends, CloseSends,
     CloseEnds, CloseEnter, HandleExtendedData, WaitEofEnter, WaitEofEnds, WaitClosedEnter,
     WaitClosedEnds, Abandon, OtherArrives
  <2> QED BY <2>1, SeenGrows
<1>5. SameSent
  <2>1. \/ peer' = peer
        \/ \E p \in Sent \ {None} : TransportSend(p) \/ SendBlocks(p)
    <3>1. CASE Write
      <4>1. [type |-> "data", at |-> app.written, n |-> c.wr] \in Sent \ {None}
        BY Numbers DEF Sent, None
      <4> QED BY <3>1, <4>1 DEF Write, WriteEnter, WriteBuilds, WriteAgain, WriteSends
    <3>2. CASE EofSends
      <4>1. call.op \in {"send_eof", "close", "free"}
        BY <3>2 DEF EofSends, CallOK, Calls, Ops
      <4>2. [type |-> "eof", by |-> call.op] \in Sent \ {None}
        BY <4>1 DEF Sent, None
      <4> QED BY <3>2, <4>2 DEF EofSends
    <3>3. CASE CloseSends
      <4>1. [type |-> "close"] \in Sent \ {None}
        BY DEF Sent, None
      <4> QED BY <3>3, <4>1 DEF CloseSends
    <3>4. CASE ~(Write \/ EofSends \/ CloseSends)
      BY <3>4, Zenon DEF SendEofEnter, CloseEnds, CloseEnter, HandleExtendedData, WaitEofEnter,
         WaitEofEnds, WaitClosedEnter, WaitClosedEnds, Abandon, OtherArrives
    <3> QED BY <3>1, <3>2, <3>3, <3>4
  <2> QED BY <2>1, SendKeeps DEF SameSent
<1> QED BY <1>1, <1>2, <1>3, <1>4, <1>5, BytesStay

\* A freed channel reads no more.
LEMMA FreeBytes ==
    ASSUME Clean, Bytes, FreeDisposes
    PROVE  Bytes'
<1> USE DEF Clean, Ready
<1>1. UNCHANGED <<peer, seen>> /\ SameRead /\ c'.freed
  <2>1. app \in Apps /\ c \in Channels
    BY DEF TypeOK
  <2> QED BY <2>1, ReturnsUnread DEF FreeDisposes, Channels
<1>2. EofInv'
  BY <1>1 DEF Bytes, EofInv, SameRead
<1>3. ByteInv'
  BY <1>1 DEF Bytes, ByteInv, SameRead
<1> QED BY <1>2, <1>3 DEF Bytes

\* Every step keeps the place of the application in both streams.
LEMMA ByteStep ==
    ASSUME Clean, Windows, Bytes, Next
    PROVE  Bytes'
<1>1. CASE Arrives
  BY <1>1, ArriveBytes
<1>2. CASE ReadTakes
  BY <1>2, TakeBytes
<1>3. CASE Flush
  BY <1>3, DropBytes, AdjustBytes, <1>2 DEF Flush
<1>4. CASE RefundsIgnored \/ Read \/ WindowAdjusted
           \/ \E n \in ReadSizes, force \in BOOLEAN : WindowAdjust(n, force)
  BY <1>2, <1>4, AdjustBytes
<1>5. CASE Write \/ (\E mode \in {"normal", "merge", "ignore"} : HandleExtendedData(mode)) \/ Abandon
           \/ OtherArrives
  BY <1>5, OtherBytes
<1>6. CASE Close
  BY <1>6, FreeBytes, OtherBytes DEF Close
<1> QED BY <1>1, <1>3, <1>4, <1>5, <1>6 DEF Next

\* Nothing is read, and nothing is sent.
LEMMA ByteInit == Init => Bytes
<1> SUFFICES ASSUME Init PROVE Bytes
  OBVIOUS
<1>1. /\ app.read = [s \in Streams |-> 0] /\ app.ended = {} /\ queue = <<>>
      /\ peer.sent = [s \in Streams |-> 0]
  BY DEF Init
<1>2. app.read \in Positions
  BY <1>1 DEF Positions
<1>3. Ahead(app.read, queue) = app.read
  BY <1>1, <1>2, AheadIs
<1>4. ByteInv
  BY <1>1, <1>3 DEF ByteInv
<1> QED BY <1>1, <1>4 DEF Bytes, EofInv

(* The bytes of both directions arrive in order, once, and wholly before the end,
   except where the application had them dropped or the windows disagreed. *)
THEOREM BytesArrive == Spec => []BytesInOrder
<1>1. (Clean /\ Windows /\ Bytes) /\ [Next]_vars => (Clean /\ Windows /\ Bytes)'
  <2>1. Bytes /\ UNCHANGED vars => Bytes'
    BY DEF Bytes, ByteInv, EofInv, vars
  <2> QED BY <2>1, WindowStep, WindowStutter, CleanStep, CleanStutter, ByteStep
<1>2. Clean /\ Windows /\ Bytes => BytesInOrder
  <2> SUFFICES ASSUME Clean, Windows, Bytes PROVE BytesInOrder
    OBVIOUS
  <2>1. ReadInOrder
    BY DEF Bytes, ByteInv, ReadInOrder
  <2>2. WrittenIsSent
    BY DEF Clean, WriteInv, WrittenIsSent
  <2>3. EndIsTheEnd
    <3>1. ASSUME ChannelEof, ~c.freed, NEW s \in Streams
          PROVE  /\ peer.eof
                 /\ s \notin seen.skipped /\ ~seen.skewed => app.read[s] = peer.sent[s]
      <4>1. peer.eof
        BY <3>1 DEF ChannelEof, Clean, EndInv
      <4>2. queue = <<>> /\ app.read \in Positions
        <5>1. TypeOK
          BY DEF Clean, Ready
        <5> QED BY <3>1, <5>1, UnreadNone, Numbers DEF ChannelEof, TypeOK
      <4>3. Ahead(app.read, queue) = app.read
        BY <4>2, AheadIs
      <4> QED BY <3>1, <4>1, <4>3 DEF Bytes, ByteInv
    <3>2. ASSUME NEW s \in app.ended
          PROVE  /\ peer.eof
                 /\ s \notin seen.skipped /\ ~seen.skewed => app.read[s] = peer.sent[s]
      <4>1. s \in Streams
        BY DEF Clean, Ready, TypeOK, Apps
      <4> QED BY <3>2, <4>1 DEF Bytes, ByteInv, EofInv
    <3> QED BY <3>1, <3>2 DEF EndIsTheEnd
  <2> QED BY <2>1, <2>2, <2>3 DEF BytesInOrder
<1> QED BY <1>1, <1>2, WindowInit, CleanInit, ByteInit, PTL DEF Spec

=============================================================================
