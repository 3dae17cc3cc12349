------------------------------- MODULE CommonLemmas -------------------------------
(***************************************************************************)
(* Lemmas that several proofs share: what Append, Head and Tail do to the  *)
(* set of messages in a channel (flume::unbounded is a sequence) and to    *)
(* the absence of duplicates in it, induction, the pigeonhole principle    *)
(* for sequences, and the folds of the community modules.                  *)
(***************************************************************************)
EXTENDS SequencesExt, SequenceTheorems, FiniteSetTheorems, WellFoundedInduction, TLAPS

\* An empty channel holds nothing.
LEMMA EmptyQueue ==
    /\ ToSet(<<>>) = {}
    /\ IsInjective(<<>>)
    /\ \A S : <<>> \in Seq(S)
BY DEF ToSet, IsInjective

\* Sending adds one message, and no duplicate if the message is new.
LEMMA SendQueue ==
    ASSUME NEW S, NEW q \in Seq(S), NEW x \in S
    PROVE  /\ Append(q, x) \in Seq(S)
           /\ Append(q, x) # <<>>
           /\ ToSet(Append(q, x)) = ToSet(q) \cup {x}
           /\ Last(Append(q, x)) = x
           /\ IsInjective(q) /\ x \notin ToSet(q) => IsInjective(Append(q, x))
<1>1. /\ Append(q, x) \in Seq(S)
      /\ DOMAIN Append(q, x) = 1 .. Len(q) + 1
      /\ DOMAIN q = 1 .. Len(q)
      /\ Len(q) \in Nat
      /\ \A i \in 1 .. Len(q) : Append(q, x)[i] = q[i]
      /\ Append(q, x)[Len(q) + 1] = x
  OBVIOUS
<1>2. \A i \in DOMAIN Append(q, x) : i \in DOMAIN q \/ i = Len(q) + 1
  BY <1>1
<1>3. ToSet(Append(q, x)) = ToSet(q) \cup {x}
  BY <1>1, <1>2 DEF ToSet
<1>4. ASSUME IsInjective(q), x \notin ToSet(q)
      PROVE  IsInjective(Append(q, x))
  BY <1>1, <1>2, <1>4 DEF IsInjective, ToSet
<1>5. Append(q, x) # <<>> /\ Last(Append(q, x)) = x
  BY <1>1 DEF Last
<1> QED BY <1>1, <1>3, <1>4, <1>5

\* Receiving removes the first message; without duplicates it is then gone.
LEMMA ReceiveQueue ==
    ASSUME NEW S, NEW q \in Seq(S), q # <<>>
    PROVE  /\ Head(q) \in S
           /\ Tail(q) \in Seq(S)
           /\ ToSet(q) = ToSet(Tail(q)) \cup {Head(q)}
           /\ IsInjective(q) => IsInjective(Tail(q)) /\ Head(q) \notin ToSet(Tail(q))
           /\ Tail(q) # <<>> => Last(Tail(q)) = Last(q)
           /\ IsInjective(q) /\ Head(q) = Last(q) => Tail(q) = <<>>
<1>1. /\ Head(q) \in S
      /\ Tail(q) \in Seq(S)
      /\ DOMAIN q = 1 .. Len(q)
      /\ Len(q) \in Nat \ {0}
      /\ DOMAIN Tail(q) = 1 .. Len(q) - 1
      /\ \A i \in 1 .. Len(q) - 1 : Tail(q)[i] = q[i + 1]
      /\ Head(q) = q[1]
  BY HeadTailProperties, EmptySeq, LenProperties
<1>2. \A i \in DOMAIN q : i = 1 \/ i - 1 \in DOMAIN Tail(q)
  BY <1>1
<1>3. ToSet(q) = ToSet(Tail(q)) \cup {Head(q)}
  <2>1. ASSUME NEW i \in DOMAIN q PROVE q[i] \in ToSet(Tail(q)) \cup {Head(q)}
    BY <1>1, <1>2, <2>1 DEF ToSet
  <2>2. ASSUME NEW i \in DOMAIN Tail(q) PROVE Tail(q)[i] \in ToSet(q)
    BY <1>1, <2>2 DEF ToSet
  <2> QED BY <1>1, <2>1, <2>2 DEF ToSet
<1>4. ASSUME IsInjective(q)
      PROVE  IsInjective(Tail(q)) /\ Head(q) \notin ToSet(Tail(q))
  BY <1>1, <1>4 DEF IsInjective, ToSet
<1>5. Tail(q) # <<>> => Last(Tail(q)) = Last(q)
  BY <1>1, EmptySeq DEF Last
<1>6. ASSUME IsInjective(q), Head(q) = Last(q)
      PROVE  Tail(q) = <<>>
  BY <1>1, <1>6, EmptySeq DEF IsInjective, Last
<1> QED BY <1>1, <1>3, <1>4, <1>5, <1>6

-----------------------------------------------------------------------------

\* A nonempty set of numbers has a least one.
LEMMA LeastElement ==
    ASSUME NEW S \in SUBSET Nat, S # {}
    PROVE  \E n \in S : \A m \in S : n <= m
<1> DEFINE Less == OpToRel(<, Nat)
<1>1. \E x \in S : \A y \in S : ~ (<<y, x>> \in Less)
  <2> HIDE DEF Less
  <2>1. IsWellFoundedOn(Less, Nat)
    BY NatLessThanWellFounded DEF Less
  <2> QED BY <2>1, WFMin
<1>2. PICK x \in S : \A y \in S : ~ (<<y, x>> \in Less)
  BY <1>1
<1>3. \A y \in S : x <= y
  <2> SUFFICES ASSUME NEW y \in S, y < x PROVE FALSE
    OBVIOUS
  <2>1. <<y, x>> \in Less
    BY DEF OpToRel
  <2> QED BY <1>2, <2>1
<1> QED BY <1>3

\* A set that has 0, and every successor, has every number.
LEMMA Induction ==
    ASSUME NEW S, 0 \in S, \A n \in S \cap Nat : n + 1 \in S
    PROVE  Nat \subseteq S
<1> SUFFICES ASSUME Nat \ S # {} PROVE FALSE
  OBVIOUS
<1>1. PICK n \in Nat \ S : \A m \in Nat \ S : n <= m
  BY LeastElement
<1>2. n # 0
  OBVIOUS
<1>3. PICK k \in Nat : n = k + 1
  <2>1. n - 1 \in Nat /\ n = (n - 1) + 1
    BY <1>2
  <2> QED BY <2>1
<1>4. ~ (n <= k)
  BY <1>3
<1>5. k \in S
  BY <1>1, <1>4
<1>6. k + 1 \in S
  BY <1>5
<1> QED BY <1>3, <1>6

\* A nonempty set of positions of a sequence has a last one.
LEMMA LastPosition ==
    ASSUME NEW n \in Nat, NEW S \in SUBSET (1 .. n), S # {}
    PROVE  \E i \in S : \A j \in S : j <= i
<1> DEFINE D == {n - i : i \in S}
<1>1. D \subseteq Nat /\ D # {}
  <2>1. ASSUME NEW i \in S PROVE n - i \in Nat
    OBVIOUS
  <2> QED BY <2>1
<1>2. PICK x \in D : \A y \in D : x <= y
  BY <1>1, LeastElement
<1>3. PICK i \in S : x = n - i
  OBVIOUS
<1>4. \A j \in S : x <= n - j
  BY <1>2
<1> QED BY <1>3, <1>4

\* A sequence without duplicates is no longer than the set of its elements.
LEMMA Pigeonhole ==
    ASSUME NEW S, IsFiniteSet(S), NEW q \in Seq(S),
           \A i, j \in DOMAIN q : q[i] = q[j] => i = j
    PROVE  Len(q) <= Cardinality(S)
<1>1. q \in Injection(1 .. Len(q), S)
  BY DEF Injection, IsInjective
<1>2. IsFiniteSet(1 .. Len(q)) /\ Cardinality(1 .. Len(q)) = Len(q)
  <2>1. Len(q) \in Nat
    OBVIOUS
  <2>2. IsFiniteSet(1 .. Len(q)) /\ Cardinality(1 .. Len(q)) = IF 1 > Len(q) THEN 0 ELSE Len(q) - 1 + 1
    BY <2>1, FS_Interval
  <2> QED BY <2>1, <2>2
<1> QED BY <1>1, <1>2, FS_Injection DEF Injection

-----------------------------------------------------------------------------

\* The library's folds run over the subsets of the positions of a sequence and
\* take the last position first.
SetFold(g, A, base, step, n, q) ==
    /\ g \in [SUBSET (1 .. n) -> A]
    /\ \A s \in SUBSET (1 .. n) :
         g[s] = IF s = {} THEN base ELSE step[<<g[s \ {Max(s)}], q[Max(s)]>>]
\* What any run does that takes the steps as long as its values stay in A.
Steps(g, A, base, step, n, q) ==
    /\ g[{}] = base
    /\ \A s \in SUBSET (1 .. n) : s # {} /\ g[s \ {Max(s)}] \in A =>
         g[s] = step[<<g[s \ {Max(s)}], q[Max(s)]>>]
\* Along the prefixes it is the fold from the left.
LeftFold(h, A, base, step, n, q) ==
    /\ h \in [0 .. n -> A] /\ h[0] = base
    /\ \A i \in 1 .. n : h[i] = step[<<h[i - 1], q[i]>>]
FoldsTo(v, A, base, step, n, q) == \E h : LeftFold(h, A, base, step, n, q) /\ h[n] = v

\* Such a run over the subsets exists, whatever is folded.
LEMMA FoldExists ==
    ASSUME NEW A, NEW P, NEW base \in A, NEW step \in [A \X P -> A],
           NEW n \in Nat, NEW q \in [1 .. n -> P]
    PROVE  \E g : SetFold(g, A, base, step, n, q)
<1> DEFINE Run(g, k) ==
             /\ g \in [SUBSET (1 .. k) -> A]
             /\ \A s \in SUBSET (1 .. k) :
                  g[s] = IF s = {} THEN base ELSE step[<<g[s \ {Max(s)}], q[Max(s)]>>]
           K == {k \in Nat : k <= n => \E g : Run(g, k)}
<1>1. 0 \in K
  <2> DEFINE g == [s \in SUBSET (1 .. 0) |-> base]
  <2>1. \A s \in SUBSET (1 .. 0) : s = {}
    OBVIOUS
  <2>2. Run(g, 0)
    BY <2>1
  <2> HIDE DEF g
  <2> QED BY <2>2
<1>2. ASSUME NEW k \in K \cap Nat PROVE k + 1 \in K
  <2> SUFFICES ASSUME k + 1 <= n PROVE \E g : Run(g, k + 1)
    <3> HIDE DEF Run
    <3> QED OBVIOUS
  <2>1. PICK f : Run(f, k)
    <3> HIDE DEF Run
    <3> QED BY <1>2
  <2> DEFINE g == [s \in SUBSET (1 .. k + 1) |->
                     IF k + 1 \in s THEN step[<<f[s \ {k + 1}], q[k + 1]>>] ELSE f[s]]
  <2>2. ASSUME NEW s \in SUBSET (1 .. k + 1), k + 1 \notin s
        PROVE  /\ s \in SUBSET (1 .. k) /\ g[s] = f[s] /\ g[s] \in A
               /\ s # {} => s \ {Max(s)} \in SUBSET (1 .. k) /\ k + 1 \notin s \ {Max(s)}
               /\ s # {} => g[s \ {Max(s)}] = f[s \ {Max(s)}]
    <3>1. s \in SUBSET (1 .. k) /\ SUBSET (1 .. k) \subseteq SUBSET (1 .. k + 1)
      BY <2>2
    <3>2. g[s] = f[s] /\ f[s] \in A
      BY <2>1, <2>2, <3>1
    <3>3. s \ {Max(s)} \in SUBSET (1 .. k) /\ k + 1 \notin s \ {Max(s)}
      BY <2>2, <3>1
    <3> HIDE DEF Run
    <3> QED BY <3>1, <3>2, <3>3
  <2>3. ASSUME NEW s \in SUBSET (1 .. k + 1), k + 1 \in s
        PROVE  /\ Max(s) = k + 1
               /\ s \ {k + 1} \in SUBSET (1 .. k)
               /\ f[s \ {k + 1}] \in A /\ q[k + 1] \in P
               /\ g[s \ {k + 1}] = f[s \ {k + 1}]
               /\ g[s] = step[<<f[s \ {k + 1}], q[k + 1]>>] /\ g[s] \in A
    <3>1. Max(s) = k + 1
      <4>1. \A y \in s : y \in Nat /\ k + 1 >= y
        OBVIOUS
      <4>2. \A x \in s : (\A y \in s : x >= y) => x = k + 1
        BY <2>3, <4>1
      <4> QED BY <2>3, <4>1, <4>2 DEF Max
    <3>2. s \ {k + 1} \in SUBSET (1 .. k)
      OBVIOUS
    <3>3. s \ {k + 1} \in SUBSET (1 .. k + 1)
      OBVIOUS
    <3>4. f[s \ {k + 1}] \in A
      BY <2>1, <3>2
    <3>5. q[k + 1] \in P
      OBVIOUS
    <3>6. step[<<f[s \ {k + 1}], q[k + 1]>>] \in A
      BY <3>4, <3>5
    <3>7. g[s \ {k + 1}] = f[s \ {k + 1}]
      BY <3>3
    <3>8. g[s] = step[<<f[s \ {k + 1}], q[k + 1]>>]
      BY <2>3
    <3> HIDE DEF g, Run
    <3> QED BY <3>1, <3>2, <3>4, <3>5, <3>6, <3>7, <3>8
  <2>4. Run(g, k + 1)
    <3>1. g \in [SUBSET (1 .. k + 1) -> A]
      <4>1. \A s \in SUBSET (1 .. k + 1) : g[s] \in A
        BY <2>2, <2>3
      <4> QED BY <4>1
    <3>2. ASSUME NEW s \in SUBSET (1 .. k + 1)
          PROVE  g[s] = IF s = {} THEN base ELSE step[<<g[s \ {Max(s)}], q[Max(s)]>>]
      <4> HIDE DEF g
      <4>1. CASE k + 1 \in s
        BY <2>3, <4>1
      <4>2. CASE k + 1 \notin s
        BY <2>1, <2>2, <4>2
      <4> QED BY <4>1, <4>2
    <3> HIDE DEF g
    <3> QED BY <3>1, <3>2
  <2> HIDE DEF g
  <2> QED BY <2>4
<1>3. n \in K
  <2> HIDE DEF K
  <2> QED BY <1>1, <1>2, Induction
<1>4. PICK g : Run(g, n)
  <2> HIDE DEF Run
  <2> QED BY <1>3
<1> QED BY <1>4 DEF SetFold

\* The largest of a set of positions is one of them.
LEMMA LargestIn ==
    ASSUME NEW n \in Nat, NEW s \in SUBSET (1 .. n), s # {}
    PROVE  Max(s) \in s
<1>1. \E x \in s : \A y \in s : y <= x
  BY LastPosition
<1>2. \E x \in s : \A y \in s : x >= y
  BY <1>1
<1> QED BY <1>2 DEF Max

\* A run that takes the steps is, along the prefixes, the fold from the left.
LEMMA FoldPrefixes ==
    ASSUME NEW A, NEW P, NEW base \in A, NEW step \in [A \X P -> A],
           NEW n \in Nat, NEW q \in [1 .. n -> P],
           NEW g, Steps(g, A, base, step, n, q)
    PROVE  FoldsTo(g[1 .. n], A, base, step, n, q)
<1> DEFINE K == {k \in Nat : k <= n => g[1 .. k] \in A}
<1>1. \A i \in 1 .. n : /\ 1 .. i \in SUBSET (1 .. n) /\ 1 .. i # {}
                        /\ Max(1 .. i) = i /\ (1 .. i) \ {i} = 1 .. (i - 1)
  <2> TAKE i \in 1 .. n
  <2>1. Max(1 .. i) = i
    <3>1. i \in 1 .. i /\ \A y \in 1 .. i : i >= y
      OBVIOUS
    <3>2. \A x \in 1 .. i : (\A y \in 1 .. i : x >= y) => x = i
      BY <3>1
    <3> QED BY <3>1, <3>2 DEF Max
  <2>2. (1 .. i) \ {i} = 1 .. (i - 1)
    OBVIOUS
  <2> QED BY <2>1, <2>2
<1>2. \A i \in 1 .. n : g[1 .. (i - 1)] \in A => g[1 .. i] = step[<<g[1 .. (i - 1)], q[i]>>]
  <2> TAKE i \in 1 .. n
  <2>1. /\ 1 .. i \in SUBSET (1 .. n) /\ 1 .. i # {}
        /\ Max(1 .. i) = i /\ (1 .. i) \ {Max(1 .. i)} = 1 .. (i - 1)
    BY <1>1
  <2> QED BY <2>1 DEF Steps
<1>3. 0 \in K
  <2>1. 1 .. 0 = {}
    OBVIOUS
  <2> QED BY <2>1 DEF Steps
<1>4. ASSUME NEW k \in K \cap Nat PROVE k + 1 \in K
  <2> SUFFICES ASSUME k + 1 <= n PROVE g[1 .. k + 1] \in A
    OBVIOUS
  <2>1. g[1 .. k] \in A /\ k + 1 \in 1 .. n /\ (k + 1) - 1 = k
    OBVIOUS
  <2>2. g[1 .. k + 1] = step[<<g[1 .. k], q[k + 1]>>]
    BY <1>2, <2>1
  <2> QED BY <2>1, <2>2
<1>5. \A k \in 0 .. n : g[1 .. k] \in A
  <2>1. Nat \subseteq K
    <3> HIDE DEF K
    <3> QED BY <1>3, <1>4, Induction
  <2> QED BY <2>1
<1> DEFINE h == [k \in 0 .. n |-> g[1 .. k]]
<1>6. h \in [0 .. n -> A]
  BY <1>5
<1>7. h[0] = base /\ h[n] = g[1 .. n]
  <2>1. 1 .. 0 = {}
    OBVIOUS
  <2> QED BY <2>1 DEF Steps
<1>8. \A i \in 1 .. n : h[i] = step[<<h[i - 1], q[i]>>]
  <2> TAKE i \in 1 .. n
  <2>1. i - 1 \in 0 .. n /\ i \in 0 .. n
    OBVIOUS
  <2> QED BY <1>2, <1>5, <2>1
<1> HIDE DEF h
<1> QED BY <1>6, <1>7, <1>8 DEF LeftFold, FoldsTo

\* Two folds over sequences that begin alike agree as long as they do.
LEMMA FoldsAgree ==
    ASSUME NEW A, NEW base, NEW step, NEW n \in Nat, NEW m \in Nat, n <= m,
           NEW q, NEW r, \A i \in 1 .. n : q[i] = r[i],
           NEW h, NEW j, LeftFold(h, A, base, step, n, q), LeftFold(j, A, base, step, m, r)
    PROVE  h[n] = j[n]
<1> DEFINE K == {i \in Nat : i <= n => h[i] = j[i]}
<1>1. 0 \in K
  BY DEF LeftFold
<1>2. ASSUME NEW i \in K \cap Nat PROVE i + 1 \in K
  <2> SUFFICES ASSUME i + 1 <= n PROVE h[i + 1] = j[i + 1]
    OBVIOUS
  <2>1. /\ i + 1 \in 1 .. n /\ i + 1 \in 1 .. m
        /\ (i + 1) - 1 = i /\ h[i] = j[i]
    OBVIOUS
  <2>2. q[i + 1] = r[i + 1]
    BY <2>1
  <2>3. h[i + 1] = step[<<h[i], q[i + 1]>>] /\ j[i + 1] = step[<<j[i], r[i + 1]>>]
    BY <2>1 DEF LeftFold
  <2> QED BY <2>1, <2>2, <2>3
<1>3. Nat \subseteq K
  <2> HIDE DEF K
  <2> QED BY <1>1, <1>2, Induction
<1> QED BY <1>3

\* The fold over no element is the base, over one more a step further.
LEMMA FoldEmpty ==
    ASSUME NEW A, NEW base, NEW step, NEW q, NEW v, FoldsTo(v, A, base, step, 0, q)
    PROVE  v = base
BY DEF FoldsTo, LeftFold

LEMMA FoldIn ==
    ASSUME NEW A, NEW base, NEW step, NEW n \in Nat, NEW q, NEW v,
           FoldsTo(v, A, base, step, n, q)
    PROVE  v \in A
<1>1. n \in 0 .. n
  OBVIOUS
<1> QED BY <1>1 DEF FoldsTo, LeftFold

LEMMA FoldStep ==
    ASSUME NEW A, NEW base, NEW step, NEW n \in Nat, NEW m, m = n + 1,
           NEW q, NEW r, \A i \in 1 .. n : q[i] = r[i],
           NEW v, FoldsTo(v, A, base, step, n, q), NEW w, FoldsTo(w, A, base, step, m, r)
    PROVE  w = step[<<v, r[m]>>]
<1>1. PICK h : LeftFold(h, A, base, step, n, q) /\ h[n] = v
  BY DEF FoldsTo
<1>2. PICK j : LeftFold(j, A, base, step, m, r) /\ j[m] = w
  BY DEF FoldsTo
<1>3. h[n] = j[n]
  <2>1. m \in Nat /\ n <= m
    OBVIOUS
  <2>2. \A i \in 1 .. n : q[i] = r[i]
    OBVIOUS
  <2> QED BY ONLY n \in Nat, <1>1, <1>2, <2>1, <2>2, FoldsAgree
<1>4. m \in 1 .. m /\ m - 1 = n
  OBVIOUS
<1>5. j[m] = step[<<j[n], r[m]>>]
  BY <1>2, <1>4 DEF LeftFold
<1> QED BY <1>1, <1>2, <1>3, <1>5

\* What Append leaves and adds, in the form that FoldStep asks for.
LEMMA AppendIs ==
    ASSUME NEW P, NEW q \in Seq(P), NEW x \in P, NEW r, r = Append(q, x)
    PROVE  /\ r \in Seq(P) /\ Len(q) \in Nat /\ Len(r) = Len(q) + 1
           /\ r[Len(r)] = x /\ \A i \in 1 .. Len(q) : q[i] = r[i]
OBVIOUS

\* A set that has the empty sequence, and every sequence with one element more
\* than one of its own, has every sequence.
LEMMA SequenceInduction ==
    ASSUME NEW P, NEW T, <<>> \in T,
           \A q \in T \cap Seq(P), x \in P : Append(q, x) \in T
    PROVE  Seq(P) \subseteq T
<1> DEFINE S == {n \in Nat : \A q \in Seq(P) : Len(q) = n => q \in T}
<1>1. 0 \in S
  <2> SUFFICES ASSUME NEW q \in Seq(P), Len(q) = 0 PROVE q \in T
    OBVIOUS
  <2>1. q = <<>>
    BY EmptySeq
  <2> QED BY <2>1
<1>2. ASSUME NEW n \in S \cap Nat PROVE n + 1 \in S
  <2> SUFFICES ASSUME NEW q \in Seq(P), Len(q) = n + 1 PROVE q \in T
    OBVIOUS
  <2> DEFINE f == SubSeq(q, 1, n)
  <2>1. /\ f \in Seq(P) /\ Len(f) = n /\ q[n + 1] \in P
        /\ \A i \in 1 .. n : f[i] = q[i]
    OBVIOUS
  <2>2. Append(f, q[n + 1]) = q
    <3>1. /\ Append(f, q[n + 1]) \in Seq(P) /\ Len(Append(f, q[n + 1])) = n + 1
          /\ \A i \in 1 .. n + 1 : Append(f, q[n + 1])[i] = q[i]
      BY <2>1
    <3> HIDE DEF f
    <3> QED BY <3>1, SeqEqual
  <2>3. f \in T
    BY <2>1
  <2> HIDE DEF f
  <2> QED BY <2>1, <2>2, <2>3
<1>3. Nat \subseteq S
  <2> HIDE DEF S
  <2> QED BY <1>1, <1>2, Induction
<1> QED BY <1>3

=============================================================================
