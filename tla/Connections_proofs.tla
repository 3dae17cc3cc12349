------------------------- MODULE Connections_proofs -------------------------
(***************************************************************************)
(* Theorems of the store of known hosts (HostKeys), of the attempts to     *)
(* connect (Connect, here under the name Connecting), and of the packets   *)
(* (SshPackets, here Transport).  For any hosts, keys, files, threads and  *)
(* calls the store keeps its invariant and implements the atomic store     *)
(* TrustedHosts; for any jump hosts and attempts the chains are paths, the *)
(* relays are held, and a secret goes to approved keys only.  Whatever     *)
(* their sizes and their ciphers, the packets of the client are laid out   *)
(* as these ask, and those of the server are found again in the bytes,     *)
(* however these are cut.                                                  *)
(***************************************************************************)
EXTENDS MCConnections, CommonLemmas

(***************************************************************************)
(* The store of known hosts                                                *)
(***************************************************************************)


-----------------------------------------------------------------------------
(* The operators of KnownHosts *)

\* Among the lines that name a host there is a last one.
LEMMA LastLine ==
    ASSUME NEW lines \in Seq(Lines), NEW h \in Hosts, Naming(lines, h) # {}
    PROVE  \E i \in Naming(lines, h) : \A j \in Naming(lines, h) : j <= i
<1>1. Naming(lines, h) \subseteq 1 .. Len(lines) /\ Len(lines) \in Nat
  BY DEF Naming
<1> QED BY <1>1, LastPosition

\* An import gives every host an entry: its old one, or that of a line.
LEMMA ImportedIsBook ==
    ASSUME NEW lines \in Seq(Lines), NEW known \in Books
    PROVE  Imported(lines, known) \in Books
<1> SUFFICES ASSUME NEW h \in Hosts PROVE Imported(lines, known)[h] \in Keys \cup {None}
  BY DEF Imported, Books
<1> DEFINE last == CHOOSE i \in Naming(lines, h) : \A j \in Naming(lines, h) : j <= i
<1>1. CASE Naming(lines, h) = {}
  BY <1>1 DEF Imported, Books
<1>2. CASE Naming(lines, h) # {}
  <2>1. last \in Naming(lines, h)
    BY <1>2, LastLine
  <2>2. last \in DOMAIN lines
    BY <2>1 DEF Naming
  <2>3. lines[last].key \in Keys
    <3> HIDE DEF last
    <3>1. lines[last] \in Lines
      BY <2>2
    <3> QED BY <3>1 DEF Lines
  <2>4. Imported(lines, known)[h] = lines[last].key
    BY <1>2 DEF Imported
  <2> QED BY <2>3, <2>4
<1> QED BY <1>1, <1>2

\* Every call leaves a known.
LEMMA AfterIsBook ==
    ASSUME NEW c \in Calls, NEW known \in Books
    PROVE  After(c, known) \in Books
<1>1. c.host \in Hosts /\ c.key \in Keys /\ c.lines \in Seq(Lines)
  BY CallsAssumption DEF AnyCall
<1>2. Imported(c.lines, known) \in Books
  BY <1>1, ImportedIsBook
<1> HIDE DEF Books
<1>3. [known EXCEPT ![c.host] = None] \in Books /\ [known EXCEPT ![c.host] = c.key] \in Books
  BY <1>1 DEF Books
<1> QED BY <1>2, <1>3 DEF After

\* Every call is answered.
LEMMA ReplyIsAnswer ==
    ASSUME NEW c, NEW known
    PROVE  Reply(c, known) \in Answers
BY DEF Reply, Answers, Verdict

-----------------------------------------------------------------------------
(* The invariant *)

LEMMA InitInv == Init => Inv
<1> SUFFICES ASSUME Init PROVE Inv
  OBVIOUS
<1>1. TypeOK
  BY CallsAssumption DEF Init, TypeOK
<1>2. SavesAreFresh
  BY CallsAssumption DEF Init, SavesAreFresh, Inside
<1> QED BY <1>1, <1>2 DEF Inv

\* A thread that returns.
LEMMA ReturnKeeps ==
    ASSUME Inv, NEW t \in Threads, NEW what \in Answers, Return(t, what),
           file' \in Books, tmp' \in Books \cup {Torn, None},
           lock = t \/ UNCHANGED <<file, tmp>>
    PROVE  Inv'
<1>1. TypeOK'
  <2>1. lock' \in Threads \cup {None}
    BY DEF Return, Inv, TypeOK
  <2>2. /\ pc' = [pc EXCEPT ![t] = "idle"] /\ call' = [call EXCEPT ![t] = NoCall]
        /\ copy' = [copy EXCEPT ![t] = None] /\ answer' = [answer EXCEPT ![t] = what]
    BY DEF Return, Goto
  <2> QED BY <2>1, <2>2, CallsAssumption DEF Inv, TypeOK
<1>2. SavesAreFresh'
  <2> SUFFICES ASSUME NEW u \in Threads
               PROVE  /\ lock' = u => pc'[u] \in {"load"} \cup Inside
                      /\ pc'[u] = "load" /\ Locks(call'[u]) => lock' = u
                      /\ pc'[u] \in Inside =>
                           /\ lock' = u
                           /\ Stores(call'[u], file') /\ copy'[u] = After(call'[u], file')
                      /\ pc'[u] = "rename" => tmp' = copy'[u]
    BY DEF SavesAreFresh
  <2>1. CASE u = t
    <3>1. pc'[u] = "idle" /\ lock' # u
      BY <2>1, CallsAssumption DEF Return, Goto, Inv, TypeOK
    <3> QED BY <3>1 DEF Inside
  <2>2. CASE u # t
    <3>1. pc'[u] = pc[u] /\ call'[u] = call[u] /\ copy'[u] = copy[u]
      BY <2>2 DEF Return, Goto, Inv, TypeOK
    <3>2. lock = u => lock' = u
      BY <2>2 DEF Return
    <3>3. lock' = u => lock = u
      BY CallsAssumption DEF Return
    <3>4. CASE lock = t
      <4>1. pc[u] \notin Inside /\ ~ (pc[u] = "load" /\ Locks(call[u]))
        BY <2>2, <3>4 DEF Inv, SavesAreFresh
      <4> QED BY <2>2, <3>1, <3>3, <3>4, <4>1 DEF Inside
    <3>5. CASE UNCHANGED <<file, tmp>>
      BY <3>1, <3>2, <3>3, <3>5 DEF Inv, SavesAreFresh
    <3> QED BY <3>4, <3>5
  <2> QED BY <2>1, <2>2
<1> QED BY <1>1, <1>2 DEF Inv

\* A thread that goes on, with the lock, with a call that needs none, or to take it.
LEMMA GoesOnKeeps ==
    ASSUME Inv, NEW t \in Threads, NEW step \in {"lock", "load"} \cup Inside,
           Goto(t, step),
           call'[t] # NoCall, call' \in [Threads -> Calls \cup {NoCall}],
           copy' \in [Threads -> Books \cup {None}],
           answer' \in [Threads -> Answers \cup {None}],
           \A u \in Threads \ {t} : call'[u] = call[u] /\ copy'[u] = copy[u],
           UNCHANGED file, tmp' \in Books \cup {Torn, None},
           lock' \in {lock, t},
           lock' = lock \/ lock = None,
           tmp' = tmp \/ lock = t,
           lock' = t => step \in {"load"} \cup Inside,
           step = "load" /\ Locks(call'[t]) => lock' = t,
           step \in Inside => /\ lock' = t
                              /\ Stores(call'[t], file) /\ copy'[t] = After(call'[t], file),
           step = "rename" => tmp' = copy'[t]
    PROVE  Inv'
<1>1. pc' = [pc EXCEPT ![t] = step] /\ pc \in [Threads -> {"idle", "lock", "load"} \cup Inside]
  BY DEF Goto, Inv, TypeOK
<1>2. TypeOK'
  <2>1. \A u \in Threads : call'[u] = NoCall <=> pc'[u] = "idle"
    <3> SUFFICES ASSUME NEW u \in Threads PROVE call'[u] = NoCall <=> pc'[u] = "idle"
      OBVIOUS
    <3>1. CASE u = t
      BY <1>1, <3>1 DEF Inside
    <3>2. CASE u # t
      BY <1>1, <3>2 DEF Inv, TypeOK
    <3> QED BY <3>1, <3>2
  <2>2. lock' \in Threads \cup {None} /\ file' \in Books
    BY DEF Inv, TypeOK
  <2>3. pc' \in [Threads -> {"idle", "lock", "load"} \cup Inside]
    BY <1>1
  <2> QED BY <2>1, <2>2, <2>3 DEF TypeOK
<1>3. SavesAreFresh'
  <2> SUFFICES ASSUME NEW u \in Threads
               PROVE  /\ lock' = u => pc'[u] \in {"load"} \cup Inside
                      /\ pc'[u] = "load" /\ Locks(call'[u]) => lock' = u
                      /\ pc'[u] \in Inside =>
                           /\ lock' = u
                           /\ Stores(call'[u], file') /\ copy'[u] = After(call'[u], file')
                      /\ pc'[u] = "rename" => tmp' = copy'[u]
    BY DEF SavesAreFresh
  <2>1. CASE u = t
    BY <1>1, <2>1
  <2>2. CASE u # t
    <3>1. pc'[u] = pc[u] /\ call'[u] = call[u] /\ copy'[u] = copy[u]
      BY <1>1, <2>2
    <3>2. lock' = u => lock = u
      BY <2>2
    <3>3. lock = u => lock' = u
      BY CallsAssumption
    <3>4. pc[u] = "rename" => tmp' = tmp
      BY <2>2 DEF Inv, SavesAreFresh, Inside
    <3> QED BY <3>1, <3>2, <3>3, <3>4 DEF Inv, SavesAreFresh
  <2> QED BY <2>1, <2>2
<1> QED BY <1>2, <1>3 DEF Inv

\* Every step keeps the invariant.
LEMMA NextInv == Inv /\ [Next]_vars => Inv'
<1> SUFFICES ASSUME Inv, [Next]_vars PROVE Inv'
  OBVIOUS
<1> USE CallsAssumption
<1>1. ASSUME NEW t \in Threads, Begin(t) PROVE Inv'
  <2>1. PICK c \in Calls : call' = [call EXCEPT ![t] = c]
                           /\ Goto(t, IF Locks(c) THEN "lock" ELSE "load")
    BY <1>1 DEF Begin
  <2>2. call[t] = NoCall /\ pc[t] = "idle" /\ lock # t
    BY <1>1 DEF Begin, Inv, TypeOK, SavesAreFresh, Inside
  <2>3. call'[t] = c /\ call' \in [Threads -> Calls \cup {NoCall}]
    BY <2>1 DEF Inv, TypeOK
  <2>4. answer' \in [Threads -> Answers \cup {None}] /\ UNCHANGED <<lock, file, tmp, copy>>
    BY <1>1 DEF Begin, Inv, TypeOK
  <2>5. copy' \in [Threads -> Books \cup {None}] /\ tmp' \in Books \cup {Torn, None}
    BY <2>4 DEF Inv, TypeOK
  <2>6. \A u \in Threads \ {t} : call'[u] = call[u] /\ copy'[u] = copy[u]
    BY <2>1, <2>4 DEF Inv, TypeOK
  <2>7. CASE Locks(c)
    BY <2>1, <2>2, <2>3, <2>4, <2>5, <2>6, <2>7, GoesOnKeeps DEF Inside
  <2>8. CASE ~Locks(c)
    BY <2>1, <2>2, <2>3, <2>4, <2>5, <2>6, <2>8, GoesOnKeeps DEF Inside
  <2> QED BY <2>7, <2>8
<1>2. ASSUME NEW t \in Threads, Acquire(t) PROVE Inv'
  <2>1. lock = None /\ lock' = t /\ Goto(t, "load") /\ UNCHANGED <<file, tmp, call, copy, answer>>
    BY <1>2 DEF Acquire
  <2>2. call[t] # NoCall
    BY <1>2 DEF Acquire, Inv, TypeOK
  <2> QED BY <2>1, <2>2, GoesOnKeeps DEF Inv, TypeOK, Inside
<1>3. ASSUME NEW t \in Threads, Load(t) PROVE Inv'
  <2>1. call[t] \in Calls
    BY <1>3 DEF Load, Inv, TypeOK
  <2>2. CASE Stores(call[t], file)
    <3>1. lock = t
      <4>1. Locks(call[t])
        BY <2>2 DEF Stores, Locks
      <4> QED BY <1>3, <4>1 DEF Load, Inv, SavesAreFresh
    <3>2. After(call[t], file) \in Books
      BY <2>1, AfterIsBook DEF Inv, TypeOK
    <3>3. /\ copy' = [copy EXCEPT ![t] = After(call[t], file)] /\ Goto(t, "create")
          /\ UNCHANGED <<lock, call, answer, file, tmp>>
      BY <1>3, <2>2 DEF Load
    <3>4. copy' \in [Threads -> Books \cup {None}] /\ copy'[t] = After(call[t], file)
      BY <3>2, <3>3 DEF Inv, TypeOK
    <3>5. call[t] # NoCall
      BY <2>1
    <3>6. /\ call' \in [Threads -> Calls \cup {NoCall}]
          /\ answer' \in [Threads -> Answers \cup {None}]
          /\ tmp' \in Books \cup {Torn, None}
      BY <3>3 DEF Inv, TypeOK
    <3>7. \A u \in Threads \ {t} : call'[u] = call[u] /\ copy'[u] = copy[u]
      BY <3>3 DEF Inv, TypeOK
    <3> QED BY <2>2, <3>1, <3>3, <3>4, <3>5, <3>6, <3>7, GoesOnKeeps DEF Inside
  <2>3. CASE ~Stores(call[t], file)
    <3>1. Return(t, Reply(call[t], file)) /\ UNCHANGED <<file, tmp>>
      BY <1>3, <2>3 DEF Load
    <3>2. Reply(call[t], file) \in Answers
      BY ReplyIsAnswer
    <3> QED BY <3>1, <3>2, ReturnKeeps DEF Inv, TypeOK
  <2> QED BY <2>2, <2>3
<1>4. ASSUME NEW t \in Threads, LoadFails(t) \/ WriteFails(t) PROVE Inv'
  <2>1. Return(t, "error") /\ UNCHANGED <<file, tmp>>
    BY <1>4 DEF LoadFails, WriteFails
  <2> QED BY <2>1, ReturnKeeps DEF Inv, TypeOK, Answers
<1>5. ASSUME NEW t \in Threads, CreateFails(t) \/ RenameFails(t) PROVE Inv'
  <2>1. Return(t, "error") /\ UNCHANGED file /\ tmp' \in {tmp, None}
    BY <1>5 DEF CreateFails, RenameFails
  <2>2. lock = t
    BY <1>5 DEF CreateFails, RenameFails, Inv, SavesAreFresh, Inside
  <2> QED BY <2>1, <2>2, ReturnKeeps DEF Inv, TypeOK, Answers
<1>6. ASSUME NEW t \in Threads, Create(t) PROVE Inv'
  <2>1. pc[t] = "create" /\ tmp' = Torn /\ Goto(t, "write")
        /\ UNCHANGED <<lock, file, call, copy, answer>>
    BY <1>6 DEF Create
  <2>2. /\ lock = t /\ call[t] # NoCall
        /\ Stores(call[t], file) /\ copy[t] = After(call[t], file)
    BY <2>1 DEF Inv, TypeOK, SavesAreFresh, Inside
  <2> QED BY <2>1, <2>2, GoesOnKeeps DEF Inv, TypeOK, Inside
<1>7. ASSUME NEW t \in Threads, Write(t) PROVE Inv'
  <2>1. pc[t] = "write" /\ tmp' = copy[t] /\ Goto(t, "rename")
        /\ UNCHANGED <<lock, file, call, copy, answer>>
    BY <1>7 DEF Write
  <2>2. /\ lock = t /\ call[t] # NoCall
        /\ Stores(call[t], file) /\ copy[t] = After(call[t], file)
    BY <2>1 DEF Inv, TypeOK, SavesAreFresh, Inside
  <2>3. copy[t] \in Books \cup {None}
    BY DEF Inv, TypeOK
  <2> QED BY <2>1, <2>2, <2>3, GoesOnKeeps DEF Inv, TypeOK, Inside
<1>8. ASSUME NEW t \in Threads, Rename(t) PROVE Inv'
  <2>1. Return(t, Reply(call[t], file)) /\ file' = tmp /\ tmp' = None /\ pc[t] = "rename"
    BY <1>8 DEF Rename
  <2>2. lock = t /\ tmp = After(call[t], file) /\ call[t] \in Calls
    BY <2>1 DEF Inv, TypeOK, SavesAreFresh, Inside
  <2>3. file' \in Books
    BY <2>1, <2>2, AfterIsBook DEF Inv, TypeOK
  <2> QED BY <2>1, <2>2, <2>3, ReplyIsAnswer, ReturnKeeps
<1>9. CASE Crash
  <2>1. TypeOK'
    BY <1>9 DEF Crash, Inv, TypeOK
  <2>2. SavesAreFresh'
    BY <1>9 DEF Crash, SavesAreFresh, Inside
  <2> QED BY <2>1, <2>2 DEF Inv
<1>10. CASE UNCHANGED vars
  <2>1. TypeOK'
    BY <1>10 DEF vars, Inv, TypeOK
  <2>2. SavesAreFresh'
    BY <1>10 DEF vars, Inv, SavesAreFresh
  <2> QED BY <2>1, <2>2 DEF Inv
<1> QED
  BY <1>1, <1>2, <1>3, <1>4, <1>5, <1>6, <1>7, <1>8, <1>9, <1>10 DEF Next, Step

\* The file is always whole, and a thread saves nothing but its own change of what
\* the file says at that moment.
THEOREM InvCorrect == Spec => []Inv
BY InitInv, NextInv, PTL DEF Spec

-----------------------------------------------------------------------------
(* The refinement *)

LEMMA SameOperators ==
    ASSUME NEW c, NEW known
    PROVE  /\ Trusted!After(c, known) = After(c, known)
           /\ Trusted!Reply(c, known) = Reply(c, known)
<1>1. Trusted!Stores(c, known) = Stores(c, known)
  BY DEF Trusted!Stores, Stores
<1>2. Trusted!Verdict(known, c.host, c.key) = Verdict(known, c.host, c.key)
  BY DEF Trusted!Verdict, Verdict
<1>3. Trusted!Imported(c.lines, known) = Imported(c.lines, known)
  BY DEF Trusted!Imported, Imported, Trusted!Naming, Naming
<1>4. Trusted!After(c, known) = After(c, known)
  BY <1>1, <1>3 DEF Trusted!After, After
<1>5. Trusted!Reply(c, known) = Reply(c, known)
  BY <1>1, <1>2 DEF Trusted!Reply, Reply
<1> QED BY <1>4, <1>5

\* A call that returns without a change of the file either failed, or answered what
\* the file says.
LEMMA StepImplements ==
    ASSUME Inv, NEW t \in Threads, Step(t)
    PROVE  [Trusted!Next]_<<file, call, answer>>
<1> USE CallsAssumption
<1>1. CASE Begin(t)
  <2>1. Trusted!Begin(t)
    BY <1>1 DEF Begin, Trusted!Begin, Inv, TypeOK
  <2> QED BY <2>1 DEF Trusted!Next
<1>2. CASE Acquire(t) \/ Create(t) \/ Write(t)
  BY <1>2 DEF Acquire, Create, Write
<1>3. CASE Load(t)
  <2>1. CASE Stores(call[t], file)
    BY <1>3, <2>1 DEF Load
  <2>2. CASE ~Stores(call[t], file)
    <3>1. Return(t, Reply(call[t], file)) /\ UNCHANGED file /\ pc[t] = "load"
      BY <1>3, <2>2 DEF Load
    <3>2. call[t] # NoCall
      BY <3>1 DEF Inv, TypeOK
    <3>3. After(call[t], file) = file
      BY <2>2 DEF After
    <3>4. Trusted!Effect(t)
      BY <3>1, <3>2, <3>3, SameOperators DEF Return, Trusted!Effect, Trusted!Returns
    <3> QED BY <3>4 DEF Trusted!Next
  <2> QED BY <2>1, <2>2
<1>4. CASE LoadFails(t) \/ CreateFails(t) \/ WriteFails(t) \/ RenameFails(t)
  <2>1. Return(t, "error") /\ UNCHANGED file /\ pc[t] # "idle"
    BY <1>4 DEF LoadFails, CreateFails, WriteFails, RenameFails
  <2>2. call[t] # NoCall
    BY <2>1 DEF Inv, TypeOK
  <2>3. Trusted!Failure(t)
    BY <2>1, <2>2 DEF Return, Trusted!Failure, Trusted!Returns
  <2> QED BY <2>3 DEF Trusted!Next
<1>5. CASE Rename(t)
  <2>1. Return(t, Reply(call[t], file)) /\ file' = tmp /\ pc[t] = "rename"
    BY <1>5 DEF Rename
  <2>2. call[t] # NoCall /\ tmp = After(call[t], file)
    BY <2>1 DEF Inv, TypeOK, SavesAreFresh, Inside
  <2>3. Trusted!Effect(t)
    BY <2>1, <2>2, SameOperators DEF Return, Trusted!Effect, Trusted!Returns
  <2> QED BY <2>3 DEF Trusted!Next
<1> QED BY <1>1, <1>2, <1>3, <1>4, <1>5 DEF Step

\* The functions of host_key.rs are atomic: with their lock and their temporary file
\* they do what TrustedHosts does in one step.
THEOREM TrustedHostsImplemented == Spec => ImplementsTrustedHosts
<1>1. Init => Trusted!Init
  BY DEF Init, Trusted!Init, Books, Trusted!Books
<1>2. Inv /\ [Next]_vars => [Trusted!Next]_<<file, call, answer>>
  <2> SUFFICES ASSUME Inv, [Next]_vars PROVE [Trusted!Next]_<<file, call, answer>>
    OBVIOUS
  <2>1. ASSUME NEW t \in Threads, Step(t) PROVE [Trusted!Next]_<<file, call, answer>>
    BY <2>1, StepImplements
  <2>2. CASE Crash
    BY <2>2 DEF Crash, Trusted!Crash, Trusted!Next
  <2>3. CASE UNCHANGED vars
    BY <2>3 DEF vars
  <2> QED BY <2>1, <2>2, <2>3 DEF Next
<1> QED
  BY <1>1, <1>2, InvCorrect, PTL DEF Spec, ImplementsTrustedHosts, Trusted!Spec

(***************************************************************************)
(* The attempts to connect                                                 *)
(***************************************************************************)

\* The operators on sets that Connect uses are those of the library.
LEMMA ConnectSets ==
    /\ \A S : Connecting!IsFiniteSet(S) <=> IsFiniteSet(S)
    /\ \A S : Connecting!Cardinality(S) = Cardinality(S)
  BY DEF Connecting!IsFiniteSet, IsFiniteSet, Connecting!Cardinality, Cardinality

USE ConnectSets

-----------------------------------------------------------------------------
(* The walk along the jump hosts *)

Places == Hosts \cup {Gone}

Longer(path) == IF Connecting!Complete(path) THEN path ELSE <<jump[Head(path)]>> \o path

\* The walk of n steps is the function that Walk applies.
IsWalk(walk, c, n) ==
    walk = [i \in 0 .. n |-> IF i = 0 THEN <<c>> ELSE Longer(walk[i - 1])]

LEMMA WalkExists ==
    ASSUME NEW c, NEW n \in Nat
    PROVE  \E walk : IsWalk(walk, c, n)
<1> DEFINE S == {m \in Nat : \E walk : IsWalk(walk, c, m)}
<1>1. 0 \in S
  <2> DEFINE walk == [i \in 0 .. 0 |-> <<c>>]
  <2>1. IsWalk(walk, c, 0)
    BY DEF IsWalk
  <2> QED BY <2>1
<1>2. ASSUME NEW m \in S \cap Nat PROVE m + 1 \in S
  <2>1. PICK walk : IsWalk(walk, c, m)
    BY <1>2
  <2> DEFINE next == [i \in 0 .. m + 1 |-> IF i = m + 1 THEN Longer(walk[m]) ELSE walk[i]]
  <2>2. ASSUME NEW i \in 0 .. m + 1
        PROVE  next[i] = IF i = 0 THEN <<c>> ELSE Longer(next[i - 1])
    <3>1. CASE i = m + 1
      <4>1. i # 0 /\ i - 1 = m /\ m \in 0 .. m + 1 /\ m # m + 1
        BY <3>1
      <4> QED BY <3>1, <4>1
    <3>2. CASE i # m + 1
      <4>1. i \in 0 .. m /\ (i # 0 => i - 1 \in 0 .. m /\ i - 1 # m + 1 /\ i - 1 \in 0 .. m + 1)
        BY <3>2
      <4>2. walk[i] = IF i = 0 THEN <<c>> ELSE Longer(walk[i - 1])
        BY <2>1, <4>1 DEF IsWalk
      <4> QED BY <3>2, <4>1, <4>2
    <3> QED BY <3>1, <3>2
  <2>3. IsWalk(next, c, m + 1)
    BY <2>2 DEF IsWalk
  <2>4. m + 1 \in Nat
    OBVIOUS
  <2> HIDE DEF next
  <2> QED BY <2>3, <2>4
<1> HIDE DEF S
<1>3. Nat \subseteq S
  BY <1>1, <1>2, Induction
<1> QED BY <1>3 DEF S

\* A path from an outer host, along the jump hosts, to c.
Reaches(path, c) ==
    /\ path \in Seq(Places) /\ path # <<>>
    /\ path[Len(path)] = c
    /\ \A i \in DOMAIN path : i # 1 => path[i] \in Hosts /\ jump[path[i]] = path[i - 1]

LEMMA LongerReaches ==
    ASSUME jump \in [Hosts -> Hosts \cup {None, Gone}], NEW c \in Hosts,
           NEW path, Reaches(path, c), ~Connecting!Complete(path)
    PROVE  Reaches(Longer(path), c) /\ Len(Longer(path)) = Len(path) + 1
<1> DEFINE h == Head(path)
           longer == <<jump[h]>> \o path
<1>1. path \in Seq(Places) /\ Len(path) \in Nat /\ Len(path) >= 1 /\ h = path[1] /\ h \in Places
  BY EmptySeq DEF Reaches
<1>2. h \in Hosts /\ jump[h] \in Places
  BY <1>1 DEF Connecting!Complete, Places
<1>3. /\ longer \in Seq(Places) /\ Len(longer) = Len(path) + 1
      /\ longer[1] = jump[h]
      /\ \A i \in 2 .. Len(path) + 1 : longer[i] = path[i - 1]
  <2>1. <<jump[h]>> \in Seq(Places)
    BY <1>2
  <2> HIDE DEF h
  <2> QED BY <1>1, <2>1, ConcatProperties
<1>4. longer[Len(longer)] = c /\ longer # <<>>
  BY <1>1, <1>3, EmptySeq DEF Reaches
<1>5. ASSUME NEW i \in DOMAIN longer, i # 1
      PROVE  longer[i] \in Hosts /\ jump[longer[i]] = longer[i - 1]
  <2>1. i \in 2 .. Len(path) + 1 /\ longer[i] = path[i - 1] /\ i - 1 \in DOMAIN path
    BY <1>1, <1>3, <1>5
  <2>2. CASE i = 2
    BY <1>1, <1>2, <1>3, <2>1, <2>2
  <2>3. CASE i # 2
    <3>1. longer[i - 1] = path[i - 2] /\ i - 1 # 1
      BY <1>1, <1>3, <2>1, <2>3
    <3> QED BY <2>1, <3>1 DEF Reaches
  <2> QED BY <2>2, <2>3
<1> HIDE DEF longer
<1>6. Longer(path) = longer
  BY DEF Longer, longer, h
<1> QED BY <1>3, <1>4, <1>5, <1>6 DEF Reaches

\* The walk reaches c, and is complete or has more hosts than there are.
LEMMA WalkReaches ==
    ASSUME Connecting!ConnectAssumption, jump \in [Hosts -> Hosts \cup {None, Gone}], NEW c \in Hosts
    PROVE  /\ Reaches(Connecting!Walk(c), c)
           /\ Connecting!Complete(Connecting!Walk(c)) \/ Len(Connecting!Walk(c)) = Cardinality(Hosts) + 1
<1> DEFINE N == Cardinality(Hosts)
           walk == CHOOSE walk : IsWalk(walk, c, N)
           S == {n \in Nat : n <= N =>
                   /\ Reaches(walk[n], c)
                   /\ Connecting!Complete(walk[n]) \/ Len(walk[n]) = n + 1}
<1>1. N \in Nat
  BY FS_CardinalityType DEF Connecting!ConnectAssumption
<1> HIDE DEF N
<1>2. IsWalk(walk, c, N)
  BY <1>1, WalkExists
<1>3. Connecting!Walk(c) = walk[N]
  BY DEF Connecting!Walk, IsWalk, Longer, N
<1> HIDE DEF walk
<1>4. 0 \in S
  <2>1. walk[0] = <<c>>
    BY <1>1, <1>2 DEF IsWalk
  <2>2. <<c>> \in Seq(Places) /\ Len(<<c>>) = 1 /\ <<c>>[1] = c /\ <<c>> # <<>>
    BY DEF Places
  <2>3. Reaches(<<c>>, c)
    <3>1. \A i \in DOMAIN <<c>> : i = 1
      OBVIOUS
    <3> QED BY <2>2, <3>1 DEF Reaches
  <2> QED BY <2>1, <2>2, <2>3
<1>5. ASSUME NEW n \in S \cap Nat PROVE n + 1 \in S
  <2> SUFFICES ASSUME n + 1 <= N
               PROVE  /\ Reaches(walk[n + 1], c)
                      /\ Connecting!Complete(walk[n + 1]) \/ Len(walk[n + 1]) = n + 2
    OBVIOUS
  <2>1. walk[n + 1] = Longer(walk[n])
    <3>1. n + 1 \in 0 .. N /\ n + 1 # 0 /\ (n + 1) - 1 = n
      BY <1>1
    <3> QED BY <1>2, <3>1 DEF IsWalk
  <2>2. n <= N
    BY <1>1
  <2>3. Reaches(walk[n], c) /\ (Connecting!Complete(walk[n]) \/ Len(walk[n]) = n + 1)
    BY <2>2
  <2>4. CASE Connecting!Complete(walk[n])
    BY <2>1, <2>3, <2>4 DEF Longer
  <2>5. CASE ~Connecting!Complete(walk[n])
    BY <2>1, <2>3, <2>5, LongerReaches
  <2> QED BY <2>4, <2>5
<1> HIDE DEF S
<1>6. Nat \subseteq S
  BY <1>4, <1>5, Induction
<1> QED BY <1>1, <1>3, <1>6 DEF S, N

\* resolve_jump_chain: a chain without a cycle and without a deleted host is the path
\* of jump hosts from one without a jump host to the connection that was opened.
LEMMA ChainIsPath ==
    ASSUME Connecting!ConnectAssumption, jump \in [Hosts -> Hosts \cup {None, Gone}], NEW c \in Hosts,
           ~Connecting!Cyclic(Connecting!Walk(c)), ~Connecting!Missing(Connecting!Walk(c))
    PROVE  /\ Connecting!Walk(c) \in Seq(Hosts) /\ Connecting!Walk(c) # <<>>
           /\ \A i \in DOMAIN Connecting!Walk(c) :
                jump[Connecting!Walk(c)[i]] = IF i = 1 THEN None ELSE Connecting!Walk(c)[i - 1]
<1> DEFINE path == Connecting!Walk(c)
<1>1. Reaches(path, c) /\ (Connecting!Complete(path) \/ Len(path) = Cardinality(Hosts) + 1)
  BY WalkReaches
<1>2. ~Connecting!Cyclic(path) /\ ~Connecting!Missing(path)
  OBVIOUS
<1> HIDE DEF path
<1>3. path \in Seq(Hosts) /\ path # <<>> /\ Len(path) \in Nat /\ 1 \in DOMAIN path /\ Head(path) = path[1]
  <2>1. \A i \in DOMAIN path : path[i] \in Hosts
    BY <1>1, <1>2 DEF Reaches, Connecting!Missing, Places
  <2> QED BY <1>1, <2>1, EmptySeq DEF Reaches
<1>4. Len(path) <= Cardinality(Hosts)
  <2>1. \A i, j \in DOMAIN path : path[i] = path[j] => i = j
    BY <1>2 DEF Connecting!Cyclic
  <2> QED BY <1>3, <2>1, Pigeonhole DEF Connecting!ConnectAssumption
<1>5. Connecting!Complete(path)
  BY <1>1, <1>3, <1>4, FS_CardinalityType DEF Connecting!ConnectAssumption
<1>6. jump[path[1]] = None
  BY <1>3, <1>5 DEF Connecting!Complete, Connecting!ConnectAssumption
<1> QED BY <1>1, <1>3, <1>6 DEF Reaches, path

-----------------------------------------------------------------------------
(* The invariant *)

\* What the invariant says of one attempt, and of the book and the dialog.
HopInChain(a) ==
    /\ at[a] = "idle" => hop[a] = 1
    /\ at[a] \notin {"idle", "failed"} \/ Connecting!Refused(a) =>
           chain[a] \in Seq(Hosts) /\ hop[a] \in DOMAIN chain[a]
    /\ at[a] \in {"verify", "login"} \/ Connecting!Refused(a) => shown[a] \in Keys

ChainIsOne(a) ==
    at[a] \notin {"idle", "failed"} =>
        /\ ~Connecting!Cyclic(chain[a])
        /\ from[a] \in {"list", "palette", "dialog"} =>
             \A i \in DOMAIN chain[a] :
                jump[chain[a][i]] = IF i = 1 THEN None ELSE chain[a][i - 1]

RelayIsHeld(a, r) ==
    /\ relay[r] = "stray" => r \in stop
    /\ relay[r] \notin {"none", "stray", "ended"} =>
        /\ r[2] = try[a] /\ r[3] <= hop[a]
        /\ at[a] \in {"handshake", "verify", "login", "dial", "connected"} \/ r \in stop
        /\ at[a] \notin {"idle", "failed", "closed"}

KeyIsAgreed(a) == at[a] = "login" => <<Connecting!Host(a), shown[a]>> \in approved

AttemptInv(a) ==
    /\ HopInChain(a) /\ ChainIsOne(a) /\ KeyIsAgreed(a)
    /\ \A r \in Connecting!RelaysOf(a) : RelayIsHeld(a, r)

BookInv ==
    /\ \A h \in Hosts : book[h] # None => <<h, book[h]>> \in approved
    /\ trusting # None => <<trusting.host, trusting.key>> \in approved
    /\ dialog \in {"trust", "open"} => trusting # None

Parts == Connecting!TypeOK /\ BookInv /\ \A a \in Attempts : AttemptInv(a)

LEMMA InvParts == Connecting!Inv <=> Parts
<1>1. Connecting!HopsInChain <=> \A a \in Attempts : HopInChain(a)
  BY DEF Connecting!HopsInChain, HopInChain
<1>2. Connecting!ChainsArePaths <=> \A a \in Attempts : ChainIsOne(a)
  BY DEF Connecting!ChainsArePaths, ChainIsOne
<1>3. Connecting!RelaysAreHeld <=> \A a \in Attempts : \A r \in Connecting!RelaysOf(a) : RelayIsHeld(a, r)
  BY DEF Connecting!RelaysAreHeld, RelayIsHeld
<1>4. Connecting!KeysAreAgreed <=> BookInv /\ \A a \in Attempts : KeyIsAgreed(a)
  BY DEF Connecting!KeysAreAgreed, BookInv, KeyIsAgreed
<1> QED BY <1>1, <1>2, <1>3, <1>4 DEF Connecting!Inv, Parts, AttemptInv

\* A step that leaves an attempt and its relays as they are.
Untouched(a) ==
    /\ at'[a] = at[a] /\ from'[a] = from[a] /\ chain'[a] = chain[a] /\ hop'[a] = hop[a]
    /\ try'[a] = try[a] /\ shown'[a] = shown[a] /\ error'[a] = error[a]
    /\ \A r \in Connecting!RelaysOf(a) : relay'[r] = relay[r]

\* Flags are only set, the user takes back nothing, and jump hosts stay.
Grows == stop \subseteq stop' /\ approved \subseteq approved' /\ jump' = jump

LEMMA UntouchedKeeps ==
    ASSUME NEW a \in Attempts, AttemptInv(a), Untouched(a), Grows
    PROVE  AttemptInv(a)'
<1>1. HopInChain(a)'
  BY DEF AttemptInv, HopInChain, Untouched, Connecting!Refused
<1>2. ChainIsOne(a)'
  BY DEF AttemptInv, ChainIsOne, Untouched, Connecting!Cyclic, Grows
<1>3. KeyIsAgreed(a)'
  BY DEF AttemptInv, KeyIsAgreed, Untouched, Connecting!Host, Grows
<1>4. \A r \in Connecting!RelaysOf(a)' : RelayIsHeld(a, r)'
  BY DEF AttemptInv, RelayIsHeld, Untouched, Grows, Connecting!RelaysOf
<1> QED BY <1>1, <1>2, <1>3, <1>4 DEF AttemptInv

\* A step of one attempt.
LEMMA AttemptKeeps ==
    ASSUME Connecting!Inv, NEW a \in Attempts, \A b \in Attempts \ {a} : Untouched(b), Grows,
           Connecting!TypeOK', BookInv', AttemptInv(a)'
    PROVE  Connecting!Inv'
<1>1. \A b \in Attempts : AttemptInv(b)'
  <2> SUFFICES ASSUME NEW b \in Attempts PROVE AttemptInv(b)'
    OBVIOUS
  <2>1. CASE b = a
    BY <2>1
  <2>2. CASE b # a
    BY <2>2, UntouchedKeeps, InvParts DEF Parts
  <2> QED BY <2>1, <2>2
<1>2. Parts'
  BY <1>1 DEF Parts
<1> QED BY <1>2, InvParts, PTL

LEMMA ConnectInitInv == ASSUME Connecting!ConnectAssumption, Connecting!Init PROVE Connecting!Inv
<1>1. Cardinality(Hosts) \in Nat \ {0}
  BY FS_CardinalityType, FS_EmptySet DEF Connecting!ConnectAssumption
<1>2. Connecting!TypeOK
  <2>1. 1 \in 1 .. Cardinality(Hosts) /\ 1 \in 1 .. MaxTries
    BY <1>1 DEF Connecting!ConnectAssumption
  <2>2. <<>> \in Seq(Places)
    OBVIOUS
  <2> QED BY <2>1, <2>2 DEF Connecting!Init, Connecting!TypeOK, Places
<1>3. ASSUME NEW a \in Attempts PROVE AttemptInv(a)
  <2>1. /\ at[a] = "idle" /\ error[a] = None /\ hop[a] = 1
        /\ \A r \in Connecting!RelaysOf(a) : relay[r] = "none"
    BY DEF Connecting!Init, Connecting!RelaysOf
  <2> QED
    BY <2>1 DEF AttemptInv, HopInChain, ChainIsOne, KeyIsAgreed, RelayIsHeld, Connecting!Refused,
                Connecting!ConnectAssumption
<1>4. BookInv
  <2>1. ASSUME NEW h \in Hosts, book[h] # None PROVE <<h, book[h]>> \in approved
    BY <2>1 DEF Connecting!Init
  <2> QED BY <2>1 DEF Connecting!Init, BookInv
<1> QED BY <1>2, <1>3, <1>4, InvParts DEF Parts

LEMMA Types ==
    ASSUME Connecting!ConnectAssumption, Connecting!Inv
    PROVE  /\ Cardinality(Hosts) \in Nat
           /\ hop \in [Attempts -> 1 .. Cardinality(Hosts)]
           /\ shown \in [Attempts -> Keys \cup {None}]
           /\ key \in [Hosts -> Keys]
           /\ \A a \in Attempts : hop[a] \in Nat /\ (Connecting!Refused(a) => shown[a] \in Keys)
<1>1. Cardinality(Hosts) \in Nat
  BY FS_CardinalityType DEF Connecting!ConnectAssumption
<1>2. /\ hop \in [Attempts -> 1 .. Cardinality(Hosts)]
      /\ shown \in [Attempts -> Keys \cup {None}]
      /\ key \in [Hosts -> Keys]
  BY DEF Connecting!Inv, Connecting!TypeOK
<1> QED BY <1>1, <1>2 DEF Connecting!Inv, Connecting!HopsInChain

\* Where an attempt under way stands.
LEMMA AtHop ==
    ASSUME Connecting!ConnectAssumption, Connecting!Inv, NEW a \in Attempts, at[a] \notin {"idle", "failed"}
    PROVE  /\ chain[a] \in Seq(Hosts) /\ Len(chain[a]) \in Nat /\ Len(chain[a]) >= 1
           /\ hop[a] \in 1 .. Len(chain[a]) /\ hop[a] \in DOMAIN chain[a]
           /\ Len(chain[a]) <= Cardinality(Hosts)
           /\ Connecting!Host(a) \in Hosts
           /\ ~Connecting!Cyclic(chain[a])
<1>1. chain[a] \in Seq(Hosts) /\ hop[a] \in DOMAIN chain[a] /\ ~Connecting!Cyclic(chain[a])
  BY DEF Connecting!Inv, Connecting!HopsInChain, Connecting!ChainsArePaths
<1>2. \A i, j \in DOMAIN chain[a] : chain[a][i] = chain[a][j] => i = j
  BY <1>1 DEF Connecting!Cyclic
<1>3. Len(chain[a]) <= Cardinality(Hosts)
  BY <1>1, <1>2, Pigeonhole DEF Connecting!ConnectAssumption
<1> QED BY <1>1, <1>3 DEF Connecting!Host

\* An attempt begins, on the path of jump hosts or on the chain it is given.
LEMMA StartKeeps ==
    ASSUME Connecting!ConnectAssumption, Connecting!Inv, NEW a \in Attempts, NEW origin \in Connecting!Origins,
           NEW path \in Seq(Places), path # <<>>, Connecting!Start(a, origin, path),
           ~Connecting!Cyclic(path) /\ ~Connecting!Missing(path) /\ origin \in {"list", "palette", "dialog"} =>
               \A i \in DOMAIN path : jump[path[i]] = IF i = 1 THEN None ELSE path[i - 1],
           UNCHANGED <<Connecting!store, Connecting!relays, approved, told, prompt, trusting>>, opening' \in BOOLEAN,
           dialog' \in {dialog, a}
    PROVE  Connecting!Inv'
<1>1. /\ at[a] = "idle" /\ hop[a] = 1
      /\ at' = [at EXCEPT ![a] = IF Connecting!Cyclic(path) \/ Connecting!Missing(path) THEN "failed" ELSE "dial"]
      /\ error' = IF Connecting!Cyclic(path) \/ Connecting!Missing(path) THEN [error EXCEPT ![a] = "other"] ELSE error
      /\ from' = [from EXCEPT ![a] = origin] /\ chain' = [chain EXCEPT ![a] = path]
      /\ UNCHANGED <<hop, try, shown, relay, stop, jump, key, book, approved, told, prompt,
                     trusting>>
  BY DEF Connecting!Start, Connecting!store, Connecting!relays, Connecting!Inv,
         Connecting!HopsInChain
<1>2. Connecting!TypeOK'
  BY <1>1 DEF Connecting!Inv, Connecting!TypeOK, Places
<1>3. BookInv'
  BY <1>1, InvParts DEF Parts, BookInv, Connecting!ConnectAssumption
<1>4. \A b \in Attempts \ {a} : Untouched(b)
  BY <1>1 DEF Untouched, Connecting!Inv, Connecting!TypeOK
<1>5. Grows
  BY <1>1 DEF Grows
<1>6. AttemptInv(a)'
  <2>1. /\ at'[a] = IF Connecting!Cyclic(path) \/ Connecting!Missing(path) THEN "failed" ELSE "dial"
        /\ chain'[a] = path /\ from'[a] = origin /\ hop'[a] = 1 /\ hop[a] = 1
    BY <1>1 DEF Connecting!Inv, Connecting!TypeOK
  <2>2. error'[a] = IF Connecting!Cyclic(path) \/ Connecting!Missing(path) THEN "other" ELSE error[a]
    BY <1>1 DEF Connecting!Inv, Connecting!TypeOK
  <2>3. HopInChain(a)'
    <3>1. CASE Connecting!Cyclic(path) \/ Connecting!Missing(path)
      BY <2>1, <2>2, <3>1 DEF HopInChain, Connecting!Refused
    <3>2. CASE ~ (Connecting!Cyclic(path) \/ Connecting!Missing(path))
      <4>1. path \in Seq(Hosts) /\ 1 \in DOMAIN path
        <5>1. \A i \in DOMAIN path : path[i] \in Hosts
          BY <3>2 DEF Connecting!Missing, Places
        <5> QED BY <5>1, EmptySeq
      <4>2. Connecting!Refused(a)' => shown'[a] \in Keys
        BY <1>1, <2>2, <3>2 DEF Connecting!Inv, Connecting!HopsInChain, Connecting!Refused
      <4> QED BY <2>1, <2>2, <3>2, <4>1, <4>2 DEF HopInChain
    <3> QED BY <3>1, <3>2
  <2>4. ChainIsOne(a)'
    BY <1>1, <2>1 DEF ChainIsOne, Connecting!Cyclic
  <2>5. KeyIsAgreed(a)'
    BY <2>1 DEF KeyIsAgreed
  <2>6. \A r \in Connecting!RelaysOf(a) : RelayIsHeld(a, r)'
    BY <1>1, <2>1 DEF Connecting!Inv, Connecting!RelaysAreHeld, RelayIsHeld
  <2> QED BY <2>3, <2>4, <2>5, <2>6 DEF AttemptInv, Connecting!RelaysOf
<1> QED BY <1>2, <1>3, <1>4, <1>5, <1>6, AttemptKeeps

\* The opens, with their paths.
LEMMA OpenKeeps ==
    ASSUME Connecting!ConnectAssumption, Connecting!Inv, NEW a \in Attempts,
           Connecting!Open(a) \/ Connecting!OpenPalette(a) \/ Connecting!OpenSub(a) \/ Connecting!Reopen(a)
    PROVE  Connecting!Inv'
<1>1. ASSUME NEW c \in Hosts
      PROVE  /\ Connecting!Walk(c) \in Seq(Places) /\ Connecting!Walk(c) # <<>>
             /\ ~Connecting!Cyclic(Connecting!Walk(c)) /\ ~Connecting!Missing(Connecting!Walk(c)) =>
                  \A i \in DOMAIN Connecting!Walk(c) :
                      jump[Connecting!Walk(c)[i]] = IF i = 1 THEN None ELSE Connecting!Walk(c)[i - 1]
  <2>1. jump \in [Hosts -> Hosts \cup {None, Gone}]
    BY DEF Connecting!Inv, Connecting!TypeOK
  <2> QED BY <2>1, WalkReaches, ChainIsPath DEF Reaches
<1>2. CASE Connecting!Open(a)
  <2>1. PICK c \in Hosts : Connecting!Start(a, "list", Connecting!Walk(c)) \/ Connecting!Start(a, "quick", <<c>>)
    BY <1>2 DEF Connecting!Open
  <2>2. /\ UNCHANGED <<Connecting!store, Connecting!relays, approved, told, prompt, trusting>> /\ opening' \in BOOLEAN
        /\ dialog' \in {dialog, a}
    BY <1>2 DEF Connecting!Open
  <2>3. CASE Connecting!Start(a, "list", Connecting!Walk(c))
    BY <1>1, <2>2, <2>3, StartKeeps DEF Connecting!Origins
  <2>4. CASE Connecting!Start(a, "quick", <<c>>)
    <3>1. <<c>> \in Seq(Places) /\ <<c>> # <<>>
      BY DEF Places
    <3> QED BY <2>2, <2>4, <3>1, StartKeeps DEF Connecting!Origins
  <2> QED BY <2>1, <2>3, <2>4
<1>3. CASE Connecting!OpenPalette(a)
  <2>1. PICK c \in Hosts : Connecting!Start(a, "palette", Connecting!Walk(c))
    BY <1>3 DEF Connecting!OpenPalette
  <2>2. /\ UNCHANGED <<Connecting!store, Connecting!relays, approved, told, prompt, trusting>> /\ opening' \in BOOLEAN
        /\ dialog' \in {dialog, a}
    BY <1>3 DEF Connecting!OpenPalette
  <2> QED BY <1>1, <2>1, <2>2, StartKeeps DEF Connecting!Origins
<1>4. CASE Connecting!OpenSub(a)
  <2>1. PICK b \in Attempts : at[b] = "connected" /\ Connecting!Start(a, "sub", chain[b])
    BY <1>4 DEF Connecting!OpenSub
  <2>2. /\ UNCHANGED <<Connecting!store, Connecting!relays, approved, told, prompt, trusting>> /\ opening' \in BOOLEAN
        /\ dialog' \in {dialog, a}
    BY <1>4 DEF Connecting!OpenSub, Connecting!ui, Connecting!Inv, Connecting!TypeOK
  <2>3. chain[b] \in Seq(Places) /\ chain[b] # <<>>
    BY <2>1, AtHop, EmptySeq DEF Places
  <2> QED BY <2>1, <2>2, <2>3, StartKeeps DEF Connecting!Origins
<1>5. CASE Connecting!Reopen(a)
  <2>1. /\ dialog = "open" /\ Connecting!Start(a, "dialog", Connecting!Walk(trusting.conn))
        /\ UNCHANGED <<Connecting!store, Connecting!relays, approved, told, prompt, trusting>> /\ opening' \in BOOLEAN
        /\ dialog' \in {dialog, a}
    BY <1>5 DEF Connecting!Reopen, Connecting!Inv, Connecting!TypeOK
  <2>2. trusting.conn \in Hosts
    <3>1. trusting \in Connecting!Prompts
      BY <2>1 DEF Connecting!Inv, Connecting!TypeOK, Connecting!KeysAreAgreed
    <3> QED BY <3>1 DEF Connecting!Prompts
  <2> QED BY <1>1, <2>1, <2>2, StartKeeps DEF Connecting!Origins
<1> QED BY <1>2, <1>3, <1>4, <1>5

\* An attempt fails, and its relays are told to stop.
LEMMA FailsKeeps ==
    ASSUME Connecting!ConnectAssumption, Connecting!Inv, NEW a \in Attempts, NEW what, Connecting!Fails(a, what),
           at[a] \in {"dial", "handshake", "verify", "login"},
           what = "other" \/ (what \in {"unknown", "changed"} /\ at[a] = "verify"),
           UNCHANGED <<Connecting!store, Connecting!ui, relay, from, chain, hop, try, shown>>
    PROVE  Connecting!Inv'
<1>1. /\ at' = [at EXCEPT ![a] = "drop"] /\ error' = [error EXCEPT ![a] = what]
      /\ stop' = stop \cup Connecting!Held(a) /\ what \in {"unknown", "changed", "other"}
      /\ UNCHANGED <<relay, from, chain, hop, try, shown, jump, key, book, opening, told,
                     prompt, dialog, trusting, approved>>
  BY DEF Connecting!Fails, Connecting!store, Connecting!ui
<1>2. Connecting!TypeOK'
  <2>1. Connecting!Held(a) \subseteq Connecting!Relays
    BY DEF Connecting!Held, Connecting!RelaysOf
  <2> QED BY <1>1, <2>1 DEF Connecting!Inv, Connecting!TypeOK
<1>3. BookInv'
  BY <1>1, InvParts DEF Parts, BookInv
<1>4. \A b \in Attempts \ {a} : Untouched(b)
  BY <1>1 DEF Untouched, Connecting!Inv, Connecting!TypeOK
<1>5. Grows
  BY <1>1 DEF Grows
<1>6. AttemptInv(a)'
  <2>1. at'[a] = "drop" /\ error'[a] = what
    BY <1>1 DEF Connecting!Inv, Connecting!TypeOK
  <2>2. HopInChain(a)'
    BY <1>1, <2>1 DEF Connecting!Inv, Connecting!HopsInChain, HopInChain, Connecting!Refused
  <2>3. ChainIsOne(a)' /\ KeyIsAgreed(a)'
    BY <1>1, <2>1 DEF Connecting!Inv, Connecting!ChainsArePaths, ChainIsOne, KeyIsAgreed,
           Connecting!Cyclic
  <2>4. ASSUME NEW r \in Connecting!RelaysOf(a) PROVE RelayIsHeld(a, r)'
    <3>1. RelayIsHeld(a, r)
      BY InvParts DEF Parts, AttemptInv
    <3>2. r[2] = try[a] /\ relay[r] \notin {"none", "stray"} => r \in stop'
      BY <1>1 DEF Connecting!Held
    <3> QED BY <1>1, <2>1, <3>1, <3>2 DEF RelayIsHeld
  <2> QED BY <2>2, <2>3, <2>4 DEF AttemptInv, Connecting!RelaysOf
<1> QED BY <1>2, <1>3, <1>4, <1>5, <1>6, AttemptKeeps

\* An attempt goes on, with the same relays.
LEMMA ConnectGoesOnKeeps ==
    ASSUME Connecting!ConnectAssumption, Connecting!Inv, NEW a \in Attempts,
           NEW next \in {"handshake", "verify", "login", "connected", "dial"},
           at' = [at EXCEPT ![a] = next],
           at[a] \in {"dial", "handshake", "verify", "login"},
           hop' \in [Attempts -> 1 .. Cardinality(Hosts)],
           \A b \in Attempts \ {a} : hop'[b] = hop[b] /\ shown'[b] = shown[b],
           hop'[a] \in DOMAIN chain[a], hop[a] <= hop'[a],
           shown' \in [Attempts -> Keys \cup {None}],
           next \in {"verify", "login"} \/ Connecting!Refused(a) => shown'[a] \in Keys,
           next = "login" => <<Connecting!Host(a), shown[a]>> \in approved /\ UNCHANGED <<hop, shown>>,
           UNCHANGED <<Connecting!store, Connecting!ui, Connecting!relays, from, chain, try, error>>
    PROVE  Connecting!Inv'
<1>1. UNCHANGED <<relay, stop, jump, key, book, opening, told, prompt, dialog, trusting, approved>>
  BY DEF Connecting!store, Connecting!ui, Connecting!relays
<1>2. Connecting!TypeOK'
  BY <1>1 DEF Connecting!Inv, Connecting!TypeOK
<1>3. BookInv'
  BY <1>1, InvParts DEF Parts, BookInv
<1>4. \A b \in Attempts \ {a} : Untouched(b)
  BY <1>1 DEF Untouched, Connecting!Inv, Connecting!TypeOK
<1>5. Grows
  BY <1>1 DEF Grows
<1>6. AttemptInv(a)'
  <2>1. at'[a] = next
    BY DEF Connecting!Inv, Connecting!TypeOK
  <2>2. HopInChain(a)'
    BY <2>1 DEF Connecting!Inv, Connecting!HopsInChain, HopInChain, Connecting!Refused
  <2>3. ChainIsOne(a)'
    BY <1>1, <2>1 DEF Connecting!Inv, Connecting!ChainsArePaths, ChainIsOne, Connecting!Cyclic
  <2>4. KeyIsAgreed(a)'
    BY <1>1, <2>1 DEF KeyIsAgreed, Connecting!Host
  <2>5. ASSUME NEW r \in Connecting!RelaysOf(a) PROVE RelayIsHeld(a, r)'
    <3>1. RelayIsHeld(a, r)
      BY InvParts DEF Parts, AttemptInv
    <3>2. r[3] \in Int /\ hop[a] \in Int /\ hop'[a] \in Int
      BY DEF Connecting!RelaysOf, Connecting!Relays, Connecting!Inv, Connecting!TypeOK
    <3> QED BY <1>1, <2>1, <3>1, <3>2 DEF RelayIsHeld
  <2> QED BY <2>2, <2>3, <2>4, <2>5 DEF AttemptInv, Connecting!RelaysOf
<1> QED BY <1>2, <1>3, <1>4, <1>5, <1>6, AttemptKeeps

LEMMA CarrierIsRelay ==
    ASSUME Connecting!ConnectAssumption, Connecting!Inv, NEW a \in Attempts, at[a] = "dial", hop[a] > 1
    PROVE  Connecting!Carrier(a) \in Connecting!RelaysOf(a) /\ Connecting!Carrier(a)[2] = try[a] /\ Connecting!Carrier(a)[3] = hop[a]
<1>1. hop[a] \in 2 .. Cardinality(Hosts) /\ try[a] \in 1 .. MaxTries
  BY FS_CardinalityType DEF Connecting!Inv, Connecting!TypeOK, Connecting!ConnectAssumption
<1> QED BY <1>1 DEF Connecting!Carrier, Connecting!RelaysOf, Connecting!Relays

LEMMA DialKeeps ==
    ASSUME Connecting!ConnectAssumption, Connecting!Inv, NEW a \in Attempts, Connecting!Dial(a) \/ Connecting!DialRelayFails(a)
    PROVE  Connecting!Inv'
<1>1. at[a] = "dial" /\ UNCHANGED <<Connecting!store, Connecting!ui, from, chain, hop, try, shown>>
  BY DEF Connecting!Dial, Connecting!DialRelayFails
<1>2. hop[a] \in Nat /\ hop[a] \in DOMAIN chain[a] /\ hop[a] <= hop[a]
  BY <1>1, AtHop, Types
<1>3. Connecting!Refused(a) => shown[a] \in Keys
  BY Types
<1>4. CASE Connecting!Dial(a) /\ hop[a] = 1 /\ at' = [at EXCEPT ![a] = "handshake"]
           /\ relay' = relay /\ UNCHANGED <<error, stop>>
  <2>1. UNCHANGED <<Connecting!store, Connecting!ui, Connecting!relays, from, chain, try, error, hop, shown>>
    BY <1>1, <1>4 DEF Connecting!relays
  <2> QED BY <1>1, <1>2, <1>3, <1>4, <2>1, Types, ConnectGoesOnKeeps
<1>5. CASE Connecting!Dial(a) /\ hop[a] # 1 /\ at' = [at EXCEPT ![a] = "handshake"]
           /\ relay' = [relay EXCEPT ![Connecting!Carrier(a)] = "accept"] /\ UNCHANGED <<error, stop>>
  <2>1. /\ Connecting!Carrier(a) \in Connecting!RelaysOf(a) /\ Connecting!Carrier(a) \in Connecting!Relays
        /\ Connecting!Carrier(a)[1] = a /\ Connecting!Carrier(a)[2] = try[a] /\ Connecting!Carrier(a)[3] = hop[a]
    <3>1. hop[a] > 1
      BY <1>2, <1>5, FS_CardinalityType DEF Connecting!ConnectAssumption, Connecting!Inv,
             Connecting!TypeOK
    <3> QED BY <1>1, <3>1, CarrierIsRelay DEF Connecting!RelaysOf
  <2>2. UNCHANGED <<jump, key, book, opening, told, prompt, dialog, trusting, approved>>
    BY <1>1 DEF Connecting!store, Connecting!ui
  <2>3. Connecting!TypeOK'
    BY <1>1, <1>5, <2>1, <2>2 DEF Connecting!Inv, Connecting!TypeOK
  <2>4. BookInv'
    BY <2>2, InvParts DEF Parts, BookInv
  <2>5. \A b \in Attempts \ {a} : Untouched(b)
    BY <1>1, <1>5, <2>1 DEF Untouched, Connecting!Inv, Connecting!TypeOK, Connecting!RelaysOf
  <2>6. Grows
    BY <1>5, <2>2 DEF Grows
  <2>7. at'[a] = "handshake"
    BY <1>5 DEF Connecting!Inv, Connecting!TypeOK
  <2>8. HopInChain(a)' /\ ChainIsOne(a)' /\ KeyIsAgreed(a)'
    BY <1>1, <1>5, <2>2, <2>7
       DEF Connecting!Inv, Connecting!HopsInChain, Connecting!ChainsArePaths, HopInChain,
               ChainIsOne, KeyIsAgreed, Connecting!Refused, Connecting!Cyclic
  <2>9. ASSUME NEW r \in Connecting!RelaysOf(a) PROVE RelayIsHeld(a, r)'
    <3>1. RelayIsHeld(a, r)
      BY InvParts DEF Parts, AttemptInv
    <3>2. CASE r = Connecting!Carrier(a)
      BY <1>1, <1>2, <1>5, <2>1, <2>7, <3>2 DEF RelayIsHeld, Connecting!Inv, Connecting!TypeOK
    <3>3. CASE r # Connecting!Carrier(a)
      <4>1. relay'[r] = relay[r]
        BY <1>5, <3>3 DEF Connecting!Inv, Connecting!TypeOK, Connecting!RelaysOf
      <4> QED BY <1>1, <1>5, <2>7, <3>1, <4>1 DEF RelayIsHeld
    <3> QED BY <3>2, <3>3
  <2> QED BY <2>3, <2>4, <2>5, <2>6, <2>8, <2>9, AttemptKeeps DEF AttemptInv, Connecting!RelaysOf
<1>6. CASE Connecting!Dial(a) /\ Connecting!Fails(a, "other") /\ UNCHANGED relay
  BY <1>1, <1>6, FailsKeeps
<1>7. CASE Connecting!DialRelayFails(a)
  <2>1. /\ hop[a] > 1 /\ at' = [at EXCEPT ![a] = "drop"] /\ error' = [error EXCEPT ![a] = "other"]
        /\ relay' = [relay EXCEPT ![Connecting!Carrier(a)] = "stray"]
        /\ stop' = stop \cup Connecting!Held(a) \cup {Connecting!Carrier(a)}
    BY <1>7 DEF Connecting!DialRelayFails
  <2>2. Connecting!Carrier(a) \in Connecting!RelaysOf(a) /\ Connecting!Carrier(a) \in Connecting!Relays /\ Connecting!Carrier(a)[1] = a
    BY <1>1, <2>1, CarrierIsRelay DEF Connecting!RelaysOf
  <2>3. UNCHANGED <<jump, key, book, opening, told, prompt, dialog, trusting, approved>>
    BY <1>1 DEF Connecting!store, Connecting!ui
  <2>4. Connecting!TypeOK'
    <3>1. Connecting!Held(a) \subseteq Connecting!Relays
      BY DEF Connecting!Held, Connecting!RelaysOf
    <3> QED BY <1>1, <2>1, <2>2, <2>3, <3>1 DEF Connecting!Inv, Connecting!TypeOK
  <2>5. BookInv'
    BY <2>3, InvParts DEF Parts, BookInv
  <2>6. \A b \in Attempts \ {a} : Untouched(b)
    BY <1>1, <2>1, <2>2 DEF Untouched, Connecting!Inv, Connecting!TypeOK, Connecting!RelaysOf
  <2>7. Grows
    BY <2>1, <2>3 DEF Grows
  <2>8. at'[a] = "drop" /\ error'[a] = "other"
    BY <2>1 DEF Connecting!Inv, Connecting!TypeOK
  <2>9. HopInChain(a)' /\ ChainIsOne(a)' /\ KeyIsAgreed(a)'
    BY <1>1, <2>3, <2>8
       DEF Connecting!Inv, Connecting!HopsInChain, Connecting!ChainsArePaths, HopInChain,
               ChainIsOne, KeyIsAgreed, Connecting!Refused, Connecting!Cyclic
  <2>10. ASSUME NEW r \in Connecting!RelaysOf(a) PROVE RelayIsHeld(a, r)'
    <3>1. RelayIsHeld(a, r)
      BY InvParts DEF Parts, AttemptInv
    <3>2. CASE r = Connecting!Carrier(a)
      BY <2>1, <2>2, <3>2 DEF RelayIsHeld, Connecting!Inv, Connecting!TypeOK
    <3>3. CASE r # Connecting!Carrier(a)
      <4>1. relay'[r] = relay[r]
        BY <2>1, <3>3 DEF Connecting!Inv, Connecting!TypeOK, Connecting!RelaysOf
      <4>2. r[2] = try[a] /\ relay[r] \notin {"none", "stray"} => r \in stop'
        BY <2>1 DEF Connecting!Held
      <4> QED BY <1>1, <2>1, <2>8, <3>1, <4>1, <4>2 DEF RelayIsHeld
    <3> QED BY <3>2, <3>3
  <2> QED BY <2>4, <2>5, <2>6, <2>7, <2>9, <2>10, AttemptKeeps DEF AttemptInv, Connecting!RelaysOf
<1> QED BY <1>4, <1>5, <1>6, <1>7 DEF Connecting!Dial

LEMMA HandshakeKeeps ==
    ASSUME Connecting!ConnectAssumption, Connecting!Inv, NEW a \in Attempts, Connecting!Handshake(a)
    PROVE  Connecting!Inv'
<1>1. at[a] = "handshake" /\ UNCHANGED <<Connecting!store, Connecting!ui, relay, from, chain, hop, try>>
  BY DEF Connecting!Handshake
<1>2. hop[a] \in DOMAIN chain[a] /\ hop[a] \in Nat /\ hop[a] <= hop[a]
  BY <1>1, AtHop, Types
<1>4. CASE Connecting!Fails(a, "other") /\ UNCHANGED shown
  <2>1. UNCHANGED <<Connecting!store, Connecting!ui, relay, from, chain, hop, try, shown>>
    BY <1>1, <1>4
  <2> QED BY <1>1, <1>4, <2>1, FailsKeeps
<1>3. CASE /\ at' = [at EXCEPT ![a] = "verify"]
           /\ shown' = [shown EXCEPT ![a] = key[Connecting!Host(a)]] /\ UNCHANGED <<error, stop>>
  <2>1. key[Connecting!Host(a)] \in Keys
    <3>1. Connecting!Host(a) \in Hosts
      BY <1>1, AtHop
    <3> QED BY <3>1, Types
  <2>2. /\ shown' \in [Attempts -> Keys \cup {None}] /\ shown'[a] \in Keys
        /\ \A b \in Attempts \ {a} : shown'[b] = shown[b]
    BY <1>3, <2>1, Types
  <2>3. UNCHANGED <<Connecting!store, Connecting!ui, Connecting!relays, from, chain, try, error, hop>>
    BY <1>1, <1>3 DEF Connecting!relays
  <2> QED BY <1>1, <1>2, <1>3, <2>2, <2>3, Types, ConnectGoesOnKeeps
<1> QED BY <1>4, <1>3 DEF Connecting!Handshake

\* verify_host_key lets in a key that the book has for the host, which the user
\* agreed to.
LEMMA VerifyKeeps ==
    ASSUME Connecting!ConnectAssumption, Connecting!Inv, NEW a \in Attempts, Connecting!Verify(a)
    PROVE  Connecting!Inv'
<1> DEFINE verdict == Connecting!Verdict(book, Connecting!Host(a), shown[a])
<1>1. at[a] = "verify" /\ UNCHANGED <<Connecting!store, Connecting!ui, relay, from, chain, hop, try, shown>>
  BY DEF Connecting!Verify
<1>2. /\ Connecting!Host(a) \in Hosts /\ hop[a] \in DOMAIN chain[a] /\ hop[a] \in Nat
      /\ hop[a] <= hop[a]
  BY <1>1, AtHop, Types
<1>5. shown[a] \in Keys
  BY <1>1 DEF Connecting!Inv, Connecting!HopsInChain
<1>3. CASE verdict = "ok"
  <2>1. <<Connecting!Host(a), shown[a]>> \in approved
    <3>1. book[Connecting!Host(a)] = shown[a] /\ book[Connecting!Host(a)] # None
      BY <1>3 DEF Connecting!Verdict
    <3> QED BY <1>2, <3>1 DEF Connecting!Inv, Connecting!KeysAreAgreed
  <2>2. at' = [at EXCEPT ![a] = "login"] /\ UNCHANGED <<error, stop>>
    BY <1>3 DEF Connecting!Verify
  <2>3. UNCHANGED <<Connecting!store, Connecting!ui, Connecting!relays, from, chain, try, error, hop, shown>>
    BY <1>1, <2>2 DEF Connecting!relays
  <2> QED BY <1>1, <1>2, <1>5, <2>1, <2>2, <2>3, Types, ConnectGoesOnKeeps
<1>4. CASE verdict # "ok"
  <2>1. Connecting!Fails(a, verdict)
    BY <1>4 DEF Connecting!Verify
  <2>2. verdict \in {"unknown", "changed"}
    BY <1>4 DEF Connecting!Verdict
  <2> QED BY <1>1, <2>1, <2>2, FailsKeeps
<1> QED BY <1>3, <1>4

LEMMA LoginKeeps ==
    ASSUME Connecting!ConnectAssumption, Connecting!Inv, NEW a \in Attempts, Connecting!Login(a)
    PROVE  Connecting!Inv'
<1>1. at[a] = "login" /\ UNCHANGED <<Connecting!store, Connecting!ui, relay, from, chain, try, shown>>
  BY DEF Connecting!Login
<1>2. /\ hop[a] \in 1 .. Len(chain[a]) /\ Len(chain[a]) <= Cardinality(Hosts)
      /\ Len(chain[a]) \in Nat /\ hop[a] \in DOMAIN chain[a] /\ hop[a] \in Nat
      /\ Cardinality(Hosts) \in Nat /\ hop[a] <= hop[a]
  BY <1>1, AtHop, Types
<1>6. shown[a] \in Keys
  BY <1>1 DEF Connecting!Inv, Connecting!HopsInChain
<1>3. CASE Connecting!Fails(a, "other") /\ UNCHANGED hop
  <2>1. UNCHANGED <<Connecting!store, Connecting!ui, relay, from, chain, hop, try, shown>>
    BY <1>1, <1>3
  <2> QED BY <1>1, <1>3, <2>1, FailsKeeps
<1>4. CASE /\ at' = [at EXCEPT ![a] = "connected"] /\ UNCHANGED <<hop, error, stop>>
  <2>1. UNCHANGED <<Connecting!store, Connecting!ui, Connecting!relays, from, chain, try, error, hop, shown>>
    BY <1>1, <1>4 DEF Connecting!relays
  <2> QED BY <1>1, <1>2, <1>4, <1>6, <2>1, Types, ConnectGoesOnKeeps
<1>5. CASE /\ hop[a] # Len(chain[a]) /\ at' = [at EXCEPT ![a] = "dial"]
           /\ hop' = [hop EXCEPT ![a] = @ + 1] /\ UNCHANGED <<error, stop>>
  <2>1. /\ hop'[a] = hop[a] + 1
        /\ \A b \in Attempts \ {a} : hop'[b] = hop[b]
    BY <1>5, Types
  <2>2. /\ hop[a] + 1 \in 1 .. Len(chain[a]) /\ hop[a] + 1 \in 1 .. Cardinality(Hosts)
        /\ hop[a] <= hop[a] + 1
    BY <1>2, <1>5
  <2>3. hop' \in [Attempts -> 1 .. Cardinality(Hosts)] /\ hop'[a] \in DOMAIN chain[a]
    <3>1. DOMAIN chain[a] = 1 .. Len(chain[a])
      BY <1>1, AtHop
    <3> QED BY <1>5, <2>1, <2>2, <3>1, Types
  <2>4. UNCHANGED <<Connecting!store, Connecting!ui, Connecting!relays, from, chain, try, error, shown>>
    BY <1>1, <1>5 DEF Connecting!relays
  <2> QED BY <1>1, <1>2, <1>5, <1>6, <2>1, <2>2, <2>3, <2>4, Types, ConnectGoesOnKeeps
<1> QED BY <1>3, <1>4, <1>5 DEF Connecting!Login

LEMMA CloseKeeps ==
    ASSUME Connecting!ConnectAssumption, Connecting!Inv, NEW a \in Attempts, Connecting!Close(a)
    PROVE  Connecting!Inv'
<1>1. /\ at[a] = "connected" /\ at' = [at EXCEPT ![a] = "drop"] /\ stop' = stop \cup Connecting!Held(a)
      /\ UNCHANGED <<jump, key, book, opening, told, prompt, dialog, trusting, approved,
                     relay, from, chain, hop, try, shown, error>>
  BY DEF Connecting!Close, Connecting!store, Connecting!ui
<1>2. Connecting!TypeOK'
  <2>1. Connecting!Held(a) \subseteq Connecting!Relays
    BY DEF Connecting!Held, Connecting!RelaysOf
  <2> QED BY <1>1, <2>1 DEF Connecting!Inv, Connecting!TypeOK
<1>3. BookInv'
  BY <1>1, InvParts DEF Parts, BookInv
<1>4. \A b \in Attempts \ {a} : Untouched(b)
  BY <1>1 DEF Untouched, Connecting!Inv, Connecting!TypeOK
<1>5. Grows
  BY <1>1 DEF Grows
<1>6. AttemptInv(a)'
  <2>1. at'[a] = "drop"
    BY <1>1 DEF Connecting!Inv, Connecting!TypeOK
  <2>2. HopInChain(a)' /\ ChainIsOne(a)' /\ KeyIsAgreed(a)'
    BY <1>1, <2>1
       DEF Connecting!Inv, Connecting!HopsInChain, Connecting!ChainsArePaths, HopInChain,
               ChainIsOne, KeyIsAgreed, Connecting!Refused, Connecting!Cyclic
  <2>3. ASSUME NEW r \in Connecting!RelaysOf(a) PROVE RelayIsHeld(a, r)'
    <3>1. RelayIsHeld(a, r)
      BY InvParts DEF Parts, AttemptInv
    <3>2. r[2] = try[a] /\ relay[r] \notin {"none", "stray"} => r \in stop'
      BY <1>1 DEF Connecting!Held
    <3> QED BY <1>1, <2>1, <3>1, <3>2 DEF RelayIsHeld
  <2> QED BY <2>2, <2>3 DEF AttemptInv, Connecting!RelaysOf
<1> QED BY <1>2, <1>3, <1>4, <1>5, <1>6, AttemptKeeps

\* drop has joined every relay of the hold, and no other one of the attempt runs.
LEMMA DroppedKeeps ==
    ASSUME Connecting!ConnectAssumption, Connecting!Inv, NEW a \in Attempts, Connecting!Dropped(a)
    PROVE  Connecting!Inv'
<1>1. /\ at[a] = "drop" /\ \A r \in Connecting!Held(a) : relay[r] = "ended"
      /\ UNCHANGED <<jump, key, book, opening, told, prompt, dialog, trusting, approved,
                     relay, stop, from, chain, shown>>
  BY DEF Connecting!Dropped, Connecting!store, Connecting!relays, Connecting!ui
<1>2. ASSUME NEW r \in Connecting!RelaysOf(a)
      PROVE  relay[r] \in {"none", "stray", "ended"} /\ (relay[r] = "stray" => r \in stop)
  <2>1. RelayIsHeld(a, r)
    BY InvParts DEF Parts, AttemptInv
  <2> QED BY <1>1, <2>1 DEF RelayIsHeld, Connecting!Held
<1>3. Grows /\ BookInv'
  BY <1>1, InvParts DEF Grows, Parts, BookInv
<1>4. chain[a] \in Seq(Hosts) /\ 1 \in DOMAIN chain[a] /\ hop[a] \in DOMAIN chain[a]
  BY <1>1, AtHop
<1>5. CASE /\ try[a] < MaxTries /\ at' = [at EXCEPT ![a] = "dial"]
           /\ error' = [error EXCEPT ![a] = None]
           /\ hop' = [hop EXCEPT ![a] = 1] /\ try' = [try EXCEPT ![a] = @ + 1]
  <2>1. Connecting!TypeOK'
    <3>1. try[a] + 1 \in 1 .. MaxTries
      <4>1. try[a] \in 1 .. MaxTries
        BY DEF Connecting!Inv, Connecting!TypeOK
      <4> QED BY <1>5, <4>1 DEF Connecting!ConnectAssumption
    <3>2. 1 \in 1 .. Cardinality(Hosts)
      <4>1. hop[a] \in 1 .. Cardinality(Hosts)
        BY Types
      <4> QED BY <4>1, Types
    <3>3. hop' \in [Attempts -> 1 .. Cardinality(Hosts)]
      BY <1>5, <3>2, Types
    <3> QED BY <1>1, <1>5, <3>1, <3>3 DEF Connecting!Inv, Connecting!TypeOK
  <2>2. \A b \in Attempts \ {a} : Untouched(b)
    BY <1>1, <1>5 DEF Untouched, Connecting!Inv, Connecting!TypeOK
  <2>3. at'[a] = "dial" /\ hop'[a] = 1 /\ error'[a] = None
    BY <1>5 DEF Connecting!Inv, Connecting!TypeOK
  <2>4. HopInChain(a)' /\ ChainIsOne(a)' /\ KeyIsAgreed(a)'
    BY <1>1, <1>4, <2>3
       DEF Connecting!Inv, Connecting!ChainsArePaths, HopInChain, ChainIsOne, KeyIsAgreed,
               Connecting!Refused, Connecting!Cyclic, Connecting!ConnectAssumption
  <2>5. \A r \in Connecting!RelaysOf(a) : RelayIsHeld(a, r)'
    BY <1>1, <1>2 DEF RelayIsHeld
  <2> QED BY <1>3, <2>1, <2>2, <2>4, <2>5, AttemptKeeps DEF AttemptInv, Connecting!RelaysOf
<1>6. CASE /\ at' = [at EXCEPT ![a] = IF error[a] = None THEN "closed" ELSE "failed"]
           /\ UNCHANGED <<error, hop, try>>
  <2>1. Connecting!TypeOK'
    BY <1>1, <1>6 DEF Connecting!Inv, Connecting!TypeOK
  <2>2. \A b \in Attempts \ {a} : Untouched(b)
    BY <1>1, <1>6 DEF Untouched, Connecting!Inv, Connecting!TypeOK
  <2>3. at'[a] \in {"closed", "failed"}
    BY <1>6 DEF Connecting!Inv, Connecting!TypeOK
  <2>4. HopInChain(a)' /\ ChainIsOne(a)' /\ KeyIsAgreed(a)'
    BY <1>1, <1>4, <1>6, <2>3
       DEF Connecting!Inv, Connecting!HopsInChain, Connecting!ChainsArePaths, HopInChain,
               ChainIsOne, KeyIsAgreed, Connecting!Refused, Connecting!Cyclic
  <2>5. \A r \in Connecting!RelaysOf(a) : RelayIsHeld(a, r)'
    BY <1>1, <1>2 DEF RelayIsHeld
  <2> QED BY <1>3, <2>1, <2>2, <2>4, <2>5, AttemptKeeps DEF AttemptInv, Connecting!RelaysOf
<1> QED BY <1>5, <1>6 DEF Connecting!Dropped

\* A relay that runs goes on or ends; one that is to end does not go on.
LEMMA RelayKeeps ==
    ASSUME Connecting!ConnectAssumption, Connecting!Inv, NEW r \in Connecting!Relays,
           Connecting!Accept(r) \/ Connecting!Opened(r) \/ Connecting!RelayEnds(r) \/ Connecting!Stall(r) \/ Connecting!Unstall(r)
    PROVE  Connecting!Inv'
<1>1. PICK next \in {"opening", "relaying", "stalled", "ended"} :
        /\ Connecting!Becomes(r, next)
        /\ relay[r] \in {"none", "stray", "ended"} => next = "ended"
  <2>1. relay[r] = "stray" => r \in stop
    BY DEF Connecting!Inv, Connecting!RelaysAreHeld, Connecting!RelaysOf, Connecting!Relays
  <2>2. CASE Connecting!Accept(r)
    BY <2>1, <2>2 DEF Connecting!Accept
  <2>3. CASE Connecting!Opened(r)
    BY <2>3 DEF Connecting!Opened
  <2>4. CASE Connecting!RelayEnds(r) \/ Connecting!Stall(r)
    BY <2>4 DEF Connecting!RelayEnds, Connecting!Stall
  <2>5. CASE Connecting!Unstall(r)
    BY <2>5 DEF Connecting!Unstall
  <2> QED BY <2>2, <2>3, <2>4, <2>5
<1>2. /\ relay' = [relay EXCEPT ![r] = next]
      /\ UNCHANGED <<jump, key, book, opening, told, prompt, dialog, trusting, approved,
                     stop, at, from, chain, hop, try, shown, error>>
  BY <1>1 DEF Connecting!Becomes, Connecting!store, Connecting!thread, Connecting!ui
<1>3. Connecting!TypeOK'
  BY <1>2 DEF Connecting!Inv, Connecting!TypeOK
<1>4. Connecting!HopsInChain' /\ Connecting!ChainsArePaths' /\ Connecting!KeysAreAgreed'
  BY <1>2 DEF Connecting!Inv, Connecting!HopsInChain, Connecting!ChainsArePaths,
         Connecting!KeysAreAgreed, Connecting!Refused, Connecting!Cyclic, Connecting!Host
<1>5. Connecting!RelaysAreHeld'
  <2> SUFFICES ASSUME NEW a \in Attempts, NEW x \in Connecting!RelaysOf(a) PROVE RelayIsHeld(a, x)'
    BY DEF Connecting!RelaysAreHeld, RelayIsHeld, Connecting!RelaysOf
  <2>1. RelayIsHeld(a, x)
    BY InvParts DEF Parts, AttemptInv
  <2>2. CASE x # r
    <3>1. relay'[x] = relay[x]
      BY <1>2, <2>2 DEF Connecting!Inv, Connecting!TypeOK, Connecting!RelaysOf
    <3> QED BY <1>2, <2>1, <3>1 DEF RelayIsHeld
  <2>3. CASE x = r
    <3>1. relay'[x] = next
      BY <1>2, <2>3 DEF Connecting!Inv, Connecting!TypeOK, Connecting!RelaysOf
    <3> QED BY <1>1, <1>2, <2>1, <2>3, <3>1 DEF RelayIsHeld
  <2> QED BY <2>2, <2>3
<1> QED BY <1>3, <1>4, <1>5 DEF Connecting!Inv

\* A step of the user or of an administrator leaves the attempts alone.
LEMMA QuietKeeps ==
    ASSUME Connecting!ConnectAssumption, Connecting!Inv, UNCHANGED <<Connecting!thread, Connecting!relays, jump>>,
           approved \subseteq approved', Connecting!TypeOK', BookInv'
    PROVE  Connecting!Inv'
<1>1. /\ UNCHANGED <<jump, at, from, chain, hop, try, shown, error, relay, stop>>
  BY DEF Connecting!thread, Connecting!relays
<1>2. \A a \in Attempts : Untouched(a) /\ Grows /\ AttemptInv(a)
  BY <1>1, InvParts DEF Untouched, Grows, Parts
<1>3. Parts'
  BY <1>2, UntouchedKeeps DEF Parts
<1> QED BY <1>3, InvParts, PTL

LEMMA ConnectImportedIsBook ==
    ASSUME Connecting!ConnectAssumption, NEW lines \in Files, book \in Connecting!Books
    PROVE  Connecting!Imported(lines, book) \in Connecting!Books
<1> SUFFICES ASSUME NEW h \in Hosts PROVE Connecting!Imported(lines, book)[h] \in Keys \cup {None}
  BY DEF Connecting!Imported, Connecting!Books
<1> DEFINE last == CHOOSE i \in Connecting!Naming(lines, h) : \A j \in Connecting!Naming(lines, h) : j <= i
<1>1. lines \in Seq(Connecting!Lines)
  BY DEF Connecting!ConnectAssumption
<1>2. CASE Connecting!Naming(lines, h) = {}
  BY <1>2 DEF Connecting!Imported, Connecting!Books
<1>3. CASE Connecting!Naming(lines, h) # {}
  <2>1. Connecting!Naming(lines, h) \subseteq 1 .. Len(lines) /\ Len(lines) \in Nat
    BY <1>1 DEF Connecting!Naming
  <2>2. \E i \in Connecting!Naming(lines, h) : \A j \in Connecting!Naming(lines, h) : j <= i
    BY <1>3, <2>1, LastPosition
  <2>3. last \in DOMAIN lines
    BY <2>2 DEF Connecting!Naming
  <2>4. Connecting!Imported(lines, book)[h] = lines[last].key
    BY <1>3 DEF Connecting!Imported
  <2> HIDE DEF last
  <2>5. lines[last] \in Connecting!Lines
    BY <1>1, <2>3
  <2> QED BY <2>4, <2>5 DEF Connecting!Lines
<1> QED BY <1>2, <1>3

\* The user and the administrators.
LEMMA UiKeeps ==
    ASSUME Connecting!ConnectAssumption, Connecting!Inv,
           \/ \E a \in Attempts : Connecting!Answered(a)
           \/ Connecting!PressTrust \/ Connecting!Cancel \/ Connecting!Trust \/ Connecting!TrustFails \/ Connecting!Import \/ Connecting!RemoveHost \/ Connecting!NewKey
    PROVE  Connecting!Inv'
<1>1. Connecting!TypeOK /\ BookInv
  BY InvParts DEF Parts
<1>2. ASSUME NEW a \in Attempts, Connecting!Answered(a) PROVE Connecting!Inv'
  <2>1. /\ UNCHANGED <<Connecting!thread, Connecting!relays, jump, key, book, approved>>
        /\ at[a] \in {"failed", "connected"} /\ told' = told \cup {a} /\ opening' = FALSE
        /\ prompt' \in {Connecting!Question(a), None, prompt}
        /\ (prompt' = Connecting!Question(a) /\ Connecting!Asks(a)) \/ prompt' \in {None, prompt}
        /\ (dialog' = "idle" /\ trusting' = None) \/ UNCHANGED <<dialog, trusting>>
    BY <1>2 DEF Connecting!Answered, Connecting!store
  <2>2. Connecting!Asks(a) => Connecting!Question(a) \in Connecting!Prompts
    <3> SUFFICES ASSUME Connecting!Asks(a) PROVE Connecting!Question(a) \in Connecting!Prompts
      OBVIOUS
    <3>1. chain[a] \in Seq(Hosts) /\ hop[a] \in DOMAIN chain[a] /\ shown[a] \in Keys
      BY DEF Connecting!Inv, Connecting!HopsInChain, Connecting!Asks, Connecting!Refused
    <3>2. chain[a][hop[a]] \in Hosts /\ chain[a][Len(chain[a])] \in Hosts
      BY <3>1
    <3> QED BY <3>1, <3>2 DEF Connecting!Question, Connecting!Host, Connecting!Prompts
  <2>3. Connecting!TypeOK'
    BY <1>1, <2>1, <2>2 DEF Connecting!TypeOK, Connecting!thread, Connecting!relays
  <2>4. BookInv'
    BY <1>1, <2>1 DEF BookInv
  <2> QED BY <2>1, <2>3, <2>4, QuietKeeps
<1>3. CASE Connecting!PressTrust
  <2>1. /\ UNCHANGED <<Connecting!thread, Connecting!relays, jump, key, book, told, prompt>>
        /\ prompt # None /\ dialog' = "trust" /\ trusting' = prompt /\ opening' = TRUE
        /\ approved' = approved \cup {<<prompt.host, prompt.key>>}
    BY <1>3 DEF Connecting!PressTrust, Connecting!store
  <2>2. Connecting!TypeOK'
    BY <1>1, <2>1 DEF Connecting!TypeOK, Connecting!thread, Connecting!relays
  <2>3. BookInv'
    BY <1>1, <2>1 DEF BookInv
  <2> QED BY <2>1, <2>2, <2>3, QuietKeeps
<1>4. CASE Connecting!Cancel
  <2>1. /\ UNCHANGED <<Connecting!thread, Connecting!relays, jump, key, book, opening, told, dialog, trusting, approved>>
        /\ prompt' = None
    BY <1>4 DEF Connecting!Cancel, Connecting!store
  <2>2. Connecting!TypeOK'
    BY <1>1, <2>1 DEF Connecting!TypeOK, Connecting!thread, Connecting!relays
  <2>3. BookInv'
    BY <1>1, <2>1 DEF BookInv
  <2> QED BY <2>1, <2>2, <2>3, QuietKeeps
<1>5. CASE Connecting!Trust
  <2>1. /\ UNCHANGED <<Connecting!thread, Connecting!relays, jump, key, opening, told, prompt, trusting, approved>>
        /\ dialog = "trust" /\ dialog' = "open"
        /\ book' = [book EXCEPT ![trusting.host] = trusting.key]
    BY <1>5 DEF Connecting!Trust
  <2>2. /\ trusting \in Connecting!Prompts /\ trusting # None
        /\ <<trusting.host, trusting.key>> \in approved
    BY <1>1, <2>1 DEF BookInv, Connecting!TypeOK
  <2>3. trusting.host \in Hosts /\ trusting.key \in Keys
    BY <2>2 DEF Connecting!Prompts
  <2>4. book' \in Connecting!Books
    BY <1>1, <2>1, <2>3 DEF Connecting!TypeOK, Connecting!Books
  <2>5. Connecting!TypeOK'
    BY <1>1, <2>1, <2>4 DEF Connecting!TypeOK, Connecting!thread, Connecting!relays
  <2>6. \A h \in Hosts : book'[h] # None => <<h, book'[h]>> \in approved
    BY <1>1, <2>1, <2>2, <2>3 DEF BookInv, Connecting!TypeOK, Connecting!Books
  <2>7. BookInv'
    BY <2>1, <2>2, <2>6 DEF BookInv
  <2> QED BY <2>1, <2>5, <2>7, QuietKeeps
<1>6. CASE Connecting!TrustFails
  <2>1. /\ UNCHANGED <<Connecting!thread, Connecting!relays, jump, key, book, told, prompt, approved>>
        /\ dialog' = "idle" /\ trusting' = None /\ opening' = FALSE
    BY <1>6 DEF Connecting!TrustFails, Connecting!store
  <2>2. Connecting!TypeOK'
    BY <1>1, <2>1 DEF Connecting!TypeOK, Connecting!thread, Connecting!relays
  <2>3. BookInv'
    BY <1>1, <2>1 DEF BookInv
  <2> QED BY <2>1, <2>2, <2>3, QuietKeeps
<1>7. CASE Connecting!Import
  <2>1. PICK lines \in Files :
          /\ book' = Connecting!Imported(lines, book)
          /\ approved' = approved \cup
               {<<h, book'[h]>> : h \in {x \in Hosts : Connecting!Naming(lines, x) # {}}}
    BY <1>7 DEF Connecting!Import
  <2>2. UNCHANGED <<jump, key, Connecting!thread, Connecting!relays, opening, told, prompt, dialog, trusting>>
    BY <1>7 DEF Connecting!Import
  <2>3. book' \in Connecting!Books
    BY <1>1, <2>1, ConnectImportedIsBook DEF Connecting!TypeOK
  <2>4. Connecting!TypeOK'
    BY <1>1, <2>2, <2>3 DEF Connecting!TypeOK, Connecting!thread, Connecting!relays
  <2>5. ASSUME NEW h \in Hosts, book'[h] # None PROVE <<h, book'[h]>> \in approved'
    <3>1. CASE Connecting!Naming(lines, h) = {}
      <4>1. book'[h] = book[h]
        BY <2>1, <3>1 DEF Connecting!Imported
      <4> QED BY <1>1, <2>1, <2>5, <4>1 DEF BookInv
    <3>2. CASE Connecting!Naming(lines, h) # {}
      BY <2>1, <3>2
    <3> QED BY <3>1, <3>2
  <2>6. BookInv'
    BY <1>1, <2>1, <2>2, <2>5 DEF BookInv
  <2>7. approved \subseteq approved'
    BY <2>1
  <2> QED BY <2>2, <2>4, <2>6, <2>7, QuietKeeps
<1>8. CASE Connecting!RemoveHost
  <2>1. PICK h \in Hosts : book' = [book EXCEPT ![h] = None]
    BY <1>8 DEF Connecting!RemoveHost
  <2>2. UNCHANGED <<jump, key, Connecting!thread, Connecting!relays, opening, told, prompt, dialog, trusting, approved>>
    BY <1>8 DEF Connecting!RemoveHost, Connecting!ui
  <2>3. book' \in Connecting!Books
    BY <1>1, <2>1 DEF Connecting!TypeOK, Connecting!Books
  <2>4. Connecting!TypeOK'
    BY <1>1, <2>2, <2>3 DEF Connecting!TypeOK, Connecting!thread, Connecting!relays
  <2>5. BookInv'
    BY <1>1, <2>1, <2>2 DEF BookInv, Connecting!TypeOK, Connecting!Books
  <2> QED BY <2>2, <2>4, <2>5, QuietKeeps
<1>9. CASE Connecting!NewKey
  <2>1. PICK h \in Hosts, k \in Keys : key' = [key EXCEPT ![h] = k]
    BY <1>9 DEF Connecting!NewKey
  <2>2. UNCHANGED <<jump, book, Connecting!thread, Connecting!relays, opening, told, prompt, dialog, trusting, approved>>
    BY <1>9 DEF Connecting!NewKey, Connecting!ui
  <2>3. Connecting!TypeOK'
    BY <1>1, <2>1, <2>2 DEF Connecting!TypeOK, Connecting!thread, Connecting!relays
  <2>4. BookInv'
    BY <1>1, <2>2 DEF BookInv
  <2> QED BY <2>2, <2>3, <2>4, QuietKeeps
<1> QED BY <1>2, <1>3, <1>4, <1>5, <1>6, <1>7, <1>8, <1>9

LEMMA ConnectNextInv ==
    ASSUME Connecting!ConnectAssumption
    PROVE  Connecting!Inv /\ [Connecting!Next]_Connecting!vars => Connecting!Inv'
<1> SUFFICES ASSUME Connecting!Inv, [Connecting!Next]_Connecting!vars PROVE Connecting!Inv'
  OBVIOUS
<1>1. CASE UNCHANGED Connecting!vars
  <2>1. UNCHANGED <<Connecting!thread, Connecting!relays, jump, key, book, opening, told, prompt, dialog, trusting, approved>>
    BY <1>1 DEF Connecting!vars, Connecting!store, Connecting!ui
  <2>2. Connecting!TypeOK'
    BY <2>1 DEF Connecting!Inv, Connecting!TypeOK, Connecting!thread, Connecting!relays
  <2>3. BookInv'
    BY <2>1, InvParts DEF Parts, BookInv
  <2> QED BY <2>1, <2>2, <2>3, QuietKeeps
<1>2. ASSUME NEW a \in Attempts,
             \/ Connecting!Open(a) \/ Connecting!OpenPalette(a) \/ Connecting!OpenSub(a) \/ Connecting!Thread(a) \/ Connecting!Close(a)
             \/ Connecting!Answered(a) \/ Connecting!Reopen(a)
      PROVE  Connecting!Inv'
  BY <1>2, OpenKeeps, DialKeeps, HandshakeKeeps, VerifyKeeps, LoginKeeps, CloseKeeps,
     DroppedKeeps, UiKeeps DEF Connecting!Thread
<1>3. ASSUME NEW r \in Connecting!Relays,
             Connecting!Accept(r) \/ Connecting!Opened(r) \/ Connecting!RelayEnds(r) \/ Connecting!Stall(r) \/ Connecting!Unstall(r)
      PROVE  Connecting!Inv'
  BY <1>3, RelayKeeps
<1>4. CASE Connecting!PressTrust \/ Connecting!Cancel \/ Connecting!Trust \/ Connecting!TrustFails \/ Connecting!Import \/ Connecting!RemoveHost \/ Connecting!NewKey
  BY <1>4, UiKeeps
<1> QED BY <1>1, <1>2, <1>3, <1>4 DEF Connecting!Next

-----------------------------------------------------------------------------
(* Theorems *)

\* An attempt walks the path of jump hosts to its connection, each host once, has a
\* relay only while it is under way or a session, with its flag set before it is
\* dropped, and is let in by a key the user agreed to.
THEOREM ConnectInvCorrect ==
    ASSUME Connecting!ConnectAssumption
    PROVE  Connecting!Spec => []Connecting!Inv
<1>1. Connecting!Init => Connecting!Inv
  BY ConnectInitInv
<1>2. Connecting!Inv /\ [Connecting!Next]_Connecting!vars => Connecting!Inv'
  BY ConnectNextInv
<1> QED BY <1>1, <1>2, PTL DEF Connecting!Spec

\* No secret goes to a host whose key the user did not agree to, for any number of
\* attempts, hops, sub-sessions and retries, and whatever is stored or removed
\* meanwhile.
THEOREM SecretsCorrect ==
    ASSUME Connecting!ConnectAssumption
    PROVE  Connecting!Spec => []SecretsOnlyToApproved
<1>1. Connecting!Init => Connecting!SecretsOnlyToApproved
  BY DEF Connecting!Init, Connecting!SecretsOnlyToApproved
<1>2. Connecting!Inv /\ Connecting!SecretsOnlyToApproved /\ [Connecting!Next]_Connecting!vars => Connecting!SecretsOnlyToApproved'
  <2> SUFFICES ASSUME Connecting!Inv, Connecting!SecretsOnlyToApproved, [Connecting!Next]_Connecting!vars PROVE sent' \subseteq approved'
    BY DEF Connecting!SecretsOnlyToApproved
  <2>1. ASSUME NEW a \in Attempts, Connecting!Login(a) PROVE sent' \subseteq approved'
    <3>1. sent' \in {sent, sent \cup {<<Connecting!Host(a), shown[a]>>}} /\ approved' = approved
      BY <2>1 DEF Connecting!Login, Connecting!ui
    <3>2. <<Connecting!Host(a), shown[a]>> \in approved
      BY <2>1 DEF Connecting!Login, Connecting!Inv, Connecting!KeysAreAgreed
    <3> QED BY <3>1, <3>2 DEF Connecting!SecretsOnlyToApproved
  <2>2. CASE ~ \E a \in Attempts : Connecting!Login(a)
    <3>1. UNCHANGED sent
      BY <2>2 DEF Connecting!Next, Connecting!Thread, Connecting!vars, Connecting!thread,
             Connecting!Open, Connecting!OpenPalette, Connecting!OpenSub, Connecting!Start,
             Connecting!Dial, Connecting!DialRelayFails, Connecting!Handshake, Connecting!Verify,
             Connecting!Dropped, Connecting!Close, Connecting!Answered, Connecting!Reopen,
             Connecting!Accept, Connecting!Opened, Connecting!RelayEnds, Connecting!Stall,
             Connecting!Unstall, Connecting!Becomes, Connecting!PressTrust, Connecting!Cancel,
             Connecting!Trust, Connecting!TrustFails, Connecting!Import, Connecting!RemoveHost,
             Connecting!NewKey
    <3>2. approved \subseteq approved'
      BY <2>2 DEF Connecting!Next, Connecting!Thread, Connecting!vars, Connecting!ui,
             Connecting!Open, Connecting!OpenPalette, Connecting!OpenSub, Connecting!Dial,
             Connecting!DialRelayFails, Connecting!Handshake, Connecting!Verify,
             Connecting!Dropped, Connecting!Close, Connecting!Answered, Connecting!Reopen,
             Connecting!Accept, Connecting!Opened, Connecting!RelayEnds, Connecting!Stall,
             Connecting!Unstall, Connecting!Becomes, Connecting!PressTrust, Connecting!Cancel,
             Connecting!Trust, Connecting!TrustFails, Connecting!Import, Connecting!RemoveHost,
             Connecting!NewKey
    <3> QED BY <3>1, <3>2 DEF Connecting!SecretsOnlyToApproved
  <2> QED BY <2>1, <2>2
<1>3. SecretsOnlyToApproved <=> Connecting!SecretsOnlyToApproved
  BY DEF SecretsOnlyToApproved
<1> QED BY <1>3, <1>1, <1>2, ConnectInvCorrect, PTL DEF Connecting!Spec

-----------------------------------------------------------------------------
(* The packets, of whatever size and under whatever cipher: first how what is sent is laid
   out. *)

(* The arithmetic of the padding: a message is filled up to whole blocks with at
   least four bytes. *)
LEMMA FillsBlocks ==
  ASSUME NEW size \in Nat, NEW b \in {8, 16}
  PROVE  LET least == b - (size % b)
             pad == IF least < 4 THEN least + b ELSE least
         IN pad \in 4..255 /\ (size + pad) % b = 0
<1>1. CASE b = 8
  <2>1. PICK q \in Nat, r \in 0..7 : size = 8 * q + r /\ size % 8 = r
    BY SMT
  <2>2. 8 - r >= 4 => (size + (8 - r)) % 8 = 0
    <3>1. size + (8 - r) = 8 * (q + 1)
      BY <2>1
    <3> QED BY <3>1
  <2>3. (size + (16 - r)) % 8 = 0
    <3>1. size + (16 - r) = 8 * (q + 2)
      BY <2>1
    <3> QED BY <3>1
  <2> QED BY <1>1, <2>1, <2>2, <2>3
<1>2. CASE b = 16
  <2>1. PICK q \in Nat, r \in 0..15 : size = 16 * q + r /\ size % 16 = r
    BY SMT
  <2>2. (size + (16 - r)) % 16 = 0
    <3>1. size + (16 - r) = 16 * (q + 1)
      BY <2>1
    <3> QED BY <3>1
  <2>3. (size + (32 - r)) % 16 = 0
    <3>1. size + (32 - r) = 16 * (q + 2)
      BY <2>1
    <3> QED BY <3>1
  <2> QED BY <1>2, <2>1, <2>2, <2>3
<1> QED BY <1>1, <1>2

(* What the transport knows of the ciphers and the MACs. *)
LEMMA Domains ==
  /\ DOMAIN Transport!AesMethods = {"gcm", "ctr"}
  /\ DOMAIN Transport!OldMethods = {"cbc"}
  /\ DOMAIN Transport!ChachaMethod = {"chacha"}
BY DEF Transport!AesMethods, Transport!OldMethods, Transport!ChachaMethod

(* And what that is for each. *)
LEMMA Values ==
  /\ Transport!AesMethods["gcm"] = [block |-> 16, auth |-> 16, flags |-> {"integrated", "aad"}]
  /\ Transport!AesMethods["ctr"] = [block |-> 16, auth |-> 0, flags |-> {}]
  /\ Transport!OldMethods["cbc"] = [block |-> 8, auth |-> 0, flags |-> {}]
  /\ Transport!ChachaMethod["chacha"] = [block |-> 8, auth |-> 16, flags |-> {"full"}]
BY DEF Transport!AesMethods, Transport!OldMethods, Transport!ChachaMethod

(* The MACs. *)
LEMMA MacDomains ==
  /\ DOMAIN Transport!Sha2Macs = {"sha2", "sha2etm"}
  /\ DOMAIN Transport!Sha1Macs = {"sha1", "sha1etm"}
  /\ DOMAIN Transport!ShortMacs = {"short"}
BY DEF Transport!Sha2Macs, Transport!Sha1Macs, Transport!ShortMacs

(* What each is. *)
LEMMA MacValues ==
  /\ Transport!Sha2Macs["sha2"] = [len |-> 32, etm |-> FALSE] /\ Transport!Sha2Macs["sha2etm"] = [len |-> 32, etm |-> TRUE]
  /\ Transport!Sha1Macs["sha1"] = [len |-> 20, etm |-> FALSE] /\ Transport!Sha1Macs["sha1etm"] = [len |-> 20, etm |-> TRUE]
  /\ Transport!ShortMacs["short"] = [len |-> 12, etm |-> FALSE]
BY DEF Transport!Sha2Macs, Transport!Sha1Macs, Transport!ShortMacs

(* So for a direction, *)
LEMMA CryptIs ==
  ASSUME NEW d \in Transport!Directions
  PROVE  /\ d.crypt = "gcm" => Transport!Crypt(d) = [block |-> 16, auth |-> 16, flags |-> {"integrated", "aad"}]
         /\ d.crypt = "ctr" => Transport!Crypt(d) = [block |-> 16, auth |-> 0, flags |-> {}]
         /\ d.crypt = "cbc" => Transport!Crypt(d) = [block |-> 8, auth |-> 0, flags |-> {}]
         /\ d.crypt = "chacha" => Transport!Crypt(d) = [block |-> 8, auth |-> 16, flags |-> {"full"}]
BY Domains, Values DEF Transport!Crypt

(* and its MAC. *)
LEMMA MacIs ==
  ASSUME NEW d \in Transport!Directions
  PROVE  Transport!Mac(d).len \in Nat /\ Transport!Mac(d).etm \in BOOLEAN
<1>1. CASE d.mac = "sha2"
  <2>1. Transport!Mac(d) = IF d.crypt = "gcm" THEN [len |-> 16, etm |-> FALSE] ELSE Transport!Sha2Macs["sha2"]
    BY <1>1, MacDomains DEF Transport!Mac, Transport!MacOverride
  <2> QED BY <2>1, MacValues
<1>2. CASE d.mac = "sha2etm"
  <2>1. Transport!Mac(d) = IF d.crypt = "gcm" THEN [len |-> 16, etm |-> FALSE] ELSE Transport!Sha2Macs["sha2etm"]
    BY <1>2, MacDomains DEF Transport!Mac, Transport!MacOverride
  <2> QED BY <2>1, MacValues
<1>3. CASE d.mac = "sha1"
  <2>1. Transport!Mac(d) = IF d.crypt = "gcm" THEN [len |-> 16, etm |-> FALSE] ELSE Transport!Sha1Macs["sha1"]
    BY <1>3, MacDomains DEF Transport!Mac, Transport!MacOverride
  <2> QED BY <2>1, MacValues
<1>4. CASE d.mac = "sha1etm"
  <2>1. Transport!Mac(d) = IF d.crypt = "gcm" THEN [len |-> 16, etm |-> FALSE] ELSE Transport!Sha1Macs["sha1etm"]
    BY <1>4, MacDomains DEF Transport!Mac, Transport!MacOverride
  <2> QED BY <2>1, MacValues
<1>5. CASE d.mac = "short"
  <2>1. Transport!Mac(d) = IF d.crypt = "gcm" THEN [len |-> 16, etm |-> FALSE] ELSE Transport!ShortMacs["short"]
    BY <1>5, MacDomains DEF Transport!Mac, Transport!MacOverride
  <2> QED BY <2>1, MacValues
<1> QED BY <1>1, <1>2, <1>3, <1>4, <1>5 DEF Transport!Directions

(* What the layout needs of a cipher. *)
LEMMA CryptTypes ==
  ASSUME NEW d \in Transport!Directions
  PROVE  /\ Transport!Crypt(d).block \in {8, 16}
         /\ Transport!Crypt(d).auth \in Nat
         /\ (Transport!Crypt(d).flags # {}) <=> ("full" \in Transport!Crypt(d).flags \/ "aad" \in Transport!Crypt(d).flags)
         /\ "full" \in Transport!Crypt(d).flags => Transport!Crypt(d).auth > 0
<1>1. d.crypt \in {"gcm", "ctr", "cbc", "chacha"}
  BY DEF Transport!Directions
<1> QED BY <1>1, CryptIs

(* A packet is well formed when it is built. *)
LEMMA PacksWellFormed ==
  ASSUME NEW payload \in Nat, suite \in [local : Transport!Directions, remote : Transport!Directions],
         newkeys \in BOOLEAN, Transport!Alike
  PROVE  Transport!WellFormed(Transport!Packs(payload), suite.local)
<1> DEFINE d == suite.local
           b == IF newkeys THEN Transport!Crypt(d).block ELSE 8
           size == payload + 5 - Transport!CryptOffset
           least == b - (size % b)
<1>1. d \in Transport!Directions
  OBVIOUS
<1>2. b \in {8, 16} /\ b = Transport!Padding(newkeys, d)
  BY <1>1, CryptTypes DEF Transport!Padding
<1>3. Transport!CryptOffset = IF Transport!LengthApart(newkeys, d) THEN 4 ELSE 0
  BY <1>1, CryptTypes, MacIs DEF Transport!CryptOffset, Transport!LengthApart, Transport!LocalMac, Transport!AuthLen, Transport!FlagR, Transport!Alike, Transport!NoMac
<1>4. size \in Nat /\ size = (IF Transport!LengthApart(newkeys, d) THEN 0 ELSE 4) + 1 + payload
  BY <1>3
<1>5. Transport!PaddingLength(payload) = IF least < 4 THEN least + b ELSE least
  BY DEF Transport!PaddingLength
<1>6. Transport!PaddingLength(payload) \in 4..255 /\ (size + Transport!PaddingLength(payload)) % b = 0
  <2> HIDE DEF b, size
  <2> QED BY <1>2, <1>4, <1>5, FillsBlocks
<1>7. (IF newkeys THEN Transport!LocalMac.len ELSE 0) + Transport!AuthLen = Transport!Tag(newkeys, d)
  BY <1>1, CryptTypes, MacIs DEF Transport!LocalMac, Transport!AuthLen, Transport!Tag, Transport!FlagR, Transport!Alike, Transport!NoMac
<1>8. Transport!Packs(payload).total = 4 + 1 + payload + Transport!PaddingLength(payload) + Transport!Tag(newkeys, d)
  <2>1. (IF newkeys THEN Transport!LocalMac.len ELSE 0) \in Int /\ Transport!AuthLen \in Int /\ Transport!PaddingLength(payload) \in Int
    BY <1>1, <1>6, CryptTypes, MacIs DEF Transport!LocalMac, Transport!AuthLen, Transport!NoMac
  <2> HIDE DEF d
  <2> QED BY <1>7, <2>1 DEF Transport!Packs
<1>9. /\ Transport!Packs(payload).pad = Transport!PaddingLength(payload) /\ Transport!Packs(payload).enc = newkeys
      /\ Transport!Packs(payload).payload = payload
  BY DEF Transport!Packs
<1> HIDE DEF b, size, d, least
<1> QED BY <1>2, <1>4, <1>6, <1>8, <1>9 DEF Transport!WellFormed, size, d

(* The inductive invariant: what the layout of a packet depends on does not change,
   and the packets built so far are as they should be. *)
Frames == [payload : Nat, pad : Int, enc : BOOLEAN, start : Int, total : Int]
Layout ==
  /\ suite \in [local : Transport!Directions, remote : Transport!Directions]
  /\ newkeys \in BOOLEAN
  /\ frames \in Seq(Frames)
  /\ Transport!SentIsWellFormed

(* It holds when nothing is built. *)
LEMMA InitLayout ==
  Transport!Init => Layout
<1> SUFFICES ASSUME Transport!Init
             PROVE  Layout
  OBVIOUS
<1>1. suite \in [local : Transport!Directions, remote : Transport!Directions] /\ newkeys \in BOOLEAN
  BY SuitesAssumption DEF Transport!Init, Transport!SuitesAssumption
<1>2. frames = <<>>
  BY DEF Transport!Init
<1>3. frames \in Seq(Frames) /\ DOMAIN frames = {}
  BY <1>2
<1> QED BY <1>1, <1>3 DEF Layout, Transport!SentIsWellFormed

(* A packet that is built goes behind those already there. *)
LEMMA SendsLayout ==
  ASSUME Layout, NEW payload \in Payloads, frames' = Append(frames, Transport!Packs(payload)),
         UNCHANGED <<suite, newkeys>>
  PROVE  Layout'
<1> DEFINE f == Transport!Packs(payload)
<1>1. payload \in Nat
  BY PayloadsAssumption DEF Transport!PayloadsAssumption
<1>2. Transport!Alike => Transport!WellFormed(f, suite.local)
  BY <1>1, PacksWellFormed DEF Layout
<1>3. f \in Frames
  <2>1. Transport!EndOf(frames) \in Int
    <3>1. CASE frames = <<>>
      BY <3>1 DEF Transport!EndOf
    <3>2. CASE frames # <<>>
      <4>1. Len(frames) \in 1..Len(frames)
        BY <3>2 DEF Layout
      <4>2. PICK g \in Frames : g = Transport!Last(frames)
        BY <4>1 DEF Layout, Transport!Last
      <4>3. Transport!EndOf(frames) = g.start + g.total
        BY <3>2, <4>2 DEF Transport!EndOf
      <4> QED BY <4>2, <4>3 DEF Frames
    <3> QED BY <3>1, <3>2
  <2>2. newkeys \in BOOLEAN
    BY DEF Layout
  <2>3. Transport!PaddingLength(payload) \in Int /\ f.total \in Int
    <3>1. PICK d \in Transport!Directions : d = suite.local
      BY DEF Layout
    <3>2. Transport!LocalMac.len \in Nat /\ Transport!AuthLen \in Nat /\ Transport!CryptOffset \in Nat
      BY <3>1, CryptTypes, MacIs DEF Transport!LocalMac, Transport!AuthLen, Transport!CryptOffset, Transport!NoMac
    <3>3. PICK b \in {8, 16} : b = IF newkeys THEN Transport!Crypt(suite.local).block ELSE 8
      BY <3>1, CryptTypes
    <3>4. Transport!PaddingLength(payload) \in Int
      <4>1. PICK o \in Nat : o = Transport!CryptOffset
        BY <3>2
      <4>2. PICK r \in Nat : r = (payload + 5 - o) % b
        BY <1>1, <3>3
      <4>3. Transport!PaddingLength(payload) = IF b - r < 4 THEN (b - r) + b ELSE b - r
        BY <3>3, <4>1, <4>2 DEF Transport!PaddingLength
      <4> QED BY <3>3, <4>2, <4>3
    <3>5. PICK l \in Nat, a \in Nat : l = Transport!LocalMac.len /\ a = Transport!AuthLen
      BY <3>2
    <3>6. f.total = payload + 5 + Transport!PaddingLength(payload) + (IF newkeys THEN l ELSE 0) + a
      BY <3>5 DEF Transport!Packs
    <3> QED BY <1>1, <3>4, <3>5, <3>6
  <2> QED BY <1>1, <2>1, <2>2, <2>3 DEF Transport!Packs, Frames
<1> HIDE DEF f
<1>4. frames' \in Seq(Frames)
  BY <1>3 DEF Layout, f
<1>5. Transport!SentIsWellFormed'
  <2> SUFFICES ASSUME Transport!Alike, NEW i \in 1..(Len(frames) + 1)
               PROVE  Transport!WellFormed(frames'[i], suite.local)
    BY <1>3 DEF Transport!SentIsWellFormed, Transport!Alike, Layout, f
  <2>1. CASE i \in 1..Len(frames)
    <3>1. frames'[i] = frames[i]
      BY <2>1, <1>3 DEF Layout, f
    <3> QED BY <3>1, <2>1 DEF Layout, Transport!SentIsWellFormed
  <2>2. CASE i = Len(frames) + 1
    <3>1. frames'[i] = f
      BY <2>2, <1>3 DEF Layout, f
    <3> QED BY <3>1, <1>2
  <2> QED BY <2>1, <2>2 DEF Layout
<1> QED BY <1>4, <1>5 DEF Layout

(* The suite is fixed, new keys only ever come, and the other steps build no
   packet. *)
LEMMA StepLayout ==
  Layout /\ [Transport!Next]_(Transport!vars) => Layout'
<1> SUFFICES ASSUME Layout, [Transport!Next]_(Transport!vars)
             PROVE  Layout'
  OBVIOUS
<1>1. ASSUME UNCHANGED <<suite, frames>>, newkeys' \in BOOLEAN
      PROVE  Layout'
  BY <1>1 DEF Layout, Transport!SentIsWellFormed, Transport!Alike
<1>2. CASE UNCHANGED Transport!vars
  BY <1>1, <1>2 DEF Transport!vars, Layout
<1>3. ASSUME NEW n \in Transport!Amounts, Transport!Reads(n)
      PROVE  Layout'
  <2>1. newkeys' \in BOOLEAN
    BY <1>3 DEF Transport!Reads, Transport!Finished, Layout
  <2>2. UNCHANGED <<suite, frames>>
    BY <1>3 DEF Transport!Reads
  <2> QED BY <1>1, <2>1, <2>2
<1>4. CASE Transport!ReadFails
  BY <1>1, <1>4 DEF Transport!ReadFails, Layout
<1>5. CASE Transport!Sends
  <2>1. PICK payload \in Payloads : frames' = Append(frames, Transport!Packs(payload))
    BY <1>5 DEF Transport!Sends
  <2>2. UNCHANGED <<suite, newkeys>>
    BY <1>5 DEF Transport!Sends
  <2> QED BY <2>1, <2>2, SendsLayout
<1>6. CASE Transport!SendExisting
  BY <1>1, <1>6 DEF Transport!SendExisting, Layout
<1> QED BY <1>2, <1>3, <1>4, <1>5, <1>6 DEF Transport!Next

-----------------------------------------------------------------------------
(* The packets of the server: one behind the other, each under the keys that those before
   it have put in use, and of whole blocks. *)
Plan == [payload : Nat, extra : Nat, newkeys : BOOLEAN]
ServerFrames ==
  [payload : Nat, pad : Nat, enc : BOOLEAN, newkeys : BOOLEAN, start : Nat, total : Nat]
Laid(f, d) ==
  /\ f.pad >= 4
  /\ ((IF Transport!LengthApart(f.enc, d) THEN 0 ELSE 4) + 1 + f.payload + f.pad) % Transport!Padding(f.enc, d) = 0
  /\ f.total = 4 + 1 + f.payload + f.pad + Transport!Tag(f.enc, d)
StreamOf(s, d) ==
  \A i \in DOMAIN s :
    /\ Laid(s[i], d)
    /\ s[i].start = IF i = 1 THEN 0 ELSE s[i - 1].start + s[i - 1].total
    /\ s[i].enc <=> \E j \in 1..(i - 1) : s[j].newkeys
StreamsOf(d) == {s \in Seq(ServerFrames) : StreamOf(s, d)}
SendBy(d) == [x \in StreamsOf(d) \X Plan |-> Append(x[1], Transport!ServerFrame(x[1], x[2]))]

(* Blocks are filled, and more of them added. *)
LEMMA FillsMore ==
  ASSUME NEW filled \in Nat, NEW b \in {8, 16}, NEW extra \in Nat
  PROVE  LET more == ((b - (filled % b)) % b) + extra * b
         IN more \in Nat /\ (filled + more) % b = 0
<1>1. CASE b = 8
  <2>1. PICK q \in Nat, r \in 0..7 : filled = 8 * q + r /\ filled % 8 = r
    BY SMT
  <2>2. r = 0 => (8 - r) % 8 = 0
    BY SMT
  <2>3. r # 0 => (8 - r) % 8 = 8 - r
    BY SMT
  <2>4. CASE r = 0
    <3>1. (filled + extra * 8) = 8 * (q + extra)
      BY <2>1, <2>4
    <3>2. (8 * (q + extra)) % 8 = 0
      BY SMT
    <3> QED BY <1>1, <2>1, <2>2, <2>4, <3>1, <3>2
  <2>5. CASE r # 0
    <3>1. (filled + ((8 - r) + extra * 8)) = 8 * (q + 1 + extra)
      BY <2>1, <2>5
    <3>2. (8 * (q + 1 + extra)) % 8 = 0
      BY SMT
    <3> QED BY <1>1, <2>1, <2>3, <2>5, <3>1, <3>2
  <2> QED BY <2>4, <2>5
<1>2. CASE b = 16
  <2>1. PICK q \in Nat, r \in 0..15 : filled = 16 * q + r /\ filled % 16 = r
    BY SMT
  <2>2. r = 0 => (16 - r) % 16 = 0
    BY SMT
  <2>3. r # 0 => (16 - r) % 16 = 16 - r
    BY SMT
  <2>4. CASE r = 0
    <3>1. (filled + extra * 16) = 16 * (q + extra)
      BY <2>1, <2>4
    <3>2. (16 * (q + extra)) % 16 = 0
      BY SMT
    <3> QED BY <1>2, <2>1, <2>2, <2>4, <3>1, <3>2
  <2>5. CASE r # 0
    <3>1. (filled + ((16 - r) + extra * 16)) = 16 * (q + 1 + extra)
      BY <2>1, <2>5
    <3>2. (16 * (q + 1 + extra)) % 16 = 0
      BY SMT
    <3> QED BY <1>2, <2>1, <2>3, <2>5, <3>1, <3>2
  <2> QED BY <2>4, <2>5
<1> QED BY <1>1, <1>2

(* What the cipher and the MAC of a direction make of a packet. *)
LEMMA TagIs ==
  ASSUME NEW d \in Transport!Directions, NEW enc \in BOOLEAN
  PROVE  Transport!Tag(enc, d) \in Nat /\ Transport!Padding(enc, d) \in {8, 16}
BY CryptTypes, MacIs DEF Transport!Tag, Transport!Padding

(* The end of a stream. *)
LEMMA EndIs ==
  ASSUME NEW d, NEW s \in StreamsOf(d)
  PROVE  /\ Transport!EndOf(s) \in Nat
         /\ s # <<>> => Len(s) \in 1..Len(s) /\ Transport!EndOf(s) = s[Len(s)].start + s[Len(s)].total
         /\ s = <<>> <=> Len(s) = 0
<1>1. s \in Seq(ServerFrames)
  BY DEF StreamsOf
<1>2. CASE s = <<>>
  BY <1>2 DEF Transport!EndOf
<1>3. CASE s # <<>>
  <2>1. Len(s) \in 1..Len(s)
    BY <1>1, <1>3
  <2>2. PICK g \in ServerFrames : g = s[Len(s)]
    BY <1>1, <2>1
  <2>3. Transport!EndOf(s) = g.start + g.total
    BY <1>3, <2>2 DEF Transport!EndOf, Transport!Last
  <2> QED BY <2>1, <2>2, <2>3 DEF ServerFrames
<1> QED BY <1>2, <1>3

(* The server's next packet. *)
LEMMA NextFrame ==
  ASSUME suite.remote \in Transport!Directions, NEW s \in StreamsOf(suite.remote), NEW m \in Plan
  PROVE  LET f == Transport!ServerFrame(s, m)
         IN /\ f \in ServerFrames /\ Laid(f, suite.remote) /\ f.start = Transport!EndOf(s)
            /\ f.enc <=> \E j \in DOMAIN s : s[j].newkeys
<1> DEFINE f == Transport!ServerFrame(s, m)
           enc == \E i \in DOMAIN s : s[i].newkeys
           b == Transport!Padding(enc, suite.remote)
           before == (IF Transport!LengthApart(enc, suite.remote) THEN 0 ELSE 4) + 1 + m.payload
           filled == before + 4
           more == ((b - (filled % b)) % b) + m.extra * b
<1>1. enc \in BOOLEAN /\ b \in {8, 16} /\ Transport!Tag(enc, suite.remote) \in Nat
  <2>1. enc \in BOOLEAN
    OBVIOUS
  <2> HIDE DEF enc
  <2> QED BY <2>1, TagIs
<1>2. m.payload \in Nat /\ m.extra \in Nat /\ m.newkeys \in BOOLEAN
  BY DEF Plan
<1>3. before \in Nat /\ filled \in Nat /\ filled = before + 4
  <2>1. PICK a \in {0, 4} : a = IF Transport!LengthApart(enc, suite.remote) THEN 0 ELSE 4
    OBVIOUS
  <2>2. before = a + 1 + m.payload
    BY <2>1
  <2> HIDE DEF before
  <2> QED BY <1>2, <2>2
<1>4. more \in Nat /\ (filled + more) % b = 0
  <2> HIDE DEF filled, b, before
  <2> QED BY <1>1, <1>2, <1>3, FillsMore
<1>5. Transport!EndOf(s) \in Nat
  BY EndIs
<1>6. PICK pad : pad = 4 + ((b - (filled % b)) % b) + m.extra * b
  OBVIOUS
<1>7. pad = 4 + more /\ pad \in Nat /\ pad >= 4 /\ before + pad = filled + more
  <2>1. (b - (filled % b)) % b \in Int /\ m.extra * b \in Int /\ more = ((b - (filled % b)) % b) + m.extra * b
    <3> HIDE DEF filled, b, before
    <3> QED BY <1>1, <1>2, <1>3
  <2>2. pad = 4 + more
    <3>1. PICK u \in Int, v \in Int : u = (b - (filled % b)) % b /\ v = m.extra * b
      BY <2>1
    <3> HIDE DEF filled, b, more, before
    <3> QED BY <1>6, <2>1, <3>1
  <2> HIDE DEF b, more, filled, before
  <2> QED BY <1>3, <1>4, <2>2
<1>8. f = [payload |-> m.payload, pad |-> pad, enc |-> enc, newkeys |-> m.newkeys,
           start |-> Transport!EndOf(s), total |-> 4 + 1 + m.payload + pad + Transport!Tag(enc, suite.remote)]
  BY <1>6 DEF Transport!ServerFrame
<1>9. f \in ServerFrames
  <2> HIDE DEF f, enc
  <2> QED BY <1>1, <1>2, <1>5, <1>7, <1>8 DEF ServerFrames
<1>10. Laid(f, suite.remote)
  <2>1. f.enc = enc /\ f.pad = pad /\ f.payload = m.payload
        /\ f.total = 4 + 1 + m.payload + pad + Transport!Tag(enc, suite.remote)
    <3> HIDE DEF f, enc
    <3> QED BY <1>8
  <2>2. (before + pad) % b = 0
    <3> HIDE DEF before, b, filled, more
    <3> QED BY <1>4, <1>7
  <2> HIDE DEF f, enc
  <2> QED BY <1>7, <2>1, <2>2 DEF Laid
<1>11. f.start = Transport!EndOf(s) /\ f.enc = enc
  <2> HIDE DEF f, enc
  <2> QED BY <1>8
<1> QED BY <1>9, <1>10, <1>11

(* It goes behind the others. *)
LEMMA NextStream ==
  ASSUME suite.remote \in Transport!Directions, NEW s \in StreamsOf(suite.remote), NEW m \in Plan
  PROVE  Append(s, Transport!ServerFrame(s, m)) \in StreamsOf(suite.remote)
<1>1. PICK f : f = Transport!ServerFrame(s, m)
  OBVIOUS
<1>2. /\ f \in ServerFrames /\ Laid(f, suite.remote) /\ f.start = Transport!EndOf(s)
      /\ f.enc <=> \E j \in DOMAIN s : s[j].newkeys
  BY <1>1, NextFrame
<1>3. s \in Seq(ServerFrames) /\ StreamOf(s, suite.remote)
  BY DEF StreamsOf
<1>4. PICK r : r = Append(s, f)
  OBVIOUS
<1>5. /\ r \in Seq(ServerFrames) /\ Len(s) \in Nat /\ Len(r) = Len(s) + 1
      /\ r[Len(s) + 1] = f /\ \A i \in 1..Len(s) : r[i] = s[i]
      /\ DOMAIN s = 1..Len(s) /\ DOMAIN r = 1..(Len(s) + 1)
  BY <1>2, <1>3, <1>4
<1>6. ASSUME NEW i \in 1..Len(s)
      PROVE  /\ Laid(r[i], suite.remote)
             /\ r[i].start = IF i = 1 THEN 0 ELSE r[i - 1].start + r[i - 1].total
             /\ r[i].enc <=> \E j \in 1..(i - 1) : r[j].newkeys
  <2>1. r[i] = s[i] /\ (i # 1 => r[i - 1] = s[i - 1]) /\ \A j \in 1..(i - 1) : r[j] = s[j]
    BY <1>5
  <2> QED BY <1>3, <1>5, <2>1 DEF StreamOf
<1>7. /\ Laid(f, suite.remote)
      /\ f.start = IF Len(s) + 1 = 1 THEN 0 ELSE r[Len(s)].start + r[Len(s)].total
      /\ f.enc <=> \E j \in 1..Len(s) : r[j].newkeys
  <2>1. Len(s) = 0 => Transport!EndOf(s) = 0
    BY <1>3 DEF Transport!EndOf
  <2>2. Len(s) # 0 => Transport!EndOf(s) = r[Len(s)].start + r[Len(s)].total
    BY <1>5, EndIs
  <2> QED BY <1>2, <1>5, <2>1, <2>2
<1>8. StreamOf(r, suite.remote)
  <2> SUFFICES ASSUME NEW i \in 1..(Len(s) + 1)
               PROVE  /\ Laid(r[i], suite.remote)
                      /\ r[i].start = IF i = 1 THEN 0 ELSE r[i - 1].start + r[i - 1].total
                      /\ r[i].enc <=> \E j \in 1..(i - 1) : r[j].newkeys
    BY <1>5 DEF StreamOf
  <2>1. CASE i \in 1..Len(s)
    BY <1>6, <2>1
  <2>2. CASE i = Len(s) + 1
    BY <1>5, <1>7, <2>2
  <2> QED BY <1>5, <2>1, <2>2
<1> QED BY <1>1, <1>4, <1>5, <1>8 DEF StreamsOf

(* Whatever is planned, the server sends such a stream. *)
LEMMA SendingIs ==
  ASSUME suite.remote \in Transport!Directions, NEW plan \in Seq(Plan)
  PROVE  Transport!Sending(plan) \in StreamsOf(suite.remote)
<1> DEFINE n == Len(plan)
           d == suite.remote
           Run(g) == g = [z \in SUBSET DOMAIN plan |->
                            IF z = {} THEN <<>>
                            ELSE Append(g[z \ {Max(z)}], Transport!ServerFrame(g[z \ {Max(z)}], plan[Max(z)]))]
           g == CHOOSE g : Run(g)
<1>1. n \in Nat /\ DOMAIN plan = 1 .. n /\ plan \in [1 .. n -> Plan]
  OBVIOUS
<1>2. SendBy(d) \in [StreamsOf(d) \X Plan -> StreamsOf(d)] /\ <<>> \in StreamsOf(d)
  <2>1. \A s \in StreamsOf(d), m \in Plan : Append(s, Transport!ServerFrame(s, m)) \in StreamsOf(d)
    BY NextStream
  <2>2. <<>> \in StreamsOf(d)
    BY DEF StreamsOf, StreamOf
  <2> QED BY <2>1, <2>2 DEF SendBy
<1>3. \A s \in StreamsOf(d), m \in Plan : SendBy(d)[<<s, m>>] = Append(s, Transport!ServerFrame(s, m))
  BY DEF SendBy
<1>4. \A z \in SUBSET (1 .. n) : z # {} =>
        /\ Max(z) \in 1 .. n /\ z \ {Max(z)} \in SUBSET (1 .. n) /\ plan[Max(z)] \in Plan
  BY <1>1, LargestIn
<1>5. PICK f : SetFold(f, StreamsOf(d), <<>>, SendBy(d), n, plan)
  <2> HIDE DEF n, d
  <2> QED BY <1>1, <1>2, FoldExists
<1>6. Run(f)
  <2>1. f \in [SUBSET DOMAIN plan -> StreamsOf(d)]
    BY <1>1, <1>5 DEF SetFold
  <2>2. \A z \in SUBSET DOMAIN plan :
          f[z] = IF z = {} THEN <<>>
                 ELSE Append(f[z \ {Max(z)}], Transport!ServerFrame(f[z \ {Max(z)}], plan[Max(z)]))
    <3> HIDE DEF d
    <3> QED BY <1>1, <1>3, <1>4, <1>5, <2>1 DEF SetFold
  <2> HIDE DEF d
  <2> QED BY <2>1, <2>2
<1>7. Run(g)
  BY <1>6
<1>8. Transport!Sending(plan) = g[DOMAIN plan]
  BY Zenon DEF Transport!Sending, Transport!FoldLeft, Transport!MapThenFoldSet, Transport!Max, Max
<1>9. Steps(g, StreamsOf(d), <<>>, SendBy(d), n, plan)
  <2>1. \A z \in SUBSET (1 .. n) :
          g[z] = IF z = {} THEN <<>>
                 ELSE Append(g[z \ {Max(z)}], Transport!ServerFrame(g[z \ {Max(z)}], plan[Max(z)]))
    <3> HIDE DEF g, n
    <3> QED BY <1>1, <1>7
  <2> HIDE DEF g, n, Run, d
  <2> QED BY <1>3, <1>4, <2>1 DEF Steps
<1>10. FoldsTo(g[1 .. n], StreamsOf(d), <<>>, SendBy(d), n, plan)
  <2> HIDE DEF g, n, d
  <2> QED BY <1>1, <1>2, <1>9, FoldPrefixes
<1>11. g[1 .. n] \in StreamsOf(d)
  <2> HIDE DEF g, n, d
  <2> QED BY <1>1, <1>10, FoldIn
<1> HIDE DEF g
<1> QED BY <1>1, <1>8, <1>11

-----------------------------------------------------------------------------
(* The reader.  How it finds a packet depends on the cipher and the MAC: all of it is
   waited for, or the length is read first and apart, or with the first block. *)
Whole == (newkeys /\ Transport!Full) \/ Transport!Etm
Integrated == newkeys /\ Transport!FlagR("integrated")

(* The sizes of the MACs. *)
LEMMA MacSizes ==
  ASSUME NEW d \in Transport!Directions
  PROVE  /\ Transport!Mac(d).len \in Nat /\ Transport!Mac(d).len >= 12 /\ Transport!Mac(d).etm \in BOOLEAN
         /\ d.crypt = "gcm" => Transport!Mac(d).len = 16 /\ ~Transport!Mac(d).etm
<1>1. CASE d.crypt = "gcm"
  <2>1. Transport!Mac(d) = [len |-> 16, etm |-> FALSE]
    BY <1>1 DEF Transport!Mac, Transport!MacOverride
  <2> QED BY <2>1
<1>2. CASE d.crypt # "gcm"
  <2>1. d.mac \in {"sha2", "sha2etm", "sha1", "sha1etm", "short"}
    BY DEF Transport!Directions
  <2>2. /\ d.mac = "sha2" => Transport!Mac(d) = Transport!Sha2Macs["sha2"]
        /\ d.mac = "sha2etm" => Transport!Mac(d) = Transport!Sha2Macs["sha2etm"]
        /\ d.mac = "sha1" => Transport!Mac(d) = Transport!Sha1Macs["sha1"]
        /\ d.mac = "sha1etm" => Transport!Mac(d) = Transport!Sha1Macs["sha1etm"]
        /\ d.mac = "short" => Transport!Mac(d) = Transport!ShortMacs["short"]
    BY <1>2, MacDomains DEF Transport!Mac, Transport!MacOverride
  <2>3. Transport!Mac(d) \in {Transport!Sha2Macs["sha2"], Transport!Sha2Macs["sha2etm"], Transport!Sha1Macs["sha1"], Transport!Sha1Macs["sha1etm"], Transport!ShortMacs["short"]}
    BY <2>1, <2>2
  <2>4. PICK m : m = Transport!Mac(d)
    OBVIOUS
  <2>5. \A x \in {Transport!Sha2Macs["sha2"], Transport!Sha2Macs["sha2etm"], Transport!Sha1Macs["sha1"], Transport!Sha1Macs["sha1etm"], Transport!ShortMacs["short"]} :
          x.len \in {32, 20, 12} /\ x.etm \in BOOLEAN
    <3>1. PICK a, b, e, f, g : a = Transport!Sha2Macs["sha2"] /\ b = Transport!Sha2Macs["sha2etm"] /\ e = Transport!Sha1Macs["sha1"]
                              /\ f = Transport!Sha1Macs["sha1etm"] /\ g = Transport!ShortMacs["short"]
      OBVIOUS
    <3>2. /\ a = [len |-> 32, etm |-> FALSE] /\ b = [len |-> 32, etm |-> TRUE]
          /\ e = [len |-> 20, etm |-> FALSE] /\ f = [len |-> 20, etm |-> TRUE]
          /\ g = [len |-> 12, etm |-> FALSE]
      BY <3>1, MacValues
    <3>3. a.len = 32 /\ a.etm = FALSE
      BY <3>2
    <3>4. b.len = 32 /\ b.etm = TRUE
      BY <3>2
    <3>5. e.len = 20 /\ e.etm = FALSE
      BY <3>2
    <3>6. f.len = 20 /\ f.etm = TRUE
      BY <3>2
    <3>7. g.len = 12 /\ g.etm = FALSE
      BY <3>2
    <3> QED BY <3>1, <3>3, <3>4, <3>5, <3>6, <3>7
  <2>6. m.len \in {32, 20, 12} /\ m.etm \in BOOLEAN
    BY <2>3, <2>4, <2>5
  <2> QED BY <1>2, <2>4, <2>6
<1> QED BY <1>1, <1>2

(* The cipher of the server, once it is in use. *)
LEMMA CipherIs ==
  ASSUME NEW d \in Transport!Directions
  PROVE  /\ d.crypt = "gcm" => /\ Transport!Crypt(d).block = 16 /\ Transport!Crypt(d).auth = 16
                               /\ Transport!Crypt(d).flags = {"integrated", "aad"}
         /\ d.crypt \in {"ctr", "cbc"} => Transport!Crypt(d).block \in {8, 16} /\ Transport!Crypt(d).flags = {}
         /\ d.crypt = "chacha" => Transport!Crypt(d).block = 8 /\ Transport!Crypt(d).auth = 16 /\ Transport!Crypt(d).flags = {"full"}
         /\ d.crypt = "gcm" \/ d.crypt \in {"ctr", "cbc"} \/ d.crypt = "chacha"
<1>1. d.crypt \in {"gcm", "ctr", "cbc", "chacha"}
  BY DEF Transport!Directions
<1>2. PICK cr : cr = Transport!Crypt(d)
  OBVIOUS
<1>3. CASE d.crypt = "gcm"
  <2>1. cr = [block |-> 16, auth |-> 16, flags |-> {"integrated", "aad"}]
    BY <1>2, <1>3, CryptIs
  <2> QED BY <1>2, <1>3, <2>1
<1>4. CASE d.crypt = "ctr"
  <2>1. cr = [block |-> 16, auth |-> 0, flags |-> {}]
    BY <1>2, <1>4, CryptIs
  <2> QED BY <1>2, <1>4, <2>1
<1>5. CASE d.crypt = "cbc"
  <2>1. cr = [block |-> 8, auth |-> 0, flags |-> {}]
    BY <1>2, <1>5, CryptIs
  <2> QED BY <1>2, <1>5, <2>1
<1>6. CASE d.crypt = "chacha"
  <2>1. cr = [block |-> 8, auth |-> 16, flags |-> {"full"}]
    BY <1>2, <1>6, CryptIs
  <2> QED BY <1>2, <1>6, <2>1
<1> QED BY <1>1, <1>3, <1>4, <1>5, <1>6

(* Before the change of keys there is neither. *)
LEMMA PlainMethods ==
  ASSUME ~newkeys
  PROVE  Transport!BlockSize = 5 /\ Transport!RemoteMac.len = 0 /\ ~Transport!Etm /\ ~Whole /\ ~Integrated
<1>1. Transport!BlockSize = 5 /\ Transport!RemoteMac = Transport!NoMac
  BY DEF Transport!BlockSize, Transport!RemoteMac
<1>2. Transport!NoMac.len = 0
  BY DEF Transport!NoMac
<1> QED BY <1>1, <1>2 DEF Transport!Etm, Whole, Integrated

(* After it there are the ciphers that need the whole packet, those with a MAC of their
   own, and the others, of which some authenticate what is encrypted. *)
LEMMA KeyedMethods ==
  ASSUME suite.remote \in Transport!Directions, newkeys
  PROVE  LET d == suite.remote IN
         /\ Transport!BlockSize = Transport!Padding(newkeys, d)
         /\ Transport!Full => /\ ~Transport!Etm /\ Whole /\ ~Integrated /\ Transport!BlockSize = 8 /\ Transport!Crypt(d).auth = 16
                    /\ Transport!LengthApart(newkeys, d) /\ Transport!Tag(newkeys, d) = 16
         /\ ~Transport!Full => Transport!RemoteMac = Transport!Mac(d) /\ Transport!Tag(newkeys, d) = Transport!RemoteMac.len
                     /\ Transport!RemoteMac.len \in Nat /\ Transport!RemoteMac.len >= 12 /\ (Whole <=> Transport!Etm)
         /\ Transport!FlagR("aad") <=> Integrated
         /\ Integrated => ~Transport!Full /\ ~Transport!Etm /\ Transport!BlockSize = 16 /\ Transport!RemoteMac.len = 16 /\ Transport!LengthApart(newkeys, d)
         /\ ~Integrated /\ ~Transport!Full => Transport!BlockSize \in {8, 16} /\ (Transport!LengthApart(newkeys, d) <=> Transport!Etm)
<1> DEFINE d == suite.remote
<1>1. PICK cr, m : cr = Transport!Crypt(d) /\ m = Transport!Mac(d)
  OBVIOUS
<1>2. m.len \in Nat /\ m.len >= 12 /\ m.etm \in BOOLEAN /\ (d.crypt = "gcm" => m.len = 16 /\ ~m.etm)
  <2> HIDE DEF d
  <2> QED BY <1>1, MacSizes DEF d
<1>3. /\ d.crypt = "gcm" => cr.block = 16 /\ cr.auth = 16 /\ cr.flags = {"integrated", "aad"}
      /\ d.crypt \in {"ctr", "cbc"} => cr.block \in {8, 16} /\ cr.flags = {}
      /\ d.crypt = "chacha" => cr.block = 8 /\ cr.auth = 16 /\ cr.flags = {"full"}
      /\ d.crypt = "gcm" \/ d.crypt \in {"ctr", "cbc"} \/ d.crypt = "chacha"
  BY <1>1, CipherIs
<1>4. /\ Transport!Full <=> ("full" \in cr.flags)
      /\ Transport!FlagR("integrated") <=> ("integrated" \in cr.flags)
      /\ Transport!FlagR("aad") <=> ("aad" \in cr.flags)
  BY <1>1 DEF Transport!Full, Transport!FlagR
<1>5. Transport!BlockSize = cr.block /\ Transport!Padding(newkeys, d) = cr.block
  BY <1>1 DEF Transport!BlockSize, Transport!Padding
<1>6. Transport!RemoteMac = IF Transport!Full THEN Transport!NoMac ELSE m
  BY <1>1 DEF Transport!RemoteMac
<1>7. Transport!LengthApart(newkeys, d) <=> (cr.flags # {} \/ m.etm)
  BY <1>1 DEF Transport!LengthApart
<1>8. Transport!Tag(newkeys, d) = IF Transport!Full THEN cr.auth ELSE m.len
  BY <1>1, <1>4 DEF Transport!Tag
<1>9. Transport!NoMac.etm = FALSE
  BY DEF Transport!NoMac
<1>10. Transport!Etm <=> (~Transport!Full /\ m.etm)
  BY <1>2, <1>6, <1>9 DEF Transport!Etm
<1>11. (Whole <=> Transport!Full \/ Transport!Etm) /\ (Integrated <=> Transport!FlagR("integrated"))
  BY DEF Whole, Integrated
<1> HIDE DEF d
<1>12. CASE d.crypt = "gcm"
  <2>1. cr.block = 16 /\ cr.flags = {"integrated", "aad"} /\ ~Transport!Full /\ m.len = 16 /\ ~m.etm
    BY <1>2, <1>3, <1>4, <1>12
  <2>2. Transport!FlagR("aad") /\ Integrated
    BY <1>4, <1>11, <2>1
  <2>3. ~Transport!Etm /\ Transport!LengthApart(newkeys, d)
    BY <1>7, <1>10, <2>1
  <2>4. Transport!RemoteMac = m
    BY <1>6, <2>1
  <2>5. Transport!BlockSize = 16 /\ Transport!BlockSize = Transport!Padding(newkeys, d) /\ Transport!Tag(newkeys, d) = m.len
    BY <1>5, <1>8, <2>1
  <2> QED BY <1>1, <1>2, <1>11, <2>1, <2>2, <2>3, <2>4, <2>5 DEF d
<1>13. CASE d.crypt \in {"ctr", "cbc"}
  <2>1. cr.block \in {8, 16} /\ cr.flags = {} /\ ~Transport!Full
    BY <1>3, <1>4, <1>13
  <2>2. ~Transport!FlagR("aad") /\ ~Integrated
    BY <1>4, <1>11, <2>1
  <2>3. (Transport!Etm <=> m.etm) /\ (Transport!LengthApart(newkeys, d) <=> m.etm)
    BY <1>2, <1>7, <1>10, <2>1
  <2>4. Transport!RemoteMac = m
    BY <1>6, <2>1
  <2>5. Transport!BlockSize \in {8, 16} /\ Transport!BlockSize = Transport!Padding(newkeys, d) /\ Transport!Tag(newkeys, d) = m.len
    BY <1>5, <1>8, <2>1
  <2> QED BY <1>1, <1>2, <1>11, <2>1, <2>2, <2>3, <2>4, <2>5 DEF d
<1>14. CASE d.crypt = "chacha"
  <2>1. cr.block = 8 /\ cr.auth = 16 /\ cr.flags = {"full"} /\ Transport!Full
    BY <1>3, <1>4, <1>14
  <2>2. ~Transport!FlagR("aad") /\ ~Integrated
    BY <1>4, <1>11, <2>1
  <2>3. ~Transport!Etm /\ Transport!LengthApart(newkeys, d)
    BY <1>7, <1>10, <2>1
  <2>5. Transport!BlockSize = 8 /\ Transport!BlockSize = Transport!Padding(newkeys, d) /\ Transport!Tag(newkeys, d) = 16
    BY <1>5, <1>8, <2>1
  <2> QED BY <1>1, <1>11, <2>1, <2>2, <2>3, <2>5 DEF d
<1> QED BY <1>3, <1>12, <1>13, <1>14

(* The bytes of a packet after its length, of which the reader knows by its TotalNum. *)
LengthOf(f) == 1 + f.payload + f.pad
(* The bytes that are read before the reader knows the length, and are not of the total. *)
Apart == IF Whole THEN 0 ELSE 5

(* That number is the length and what follows it, less what was read before. *)
LEMMA TotalIs ==
  ASSUME NEW len \in Nat, suite.remote \in Transport!Directions
  PROVE  /\ newkeys /\ Transport!Full => Transport!TotalNum(len) = 4 + len + 16
         /\ Transport!Etm => Transport!TotalNum(len) = 4 + len + Transport!RemoteMac.len
         /\ ~Whole => Transport!TotalNum(len) = len - 1 + Transport!RemoteMac.len
<1>1. CASE newkeys /\ Transport!Full
  <2>1. ~Transport!Etm /\ Whole /\ Transport!Crypt(suite.remote).auth = 16
    BY <1>1, KeyedMethods
  <2> QED BY <1>1, <2>1 DEF Transport!TotalNum
<1>2. CASE ~(newkeys /\ Transport!Full) /\ Transport!Etm
  <2>1. Whole
    BY <1>2 DEF Whole
  <2> QED BY <1>2, <2>1 DEF Transport!TotalNum
<1>3. CASE ~(newkeys /\ Transport!Full) /\ ~Transport!Etm
  BY <1>3 DEF Transport!TotalNum
<1> QED BY <1>1, <1>2, <1>3

(* What the reader computes of a packet of the server is what the packet has. *)
LEMMA FrameIs ==
  ASSUME suite.remote \in Transport!Directions, NEW f \in ServerFrames, Laid(f, suite.remote),
         newkeys \in BOOLEAN, f.enc = newkeys
  PROVE  LET len == LengthOf(f) IN
         /\ len \in Nat /\ len >= 5 /\ Transport!TotalNum(len) \in Nat /\ f.total \in Nat
         /\ f.total = Transport!TotalNum(len) + Apart /\ f.total >= Transport!BlockSize
         /\ ~Whole => Transport!TotalNum(len) > Transport!BlockSize - 5
         /\ Transport!TotalNum(len) > 0
         /\ newkeys /\ ~Whole /\ ~Integrated =>
              /\ Transport!BlockSize \in {8, 16} /\ (4 + len) % Transport!BlockSize = 0 /\ 4 + len >= Transport!BlockSize
              /\ Transport!RemoteMac.len \in Nat /\ Transport!TotalNum(len) = len - 1 + Transport!RemoteMac.len
         /\ Integrated => len % 16 = 0 /\ len >= 16 /\ Transport!TotalNum(len) = len + 15
<1>1. PICK len : len = LengthOf(f)
  OBVIOUS
<1>2. f.payload \in Nat /\ f.pad \in Nat /\ f.total \in Nat
  BY DEF ServerFrames
<1>3. len = 1 + f.payload + f.pad /\ len \in Nat /\ len >= 5
  BY <1>1, <1>2 DEF LengthOf, Laid
<1>4. f.total = 4 + len + Transport!Tag(newkeys, suite.remote)
  <2>1. Transport!Tag(newkeys, suite.remote) \in Nat
    BY TagIs
  <2> QED BY <1>2, <1>3, <2>1 DEF Laid
<1>5. PICK more \in {0, 4} : more = IF Transport!LengthApart(newkeys, suite.remote) THEN 0 ELSE 4
  OBVIOUS
<1>6. (more + len) % Transport!Padding(newkeys, suite.remote) = 0
  <2>1. (more + 1 + f.payload + f.pad) % Transport!Padding(newkeys, suite.remote) = 0
    BY <1>5 DEF Laid
  <2>2. more + 1 + f.payload + f.pad = more + len
    BY <1>2, <1>3
  <2> QED BY <2>1, <2>2
<1>7. CASE ~newkeys
  <2>1. Transport!BlockSize = 5 /\ Transport!RemoteMac.len = 0 /\ ~Transport!Etm /\ ~Whole /\ ~Integrated
    BY <1>7, PlainMethods
  <2>2. Transport!TotalNum(len) = len - 1
    BY <1>3, <2>1, TotalIs
  <2>3. Transport!Tag(newkeys, suite.remote) = 0
    BY <1>7 DEF Transport!Tag
  <2> QED BY <1>1, <1>2, <1>3, <1>4, <1>7, <2>1, <2>2, <2>3 DEF Apart
<1>8. CASE newkeys /\ Transport!Full
  <2>1. /\ Transport!BlockSize = 8 /\ Transport!Tag(newkeys, suite.remote) = 16 /\ Whole /\ ~Integrated
    BY <1>8, KeyedMethods
  <2>2. Transport!TotalNum(len) = 4 + len + 16
    BY <1>3, <1>8, TotalIs
  <2> QED BY <1>1, <1>2, <1>3, <1>4, <2>1, <2>2 DEF Apart
<1>9. CASE newkeys /\ ~Transport!Full /\ Integrated
  <2>1. PICK mac, bs : mac = Transport!RemoteMac.len /\ bs = Transport!BlockSize
    OBVIOUS
  <2>2. mac = 16 /\ bs = 16 /\ Transport!LengthApart(newkeys, suite.remote) /\ ~Transport!Etm /\ Transport!Tag(newkeys, suite.remote) = 16
        /\ Transport!Padding(newkeys, suite.remote) = 16 /\ ~Whole
    BY <1>9, <2>1, KeyedMethods
  <2>3. Transport!TotalNum(len) = len - 1 + 16
    BY <1>3, <2>1, <2>2, TotalIs
  <2>4. more = 0 /\ len % 16 = 0
    BY <1>3, <1>5, <1>6, <2>2
  <2>5. len >= 16
    BY <1>3, <2>4
  <2>6. PICK total : total = Transport!TotalNum(len)
    OBVIOUS
  <2>7. total = len + 15 /\ total \in Nat /\ f.total = total + 5 /\ Apart = 5
    BY <1>2, <1>3, <1>4, <2>2, <2>3, <2>6 DEF Apart
  <2>8. total \in Nat /\ total > 0 /\ f.total >= 16 /\ total > 11
    BY <1>2, <1>3, <2>5, <2>7
  <2> QED BY <1>1, <1>2, <1>3, <1>9, <2>1, <2>2, <2>4, <2>5, <2>6, <2>7, <2>8
<1>10. CASE newkeys /\ ~Transport!Full /\ ~Integrated
  <2>1. PICK mac, bs : mac = Transport!RemoteMac.len /\ bs = Transport!BlockSize
    OBVIOUS
  <2>2. /\ mac \in Nat /\ mac >= 12 /\ bs \in {8, 16} /\ Transport!Tag(newkeys, suite.remote) = mac
        /\ Transport!Padding(newkeys, suite.remote) = bs /\ (Whole <=> Transport!Etm)
        /\ Transport!LengthApart(newkeys, suite.remote) <=> Transport!Etm
    BY <1>10, <2>1, KeyedMethods
  <2>3. CASE Transport!Etm
    <3>1. Transport!TotalNum(len) = 4 + len + mac
      BY <1>3, <2>1, <2>3, TotalIs
    <3>2. Apart = 0
      BY <2>2, <2>3 DEF Apart
    <3>3. PICK total : total = Transport!TotalNum(len)
      OBVIOUS
    <3>4. total \in Nat /\ total > 0 /\ f.total = total /\ f.total >= 16
      BY <1>2, <1>3, <1>4, <2>2, <3>1, <3>3
    <3>5. f.total >= bs
      BY <1>2, <2>2, <3>4
    <3> QED BY <1>1, <1>2, <1>3, <1>10, <2>1, <2>2, <2>3, <3>2, <3>3, <3>4, <3>5
  <2>4. CASE ~Transport!Etm
    <3>1. Transport!TotalNum(len) = len - 1 + mac
      BY <1>3, <2>1, <2>2, <2>4, TotalIs
    <3>2. Apart = 5
      BY <2>2, <2>4 DEF Apart
    <3>3. (4 + len) % bs = 0
      BY <1>5, <1>6, <2>2, <2>4
    <3>4. 4 + len >= bs
      <4>1. CASE bs = 8
        BY <1>3, <3>3, <4>1
      <4>2. CASE bs = 16
        BY <1>3, <3>3, <4>2
      <4> QED BY <2>2, <4>1, <4>2
    <3>5. PICK total : total = Transport!TotalNum(len)
      OBVIOUS
    <3>6. total = len - 1 + mac /\ total \in Nat /\ total > 0 /\ f.total = total + 5 /\ total > bs - 5
      BY <1>2, <1>3, <1>4, <2>2, <3>1, <3>4, <3>5
    <3>7. f.total >= bs
      BY <1>2, <2>2, <3>6
    <3> QED BY <1>1, <1>2, <1>3, <1>10, <2>1, <2>2, <2>4, <3>2, <3>3, <3>4, <3>5, <3>6, <3>7
  <2> QED BY <2>3, <2>4
<1> QED BY <1>7, <1>8, <1>9, <1>10

(* Where the packets lie: one after the other, none of them empty. *)
LEMMA PlacesAre ==
  ASSUME NEW d \in Transport!Directions, NEW s \in StreamsOf(d)
  PROVE  /\ \A i \in 1..Len(s) : s[i] \in ServerFrames /\ Laid(s[i], d) /\ s[i].total > 0
         /\ \A i, j \in 1..Len(s) : i < j => s[i].start + s[i].total <= s[j].start
         /\ \A i \in 1..Len(s) : s[i].start + s[i].total <= Transport!EndOf(s)
         /\ \A i \in 1..Len(s) : i + 1 <= Len(s) => s[i + 1].start = s[i].start + s[i].total
         /\ Len(s) > 0 => s[1].start = 0
<1>1. s \in Seq(ServerFrames) /\ StreamOf(s, d) /\ Len(s) \in Nat /\ DOMAIN s = 1..Len(s)
  BY DEF StreamsOf
<1>2. ASSUME NEW i \in 1..Len(s)
      PROVE  s[i] \in ServerFrames /\ Laid(s[i], d) /\ s[i].total > 0
  <2>1. PICK g : g = s[i]
    OBVIOUS
  <2>2. g \in ServerFrames /\ Laid(g, d)
    BY <1>1, <2>1 DEF StreamOf
  <2>3. g.enc \in BOOLEAN /\ g.payload \in Nat /\ g.pad \in Nat /\ g.total \in Nat
    BY <2>2 DEF ServerFrames
  <2>4. Transport!Tag(g.enc, d) \in Nat
    BY <2>3, TagIs
  <2>5. g.total = 4 + 1 + g.payload + g.pad + Transport!Tag(g.enc, d)
    BY <2>2 DEF Laid
  <2> QED BY <2>1, <2>2, <2>3, <2>4, <2>5
<1>3. \A i \in 1..Len(s) : s[i].start \in Nat /\ s[i].total \in Nat /\ s[i].total > 0
  BY <1>2 DEF ServerFrames
<1>4. ASSUME NEW i \in 1..Len(s)
      PROVE  s[i].start = IF i = 1 THEN 0 ELSE s[i - 1].start + s[i - 1].total
  BY <1>1 DEF StreamOf
<1>5. ASSUME NEW i \in 1..Len(s), i + 1 <= Len(s)
      PROVE  s[i + 1].start = s[i].start + s[i].total
  <2>1. i + 1 \in 1..Len(s) /\ i + 1 # 1 /\ (i + 1) - 1 = i
    BY <1>1, <1>5
  <2> QED BY <1>4, <2>1
<1> DEFINE S == {n \in Nat : \A i \in 1..Len(s) : i + 1 + n <= Len(s) =>
                               s[i].start + s[i].total <= s[i + 1 + n].start}
<1>6. 0 \in S
  <2> SUFFICES ASSUME NEW i \in 1..Len(s), i + 1 + 0 <= Len(s)
               PROVE  s[i].start + s[i].total <= s[i + 1 + 0].start
    OBVIOUS
  <2>1. i + 1 + 0 = i + 1 /\ i + 1 \in 1..Len(s)
    BY <1>1
  <2> QED BY <1>3, <1>5, <2>1
<1>7. ASSUME NEW n \in S \cap Nat
      PROVE  n + 1 \in S
  <2>0. n + 1 \in Nat
    OBVIOUS
  <2> SUFFICES ASSUME NEW i \in 1..Len(s), i + 1 + (n + 1) <= Len(s)
               PROVE  s[i].start + s[i].total <= s[i + 1 + (n + 1)].start
    BY <2>0, Zenon
  <2>1. PICK k : k = i + 1 + n
    OBVIOUS
  <2>2. k \in 1..Len(s) /\ k + 1 <= Len(s) /\ k + 1 = i + 1 + (n + 1) /\ k + 1 \in 1..Len(s)
    BY <1>1, <2>1
  <2>3. s[i].start + s[i].total <= s[k].start
    BY <2>1, <2>2
  <2>4. s[k + 1].start = s[k].start + s[k].total
    BY <1>5, <2>2
  <2>5. PICK a, b, cr : a = s[i].start + s[i].total /\ b = s[k].start /\ cr = s[k].total
    OBVIOUS
  <2>6. a \in Nat /\ b \in Nat /\ cr \in Nat
    BY <1>3, <2>2, <2>5
  <2>7. a <= s[k + 1].start
    BY <2>3, <2>4, <2>5, <2>6
  <2> QED BY <2>2, <2>5, <2>7
<1>8. Nat \subseteq S
  <2> HIDE DEF S
  <2> QED BY <1>6, <1>7, Induction
<1>9. ASSUME NEW i \in 1..Len(s), NEW j \in 1..Len(s), i < j
      PROVE  s[i].start + s[i].total <= s[j].start
  <2>1. PICK n \in Nat : j = i + 1 + n
    <3>1. j - i - 1 \in Nat /\ j = i + 1 + (j - i - 1)
      BY <1>1, <1>9
    <3> QED BY <3>1
  <2>2. n \in S
    BY <1>8
  <2> QED BY <1>1, <2>1, <2>2
<1>10. ASSUME NEW i \in 1..Len(s)
       PROVE  s[i].start + s[i].total <= Transport!EndOf(s)
  <2>1. Len(s) \in 1..Len(s) /\ Transport!EndOf(s) = s[Len(s)].start + s[Len(s)].total
    <3>1. s # <<>>
      BY <1>1
    <3> QED BY <3>1, EndIs
  <2>2. CASE i = Len(s)
    BY <1>3, <2>1, <2>2
  <2>3. CASE i < Len(s)
    <3>1. s[i].start + s[i].total <= s[Len(s)].start
      BY <1>9, <2>1, <2>3
    <3>2. PICK a, b, cr : a = s[i].start + s[i].total /\ b = s[Len(s)].start /\ cr = s[Len(s)].total
      OBVIOUS
    <3>3. a \in Nat /\ b \in Nat /\ cr \in Nat
      BY <1>3, <2>1, <3>2
    <3> QED BY <2>1, <3>1, <3>2, <3>3
  <2>4. i = Len(s) \/ i < Len(s)
    <3>1. PICK n \in Nat : n = Len(s)
      BY <1>1
    <3> HIDE DEF S
    <3> QED BY <3>1
  <2> QED BY <2>2, <2>3, <2>4
<1>11. Len(s) > 0 => s[1].start = 0
  BY <1>1, <1>4
<1> QED BY <1>2, <1>5, <1>9, <1>10, <1>11

(* Where the packet begins that comes after the first k. *)
Begins(k) == IF k = 0 THEN 0 ELSE stream[k].start + stream[k].total

(* It does so before the end; and the length the reader finds there is its own. *)
LEMMA BeginsAt ==
  ASSUME suite.remote \in Transport!Directions, stream \in StreamsOf(suite.remote), NEW k \in 0..Len(stream)
  PROVE  /\ Begins(k) \in Nat /\ Begins(k) <= Transport!EndOf(stream) /\ Begins(Len(stream)) = Transport!EndOf(stream)
         /\ Len(stream) \in Nat
         /\ k < Len(stream) => /\ stream[k + 1] \in ServerFrames /\ Laid(stream[k + 1], suite.remote)
                               /\ stream[k + 1].start = Begins(k)
                               /\ Begins(k + 1) = Begins(k) + stream[k + 1].total
                               /\ Begins(k + 1) <= Transport!EndOf(stream)
                               /\ stream[k + 1].enc <=> \E j \in 1..k : stream[j].newkeys
                               /\ \A r : r.at = Begins(k) => Transport!Length(r) = LengthOf(stream[k + 1])
<1> PICK s : s = stream
  OBVIOUS
<1>1. s \in Seq(ServerFrames) /\ StreamOf(s, suite.remote) /\ Len(s) \in Nat /\ DOMAIN s = 1..Len(s)
  BY DEF StreamsOf
<1>2. \A i \in 1..Len(s) : s[i] \in ServerFrames /\ Laid(s[i], suite.remote) /\ s[i].total > 0
  BY PlacesAre
<1>3. \A i \in 1..Len(s) : s[i].start \in Nat /\ s[i].total \in Nat /\ s[i].total > 0
  BY <1>2 DEF ServerFrames
<1>4. Transport!EndOf(s) \in Nat /\ (s = <<>> <=> Len(s) = 0) /\ (s = <<>> => Transport!EndOf(s) = 0)
  BY EndIs DEF Transport!EndOf
<1>5. Begins(k) \in Nat /\ Begins(k) <= Transport!EndOf(s)
  <2>1. CASE k = 0
    BY <1>4, <2>1 DEF Begins
  <2>2. CASE k # 0
    <3>1. k \in 1..Len(s)
      BY <1>1, <2>2
    <3> QED BY <1>3, <2>2, <3>1, PlacesAre DEF Begins
  <2> QED BY <2>1, <2>2
<1>6. Begins(Len(s)) = Transport!EndOf(s)
  BY <1>1, <1>4, EndIs DEF Begins
<1>7. ASSUME k < Len(s)
      PROVE  /\ s[k + 1] \in ServerFrames /\ Laid(s[k + 1], suite.remote)
             /\ s[k + 1].start = Begins(k)
             /\ Begins(k + 1) = Begins(k) + s[k + 1].total
             /\ Begins(k + 1) <= Transport!EndOf(s)
             /\ s[k + 1].enc <=> \E j \in 1..k : s[j].newkeys
             /\ \A r : r.at = Begins(k) => Transport!Length(r) = LengthOf(s[k + 1])
  <2>1. k + 1 \in 1..Len(s) /\ k + 1 # 0 /\ (k + 1) - 1 = k
    BY <1>1, <1>7
  <2>2. s[k + 1].start = Begins(k)
    <3>1. CASE k = 0
      BY <1>7, <3>1, PlacesAre DEF Begins
    <3>2. CASE k # 0
      <4>1. k \in 1..Len(s) /\ k + 1 <= Len(s)
        BY <1>1, <1>7, <3>2
      <4> QED BY <3>2, <4>1, PlacesAre DEF Begins
    <3> QED BY <3>1, <3>2
  <2>3. s[k + 1].enc <=> \E j \in 1..k : s[j].newkeys
    BY <1>1, <2>1 DEF StreamOf
  <2>4. ASSUME NEW i \in 1..Len(s), s[i].start = Begins(k)
        PROVE  i = k + 1
    <3>1. i \in Nat /\ k + 1 \in Nat
      BY <1>1
    <3>2. CASE i < k + 1
      <4>1. s[i].start + s[i].total <= s[k + 1].start
        BY <2>1, <3>2, PlacesAre
      <4> QED BY <1>3, <2>2, <2>4, <4>1
    <3>3. CASE k + 1 < i
      <4>1. s[k + 1].start + s[k + 1].total <= s[i].start
        BY <2>1, <3>3, PlacesAre
      <4> QED BY <1>3, <2>1, <2>2, <2>4, <4>1
    <3> QED BY <3>1, <3>2, <3>3
  <2>5. ASSUME NEW r, r.at = Begins(k)
        PROVE  Transport!Length(r) = LengthOf(s[k + 1])
    <3>1. \E i \in DOMAIN stream : stream[i].start = r.at
      BY <1>1, <2>1, <2>2, <2>5
    <3>2. (CHOOSE i \in DOMAIN stream : stream[i].start = r.at) = k + 1
      BY <1>1, <2>4, <2>5, <3>1
    <3> QED BY <3>1, <3>2 DEF Transport!Length, LengthOf
  <2>6. Begins(k + 1) = Begins(k) + s[k + 1].total /\ Begins(k + 1) <= Transport!EndOf(s)
    BY <2>1, <2>2, PlacesAre DEF Begins
  <2> QED BY <1>2, <2>1, <2>2, <2>3, <2>5, <2>6
<1> QED BY <1>1, <1>5, <1>6, <1>7

-----------------------------------------------------------------------------
(* What the reader knows of the packet f that it works on: its length, how much of it has
   been taken, and how much of that is decrypted.  With an integrated MAC the last call
   has all of the tag, so what is left is never a part of one block and the tag. *)
Readers == [at : Nat, total : Nat, data : Nat, len : Nat, dec : Nat, st : {"ok", "error"}]
Separate == newkeys /\ ~Whole /\ ~Integrated
Rest(r) == r.total - Transport!RemoteMac.len - r.data
Working(r, f) ==
  /\ r.st = "ok" /\ r.len = LengthOf(f) /\ r.total = Transport!TotalNum(r.len) /\ r.data <= r.total
  /\ r.at = f.start + r.data + Apart
  /\ newkeys /\ Transport!Full => (r.data = 0 \/ r.data = r.total) /\ (r.data = r.total => r.dec = r.len)
  /\ Integrated => /\ r.dec = r.data + 5
                   /\ \/ r.total - r.data \in {0, 16}
                      \/ r.total - r.data >= 20 /\ (r.total - r.data) % 16 = 4
  /\ Separate => IF Rest(r) > 0 THEN r.dec = r.data + 5 /\ (r.data + 5) % Transport!BlockSize = 0
                 ELSE r.dec = r.len + 4

(* The length is read, and with it the first block where it is not apart. *)
LEMMA OpenedIs ==
  ASSUME suite.remote \in Transport!Directions, newkeys \in BOOLEAN, MaxPayload \in Nat,
         NEW f \in ServerFrames, Laid(f, suite.remote), f.enc = newkeys,
         NEW r \in Readers, r.st = "ok", r.total = 0, r.data = 0, r.dec = 0, r.at = f.start,
         Transport!Length(r) = LengthOf(f)
  PROVE  /\ Transport!Opened(r) \in Readers
         /\ \/ Transport!TotalNum(LengthOf(f)) > MaxPayload /\ Transport!Opened(r) = [r EXCEPT !.st = "error"]
            \/ /\ Working(Transport!Opened(r), f) /\ Transport!Opened(r).data < Transport!Opened(r).total
               /\ Transport!Opened(r).at = r.at + IF Whole THEN 0 ELSE Transport!BlockSize
<1>1. PICK len, total, bs, o : len = LengthOf(f) /\ total = Transport!TotalNum(len) /\ bs = Transport!BlockSize /\ o = Transport!Opened(r)
  OBVIOUS
<1>2. /\ len \in Nat /\ len >= 5 /\ total \in Nat /\ total > 0
      /\ ~Whole => total > bs - 5
      /\ Separate => /\ bs \in {8, 16} /\ (4 + len) % bs = 0 /\ 4 + len >= bs
                     /\ Transport!RemoteMac.len \in Nat /\ total = len - 1 + Transport!RemoteMac.len
      /\ Integrated => len % 16 = 0 /\ len >= 16 /\ total = len + 15
  BY <1>1, FrameIs DEF Separate
<1>3. /\ ~newkeys => bs = 5 /\ ~Whole /\ ~Integrated
      /\ newkeys => bs \in {8, 16}
      /\ Integrated => bs = 16 /\ ~Whole /\ newkeys
      /\ newkeys /\ Transport!Full => Whole
  BY <1>1, PlainMethods, KeyedMethods, CryptTypes DEF Transport!Padding, Integrated
<1>4. r \in [at : Nat, total : Nat, data : Nat, len : Nat, dec : Nat, st : {"ok", "error"}]
  BY DEF Readers
<1>5. CASE total > MaxPayload
  <2>1. o = [r EXCEPT !.st = "error"]
    BY <1>1, <1>5 DEF Transport!Opened
  <2>2. o \in Readers
    BY <2>1 DEF Readers
  <2> QED BY <1>1, <1>5, <2>1, <2>2
<1>6. CASE total <= MaxPayload /\ Whole
  <2>1. o = [r EXCEPT !.len = len, !.total = total, !.at = r.at, !.data = 0, !.dec = 0]
    <3>1. ~(len < 1 \/ total > MaxPayload)
      BY <1>2, <1>6
    <3>2. (newkeys /\ Transport!Full) \/ Transport!Etm
      BY <1>6 DEF Whole
    <3> QED BY <1>1, <3>1, <3>2 DEF Transport!Opened
  <2>2. o \in Readers /\ o.at = f.start /\ o.data = 0 /\ o.dec = 0 /\ o.total = total /\ o.len = len /\ o.st = "ok"
    BY <1>2, <2>1 DEF Readers
  <2>3. Apart = 0 /\ ~Separate /\ ~Integrated
    BY <1>3, <1>6 DEF Apart, Separate
  <2>4. f.start \in Nat
    BY DEF ServerFrames
  <2>5. Working(o, f)
    BY <1>1, <1>2, <2>2, <2>3, <2>4 DEF Working
  <2> QED BY <1>1, <1>2, <1>6, <2>2, <2>4, <2>5
<1>7. CASE total <= MaxPayload /\ ~Whole
  <2>1. PICK dec : dec = IF newkeys THEN bs ELSE 0
    OBVIOUS
  <2>2. dec \in Nat /\ bs \in Nat /\ bs >= 5 /\ (newkeys => dec = bs) /\ bs - 5 \in Nat
    BY <1>3, <2>1
  <2>4. f.start \in Nat
    BY DEF ServerFrames
  <2>0. PICK pos \in Nat, data \in Nat : pos = r.at + bs /\ data = bs - 5
    <3>1. r.at + bs \in Nat /\ bs - 5 \in Nat
      BY <2>2, <2>4
    <3> QED BY <3>1
  <2>3. o = [r EXCEPT !.len = len, !.total = total, !.at = pos, !.data = data, !.dec = dec]
    <3>1. ~(len < 1 \/ total > MaxPayload)
      BY <1>2, <1>7
    <3>2. ~((newkeys /\ Transport!Full) \/ Transport!Etm)
      BY <1>7 DEF Whole
    <3> QED BY <1>1, <2>0, <2>1, <3>1, <3>2 DEF Transport!Opened
  <2>5. o \in Readers /\ o.at = f.start + bs /\ o.data = bs - 5 /\ o.dec = dec /\ o.total = total /\ o.len = len /\ o.st = "ok"
    <3>1. o \in Readers /\ o.at = pos /\ o.data = data /\ o.dec = dec /\ o.total = total /\ o.len = len /\ o.st = "ok"
      BY <1>2, <2>2, <2>3 DEF Readers
    <3> QED BY <2>0, <3>1
  <2>6. Apart = 5 /\ (Separate <=> newkeys /\ ~Integrated) /\ ~(newkeys /\ Transport!Full)
    BY <1>3, <1>7 DEF Apart, Separate
  <2>7. o.at = f.start + o.data + Apart /\ o.data < o.total
    BY <1>2, <1>3, <1>7, <2>2, <2>4, <2>5, <2>6
  <2>8. Integrated => /\ o.dec = o.data + 5
                      /\ o.total - o.data >= 20 /\ (o.total - o.data) % 16 = 4
    <3> SUFFICES ASSUME Integrated
                 PROVE  o.dec = o.data + 5 /\ o.total - o.data >= 20 /\ (o.total - o.data) % 16 = 4
      OBVIOUS
    <3>1. bs = 16 /\ dec = 16 /\ o.dec = 16 /\ o.data = 11 /\ o.total = len + 15 /\ len % 16 = 0 /\ len >= 16
      BY <1>2, <1>3, <2>2, <2>5
    <3>2. o.total - o.data = len + 4 /\ (len + 4) % 16 = 4
      BY <1>2, <3>1
    <3> QED BY <1>2, <3>1, <3>2
  <2>9. ASSUME Separate
        PROVE  IF Rest(o) > 0 THEN o.dec = o.data + 5 /\ (o.data + 5) % Transport!BlockSize = 0
               ELSE o.dec = o.len + 4
    <3>1. PICK mac \in Nat : mac = Transport!RemoteMac.len
      BY <1>2, <2>9
    <3>2. o.total = len - 1 + mac /\ 4 + len >= bs /\ newkeys
      BY <1>2, <2>5, <2>9, <3>1 DEF Separate
    <3>3. Rest(o) = len + 4 - bs
      BY <1>2, <2>2, <2>5, <3>1, <3>2 DEF Rest
    <3>4. o.dec = o.data + 5 /\ o.data + 5 = bs /\ bs % bs = 0
      BY <1>3, <2>2, <2>5, <3>2
    <3> QED BY <1>1, <1>2, <2>2, <2>5, <3>2, <3>3, <3>4
  <2>10. Working(o, f)
    <3>1. o.data <= o.total
      BY <2>2, <2>5, <2>7, <1>2
    <3> QED BY <1>1, <2>5, <2>6, <2>7, <2>8, <2>9, <3>1 DEF Working
  <2> QED BY <1>1, <1>7, <2>4, <2>5, <2>7, <2>10
<1> QED BY <1>2, <1>5, <1>6, <1>7

(* Blocks are what they are with any number of blocks more or less. *)
LEMMA BlocksAdd ==
  ASSUME NEW b \in {8, 16}, NEW x \in Nat, NEW y \in Nat, x % b = 0, y % b = 0
  PROVE  (x + y) % b = 0 /\ (x >= y => (x - y) % b = 0)
<1>1. CASE b = 8
  BY <1>1
<1>2. CASE b = 16
  BY <1>2
<1> QED BY <1>1, <1>2

(* What is left when a part of a block is. *)
LEMMA WholeBlocks ==
  ASSUME NEW b \in {8, 16}, NEW n \in Nat
  PROVE  /\ n - (n % b) \in Nat /\ (n - (n % b)) % b = 0 /\ n - (n % b) <= n
         /\ n % b \in 0..(b - 1) /\ (n >= b => n - (n % b) >= b)
<1>1. CASE b = 8
  BY <1>1
<1>2. CASE b = 16
  BY <1>2
<1> QED BY <1>1, <1>2

(* What a round does with n bytes of the packet: it takes them, or as many as it can
   decrypt of them, or finds that the cipher of the other direction is not alike. *)
Taking(r, f, n) ==
  LET t == Transport!Taken(r, n) IN
  /\ t \in Readers
  /\ \/ t = [r EXCEPT !.st = "error"] /\ ~Transport!Alike
     \/ /\ Working(t, f) /\ r.at <= t.at /\ t.at <= r.at + n
        /\ n = r.total - r.data => t.data = t.total
        /\ n >= Transport!BlockSize /\ ~(newkeys /\ Transport!Full) => t.data # r.data

(* A cipher that needs the whole packet has it, or it waits. *)
LEMMA TakesWhole ==
  ASSUME NEW f \in ServerFrames, suite.remote \in Transport!Directions, newkeys /\ Transport!Full,
         NEW r \in Readers, Working(r, f), r.data < r.total, NEW n \in Nat, n <= r.total - r.data
  PROVE  Taking(r, f, n)
<1>1. r.data \in Nat /\ r.total \in Nat /\ r.at \in Nat /\ r.len \in Nat /\ f.start \in Nat /\ r.st = "ok"
  BY DEF Readers, Working, ServerFrames
<1>2. r.data = 0
  BY <1>1 DEF Working
<1>3. Whole /\ ~Integrated /\ ~Separate /\ Apart = 0
  BY KeyedMethods DEF Separate, Apart
<1>4. PICK t : t = Transport!Taken(r, n)
  OBVIOUS
<1>5. CASE n < r.total
  <2>1. t = r
    BY <1>3, <1>4, <1>5 DEF Transport!Taken
  <2> QED BY <1>1, <1>2, <1>4, <1>5, <2>1 DEF Taking
<1>6. CASE n = r.total
  <2>1. PICK pos \in Nat : pos = r.at + n
    BY <1>1
  <2>2. t = [r EXCEPT !.at = pos, !.data = n, !.dec = r.len]
    <3>1. ~(n < r.total)
      BY <1>1, <1>6
    <3> QED BY <1>3, <1>4, <2>1, <3>1 DEF Transport!Taken
  <2>3. t \in Readers /\ t.at = pos /\ t.data = n /\ t.dec = r.len /\ t.len = r.len /\ t.total = r.total /\ t.st = "ok"
    BY <1>1, <2>2 DEF Readers
  <2>4. Working(t, f)
    <3>1. r.len = LengthOf(f) /\ r.total = Transport!TotalNum(r.len) /\ r.at = f.start + r.data + Apart
      BY DEF Working
    <3>2. t.at = f.start + t.data + Apart
      BY <1>1, <1>2, <1>3, <2>1, <2>3, <3>1
    <3> QED BY <1>1, <1>3, <1>6, <2>3, <3>1, <3>2 DEF Working
  <2> QED BY <1>1, <1>4, <1>6, <2>1, <2>3, <2>4 DEF Taking
<1> QED BY <1>1, <1>2, <1>5, <1>6

(* Without keys, or with the MAC of what is encrypted, the bytes are taken as they are. *)
LEMMA TakesBytes ==
  ASSUME NEW f \in ServerFrames, suite.remote \in Transport!Directions, newkeys \in BOOLEAN, ~newkeys \/ Transport!Etm,
         NEW r \in Readers, Working(r, f), r.data < r.total, NEW n \in Nat, n <= r.total - r.data
  PROVE  Taking(r, f, n)
<1>1. /\ r.data \in Nat /\ r.total \in Nat /\ r.at \in Nat /\ r.len \in Nat /\ f.start \in Nat /\ r.st = "ok"
      /\ Apart \in Nat
  BY DEF Readers, Working, ServerFrames, Apart
<1>2. ~(newkeys /\ Transport!Full) /\ ~Integrated /\ ~Separate /\ Transport!BlockSize \in {5, 8, 16}
  <2>1. CASE ~newkeys
    BY <2>1, PlainMethods DEF Separate
  <2>2. CASE newkeys /\ Transport!Etm
    <3>1. ~Transport!Full /\ ~Integrated /\ Transport!BlockSize \in {8, 16}
      BY <2>2, KeyedMethods
    <3> QED BY <2>2, <3>1 DEF Separate, Whole
  <2> QED BY <2>1, <2>2
<1>3. PICK t : t = Transport!Taken(r, n)
  OBVIOUS
<1>4. PICK pos \in Nat, data \in Nat : pos = r.at + n /\ data = r.data + n
  BY <1>1
<1>5. t = [r EXCEPT !.at = pos, !.data = data]
  BY <1>2, <1>3, <1>4 DEF Transport!Taken
<1>6. t \in Readers /\ t.at = pos /\ t.data = data /\ t.len = r.len /\ t.total = r.total /\ t.st = "ok"
  BY <1>1, <1>5 DEF Readers
<1>7. Working(t, f)
  <2>1. r.len = LengthOf(f) /\ r.total = Transport!TotalNum(r.len) /\ r.at = f.start + r.data + Apart
    BY DEF Working
  <2>2. t.at = f.start + t.data + Apart /\ t.data <= t.total
    BY <1>1, <1>4, <1>6, <2>1
  <2> QED BY <1>1, <1>2, <1>6, <2>1, <2>2 DEF Working
<1>8. r.at <= t.at /\ t.at <= r.at + n /\ (n = r.total - r.data => t.data = t.total)
      /\ (n >= Transport!BlockSize => t.data # r.data)
  BY <1>1, <1>2, <1>4, <1>6
<1> QED BY <1>3, <1>6, <1>7, <1>8 DEF Taking

(* The other ciphers decrypt d bytes of which it moves on. *)
LEMMA MovesOn ==
  ASSUME suite.remote \in Transport!Directions, newkeys, ~Transport!Full, ~Transport!Etm,
         NEW r \in Readers, r.st = "ok", NEW n \in Nat, NEW d \in Nat, d = Transport!NumDecrypt(r, n),
         NEW moved \in Nat, moved = IF Transport!LastOfPacket(r, n) THEN n ELSE d
  PROVE  LET t == Transport!Taken(r, n) IN
         /\ t \in Readers
         /\ \/ t = [r EXCEPT !.st = "error"] /\ ~Transport!Decrypts(d, Transport!LastOfPacket(r, n))
            \/ /\ t.at = r.at + moved /\ t.data = r.data + moved /\ t.dec = r.dec + d
               /\ t.len = r.len /\ t.total = r.total /\ t.st = "ok"
<1>1. r.data \in Nat /\ r.at \in Nat /\ r.dec \in Nat
  BY DEF Readers
<1>2. PICK pos \in Nat, data \in Nat, dec \in Nat : pos = r.at + moved /\ data = r.data + moved /\ dec = r.dec + d
  BY <1>1
<1>3. PICK t : t = Transport!Taken(r, n)
  OBVIOUS
<1>4. t = IF d < 0 \/ ~Transport!Decrypts(d, Transport!LastOfPacket(r, n)) THEN [r EXCEPT !.st = "error"]
          ELSE [r EXCEPT !.at = r.at + moved, !.data = r.data + moved, !.dec = r.dec + d]
  BY <1>3 DEF Transport!Taken
<1>5. ~(d < 0)
  OBVIOUS
<1>6. CASE ~Transport!Decrypts(d, Transport!LastOfPacket(r, n))
  <2>1. t = [r EXCEPT !.st = "error"]
    BY <1>4, <1>6
  <2>2. t \in Readers
    BY <2>1 DEF Readers
  <2> QED BY <1>3, <1>6, <2>1, <2>2
<1>7. CASE Transport!Decrypts(d, Transport!LastOfPacket(r, n))
  <2>1. t = [r EXCEPT !.at = pos, !.data = data, !.dec = dec]
    BY <1>2, <1>4, <1>5, <1>7
  <2>2. t \in Readers /\ t.at = pos /\ t.data = data /\ t.dec = dec /\ t.len = r.len /\ t.total = r.total /\ t.st = "ok"
    BY <2>1 DEF Readers
  <2> QED BY <1>2, <1>3, <2>2
<1> QED BY <1>6, <1>7

(* What the ciphers are called with, where both directions have ciphers that are alike. *)
LEMMA BlocksDecrypt ==
  ASSUME Transport!Alike, suite \in [local : Transport!Directions, remote : Transport!Directions], newkeys, ~Integrated,
         NEW d \in Nat, d % Transport!BlockSize = 0, NEW last
  PROVE  Transport!Decrypts(d, last)
<1>1. ~Transport!FlagR("aad")
  BY KeyedMethods
<1> QED BY <1>1 DEF Transport!Decrypts

(* And with an integrated MAC, if the last call has the tag and a block at most. *)
LEMMA TagDecrypts ==
  ASSUME Transport!Alike, suite \in [local : Transport!Directions, remote : Transport!Directions], newkeys, Integrated,
         NEW d \in Nat, NEW last,
         last => d = 16 \/ (d >= 20 /\ d % 16 = 4)
  PROVE  Transport!Decrypts(d, last)
<1>1. Transport!FlagR("aad") /\ Transport!BlockSize = 16
  BY KeyedMethods
<1>2. Transport!FlagL("aad")
  BY <1>1 DEF Transport!Alike, Transport!FlagL, Transport!FlagR
<1>3. ASSUME last
      PROVE  Transport!TagWhole(Transport!LastCall(d))
  <2>1. PICK cr : cr = Transport!LastCall(d)
    OBVIOUS
  <2>2. cr = IF d < 2 * 16 THEN d ELSE 16 + (d % 16)
    BY <1>1, <1>2, <2>1 DEF Transport!LastCall
  <2>3. cr \in 16..32
    BY <1>3, <2>2
  <2> QED BY <2>1, <2>3 DEF Transport!TagWhole
<1> QED BY <1>2, <1>3 DEF Transport!Decrypts

(* The last call of a cipher with an integrated MAC has all of the tag: of what is left
   as much is decrypted as leaves a block at least. *)
LEMMA TakesTagged ==
  ASSUME NEW f \in ServerFrames, suite \in [local : Transport!Directions, remote : Transport!Directions], newkeys, Integrated,
         NEW r \in Readers, Working(r, f), r.data < r.total, NEW n \in Nat, n <= r.total - r.data
  PROVE  Taking(r, f, n)
<1>1. /\ r.data \in Nat /\ r.total \in Nat /\ r.at \in Nat /\ r.len \in Nat /\ r.dec \in Nat
      /\ f.start \in Nat /\ r.st = "ok"
  BY DEF Readers, Working, ServerFrames
<1>2. ~Transport!Full /\ ~Transport!Etm /\ Transport!BlockSize = 16 /\ ~Whole /\ ~Separate /\ Apart = 5 /\ Transport!Skip = 0
  <2>1. ~Transport!Full /\ ~Transport!Etm /\ Transport!BlockSize = 16
    BY KeyedMethods
  <2> QED BY <2>1 DEF Whole, Separate, Apart, Transport!Skip, Integrated
<1>3. PICK rest \in Nat : rest = r.total - r.data
  BY <1>1
<1>4. /\ r.len = LengthOf(f) /\ r.total = Transport!TotalNum(r.len) /\ r.at = f.start + r.data + 5
      /\ r.dec = r.data + 5 /\ (rest = 16 \/ (rest >= 20 /\ rest % 16 = 4))
  BY <1>1, <1>2, <1>3 DEF Working
<1>5. r.total - Transport!Skip - r.data = rest /\ r.total - Transport!Skip = r.total
  BY <1>1, <1>2, <1>3
<1>6. Transport!LastOfPacket(r, n) <=> n = rest
  <2>1. Transport!LastOfPacket(r, n) <=> r.data + n >= r.total
    BY <1>5 DEF Transport!LastOfPacket
  <2> QED BY <1>1, <1>3, <2>1
<1>7. PICK last : last = Transport!LastOfPacket(r, n)
  OBVIOUS
<1>8. PICK m \in Nat : m = n - (n % 16)
  BY WholeBlocks
<1>9. m % 16 = 0 /\ m <= n /\ n - m \in 0..15 /\ (n >= 16 => m >= 16)
  <2>1. n % 16 \in 0..15
    BY WholeBlocks
  <2> QED BY <1>8, <2>1, WholeBlocks
<1>10. PICK d : d = Transport!NumDecrypt(r, n)
  OBVIOUS
<1>11. /\ n = rest => d = rest
       /\ n # rest => d = Transport!Least(m, rest - 16)
  <2>1. Transport!FlagR("integrated")
    BY DEF Integrated
  <2>2. n = rest => d = IF rest > 0 THEN rest ELSE 0
    BY <1>5, <1>6, <1>10 DEF Transport!NumDecrypt
  <2>3. n # rest => d = Transport!Least(m, rest - 16)
    BY <1>2, <1>5, <1>6, <1>8, <1>10, <2>1 DEF Transport!NumDecrypt
  <2> QED BY <1>4, <2>2, <2>3
<1>12. /\ d \in Nat /\ d <= n
       /\ n # rest => rest - d = 16 \/ (rest - d >= 20 /\ (rest - d) % 16 = 4)
       /\ n # rest /\ n >= 16 => d > 0
  <2>1. CASE n = rest
    BY <1>11, <2>1
  <2>2. CASE n # rest /\ rest = 16
    <3>1. n < 16 /\ m = 0 /\ rest - 16 = 0
      BY <1>3, <1>9, <2>2
    <3>2. d = 0
      BY <1>11, <2>2, <3>1 DEF Transport!Least
    <3> QED BY <2>2, <3>1, <3>2
  <2>3. CASE n # rest /\ rest >= 20 /\ rest % 16 = 4
    <3>1. PICK q \in Nat, k \in Nat : rest = 16 * q + 4 /\ m = 16 * k /\ q >= 1
      <4>1. PICK q \in Nat : rest = 16 * q + 4
        BY <2>3
      <4>2. PICK k \in Nat : m = 16 * k
        BY <1>9
      <4> QED BY <2>3, <4>1, <4>2
    <3>2. n < rest
      BY <1>3, <2>3
    <3>3. CASE k < q
      <4>1. d = m
        BY <1>11, <2>3, <3>1, <3>3 DEF Transport!Least
      <4>2. rest - d = 16 * (q - k) + 4
        BY <3>1, <4>1
      <4> QED BY <1>9, <3>1, <3>3, <4>1, <4>2
    <3>4. CASE k >= q
      <4>1. k = q
        BY <1>9, <3>1, <3>2, <3>4
      <4>2. m > rest - 16 /\ rest - 16 \in Nat
        BY <3>1, <4>1
      <4>3. d = rest - 16
        BY <1>11, <2>3, <4>2 DEF Transport!Least
      <4> QED BY <1>9, <2>3, <4>2, <4>3
    <3> QED BY <3>3, <3>4
  <2> QED BY <1>4, <2>1, <2>2, <2>3
<1>13. PICK moved \in Nat : moved = IF Transport!LastOfPacket(r, n) THEN n ELSE d
  BY <1>12
<1>14. moved = d
  BY <1>6, <1>11, <1>13
<1>15. PICK t : t = Transport!Taken(r, n)
  OBVIOUS
<1>16. /\ t \in Readers
       /\ \/ t = [r EXCEPT !.st = "error"] /\ ~Transport!Decrypts(d, Transport!LastOfPacket(r, n))
          \/ /\ t.at = r.at + d /\ t.data = r.data + d /\ t.dec = r.dec + d
             /\ t.len = r.len /\ t.total = r.total /\ t.st = "ok"
  BY <1>1, <1>2, <1>10, <1>12, <1>13, <1>14, <1>15, MovesOn
<1>17. CASE ~Transport!Decrypts(d, Transport!LastOfPacket(r, n)) /\ t = [r EXCEPT !.st = "error"]
  <2>1. ~Transport!Alike
    <3> SUFFICES ASSUME Transport!Alike
                 PROVE  FALSE
      OBVIOUS
    <3>1. Transport!Decrypts(d, last)
      BY <1>4, <1>6, <1>7, <1>11, <1>12, TagDecrypts
    <3> QED BY <1>7, <1>17, <3>1
  <2> QED BY <1>15, <1>16, <1>17, <2>1 DEF Taking
<1>18. CASE /\ t.at = r.at + d /\ t.data = r.data + d /\ t.dec = r.dec + d
            /\ t.len = r.len /\ t.total = r.total /\ t.st = "ok"
  <2>1. t.total - t.data = rest - d /\ t.data <= t.total
    BY <1>1, <1>3, <1>12, <1>18
  <2>2. t.at = f.start + t.data + Apart /\ t.dec = t.data + 5
    BY <1>1, <1>2, <1>4, <1>12, <1>18
  <2>3. t.total - t.data \in {0, 16} \/ (t.total - t.data >= 20 /\ (t.total - t.data) % 16 = 4)
    BY <1>11, <1>12, <2>1
  <2>4. Working(t, f)
    BY <1>2, <1>4, <1>18, <2>1, <2>2, <2>3 DEF Working
  <2>5. n = rest => t.data = t.total
    BY <1>1, <1>3, <1>11, <1>18
  <2>6. n >= 16 => t.data # r.data
    BY <1>1, <1>11, <1>12, <1>18
  <2>7. r.at <= t.at /\ t.at <= r.at + n
    BY <1>1, <1>12, <1>18
  <2> QED BY <1>2, <1>3, <1>15, <1>16, <2>4, <2>5, <2>6, <2>7 DEF Taking
<1> QED BY <1>16, <1>17, <1>18

(* With a MAC of its own behind, whole blocks are decrypted, and the MAC not at all. *)
LEMMA TakesBlocks ==
  ASSUME NEW f \in ServerFrames, Laid(f, suite.remote), f.enc = newkeys,
         suite \in [local : Transport!Directions, remote : Transport!Directions], newkeys, Separate,
         NEW r \in Readers, Working(r, f), r.data < r.total, NEW n \in Nat, n <= r.total - r.data
  PROVE  Taking(r, f, n)
<1>1. /\ r.data \in Nat /\ r.total \in Nat /\ r.at \in Nat /\ r.len \in Nat /\ r.dec \in Nat
      /\ f.start \in Nat /\ r.st = "ok"
  BY DEF Readers, Working, ServerFrames
<1>2. ~Transport!Full /\ ~Transport!Etm /\ ~Integrated /\ ~Whole /\ Apart = 5 /\ ~Transport!FlagR("integrated")
  BY DEF Whole, Separate, Apart, Integrated
<1>3. PICK bs, mac : bs = Transport!BlockSize /\ mac = Transport!RemoteMac.len
  OBVIOUS
<1>4. /\ r.len = LengthOf(f) /\ r.total = Transport!TotalNum(r.len) /\ r.at = f.start + r.data + 5
      /\ IF Rest(r) > 0 THEN r.dec = r.data + 5 /\ (r.data + 5) % bs = 0 ELSE r.dec = r.len + 4
  BY <1>2, <1>3 DEF Working
<1>5. mac \in Nat /\ bs \in {8, 16} /\ (4 + r.len) % bs = 0 /\ r.total = r.len - 1 + mac
  BY <1>2, <1>3, <1>4, FrameIs
<1>6. PICK rest \in Int : rest = Rest(r)
  BY <1>1, <1>3, <1>5 DEF Rest
<1>7. /\ rest = r.total - mac - r.data /\ rest = (r.len + 4) - (r.data + 5)
      /\ rest > 0 => (r.data + 5) % bs = 0 /\ rest % bs = 0
  <2>1. rest = r.total - mac - r.data /\ rest = (r.len + 4) - (r.data + 5)
    BY <1>1, <1>3, <1>5, <1>6 DEF Rest
  <2>2. ASSUME rest > 0
        PROVE  (r.data + 5) % bs = 0 /\ rest % bs = 0
    <3>1. (r.data + 5) % bs = 0
      BY <1>4, <1>6, <2>2
    <3>2. PICK x \in Nat, y \in Nat : x = 4 + r.len /\ y = r.data + 5
      BY <1>1
    <3>3. x >= y /\ rest = x - y /\ x % bs = 0 /\ y % bs = 0
      BY <1>1, <1>5, <2>1, <2>2, <3>1, <3>2
    <3> QED BY <1>5, <3>1, <3>3, BlocksAdd
  <2> QED BY <2>1, <2>2
<1>8. r.total - Transport!Skip - r.data = rest /\ r.total - Transport!Skip = r.len - 1
  <2>1. Transport!Skip = mac
    BY <1>2, <1>3 DEF Transport!Skip
  <2> QED BY <1>1, <1>5, <1>7, <2>1
<1>9. Transport!LastOfPacket(r, n) <=> n >= rest
  <2>1. Transport!LastOfPacket(r, n) <=> r.data + n >= r.len - 1
    BY <1>8 DEF Transport!LastOfPacket
  <2> QED BY <1>1, <1>7, <2>1
<1>10. PICK m \in Nat : m = n - (n % bs)
  BY <1>5, WholeBlocks
<1>11. m % bs = 0 /\ m <= n /\ (n >= bs => m >= bs)
  BY <1>5, <1>10, WholeBlocks
<1>12. PICK d : d = Transport!NumDecrypt(r, n)
  OBVIOUS
<1>13. /\ n >= rest => d = IF rest > 0 THEN rest ELSE 0
       /\ n < rest => d = m
  <2>1. n >= rest => d = IF rest > 0 THEN rest ELSE 0
    BY <1>8, <1>9, <1>12 DEF Transport!NumDecrypt
  <2>2. n < rest => d = m
    BY <1>2, <1>3, <1>8, <1>9, <1>10, <1>12 DEF Transport!NumDecrypt
  <2> QED BY <2>1, <2>2
<1>14. d \in Nat /\ d % bs = 0
  <2>1. 0 % bs = 0
    BY <1>5
  <2> QED BY <1>5, <1>7, <1>11, <1>13, <2>1
<1>15. PICK moved \in Nat : moved = IF Transport!LastOfPacket(r, n) THEN n ELSE d
  BY <1>14
<1>16. /\ n >= rest => moved = n
       /\ n < rest => moved = m
       /\ moved <= n /\ (n >= bs => moved >= bs)
  BY <1>5, <1>9, <1>11, <1>13, <1>15
<1>17. PICK t : t = Transport!Taken(r, n)
  OBVIOUS
<1>18. /\ t \in Readers
       /\ \/ t = [r EXCEPT !.st = "error"] /\ ~Transport!Decrypts(d, Transport!LastOfPacket(r, n))
          \/ /\ t.at = r.at + moved /\ t.data = r.data + moved /\ t.dec = r.dec + d
             /\ t.len = r.len /\ t.total = r.total /\ t.st = "ok"
  BY <1>1, <1>2, <1>12, <1>14, <1>15, <1>17, MovesOn
<1>19. CASE ~Transport!Decrypts(d, Transport!LastOfPacket(r, n)) /\ t = [r EXCEPT !.st = "error"]
  <2>1. ~Transport!Alike
    BY <1>2, <1>3, <1>14, <1>19, BlocksDecrypt
  <2> QED BY <1>17, <1>18, <1>19, <2>1 DEF Taking
<1>20. CASE /\ t.at = r.at + moved /\ t.data = r.data + moved /\ t.dec = r.dec + d
            /\ t.len = r.len /\ t.total = r.total /\ t.st = "ok"
  <2>1. t.data <= t.total /\ r.at <= t.at /\ t.at <= r.at + n /\ t.at = f.start + t.data + Apart
    BY <1>1, <1>2, <1>4, <1>16, <1>20
  <2>2. PICK left \in Int : left = Rest(t)
    BY <1>1, <1>3, <1>5, <1>20 DEF Rest
  <2>3. left = rest - moved
    BY <1>1, <1>3, <1>5, <1>7, <1>20, <2>2 DEF Rest
  <2>4. IF left > 0 THEN t.dec = t.data + 5 /\ (t.data + 5) % bs = 0 ELSE t.dec = t.len + 4
    <3>1. CASE n < rest
      <4>1. left > 0 /\ rest > 0 /\ d = m /\ moved = m
        BY <1>7, <1>13, <1>16, <2>3, <3>1
      <4>2. r.dec = r.data + 5 /\ (r.data + 5) % bs = 0
        BY <1>4, <1>6, <4>1
      <4>3. t.dec = t.data + 5 /\ t.data + 5 = (r.data + 5) + m
        BY <1>1, <1>20, <4>1, <4>2
      <4>4. ((r.data + 5) + m) % bs = 0
        <5>1. PICK x \in Nat : x = r.data + 5
          BY <1>1
        <5> QED BY <1>5, <1>11, <4>2, <5>1, BlocksAdd
      <4> QED BY <4>1, <4>3, <4>4
    <3>2. CASE n >= rest /\ rest > 0
      <4>1. ~(left > 0) /\ d = rest
        BY <1>13, <1>16, <2>3, <3>2
      <4>2. r.dec = r.data + 5
        BY <1>4, <1>6, <3>2
      <4>3. t.dec = t.len + 4
        BY <1>1, <1>7, <1>20, <4>1, <4>2
      <4> QED BY <4>1, <4>3
    <3>3. CASE n >= rest /\ ~(rest > 0)
      <4>1. ~(left > 0) /\ d = 0
        BY <1>13, <1>16, <2>3, <3>3
      <4>2. r.dec = r.len + 4
        BY <1>4, <1>6, <3>3
      <4>3. t.dec = t.len + 4
        BY <1>1, <1>20, <4>1, <4>2
      <4> QED BY <4>1, <4>3
    <3>4. n < rest \/ (n >= rest /\ rest > 0) \/ (n >= rest /\ ~(rest > 0))
      OBVIOUS
    <3> QED BY <3>1, <3>2, <3>3, <3>4
  <2>5. Working(t, f)
    BY <1>2, <1>3, <1>4, <1>20, <2>1, <2>2, <2>4 DEF Working
  <2>6. n = r.total - r.data => t.data = t.total
    <3>1. n = r.total - r.data => n >= rest
      BY <1>1, <1>5, <1>7
    <3> QED BY <1>1, <1>16, <1>20, <3>1
  <2>7. n >= Transport!BlockSize => t.data # r.data
    BY <1>1, <1>3, <1>5, <1>16, <1>20
  <2> QED BY <1>17, <1>18, <2>1, <2>5, <2>6, <2>7 DEF Taking
<1> QED BY <1>18, <1>19, <1>20

(* So whatever the cipher, a round takes its bytes. *)
LEMMA TakesSome ==
  ASSUME NEW f \in ServerFrames, Laid(f, suite.remote), f.enc = newkeys,
         suite \in [local : Transport!Directions, remote : Transport!Directions], newkeys \in BOOLEAN,
         NEW r \in Readers, Working(r, f), r.data < r.total, NEW n \in Nat, n <= r.total - r.data
  PROVE  Taking(r, f, n)
<1>1. suite.remote \in Transport!Directions
  OBVIOUS
<1>2. CASE newkeys /\ Transport!Full
  BY <1>1, <1>2, TakesWhole
<1>3. CASE ~newkeys \/ Transport!Etm
  BY <1>1, <1>3, TakesBytes
<1>4. CASE newkeys /\ Integrated
  BY <1>4, TakesTagged
<1>5. CASE newkeys /\ ~Transport!Full /\ ~Transport!Etm /\ ~Integrated
  <2>1. Separate
    BY <1>5 DEF Separate, Whole
  <2> QED BY <1>5, <2>1, TakesBlocks
<1> QED BY <1>2, <1>3, <1>4, <1>5

-----------------------------------------------------------------------------
(* The invariant of the receiving side: the packets delivered are the first of the
   stream, the keys are in use that they put in use, and the reader stands before the
   next one or is in it, and then has not received all of it. *)
Handed == [payload : Int, newkeys : BOOLEAN]
Now == stream[Len(delivered) + 1]
AtPacket(r, end) ==
  \/ r.total = 0 /\ r.data = 0 /\ r.dec = 0 /\ r.at = Begins(Len(delivered))
  \/ /\ Len(delivered) < Len(stream) /\ Working(r, Now) /\ r.data < r.total
     /\ end < Begins(Len(delivered) + 1)
StreamOk ==
  /\ suite \in [local : Transport!Directions, remote : Transport!Directions] /\ newkeys \in BOOLEAN
  /\ stream \in StreamsOf(suite.remote) /\ delivered \in Seq(Handed) /\ Len(delivered) <= Len(stream)
  /\ newkeys <=> \E j \in 1..Len(delivered) : stream[j].newkeys
  /\ \A i \in 1..Len(delivered) :
       delivered[i] = [payload |-> stream[i].payload, newkeys |-> stream[i].newkeys]
ReaderOk ==
  /\ received \in Nat /\ received <= Transport!EndOf(stream) /\ packet \in Readers
  /\ packet.at <= received /\ received - packet.at <= BufSize /\ packet.data <= packet.total
  /\ packet.st = "ok" => AtPacket(packet, received)
  /\ Transport!Alike /\ Transport!Fits => packet.st = "ok"

(* The packet the reader is at. *)
LEMMA NowIs ==
  ASSUME StreamOk
  PROVE  /\ suite.remote \in Transport!Directions /\ suite.local \in Transport!Directions
         /\ Len(delivered) \in Nat /\ Len(stream) \in Nat
         /\ Begins(Len(delivered)) \in Nat /\ Begins(Len(delivered)) <= Transport!EndOf(stream)
         /\ Transport!EndOf(stream) \in Nat
         /\ Len(delivered) = Len(stream) => Begins(Len(delivered)) = Transport!EndOf(stream)
         /\ Len(delivered) < Len(stream) =>
              /\ Now \in ServerFrames /\ Laid(Now, suite.remote) /\ Now.enc = newkeys
              /\ Now.start = Begins(Len(delivered)) /\ Now.total \in Nat
              /\ Begins(Len(delivered) + 1) = Begins(Len(delivered)) + Now.total
              /\ Begins(Len(delivered) + 1) <= Transport!EndOf(stream)
              /\ Transport!Fits => Now.total <= BufSize
              /\ \A r : r.at = Begins(Len(delivered)) => Transport!Length(r) = LengthOf(Now)
<1>1. suite.remote \in Transport!Directions /\ suite.local \in Transport!Directions /\ stream \in StreamsOf(suite.remote)
      /\ newkeys \in BOOLEAN /\ (newkeys <=> \E j \in 1..Len(delivered) : stream[j].newkeys)
  BY DEF StreamOk
<1>2. PICK k \in Nat : k = Len(delivered)
  BY DEF StreamOk
<1>3. stream \in Seq(ServerFrames) /\ Len(stream) \in Nat /\ DOMAIN stream = 1..Len(stream)
  BY <1>1 DEF StreamsOf
<1>4. k <= Len(stream) /\ k \in 0..Len(stream) /\ Transport!EndOf(stream) \in Nat
  BY <1>1, <1>2, <1>3, EndIs DEF StreamOk
<1>5. ASSUME k < Len(stream)
      PROVE  /\ Now \in ServerFrames /\ Laid(Now, suite.remote) /\ Now.enc = newkeys
             /\ Now.start = Begins(k) /\ Now.total \in Nat
             /\ Begins(k + 1) = Begins(k) + Now.total /\ Begins(k + 1) <= Transport!EndOf(stream)
             /\ Transport!Fits => Now.total <= BufSize
             /\ \A r : r.at = Begins(k) => Transport!Length(r) = LengthOf(Now)
  <2>1. Now = stream[k + 1]
    BY <1>2 DEF Now
  <2>2. k + 1 \in DOMAIN stream
    BY <1>3, <1>5
  <2>3. Now \in ServerFrames /\ (Now.enc <=> \E j \in 1..k : stream[j].newkeys)
    BY <1>1, <1>4, <1>5, <2>1, BeginsAt
  <2>4. Now.enc = newkeys /\ Now.total \in Nat
    BY <1>1, <1>2, <2>3 DEF ServerFrames
  <2> QED BY <1>1, <1>4, <1>5, <2>1, <2>2, <2>4, BeginsAt DEF Transport!Fits
<1> QED BY <1>1, <1>2, <1>3, <1>4, <1>5, BeginsAt

(* The smaller of two numbers. *)
LEMMA LeastIs ==
  ASSUME NEW a \in Nat, NEW b \in Nat
  PROVE  Transport!Least(a, b) \in Nat /\ Transport!Least(a, b) <= a /\ Transport!Least(a, b) <= b /\ (Transport!Least(a, b) = a \/ Transport!Least(a, b) = b)
BY DEF Transport!Least

(* A round: it fails only where the ciphers are not alike or the packet is too long, and
   else leaves the reader before its packet, in it, or behind it. *)
Goes(end) ==
  LET r == Transport!Round(end) IN
  /\ r \in Readers /\ packet.at <= r.at /\ r.at <= end /\ r.data <= r.total
  /\ \/ r.st = "error" /\ ~(Transport!Alike /\ Transport!Fits)
     \/ r.st = "ok" /\ AtPacket(r, end)
     \/ Len(delivered) < Len(stream) /\ Working(r, Now) /\ r.data = r.total /\ r.total > 0
  /\ end = received /\ ~Transport!Needs => r # packet

(* The part of a round that works on the packet, whose length is known. *)
LEMMA WorksOn ==
  ASSUME StreamOk, Len(delivered) < Len(stream), NEW o \in Readers, Working(o, Now), o.data < o.total,
         NEW end \in Nat, o.at <= end
  PROVE  LET t == Transport!Taken(o, Transport!Least(end - o.at, o.total - o.data)) IN
         /\ t \in Readers /\ o.at <= t.at /\ t.at <= end /\ t.data <= t.total /\ t.total > 0
         /\ \/ t.st = "error" /\ ~Transport!Alike
            \/ Working(t, Now) /\ (t.data < t.total => end < Begins(Len(delivered) + 1))
         /\ end - o.at >= Transport!BlockSize /\ (newkeys /\ Transport!Full => end - o.at >= o.total - o.data) => t # o
<1>1. /\ o.at \in Nat /\ o.data \in Nat /\ o.total \in Nat /\ o.st = "ok" /\ o.len \in Nat
      /\ o.total = Transport!TotalNum(o.len) /\ o.at = Now.start + o.data + Apart /\ o.len = LengthOf(Now)
  BY DEF Readers, Working
<1>2. /\ Now \in ServerFrames /\ Laid(Now, suite.remote) /\ Now.enc = newkeys
      /\ suite \in [local : Transport!Directions, remote : Transport!Directions] /\ newkeys \in BOOLEAN
      /\ Now.start \in Nat /\ Now.total \in Nat
      /\ Begins(Len(delivered) + 1) = Now.start + Now.total
  <2>1. suite \in [local : Transport!Directions, remote : Transport!Directions] /\ newkeys \in BOOLEAN
    BY DEF StreamOk
  <2> QED BY <2>1, NowIs DEF ServerFrames
<1>3. Now.total = Transport!TotalNum(o.len) + Apart /\ o.total > 0 /\ Apart \in Nat /\ Transport!BlockSize \in Nat
  <2>1. Now.total = Transport!TotalNum(o.len) + Apart /\ Transport!TotalNum(o.len) > 0
    BY <1>1, <1>2, FrameIs
  <2>2. Transport!BlockSize \in Nat /\ suite.remote \in Transport!Directions
    BY <1>2, CryptTypes DEF Transport!BlockSize
  <2> QED BY <1>1, <2>1, <2>2 DEF Apart
<1>4. PICK a \in Nat, b \in Nat : a = end - o.at /\ b = o.total - o.data
  <2>1. PICK pos \in Nat, total \in Nat, data \in Nat : pos = o.at /\ total = o.total /\ data = o.data
    BY <1>1
  <2>2. end - pos \in Nat /\ total - data \in Nat
    BY <1>1, <2>1
  <2> QED BY <2>1, <2>2
<1>5. PICK n \in Nat : n = Transport!Least(a, b) /\ n <= a /\ n <= b /\ (n = a \/ n = b)
  BY LeastIs
<1>6. PICK t : t = Transport!Taken(o, n)
  OBVIOUS
<1>7. Taking(o, Now, n)
  BY <1>2, <1>4, <1>5, TakesSome
<1>8. t \in Readers /\ t.at \in Nat /\ t.data \in Nat /\ t.total \in Nat
  BY <1>6, <1>7 DEF Taking, Readers
<1>9. CASE t = [o EXCEPT !.st = "error"] /\ ~Transport!Alike
  <2>1. t.at = o.at /\ t.data = o.data /\ t.total = o.total /\ t.st = "error" /\ t # o
    BY <1>1, <1>9 DEF Readers
  <2>2. o.at <= t.at /\ t.at <= end /\ t.data <= t.total /\ t.total > 0
    BY <1>1, <2>1
  <2>3. Transport!Taken(o, Transport!Least(end - o.at, o.total - o.data)) = t
    BY <1>4, <1>5, <1>6
  <2> QED BY <1>8, <1>9, <2>1, <2>2, <2>3
<1>10. CASE /\ Working(t, Now) /\ o.at <= t.at /\ t.at <= o.at + n
            /\ n = o.total - o.data => t.data = t.total
            /\ n >= Transport!BlockSize /\ ~(newkeys /\ Transport!Full) => t.data # o.data
  <2>1. t.total = o.total /\ t.data <= t.total
    BY <1>1, <1>10 DEF Working
  <2>2. t.at <= end
    <3>1. PICK pos \in Nat, to \in Nat : pos = o.at /\ to = t.at
      BY <1>1, <1>8
    <3>2. a = end - pos /\ n <= a /\ to <= pos + n
      BY <1>4, <1>5, <1>10, <3>1
    <3> QED BY <3>1, <3>2
  <2>3. ASSUME t.data < t.total
        PROVE  end < Begins(Len(delivered) + 1)
    <3>1. n # b
      BY <1>4, <1>8, <1>10, <2>3
    <3>2. a < b
      BY <1>4, <1>5, <3>1
    <3>3. PICK s \in Nat, total \in Nat, extra \in Nat :
            s = Now.start /\ total = Now.total /\ extra = Apart
      BY <1>2, <1>3
    <3>4. o.at = s + o.data + extra /\ total = o.total + extra
      BY <1>1, <1>3, <3>3
    <3>5. end < s + total
      <4>1. PICK pos \in Nat, data \in Nat, all \in Nat : pos = o.at /\ data = o.data /\ all = o.total
        BY <1>1
      <4>2. /\ a = end - pos /\ b = all - data /\ a < b
            /\ pos = s + data + extra /\ total = all + extra
        BY <1>4, <3>2, <3>4, <4>1
      <4> QED BY <4>2
    <3> QED BY <1>2, <3>3, <3>5
  <2>4. ASSUME a >= Transport!BlockSize, newkeys /\ Transport!Full => a >= b
        PROVE  t # o
    <3>1. CASE n = b
      BY <1>1, <1>4, <1>10, <2>1, <3>1
    <3>2. CASE n = a /\ n # b
      <4>1. ~(newkeys /\ Transport!Full)
        BY <1>5, <2>4, <3>2
      <4> QED BY <1>3, <1>10, <2>4, <3>2, <4>1
    <3> QED BY <1>5, <3>1, <3>2
  <2> QED BY <1>1, <1>3, <1>4, <1>5, <1>6, <1>8, <1>10, <2>1, <2>2, <2>3, <2>4
<1> QED BY <1>6, <1>7, <1>9, <1>10 DEF Taking

(* A round. *)
LEMMA RoundIs ==
  ASSUME StreamOk, ReaderOk, packet.st = "ok", NEW end \in Nat, received <= end, end <= Transport!EndOf(stream)
  PROVE  Goes(end)
<1>1. /\ packet \in Readers /\ packet.at \in Nat /\ packet.total \in Nat /\ packet.data \in Nat /\ received \in Nat
      /\ packet.at <= received /\ packet.data <= packet.total /\ AtPacket(packet, received)
  BY DEF ReaderOk, Readers
<1>2. /\ suite.remote \in Transport!Directions /\ newkeys \in BOOLEAN
      /\ BufSize \in Nat /\ MaxPayload \in Nat /\ BufSize <= MaxPayload
      /\ Len(delivered) \in Nat /\ Len(stream) \in Nat /\ Len(delivered) <= Len(stream)
      /\ Transport!EndOf(stream) \in Nat
  BY NowIs, BufferAssumption DEF StreamOk, Transport!BufferAssumption
<1>3. Transport!BlockSize \in {5, 8, 16}
  BY <1>2, CryptTypes DEF Transport!BlockSize
<1>4. PICK min \in Nat : min = (IF Transport!Etm THEN 4 ELSE Transport!BlockSize) /\ min <= Transport!BlockSize /\ min > 0 /\ (~Transport!Etm => min = Transport!BlockSize)
  BY <1>3
<1>5. PICK r : r = Transport!Round(end)
  OBVIOUS
<1>6. ~Transport!Needs => received - packet.at >= Transport!BlockSize /\ (Transport!Full => packet.total <= received - packet.at)
  BY <1>1, <1>3 DEF Transport!Needs
<1>7. PICK o : o = IF packet.total # 0 \/ end - packet.at < (IF Transport!Etm THEN 4 ELSE Transport!BlockSize) THEN packet ELSE Transport!Opened(packet)
  OBVIOUS
<1>8. r = IF o.total = 0 \/ o.st = "error" THEN o
          ELSE Transport!Taken(o, Transport!Least(end - o.at, o.total - o.data))
  BY <1>5, <1>7 DEF Transport!Round
<1>9. CASE packet.total = 0 /\ end - packet.at < min
  <2>1. o = packet /\ r = packet
    BY <1>4, <1>7, <1>8, <1>9
  <2>2. AtPacket(packet, end)
    BY <1>1, <1>9 DEF AtPacket
  <2>3. end = received => Transport!Needs
    BY <1>1, <1>3, <1>4, <1>6, <1>9
  <2> QED BY <1>1, <1>5, <2>1, <2>2, <2>3 DEF Goes
<1>10. CASE packet.total = 0 /\ ~(end - packet.at < min)
  <2>1. o = Transport!Opened(packet)
    BY <1>4, <1>7, <1>10
  <2>2. packet.data = 0 /\ packet.dec = 0 /\ packet.at = Begins(Len(delivered))
    BY <1>1, <1>10 DEF AtPacket
  <2>3. Len(delivered) < Len(stream)
    <3> SUFFICES ASSUME Len(delivered) = Len(stream)
                 PROVE  FALSE
      BY <1>2
    <3>1. packet.at = Transport!EndOf(stream)
      BY <2>2, NowIs
    <3> QED BY <1>1, <1>2, <1>4, <1>10, <3>1
  <2>4. /\ Now \in ServerFrames /\ Laid(Now, suite.remote) /\ Now.enc = newkeys /\ packet.at = Now.start
        /\ Transport!Length(packet) = LengthOf(Now) /\ Now.total \in Nat /\ (Transport!Fits => Now.total <= BufSize)
    BY <2>2, <2>3, NowIs
  <2>5. PICK total \in Nat : total = Transport!TotalNum(LengthOf(Now)) /\ total <= Now.total
    <3>1. Transport!TotalNum(LengthOf(Now)) \in Nat /\ Now.total = Transport!TotalNum(LengthOf(Now)) + Apart
      BY <1>2, <2>4, FrameIs
    <3> QED BY <3>1 DEF Apart
  <2>6. /\ o \in Readers
        /\ \/ total > MaxPayload /\ o = [packet EXCEPT !.st = "error"]
           \/ /\ Working(o, Now) /\ o.data < o.total
              /\ o.at = packet.at + IF Whole THEN 0 ELSE Transport!BlockSize
    BY <1>1, <1>2, <1>10, <2>1, <2>2, <2>4, <2>5, OpenedIs
  <2>7. CASE total > MaxPayload /\ o = [packet EXCEPT !.st = "error"]
    <3>1. ~Transport!Fits
      BY <1>2, <2>4, <2>5, <2>7
    <3>2. r = o /\ o.st = "error" /\ o.at = packet.at /\ o.data = packet.data /\ o.total = packet.total
      BY <1>1, <1>8, <1>10, <2>7 DEF Readers
    <3>3. r # packet
      BY <3>2
    <3>4. packet.at <= end
      BY <1>1
    <3> QED BY <1>1, <1>5, <2>6, <3>1, <3>2, <3>3, <3>4 DEF Goes
  <2>8. CASE /\ Working(o, Now) /\ o.data < o.total
             /\ o.at = packet.at + IF Whole THEN 0 ELSE Transport!BlockSize
    <3>1. o.at \in Nat /\ o.total \in Nat /\ o.data \in Nat /\ o.st = "ok" /\ o.total # 0
      BY <2>6, <2>8 DEF Readers, Working
    <3>2. packet.at <= o.at /\ o.at <= end
      <4>1. CASE Whole
        BY <1>1, <2>8, <3>1, <4>1
      <4>2. CASE ~Whole
        <5>1. ~Transport!Etm
          BY <4>2 DEF Whole
        <5>2. end - packet.at >= Transport!BlockSize
          BY <1>1, <1>3, <1>4, <1>10, <5>1
        <5> QED BY <1>1, <1>3, <2>8, <4>2, <5>2
      <4> QED BY <4>1, <4>2
    <3>3. r = Transport!Taken(o, Transport!Least(end - o.at, o.total - o.data))
      BY <1>8, <3>1
    <3>4. /\ r \in Readers /\ o.at <= r.at /\ r.at <= end /\ r.data <= r.total /\ r.total > 0
          /\ \/ r.st = "error" /\ ~Transport!Alike
             \/ Working(r, Now) /\ (r.data < r.total => end < Begins(Len(delivered) + 1))
      BY <2>3, <2>6, <2>8, <3>2, <3>3, WorksOn
    <3>5. r # packet
      BY <1>10, <3>4
    <3>6. packet.at <= r.at /\ r.data \in Nat /\ r.total \in Nat
      BY <1>1, <3>1, <3>2, <3>4 DEF Readers
    <3>7. Working(r, Now) => r.st = "ok"
      BY DEF Working
    <3>8. r.data < r.total \/ r.data = r.total
      BY <3>4, <3>6
    <3> QED BY <1>5, <2>3, <3>4, <3>5, <3>6, <3>7, <3>8 DEF Goes, AtPacket
  <2> QED BY <2>6, <2>7, <2>8
<1>11. CASE packet.total # 0
  <2>1. o = packet /\ Working(packet, Now) /\ packet.data < packet.total /\ Len(delivered) < Len(stream)
    BY <1>1, <1>7, <1>11 DEF AtPacket
  <2>2. r = Transport!Taken(packet, Transport!Least(end - packet.at, packet.total - packet.data))
    BY <1>8, <1>11, <2>1
  <2>3. packet.at <= end
    BY <1>1
  <2>4. /\ r \in Readers /\ packet.at <= r.at /\ r.at <= end /\ r.data <= r.total /\ r.total > 0
        /\ \/ r.st = "error" /\ ~Transport!Alike
           \/ Working(r, Now) /\ (r.data < r.total => end < Begins(Len(delivered) + 1))
        /\ end - packet.at >= Transport!BlockSize /\ (newkeys /\ Transport!Full => end - packet.at >= packet.total - packet.data) => r # packet
    BY <1>1, <2>1, <2>2, <2>3, WorksOn
  <2>5. end = received /\ ~Transport!Needs => r # packet
    <3> SUFFICES ASSUME end = received, ~Transport!Needs
                 PROVE  r # packet
      OBVIOUS
    <3>1. newkeys /\ Transport!Full => packet.data = 0
      BY <1>1, <2>1 DEF Working
    <3>2. end - packet.at >= Transport!BlockSize /\ (newkeys /\ Transport!Full => end - packet.at >= packet.total - packet.data)
      BY <1>1, <1>6, <3>1
    <3> QED BY <2>4, <3>2
  <2>6. r.data \in Nat /\ r.total \in Nat
    BY <2>4 DEF Readers
  <2>7. Working(r, Now) => r.st = "ok"
    BY DEF Working
  <2>8. r.data < r.total \/ r.data = r.total
    BY <2>4, <2>6
  <2> QED BY <1>5, <2>1, <2>4, <2>5, <2>6, <2>7, <2>8 DEF Goes, AtPacket
<1> QED BY <1>9, <1>10, <1>11

(* The packet that is taken whole is handed on as the server made it, and the reader is
   before the next. *)
LEMMA FullPacketIs ==
  ASSUME StreamOk, Len(delivered) < Len(stream), NEW r \in Readers, Working(r, Now), r.data = r.total
  PROVE  /\ Transport!FullPacket(r) = [payload |-> Now.payload, newkeys |-> Now.newkeys]
         /\ Transport!FullPacket(r) \in Handed /\ r.at = Begins(Len(delivered) + 1)
<1>1. /\ r.at \in Nat /\ r.data \in Nat /\ r.total \in Nat /\ r.len \in Nat /\ r.dec \in Nat
      /\ r.total = Transport!TotalNum(r.len) /\ r.at = Now.start + r.data + Apart /\ r.len = LengthOf(Now)
  BY DEF Readers, Working
<1>2. /\ Now \in ServerFrames /\ Laid(Now, suite.remote) /\ Now.enc = newkeys
      /\ suite.remote \in Transport!Directions /\ newkeys \in BOOLEAN
      /\ Now.start \in Nat /\ Now.total \in Nat /\ Now.payload \in Nat /\ Now.pad \in Nat
      /\ Now.newkeys \in BOOLEAN
      /\ Begins(Len(delivered) + 1) = Now.start + Now.total
  <2>1. newkeys \in BOOLEAN
    BY DEF StreamOk
  <2> QED BY <2>1, NowIs DEF ServerFrames
<1>3. /\ Now.total = r.total + Apart /\ Apart \in Nat
      /\ Separate => Transport!RemoteMac.len \in Nat /\ r.total = r.len - 1 + Transport!RemoteMac.len
      /\ Integrated => r.total = r.len + 15
      /\ r.len = 1 + Now.payload + Now.pad
  BY <1>1, <1>2, FrameIs DEF Apart, Separate, LengthOf
<1>4. r.at = Begins(Len(delivered) + 1)
  BY <1>1, <1>2, <1>3
<1>5. ~newkeys \/ Transport!Etm \/ r.dec = r.len + (IF Transport!Full THEN 0 ELSE 4 + (IF Transport!FlagR("integrated") THEN 16 ELSE 0))
  <2>1. CASE newkeys /\ Transport!Full
    <3>1. r.dec = r.len
      BY <2>1 DEF Working
    <3> QED BY <1>1, <2>1, <3>1
  <2>2. CASE newkeys /\ ~Transport!Full /\ Integrated
    <3>1. r.dec = r.data + 5
      BY <2>2 DEF Working
    <3>2. Transport!FlagR("integrated")
      BY <2>2 DEF Integrated
    <3> QED BY <1>1, <1>3, <2>2, <3>1, <3>2
  <2>3. CASE newkeys /\ ~Transport!Full /\ ~Transport!Etm /\ ~Integrated
    <3>1. Separate /\ ~Transport!FlagR("integrated")
      BY <2>3 DEF Separate, Whole, Integrated
    <3>2. Rest(r) = 0 - Transport!RemoteMac.len
      BY <1>1, <1>3, <3>1 DEF Rest
    <3>3. ~(Rest(r) > 0)
      BY <1>3, <3>1, <3>2
    <3>4. r.dec = r.len + 4
      BY <3>1, <3>3 DEF Working
    <3> QED BY <1>1, <2>3, <3>1, <3>4
  <2> QED BY <2>1, <2>2, <2>3
<1>6. Transport!FullPacket(r) = [payload |-> r.len - 1 - Now.pad, newkeys |-> Now.newkeys]
  BY <1>5 DEF Transport!FullPacket, Now
<1>7. r.len - 1 - Now.pad = Now.payload
  <2>1. PICK payload \in Nat, pad \in Nat : payload = Now.payload /\ pad = Now.pad
    BY <1>2
  <2>2. r.len = 1 + payload + pad
    BY <1>3, <2>1
  <2>3. (1 + payload + pad) - 1 - pad = payload
    BY <2>1
  <2> QED BY <2>1, <2>2, <2>3
<1> QED BY <1>2, <1>4, <1>6, <1>7 DEF Handed

(* What the reader is called with, the keys and the stream being the same. *)
LEMMA SameMethods ==
  ASSUME UNCHANGED <<suite, newkeys>>
  PROVE  /\ Transport!Full' <=> Transport!Full
         /\ Transport!RemoteMac' = Transport!RemoteMac
         /\ Transport!Etm' <=> Transport!Etm
         /\ Whole' <=> Whole
         /\ Integrated' <=> Integrated
         /\ Separate' <=> Separate
         /\ Transport!BlockSize' = Transport!BlockSize /\ Apart' = Apart
         /\ Transport!Alike' <=> Transport!Alike
<1>1. suite' = suite /\ newkeys' = newkeys
  OBVIOUS
<1>2. Transport!Full' <=> Transport!Full
  BY <1>1 DEF Transport!Full, Transport!FlagR
<1>3. Transport!RemoteMac' = Transport!RemoteMac
  BY <1>1, <1>2 DEF Transport!RemoteMac
<1>4. Transport!Etm' <=> Transport!Etm
  BY <1>1, <1>3 DEF Transport!Etm
<1>5. Whole' <=> Whole
  BY <1>1, <1>2, <1>4 DEF Whole
<1>6. Integrated' <=> Integrated
  BY <1>1 DEF Integrated, Transport!FlagR
<1>7. Transport!BlockSize' = Transport!BlockSize
  BY <1>1 DEF Transport!BlockSize
<1>8. Transport!Alike' <=> Transport!Alike
  BY <1>1 DEF Transport!Alike
<1> QED BY <1>1, <1>2, <1>3, <1>4, <1>5, <1>6, <1>7, <1>8 DEF Separate, Apart

(* The reader is then where it was. *)
LEMMA SamePlace ==
  ASSUME UNCHANGED <<suite, newkeys, stream, delivered>>, NEW r, NEW end,
         packet' = r, received' = end, AtPacket(r, end)
  PROVE  AtPacket(packet, received)'
<1>1. suite' = suite /\ newkeys' = newkeys /\ stream' = stream /\ delivered' = delivered
  OBVIOUS
<1>2. /\ Transport!Full' <=> Transport!Full
      /\ Transport!RemoteMac' = Transport!RemoteMac
      /\ Transport!Etm' <=> Transport!Etm
      /\ Whole' <=> Whole
      /\ Integrated' <=> Integrated
      /\ Separate' <=> Separate
      /\ Transport!BlockSize' = Transport!BlockSize /\ Apart' = Apart
  BY SameMethods
<1>3. CASE r.total = 0 /\ r.data = 0 /\ r.dec = 0 /\ r.at = Begins(Len(delivered))
  BY <1>1, <1>3 DEF AtPacket, Begins
<1>4. CASE /\ Len(delivered) < Len(stream) /\ Working(r, Now) /\ r.data < r.total
           /\ end < Begins(Len(delivered) + 1)
  <2>1. Transport!TotalNum(packet.len)' = Transport!TotalNum(r.len)
    BY <1>1, <1>2 DEF Transport!TotalNum
  <2>2. Rest(packet)' = Rest(r)
    BY <1>2 DEF Rest
  <2>3. Working(packet, Now)'
    BY <1>1, <1>2, <1>4, <2>1, <2>2 DEF Working, Now, LengthOf
  <2>4. Begins(Len(delivered) + 1)' = Begins(Len(delivered) + 1)
    BY <1>1 DEF Begins
  <2> QED BY <1>1, <1>4, <2>3, <2>4 DEF AtPacket
<1> QED BY <1>3, <1>4 DEF AtPacket

(* What may be received: no more than the server sends and the buffer has room for. *)
LEMMA AmountsAre ==
  ASSUME StreamOk, ReaderOk, NEW n \in Transport!Amounts
  PROVE  n \in Nat /\ received + n <= Transport!EndOf(stream) /\ received + n - packet.at <= BufSize
<1>1. /\ packet.at \in Nat /\ received \in Nat /\ packet.at <= received /\ received - packet.at <= BufSize
      /\ received <= Transport!EndOf(stream) /\ Transport!EndOf(stream) \in Nat /\ BufSize \in Nat
  BY NowIs, BufferAssumption DEF ReaderOk, Readers, Transport!BufferAssumption
<1>2. PICK a \in Nat, b \in Nat : a = Transport!EndOf(stream) - received /\ b = BufSize - (received - packet.at)
  BY <1>1
<1>3. PICK most \in Nat : most = Transport!Least(a, b) /\ most <= a /\ most <= b
  BY LeastIs
<1>4. n \in 0..most
  BY <1>2, <1>3 DEF Transport!Amounts
<1> QED BY <1>1, <1>2, <1>3, <1>4

(* A packet that is finished is handed on. *)
LEMMA FinishedKeeps ==
  ASSUME StreamOk, ReaderOk, Len(delivered) < Len(stream),
         NEW r \in Readers, Working(r, Now), r.data = r.total, packet.at <= r.at,
         NEW end \in Nat, r.at <= end, end <= Transport!EndOf(stream), end - packet.at <= BufSize,
         received' = end, Transport!Finished(r), UNCHANGED <<suite, stream>>
  PROVE  StreamOk' /\ ReaderOk'
<1>1. /\ delivered' = Append(delivered, Transport!FullPacket(r)) /\ packet' = Transport!Reader(r.at)
      /\ newkeys' = (newkeys \/ Now.newkeys) /\ suite' = suite /\ stream' = stream
  BY DEF Transport!Finished, Now
<1>2. PICK g \in Handed : g = [payload |-> Now.payload, newkeys |-> Now.newkeys] /\ g = Transport!FullPacket(r)
  BY FullPacketIs
<1>3. r.at = Begins(Len(delivered) + 1) /\ r.at \in Nat
  BY FullPacketIs DEF Readers
<1>4. /\ suite \in [local : Transport!Directions, remote : Transport!Directions] /\ newkeys \in BOOLEAN
      /\ stream \in StreamsOf(suite.remote) /\ delivered \in Seq(Handed)
      /\ newkeys <=> \E j \in 1..Len(delivered) : stream[j].newkeys
      /\ \A i \in 1..Len(delivered) :
           delivered[i] = [payload |-> stream[i].payload, newkeys |-> stream[i].newkeys]
  BY DEF StreamOk
<1>5. PICK k \in Nat : k = Len(delivered)
  BY <1>4
<1>6. Len(stream) \in Nat /\ k + 1 <= Len(stream) /\ Now.newkeys \in BOOLEAN /\ Now = stream[k + 1]
  BY <1>5, NowIs DEF ServerFrames, Now
<1>7. /\ delivered' \in Seq(Handed) /\ Len(delivered') = k + 1 /\ delivered'[k + 1] = g
      /\ \A i \in 1..k : delivered'[i] = delivered[i]
  BY <1>1, <1>2, <1>4, <1>5
<1>8. newkeys' \in BOOLEAN /\ (newkeys' <=> \E j \in 1..(k + 1) : stream[j].newkeys)
  <2>1. 1..(k + 1) = 1..k \cup {k + 1}
    BY <1>5
  <2>2. newkeys <=> \E j \in 1..k : stream[j].newkeys
    BY <1>4, <1>5
  <2>3. newkeys' \in BOOLEAN /\ (newkeys' <=> newkeys \/ stream[k + 1].newkeys)
    BY <1>1, <1>4, <1>6
  <2> QED BY <2>1, <2>2, <2>3
<1>9. \A i \in 1..(k + 1) : delivered'[i] = [payload |-> stream[i].payload, newkeys |-> stream[i].newkeys]
  <2> SUFFICES ASSUME NEW i \in 1..(k + 1)
               PROVE  delivered'[i] = [payload |-> stream[i].payload, newkeys |-> stream[i].newkeys]
    OBVIOUS
  <2>1. CASE i \in 1..k
    BY <1>4, <1>5, <1>7, <2>1
  <2>2. CASE i = k + 1
    BY <1>2, <1>6, <1>7, <2>2
  <2> QED BY <2>1, <2>2
<1>10. StreamOk'
  BY <1>1, <1>4, <1>6, <1>7, <1>8, <1>9 DEF StreamOk
<1>11. /\ packet' \in Readers /\ packet'.at = r.at /\ packet'.total = 0 /\ packet'.data = 0 /\ packet'.dec = 0 /\ packet'.st = "ok"
  BY <1>1, <1>3 DEF Transport!Reader, Readers
<1>12. AtPacket(packet, received)'
  <2>1. Begins(Len(delivered))' = Begins(k + 1)
    BY <1>1, <1>7 DEF Begins
  <2> QED BY <1>3, <1>5, <1>11, <2>1 DEF AtPacket
<1>13. packet.at \in Nat /\ BufSize \in Nat
  BY BufferAssumption DEF ReaderOk, Readers, Transport!BufferAssumption
<1>14. end - r.at <= BufSize
  BY <1>3, <1>13
<1>15. Transport!EndOf(stream)' = Transport!EndOf(stream)
  BY <1>1 DEF Transport!EndOf
<1>16. ReaderOk'
  BY <1>11, <1>12, <1>14, <1>15 DEF ReaderOk
<1> QED BY <1>10, <1>16

(* A round keeps what is said of the stream and of the reader. *)
LEMMA ReadsKeeps ==
  ASSUME StreamOk, ReaderOk, NEW n \in Transport!Amounts, Transport!Reads(n)
  PROVE  StreamOk' /\ ReaderOk'
<1>1. /\ packet.st = "ok" /\ received' = received + n /\ suite' = suite /\ stream' = stream
      /\ LET r == Transport!Round(received + n) IN
         IF r.st = "ok" /\ r.total > 0 /\ r.data = r.total
         THEN Transport!Finished(r)
         ELSE packet' = r /\ UNCHANGED <<delivered, newkeys>>
  BY DEF Transport!Reads
<1>2. /\ received \in Nat /\ n \in Nat /\ received + n <= Transport!EndOf(stream) /\ received + n - packet.at <= BufSize
      /\ packet.at \in Nat /\ BufSize \in Nat
  BY AmountsAre, BufferAssumption DEF ReaderOk, Readers, Transport!BufferAssumption
<1>3. PICK end \in Nat : end = received + n
  BY <1>2
<1>4. PICK r : r = Transport!Round(end)
  OBVIOUS
<1>5. Goes(end)
  BY <1>1, <1>2, <1>3, RoundIs
<1>6. /\ r \in Readers /\ packet.at <= r.at /\ r.at <= end /\ r.data <= r.total
      /\ \/ r.st = "error" /\ ~(Transport!Alike /\ Transport!Fits)
         \/ r.st = "ok" /\ AtPacket(r, end)
         \/ Len(delivered) < Len(stream) /\ Working(r, Now) /\ r.data = r.total /\ r.total > 0
  BY <1>4, <1>5 DEF Goes
<1>7. r.at \in Nat /\ r.data \in Nat /\ r.total \in Nat
  BY <1>6 DEF Readers
<1>8. IF r.st = "ok" /\ r.total > 0 /\ r.data = r.total THEN Transport!Finished(r)
      ELSE packet' = r /\ UNCHANGED <<delivered, newkeys>>
  BY <1>1, <1>3, <1>4
<1>9. CASE r.st = "ok" /\ r.total > 0 /\ r.data = r.total
  <2>1. Len(delivered) < Len(stream) /\ Working(r, Now)
    BY <1>6, <1>7, <1>9 DEF AtPacket
  <2> QED BY <1>1, <1>2, <1>3, <1>6, <1>8, <1>9, <2>1, FinishedKeeps
<1>10. CASE ~(r.st = "ok" /\ r.total > 0 /\ r.data = r.total)
  <2>1. packet' = r /\ delivered' = delivered /\ newkeys' = newkeys
    BY <1>8, <1>10
  <2>2. \/ r.st = "error" /\ ~(Transport!Alike /\ Transport!Fits)
        \/ r.st = "ok" /\ AtPacket(r, end)
    <3>1. Working(r, Now) => r.st = "ok"
      BY DEF Working
    <3> QED BY <1>6, <1>10, <3>1
  <2>3. (packet.st = "ok" => AtPacket(packet, received))'
    <3>1. r.st = "ok" => AtPacket(r, end)
      BY <2>2
    <3>2. r.st = "ok" => AtPacket(packet, received)'
      BY <1>1, <1>3, <2>1, <3>1, SamePlace
    <3> QED BY <2>1, <3>2
  <2>4. StreamOk'
    BY <1>1, <2>1 DEF StreamOk
  <2>5. (Transport!Alike /\ Transport!Fits)' => packet'.st = "ok"
    <3>1. (Transport!Alike /\ Transport!Fits)' => Transport!Alike /\ Transport!Fits
      BY <1>1 DEF Transport!Alike, Transport!Fits
    <3> QED BY <2>1, <2>2, <3>1
  <2>6. Transport!EndOf(stream)' = Transport!EndOf(stream)
    BY <1>1 DEF Transport!EndOf
  <2>7. received' = end /\ packet' = r /\ end <= Transport!EndOf(stream) /\ end - r.at <= BufSize
    BY <1>1, <1>2, <1>3, <1>6, <1>7, <2>1
  <2> QED BY <1>6, <2>3, <2>4, <2>5, <2>6, <2>7 DEF ReaderOk
<1> QED BY <1>9, <1>10

(* A full buffer is an error, and none where the packets fit. *)
LEMMA ReadFailsKeeps ==
  ASSUME StreamOk, ReaderOk, Transport!ReadFails
  PROVE  StreamOk' /\ ReaderOk'
<1>1. /\ packet.st = "ok" /\ Transport!Needs /\ received - packet.at = BufSize /\ packet' = [packet EXCEPT !.st = "error"]
      /\ UNCHANGED <<suite, newkeys, stream, received, delivered>>
  BY DEF Transport!ReadFails
<1>2. /\ packet \in Readers /\ packet.at \in Nat /\ packet.total \in Nat /\ packet.data \in Nat /\ received \in Nat
      /\ packet.at <= received /\ packet.data <= packet.total /\ received <= Transport!EndOf(stream) /\ AtPacket(packet, received)
      /\ Transport!EndOf(stream) \in Nat /\ BufSize \in Nat /\ BufSize > 0
      /\ Len(delivered) \in Nat /\ Len(stream) \in Nat /\ Len(delivered) <= Len(stream)
      /\ newkeys \in BOOLEAN /\ suite.remote \in Transport!Directions
  BY <1>1, NowIs, BufferAssumption DEF ReaderOk, Readers, Transport!BufferAssumption, StreamOk
<1>3. ~Transport!Fits
  <2> SUFFICES ASSUME Transport!Fits
               PROVE  FALSE
    OBVIOUS
  <2>1. CASE Len(delivered) = Len(stream)
    <3>1. packet.at = Transport!EndOf(stream)
      BY <1>2, <2>1, NowIs DEF AtPacket
    <3> QED BY <1>1, <1>2, <3>1
  <2>2. CASE Len(delivered) < Len(stream)
    <3>1. /\ Now \in ServerFrames /\ Laid(Now, suite.remote) /\ Now.enc = newkeys
          /\ Now.start = Begins(Len(delivered)) /\ Now.total \in Nat /\ Now.start \in Nat
          /\ Begins(Len(delivered) + 1) = Now.start + Now.total
          /\ Now.total <= BufSize
      BY <2>2, NowIs DEF ServerFrames
    <3>2. Now.total >= Transport!BlockSize /\ Now.total = Transport!TotalNum(LengthOf(Now)) + Apart
      BY <1>2, <3>1, FrameIs
    <3>5. PICK b \in Nat : b = Transport!BlockSize
      BY <1>2, CryptTypes DEF Transport!BlockSize
    <3>3. CASE packet.total = 0
      <4>1. ~(packet.total > received - packet.at)
        BY <1>2, <3>3
      <4>2. received - packet.at < Transport!BlockSize
        BY <1>1, <4>1 DEF Transport!Needs
      <4> QED BY <1>1, <1>2, <3>1, <3>2, <3>5, <4>2
    <3>4. CASE packet.total # 0
      <4>1. Working(packet, Now) /\ received < Now.start + Now.total
        BY <1>2, <3>1, <3>4 DEF AtPacket
      <4>2. packet.at = Now.start + packet.data + Apart /\ Apart \in Nat
        BY <4>1 DEF Working, Apart
      <4>3. PICK pos \in Nat, data \in Nat, extra \in Nat :
              pos = packet.at /\ data = packet.data /\ extra = Apart
        BY <1>2, <4>2
      <4>4. PICK start \in Nat, all \in Nat : start = Now.start /\ all = Now.total
        BY <3>1
      <4>5. pos = start + data + extra /\ received < start + all /\ received - pos = BufSize /\ all <= BufSize
        BY <1>1, <3>1, <4>1, <4>2, <4>3, <4>4
      <4> QED BY <1>2, <4>5
    <3> QED BY <3>3, <3>4
  <2> QED BY <1>2, <2>1, <2>2
<1>4. packet' \in Readers /\ packet'.at = packet.at /\ packet'.data = packet.data /\ packet'.total = packet.total /\ packet'.st = "error"
  BY <1>1, <1>2 DEF Readers
<1>5. StreamOk'
  BY <1>1 DEF StreamOk
<1>6. ~Transport!Fits' /\ Transport!EndOf(stream)' = Transport!EndOf(stream)
  BY <1>1, <1>3 DEF Transport!Fits, Transport!EndOf
<1> QED BY <1>1, <1>2, <1>4, <1>5, <1>6 DEF ReaderOk

(* Whatever else is done, the reader and what it reads are as before. *)
LEMMA ReaderRests ==
  ASSUME StreamOk, ReaderOk, UNCHANGED <<suite, newkeys, stream, received, packet, delivered>>
  PROVE  StreamOk' /\ ReaderOk'
<1>1. StreamOk'
  BY DEF StreamOk
<1>2. packet.st = "ok" => AtPacket(packet, received)'
  BY SamePlace DEF ReaderOk
<1>3. (Transport!Alike /\ Transport!Fits)' => Transport!Alike /\ Transport!Fits
  BY DEF Transport!Alike, Transport!Fits
<1>4. Transport!EndOf(stream)' = Transport!EndOf(stream)
  BY DEF Transport!EndOf
<1> QED BY <1>1, <1>2, <1>3, <1>4 DEF ReaderOk

(* At the beginning nothing is received. *)
LEMMA InitReader ==
  Transport!Init => StreamOk /\ ReaderOk
<1> SUFFICES ASSUME Transport!Init
             PROVE  StreamOk /\ ReaderOk
  OBVIOUS
<1>1. /\ suite \in [local : Transport!Directions, remote : Transport!Directions] /\ newkeys = FALSE /\ delivered = <<>>
      /\ received = 0 /\ packet = Transport!Reader(0)
  BY SuitesAssumption DEF Transport!Init, Transport!SuitesAssumption
<1>2. PICK plan \in Plans : stream = Transport!Sending(plan)
  BY DEF Transport!Init
<1>3. plan \in Seq(Plan)
  BY PlansAssumption DEF Transport!PlansAssumption, Plan
<1>4. stream \in StreamsOf(suite.remote)
  BY <1>1, <1>2, <1>3, SendingIs
<1>5. Len(delivered) = 0 /\ delivered \in Seq(Handed) /\ Len(stream) \in Nat /\ Transport!EndOf(stream) \in Nat
  BY <1>1, <1>4, EndIs DEF StreamsOf
<1>6. StreamOk
  <2>1. 1..Len(delivered) = {}
    BY <1>5
  <2>2. newkeys \in BOOLEAN /\ (newkeys <=> \E j \in 1..Len(delivered) : stream[j].newkeys)
    BY <1>1, <2>1
  <2>3. \A i \in 1..Len(delivered) :
          delivered[i] = [payload |-> stream[i].payload, newkeys |-> stream[i].newkeys]
    BY <2>1
  <2> QED BY <1>1, <1>4, <1>5, <2>2, <2>3 DEF StreamOk
<1>7. packet \in Readers /\ packet.at = 0 /\ packet.total = 0 /\ packet.data = 0 /\ packet.dec = 0 /\ packet.st = "ok"
  BY <1>1 DEF Transport!Reader, Readers
<1>8. AtPacket(packet, received)
  BY <1>5, <1>7 DEF AtPacket, Begins
<1>9. BufSize \in Nat
  BY BufferAssumption DEF Transport!BufferAssumption
<1> QED BY <1>1, <1>5, <1>6, <1>7, <1>8, <1>9 DEF ReaderOk

-----------------------------------------------------------------------------
(* The invariant of the sending side: a packet that is not sent whole has bytes left, and
   with them the socket has had all that was built. *)
Halves == [total : Nat, sent : Nat]
WriterOk ==
  /\ frames \in Seq(Frames) /\ written \in Int
  /\ pending = Transport!Nothing \/ (pending \in Halves /\ pending.sent < pending.total)
  /\ Transport!EveryByteOnce

(* A packet the client builds goes behind the others, and is not empty. *)
LEMMA PacksIs ==
  ASSUME suite \in [local : Transport!Directions, remote : Transport!Directions], newkeys \in BOOLEAN,
         frames \in Seq(Frames), NEW payload \in Nat
  PROVE  /\ Transport!Packs(payload) \in Frames /\ Transport!Packs(payload).start = Transport!EndOf(frames)
         /\ Transport!Packs(payload).total > 0 /\ Transport!EndOf(frames) \in Int
         /\ Transport!EndOf(Append(frames, Transport!Packs(payload))) = Transport!EndOf(frames) + Transport!Packs(payload).total
<1>1. Transport!EndOf(frames) \in Int
  <2>1. CASE frames = <<>>
    BY <2>1 DEF Transport!EndOf
  <2>2. CASE frames # <<>>
    <3>1. Len(frames) \in 1..Len(frames)
      BY <2>2
    <3>2. PICK g \in Frames : g = Transport!Last(frames)
      BY <3>1 DEF Transport!Last
    <3>3. Transport!EndOf(frames) = g.start + g.total
      BY <2>2, <3>2 DEF Transport!EndOf
    <3> QED BY <3>2, <3>3 DEF Frames
  <2> QED BY <2>1, <2>2
<1>2. PICK d \in Transport!Directions : d = suite.local
  OBVIOUS
<1>3. PICK mac \in Nat, auth \in Nat, offset \in {0, 4} :
        mac = Transport!LocalMac.len /\ auth = Transport!AuthLen /\ offset = Transport!CryptOffset
  BY <1>2, CryptTypes, MacIs DEF Transport!LocalMac, Transport!AuthLen, Transport!CryptOffset, Transport!NoMac
<1>4. PICK b \in {8, 16} : b = IF newkeys THEN Transport!Crypt(suite.local).block ELSE 8
  BY <1>2, CryptTypes
<1>5. PICK pad \in Nat : pad = Transport!PaddingLength(payload)
  <2>1. PICK x \in Nat : x = payload + 5 - offset
    OBVIOUS
  <2>2. PICK least \in Nat : least = b - (x % b)
    <3>1. b - (x % b) \in Nat
      BY WholeBlocks
    <3> QED BY <3>1
  <2>3. Transport!PaddingLength(payload) = IF least < 4 THEN least + b ELSE least
    BY <1>3, <1>4, <2>1, <2>2 DEF Transport!PaddingLength
  <2> QED BY <2>3
<1>6. PICK total \in Nat :
        total = payload + 5 + Transport!PaddingLength(payload) + (IF newkeys THEN Transport!LocalMac.len ELSE 0) + Transport!AuthLen /\ total > 0
  <2>1. PICK more \in Nat : more = IF newkeys THEN Transport!LocalMac.len ELSE 0
    BY <1>3
  <2>2. payload + 5 + pad + more + auth \in Nat /\ payload + 5 + pad + more + auth > 0
    OBVIOUS
  <2> QED BY <1>3, <1>5, <2>1, <2>2
<1>7. PICK f : f = Transport!Packs(payload)
  OBVIOUS
<1>8. f = [payload |-> payload, pad |-> pad, enc |-> newkeys, start |-> Transport!EndOf(frames), total |-> total]
  BY <1>5, <1>6, <1>7 DEF Transport!Packs
<1>9. f \in Frames /\ f.start = Transport!EndOf(frames) /\ f.total = total
  BY <1>1, <1>8 DEF Frames
<1>10. Transport!EndOf(Append(frames, f)) = f.start + f.total
  <2>1. PICK s : s = Append(frames, f)
    OBVIOUS
  <2>2. s # <<>> /\ s[Len(s)] = f
    BY <1>9, <2>1
  <2> QED BY <2>1, <2>2 DEF Transport!EndOf, Transport!Last
<1> QED BY <1>1, <1>6, <1>7, <1>9, <1>10

(* A new packet is handed to the socket, of which it takes some. *)
LEMMA SendsKeeps ==
  ASSUME WriterOk, Transport!Sends, suite \in [local : Transport!Directions, remote : Transport!Directions], newkeys \in BOOLEAN
  PROVE  WriterOk'
<1>1. pending = Transport!Nothing /\ Transport!Nothing.total = 0 /\ Transport!Nothing.sent = 0
  BY DEF Transport!Sends, Transport!Nothing
<1>2. PICK payload \in Payloads :
        /\ frames' = Append(frames, Transport!Packs(payload))
        /\ \/ written' = written + Transport!Packs(payload).total /\ UNCHANGED pending
           \/ \E n \in {0, Transport!Packs(payload).total \div 2, Transport!Packs(payload).total - 1} :
                pending' = [total |-> Transport!Packs(payload).total, sent |-> n] /\ written' = written + n
  BY DEF Transport!Sends
<1>3. payload \in Nat /\ frames \in Seq(Frames) /\ written \in Int
  BY PayloadsAssumption DEF Transport!PayloadsAssumption, WriterOk
<1>4. PICK f \in Frames : f = Transport!Packs(payload)
  BY <1>3, PacksIs
<1>5. f.total \in Int /\ f.total > 0 /\ Transport!EndOf(frames) \in Int
      /\ Transport!EndOf(Append(frames, f)) = Transport!EndOf(frames) + f.total
  BY <1>3, <1>4, PacksIs DEF Frames
<1>6. frames' \in Seq(Frames) /\ Transport!EndOf(frames)' = Transport!EndOf(frames) + f.total
  <2>1. Transport!EndOf(frames)' = Transport!EndOf(Append(frames, f))
    BY <1>2, <1>4 DEF Transport!EndOf
  <2> QED BY <1>2, <1>3, <1>4, <1>5, <2>1
<1>7. written = Transport!EndOf(frames)
  BY <1>1, <1>3, <1>5 DEF WriterOk, Transport!EveryByteOnce
<1>8. CASE written' = written + f.total /\ UNCHANGED pending
  BY <1>1, <1>3, <1>5, <1>6, <1>7, <1>8 DEF WriterOk, Transport!EveryByteOnce
<1>9. ASSUME NEW n \in {0, f.total \div 2, f.total - 1},
             pending' = [total |-> f.total, sent |-> n], written' = written + n
      PROVE  WriterOk'
  <2>1. n \in Nat /\ n < f.total /\ f.total \in Nat
    BY <1>5
  <2>2. pending' \in Halves /\ pending'.total = f.total /\ pending'.sent = n
    BY <1>9, <2>1 DEF Halves
  <2>3. written' \in Int /\ written' + (f.total - n) = Transport!EndOf(frames) + f.total
    BY <1>3, <1>5, <1>7, <1>9, <2>1
  <2> QED BY <1>6, <2>1, <2>2, <2>3 DEF WriterOk, Transport!EveryByteOnce
<1> QED BY <1>2, <1>4, <1>8, <1>9

(* The rest of a packet goes on from where it was. *)
LEMMA SendExistingKeeps ==
  ASSUME WriterOk, Transport!SendExisting
  PROVE  WriterOk'
<1>1. /\ pending \in Halves /\ pending.total \in Nat /\ pending.sent \in Nat /\ pending.sent < pending.total
      /\ frames \in Seq(Frames) /\ written \in Int /\ frames' = frames /\ Transport!EveryByteOnce
      /\ Transport!Nothing.total = 0 /\ Transport!Nothing.sent = 0
  BY DEF Transport!SendExisting, WriterOk, Halves, Transport!Nothing
<1>2. PICK left \in Nat : left = pending.total - pending.sent /\ left > 0
  BY <1>1
<1>3. PICK n \in {1 + left \div 2, left} :
        /\ written' = written + n
        /\ pending' = IF n = left THEN Transport!Nothing ELSE [pending EXCEPT !.sent = pending.sent + n]
  BY <1>2 DEF Transport!SendExisting
<1>4. n \in Nat /\ n <= left
  BY <1>2, <1>3
<1>5. written' \in Int /\ Transport!EndOf(frames)' = Transport!EndOf(frames) /\ written + left = Transport!EndOf(frames)
  BY <1>1, <1>2, <1>3, <1>4 DEF Transport!EveryByteOnce, Transport!EndOf
<1>6. CASE n = left
  <2>1. pending' = Transport!Nothing /\ written' = Transport!EndOf(frames)
    BY <1>3, <1>5, <1>6
  <2> QED BY <1>1, <1>5, <2>1 DEF WriterOk, Transport!EveryByteOnce
<1>7. CASE n # left
  <2>1. PICK out \in Nat : out = pending.sent + n
    BY <1>1, <1>4
  <2>2. pending' = [pending EXCEPT !.sent = out]
    BY <1>3, <1>7, <2>1
  <2>3. pending' \in Halves /\ pending'.total = pending.total /\ pending'.sent = out
    BY <1>1, <2>1, <2>2 DEF Halves
  <2>4. out < pending.total
    BY <1>1, <1>2, <1>4, <1>7, <2>1
  <2>5. written' + (pending.total - out) = Transport!EndOf(frames)
    <3>1. pending.total - out = left - n
      <4>1. PICK t \in Nat, s \in Nat : t = pending.total /\ s = pending.sent
        BY <1>1
      <4>2. left = t - s /\ out = s + n /\ n \in Nat
        BY <1>2, <1>4, <2>1, <4>1
      <4> QED BY <4>1, <4>2
    <3>2. written' = written + n
      BY <1>3
    <3> QED BY <1>1, <1>4, <1>5, <3>1, <3>2
  <2> QED BY <1>1, <1>5, <2>3, <2>4, <2>5 DEF WriterOk, Transport!EveryByteOnce
<1> QED BY <1>6, <1>7

(* The reader and the writer as they are in every state. *)
Flow == StreamOk /\ ReaderOk /\ WriterOk

(* So they are at the beginning. *)
LEMMA InitFlow ==
  Transport!Init => Flow
<1> SUFFICES ASSUME Transport!Init
             PROVE  WriterOk
  BY InitReader DEF Flow
<1>1. frames = <<>> /\ pending = Transport!Nothing /\ written = 0 /\ Transport!Nothing.total = 0 /\ Transport!Nothing.sent = 0
  BY DEF Transport!Init, Transport!Nothing
<1>2. Transport!EndOf(frames) = 0
  BY <1>1 DEF Transport!EndOf
<1> QED BY <1>1, <1>2 DEF WriterOk, Transport!EveryByteOnce

(* Each step keeps it: the receiving side does not touch what is sent, nor the sending
   side what is received. *)
LEMMA StepFlow ==
  ASSUME Flow, [Transport!Next]_(Transport!vars)
  PROVE  Flow'
<1>1. StreamOk /\ ReaderOk /\ WriterOk /\ newkeys \in BOOLEAN
      /\ suite \in [local : Transport!Directions, remote : Transport!Directions]
  BY DEF Flow, StreamOk
<1>2. ASSUME UNCHANGED <<pending, frames, written>>
      PROVE  WriterOk'
  BY <1>1, <1>2 DEF WriterOk, Transport!EveryByteOnce, Transport!EndOf
<1>3. ASSUME NEW n \in Transport!Amounts, Transport!Reads(n)
      PROVE  Flow'
  <2>1. UNCHANGED <<pending, frames, written>>
    BY <1>3 DEF Transport!Reads
  <2> QED BY <1>1, <1>2, <1>3, <2>1, ReadsKeeps DEF Flow
<1>4. CASE Transport!ReadFails
  <2>1. UNCHANGED <<pending, frames, written>>
    BY <1>4 DEF Transport!ReadFails
  <2> QED BY <1>1, <1>2, <1>4, <2>1, ReadFailsKeeps DEF Flow
<1>5. CASE Transport!Sends
  <2>1. UNCHANGED <<suite, newkeys, stream, received, packet, delivered>>
    BY <1>5 DEF Transport!Sends
  <2> QED BY <1>1, <1>5, <2>1, SendsKeeps, ReaderRests DEF Flow
<1>6. CASE Transport!SendExisting
  <2>1. UNCHANGED <<suite, newkeys, stream, received, packet, delivered>>
    BY <1>6 DEF Transport!SendExisting
  <2> QED BY <1>1, <1>6, <2>1, SendExistingKeeps, ReaderRests DEF Flow
<1>7. CASE UNCHANGED Transport!vars
  <2>1. UNCHANGED <<suite, newkeys, stream, received, packet, delivered>> /\ UNCHANGED <<pending, frames, written>>
    BY <1>7 DEF Transport!vars
  <2> QED BY <1>1, <1>2, <2>1, ReaderRests DEF Flow
<1> QED BY <1>3, <1>4, <1>5, <1>6, <1>7 DEF Transport!Next

(* The reader does not stall: where it asks for more it has not received all of its
   packet, and where it does not it comes on. *)
LEMMA NeverStalls ==
  ASSUME StreamOk, ReaderOk
  PROVE  Transport!NoStall
<1> SUFFICES ASSUME packet.st = "ok", Len(delivered) < Len(stream)
             PROVE  IF Transport!Needs THEN received < Now.start + Now.total ELSE Transport!Round(received) # packet
  BY DEF Transport!NoStall, Now
<1>1. /\ packet \in Readers /\ packet.at \in Nat /\ packet.total \in Nat /\ packet.data \in Nat /\ received \in Nat
      /\ packet.at <= received /\ AtPacket(packet, received) /\ received <= Transport!EndOf(stream)
      /\ newkeys \in BOOLEAN /\ suite.remote \in Transport!Directions
  BY NowIs DEF ReaderOk, Readers, StreamOk
<1>2. /\ Now \in ServerFrames /\ Laid(Now, suite.remote) /\ Now.enc = newkeys
      /\ Now.start = Begins(Len(delivered)) /\ Now.total \in Nat /\ Now.start \in Nat
      /\ Begins(Len(delivered) + 1) = Now.start + Now.total
  BY NowIs DEF ServerFrames
<1>3. Now.total >= Transport!BlockSize
  BY <1>1, <1>2, FrameIs
<1>4. PICK b \in Nat : b = Transport!BlockSize
  BY <1>1, CryptTypes DEF Transport!BlockSize
<1>5. CASE Transport!Needs
  <2>1. CASE packet.total = 0
    <3>1. ~(packet.total > received - packet.at)
      BY <1>1, <2>1
    <3>2. received - packet.at < b
      BY <1>4, <1>5, <3>1 DEF Transport!Needs
    <3>3. packet.at = Now.start
      BY <1>1, <1>2, <2>1 DEF AtPacket
    <3> QED BY <1>1, <1>2, <1>3, <1>4, <1>5, <3>2, <3>3
  <2>2. CASE packet.total # 0
    BY <1>1, <1>2, <1>5, <2>2 DEF AtPacket
  <2> QED BY <2>1, <2>2
<1>6. CASE ~Transport!Needs
  <2>1. Goes(received)
    BY <1>1, RoundIs
  <2> QED BY <1>6, <2>1 DEF Goes
<1> QED BY <1>5, <1>6

(* What is said of the packets follows. *)
LEMMA FlowIs ==
  Flow => Transport!PacketsComeThrough
<1> SUFFICES ASSUME StreamOk, ReaderOk, WriterOk
             PROVE  Transport!Inv /\ Transport!PacketsInOrder /\ Transport!NoStall
  BY DEF Flow, Transport!PacketsComeThrough
<1>1. Transport!TypeOK
  <2>1. packet.st \in {"ok", "error"} /\ packet.at \in Nat /\ packet.total \in Nat /\ packet.data \in Nat
        /\ received \in Nat /\ newkeys \in BOOLEAN
    BY DEF ReaderOk, Readers, StreamOk
  <2>2. pending = Transport!Nothing \/ pending.sent \in 0..(pending.total - 1)
    BY DEF WriterOk, Halves
  <2> QED BY <2>1, <2>2 DEF Transport!TypeOK
<1>2. Transport!Buffered /\ Transport!EveryByteOnce
  BY DEF ReaderOk, Transport!Buffered, WriterOk
<1>3. Transport!PacketsInOrder
  <2>1. DOMAIN delivered = 1..Len(delivered)
    BY DEF StreamOk
  <2> QED BY <2>1 DEF Transport!PacketsInOrder, StreamOk, ReaderOk
<1> QED BY <1>1, <1>2, <1>3, NeverStalls DEF Transport!Inv

(* Every packet the client sends is laid out as the cipher and the MAC of its
   direction ask for (RFC 4253, 6), whatever the sizes of its messages and
   whenever the keys change, if both ciphers lay packets out alike: the padding
   _libssh2_transport_send computes with the offset it takes from the flags of
   the other direction is the right one. *)
THEOREM SentIsWellFormedCorrect == Transport!Spec => []SentIsWellFormed
<1>1. Layout => SentIsWellFormed
  BY DEF Layout, SentIsWellFormed
<1> QED BY <1>1, InitLayout, StepLayout, PTL DEF Transport!Spec

(* However the bytes of the server are cut into pieces, and across the change of keys, the
   packets handed on are those it sent, in order and with their payloads; no packet is an
   error if the ciphers are alike and it fits the buffer; the reader never waits for what
   it has; and the bytes of every packet the client builds go to the socket once
   (_libssh2_transport_read, _libssh2_transport_send). *)
THEOREM PacketsComeThroughCorrect == Transport!Spec => []PacketsComeThrough
<1>1. Flow => PacketsComeThrough
  BY FlowIs DEF PacketsComeThrough
<1> QED BY <1>1, InitFlow, StepFlow, PTL DEF Transport!Spec

-----------------------------------------------------------------------------
\* The three together, as MCConnections composes them: the file of known hosts, the
\* attempts to connect and the packets keep their invariants whichever of them moves.
THEOREM ConnectionsCorrect ==
    MCSpec => [](ConnectionsInv /\ PacketsComeThrough /\ SentIsWellFormed)
<1>1. MCInit => Init /\ Connecting!Init /\ Transport!Init
  BY DEF MCInit
<1>2. [MCNext]_<<part, vars, connectVars, packetVars>> =>
        [Next]_vars /\ [Connecting!Next]_Connecting!vars /\ [Transport!Next]_Transport!vars
  <2>1. UNCHANGED connectVars => UNCHANGED Connecting!vars
    BY DEF connectVars, Connecting!vars, Connecting!store, Connecting!ui, Connecting!thread,
           Connecting!relays
  <2>2. UNCHANGED packetVars => UNCHANGED Transport!vars
    BY DEF packetVars, Transport!vars
  <2> QED BY <2>1, <2>2 DEF MCNext
<1>3. Init => Inv
  BY InitInv
<1>4. Connecting!Init => Connecting!Inv
  BY ConnectInitInv, ConnectingAssumption
<1>5. Connecting!Inv /\ [Connecting!Next]_Connecting!vars => Connecting!Inv'
  BY ConnectNextInv, ConnectingAssumption
<1>6. ConnectionsInv <=> Inv /\ Connecting!Inv
  BY DEF ConnectionsInv
<1> QED BY <1>1, <1>2, <1>3, <1>4, <1>5, <1>6, NextInv, PacketsComeThroughCorrect,
           SentIsWellFormedCorrect, PTL DEF MCSpec, Transport!Spec

=============================================================================
