----------------------------- MODULE Transfers_proofs -----------------------------
(***************************************************************************)
(* Theorems of TransferCopy, for any number of files of any size and for   *)
(* any chunk size and reporting interval, and of TransferRows, for any     *)
(* number of transfers and retries.                                        *)
(***************************************************************************)
EXTENDS MCTransfers, CommonLemmas

-----------------------------------------------------------------------------
(* The copy of one transfer *)

LEMMA InitInv == Init => Inv
<1> SUFFICES ASSUME Init PROVE Inv
  OBVIOUS
<1>1. files \in Nat /\ (~directory => files = 1)
  BY SizesAssumption DEF Init
<1>2. /\ directory \in BOOLEAN /\ at = "start" /\ terminal = "none" /\ cancel = FALSE
      /\ file = 0 /\ left = 0 /\ copied = 0 /\ last = 0 /\ reported = 0 /\ found = 0
      /\ lateBytes = 0 /\ lateFiles = 0
  BY DEF Init
<1>3. TypeOK
  <2>1. at \in Running /\ directory \in BOOLEAN /\ cancel \in BOOLEAN
    BY <1>2 DEF Running
  <2>2. file \in 0 .. files /\ lateBytes \in Nat /\ lateFiles \in Nat
    BY <1>1, <1>2
  <2>3. left \in Nat /\ copied \in Nat /\ last \in Nat /\ reported \in Nat /\ found \in Nat
    BY <1>2
  <2> QED BY <1>1, <1>2, <2>1, <2>2, <2>3 DEF TypeOK
<1> QED BY <1>1, <1>2, <1>3, SizesAssumption DEF Inv, Running

LEMMA StepInv == Inv /\ [Next]_vars => Inv'
<1> SUFFICES ASSUME Inv, [Next]_vars PROVE Inv'
  OBVIOUS
<1> USE SizesAssumption DEF Inv, TypeOK, Running, job, late
<1>1. ASSUME SetCancel PROVE Inv'
  BY <1>1 DEF SetCancel
<1>2. ASSUME Fail PROVE Inv'
  BY <1>2 DEF Fail
<1>3. ASSUME Start PROVE Inv'
  BY <1>3 DEF Start
<1>4. ASSUME NextFile PROVE Inv'
  BY <1>4 DEF NextFile
<1>5. ASSUME Open PROVE Inv'
  BY <1>5 DEF Open
<1>6. ASSUME SeeCancel PROVE Inv'
  BY <1>6 DEF SeeCancel
<1>7. ASSUME CopyChunk PROVE Inv'
  <2>1. PICK n \in 1 .. Chunk :
          /\ n <= left
          /\ left' = left - n
          /\ copied' = copied + n
          /\ Report(copied + n)
          /\ cancel' \in BOOLEAN
          /\ lateBytes' = IF cancel' THEN lateBytes + n ELSE lateBytes
    BY <1>7 DEF CopyChunk
  <2>2. /\ n \in Nat /\ n <= Chunk
        /\ at = "copy" /\ ~cancel /\ lateBytes = 0 /\ lateFiles = 0
        /\ UNCHANGED <<job, at, file, terminal, found, lateFiles>>
    BY <1>7, <2>1 DEF CopyChunk
  <2>3. /\ reported' = last' /\ last' \in Nat
        /\ copied' - last' < Interval /\ reported' <= copied'
    BY <2>1, <2>2 DEF Report
  <2>4. TypeOK'
    BY <2>1, <2>2, <2>3
  <2>5. copied' + left' = found' /\ lateBytes' <= Chunk
    BY <2>1, <2>2
  <2>6. ~cancel' => lateBytes' = 0
    BY <2>1, <2>2
  <2> QED BY <2>2, <2>3, <2>4, <2>5, <2>6
<1>8. ASSUME EndOfFile PROVE Inv'
  BY <1>8 DEF EndOfFile
<1>9. ASSUME Flush PROVE Inv'
  BY <1>9 DEF Flush
<1>10. ASSUME Emit PROVE Inv'
  BY <1>10 DEF Emit
<1>11. CASE Finished \/ UNCHANGED vars
  BY <1>11 DEF Finished, vars
<1> HIDE DEF Inv
<1> QED
  BY <1>1, <1>2, <1>3, <1>4, <1>5, <1>6, <1>7, <1>8, <1>9, <1>10, <1>11 DEF Next, Step

\* The counters of the copy agree with what was found and written wherever the
\* loops stand: what the outcome, the progress and the promptness rest on.
THEOREM InvCorrect == Spec => []Inv
<1> QED BY InitInv, StepInv, PTL DEF Spec

\* The copy never outruns a cancellation by more than the chunk in flight and
\* one created file, whatever the sizes of the files and of the chunks.
THEOREM CancelPromptCorrect == Spec => []CancelIsPrompt
<1>1. Inv => CancelIsPrompt
  BY DEF Inv, CancelIsPrompt
<1> QED BY <1>1, InitInv, StepInv, PTL DEF Spec

\* The terminal event of a transfer never claims bytes that were not copied,
\* nor a cancellation nobody asked for.
THEOREM HonestOutcomeCorrect == Spec => []HonestOutcome
<1>1. Inv => HonestOutcome
  BY DEF Inv, TypeOK, HonestOutcome
<1> QED BY <1>1, InitInv, StepInv, PTL DEF Spec

\* The progress shown stays within one interval of the bytes written.
THEOREM UiFollowsCorrect == Spec => []UiFollows
<1>1. Inv => UiFollows
  BY DEF Inv, TypeOK, Running, UiFollows
<1> QED BY <1>1, InitInv, StepInv, PTL DEF Spec

\* Both together: what the UI is told of a transfer is true.
THEOREM HonestReportsCorrect == Spec => []HonestReports
<1> QED BY HonestOutcomeCorrect, UiFollowsCorrect, PTL DEF HonestReports

\* The progress shown never goes back while a transfer does not fail.
THEOREM MonotoneCorrect == Spec => ProgressMonotone
<1>1. Inv /\ [Next]_vars => [terminal' # "failed" => reported' >= reported]_vars
  <2> SUFFICES ASSUME Inv, Next, terminal' # "failed" PROVE reported' >= reported
    BY DEF vars
  <2> USE SizesAssumption DEF Inv, TypeOK, Running, job, late
  <2>1. ASSUME CopyChunk PROVE reported' >= reported
    <3>1. PICK n \in 1 .. Chunk : Report(copied + n)
      BY <2>1 DEF CopyChunk
    <3> QED BY <2>1, <3>1 DEF CopyChunk, Report
  <2>2. CASE ~CopyChunk
    BY <2>2 DEF Next, Step, SetCancel, Fail, Start, NextFile, Open, SeeCancel, EndOfFile,
                Flush, Emit, Finished, vars
  <2> QED BY <2>1, <2>2
<1> QED BY <1>1, InitInv, StepInv, PTL DEF Spec, ProgressMonotone

-----------------------------------------------------------------------------
(* The list of the transfers *)

LEMMA RowsOperators ==
    ASSUME NEW q
    PROVE  Rows!ToSet(q) = ToSet(q) /\ (Rows!IsInjective(q) <=> IsInjective(q))
BY DEF Rows!ToSet, ToSet, Rows!IsInjective, IsInjective

LEMMA RowsInit == Rows!Init => Rows!Inv /\ Rows!RowsAreHonest
<1> SUFFICES ASSUME Rows!Init PROVE Rows!Inv /\ Rows!RowsAreHonest
  OBVIOUS
<1> USE RunningAssumption DEF Rows!Init
<1>1. Rows!TypeOK
  BY EmptyQueue DEF Rows!TypeOK, Rows!Rows, Rows!Ended
<1>2. Rows!QueueIsOpen
  BY EmptyQueue, RowsOperators DEF Rows!QueueIsOpen
<1>3. Rows!EventsInOrder
  BY DEF Rows!EventsInOrder
<1>4. Rows!RetriesReplace
  BY DEF Rows!RetriesReplace, Rows!Alive
<1>5. Rows!RowsAreHonest
  BY DEF Rows!RowsAreHonest
<1> QED BY <1>1, <1>2, <1>3, <1>4, <1>5 DEF Rows!Inv

LEMMA RowsTypeStep ==
    ASSUME Rows!Inv, [Rows!Next]_rowVars
    PROVE  Rows!TypeOK'
<1> USE RunningAssumption DEF Rows!Inv, Rows!TypeOK, Rows!Rows, Rows!Ended, Rows!backend, Rows!ui
<1>1. ASSUME NEW t \in Ids, Rows!Start(t) PROVE Rows!TypeOK'
  BY <1>1 DEF Rows!Start
<1>2. ASSUME NEW t \in Ids, Rows!Begin(t) PROVE Rows!TypeOK'
  BY <1>2 DEF Rows!Begin
<1>3. ASSUME NEW t \in Ids, Rows!Cancel(t) \/ Rows!Cancelled(t) \/ Rows!RemoveRow(t)
      PROVE  Rows!TypeOK'
  BY <1>3 DEF Rows!Cancel, Rows!Cancelled, Rows!RemoveRow
<1>4. ASSUME NEW t \in Ids, Rows!Accept(t) PROVE Rows!TypeOK'
  <2>1. Append(queue, t) \in Seq(Ids)
    BY SendQueue
  <2> QED BY <1>4, <2>1 DEF Rows!Accept
<1>5. ASSUME NEW t \in Ids, Rows!Run(t) PROVE Rows!TypeOK'
  BY <1>5 DEF Rows!Run
<1>6. ASSUME NEW t \in Ids, Rows!Progress(t) PROVE Rows!TypeOK'
  BY <1>6 DEF Rows!Progress
<1>7. ASSUME NEW t \in Ids, Rows!End(t) PROVE Rows!TypeOK'
  <2>1. queue # <<>>
    <3>1. t \in ToSet(queue)
      BY <1>7, RowsOperators DEF Rows!End, Rows!QueueIsOpen
    <3> QED BY <3>1, EmptyQueue
  <2>2. queue' \in Seq(Ids)
    BY <1>7, <2>1, ReceiveQueue DEF Rows!End
  <2> QED BY <1>7, <2>2 DEF Rows!End
<1>8. ASSUME NEW t \in Ids, Rows!CancelArrives(t) PROVE Rows!TypeOK'
  BY <1>8 DEF Rows!CancelArrives
<1>9. ASSUME NEW t \in Ids, NEW new \in Ids, Rows!Retry(t, new) PROVE Rows!TypeOK'
  BY <1>9 DEF Rows!Retry
<1>10. CASE Rows!ApplyProgress
  <2>1. wire # <<>> /\ Head(wire) \in Ids \X {"running", "done", "failed", "cancelled"}
        /\ wire' = Tail(wire) /\ Tail(wire) \in Seq(Ids \X {"running", "done", "failed", "cancelled"})
    BY <1>10, ReceiveQueue DEF Rows!ApplyProgress
  <2> QED BY <1>10, <2>1 DEF Rows!ApplyProgress
<1>11. CASE UNCHANGED rowVars
  BY <1>11 DEF rowVars
<1> HIDE DEF Rows!Inv, Rows!TypeOK
<1> QED
  BY <1>1, <1>2, <1>3, <1>4, <1>5, <1>6, <1>7, <1>8, <1>9, <1>10, <1>11 DEF Rows!Next

LEMMA RowsQueueStep ==
    ASSUME Rows!Inv, [Rows!Next]_rowVars
    PROVE  Rows!QueueIsOpen'
<1> USE DEF Rows!backend
<1>1. /\ transfer \in [Ids -> {"none", "queued", "running", "done", "failed", "cancelled"}]
      /\ queue \in Seq(Ids)
      /\ IsInjective(queue)
      /\ \A t \in Ids : t \in ToSet(queue) <=> transfer[t] \in {"queued", "running"}
      /\ \A t \in Ids : transfer[t] = "running" => Head(queue) = t
  BY RowsOperators DEF Rows!Inv, Rows!TypeOK, Rows!QueueIsOpen, Rows!Ended
<1> SUFFICES /\ IsInjective(queue')
             /\ \A t \in Ids : t \in ToSet(queue') <=> transfer'[t] \in {"queued", "running"}
             /\ \A t \in Ids : transfer'[t] = "running" => Head(queue') = t
  BY RowsOperators DEF Rows!QueueIsOpen
<1> DEFINE Goal == /\ IsInjective(queue')
                   /\ \A t \in Ids : t \in ToSet(queue') <=> transfer'[t] \in {"queued", "running"}
                   /\ \A t \in Ids : transfer'[t] = "running" => Head(queue') = t
<1>2. ASSUME UNCHANGED <<transfer, queue>> PROVE Goal
  BY <1>1, <1>2
<1>3. ASSUME NEW t \in Ids, Rows!Accept(t) PROVE Goal
  <2>1. CASE transfer' = [transfer EXCEPT ![t] = "queued"] /\ queue' = Append(queue, t)
    <3>1. transfer[t] = "none" /\ t \notin ToSet(queue)
      BY <1>1, <1>3 DEF Rows!Accept, Rows!Inv, Rows!RetriesReplace
    <3>2. IsInjective(queue') /\ ToSet(queue') = ToSet(queue) \cup {t}
      BY <1>1, <2>1, <3>1, SendQueue
    <3>3. queue # <<>> => Head(queue') = Head(queue)
      BY <1>1, <2>1
    <3>4. ASSUME NEW u \in Ids, transfer'[u] = "running" PROVE Head(queue') = u
      <4>1. transfer[u] = "running" /\ u \in ToSet(queue)
        BY <1>1, <2>1, <3>4
      <4> QED BY <1>1, <3>3, <4>1, EmptyQueue
    <3> QED BY <1>1, <2>1, <3>2, <3>4
  <2> QED BY <1>2, <1>3, <2>1 DEF Rows!Accept
<1>4. ASSUME NEW t \in Ids, Rows!Run(t) PROVE Goal
  BY <1>1, <1>4 DEF Rows!Run
<1>5. ASSUME NEW t \in Ids, Rows!End(t) PROVE Goal
  <2>1. PICK outcome \in {"done", "failed", "cancelled"} : transfer' = [transfer EXCEPT ![t] = outcome]
    BY <1>5 DEF Rows!End, Rows!Ended
  <2>2. queue' = Tail(queue) /\ transfer[t] \in {"queued", "running"} /\ Head(queue) = t
    BY <1>1, <1>5 DEF Rows!End
  <2>3. queue # <<>>
    BY <1>1, <2>2, EmptyQueue
  <2>4. /\ IsInjective(queue') /\ t \notin ToSet(queue')
        /\ ToSet(queue) = ToSet(queue') \cup {t}
    BY <1>1, <2>2, <2>3, ReceiveQueue
  <2>5. \A u \in Ids : transfer'[u] # "running"
    BY <1>1, <2>1, <2>2
  <2> QED BY <1>1, <2>1, <2>4, <2>5
<1>6. ASSUME NEW t \in Ids,
             \/ Rows!Start(t) \/ Rows!Begin(t) \/ Rows!Cancel(t) \/ Rows!Cancelled(t)
             \/ Rows!RemoveRow(t) \/ Rows!Progress(t) \/ Rows!CancelArrives(t)
             \/ \E new \in Ids : Rows!Retry(t, new)
      PROVE  Goal
  BY <1>2, <1>6 DEF Rows!Start, Rows!Begin, Rows!Cancel, Rows!Cancelled, Rows!RemoveRow,
                    Rows!Progress, Rows!CancelArrives, Rows!Retry
<1>7. CASE Rows!ApplyProgress \/ UNCHANGED rowVars
  BY <1>2, <1>7 DEF Rows!ApplyProgress, rowVars
<1>8. ASSUME NEW t \in Ids, NEW new \in Ids, Rows!Retry(t, new) PROVE Goal
  BY <1>6, <1>8
<1> QED BY <1>3, <1>4, <1>5, <1>6, <1>7, <1>8 DEF Rows!Next

\* What Append and Tail do to the events on their way.
LEMMA WireStep ==
    ASSUME NEW S, NEW w \in Seq(S), NEW e \in S
    PROVE  /\ DOMAIN Append(w, e) = 1 .. Len(w) + 1 /\ DOMAIN w = 1 .. Len(w) /\ Len(w) \in Nat
           /\ Append(w, e)[Len(w) + 1] = e
           /\ \A i \in 1 .. Len(w) : Append(w, e)[i] = w[i] /\ i # Len(w) + 1
           /\ w # <<>> => /\ Len(w) > 0 /\ Head(w) = w[1] /\ DOMAIN Tail(w) = 1 .. Len(w) - 1
                          /\ \A i \in DOMAIN Tail(w) : Tail(w)[i] = w[i + 1] /\ i + 1 \in DOMAIN w
<1>1. /\ DOMAIN Append(w, e) = 1 .. Len(w) + 1 /\ DOMAIN w = 1 .. Len(w) /\ Len(w) \in Nat
      /\ Append(w, e)[Len(w) + 1] = e
      /\ \A i \in 1 .. Len(w) : Append(w, e)[i] = w[i] /\ i # Len(w) + 1
  OBVIOUS
<1>2. ASSUME w # <<>>
      PROVE  /\ Len(w) > 0 /\ Head(w) = w[1] /\ DOMAIN Tail(w) = 1 .. Len(w) - 1
             /\ \A i \in DOMAIN Tail(w) : Tail(w)[i] = w[i + 1] /\ i + 1 \in DOMAIN w
  BY <1>2, HeadTailProperties, EmptySeq, LenProperties
<1> QED BY <1>1, <1>2

LEMMA RowsEventsStep ==
    ASSUME Rows!Inv, [Rows!Next]_rowVars
    PROVE  Rows!EventsInOrder'
<1> DEFINE Last3 == {"done", "failed", "cancelled"}
           Event == Ids \X {"running", "done", "failed", "cancelled"}
<1> USE DEF Rows!backend, Rows!ui, Rows!Ended
<1>1. /\ transfer \in [Ids -> {"none", "queued", "running"} \cup Last3]
      /\ wire \in Seq(Event) /\ told \subseteq Ids
      /\ Rows!EventsInOrder
  BY DEF Rows!Inv, Rows!TypeOK, Rows!Rows
<1>2. ASSUME NEW i \in DOMAIN wire
      PROVE  wire[i] \in Event /\ wire[i][1] \in Ids /\ wire[i][2] \in {"running"} \cup Last3
  BY <1>1
<1>3. ASSUME UNCHANGED <<wire, told>>, \A t \in Ids : transfer[t] \in Last3 => transfer'[t] = transfer[t]
      PROVE  Rows!EventsInOrder'
  BY <1>1, <1>2, <1>3 DEF Rows!EventsInOrder
\* An event of a transfer that has not ended comes after its progress.
<1>4. ASSUME NEW t \in Ids, transfer[t] \in {"queued", "running"}, NEW status,
             wire' = Append(wire, <<t, status>>), status \in {"running"} \cup Last3,
             status \in Last3 => transfer' = [transfer EXCEPT ![t] = status],
             status \notin Last3 => transfer' = transfer, told' = told
      PROVE  Rows!EventsInOrder'
  <2>1. /\ DOMAIN wire' = 1 .. Len(wire) + 1 /\ DOMAIN wire = 1 .. Len(wire) /\ Len(wire) \in Nat
        /\ wire'[Len(wire) + 1] = <<t, status>>
        /\ \A i \in 1 .. Len(wire) : wire'[i] = wire[i] /\ i # Len(wire) + 1
    BY <1>1, <1>4, WireStep
  <2>2. t \notin told
    BY <1>1, <1>4 DEF Rows!EventsInOrder
  <2>3. \A i \in DOMAIN wire : wire[i][1] = t => wire[i][2] = "running"
    BY <1>1, <1>2, <1>4 DEF Rows!EventsInOrder
  <2>4. \A u \in told' : transfer'[u] \in Last3
    BY <1>1, <1>4, <2>2 DEF Rows!EventsInOrder
  <2>5. ASSUME NEW i \in DOMAIN wire', NEW j \in DOMAIN wire', i < j, wire'[i][1] = wire'[j][1]
        PROVE  wire'[i][2] = "running"
    <3>1. i \in DOMAIN wire /\ wire'[i] = wire[i]
      BY <2>1, <2>5
    <3>2. CASE j = Len(wire) + 1
      BY <2>1, <2>3, <2>5, <3>1, <3>2
    <3>3. CASE j # Len(wire) + 1
      BY <1>1, <2>1, <2>5, <3>1, <3>3 DEF Rows!EventsInOrder
    <3> QED BY <3>2, <3>3
  <2>6. ASSUME NEW i \in DOMAIN wire'
        PROVE  /\ wire'[i][1] \notin told'
               /\ wire'[i][2] \in Last3 => wire'[i][2] = transfer'[wire'[i][1]]
    <3>1. CASE i = Len(wire) + 1
      BY <1>1, <1>4, <2>1, <2>2, <3>1
    <3>2. CASE i # Len(wire) + 1
      <4>1. i \in DOMAIN wire /\ wire'[i] = wire[i]
        BY <2>1, <3>2
      <4>2. wire[i][1] = t => wire[i][2] \notin Last3
        BY <2>3, <4>1
      <4> QED BY <1>1, <1>2, <1>4, <4>1, <4>2 DEF Rows!EventsInOrder
    <3> QED BY <3>1, <3>2
  <2> QED BY <2>4, <2>5, <2>6 DEF Rows!EventsInOrder
<1>5. ASSUME NEW t \in Ids, Rows!Progress(t) PROVE Rows!EventsInOrder'
  <2>1. /\ transfer[t] = "running" /\ wire' = Append(wire, <<t, "running">>)
        /\ transfer' = transfer /\ told' = told
    BY <1>5 DEF Rows!Progress
  <2> QED BY <1>4, <2>1
<1>6. ASSUME NEW t \in Ids, Rows!End(t) PROVE Rows!EventsInOrder'
  <2>1. PICK outcome \in Last3 :
          transfer' = [transfer EXCEPT ![t] = outcome] /\ wire' = Append(wire, <<t, outcome>>)
    BY <1>6 DEF Rows!End
  <2>2. transfer[t] \in {"queued", "running"} /\ told' = told
    BY <1>6 DEF Rows!End
  <2> QED BY <1>4, <2>1, <2>2
<1>7. CASE Rows!ApplyProgress
  <2> DEFINE t == wire[1][1]
             status == wire[1][2]
  <2>1. wire # <<>> /\ wire' = Tail(wire) /\ transfer' = transfer
    BY <1>7 DEF Rows!ApplyProgress
  <2>2. /\ Len(wire) > 0 /\ Len(wire) \in Nat /\ Head(wire) = wire[1] /\ DOMAIN wire = 1 .. Len(wire)
        /\ DOMAIN wire' = 1 .. Len(wire) - 1
        /\ \A i \in DOMAIN wire' : wire'[i] = wire[i + 1] /\ i + 1 \in DOMAIN wire
    BY <1>1, <2>1, WireStep
  <2>3. told' = IF status \in Last3 THEN told \cup {t} ELSE told
    BY <1>7, <2>2 DEF Rows!ApplyProgress
  <2>4. 1 \in DOMAIN wire
    BY <2>2
  <2>5. \A u \in told' : transfer'[u] \in Last3
    BY <1>1, <2>1, <2>3, <2>4 DEF Rows!EventsInOrder
  <2>6. ASSUME NEW i \in DOMAIN wire', NEW j \in DOMAIN wire', i < j, wire'[i][1] = wire'[j][1]
        PROVE  wire'[i][2] = "running"
    <3>1. /\ wire'[i] = wire[i + 1] /\ i + 1 \in DOMAIN wire
          /\ wire'[j] = wire[j + 1] /\ j + 1 \in DOMAIN wire
          /\ i + 1 < j + 1
      BY <2>2, <2>6
    <3> QED BY <1>1, <2>6, <3>1 DEF Rows!EventsInOrder
  <2>7. ASSUME NEW i \in DOMAIN wire'
        PROVE  /\ wire'[i][1] \notin told'
               /\ wire'[i][2] \in Last3 => wire'[i][2] = transfer'[wire'[i][1]]
    <3>1. wire'[i] = wire[i + 1] /\ i + 1 \in DOMAIN wire /\ 1 < i + 1
      BY <2>2
    <3>2. status \in Last3 => wire[i + 1][1] # t
      BY <1>1, <2>4, <3>1 DEF Rows!EventsInOrder
    <3> QED BY <1>1, <2>1, <2>3, <3>1, <3>2 DEF Rows!EventsInOrder
  <2> QED BY <2>5, <2>6, <2>7 DEF Rows!EventsInOrder
<1>8. ASSUME NEW t \in Ids,
             \/ Rows!Start(t) \/ Rows!Begin(t) \/ Rows!Cancel(t) \/ Rows!Cancelled(t)
             \/ Rows!RemoveRow(t) \/ Rows!CancelArrives(t) \/ \E new \in Ids : Rows!Retry(t, new)
      PROVE  Rows!EventsInOrder'
  BY <1>3, <1>8 DEF Rows!Start, Rows!Begin, Rows!Cancel, Rows!Cancelled, Rows!RemoveRow,
                    Rows!CancelArrives, Rows!Retry
<1>9. ASSUME NEW t \in Ids, Rows!Accept(t) \/ Rows!Run(t) PROVE Rows!EventsInOrder'
  <2>1. transfer[t] \in {"none", "queued"} /\ UNCHANGED <<wire, told>>
    BY <1>9 DEF Rows!Accept, Rows!Run, Rows!Inv, Rows!RetriesReplace
  <2>2. \A u \in Ids \ {t} : transfer'[u] = transfer[u]
    BY <1>1, <1>9 DEF Rows!Accept, Rows!Run
  <2> QED BY <1>3, <2>1, <2>2
<1>10. CASE UNCHANGED rowVars
  BY <1>3, <1>10 DEF rowVars
<1> QED BY <1>5, <1>6, <1>7, <1>8, <1>9, <1>10 DEF Rows!Next

LEMMA RowsRetriesStep ==
    ASSUME Rows!Inv, [Rows!Next]_rowVars
    PROVE  Rows!RetriesReplace'
<1> USE DEF Rows!backend, Rows!ui, Rows!Ended
<1>1. /\ invoke \in [Ids -> {"none", "sent", "answered", "resolved", "rejected"}]
      /\ transfer \in [Ids -> {"none", "queued", "running", "done", "failed", "cancelled"}]
      /\ row \in [Ids -> {"absent", "running", "done", "failed", "cancelled"}]
      /\ retryOf \in [Ids -> Ids]
      /\ Rows!RetriesReplace
  BY DEF Rows!Inv, Rows!TypeOK, Rows!Rows
\* Rows come to life with an answer only.
<1>2. ASSUME UNCHANGED <<invoke, retryOf>>,
             \A u \in Ids : transfer[u] = "none" => transfer'[u] = "none",
             \A u \in Ids : row[u] = "absent" => row'[u] = "absent"
      PROVE  Rows!RetriesReplace'
  BY <1>1, <1>2 DEF Rows!RetriesReplace, Rows!Alive
<1>3. ASSUME NEW t \in Ids, Rows!Start(t) PROVE Rows!RetriesReplace'
  <2>1. /\ invoke[t] = "none" /\ invoke' = [invoke EXCEPT ![t] = "sent"]
        /\ UNCHANGED <<transfer, row, retryOf>>
    BY <1>3 DEF Rows!Start
  <2>2. \A u \in Ids : retryOf[u] = retryOf[t] => u = t
    BY <1>1, <2>1 DEF Rows!RetriesReplace
  <2> QED BY <1>1, <2>1, <2>2 DEF Rows!RetriesReplace, Rows!Alive
<1>4. ASSUME NEW t \in Ids, Rows!Begin(t) PROVE Rows!RetriesReplace'
  <2>1. /\ invoke[t] = "answered" /\ invoke' = [invoke EXCEPT ![t] = "resolved"]
        /\ row' = [row EXCEPT ![t] = "running"] /\ UNCHANGED <<transfer, retryOf>>
    BY <1>4 DEF Rows!Begin
  <2>2. \A u \in Ids : Rows!Alive(u)' => Rows!Alive(u)
    BY <1>1, <2>1 DEF Rows!Alive
  <2> QED BY <1>1, <2>1, <2>2 DEF Rows!RetriesReplace
<1>5. ASSUME NEW t \in Ids, Rows!Accept(t) PROVE Rows!RetriesReplace'
  <2>1. /\ invoke[t] = "sent" /\ UNCHANGED <<row, retryOf>>
        /\ \/ /\ invoke' = [invoke EXCEPT ![t] = "answered"]
              /\ transfer' = [transfer EXCEPT ![t] = "queued"]
           \/ /\ invoke' = [invoke EXCEPT ![t] = "rejected"] /\ transfer' = transfer
    BY <1>5 DEF Rows!Accept
  <2>2. \A u \in Ids : Rows!Alive(u)' => Rows!Alive(u)
    BY <1>1, <2>1 DEF Rows!Alive
  <2> QED BY <1>1, <2>1, <2>2 DEF Rows!RetriesReplace
\* A retry takes the place of a row that is removed; its id was not given out yet.
<1>6. ASSUME NEW t \in Ids, NEW new \in Ids, Rows!Retry(t, new) PROVE Rows!RetriesReplace'
  <2>1. /\ row[t] \in {"failed", "cancelled"} /\ invoke[new] = "none"
        /\ row' = [row EXCEPT ![t] = "absent"] /\ invoke' = [invoke EXCEPT ![new] = "sent"]
        /\ retryOf' = [retryOf EXCEPT ![new] = retryOf[t]] /\ transfer' = transfer
    BY <1>6 DEF Rows!Retry
  <2>2. invoke[t] = "resolved" /\ t # new /\ row[new] = "absent" /\ transfer[new] = "none"
    BY <1>1, <2>1 DEF Rows!RetriesReplace
  <2>3. \A u \in Ids : retryOf[u] = new <=> u = new
    BY <1>1, <2>1 DEF Rows!RetriesReplace
  <2>4. \A u \in Ids : u # t /\ retryOf[u] = retryOf[t] => ~Rows!Alive(u)
    BY <1>1, <2>1 DEF Rows!RetriesReplace, Rows!Alive
  <2>5. \A u \in Ids : u # new => (Rows!Alive(u)' => Rows!Alive(u) /\ u # t)
    BY <1>1, <2>1, <2>2 DEF Rows!Alive
  <2>6. ASSUME NEW u \in Ids, NEW v \in Ids, u # v, retryOf'[u] = retryOf'[v],
               Rows!Alive(u)', Rows!Alive(v)'
        PROVE  FALSE
    <3>1. CASE u = new
      BY <1>1, <2>1, <2>4, <2>5, <2>6, <3>1
    <3>2. CASE v = new
      BY <1>1, <2>1, <2>4, <2>5, <2>6, <3>2
    <3>3. CASE u # new /\ v # new
      BY <1>1, <2>1, <2>5, <2>6, <3>3 DEF Rows!RetriesReplace
    <3> QED BY <3>1, <3>2, <3>3
  <2>7. ASSUME NEW u \in Ids, NEW v \in Ids, invoke'[u] = "none"
        PROVE  retryOf'[v] = u <=> v = u
    <3>1. u # new /\ invoke[u] = "none" /\ u # t
      BY <1>1, <2>1, <2>2, <2>7
    <3>2. retryOf[t] # u
      BY <1>1, <3>1 DEF Rows!RetriesReplace
    <3> QED BY <1>1, <2>1, <3>1, <3>2 DEF Rows!RetriesReplace
  <2>8. \A u \in Ids : invoke'[u] \in {"none", "sent", "rejected"} => transfer'[u] = "none"
    BY <1>1, <2>1, <2>2 DEF Rows!RetriesReplace
  <2>9. \A u \in Ids : invoke'[u] # "resolved" => row'[u] = "absent"
    BY <1>1, <2>1, <2>2 DEF Rows!RetriesReplace
  <2> QED BY <2>6, <2>7, <2>8, <2>9 DEF Rows!RetriesReplace
<1>7. ASSUME NEW t \in Ids,
             \/ Rows!Cancel(t) \/ Rows!Cancelled(t) \/ Rows!RemoveRow(t) \/ Rows!Progress(t)
             \/ Rows!CancelArrives(t)
      PROVE  Rows!RetriesReplace'
  BY <1>1, <1>2, <1>7 DEF Rows!Cancel, Rows!Cancelled, Rows!RemoveRow, Rows!Progress,
                          Rows!CancelArrives
<1>8. ASSUME NEW t \in Ids, Rows!Run(t) \/ Rows!End(t) PROVE Rows!RetriesReplace'
  BY <1>1, <1>2, <1>8 DEF Rows!Run, Rows!End
<1>9. CASE Rows!ApplyProgress
  <2>1. UNCHANGED <<invoke, retryOf, transfer>> /\ \A u \in Ids : row[u] = "absent" => row'[u] = "absent"
    BY <1>1, <1>9 DEF Rows!ApplyProgress
  <2> QED BY <1>2, <2>1
<1>10. CASE UNCHANGED rowVars
  BY <1>2, <1>10 DEF rowVars
<1> QED BY <1>3, <1>4, <1>5, <1>6, <1>7, <1>8, <1>9, <1>10 DEF Rows!Next

\* An event that comes for a row: it is of a transfer whose terminal event was not
\* handled, and a terminal one is the outcome.
LEMMA EventIsTrue ==
    ASSUME Rows!Inv, Rows!ApplyProgress
    PROVE  \E t \in Ids, status \in {"running", "done", "failed", "cancelled"} :
             /\ t \notin told
             /\ status # "running" => status = transfer[t]
             /\ row' = IF row[t] = "absent" THEN row ELSE [row EXCEPT ![t] = status]
             /\ transfer' = transfer
<1>1. /\ wire \in Seq(Ids \X {"running", "done", "failed", "cancelled"}) /\ wire # <<>>
      /\ Rows!EventsInOrder
  BY DEF Rows!Inv, Rows!TypeOK, Rows!Rows, Rows!Ended, Rows!ApplyProgress
<1>2. 1 \in DOMAIN wire /\ Head(wire) = wire[1]
  BY <1>1, EmptySeq
<1>3. /\ wire[1][1] \in Ids /\ wire[1][2] \in {"running", "done", "failed", "cancelled"}
      /\ wire[1][1] \notin told /\ (wire[1][2] # "running" => wire[1][2] = transfer[wire[1][1]])
  BY <1>1, <1>2 DEF Rows!EventsInOrder, Rows!Ended
<1>4. /\ row' = IF row[wire[1][1]] = "absent" THEN row ELSE [row EXCEPT ![wire[1][1]] = wire[1][2]]
      /\ transfer' = transfer
  BY <1>2 DEF Rows!ApplyProgress, Rows!backend
<1> QED BY <1>3, <1>4

LEMMA RowsHonestStep ==
    ASSUME Rows!Inv, Rows!RowsAreHonest, [Rows!Next]_rowVars
    PROVE  Rows!RowsAreHonest'
<1> USE DEF Rows!backend, Rows!ui, Rows!Ended
<1>1. /\ transfer \in [Ids -> {"none", "queued", "running", "done", "failed", "cancelled"}]
      /\ row \in [Ids -> {"absent", "running", "done", "failed", "cancelled"}]
      /\ \A t \in Ids : row[t] \in {"done", "failed"} => transfer[t] = row[t]
  BY DEF Rows!Inv, Rows!TypeOK, Rows!Rows, Rows!RowsAreHonest
<1>2. ASSUME NEW t \in Ids,
             \/ Rows!Start(t) \/ Rows!Begin(t) \/ Rows!Cancel(t) \/ Rows!Cancelled(t)
             \/ Rows!RemoveRow(t) \/ Rows!Progress(t) \/ Rows!CancelArrives(t)
             \/ \E new \in Ids : Rows!Retry(t, new)
      PROVE  Rows!RowsAreHonest'
  BY <1>1, <1>2 DEF Rows!RowsAreHonest, Rows!Start, Rows!Begin, Rows!Cancel, Rows!Cancelled,
                    Rows!RemoveRow, Rows!Progress, Rows!CancelArrives, Rows!Retry
<1>3. ASSUME NEW t \in Ids, Rows!Accept(t) \/ Rows!Run(t) \/ Rows!End(t)
      PROVE  Rows!RowsAreHonest'
  <2>1. transfer[t] \in {"none", "queued", "running"} /\ row' = row
    BY <1>3 DEF Rows!Accept, Rows!Run, Rows!End, Rows!Inv, Rows!RetriesReplace
  <2>2. \A u \in Ids \ {t} : transfer'[u] = transfer[u]
    BY <1>1, <1>3 DEF Rows!Accept, Rows!Run, Rows!End
  <2> QED BY <1>1, <2>1, <2>2 DEF Rows!RowsAreHonest
<1>4. CASE Rows!ApplyProgress
  BY <1>1, <1>4, EventIsTrue DEF Rows!RowsAreHonest
<1>5. CASE UNCHANGED rowVars
  BY <1>1, <1>5 DEF rowVars, Rows!RowsAreHonest
<1> QED BY <1>2, <1>3, <1>4, <1>5 DEF Rows!Next

\* Two transfers do not run at once, as both would be the first of the queue.
LEMMA RetriesAreApart == Rows!Inv => Rows!RetriesAreExclusive
<1> SUFFICES ASSUME Rows!Inv, NEW t \in Ids, NEW u \in Ids, t # u, retryOf[t] = retryOf[u]
             PROVE  /\ ~(transfer[t] = "running" /\ transfer[u] = "running")
                    /\ row[t] = "absent" \/ row[u] = "absent"
  BY DEF Rows!RetriesAreExclusive
<1> QED BY DEF Rows!Inv, Rows!QueueIsOpen, Rows!RetriesReplace, Rows!Alive

LEMMA RowsStep == Rows!Inv /\ Rows!RowsAreHonest /\ [Rows!Next]_rowVars =>
                      (Rows!Inv /\ Rows!RowsAreHonest)'
<1> SUFFICES ASSUME Rows!Inv, Rows!RowsAreHonest, [Rows!Next]_rowVars
             PROVE  (Rows!Inv /\ Rows!RowsAreHonest)'
  OBVIOUS
<1> QED
  BY RowsTypeStep, RowsQueueStep, RowsEventsStep, RowsRetriesStep, RowsHonestStep DEF Rows!Inv

\* The list of the UI is sound, for any number of transfers and retries: a row says
\* "done" or "failed" by the outcome of its transfer only, and of a transfer and its
\* retries one has a row, and one runs.
THEOREM RowsSoundCorrect == Rows!Spec => []RowsAreSound
<1> QED BY RowsInit, RowsStep, RetriesAreApart, PTL DEF Rows!Spec, RowsAreSound, Rows!vars, rowVars

\* A row whose terminal event was handled is final, whatever was clicked before.
THEOREM FinalRowCorrect == Rows!Spec => FinalRowStays
<1>1. Rows!Inv /\ [Rows!Next]_rowVars =>
        [\A t \in Ids : t \in told /\ row[t] \in Rows!Ended => row'[t] \in {row[t], "absent"}]_rowVars
  <2> SUFFICES ASSUME Rows!Inv, Rows!Next, NEW t \in Ids, t \in told, row[t] \in Rows!Ended
               PROVE  row'[t] \in {row[t], "absent"}
    OBVIOUS
  <2> USE DEF Rows!backend, Rows!ui, Rows!Ended
  <2>1. row \in [Ids -> {"absent", "running", "done", "failed", "cancelled"}]
    BY DEF Rows!Inv, Rows!TypeOK, Rows!Rows
  <2>2. ASSUME NEW u \in Ids, Rows!Begin(u) PROVE row'[t] = row[t]
    <3>1. row[u] = "absent" /\ row' = [row EXCEPT ![u] = "running"]
      BY <2>2 DEF Rows!Begin, Rows!Inv, Rows!RetriesReplace
    <3> QED BY <2>1, <3>1
  <2>3. ASSUME NEW u \in Ids,
               \/ Rows!Start(u) \/ Rows!Cancel(u) \/ Rows!Cancelled(u) \/ Rows!RemoveRow(u)
               \/ Rows!Accept(u) \/ Rows!Run(u) \/ Rows!Progress(u) \/ Rows!End(u)
               \/ Rows!CancelArrives(u) \/ \E new \in Ids : Rows!Retry(u, new)
        PROVE  row'[t] \in {row[t], "absent"}
    BY <2>1, <2>3 DEF Rows!Start, Rows!Cancel, Rows!Cancelled, Rows!RemoveRow, Rows!Accept,
                      Rows!Run, Rows!Progress, Rows!End, Rows!CancelArrives, Rows!Retry
  <2>4. CASE Rows!ApplyProgress
    BY <2>1, <2>4, EventIsTrue
  <2> QED BY <2>2, <2>3, <2>4 DEF Rows!Next
<1> QED BY <1>1, RowsInit, RowsStep, PTL DEF Rows!Spec, FinalRowStays, Rows!FinalRowStays, Rows!vars, rowVars

=============================================================================
