-------------------------------- MODULE MCTransfers --------------------------------
(***************************************************************************)
(* Transfers for TLC: the copy loops of one transfer (TransferCopy) and    *)
(* the list of many (TransferRows).  All the list sees of a copy are its   *)
(* events, which TransferRows has in every order a copy can send them in;  *)
(* a product of the two would multiply their states and add nothing, so a  *)
(* behaviour is of one of them while the other rests.                      *)
(***************************************************************************)
EXTENDS TransferCopy, TLC

CONSTANTS
    Ids,       \* transfer ids
    MaxRunning \* bound on the "running" events of one transfer

VARIABLES part, invoke, transfer, queue, flag, sent, wire, told, row, click, retryOf

rowVars == <<invoke, transfer, queue, flag, sent, wire, told, row, click, retryOf>>

Rows == INSTANCE TransferRows WITH job <- transfer, cancel <- click

ASSUME RunningAssumption == MaxRunning \in Nat

MCInit == part \in {"copy", "rows"} /\ Init /\ Rows!Init /\ (part = "rows" => ~directory /\ files = 1)

MCNext ==
    \/ part = "copy" /\ Next /\ UNCHANGED <<part, rowVars>>
    \/ part = "rows" /\ Rows!Next /\ UNCHANGED <<part, vars>>

MCSpec == MCInit /\ [][MCNext]_<<part, vars, rowVars>> /\ WF_vars(part = "copy" /\ Step)

\* Ids are interchangeable; a behaviour of the copy, which has the liveness
\* property, does not depend on them.
IdSymmetry == Permutations(Ids)

\* The list of the UI is sound: no row says "done" or "failed" but by the outcome
\* of its transfer, a retried transfer does not come back or run twice at once,
\* and the events of a transfer arrive in order.
RowsAreSound == Rows!Inv /\ Rows!RowsAreHonest /\ Rows!RetriesAreExclusive

\* Once the webview has handled the terminal event of a row, the row stays as it
\* is: a cancel that was clicked before does not change it.
FinalRowStays == Rows!FinalRowStays

\* A transfer that is copied gets its terminal event, whether it fails, is
\* cancelled or copies all, and the bytes the UI is told of never go back.
ProgressToTheEnd == (part = "copy" => Ends) /\ ProgressMonotone

===================================================================================
