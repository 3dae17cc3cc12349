-------------------------------- MODULE TransferRows --------------------------------
(***************************************************************************)
(* The transfer list of the UI (src/stores/transfers.ts, TransferBar.tsx   *)
(* and the upload and download handlers of FilesView.tsx) against the      *)
(* transfers of one session.  The webview and the backend are two          *)
(* processes: commands are invoked and answered asynchronously, progress   *)
(* events come over an ordered event bridge, and nothing orders the answer *)
(* of a command with the events of the transfer it started.                *)
(***************************************************************************)
EXTENDS Integers, FiniteSets, SequencesExt

CONSTANTS
    Ids,       \* transfer ids (Uuid::new_v4: each is used once)
    MaxRunning \* bound on the "running" events of one transfer

VARIABLES
    invoke,    \* the sftp_upload or sftp_download call that gets the id:
               \* "none", "sent", "answered", "resolved", "rejected"
    job,       \* the transfer in the backend
    queue,     \* the transfers queued for the SFTP sub-worker, the running one first
    flag,      \* transfers whose cancel flag is set
    sent,      \* "running" events sent, per transfer
    wire,      \* events on their way to the webview
    told,      \* transfers whose terminal event the webview has handled
    row,       \* the row of each transfer, or "absent"
    cancel,    \* the transfer_cancel call of the row: "none", "sent", "answered"
    retryOf    \* the transfer whose row a retry removed, or the id itself

vars == <<invoke, job, queue, flag, sent, wire, told, row, cancel, retryOf>>

backend == <<job, queue, flag, sent>>
ui == <<told, row, retryOf>>

Ended == {"done", "failed", "cancelled"}
Rows == {"absent", "running"} \cup Ended

TypeOK ==
    /\ invoke \in [Ids -> {"none", "sent", "answered", "resolved", "rejected"}]
    /\ job \in [Ids -> {"none", "queued", "running"} \cup Ended]
    /\ queue \in Seq(Ids)
    /\ flag \subseteq Ids
    /\ sent \in [Ids -> 0 .. MaxRunning]
    /\ wire \in Seq(Ids \X (Rows \ {"absent"}))
    /\ told \subseteq Ids
    /\ row \in [Ids -> Rows]
    /\ cancel \in [Ids -> {"none", "sent", "answered"}]
    /\ retryOf \in [Ids -> Ids]

Init ==
    /\ invoke = [t \in Ids |-> "none"]
    /\ job = [t \in Ids |-> "none"]
    /\ queue = <<>>
    /\ flag = {}
    /\ sent = [t \in Ids |-> 0]
    /\ wire = <<>>
    /\ told = {}
    /\ row = [t \in Ids |-> "absent"]
    /\ cancel = [t \in Ids |-> "none"]
    /\ retryOf = [t \in Ids |-> t]

-----------------------------------------------------------------------------
(* The webview *)

\* enqueueUploads, a download: the command is invoked, the row comes later.
Start(t) ==
    /\ invoke[t] = "none"
    /\ invoke' = [invoke EXCEPT ![t] = "sent"]
    /\ UNCHANGED <<backend, wire, ui, cancel>>

\* The promise resolves with the id: begin adds a running row.
Begin(t) ==
    /\ invoke[t] = "answered"
    /\ invoke' = [invoke EXCEPT ![t] = "resolved"]
    /\ row' = [row EXCEPT ![t] = "running"]
    /\ UNCHANGED <<backend, wire, told, cancel, retryOf>>

\* applyProgress: the event overwrites the status of its row; an event of a
\* transfer that has no row is ignored.
ApplyProgress ==
    /\ wire # <<>>
    /\ LET t == Head(wire)[1]
           status == Head(wire)[2]
       IN  /\ row' = IF row[t] = "absent" THEN row ELSE [row EXCEPT ![t] = status]
           /\ told' = IF status \in Ended THEN told \cup {t} ELSE told
    /\ wire' = Tail(wire)
    /\ UNCHANGED <<invoke, backend, cancel, retryOf>>

\* The cancel button of a running row (and cancelAll).
Cancel(t) ==
    /\ row[t] = "running"
    /\ cancel[t] = "none"
    /\ cancel' = [cancel EXCEPT ![t] = "sent"]
    /\ UNCHANGED <<invoke, backend, wire, ui>>

\* Slip: the row is marked whatever it says by now.
Cancelled_Always(t) ==
    /\ cancel[t] = "answered"
    /\ cancel' = [cancel EXCEPT ![t] = "none"]
    /\ row' = [row EXCEPT ![t] = IF @ = "absent" THEN @ ELSE "cancelled"]
    /\ UNCHANGED <<invoke, backend, wire, told, retryOf>>

\* cancel goes on when transfer_cancel has answered, with success or not: a row
\* that still runs is marked.
Cancelled(t) ==
    /\ cancel[t] = "answered"
    /\ cancel' = [cancel EXCEPT ![t] = "none"]
    /\ row' = [row EXCEPT ![t] = IF @ = "running" THEN "cancelled" ELSE @]
    /\ UNCHANGED <<invoke, backend, wire, told, retryOf>>

\* The retry button of a failed or cancelled row: remove the row, start again.
Retry(t, new) ==
    /\ row[t] \in {"failed", "cancelled"}
    /\ invoke[new] = "none"
    /\ row' = [row EXCEPT ![t] = "absent"]
    /\ invoke' = [invoke EXCEPT ![new] = "sent"]
    /\ retryOf' = [retryOf EXCEPT ![new] = retryOf[t]]
    /\ UNCHANGED <<backend, wire, told, cancel>>

\* remove and clearFinished: rows that do not run.
RemoveRow(t) ==
    /\ row[t] \in Ended
    /\ row' = [row EXCEPT ![t] = "absent"]
    /\ UNCHANGED <<invoke, backend, wire, told, cancel, retryOf>>

-----------------------------------------------------------------------------
(* The backend: SessionManager and the SFTP sub-worker of the session *)

\* sftp_upload, sftp_download: register and queue, or refuse.
Accept(t) ==
    /\ invoke[t] = "sent"
    /\ \/ /\ invoke' = [invoke EXCEPT ![t] = "answered"]
          /\ job' = [job EXCEPT ![t] = "queued"]
          /\ queue' = Append(queue, t)
       \/ /\ invoke' = [invoke EXCEPT ![t] = "rejected"]
          /\ UNCHANGED <<job, queue>>
    /\ UNCHANGED <<flag, sent, wire, ui, cancel>>

\* Slip: every transfer is run as soon as it is queued.
Run_Parallel(t) ==
    /\ job[t] = "queued"
    /\ job' = [job EXCEPT ![t] = "running"]
    /\ UNCHANGED <<invoke, queue, flag, sent, wire, ui, cancel>>

\* The sub-worker takes the next command.
Run(t) ==
    /\ queue # <<>> /\ Head(queue) = t
    /\ job[t] = "queued"
    /\ job' = [job EXCEPT ![t] = "running"]
    /\ UNCHANGED <<invoke, queue, flag, sent, wire, ui, cancel>>

\* on_progress
Progress(t) ==
    /\ job[t] = "running"
    /\ sent[t] < MaxRunning
    /\ sent' = [sent EXCEPT ![t] = @ + 1]
    /\ wire' = Append(wire, <<t, "running">>)
    /\ UNCHANGED <<invoke, job, queue, flag, ui, cancel>>

\* emit_transfer_result, then finish and the next command; or fail_sftp_command
\* for a queued transfer that cannot be run.
End(t) ==
    /\ \/ job[t] = "running"
       \/ job[t] = "queued" /\ Head(queue) = t
    /\ \E outcome \in Ended :
         /\ outcome = "cancelled" => t \in flag
         /\ job[t] = "queued" => outcome = "failed"
         /\ job' = [job EXCEPT ![t] = outcome]
         /\ wire' = Append(wire, <<t, outcome>>)
    /\ queue' = Tail(queue)
    /\ UNCHANGED <<invoke, flag, sent, ui, cancel>>

\* transfer_cancel: a transfer that is not tracked any more is an error, which
\* the UI ignores.
CancelArrives(t) ==
    /\ cancel[t] = "sent"
    /\ cancel' = [cancel EXCEPT ![t] = "answered"]
    /\ flag' = IF job[t] \in {"queued", "running"} THEN flag \cup {t} ELSE flag
    /\ UNCHANGED <<invoke, job, queue, sent, wire, ui>>

-----------------------------------------------------------------------------

Next ==
    \/ \E t \in Ids :
         \/ Start(t) \/ Begin(t) \/ Cancel(t) \/ Cancelled(t) \/ RemoveRow(t)
         \/ Accept(t) \/ Run(t) \/ Progress(t) \/ End(t) \/ CancelArrives(t)
         \/ \E new \in Ids : Retry(t, new)
    \/ ApplyProgress

Spec == Init /\ [][Next]_vars

-----------------------------------------------------------------------------
(* Properties *)

\* A row tells no lie of success or failure: "done" and "failed" come from the
\* backend only, whatever the user clicked.
RowsAreHonest == \A t \in Ids : row[t] \in {"done", "failed"} => job[t] = row[t]

\* Once the webview has handled the terminal event of a row the row is final: a
\* cancel that was clicked before, or progress, does not change it any more.
FinalRowStays ==
    [][\A t \in Ids : t \in told /\ row[t] \in Ended => row'[t] \in {row[t], "absent"}]_vars

\* A transfer that was retried does not come back, and its files are not written
\* by two transfers at once, although the old one may still be running when the
\* new one is queued.
RetriesAreExclusive ==
    \A t, u \in Ids :
        t # u /\ retryOf[t] = retryOf[u] =>
            /\ ~(job[t] = "running" /\ job[u] = "running")
            /\ row[t] = "absent" \/ row[u] = "absent"

\* The queue of the sub-worker has the transfers that have not ended, each once, and
\* the one that runs is the first.
QueueIsOpen ==
    /\ IsInjective(queue)
    /\ \A t \in Ids : t \in ToSet(queue) <=> job[t] \in {"queued", "running"}
    /\ \A t \in Ids : job[t] = "running" => Head(queue) = t

\* The events of a transfer arrive in order: its terminal event is sent once, after
\* its progress.
EventsInOrder ==
    /\ \A t \in told : job[t] \in Ended
    /\ \A i, j \in DOMAIN wire :
         i < j /\ wire[i][1] = wire[j][1] => wire[i][2] = "running"
    /\ \A i \in DOMAIN wire : wire[i][1] \notin told
    /\ \A i \in DOMAIN wire : wire[i][2] \in Ended => wire[i][2] = job[wire[i][1]]

\* A transfer that the webview has asked for, or shows.
Alive(t) == invoke[t] \in {"sent", "answered"} \/ row[t] # "absent"

\* A row stands for a command that was answered, and of a transfer and its retries one
\* is alive; an id that was not given out yet is no retry and has none.
RetriesReplace ==
    /\ \A t \in Ids : invoke[t] \in {"none", "sent", "rejected"} => job[t] = "none"
    /\ \A t \in Ids : invoke[t] # "resolved" => row[t] = "absent"
    /\ \A t, u \in Ids : invoke[t] = "none" => (retryOf[u] = t <=> u = t)
    /\ \A t, u \in Ids : t # u /\ retryOf[t] = retryOf[u] => ~Alive(t) \/ ~Alive(u)

\* The types, the queue, the events and the retries.
Inv == TypeOK /\ QueueIsOpen /\ EventsInOrder /\ RetriesReplace

=============================================================================
