-------------------------------- MODULE TransferCopy --------------------------------
(***************************************************************************)
(* One upload or download on the SFTP sub-worker: the copy loops of        *)
(* crates/ssh-core/src/sftp.rs (upload_dir, download_dir and               *)
(* copy_file_cumulative; upload, download and copy_loop for one file) and  *)
(* the terminal event of emit_transfer_result, with a cancel flag that     *)
(* another thread may set at any moment.                                   *)
(*                                                                         *)
(* Bytes are counted, not represented.  The source may change between the  *)
(* walk that sums the sizes and the copy, so the size a file turns out to  *)
(* have is chosen when it is opened.                                       *)
(***************************************************************************)
EXTENDS Integers

CONSTANTS
    MaxFiles,   \* bound on the number of files the walk of a tree finds
    MaxSize,    \* bound on the size of a file when it is opened
    Chunk,      \* CHUNK_SIZE
    Interval    \* PROGRESS_INTERVAL

ASSUME SizesAssumption == MaxFiles \in Nat /\ MaxSize \in Nat /\ Chunk \in Nat \ {0} /\ Interval \in Nat \ {0}

VARIABLES
    directory,    \* a tree is copied (TRUE), or a single file (FALSE)
    files,        \* the number of files to copy
    at,           \* "start", "next", "open", "copy", "flush", "done", "cancelled", "failed"
    file,         \* index of the current file
    left,         \* bytes of the current file not read yet
    copied,       \* bytes written so far, over all files
    last,         \* bytes at the last periodic report
    reported,     \* the bytes the UI was last told
    terminal,     \* the terminal event: its status, or "none"
    cancel,       \* the cancel flag
    found,        \* history: the bytes of all files that were opened
    lateBytes,    \* history: bytes written after the flag was set
    lateFiles     \* history: destination files created after the flag was set

job == <<directory, files>>
late == <<lateBytes, lateFiles>>
vars == <<directory, files, at, file, left, copied, last, reported, terminal, cancel,
          found, lateBytes, lateFiles>>

Running == {"start", "next", "open", "copy", "flush"}

TypeOK ==
    /\ at \in Running \cup {"done", "cancelled", "failed"}
    /\ directory \in BOOLEAN
    /\ files \in Nat /\ file \in 0 .. files
    /\ left \in Nat /\ copied \in Nat /\ last \in Nat /\ reported \in Nat
    /\ terminal \in {"none", "done", "cancelled", "failed"}
    /\ cancel \in BOOLEAN
    /\ found \in Nat
    /\ lateBytes \in Nat /\ lateFiles \in Nat

Init ==
    /\ directory \in BOOLEAN
    /\ files \in IF directory THEN 0 .. MaxFiles ELSE {1}
    /\ at = "start"
    /\ file = 0
    /\ left = 0 /\ copied = 0 /\ last = 0 /\ reported = 0
    /\ terminal = "none"
    /\ cancel = FALSE
    /\ found = 0
    /\ lateBytes = 0 /\ lateFiles = 0

-----------------------------------------------------------------------------

\* transfer_cancel or the teardown of the session, on another thread.
SetCancel ==
    /\ ~cancel
    /\ cancel' = TRUE
    /\ UNCHANGED <<job, at, file, left, copied, last, reported, terminal, found, late>>

\* Any call to the file system or to the server may fail: `?` leaves the loop.
Fail ==
    /\ at \in {"start", "open", "copy", "flush"}
    /\ at' = "failed"
    /\ UNCHANGED <<job, file, left, copied, last, reported, terminal, cancel, found, late>>

\* The walk of a tree (collect_local, collect_remote) ends with the report of
\* the total.  A single file is opened at once and looks at the flag later.
Start ==
    /\ at = "start"
    /\ IF directory THEN at' = "next" /\ UNCHANGED file
                    ELSE at' = "open" /\ file' = 1
    /\ reported' = 0
    /\ UNCHANGED <<job, left, copied, last, terminal, cancel, found, late>>

\* Between two files of a tree.
NextFile ==
    /\ at = "next"
    /\ IF file = files
       THEN /\ at' = "done"
            /\ reported' = copied
            /\ UNCHANGED file
       ELSE /\ at' = IF cancel THEN "cancelled" ELSE "open"
            /\ file' = IF cancel THEN file ELSE file + 1
            /\ UNCHANGED reported
    /\ UNCHANGED <<job, left, copied, last, terminal, cancel, found, late>>

\* Open the source, create (and truncate) the destination.
Open ==
    /\ at = "open"
    /\ \E size \in 0 .. MaxSize :
         /\ left' = size
         /\ found' = found + size
    /\ at' = "copy"
    /\ lateFiles' = IF cancel THEN lateFiles + 1 ELSE lateFiles
    /\ UNCHANGED <<job, file, copied, last, reported, terminal, cancel, lateBytes>>

\* Slip: a cancelled file is left, the transfer goes on.
SeeCancel_SkipsFile ==
    /\ at = "copy"
    /\ cancel
    /\ at' = "flush"
    /\ UNCHANGED <<job, file, left, copied, last, reported, terminal, cancel, found, late>>

\* The flag is looked at before every chunk.
SeeCancel ==
    /\ at = "copy"
    /\ cancel
    /\ at' = "cancelled"
    /\ UNCHANGED <<job, file, left, copied, last, reported, terminal, cancel, found, late>>

\* Slip: the bytes since the last report are reported.
Report_Delta(bytes) ==
    IF bytes - last >= Interval
    THEN reported' = bytes - last /\ last' = bytes
    ELSE UNCHANGED <<reported, last>>

\* A report at least every Interval bytes.
Report(bytes) ==
    IF bytes - last >= Interval
    THEN reported' = bytes /\ last' = bytes
    ELSE UNCHANGED <<reported, last>>

\* Slip: the flag is looked at between files only.
CopyChunk_Unchecked ==
    /\ at = "copy"
    /\ left > 0
    /\ \E n \in 1 .. Chunk :
         /\ n <= left
         /\ left' = left - n
         /\ copied' = copied + n
         /\ Report(copied + n)
         /\ lateBytes' = IF cancel THEN lateBytes + n ELSE lateBytes
    /\ UNCHANGED <<job, at, file, terminal, cancel, found, lateFiles>>

\* The check of the flag, then one chunk: read at most Chunk bytes, write them
\* all.  The flag may be set while the chunk is on its way.
CopyChunk ==
    /\ at = "copy"
    /\ ~cancel
    /\ left > 0
    /\ \E n \in 1 .. Chunk :
         /\ n <= left
         /\ left' = left - n
         /\ copied' = copied + n
         /\ Report(copied + n)
         /\ cancel' \in BOOLEAN
         /\ lateBytes' = IF cancel' THEN lateBytes + n ELSE lateBytes
    /\ UNCHANGED <<job, at, file, terminal, found, lateFiles>>

\* The source is at its end.
EndOfFile ==
    /\ at = "copy"
    /\ ~cancel
    /\ left = 0
    /\ at' = "flush"
    /\ UNCHANGED <<job, file, left, copied, last, reported, terminal, cancel, found, late>>

\* Flush; a single file is then done, a tree goes on.
Flush ==
    /\ at = "flush"
    /\ IF directory THEN at' = "next" /\ UNCHANGED reported
                    ELSE at' = "done" /\ reported' = copied
    /\ UNCHANGED <<job, file, left, copied, last, terminal, cancel, found, late>>

\* emit_transfer_result: a failure reports no bytes.
Emit ==
    /\ at \in {"done", "cancelled", "failed"}
    /\ terminal = "none"
    /\ terminal' = at
    /\ reported' = IF at = "failed" THEN 0 ELSE copied
    /\ UNCHANGED <<job, at, file, left, copied, last, cancel, found, late>>

Finished == terminal # "none" /\ UNCHANGED vars

Step == Start \/ NextFile \/ Open \/ SeeCancel \/ CopyChunk \/ EndOfFile \/ Flush \/ Emit

Next == SetCancel \/ Fail \/ Step \/ Finished

Spec == Init /\ [][Next]_vars

\* The sub-worker thread runs; a blocked libssh2 call fails by its timeout.
FairSpec == Spec /\ WF_vars(Step)

-----------------------------------------------------------------------------
(* Properties *)

\* "Cooperative cancel": once the flag is set at most the chunk in flight is
\* still written, and at most one more destination file is created, however
\* many files are left.
CancelIsPrompt == lateBytes <= Chunk /\ lateFiles <= 1

\* The terminal event tells the truth: "done" only when every file was copied
\* to the end it turned out to have, "cancelled" only when that was asked for.
HonestOutcome ==
    /\ terminal = "done" => file = files /\ copied = found
    /\ terminal = "cancelled" => cancel

\* While bytes are copied the UI is less than one Interval behind, over file
\* boundaries too, and it is never told of bytes that were not written.
UiFollows ==
    /\ reported <= copied
    /\ at \in Running => copied - reported < Interval

\* The progress bar never goes back, except for a failure.
ProgressMonotone == [][terminal' # "failed" => reported' >= reported]_vars

\* What the UI is told of a transfer, while it runs and at its end, is true.
HonestReports == HonestOutcome /\ UiFollows

\* The command is answered in the end: every transfer gets its terminal event.
Ends == <>(terminal # "none")

\* The inductive invariant behind these properties.
Inv ==
    /\ TypeOK
    /\ copied + left = found
    /\ reported <= copied
    /\ terminal # "none" => terminal = at
    /\ at = "start" => copied = 0 /\ left = 0 /\ last = 0 /\ file = 0
    /\ ~directory => files = 1 /\ at # "next" /\ (at \notin {"start", "failed"} => file = 1)
    /\ at = "done" => file = files /\ left = 0
    /\ at \in {"next", "flush"} => left = 0
    /\ at = "open" => left = 0
    /\ at = "cancelled" => cancel
    /\ at \in Running => copied - last < Interval /\ reported = last
    /\ ~cancel => lateBytes = 0 /\ lateFiles = 0
    /\ lateBytes <= Chunk
    /\ lateFiles <= 1
    /\ at \in {"start", "next", "open", "flush"} => lateFiles = 0

=============================================================================
