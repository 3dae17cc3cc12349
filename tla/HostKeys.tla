------------------------------ MODULE HostKeys ------------------------------
(***************************************************************************)
(* The store of known hosts (crates/ssh-core/src/host_key.rs): the file    *)
(* known_hosts.json, the temporary file of atomic_write and                *)
(* KNOWN_HOSTS_LOCK, used by the threads of one process.  Every access to  *)
(* the disk can fail, and the process can end between any two of them; the *)
(* next one may get its number, and with it the name of the temporary      *)
(* file.                                                                   *)
(***************************************************************************)
EXTENDS KnownHosts

CONSTANTS
    Threads,
    Calls,       \* the calls that are made
    NoCall,
    Torn         \* what is in a file that was written in part

ASSUME CallsAssumption ==
    /\ Files \subseteq Seq(Lines) /\ Calls \subseteq AnyCall
    /\ NoCall \notin Calls
    /\ None \notin Threads /\ None \notin Keys /\ None \notin Answers
    /\ Torn \notin Books

VARIABLES
    lock,    \* KNOWN_HOSTS_LOCK: a thread, or None
    file,    \* known_hosts.json
    tmp,     \* the temporary file, or None
    pc,      \* "idle", "lock", "load", "create", "write", "rename"
    call,    \* the call of each thread, or NoCall
    copy,    \* the KnownHostsFile it has in memory
    answer   \* what its last call returned, or None

vars == <<lock, file, tmp, pc, call, copy, answer>>

Init ==
    /\ lock = None /\ file \in Books /\ tmp = None
    /\ pc = [t \in Threads |-> "idle"]
    /\ call = [t \in Threads |-> NoCall]
    /\ copy = [t \in Threads |-> None]
    /\ answer = [t \in Threads |-> None]

Goto(t, step) == pc' = [pc EXCEPT ![t] = step]

Begin(t) ==
    /\ pc[t] = "idle"
    /\ \E c \in Calls :
         /\ call' = [call EXCEPT ![t] = c]
         /\ Goto(t, IF Locks(c) THEN "lock" ELSE "load")
    /\ answer' = [answer EXCEPT ![t] = None]
    /\ UNCHANGED <<lock, file, tmp, copy>>

\* Slip: nobody waits for the lock.
Acquire_Unlocked(t) ==
    /\ pc[t] = "lock"
    /\ lock' = t
    /\ Goto(t, "load")
    /\ UNCHANGED <<file, tmp, call, copy, answer>>

Acquire(t) ==
    /\ pc[t] = "lock" /\ lock = None
    /\ lock' = t
    /\ Goto(t, "load")
    /\ UNCHANGED <<file, tmp, call, copy, answer>>

\* The guard is dropped with the function's frame.
Return(t, what) ==
    /\ answer' = [answer EXCEPT ![t] = what]
    /\ call' = [call EXCEPT ![t] = NoCall]
    /\ copy' = [copy EXCEPT ![t] = None]
    /\ lock' = IF lock = t THEN None ELSE lock
    /\ Goto(t, "idle")

\* The file is read and compared; the function returns, or changes its copy.
\* A list returns what it reads; AcceptAll reads nothing.
Load(t) ==
    /\ pc[t] = "load" /\ file # Torn
    /\ IF Stores(call[t], file)
       THEN /\ copy' = [copy EXCEPT ![t] = After(call[t], file)]
            /\ Goto(t, "create")
            /\ UNCHANGED <<lock, call, answer>>
       ELSE Return(t, Reply(call[t], file))
    /\ UNCHANGED <<file, tmp>>

LoadFails(t) ==
    /\ pc[t] = "load" /\ call[t].fn # "acceptAll"
    /\ Return(t, "error")
    /\ UNCHANGED <<file, tmp>>

(* atomic_write *)

\* A temporary file that a crash left is removed, and a new one created.
Create(t) ==
    /\ pc[t] = "create"
    /\ tmp' = Torn
    /\ Goto(t, "write")
    /\ UNCHANGED <<lock, file, call, copy, answer>>

CreateFails(t) ==
    /\ pc[t] = "create"
    /\ tmp' \in {tmp, None}
    /\ Return(t, "error")
    /\ UNCHANGED file

\* write_all and sync_all.
Write(t) ==
    /\ pc[t] = "write"
    /\ tmp' = copy[t]
    /\ Goto(t, "rename")
    /\ UNCHANGED <<lock, file, call, copy, answer>>

WriteFails(t) ==
    /\ pc[t] = "write"
    /\ Return(t, "error")
    /\ UNCHANGED <<file, tmp>>

Rename(t) ==
    /\ pc[t] = "rename"
    /\ file' = tmp /\ tmp' = None
    /\ Return(t, Reply(call[t], file))

RenameFails(t) ==
    /\ pc[t] = "rename"
    /\ tmp' = None
    /\ Return(t, "error")
    /\ UNCHANGED file

Crash ==
    /\ lock' = None
    /\ tmp' \in {tmp, None}
    /\ pc' = [t \in Threads |-> "idle"]
    /\ call' = [t \in Threads |-> NoCall]
    /\ copy' = [t \in Threads |-> None]
    /\ answer' = [t \in Threads |-> None]
    /\ UNCHANGED file

Step(t) ==
    \/ Begin(t) \/ Acquire(t) \/ Load(t) \/ LoadFails(t)
    \/ Create(t) \/ CreateFails(t) \/ Write(t) \/ WriteFails(t)
    \/ Rename(t) \/ RenameFails(t)

Next == Crash \/ \E t \in Threads : Step(t)

Spec == Init /\ [][Next]_vars

-----------------------------------------------------------------------------
(* Properties *)

Inside == {"create", "write", "rename"}

TypeOK ==
    /\ lock \in Threads \cup {None}
    /\ file \in Books
    /\ tmp \in Books \cup {Torn, None}
    /\ pc \in [Threads -> {"idle", "lock", "load"} \cup Inside]
    /\ call \in [Threads -> Calls \cup {NoCall}]
    /\ copy \in [Threads -> Books \cup {None}]
    /\ answer \in [Threads -> Answers \cup {None}]
    /\ \A t \in Threads : call[t] = NoCall <=> pc[t] = "idle"

\* A thread that changes the file holds the lock, and what it is about to save is
\* its own change of what the file says now: no entry that another thread stored
\* since it read the file is lost.
SavesAreFresh ==
    \A t \in Threads :
        /\ lock = t => pc[t] \in {"load"} \cup Inside
        /\ pc[t] = "load" /\ Locks(call[t]) => lock = t
        /\ pc[t] \in Inside =>
             /\ lock = t
             /\ Stores(call[t], file) /\ copy[t] = After(call[t], file)
        /\ pc[t] = "rename" => tmp = copy[t]

\* The types (the file is always whole), and that saves are fresh.
Inv == TypeOK /\ SavesAreFresh

\* The calls are atomic: each one takes effect as a whole at one moment and is
\* answered accordingly, or fails and changes nothing, whatever accesses fail, and
\* a crash at any moment loses and invents no entry.
Trusted == INSTANCE TrustedHosts WITH book <- file
ImplementsTrustedHosts == Trusted!Spec

=============================================================================
