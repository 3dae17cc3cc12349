---------------------------- MODULE TrustedHosts ----------------------------
(***************************************************************************)
(* What the store of known hosts promises to the threads that use it: a    *)
(* call either takes effect as a whole, on the hosts known at that moment, *)
(* and is answered accordingly, or fails and changes nothing; and a crash  *)
(* of the application changes nothing either.                              *)
(***************************************************************************)
EXTENDS KnownHosts

CONSTANTS Threads, Calls, NoCall

VARIABLES book,    \* the known hosts
          call,    \* the call of each thread, or NoCall
          answer   \* what its last call returned, or None

Init ==
    /\ book \in Books
    /\ call = [t \in Threads |-> NoCall]
    /\ answer = [t \in Threads |-> None]

Begin(t) ==
    /\ call[t] = NoCall
    /\ \E c \in Calls : call' = [call EXCEPT ![t] = c]
    /\ answer' = [answer EXCEPT ![t] = None]
    /\ UNCHANGED book

Returns(t, what) ==
    /\ call[t] # NoCall
    /\ call' = [call EXCEPT ![t] = NoCall]
    /\ answer' = [answer EXCEPT ![t] = what]

Effect(t) ==
    /\ Returns(t, Reply(call[t], book))
    /\ book' = After(call[t], book)

Failure(t) == Returns(t, "error") /\ UNCHANGED book

Crash ==
    /\ call' = [t \in Threads |-> NoCall]
    /\ answer' = [t \in Threads |-> None]
    /\ UNCHANGED book

Next == Crash \/ \E t \in Threads : Begin(t) \/ Effect(t) \/ Failure(t)

Spec == Init /\ [][Next]_<<book, call, answer>>

=============================================================================
