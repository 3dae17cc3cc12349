-------------------------------- MODULE TransferJob --------------------------------
(***************************************************************************)
(* What a session promises about its uploads and downloads, whatever       *)
(* threads, queues and sub-workers carry them out: a transfer is refused   *)
(* at once or accepted; an accepted transfer ends at most once, with one   *)
(* outcome that never changes; it is reported as cancelled only when       *)
(* somebody asked for that.                                                *)
(***************************************************************************)
CONSTANT Jobs

VARIABLES job,    \* the state of every transfer
          asked   \* transfers whose cancellation was requested

Ended == {"done", "failed", "cancelled"}

TypeOK ==
    /\ job \in [Jobs -> {"new", "refused", "accepted"} \cup Ended]
    /\ asked \subseteq Jobs

Init ==
    /\ job = [j \in Jobs |-> "new"]
    /\ asked = {}

Answer(j) ==
    /\ job[j] = "new"
    /\ \E answer \in {"refused", "accepted"} : job' = [job EXCEPT ![j] = answer]
    /\ UNCHANGED asked

\* A user cancels one transfer, the end of the session all that are left.
Ask ==
    /\ \E some \in SUBSET {j \in Jobs : job[j] # "new"} : asked' = asked \cup some
    /\ UNCHANGED job

End(j) ==
    /\ job[j] = "accepted"
    /\ \E outcome \in Ended :
         /\ outcome = "cancelled" => j \in asked
         /\ job' = [job EXCEPT ![j] = outcome]
    /\ UNCHANGED asked

Next == Ask \/ \E j \in Jobs : Answer(j) \/ End(j)

Spec == Init /\ [][Next]_<<job, asked>>

=============================================================================
