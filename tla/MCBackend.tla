------------------------------ MODULE MCBackend ------------------------------
(***************************************************************************)
(* Three components behind the commands of the application for TLC, with   *)
(* their liveness: the session commands (AppSessions), the tunnels of a    *)
(* session (Tunnels), and the attempts to connect (Connect, here with all  *)
(* hosts known; what becomes of unknown ones is checked in MCConnections). *)
(* What one knows of another is in its own module; a behaviour is of one   *)
(* of them while the others rest.                                          *)
(***************************************************************************)
EXTENDS AppSessions

CONSTANTS
    Tunnels, Remote, Refreshes, MaxCommands, MaxStarts,
    Hosts, Keys, Files, Attempts, Gone, MaxTries, MaxEdits, spare, h1, k1

VARIABLES
    part,
    chan, at, serving, handle, thread, stop, relays, wire, given, asked, answer, live, closing,
    jump, key, book, edits, attempt, from, chain, hop, try, shown, error, relay, told_to,
    opening, told, prompt, dialog, trusting, sent, approved, questions

tunnelVars == <<chan, at, serving, handle, thread, stop, relays, wire, given, asked, answer,
                live, closing>>
connectVars == <<jump, key, book, edits, attempt, from, chain, hop, try, shown, error, relay,
                 told_to, opening, told, prompt, dialog, trusting, sent, approved, questions>>

Forwards == INSTANCE Tunnels WITH commands <- given
Connecting == INSTANCE Connect WITH at <- attempt, stop <- told_to, asked <- questions

ASSUME SessionsAssumption == KindsAssumption
ASSUME ForwardsAssumption == Forwards!TunnelsAssumption
ASSUME ConnectingAssumption == Connecting!ConnectAssumption

\* One host is behind the other.  The keys are known.
MCInit ==
    /\ part \in {"sessions", "tunnels", "connect"}
    /\ Init /\ Forwards!Init /\ Connecting!Init
    /\ jump = [h \in Hosts |-> IF h = h1 THEN None ELSE h1]
    /\ key = [h \in Hosts |-> k1] /\ book = key

\* To keep the model small, one session is the one that a session_reconnect opens,
\* and the user leaves it alone.
Spared ==
    /\ close'[spare] = "idle" /\ spare \notin logs'
    /\ open[spare] = "idle" /\ open'[spare] # "idle" =>
           \E s \in Sessions : reopens'[s] = spare

MCNext ==
    \/ part = "sessions" /\ Next /\ Spared /\ UNCHANGED <<part, tunnelVars, connectVars>>
    \/ part = "tunnels" /\ Forwards!Next /\ UNCHANGED <<part, vars, connectVars>>
    \/ part = "connect" /\ Connecting!Next /\ UNCHANGED <<part, vars, tunnelVars>>

\* The fairness of the parts.  What rests is not enabled, but for the timer of the
\* list of tunnels.
MCSpec ==
    /\ MCInit /\ [][MCNext]_<<part, vars, tunnelVars, connectVars>>
    /\ Fairness /\ Forwards!Fairness /\ Connecting!Fairness
    /\ \A r \in Refreshes : WF_tunnelVars(part = "tunnels" /\ Forwards!Refresh(r))

-----------------------------------------------------------------------------
(* Properties *)

\* The invariants of the session commands and of the tunnels.
BackendInv == Inv /\ Forwards!Inv /\ Forwards!StoppedForGood


=============================================================================
