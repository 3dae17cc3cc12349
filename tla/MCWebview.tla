-------------------------------- MODULE MCWebview --------------------------------
(***************************************************************************)
(* Two components of the webview for TLC, each with its liveness: a file   *)
(* in the editor (EditorSave), and a tab that reconnects (SessionTabs; the *)
(* safety of several tabs has a run of its own).  They share no state and  *)
(* no event, so a behaviour is of one of them while the other rests.       *)
(***************************************************************************)
EXTENDS EditorSave

CONSTANTS Tabs, Sessions, Doubles, None

VARIABLES part, backend, id, status, reconnecting, active, loops, sleeping, opens, closes,
          stray, wire, userClosed

tabVars == <<backend, id, status, reconnecting, active, loops, sleeping, opens, closes, stray,
             wire, userClosed>>

Terminals == INSTANCE SessionTabs

ASSUME TabsAssumption == Terminals!IdsAssumption

MCInit == part \in {"editor", "tabs"} /\ Init /\ Terminals!Init

MCNext ==
    \/ part = "editor" /\ Next /\ UNCHANGED <<part, tabVars>>
    \/ part = "tabs" /\ Terminals!Next /\ UNCHANGED <<part, vars>>

\* The fairness of EditorSave and of SessionTabs.  At rest nothing of the tabs is
\* enabled; the editor has made its first call.
MCSpec ==
    /\ MCInit /\ [][MCNext]_<<part, vars, tabVars>>
    /\ \A n \in 1 .. MaxCalls :
         WF_vars(part = "editor" /\ \E c \in calls : c.number = n /\ Handle(c))
    /\ Terminals!Fairness

\* A tab that is disconnected is connected again without the user, unless it is
\* closed (or the model has no session id left); also while an earlier session of it
\* sends its events late.
Reconnected == Terminals!Reconnected

==================================================================================
