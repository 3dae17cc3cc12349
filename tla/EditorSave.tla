---------------------------- MODULE EditorSave ----------------------------
(***************************************************************************)
(* The life of one file in the editor (FileEditor.tsx and EditorTabs.tsx   *)
(* under src/components/editor, and the editor part of stores/ui.ts):      *)
(* loading, typing, the debounced auto-save, saves with retries, the flush *)
(* when the editor is unmounted, and the reconnect that gives the tab a    *)
(* new session.                                                            *)
(*                                                                         *)
(* Contents are version numbers.  Every sftp_read_text and sftp_write_text *)
(* runs on a thread of its own (run_blocking), so that of two calls that   *)
(* are under way either may reach the server first.                        *)
(***************************************************************************)
EXTENDS Integers, FiniteSets

CONSTANTS
    MaxEdits,    \* bound on the contents the user types
    MaxMounts,   \* bound on the editors mounted for the file, and on its sessions
    MaxCalls     \* bound on the calls made

Attempts == 3    \* SAVE_RETRY_MAX

ASSUME BoundsAssumption == MaxEdits \in Nat /\ MaxMounts \in Nat \ {0} /\ MaxCalls \in Nat \ {0}

VARIABLES
    tab,        \* the tab in editorTabs: "open" or "closed"
    session,    \* generation of the session the tab is bound to
    alive,      \* the session of that generation still serves calls
    mount,      \* the number of editors mounted so far
    view,       \* the current editor: "none", "loading", "ready", "error"
    doc,        \* the text in the current editor
    baseline,   \* per editor: baselineRef, the text last loaded or saved
    timer,      \* the auto-save timer of the current editor is set
    saving,     \* per editor: the text handleSave is writing (isSavingRef), or NoText
    attempt,    \* per editor: the attempts of that handleSave so far
    dirty,      \* the dirty flag of the tab
    calls,      \* calls under way or answered
    made,       \* the number of calls made so far
    remote,     \* the file on the server
    edits,      \* the number of contents typed so far
    written,    \* history: contents the file has had
    told        \* history: <<text, shown>> for each write that failed for good

NoText == -1
Stub == -2       \* the text of a file that was truncated and not written to its end
Torn == -3       \* the state of such a file

editor == <<mount, view, doc, timer>>
server == <<remote, written>>
vars == <<tab, session, alive, mount, view, doc, baseline, timer, saving, attempt, dirty,
          calls, made, remote, edits, written, told>>

Texts == (0 .. MaxEdits) \cup {Stub}
Calls == [kind : {"read", "save", "flush"}, text : Texts \cup {NoText}, editor : 1 .. MaxMounts,
          session : 1 .. MaxMounts, number : 1 .. MaxCalls, at : {"sent", "ok", "failed"}]

TypeOK ==
    /\ tab \in {"open", "closed"}
    /\ session \in 1 .. MaxMounts
    /\ alive \in BOOLEAN
    /\ mount \in 1 .. MaxMounts
    /\ view \in {"none", "loading", "ready", "error"}
    /\ doc \in Texts
    /\ baseline \in [1 .. MaxMounts -> Texts]
    /\ timer \in BOOLEAN
    /\ saving \in [1 .. MaxMounts -> Texts \cup {NoText}]
    /\ attempt \in [1 .. MaxMounts -> 0 .. Attempts]
    /\ dirty \in BOOLEAN
    /\ calls \subseteq Calls
    /\ made \in 0 .. MaxCalls
    /\ remote \in Texts \cup {Torn}
    /\ edits \in 0 .. MaxEdits
    /\ written \subseteq Texts /\ told \subseteq Texts \X BOOLEAN

\* openEditor has mounted the first editor, which reads the file.
Init ==
    /\ tab = "open"
    /\ session = 1 /\ alive = TRUE
    /\ mount = 1 /\ view = "loading" /\ doc = 0
    /\ baseline = [m \in 1 .. MaxMounts |-> 0]
    /\ timer = FALSE
    /\ saving = [m \in 1 .. MaxMounts |-> NoText]
    /\ attempt = [m \in 1 .. MaxMounts |-> 0]
    /\ dirty = FALSE
    /\ calls = {[kind |-> "read", text |-> NoText, editor |-> 1, session |-> 1,
                 number |-> 1, at |-> "sent"]}
    /\ made = 1
    /\ remote = 0
    /\ edits = 0
    /\ written = {0} /\ told = {}

-----------------------------------------------------------------------------

\* cmd(...) from the editor m, bound to the session s.
Call(kind, text, m, s, n) ==
    [kind |-> kind, text |-> text, editor |-> m, session |-> s, number |-> n, at |-> "sent"]

Invoke(kind, text, m, s) ==
    /\ made < MaxCalls
    /\ made' = made + 1
    /\ calls' = calls \cup {Call(kind, text, m, s, made + 1)}

\* The user types; the update listener compares with the baseline and sets or
\* clears the timer.  Undo may bring the saved text back.
Type ==
    /\ view = "ready"
    /\ \/ edits < MaxEdits /\ edits' = edits + 1 /\ doc' = edits + 1
       \/ doc # baseline[mount] /\ doc' = baseline[mount] /\ UNCHANGED edits
    /\ dirty' = (doc' # baseline[mount])
    /\ timer' = (doc' # baseline[mount])
    /\ UNCHANGED <<tab, session, alive, mount, view, baseline, saving, attempt, calls, made,
                   server, told>>

\* Slip: a save does not look whether one is under way.
Save_Overlaps ==
    IF doc = baseline[mount]
    THEN UNCHANGED <<saving, attempt, calls, made>>
    ELSE /\ Invoke("save", doc, mount, session)
         /\ saving' = [saving EXCEPT ![mount] = doc]
         /\ attempt' = [attempt EXCEPT ![mount] = 1]

\* handleSave up to its first await: nothing while a save is under way, nothing
\* when the text is the baseline.
Save ==
    IF saving[mount] # NoText \/ doc = baseline[mount]
    THEN UNCHANGED <<saving, attempt, calls, made>>
    ELSE /\ Invoke("save", doc, mount, session)
         /\ saving' = [saving EXCEPT ![mount] = doc]
         /\ attempt' = [attempt EXCEPT ![mount] = 1]

\* The save button or shortcut.  It leaves the timer alone.
SaveNow ==
    /\ view = "ready"
    /\ Save
    /\ UNCHANGED <<tab, session, alive, editor, baseline, dirty, server, edits, told>>

\* The timer fires.
AutoSave ==
    /\ view = "ready"
    /\ timer
    /\ timer' = FALSE
    /\ Save
    /\ UNCHANGED <<tab, session, alive, mount, view, doc, baseline, dirty, server, edits, told>>

\* The write succeeded: the text that was written is the baseline, and the tab
\* is marked clean, whatever is in the editor by now.  An editor that is gone
\* does the same, unless the tab has got another id since.
SaveSucceeds(c) ==
    /\ c.kind = "save" /\ c.at = "ok"
    /\ baseline' = [baseline EXCEPT ![c.editor] = c.text]
    /\ dirty' = (dirty /\ c.session # session)
    /\ saving' = [saving EXCEPT ![c.editor] = NoText]
    /\ attempt' = [attempt EXCEPT ![c.editor] = 0]
    /\ calls' = calls \ {c}
    /\ UNCHANGED <<tab, session, alive, editor, made, server, edits, told>>

\* Slip: a save that failed for good leaves the tab as it is.
SaveFails_Silently(c) ==
    /\ c.kind = "save" /\ c.at = "failed"
    /\ IF attempt[c.editor] < Attempts
       THEN /\ made < MaxCalls
            /\ made' = made + 1
            /\ calls' = (calls \ {c}) \cup {Call("save", c.text, c.editor, c.session, made + 1)}
            /\ attempt' = [attempt EXCEPT ![c.editor] = @ + 1]
            /\ UNCHANGED <<saving, dirty, told>>
       ELSE /\ calls' = calls \ {c}
            /\ saving' = [saving EXCEPT ![c.editor] = NoText]
            /\ attempt' = [attempt EXCEPT ![c.editor] = 0]
            /\ UNCHANGED <<made, dirty, told>>
    /\ UNCHANGED <<tab, session, alive, editor, baseline, server, edits>>

\* The write failed: another attempt with the same text after a delay, or, after
\* the last one, an error and the tab marked dirty.  The error is state of the
\* editor: of one that is unmounted nobody sees it, and a tab that is closed or
\* has another id is not marked either.
SaveFails(c) ==
    /\ c.kind = "save" /\ c.at = "failed"
    /\ IF attempt[c.editor] < Attempts
       THEN /\ made < MaxCalls
            /\ made' = made + 1
            /\ calls' = (calls \ {c}) \cup {Call("save", c.text, c.editor, c.session, made + 1)}
            /\ attempt' = [attempt EXCEPT ![c.editor] = @ + 1]
            /\ UNCHANGED <<saving, dirty, told>>
       ELSE /\ calls' = calls \ {c}
            /\ saving' = [saving EXCEPT ![c.editor] = NoText]
            /\ attempt' = [attempt EXCEPT ![c.editor] = 0]
            /\ dirty' = (dirty \/ (tab = "open" /\ c.session = session))
            /\ told' = told \cup {<<c.text, c.editor = mount /\ view # "none">>}
            /\ UNCHANGED made
    /\ UNCHANGED <<tab, session, alive, editor, baseline, server, edits>>

-----------------------------------------------------------------------------
(* Mounting and unmounting *)

\* Slip: an editor whose save is under way is not flushed.
Flushed_UnlessSaving ==
    IF view = "ready" /\ doc # baseline[mount] /\ saving[mount] = NoText
    THEN /\ made < MaxCalls
         /\ calls' = calls \cup {Call("flush", doc, mount, session, made + 1)}
         /\ made' = made + 1
    ELSE UNCHANGED <<calls, made>>

\* The cleanup of the loading effect: text that is not the baseline is written,
\* without waiting, to the session the editor was mounted for.
Flushed ==
    IF view = "ready" /\ doc # baseline[mount]
    THEN /\ made < MaxCalls
         /\ calls' = calls \cup {Call("flush", doc, mount, session, made + 1)}
         /\ made' = made + 1
    ELSE UNCHANGED <<calls, made>>

\* Another session becomes active: Shell unmounts the editors of this one.
SwitchAway ==
    /\ tab = "open" /\ view # "none"
    /\ Flushed
    /\ view' = "none" /\ timer' = FALSE
    /\ UNCHANGED <<tab, session, alive, mount, doc, baseline, saving, attempt, dirty, server,
                   edits, told>>

\* The session is active again: a new editor reads the file.
SwitchBack ==
    /\ tab = "open" /\ view = "none"
    /\ mount < MaxMounts
    /\ mount' = mount + 1
    /\ view' = "loading"
    /\ Invoke("read", NoText, mount + 1, session)
    /\ UNCHANGED <<tab, session, alive, doc, timer, baseline, saving, attempt, dirty, server,
                   edits, told>>

\* closeEditorTab (the user is asked when the tab is dirty, and may say no) and
\* closeEditorForSession (nobody is asked).
CloseTab ==
    /\ tab = "open"
    /\ tab' = "closed"
    /\ dirty' = FALSE
    /\ Flushed
    /\ view' = "none" /\ timer' = FALSE
    /\ UNCHANGED <<session, alive, mount, doc, baseline, saving, attempt, server, edits, told>>

\* Another theme: the view is made again with the same text and baseline, and
\* the dirty flag is computed from them.
ChangeTheme ==
    /\ view = "ready"
    /\ dirty' = (doc # baseline[mount])
    /\ UNCHANGED <<tab, session, alive, editor, baseline, timer, saving, attempt, calls, made,
                   server, edits, told>>

\* The connection of the session breaks.
Disconnect ==
    /\ alive
    /\ alive' = FALSE
    /\ UNCHANGED <<tab, session, editor, baseline, saving, attempt, dirty, calls, made,
                   server, edits, told>>

\* markConnected and rebindEditorSession: the id of the tab changes with its
\* session, so that its editor is unmounted and another one mounted.
Rebind ==
    /\ ~alive
    /\ tab = "open" /\ view # "none"
    /\ mount < MaxMounts /\ session < MaxMounts
    /\ session' = session + 1
    /\ alive' = TRUE
    /\ mount' = mount + 1
    /\ view' = "loading" /\ timer' = FALSE
    /\ LET lost == view = "ready" /\ doc # baseline[mount]
           used == IF lost THEN made + 1 ELSE made
       IN  /\ used < MaxCalls
           /\ made' = used + 1
           /\ calls' = calls \cup {Call("read", NoText, mount + 1, session + 1, used + 1)}
                             \cup IF lost THEN {Call("flush", doc, mount, session, used)} ELSE {}
    /\ UNCHANGED <<tab, doc, baseline, saving, attempt, dirty, server, edits, told>>

\* The same while another session is shown.
RebindHidden ==
    /\ ~alive
    /\ tab = "open" /\ view = "none"
    /\ session < MaxMounts
    /\ session' = session + 1
    /\ alive' = TRUE
    /\ UNCHANGED <<tab, editor, baseline, saving, attempt, dirty, calls, made, server, edits,
                   told>>

\* The read is answered: if its editor is still the current one the text and
\* the baseline are what was read and the tab is clean; else it is dropped.
Loaded(c) ==
    /\ c.kind = "read" /\ c.at # "sent"
    /\ calls' = calls \ {c}
    /\ IF c.editor = mount /\ view = "loading"
       THEN /\ view' = IF c.at = "ok" THEN "ready" ELSE "error"
            /\ IF c.at = "ok"
               THEN /\ doc' = c.text
                    /\ baseline' = [baseline EXCEPT ![mount] = c.text]
                    /\ dirty' = FALSE
               ELSE UNCHANGED <<doc, baseline, dirty>>
       ELSE UNCHANGED <<view, doc, baseline, dirty>>
    /\ UNCHANGED <<tab, session, alive, mount, timer, saving, attempt, made, server, edits, told>>

\* A flush is answered: a failure is shown as a toast.
FlushAnswered(c) ==
    /\ c.kind = "flush" /\ c.at # "sent"
    /\ calls' = calls \ {c}
    /\ told' = IF c.at = "failed" THEN told \cup {<<c.text, TRUE>>} ELSE told
    /\ UNCHANGED <<tab, session, alive, editor, baseline, saving, attempt, dirty, made, server,
                   edits>>

-----------------------------------------------------------------------------

\* What a read finds.
Content == IF remote = Torn THEN Stub ELSE remote

\* The SFTP sub-worker serves a call, or it fails; calls to a session that is
\* gone always fail.  write_text truncates the file before it writes, so that a
\* write may fail and leave neither the old text nor the new one.
Serve(c) ==
    /\ c.at = "sent"
    /\ \/ /\ c.session = session /\ alive
          /\ IF c.kind = "read"
             THEN /\ calls' = (calls \ {c}) \cup {[c EXCEPT !.at = "ok", !.text = Content]}
                  /\ UNCHANGED server
             ELSE /\ calls' = (calls \ {c}) \cup {[c EXCEPT !.at = "ok"]}
                  /\ remote' = c.text
                  /\ written' = written \cup {c.text}
       \/ /\ c.session = session /\ alive /\ c.kind # "read"
          /\ calls' = (calls \ {c}) \cup {[c EXCEPT !.at = "failed"]}
          /\ remote' = Torn
          /\ written' = written \cup {Stub}
       \/ /\ calls' = (calls \ {c}) \cup {[c EXCEPT !.at = "failed"]}
          /\ UNCHANGED server
    /\ UNCHANGED <<tab, session, alive, editor, baseline, saving, attempt, dirty, made,
                   edits, told>>

Handle(c) ==
    \/ Serve(c) \/ Loaded(c) \/ FlushAnswered(c)
    \/ SaveSucceeds(c) \/ SaveFails(c)

Next ==
    \/ Type \/ SaveNow \/ AutoSave
    \/ SwitchAway \/ SwitchBack \/ CloseTab
    \/ ChangeTheme \/ Disconnect \/ Rebind \/ RebindHidden
    \/ \E c \in calls : Handle(c)

Spec == Init /\ [][Next]_vars

\* Calls are answered (a blocked libssh2 call by its timeout), and the event
\* loop of the webview handles the answers.
Fairness == \A n \in 1 .. MaxCalls : WF_vars(\E c \in calls : c.number = n /\ Handle(c))

FairSpec == Spec /\ Fairness

-----------------------------------------------------------------------------
(* Properties *)

\* At most one write of an editor's handleSave is under way at any time, so
\* that its attempts and its auto-saves do not overtake one another.
OneSaveAtATime ==
    \A m \in 1 .. MaxMounts :
        LET saves == {c \in calls : c.kind = "save" /\ c.editor = m}
        IN  /\ Cardinality(saves) <= 1
            /\ \A c \in saves : c.text = saving[m]

\* The baseline of an editor is never a text the server did not have: a failed
\* save does not make the editor believe that it succeeded.
BaselineWasSaved == \A m \in 1 .. MaxMounts : baseline[m] \in written

\* An answer is about the file: what a read returned and what a write reports to
\* have written has been the content of the file, and a write carries a text.
AnswersAreTrue ==
    /\ Content \in written
    /\ \A c \in calls :
         /\ c.at = "ok" => c.text \in written
         /\ c.kind # "read" => c.text # NoText

\* A write that may have left, or may still leave, the file other than its text.
Unreported(c) == c.kind # "read" /\ c.at # "ok"

\* The texts the user was told were not saved, and whether a save failed for good
\* with its editor gone.
Shown == {t \in Texts : <<t, TRUE>> \in told}
Orphaned == \E t \in Texts : <<t, FALSE>> \in told

\* "Silently dropping the last edits" does not happen: the text of an editor
\* that was unmounted has been on the server, is being flushed to it, or the user
\* was told.  A file is left torn only by a write whose failure is on its way to
\* the user or was shown, or by a save that went on failing after its editor was
\* gone: of that one nobody is told, and it takes an editor that was unmounted.
NoSilentLoss ==
    /\ view # "ready" =>
         doc \in written \cup Shown \cup {c.text : c \in {x \in calls : x.kind = "flush"}}
    /\ remote = Torn => Shown # {} \/ Orphaned \/ \E c \in calls : Unreported(c)
    /\ Orphaned => mount > 1 \/ view = "none"

\* A save ends, with success or with an error; the button does not stay
\* disabled.
SavesEnd ==
    \A m \in 1 .. MaxMounts : saving[m] # NoText ~> saving[m] = NoText \/ made = MaxCalls

\* A text that could not be saved for good leaves the tab dirty until the user
\* types, loads, saves or closes.
FailureStaysVisible ==
    [][\A c \in calls : c \notin calls' /\ c.kind = "save" /\ c.at = "failed" /\ made' = made
                /\ c.session = session
            => dirty' \/ tab = "closed"]_vars

\* A failed save neither stays silent nor keeps the button disabled.
SavesEndInSight == FailureStaysVisible /\ SavesEnd

\* What an editor believes of the server is so, whatever its saves, retries and
\* auto-saves: it has one write under way at most and a baseline that was written.
Inv == TypeOK /\ OneSaveAtATime /\ BaselineWasSaved /\ AnswersAreTrue

===============================================================================
