------------------------------ MODULE Webview_proofs ------------------------------
(***************************************************************************)
(* Proofs about the components of the webview: the file in the editor      *)
(* (EditorSave) and the terminal tabs (SessionTabs, here under the name    *)
(* Terminals).                                                             *)
(***************************************************************************)
EXTENDS MCWebview, CommonLemmas

(***************************************************************************)
(* The editor                                                              *)
(***************************************************************************)

\* OneSaveAtATime without its count of calls.
SavesAreOne ==
    /\ \A c, d \in calls :
         c.kind = "save" /\ d.kind = "save" /\ c.editor = d.editor => c = d
    /\ \A c \in calls : c.kind = "save" => c.text = saving[c.editor]

EditorInv == TypeOK /\ SavesAreOne /\ BaselineWasSaved /\ AnswersAreTrue

\* A save is of an editor that was mounted.
SavesOfMounted == \A c \in calls : c.kind = "save" => c.editor <= mount

\* An answered call differs from the call in the answer alone.
LEMMA Answering ==
    ASSUME NEW c \in Calls, NEW at \in {"sent", "ok", "failed"}
    PROVE  LET a == [c EXCEPT !.at = at]
           IN  /\ a \in Calls
               /\ a.kind = c.kind /\ a.editor = c.editor /\ a.session = c.session
               /\ a.number = c.number /\ a.text = c.text /\ a.at = at
  BY DEF Calls

\* The answer of a read has a text, too.
LEMMA Reading ==
    ASSUME NEW c \in Calls, NEW text \in Texts
    PROVE  LET a == [c EXCEPT !.at = "ok", !.text = text]
           IN  /\ a \in Calls
               /\ a.kind = c.kind /\ a.editor = c.editor /\ a.session = c.session
               /\ a.number = c.number /\ a.text = text /\ a.at = "ok"
  BY DEF Calls

\* What a new call is.
LEMMA Calling ==
    ASSUME NEW kind \in {"read", "save", "flush"}, NEW text \in Texts \cup {NoText},
           NEW m \in 1 .. MaxMounts, NEW s \in 1 .. MaxMounts, NEW n \in 1 .. MaxCalls
    PROVE  LET c == Call(kind, text, m, s, n)
           IN  /\ c \in Calls
               /\ c.kind = kind /\ c.text = text /\ c.editor = m /\ c.session = s
               /\ c.number = n /\ c.at = "sent"
  BY DEF Calls, Call

\* Another attempt of a save.
LEMMA Retrying ==
    ASSUME NEW c \in Calls, NEW n \in 1 .. MaxCalls
    PROVE  LET d == Call("save", c.text, c.editor, c.session, n)
           IN  /\ d \in Calls
               /\ d.kind = "save" /\ d.text = c.text /\ d.editor = c.editor /\ d.at = "sent"
  BY DEF Calls, Call

LEMMA EditorInit == Init => EditorInv /\ SavesOfMounted /\ NoSilentLoss
  <1> SUFFICES ASSUME Init PROVE EditorInv /\ SavesOfMounted /\ NoSilentLoss
    OBVIOUS
  <1> USE BoundsAssumption
  <1>1. TypeOK
    <2>1. 1 \in 1 .. MaxMounts /\ 1 \in 0 .. MaxCalls /\ 1 \in 1 .. MaxCalls /\ 0 \in 0 .. MaxEdits
      OBVIOUS
    <2>2. calls \subseteq Calls
      BY <2>1 DEF Init, Calls
    <2>3. 0 \in Texts /\ 0 \in 0 .. Attempts /\ NoText \in Texts \cup {NoText}
      BY <2>1 DEF Texts, Attempts
    <2>4. baseline \in [1 .. MaxMounts -> Texts] /\ attempt \in [1 .. MaxMounts -> 0 .. Attempts]
          /\ saving \in [1 .. MaxMounts -> Texts \cup {NoText}]
      BY <2>3 DEF Init
    <2> QED
      BY <2>1, <2>2, <2>3, <2>4 DEF Init, TypeOK
  <1>2. SavesAreOne /\ BaselineWasSaved /\ AnswersAreTrue /\ SavesOfMounted /\ NoSilentLoss
    BY DEF Init, SavesAreOne, BaselineWasSaved, AnswersAreTrue, SavesOfMounted, NoSilentLoss,
           Orphaned, Content, Torn
  <1> QED
    BY <1>1, <1>2 DEF EditorInv

\* What the proofs below use of the types.
LEMMA EditorTypes ==
    EditorInv => /\ session \in 1 .. MaxMounts /\ mount \in 1 .. MaxMounts
                 /\ MaxMounts \in Nat /\ MaxCalls \in Nat /\ MaxEdits \in Nat
                 /\ doc \in Texts /\ doc \in Texts \cup {NoText} /\ doc # NoText
                 /\ NoText \in Texts \cup {NoText} /\ Stub \in Texts /\ Torn \notin Texts
                 /\ baseline \in [1 .. MaxMounts -> Texts]
                 /\ saving \in [1 .. MaxMounts -> Texts \cup {NoText}]
                 /\ calls \subseteq Calls /\ made \in 0 .. MaxCalls
                 /\ written \subseteq Texts /\ told \subseteq Texts \X BOOLEAN
                 /\ remote \in Texts \cup {Torn}
                 /\ made < MaxCalls => made + 1 \in 0 .. MaxCalls /\ made + 1 \in 1 .. MaxCalls
                 /\ mount < MaxMounts => mount + 1 \in 1 .. MaxMounts
                 /\ session < MaxMounts => session + 1 \in 1 .. MaxMounts
  BY BoundsAssumption DEF EditorInv, TypeOK, Texts, NoText, Stub, Torn

\* The user is told of one more text, or nobody is.
LEMMA ToldMore ==
    ASSUME EditorInv, NEW text \in Texts, NEW shown \in BOOLEAN
    PROVE  told \cup {<<text, shown>>} \subseteq Texts \X BOOLEAN
  BY EditorTypes

\* What the fields of a call are.
LEMMA Fields ==
    ASSUME EditorInv, NEW c \in calls
    PROVE  /\ c \in Calls
           /\ c.kind \in {"read", "save", "flush"} /\ c.at \in {"sent", "ok", "failed"}
           /\ c.text \in Texts \cup {NoText}
           /\ c.editor \in 1 .. MaxMounts /\ c.session \in 1 .. MaxMounts
           /\ c.number \in 1 .. MaxCalls
           /\ c.kind # "read" => c.text \in Texts /\ c.text # NoText
           /\ c.at = "ok" => c.text \in written
           /\ c.kind = "save" => c.text = saving[c.editor] /\ saving[c.editor] # NoText
  <1>1. c \in Calls
    BY EditorTypes
  <1>2. c.kind # "read" => c.text # NoText
    BY DEF EditorInv, AnswersAreTrue, Content
  <1>3. c.at = "ok" => c.text \in written
    BY DEF EditorInv, AnswersAreTrue, Content
  <1>4. c.kind = "save" => c.text = saving[c.editor]
    BY DEF EditorInv, SavesAreOne
  <1> QED
    BY <1>1, <1>2, <1>3, <1>4 DEF Calls

\* A new read or flush, and what is done to the other variables, leaves the
\* calls in order.
LEMMA NewCall ==
    ASSUME EditorInv,
           NEW kind \in {"read", "flush"}, NEW text \in Texts \cup {NoText},
           kind = "flush" => text # NoText,
           NEW m \in 1 .. MaxMounts, NEW s \in 1 .. MaxMounts, NEW n \in 1 .. MaxCalls,
           calls' = calls \cup {Call(kind, text, m, s, n)},
           UNCHANGED <<saving, baseline, remote, written>>
    PROVE  calls' \subseteq Calls /\ (SavesAreOne /\ BaselineWasSaved /\ AnswersAreTrue)'
  <1> DEFINE new == Call(kind, text, m, s, n)
  <1>1. /\ new \in Calls /\ new.kind = kind /\ new.text = text /\ new.at = "sent"
    BY Calling
  <1> HIDE DEF new
  <1>2. calls' = calls \cup {new}
    BY DEF new
  <1>3. calls' \subseteq Calls
    BY <1>1, <1>2, EditorTypes
  <1>4. SavesAreOne'
    BY <1>1, <1>2 DEF EditorInv, SavesAreOne
  <1>5. AnswersAreTrue' /\ BaselineWasSaved'
    BY <1>1, <1>2 DEF EditorInv, AnswersAreTrue, Content, BaselineWasSaved
  <1> QED
    BY <1>3, <1>4, <1>5

\* The flush of an editor that is unmounted.
LEMMA Flushing ==
    ASSUME EditorInv, Flushed, UNCHANGED <<saving, baseline, remote, written>>
    PROVE  /\ calls' \subseteq Calls /\ made' \in 0 .. MaxCalls
           /\ (SavesAreOne /\ BaselineWasSaved /\ AnswersAreTrue)'
           /\ calls \subseteq calls'
           /\ view = "ready" =>
                doc \in written \cup {c.text : c \in {x \in calls' : x.kind = "flush"}}
  <1>1. CASE view = "ready" /\ doc # baseline[mount]
    <2>1. made < MaxCalls /\ made' = made + 1 /\ calls' = calls \cup {Call("flush", doc, mount, session, made + 1)}
      BY <1>1 DEF Flushed
    <2>2. calls' \subseteq Calls /\ (SavesAreOne /\ BaselineWasSaved /\ AnswersAreTrue)'
      BY <2>1, EditorTypes, NewCall
    <2>3. Call("flush", doc, mount, session, made + 1).kind = "flush"
          /\ Call("flush", doc, mount, session, made + 1).text = doc
      BY DEF Call
    <2> QED
      BY <2>1, <2>2, <2>3, EditorTypes
  <1>2. CASE ~(view = "ready" /\ doc # baseline[mount])
    <2>1. UNCHANGED <<calls, made>>
      BY <1>2 DEF Flushed
    <2>2. view = "ready" => doc \in written
      BY <1>2, EditorTypes DEF EditorInv, BaselineWasSaved
    <2> QED
      BY <2>1, <2>2, EditorTypes DEF EditorInv, SavesAreOne, BaselineWasSaved, AnswersAreTrue, Content
  <1> QED
    BY <1>1, <1>2

\* A save that starts, while none of its editor is under way.
LEMMA Saving ==
    ASSUME EditorInv, Save, UNCHANGED <<baseline, remote, written>>
    PROVE  /\ calls' \subseteq Calls /\ made' \in 0 .. MaxCalls
           /\ saving' \in [1 .. MaxMounts -> Texts \cup {NoText}]
           /\ attempt' \in [1 .. MaxMounts -> 0 .. Attempts]
           /\ (SavesAreOne /\ BaselineWasSaved /\ AnswersAreTrue)'
           /\ calls \subseteq calls'
  <1>0. attempt \in [1 .. MaxMounts -> 0 .. Attempts] /\ 1 \in 0 .. Attempts
    BY DEF EditorInv, TypeOK, Attempts
  <1>1. CASE saving[mount] # NoText \/ doc = baseline[mount]
    BY <1>0, <1>1, EditorTypes DEF Save, EditorInv, SavesAreOne, BaselineWasSaved, AnswersAreTrue, Content
  <1>2. CASE ~(saving[mount] # NoText \/ doc = baseline[mount])
    <2> DEFINE new == Call("save", doc, mount, session, made + 1)
    <2>1. /\ made < MaxCalls /\ made' = made + 1 /\ calls' = calls \cup {new}
          /\ saving' = [saving EXCEPT ![mount] = doc]
          /\ attempt' = [attempt EXCEPT ![mount] = 1]
      BY <1>2 DEF Save, Invoke
    <2>2. /\ new \in Calls /\ new.kind = "save" /\ new.text = doc /\ new.at = "sent"
          /\ new.editor = mount
      BY <2>1, EditorTypes, Calling
    <2> HIDE DEF new
    <2>3. \A c \in calls : c.kind = "save" => c.editor # mount /\ c.editor \in 1 .. MaxMounts
      BY <1>2, Fields
    <2>4. SavesAreOne'
      BY <2>1, <2>2, <2>3, EditorTypes DEF EditorInv, SavesAreOne
    <2>5. AnswersAreTrue' /\ BaselineWasSaved'
      BY <2>1, <2>2, EditorTypes DEF EditorInv, AnswersAreTrue, Content, BaselineWasSaved
    <2> QED
      BY <1>0, <2>1, <2>2, <2>4, <2>5, EditorTypes
  <1> QED
    BY <1>1, <1>2

\* A call leaves, or an answer takes its place, and nothing is written.
LEMMA CallEnds ==
    ASSUME EditorInv, NEW c \in calls, calls' = calls \ {c},
           UNCHANGED <<remote, written>>,
           \A m \in 1 .. MaxMounts : saving'[m] # saving[m] => c.kind = "save" /\ c.editor = m
    PROVE  calls' \subseteq Calls /\ SavesAreOne' /\ AnswersAreTrue'
  <1>1. calls' \subseteq Calls
    BY EditorTypes
  <1>2. \A d \in calls' : d \in calls /\ d.editor \in 1 .. MaxMounts
    BY Fields
  <1>3. \A d \in calls' : d.kind = "save" => ~(c.kind = "save" /\ c.editor = d.editor)
    BY <1>2 DEF EditorInv, SavesAreOne
  <1>4. SavesAreOne'
    BY <1>2, <1>3 DEF EditorInv, SavesAreOne
  <1> QED
    BY <1>1, <1>4, <1>2 DEF EditorInv, AnswersAreTrue, Content

\* A call is replaced by an answer, or by another attempt.
LEMMA CallReplaced ==
    ASSUME EditorInv, NEW c \in calls, NEW d \in Calls,
           calls' = (calls \ {c}) \cup {d},
           d.kind = c.kind, d.editor = c.editor,
           d.kind # "read" => d.text = c.text,
           d.at = "ok" => d.text \in written',
           written \subseteq written', Content' \in written',
           UNCHANGED <<saving, baseline>>
    PROVE  calls' \subseteq Calls /\ (SavesAreOne /\ AnswersAreTrue /\ BaselineWasSaved)'
  <1>1. calls' \subseteq Calls
    BY EditorTypes
  <1>2. SavesAreOne'
    BY DEF EditorInv, SavesAreOne
  <1>3. AnswersAreTrue'
    BY DEF EditorInv, AnswersAreTrue, Content
  <1>4. BaselineWasSaved'
    BY DEF EditorInv, BaselineWasSaved
  <1> QED
    BY <1>1, <1>2, <1>3, <1>4

-----------------------------------------------------------------------------
(* The steps *)

\* The types of the scalars.
LEMMA Scalars ==
    EditorInv => /\ tab \in {"open", "closed"} /\ alive \in BOOLEAN
                 /\ view \in {"none", "loading", "ready", "error"}
                 /\ timer \in BOOLEAN /\ dirty \in BOOLEAN /\ edits \in 0 .. MaxEdits
                 /\ attempt \in [1 .. MaxMounts -> 0 .. Attempts]
  BY DEF EditorInv, TypeOK

\* The user's steps in the editor.
LEMMA EditingStep ==
    ASSUME EditorInv, Type \/ SaveNow \/ AutoSave \/ ChangeTheme
    PROVE  EditorInv'
  <1> USE EditorTypes, Scalars
  <1>1. CASE Type
    <2>1. /\ doc' \in Texts /\ edits' \in 0 .. MaxEdits /\ dirty' \in BOOLEAN /\ timer' \in BOOLEAN
      BY <1>1 DEF Type, Texts
    <2>2. UNCHANGED <<tab, session, alive, mount, view, baseline, saving, attempt, calls, made,
                      remote, written, told>>
      BY <1>1 DEF Type, server
    <2>3. TypeOK'
      BY <2>1, <2>2 DEF TypeOK
    <2> QED
      BY <2>2, <2>3 DEF EditorInv, SavesAreOne, BaselineWasSaved, AnswersAreTrue, Content
  <1>2. CASE SaveNow \/ AutoSave
    <2>1. Save /\ timer' \in BOOLEAN
          /\ UNCHANGED <<tab, session, alive, mount, view, doc, baseline, dirty, remote, written,
                         edits, told>>
      BY <1>2 DEF SaveNow, AutoSave, editor, server
    <2>2. TypeOK'
      BY <2>1, Saving DEF TypeOK
    <2> QED
      BY <2>1, <2>2, Saving DEF EditorInv
  <1>3. CASE ChangeTheme
    <2>1. dirty' \in BOOLEAN
      BY <1>3 DEF ChangeTheme
    <2>2. UNCHANGED <<tab, session, alive, mount, view, doc, timer, baseline, saving, attempt,
                      calls, made, remote, written, edits, told>>
      BY <1>3 DEF ChangeTheme, server, editor
    <2>3. TypeOK'
      BY <2>1, <2>2 DEF TypeOK
    <2> QED
      BY <2>2, <2>3 DEF EditorInv, SavesAreOne, BaselineWasSaved, AnswersAreTrue, Content
  <1> QED
    BY <1>1, <1>2, <1>3

\* The steps that mount or unmount the editor, or end its session.
LEMMA MountingStep ==
    ASSUME EditorInv, SwitchAway \/ SwitchBack \/ CloseTab \/ Disconnect \/ RebindHidden
    PROVE  EditorInv'
  <1> USE EditorTypes, Scalars
  <1>1. CASE SwitchAway
    <2>1. /\ Flushed /\ view' = "none" /\ timer' = FALSE
          /\ UNCHANGED <<tab, session, alive, mount, doc, baseline, saving, attempt, dirty, remote,
                         written, edits, told>>
      BY <1>1 DEF SwitchAway, server
    <2> QED
      BY <2>1, Flushing DEF EditorInv, TypeOK
  <1>2. CASE SwitchBack
    <2>1. /\ mount' = mount + 1 /\ mount < MaxMounts /\ view' = "loading"
          /\ made < MaxCalls /\ made' = made + 1
          /\ calls' = calls \cup {Call("read", NoText, mount + 1, session, made + 1)}
          /\ UNCHANGED <<tab, session, alive, doc, timer, baseline, saving, attempt, dirty, remote,
                         written, edits, told>>
      BY <1>2 DEF SwitchBack, Invoke, server
    <2>2. calls' \subseteq Calls /\ (SavesAreOne /\ BaselineWasSaved /\ AnswersAreTrue)'
      BY <2>1, NewCall
    <2> QED
      BY <2>1, <2>2 DEF EditorInv, TypeOK
  <1>3. CASE CloseTab
    <2>1. /\ Flushed /\ view' = "none" /\ timer' = FALSE /\ tab' = "closed" /\ dirty' = FALSE
          /\ UNCHANGED <<session, alive, mount, doc, baseline, saving, attempt, remote,
                         written, edits, told>>
      BY <1>3 DEF CloseTab, server
    <2> QED
      BY <2>1, Flushing DEF EditorInv, TypeOK
  <1>4. CASE Disconnect \/ RebindHidden
    <2>1. /\ alive' \in BOOLEAN /\ session' \in 1 .. MaxMounts
          /\ UNCHANGED <<tab, mount, view, doc, timer, baseline, saving, attempt, dirty, calls, made,
                         remote, written, edits, told>>
      BY <1>4 DEF Disconnect, RebindHidden, editor, server
    <2>2. TypeOK'
      BY <2>1 DEF TypeOK
    <2> QED
      BY <2>1, <2>2 DEF EditorInv, SavesAreOne, BaselineWasSaved, AnswersAreTrue, Content
  <1> QED
    BY <1>1, <1>2, <1>3, <1>4

\* A rebind flushes the old editor, and the new one reads.
LEMMA RebindStep ==
    ASSUME EditorInv, Rebind
    PROVE  /\ EditorInv'
           /\ calls \subseteq calls'
           /\ view = "ready" =>
                doc \in written \cup {c.text : c \in {x \in calls' : x.kind = "flush"}}
  <1> DEFINE lost == view = "ready" /\ doc # baseline[mount]
             used == IF lost THEN made + 1 ELSE made
             read == Call("read", NoText, mount + 1, session + 1, used + 1)
             flush == Call("flush", doc, mount, session, used)
  <1>1. /\ mount < MaxMounts /\ session < MaxMounts /\ used < MaxCalls
        /\ session' = session + 1 /\ alive' = TRUE /\ mount' = mount + 1
        /\ view' = "loading" /\ timer' = FALSE /\ made' = used + 1
        /\ calls' = calls \cup {read} \cup IF lost THEN {flush} ELSE {}
        /\ UNCHANGED <<tab, doc, baseline, saving, attempt, dirty, remote, written, edits, told>>
    BY DEF Rebind, server
  <1>2. used \in 0 .. MaxCalls /\ used + 1 \in 0 .. MaxCalls /\ used + 1 \in 1 .. MaxCalls
        /\ (lost => used \in 1 .. MaxCalls)
    <2>1. made \in Nat /\ MaxCalls \in Nat
      BY EditorTypes
    <2>2. CASE lost
      <3>1. used = made + 1
        BY <2>2
      <3> HIDE DEF used, lost
      <3> QED
        BY <1>1, <2>1, <3>1
    <2>3. CASE ~lost
      <3>1. used = made
        BY <2>3
      <3> HIDE DEF used, lost
      <3> QED
        BY <1>1, <2>1, <2>3, <3>1
    <2> QED
      BY <2>2, <2>3
  <1> HIDE DEF used
  <1>3. /\ read \in Calls /\ read.kind = "read" /\ read.at = "sent"
    <2>1. /\ mount + 1 \in 1 .. MaxMounts /\ session + 1 \in 1 .. MaxMounts
          /\ NoText \in Texts \cup {NoText}
      BY <1>1, EditorTypes
    <2> QED
      BY <1>2, <2>1, Calling
  <1>4. lost => /\ flush \in Calls /\ flush.kind = "flush" /\ flush.text = doc /\ flush.at = "sent"
    <2>1. /\ mount \in 1 .. MaxMounts /\ session \in 1 .. MaxMounts
          /\ doc \in Texts \cup {NoText}
      BY EditorTypes
    <2> QED
      BY <1>2, <2>1, Calling
  <1> HIDE DEF read, flush
  <1>5. calls' \subseteq Calls
    BY <1>1, <1>3, <1>4, EditorTypes
  <1>6. \A c \in calls' : c \in calls \/ c = read \/ (lost /\ c = flush)
    BY <1>1
  <1>7. TypeOK'
    BY <1>1, <1>2, <1>5, EditorTypes, Scalars DEF EditorInv, TypeOK
  <1>8. SavesAreOne'
    BY <1>1, <1>3, <1>4, <1>6 DEF EditorInv, SavesAreOne
  <1>9. AnswersAreTrue' /\ BaselineWasSaved'
    BY <1>1, <1>3, <1>4, <1>6, EditorTypes DEF EditorInv, AnswersAreTrue, Content, BaselineWasSaved
  <1>10. ASSUME view = "ready"
         PROVE  doc \in written \cup {c.text : c \in {x \in calls' : x.kind = "flush"}}
    <2>1. CASE doc = baseline[mount]
      BY <2>1, EditorTypes DEF EditorInv, BaselineWasSaved
    <2>2. CASE doc # baseline[mount]
      <3>1. flush \in calls' /\ flush.kind = "flush" /\ flush.text = doc
        BY <1>1, <1>4, <1>10, <2>2
      <3> QED
        BY <3>1
    <2> QED
      BY <2>1, <2>2
  <1>11. calls \subseteq calls'
    BY <1>1
  <1> QED
    BY <1>7, <1>8, <1>9, <1>10, <1>11 DEF EditorInv

\* The server's step.
LEMMA ServeStep ==
    ASSUME EditorInv, NEW c \in calls, Serve(c)
    PROVE  /\ EditorInv'
           /\ \E d \in Calls : /\ calls' = (calls \ {c}) \cup {d}
                              /\ d.kind = c.kind /\ d.number = c.number /\ d.editor = c.editor
                              /\ (c.kind # "read" => d.text = c.text)
                              /\ (remote' = Torn => Unreported(d) \/ (remote = Torn /\ ~Unreported(c)))
  <1> DEFINE ok == [c EXCEPT !.at = "ok"]
             failed == [c EXCEPT !.at = "failed"]
             read == [c EXCEPT !.at = "ok", !.text = Content]
  <1>1. c \in Calls /\ c.at = "sent" /\ (c.kind # "read" => c.text \in Texts)
    BY Fields DEF Serve
  <1>2. /\ Content \in Texts /\ Stub \in Texts /\ Torn \notin Texts /\ Content \in written
        /\ written \subseteq Texts /\ remote \in Texts \cup {Torn}
    BY EditorTypes DEF Content, EditorInv, AnswersAreTrue
  <1>3. UNCHANGED <<tab, session, alive, mount, view, doc, timer, baseline, saving, attempt, dirty,
                    made, edits, told>>
    BY DEF Serve, editor
  <1>4. ASSUME NEW d \in Calls, calls' = (calls \ {c}) \cup {d}, d.kind = c.kind,
               d.editor = c.editor, d.kind # "read" => d.text = c.text,
               d.at = "ok" => d.text \in written',
               remote' \in Texts \cup {Torn}, Content' \in written',
               written \subseteq written', written' \subseteq Texts
        PROVE  EditorInv'
    <2>1. calls' \subseteq Calls /\ (SavesAreOne /\ AnswersAreTrue /\ BaselineWasSaved)'
      BY <1>3, <1>4, CallReplaced
    <2> QED
      BY <2>1, <1>3, <1>4, Scalars, EditorTypes DEF EditorInv, TypeOK
  <1>5. /\ ok \in Calls /\ ok.kind = c.kind /\ ok.editor = c.editor /\ ok.text = c.text
        /\ ok.at = "ok" /\ ok.number = c.number
        /\ failed \in Calls /\ failed.kind = c.kind /\ failed.editor = c.editor
        /\ failed.text = c.text /\ failed.at = "failed" /\ failed.number = c.number
        /\ read \in Calls /\ read.kind = c.kind /\ read.editor = c.editor
        /\ read.text = Content /\ read.at = "ok" /\ read.number = c.number
    <2>1. /\ ok \in Calls /\ ok.kind = c.kind /\ ok.editor = c.editor /\ ok.text = c.text
          /\ ok.at = "ok" /\ ok.number = c.number
      BY <1>1, Answering
    <2>2. /\ failed \in Calls /\ failed.kind = c.kind /\ failed.editor = c.editor
          /\ failed.text = c.text /\ failed.at = "failed" /\ failed.number = c.number
      BY <1>1, Answering
    <2>3. /\ read \in Calls /\ read.kind = c.kind /\ read.editor = c.editor
          /\ read.text = Content /\ read.at = "ok" /\ read.number = c.number
      BY <1>1, <1>2, Reading
    <2> HIDE DEF ok, failed, read
    <2> QED
      BY <2>1, <2>2, <2>3
  <1>6. \/ c.kind = "read" /\ calls' = (calls \ {c}) \cup {read} /\ UNCHANGED <<remote, written>>
        \/ /\ c.kind # "read" /\ calls' = (calls \ {c}) \cup {ok}
           /\ remote' = c.text /\ written' = written \cup {c.text}
        \/ /\ c.kind # "read" /\ calls' = (calls \ {c}) \cup {failed}
           /\ remote' = Torn /\ written' = written \cup {Stub}
        \/ calls' = (calls \ {c}) \cup {failed} /\ UNCHANGED <<remote, written>>
    BY DEF Serve, server
  <1> HIDE DEF ok, failed, read
  <1>7. CASE c.kind = "read" /\ calls' = (calls \ {c}) \cup {read} /\ UNCHANGED <<remote, written>>
    <2>1. Content' = Content
      BY <1>7 DEF Content
    <2> QED
      BY <1>2, <1>4, <1>5, <1>7, <2>1 DEF Unreported
  <1>8. CASE /\ c.kind # "read" /\ calls' = (calls \ {c}) \cup {ok}
             /\ remote' = c.text /\ written' = written \cup {c.text}
    <2>1. remote' # Torn /\ remote' \in Texts /\ Content' = c.text
      BY <1>1, <1>2, <1>8 DEF Content
    <2> QED
      BY <1>1, <1>2, <1>4, <1>5, <1>8, <2>1 DEF Unreported
  <1>9. CASE /\ c.kind # "read" /\ calls' = (calls \ {c}) \cup {failed}
             /\ remote' = Torn /\ written' = written \cup {Stub}
    <2>1. Content' = Stub
      BY <1>9 DEF Content
    <2> QED
      BY <1>2, <1>4, <1>5, <1>9, <2>1 DEF Unreported
  <1>10. CASE calls' = (calls \ {c}) \cup {failed} /\ UNCHANGED <<remote, written>>
    <2>1. Content' = Content
      BY <1>10 DEF Content
    <2> QED
      BY <1>2, <1>4, <1>5, <1>10, <2>1 DEF Unreported
  <1> QED
    BY <1>6, <1>7, <1>8, <1>9, <1>10

\* The webview's answers.
LEMMA AnswerStep ==
    ASSUME EditorInv, NEW c \in calls,
           Loaded(c) \/ FlushAnswered(c) \/ SaveSucceeds(c) \/ SaveFails(c)
    PROVE  EditorInv'
  <1> USE EditorTypes, Scalars
  <1>0. /\ c.editor \in 1 .. MaxMounts /\ c.session \in 1 .. MaxMounts
        /\ c.text \in Texts \cup {NoText}
        /\ (c.at = "ok" => c.text \in written) /\ (c.kind # "read" => c.text \in Texts)
        /\ 0 \in 0 .. Attempts
    BY Fields DEF Attempts
  <1>1. CASE Loaded(c)
    <2>1. /\ c.kind = "read" /\ calls' = calls \ {c} /\ view' \in {"none", "loading", "ready", "error"}
          /\ doc' \in Texts /\ baseline' \in [1 .. MaxMounts -> Texts] /\ dirty' \in BOOLEAN
          /\ \A m \in 1 .. MaxMounts : baseline'[m] = baseline[m] \/ baseline'[m] \in written
          /\ UNCHANGED <<tab, session, alive, mount, timer, saving, attempt, made, remote, written,
                         edits, told>>
      BY <1>0, <1>1 DEF Loaded, server
    <2>2. calls' \subseteq Calls /\ SavesAreOne' /\ AnswersAreTrue'
      BY <2>1, CallEnds
    <2>3. BaselineWasSaved'
      BY <2>1 DEF EditorInv, BaselineWasSaved
    <2> QED
      BY <2>1, <2>2, <2>3 DEF EditorInv, TypeOK
  <1>2. CASE FlushAnswered(c)
    <2>0. told' \subseteq Texts \X BOOLEAN
      BY <1>0, <1>2, ToldMore DEF FlushAnswered
    <2>1. /\ calls' = calls \ {c}
          /\ UNCHANGED <<tab, session, alive, mount, view, doc, timer, baseline, saving, attempt,
                         dirty, made, remote, written, edits>>
      BY <1>0, <1>2 DEF FlushAnswered, server, editor
    <2>2. calls' \subseteq Calls /\ SavesAreOne' /\ AnswersAreTrue'
      BY <2>1, CallEnds
    <2>3. BaselineWasSaved'
      BY <2>1 DEF EditorInv, BaselineWasSaved
    <2> QED
      BY <2>0, <2>1, <2>2, <2>3 DEF EditorInv, TypeOK
  <1>3. CASE SaveSucceeds(c)
    <2>1. /\ c.kind = "save" /\ c.at = "ok" /\ calls' = calls \ {c}
          /\ baseline' = [baseline EXCEPT ![c.editor] = c.text]
          /\ saving' = [saving EXCEPT ![c.editor] = NoText]
          /\ attempt' = [attempt EXCEPT ![c.editor] = 0]
          /\ dirty' \in BOOLEAN
          /\ UNCHANGED <<tab, session, alive, mount, view, doc, timer, made, remote, written,
                         edits, told>>
      BY <1>3 DEF SaveSucceeds, server, editor
    <2>2. calls' \subseteq Calls /\ SavesAreOne' /\ AnswersAreTrue'
      BY <1>0, <2>1, CallEnds
    <2>3. BaselineWasSaved'
      BY <1>0, <2>1 DEF EditorInv, BaselineWasSaved
    <2> QED
      BY <1>0, <2>1, <2>2, <2>3 DEF EditorInv, TypeOK
  <1>4. CASE SaveFails(c)
    <2>1. /\ c.kind = "save" /\ c.at = "failed"
          /\ UNCHANGED <<tab, session, alive, mount, view, doc, timer, baseline, remote, written,
                         edits>>
      BY <1>4 DEF SaveFails, server, editor
    <2>2. CASE attempt[c.editor] < Attempts
      <3> DEFINE d == Call("save", c.text, c.editor, c.session, made + 1)
      <3>1. /\ made < MaxCalls /\ made' = made + 1 /\ calls' = (calls \ {c}) \cup {d}
            /\ attempt' = [attempt EXCEPT ![c.editor] = @ + 1]
            /\ UNCHANGED <<saving, dirty, told>>
        BY <1>4, <2>2 DEF SaveFails
      <3>2. /\ d \in Calls /\ d.kind = "save" /\ d.text = c.text /\ d.editor = c.editor
            /\ d.at = "sent"
        <4>1. made + 1 \in 1 .. MaxCalls /\ c \in Calls
          BY <3>1
        <4> QED
          BY <4>1, Retrying
      <3> HIDE DEF d
      <3>3. Content' = Content /\ Content \in written
        BY <2>1 DEF Content, EditorInv, AnswersAreTrue
      <3>4. calls' \subseteq Calls /\ (SavesAreOne /\ AnswersAreTrue /\ BaselineWasSaved)'
        BY <2>1, <3>1, <3>2, <3>3, CallReplaced
      <3>5. attempt' \in [1 .. MaxMounts -> 0 .. Attempts]
        <4>1. attempt[c.editor] \in 0 .. Attempts /\ attempt[c.editor] + 1 \in 0 .. Attempts
          BY <1>0, <2>2 DEF Attempts
        <4> QED
          BY <1>0, <3>1, <4>1
      <3> QED
        BY <2>1, <3>1, <3>4, <3>5 DEF EditorInv, TypeOK
    <2>3. CASE ~(attempt[c.editor] < Attempts)
      <3>0. told' \subseteq Texts \X BOOLEAN
        <4>1. told' = told \cup {<<c.text, c.editor = mount /\ view # "none">>}
          BY <1>4, <2>3 DEF SaveFails
        <4> QED
          BY <1>0, <2>1, <4>1, ToldMore
      <3>1. /\ calls' = calls \ {c}
            /\ saving' = [saving EXCEPT ![c.editor] = NoText]
            /\ attempt' = [attempt EXCEPT ![c.editor] = 0]
            /\ dirty' \in BOOLEAN /\ UNCHANGED made
        BY <1>4, <2>3 DEF SaveFails
      <3>2. calls' \subseteq Calls /\ SavesAreOne' /\ AnswersAreTrue'
        BY <1>0, <2>1, <3>1, CallEnds
      <3>3. BaselineWasSaved'
        BY <2>1 DEF EditorInv, BaselineWasSaved
      <3> QED
        BY <1>0, <2>1, <3>0, <3>1, <3>2, <3>3 DEF EditorInv, TypeOK
    <2> QED
      BY <2>2, <2>3
  <1> QED
    BY <1>1, <1>2, <1>3, <1>4

LEMMA EditorStep == EditorInv /\ [Next]_vars => EditorInv'
  <1> SUFFICES ASSUME EditorInv, [Next]_vars PROVE EditorInv'
    OBVIOUS
  <1>1. CASE Next
    BY <1>1, EditingStep, MountingStep, RebindStep, ServeStep, AnswerStep DEF Next, Handle
  <1>2. CASE UNCHANGED vars
    BY <1>2 DEF vars, editor, server, EditorInv, TypeOK, SavesAreOne, BaselineWasSaved,
                AnswersAreTrue, Content
  <1> QED
    BY <1>1, <1>2

LEMMA EditorInvImpliesInv == EditorInv => Inv
  <1> SUFFICES ASSUME EditorInv PROVE Inv
    OBVIOUS
  <1>1. ASSUME NEW m \in 1 .. MaxMounts
        PROVE  LET saves == {c \in calls : c.kind = "save" /\ c.editor = m}
               IN  /\ Cardinality(saves) <= 1
                   /\ \A c \in saves : c.text = saving[m]
    <2> DEFINE saves == {c \in calls : c.kind = "save" /\ c.editor = m}
    <2>1. \A c, d \in saves : c = d
      BY DEF EditorInv, SavesAreOne
    <2>2. \A c \in saves : c.text = saving[m]
      BY DEF EditorInv, SavesAreOne
    <2>3. Cardinality(saves) <= 1
      <3> HIDE DEF saves
      <3>1. CASE saves = {}
        BY <3>1, FS_EmptySet
      <3>2. CASE saves # {}
        <4>1. PICK c \in saves : TRUE
          BY <3>2
        <4>2. saves = {c}
          BY <2>1, <4>1
        <4>3. Cardinality({c}) = 1
          BY FS_Singleton
        <4> QED
          BY <4>2, <4>3
      <3> QED
        BY <3>1, <3>2
    <2> QED
      BY <2>2, <2>3
  <1> QED
    BY <1>1 DEF Inv, EditorInv, OneSaveAtATime

\* handleSave's isSavingRef keeps the writes of an editor from overlapping, and
\* its baseline is a text that was read or written (FileEditor.tsx), for any
\* number of texts, editors and calls.
THEOREM EditorCorrect == Spec => []Inv
  <1>1. Init => EditorInv
    BY EditorInit
  <1> QED
    BY <1>1, EditorStep, EditorInvImpliesInv, PTL DEF Spec

-----------------------------------------------------------------------------
(* No edit is lost silently *)

\* The text of an editor that is gone is accounted for.
DocIsSafe ==
    view # "ready" =>
        doc \in written \cup Shown \cup {c.text : c \in {x \in calls : x.kind = "flush"}}

\* A torn file has a write that has still to report, has reported, or had no
\* editor to report to.
TearIsKnown == remote = Torn => Shown # {} \/ Orphaned \/ \E c \in calls : Unreported(c)

\* A failure that nobody saw is of an editor that was unmounted.
OrphansAreUnmounted == Orphaned => mount > 1 \/ view = "none"

LEMMA LossParts == NoSilentLoss <=> DocIsSafe /\ TearIsKnown /\ OrphansAreUnmounted
  BY DEF NoSilentLoss, DocIsSafe, TearIsKnown, OrphansAreUnmounted

\* Calls are kept, written and told texts too: what was accounted for still is.
LEMMA KeptSafe ==
    ASSUME EditorInv, DocIsSafe, TearIsKnown, calls \subseteq calls',
           UNCHANGED <<written, told, remote>>,
           \/ doc' = doc /\ (view' # "ready" => view # "ready")
           \/ view' = "ready"
           \/ doc' = doc /\ doc \in written \cup {c.text : c \in {x \in calls' : x.kind = "flush"}}
    PROVE  (DocIsSafe /\ TearIsKnown)'
  BY DEF DocIsSafe, TearIsKnown, Unreported, Shown, Orphaned

\* Saves are started by the editor that is mounted, and editors are only added.
LEMMA MountedStep == EditorInv /\ SavesOfMounted /\ [Next]_vars => SavesOfMounted'
  <1> SUFFICES ASSUME EditorInv, SavesOfMounted, [Next]_vars PROVE SavesOfMounted'
    OBVIOUS
  <1> USE EditorTypes
  <1>0. /\ mount \in Nat /\ \A c \in calls : c.editor \in Nat
        /\ \A c \in calls : c.kind = "save" => c.editor <= mount
    BY Fields DEF SavesOfMounted
  <1>1. ASSUME mount' \in Nat, mount <= mount',
               \A c \in calls' : c \in calls \/ c.kind # "save" \/ c.editor = mount
                                 \/ \E d \in calls : d.kind = "save" /\ c.editor = d.editor
        PROVE  SavesOfMounted'
    BY <1>0, <1>1 DEF SavesOfMounted
  <1>2. CASE SaveNow \/ AutoSave
    <2>1. mount' = mount /\ Save
      BY <1>2 DEF SaveNow, AutoSave, editor
    <2>2. \A c \in calls' : c \in calls \/ c.editor = mount
      BY <2>1 DEF Save, Invoke, Call
    <2> QED
      BY <1>0, <1>1, <2>1, <2>2
  <1>3. CASE SwitchAway \/ CloseTab
    <2>1. mount' = mount /\ Flushed
      BY <1>3 DEF SwitchAway, CloseTab
    <2>2. \A c \in calls' : c \in calls \/ c.kind = "flush"
      BY <2>1 DEF Flushed, Call
    <2> QED
      BY <1>0, <1>1, <2>1, <2>2
  <1>4. CASE SwitchBack
    <2>1. mount' = mount + 1
      BY <1>4 DEF SwitchBack
    <2>2. \A c \in calls' : c \in calls \/ c.kind = "read"
      BY <1>4 DEF SwitchBack, Invoke, Call
    <2> QED
      BY <1>0, <1>1, <2>1, <2>2
  <1>5. CASE Rebind
    <2>1. mount' = mount + 1
      BY <1>5 DEF Rebind
    <2>2. \A c \in calls' : c \in calls \/ c.kind \in {"read", "flush"}
      BY <1>5 DEF Rebind, Call
    <2> QED
      BY <1>0, <1>1, <2>1, <2>2
  <1>6. CASE Type \/ ChangeTheme \/ Disconnect \/ RebindHidden \/ UNCHANGED vars
    <2>1. UNCHANGED <<mount, calls>>
      BY <1>6 DEF Type, ChangeTheme, Disconnect, RebindHidden, vars, editor
    <2> QED
      BY <1>0, <1>1, <2>1
  <1>7. ASSUME NEW c \in calls, Serve(c) PROVE SavesOfMounted'
    <2>1. mount' = mount
      BY <1>7 DEF Serve, editor
    <2>2. PICK d \in Calls : calls' = (calls \ {c}) \cup {d} /\ d.kind = c.kind /\ d.editor = c.editor
      BY <1>7, ServeStep
    <2> QED
      BY <1>0, <1>1, <2>1, <2>2
  <1>8. ASSUME NEW c \in calls, Loaded(c) \/ FlushAnswered(c) \/ SaveSucceeds(c) PROVE SavesOfMounted'
    <2>1. mount' = mount /\ calls' = calls \ {c}
      BY <1>8 DEF Loaded, FlushAnswered, SaveSucceeds, editor
    <2> QED
      BY <1>0, <1>1, <2>1
  <1>9. ASSUME NEW c \in calls, SaveFails(c) PROVE SavesOfMounted'
    <2>1. mount' = mount /\ c.kind = "save"
      BY <1>9 DEF SaveFails, editor
    <2>2. \A d \in calls' : d \in calls \/ d.editor = c.editor
      BY <1>9 DEF SaveFails, Call
    <2> QED
      BY <1>0, <1>1, <2>1, <2>2
  <1> QED
    BY <1>2, <1>3, <1>4, <1>5, <1>6, <1>7, <1>8, <1>9 DEF Next, Handle

LEMMA LossStep ==
    EditorInv /\ DocIsSafe /\ TearIsKnown /\ [Next]_vars => (DocIsSafe /\ TearIsKnown)'
  <1> SUFFICES ASSUME EditorInv, DocIsSafe, TearIsKnown, [Next]_vars
               PROVE  (DocIsSafe /\ TearIsKnown)'
    OBVIOUS
  <1>1. CASE Type \/ SaveNow \/ AutoSave \/ ChangeTheme
    <2>1. UNCHANGED <<written, told, remote, view>> /\ (view = "ready")
      BY <1>1 DEF Type, SaveNow, AutoSave, ChangeTheme, server, editor
    <2>2. calls \subseteq calls'
      BY <1>1, Saving DEF Type, SaveNow, AutoSave, ChangeTheme, server
    <2> QED
      BY <2>1, <2>2, KeptSafe
  <1>2. CASE SwitchAway \/ CloseTab
    <2>1. Flushed /\ UNCHANGED <<written, told, remote, doc, saving, baseline>> /\ view' = "none"
      BY <1>2 DEF SwitchAway, CloseTab, server
    <2> QED
      BY <2>1, Flushing, KeptSafe
  <1>3. CASE SwitchBack
    BY <1>3, KeptSafe DEF SwitchBack, Invoke, server
  <1>4. CASE Disconnect \/ RebindHidden
    BY <1>4, KeptSafe DEF Disconnect, RebindHidden, server, editor
  <1>5. CASE Rebind
    <2>1. UNCHANGED <<written, told, remote, doc>> /\ view' = "loading"
      BY <1>5 DEF Rebind, server
    <2> QED
      BY <1>5, <2>1, RebindStep, KeptSafe
  <1>6. ASSUME NEW c \in calls, Serve(c) PROVE (DocIsSafe /\ TearIsKnown)'
    <2>1. UNCHANGED <<view, doc, told>> /\ written \subseteq written'
      BY <1>6 DEF Serve, editor, server
    <2>2. PICK d \in Calls : /\ calls' = (calls \ {c}) \cup {d}
                             /\ d.kind = c.kind /\ d.number = c.number
                             /\ (c.kind # "read" => d.text = c.text)
                             /\ (remote' = Torn => Unreported(d) \/ (remote = Torn /\ ~Unreported(c)))
      BY <1>6, ServeStep
    <2>3. DocIsSafe'
      BY <2>1, <2>2 DEF DocIsSafe, Shown
    <2>4. TearIsKnown'
      BY <2>1, <2>2 DEF TearIsKnown, Unreported, Shown, Orphaned
    <2> QED
      BY <2>3, <2>4
  <1>7. ASSUME NEW c \in calls, Loaded(c) PROVE (DocIsSafe /\ TearIsKnown)'
    <2>1. /\ c.kind = "read" /\ calls' = calls \ {c} /\ UNCHANGED <<written, told, remote>>
          /\ \/ view' = "ready"
             \/ doc' = doc /\ view' = view
             \/ doc' = doc /\ view # "ready"
      BY <1>7 DEF Loaded, server
    <2>2. DocIsSafe'
      BY <2>1 DEF DocIsSafe, Shown
    <2>3. TearIsKnown'
      BY <2>1 DEF TearIsKnown, Unreported, Shown, Orphaned
    <2> QED
      BY <2>2, <2>3
  <1>8. ASSUME NEW c \in calls, FlushAnswered(c) PROVE (DocIsSafe /\ TearIsKnown)'
    <2>1. /\ c.kind = "flush" /\ c.at # "sent" /\ calls' = calls \ {c}
          /\ UNCHANGED <<view, doc, written, remote>>
          /\ told' = IF c.at = "failed" THEN told \cup {<<c.text, TRUE>>} ELSE told
      BY <1>8 DEF FlushAnswered, server, editor
    <2>2. c.text \in Texts /\ (c.at = "failed" \/ c.text \in written)
          /\ (c.at = "failed" <=> c.at # "ok")
      BY <2>1, Fields
    <2>3. Shown \subseteq Shown' /\ (c.at = "failed" => c.text \in Shown') /\ (Orphaned => Orphaned')
      BY <2>1, <2>2 DEF Shown, Orphaned
    <2>4. DocIsSafe'
      BY <2>1, <2>2, <2>3 DEF DocIsSafe
    <2>5. TearIsKnown'
      BY <2>1, <2>2, <2>3 DEF TearIsKnown, Unreported
    <2> QED
      BY <2>4, <2>5
  <1>9. ASSUME NEW c \in calls, SaveSucceeds(c) PROVE (DocIsSafe /\ TearIsKnown)'
    <2>1. c.at = "ok" /\ calls' = calls \ {c} /\ UNCHANGED <<view, doc, written, remote, told>>
      BY <1>9 DEF SaveSucceeds, server, editor
    <2>2. c.text \in written
      BY <2>1, Fields
    <2>3. DocIsSafe'
      BY <2>1, <2>2 DEF DocIsSafe, Shown
    <2>4. TearIsKnown'
      BY <2>1 DEF TearIsKnown, Unreported, Shown, Orphaned
    <2> QED
      BY <2>3, <2>4
  <1>10. ASSUME NEW c \in calls, SaveFails(c) PROVE (DocIsSafe /\ TearIsKnown)'
    <2>1. c.kind = "save" /\ c.at = "failed" /\ UNCHANGED <<view, doc, written, remote>>
      BY <1>10 DEF SaveFails, server, editor
    <2>2. CASE attempt[c.editor] < Attempts
      <3> DEFINE d == Call("save", c.text, c.editor, c.session, made + 1)
      <3>1. d.kind = "save" /\ d.text = c.text /\ d.at = "sent"
        BY DEF Call
      <3>2. UNCHANGED told /\ calls' = (calls \ {c}) \cup {d}
        BY <1>10, <2>2 DEF SaveFails
      <3> HIDE DEF d
      <3>3. DocIsSafe'
        BY <2>1, <3>1, <3>2 DEF DocIsSafe, Shown
      <3>4. TearIsKnown'
        BY <2>1, <3>1, <3>2 DEF TearIsKnown, Unreported, Shown, Orphaned
      <3> QED
        BY <3>3, <3>4
    \* No flush is answered: the document stays accounted for.
    <2>3. CASE ~(attempt[c.editor] < Attempts)
      <3>1. /\ calls' = calls \ {c}
            /\ told' = told \cup {<<c.text, c.editor = mount /\ view # "none">>}
        BY <1>10, <2>3 DEF SaveFails
      <3>2. c.text \in Texts /\ (c.editor = mount /\ view # "none") \in BOOLEAN
        BY <2>1, Fields
      <3>3. Shown \subseteq Shown' /\ (Shown' # {} \/ Orphaned')
        BY <3>1, <3>2 DEF Shown, Orphaned
      <3>4. TearIsKnown'
        BY <3>3 DEF TearIsKnown
      <3> QED
        BY <2>1, <3>1, <3>3, <3>4 DEF DocIsSafe
    <2> QED
      BY <2>2, <2>3
  <1>11. CASE UNCHANGED vars
    BY <1>11, KeptSafe DEF vars, server, editor
  <1> QED
    BY <1>1, <1>2, <1>3, <1>4, <1>5, <1>6, <1>7, <1>8, <1>9, <1>10, <1>11 DEF Next, Handle

LEMMA OrphansStep ==
    EditorInv /\ SavesOfMounted /\ OrphansAreUnmounted /\ [Next]_vars => OrphansAreUnmounted'
  <1> SUFFICES ASSUME EditorInv, SavesOfMounted, OrphansAreUnmounted, [Next]_vars
               PROVE  OrphansAreUnmounted'
    OBVIOUS
  <1> USE EditorTypes
  <1>0. mount \in Nat /\ mount >= 1
    OBVIOUS
  <1>1. ASSUME told' = told, mount' \in Nat, mount <= mount',
               view = "none" => view' = "none" \/ mount' = mount + 1
        PROVE  OrphansAreUnmounted'
    <2>1. Orphaned' <=> Orphaned
      BY <1>1 DEF Orphaned
    <2>2. mount > 1 => mount' > 1
      BY <1>0, <1>1
    <2>3. mount' = mount + 1 => mount' > 1
      BY <1>0
    <2> QED
      BY <1>1, <2>1, <2>2, <2>3 DEF OrphansAreUnmounted
  <1>2. CASE Type \/ SaveNow \/ AutoSave \/ ChangeTheme \/ UNCHANGED vars
    BY <1>0, <1>1, <1>2 DEF Type, SaveNow, AutoSave, ChangeTheme, editor, vars
  <1>3. CASE SwitchAway \/ CloseTab \/ SwitchBack
    BY <1>0, <1>1, <1>3 DEF SwitchAway, CloseTab, SwitchBack
  <1>4. CASE Disconnect \/ RebindHidden \/ Rebind
    BY <1>0, <1>1, <1>4 DEF Disconnect, RebindHidden, Rebind, editor
  <1>5. ASSUME NEW c \in calls, Serve(c) \/ Loaded(c) \/ SaveSucceeds(c)
        PROVE  OrphansAreUnmounted'
    BY <1>0, <1>1, <1>5 DEF Serve, Loaded, SaveSucceeds, editor
  <1>6. ASSUME NEW c \in calls, FlushAnswered(c) PROVE OrphansAreUnmounted'
    <2>1. UNCHANGED <<mount, view>> /\ (Orphaned' => Orphaned)
      BY <1>6 DEF FlushAnswered, editor, Orphaned
    <2> QED
      BY <2>1 DEF OrphansAreUnmounted
  <1>7. ASSUME NEW c \in calls, SaveFails(c) PROVE OrphansAreUnmounted'
    <2>1. c.kind = "save" /\ UNCHANGED <<mount, view>>
      BY <1>7 DEF SaveFails, editor
    <2>2. c.editor \in 1 .. MaxMounts /\ c.editor <= mount
      BY <2>1, Fields DEF SavesOfMounted
    <2>3. CASE told' = told
      BY <1>0, <1>1, <2>1, <2>3
    <2>4. CASE told' = told \cup {<<c.text, c.editor = mount /\ view # "none">>}
      <3>1. CASE c.editor = mount /\ view # "none"
        <4>1. told' = told \cup {<<c.text, TRUE>>}
          BY <2>4, <3>1
        <4>2. Orphaned' => Orphaned
          BY <4>1 DEF Orphaned
        <4> QED
          BY <2>1, <4>2 DEF OrphansAreUnmounted
      <3>2. CASE view = "none"
        BY <2>1, <3>2 DEF OrphansAreUnmounted
      <3>3. CASE c.editor # mount
        BY <1>0, <2>1, <2>2, <3>3 DEF OrphansAreUnmounted
      <3> QED
        BY <3>1, <3>2, <3>3
    <2> QED
      BY <1>7, <2>3, <2>4 DEF SaveFails
  <1> QED
    BY <1>2, <1>3, <1>4, <1>5, <1>6, <1>7 DEF Next, Handle

\* Unmounting never drops the last edits silently: the flush of FileEditor.tsx
\* writes them or its failure is shown, and a file that a failed write left torn
\* is one the user hears of, unless it was a save whose editor was gone when its
\* last attempt failed (its setError and emitDirty reach nobody).
THEOREM NoSilentLossCorrect == Spec => []NoSilentLoss
  <1> DEFINE I == /\ EditorInv /\ SavesOfMounted
                  /\ DocIsSafe /\ TearIsKnown /\ OrphansAreUnmounted
  <1>1. Init => I
    BY EditorInit, LossParts
  <1>2. I /\ [Next]_vars => I'
    BY EditorStep, MountedStep, LossStep, OrphansStep
  <1>3. I => NoSilentLoss
    BY LossParts
  <1> QED
    BY <1>1, <1>2, <1>3, PTL DEF Spec

\* A save that failed for good leaves its tab dirty, or the tab was closed: the
\* last branch of handleSave, and no other step, takes it away.
THEOREM FailureStaysVisibleCorrect == Spec => FailureStaysVisible
  <1>1. ASSUME EditorInv, [Next]_vars, NEW c \in calls, c \notin calls', c.kind = "save",
               c.at = "failed", made' = made, c.session = session
        PROVE  dirty' \/ tab = "closed"
    <2>1. c \in Calls /\ made \in Nat /\ tab \in {"open", "closed"}
      BY <1>1, EditorTypes, Scalars
    <2>2. PICK d \in calls : Handle(d)
      <3>1. ~(Type \/ SaveNow \/ AutoSave \/ ChangeTheme \/ Disconnect \/ RebindHidden \/ UNCHANGED vars)
        BY <1>1, Saving DEF Type, SaveNow, AutoSave, ChangeTheme, Disconnect, RebindHidden, vars, server
      <3>2. ~(SwitchAway \/ CloseTab \/ SwitchBack \/ Rebind)
        BY <1>1, Flushing, RebindStep DEF SwitchAway, CloseTab, SwitchBack, Invoke, server
      <3> QED
        BY <1>1, <3>1, <3>2 DEF Next
    <2>3. c = d
      <3>1. \A e \in calls : e # d => e \in calls'
        BY <2>2 DEF Handle, Serve, Loaded, FlushAnswered, SaveSucceeds, SaveFails
      <3> QED
        BY <1>1, <3>1
    <2>4. SaveFails(c)
      BY <1>1, <2>2, <2>3 DEF Handle, Serve, Loaded, FlushAnswered, SaveSucceeds
    <2>5. made' # made + 1
      BY <1>1, <2>1
    <2>6. dirty' = (dirty \/ (tab = "open" /\ c.session = session))
      BY <2>4, <2>5, Zenon DEF SaveFails
    <2> QED
      BY <1>1, <2>1, <2>6
  <1>2. EditorInv /\ [Next]_vars =>
          [\A c \in calls : c \notin calls' /\ c.kind = "save" /\ c.at = "failed" /\ made' = made
                /\ c.session = session
              => dirty' \/ tab = "closed"]_vars
    BY <1>1
  <1>3. Init => EditorInv
    BY EditorInit
  <1> QED
    BY <1>2, <1>3, EditorStep, PTL DEF Spec, FailureStaysVisible

-----------------------------------------------------------------------------
(* The tabs *)

\* Placeholders, sessions and None are different.
LEMMA TabIds ==
    /\ \A t \in Tabs : t \notin Sessions /\ t # None /\ t \in Terminals!Ids
    /\ \A s \in Sessions : s \notin Tabs /\ s # None /\ s \in Terminals!Ids
    /\ \A i \in Terminals!Ids : i \in Tabs \/ i \in Sessions
  BY TabsAssumption DEF Terminals!IdsAssumption, Terminals!Ids

LEMMA NoCallFields ==
    LET c == Terminals!NoCall
    IN  c \in Terminals!Calls /\ c.cmd = "none" /\ c.from = None /\ c.loop = FALSE /\ c.got = None
  BY DEF Terminals!Calls, Terminals!NoCall, Terminals!Command

\* The fields of a call.
LEMMA CallFields ==
    ASSUME NEW c \in Terminals!Calls
    PROVE  /\ c.cmd \in {"none", "open", "palette", "reconnect", "reopen"}
           /\ c.from \in Terminals!Ids \cup {None}
           /\ c.loop \in BOOLEAN
           /\ c.got \in Sessions \cup {None}
           /\ (c.cmd = "none") <=> (c = Terminals!NoCall)
  <1>1. CASE c = Terminals!NoCall
    BY <1>1, NoCallFields
  <1>2. CASE c # Terminals!NoCall
    <2>1. c \in [cmd : Terminals!Commands, from : Terminals!Ids \cup {None}, loop : BOOLEAN,
                 got : Sessions \cup {None}]
      BY <1>2 DEF Terminals!Calls
    <2>2. c.cmd \in {"open", "palette", "reconnect", "reopen"}
      BY <2>1 DEF Terminals!Commands
    <2> QED
      BY <1>2, <2>1, <2>2
  <1> QED
    BY <1>1, <1>2

LEMMA CommandFields ==
    ASSUME NEW cmd \in Terminals!Commands, NEW from \in Terminals!Ids \cup {None}, NEW loop \in BOOLEAN
    PROVE  LET c == Terminals!Command(cmd, from, loop)
           IN  /\ c \in Terminals!Calls /\ c # Terminals!NoCall
               /\ c.cmd = cmd /\ c.from = from /\ c.loop = loop /\ c.got = None
  BY DEF Terminals!Calls, Terminals!NoCall, Terminals!Command, Terminals!Commands

\* A call that is answered, or tried again, is the same call otherwise.
LEMMA AnsweredCall ==
    ASSUME NEW f \in [Tabs -> Terminals!Calls], NEW t \in Tabs, NEW s \in Sessions,
           f[t].cmd # "none"
    PROVE  LET g == [f EXCEPT ![t].got = s]
           IN  /\ g \in [Tabs -> Terminals!Calls]
               /\ \A u \in Tabs : u # t => g[u] = f[u]
               /\ g[t].cmd = f[t].cmd /\ g[t].from = f[t].from /\ g[t].loop = f[t].loop
               /\ g[t].got = s
  BY DEF Terminals!Calls, Terminals!NoCall, Terminals!Command, Terminals!Commands

LEMMA RepeatedCall ==
    ASSUME NEW f \in [Tabs -> Terminals!Calls], NEW t \in Tabs, f[t].cmd # "none"
    PROVE  LET g == [f EXCEPT ![t].cmd = "reopen"]
           IN  /\ g \in [Tabs -> Terminals!Calls]
               /\ \A u \in Tabs : u # t => g[u] = f[u]
               /\ g[t].cmd = "reopen" /\ g[t].from = f[t].from /\ g[t].loop = f[t].loop
               /\ g[t].got = f[t].got
  BY DEF Terminals!Calls, Terminals!NoCall, Terminals!Command, Terminals!Commands

\* What the proofs below use of the types.
LEMMA TabTypes ==
    Terminals!Inv =>
        /\ backend \in [Sessions -> {"none", "live", "dead", "closed"}]
        /\ id \in [Tabs -> Terminals!Ids \cup {None}]
        /\ status \in [Tabs -> {"connecting", "connected", "disconnected"}]
        /\ reconnecting \subseteq Tabs
        /\ active \in Terminals!Ids \cup {None}
        /\ loops \subseteq Terminals!Ids /\ sleeping \subseteq Sessions
        /\ opens \in [Tabs -> Terminals!Calls]
        /\ closes \subseteq Tabs \X Terminals!Ids
        /\ stray \subseteq Sessions
        /\ wire \subseteq Sessions \X {1, 2}
        /\ userClosed \subseteq Tabs
  BY DEF Terminals!Inv, Terminals!TypeOK

LEMMA TabsInit == Terminals!Init => Terminals!Inv
  <1> SUFFICES ASSUME Terminals!Init PROVE Terminals!Inv
    OBVIOUS
  <1>1. Terminals!TypeOK
    BY NoCallFields DEF Terminals!Init, Terminals!TypeOK
  <1>2. Terminals!CallsBelong /\ Terminals!SessionsAreNew /\ Terminals!ReconnectsOnce
        /\ Terminals!ActiveIsATab /\ Terminals!NoOrphans /\ Terminals!DisconnectedHasLoop
    BY NoCallFields, TabIds
       DEF Terminals!Init, Terminals!CallsBelong, Terminals!SessionsAreNew,
           Terminals!ReconnectsOnce, Terminals!ActiveIsATab, Terminals!NoOrphans,
           Terminals!DisconnectedHasLoop
  <1> QED
    BY <1>1, <1>2 DEF Terminals!Inv

\* The user's steps.
LEMMA UserStep ==
    ASSUME Terminals!Inv, NEW t \in Tabs,
           \/ Terminals!Open(t) \/ Terminals!OpenFromPalette(t) \/ Terminals!Close(t)
           \/ Terminals!SetActive(t)
    PROVE  Terminals!Inv'
  <1> USE TabIds
  <1>0. \A u \in Tabs : opens[u] \in Terminals!Calls
    BY TabTypes
  <1>1. CASE Terminals!Open(t)
    <2> DEFINE c == Terminals!Command("open", t, FALSE)
    <2>1. /\ id[t] = None /\ opens[t] = Terminals!NoCall
          /\ id' = [id EXCEPT ![t] = t] /\ opens' = [opens EXCEPT ![t] = c]
          /\ status' = [status EXCEPT ![t] = "connecting"] /\ active' = t
          /\ UNCHANGED <<backend, reconnecting, loops, sleeping, closes, stray, wire, userClosed>>
      BY <1>1 DEF Terminals!Open, Terminals!Fresh, Terminals!autoloops
    <2>2. /\ c \in Terminals!Calls /\ c # Terminals!NoCall /\ c.cmd = "open" /\ c.from = t
          /\ c.loop = FALSE /\ c.got = None
      BY DEF Terminals!Command, Terminals!NoCall, Terminals!Calls, Terminals!Commands
    <2> HIDE DEF c
    <2>3. /\ \A u \in Tabs : u # t => id'[u] = id[u] /\ opens'[u] = opens[u] /\ status'[u] = status[u]
          /\ id'[t] = t /\ opens'[t] = c /\ status'[t] = "connecting"
      BY <2>1, TabTypes
    <2>4. Terminals!TypeOK'
      BY <2>1, <2>2, TabTypes DEF Terminals!TypeOK
    <2>5. Terminals!CallsBelong'
      BY <1>0, <2>1, <2>2, <2>3, CallFields, NoCallFields
         DEF Terminals!Inv, Terminals!CallsBelong
    <2>6. Terminals!SessionsAreNew'
      BY <1>0, <2>1, <2>2, <2>3, CallFields, NoCallFields
         DEF Terminals!Inv, Terminals!SessionsAreNew
    <2>7. Terminals!ReconnectsOnce'
      BY <1>0, <2>1, <2>2, <2>3, CallFields, NoCallFields
         DEF Terminals!Inv, Terminals!ReconnectsOnce, Terminals!CallsBelong
    <2>8. Terminals!ActiveIsATab'
      BY <1>0, <2>1, <2>2, <2>3, CallFields, NoCallFields
         DEF Terminals!Inv, Terminals!ActiveIsATab
    <2>9. Terminals!NoOrphans'
      BY <1>0, <2>1, <2>2, <2>3, CallFields, NoCallFields
         DEF Terminals!Inv, Terminals!NoOrphans
    <2>10. Terminals!DisconnectedHasLoop'
      BY <1>0, <2>1, <2>2, <2>3, CallFields, NoCallFields
         DEF Terminals!Inv, Terminals!DisconnectedHasLoop
    <2> QED
      BY <2>4, <2>5, <2>6, <2>7, <2>8, <2>9, <2>10 DEF Terminals!Inv
  <1>2. CASE Terminals!OpenFromPalette(t)
    <2> DEFINE c == Terminals!Command("palette", None, FALSE)
    <2>1. /\ id[t] = None /\ opens[t] = Terminals!NoCall
          /\ opens' = [opens EXCEPT ![t] = c]
          /\ UNCHANGED <<backend, id, status, reconnecting, active, loops, sleeping, closes, stray, wire,
                         userClosed>>
      BY <1>2 DEF Terminals!OpenFromPalette, Terminals!Fresh, Terminals!autoloops
    <2>2. /\ c \in Terminals!Calls /\ c # Terminals!NoCall /\ c.cmd = "palette" /\ c.from = None
          /\ c.loop = FALSE /\ c.got = None
      BY DEF Terminals!Command, Terminals!NoCall, Terminals!Calls, Terminals!Commands
    <2> HIDE DEF c
    <2>3. (\A u \in Tabs : u # t => opens'[u] = opens[u]) /\ opens'[t] = c
      BY <2>1, TabTypes
    <2>4. Terminals!TypeOK'
      BY <2>1, <2>2, TabTypes DEF Terminals!TypeOK
    <2>5. Terminals!CallsBelong'
      BY <1>0, <2>1, <2>2, <2>3, CallFields, NoCallFields
         DEF Terminals!Inv, Terminals!CallsBelong
    <2>6. Terminals!SessionsAreNew'
      BY <1>0, <2>1, <2>2, <2>3, CallFields, NoCallFields
         DEF Terminals!Inv, Terminals!SessionsAreNew
    <2>7. Terminals!ReconnectsOnce'
      BY <1>0, <2>1, <2>2, <2>3, CallFields, NoCallFields
         DEF Terminals!Inv, Terminals!ReconnectsOnce, Terminals!CallsBelong
    <2>8. Terminals!ActiveIsATab'
      BY <1>0, <2>1, <2>2, <2>3, CallFields, NoCallFields
         DEF Terminals!Inv, Terminals!ActiveIsATab
    <2>9. Terminals!NoOrphans'
      BY <1>0, <2>1, <2>2, <2>3, CallFields, NoCallFields
         DEF Terminals!Inv, Terminals!NoOrphans
    <2>10. Terminals!DisconnectedHasLoop'
      BY <1>0, <2>1, <2>2, <2>3, CallFields, NoCallFields
         DEF Terminals!Inv, Terminals!DisconnectedHasLoop
    <2> QED
      BY <2>4, <2>5, <2>6, <2>7, <2>8, <2>9, <2>10 DEF Terminals!Inv
  <1>3. CASE Terminals!Close(t)
    <2>1. /\ id[t] # None
          /\ loops' = loops \ {id[t]} /\ closes' = closes \cup {<<t, id[t]>>}
          /\ UNCHANGED <<backend, id, status, reconnecting, active, sleeping, opens, stray, wire,
                         userClosed>>
      BY <1>3 DEF Terminals!Close
    <2>4. Terminals!TypeOK'
      BY <2>1, TabTypes DEF Terminals!TypeOK
    <2>5. Terminals!CallsBelong'
      BY <2>1
         DEF Terminals!Inv, Terminals!CallsBelong
    <2>6. Terminals!SessionsAreNew'
      BY <2>1
         DEF Terminals!Inv, Terminals!SessionsAreNew
    <2>7. Terminals!ReconnectsOnce'
      BY <2>1
         DEF Terminals!Inv, Terminals!ReconnectsOnce
    <2>8. Terminals!ActiveIsATab'
      BY <2>1
         DEF Terminals!Inv, Terminals!ActiveIsATab
    <2>9. Terminals!NoOrphans'
      BY <2>1
         DEF Terminals!Inv, Terminals!NoOrphans
    <2>10. Terminals!DisconnectedHasLoop'
      BY <2>1
         DEF Terminals!Inv, Terminals!DisconnectedHasLoop, Terminals!ReconnectsOnce
    <2> QED
      BY <2>4, <2>5, <2>6, <2>7, <2>8, <2>9, <2>10 DEF Terminals!Inv
  <1>4. CASE Terminals!SetActive(t)
    <2>1. /\ id[t] # None /\ active' = id[t]
          /\ UNCHANGED <<backend, id, status, reconnecting, loops, sleeping, opens, closes, stray, wire,
                         userClosed>>
      BY <1>4 DEF Terminals!SetActive, Terminals!autoloops
    <2>4. Terminals!TypeOK'
      BY <2>1, TabTypes DEF Terminals!TypeOK
    <2>5. Terminals!CallsBelong'
      BY <2>1
         DEF Terminals!Inv, Terminals!CallsBelong
    <2>6. Terminals!SessionsAreNew'
      BY <2>1
         DEF Terminals!Inv, Terminals!SessionsAreNew
    <2>7. Terminals!ReconnectsOnce'
      BY <2>1
         DEF Terminals!Inv, Terminals!ReconnectsOnce
    <2>8. Terminals!ActiveIsATab'
      BY <2>1
         DEF Terminals!Inv, Terminals!ActiveIsATab
    <2>9. Terminals!NoOrphans'
      BY <2>1
         DEF Terminals!Inv, Terminals!NoOrphans
    <2>10. Terminals!DisconnectedHasLoop'
      BY <2>1
         DEF Terminals!Inv, Terminals!DisconnectedHasLoop
    <2> QED
      BY <2>4, <2>5, <2>6, <2>7, <2>8, <2>9, <2>10 DEF Terminals!Inv
  <1> QED
    BY <1>1, <1>2, <1>3, <1>4

\* reconnectTab, called by the button or by a loop that has slept.
LEMMA ReconnectStep ==
    ASSUME Terminals!Inv, NEW t \in Tabs, NEW loop \in BOOLEAN, Terminals!Reconnect(t, loop),
           \/ UNCHANGED sleeping
           \/ loop = TRUE /\ sleeping' = sleeping \ {id[t]}
    PROVE  Terminals!Inv'
  <1> USE TabIds
  <1> DEFINE c == Terminals!Command("reconnect", id[t], loop)
  <1>0. \A u \in Tabs : opens[u] \in Terminals!Calls
    BY TabTypes
  <1>1. /\ id[t] \in Sessions /\ status[t] = "disconnected" /\ t \notin reconnecting
        /\ reconnecting' = reconnecting \cup {t}
        /\ opens' = [opens EXCEPT ![t] = c]
        /\ UNCHANGED <<backend, id, status, active, loops, closes, stray, wire, userClosed>>
    BY DEF Terminals!Reconnect
  <1>2. /\ c \in Terminals!Calls /\ c # Terminals!NoCall /\ c.cmd = "reconnect" /\ c.from = id[t]
        /\ c.loop = loop /\ c.got = None
    <2>1. "reconnect" \in Terminals!Commands /\ id[t] \in Terminals!Ids \cup {None}
      BY TabTypes DEF Terminals!Commands
    <2> QED
      BY <2>1, CommandFields
  <1> HIDE DEF c
  <1>3. (\A u \in Tabs : u # t => opens'[u] = opens[u]) /\ opens'[t] = c
    BY <1>1, TabTypes
  <1>4. opens[t] = Terminals!NoCall
    BY <1>1 DEF Terminals!Inv, Terminals!CallsBelong, Terminals!ReconnectsOnce
  <1>5. Terminals!TypeOK'
    BY <1>1, <1>2, TabTypes DEF Terminals!TypeOK
  <1>6. Terminals!CallsBelong'
    BY <1>0, <1>1, <1>2, <1>3, <1>4, CallFields, NoCallFields
       DEF Terminals!Inv, Terminals!CallsBelong
  <1>7. Terminals!SessionsAreNew'
    BY <1>0, <1>1, <1>2, <1>3, <1>4, CallFields, NoCallFields
       DEF Terminals!Inv, Terminals!SessionsAreNew, Terminals!ReconnectsOnce
  <1>8. Terminals!ReconnectsOnce'
    BY <1>0, <1>1, <1>2, <1>3, <1>4, CallFields, NoCallFields
       DEF Terminals!Inv, Terminals!ReconnectsOnce, Terminals!CallsBelong
  <1>9. Terminals!ActiveIsATab'
    BY <1>0, <1>1, <1>2, <1>3, <1>4, CallFields, NoCallFields
       DEF Terminals!Inv, Terminals!ActiveIsATab
  <1>10. Terminals!NoOrphans'
    BY <1>0, <1>1, <1>2, <1>3, <1>4, CallFields, NoCallFields
       DEF Terminals!Inv, Terminals!NoOrphans
  <1>11. Terminals!DisconnectedHasLoop'
    BY <1>0, <1>1, <1>2, <1>3, <1>4, CallFields, NoCallFields
       DEF Terminals!Inv, Terminals!DisconnectedHasLoop, Terminals!ReconnectsOnce
  <1> QED
    BY <1>5, <1>6, <1>7, <1>8, <1>9, <1>10, <1>11 DEF Terminals!Inv

\* A loop wakes up.
LEMMA LoopStep ==
    ASSUME Terminals!Inv, NEW s \in Sessions, Terminals!LoopTick(s)
    PROVE  Terminals!Inv'
  <1> USE TabIds
  <1>1. CASE \E t \in Tabs : id[t] = s /\ status[t] = "disconnected"
    <2> DEFINE t == CHOOSE u \in Tabs : id[u] = s
    <2>1. t \in Tabs /\ id[t] = s
      BY <1>1
    <2>2. /\ s \in sleeping
          /\ IF t \in reconnecting
             THEN /\ s \notin loops
                  /\ sleeping' = sleeping \ {s}
                  /\ UNCHANGED <<backend, id, status, reconnecting, active, loops, opens, closes,
                                 stray, wire, userClosed>>
             ELSE Terminals!Reconnect(t, TRUE) /\ sleeping' = sleeping \ {s}
      BY <1>1 DEF Terminals!LoopTick
    <2> HIDE DEF t
    <2>3. CASE t \in reconnecting
      <3>1. /\ s \notin loops /\ sleeping' = sleeping \ {s}
            /\ UNCHANGED <<backend, id, status, reconnecting, active, loops, opens, closes, stray,
                           wire, userClosed>>
        BY <2>2, <2>3
      <3>2. Terminals!TypeOK'
        BY <3>1, TabTypes DEF Terminals!TypeOK
      <3>3. Terminals!CallsBelong'
        BY <3>1
           DEF Terminals!Inv, Terminals!CallsBelong
      <3>4. Terminals!SessionsAreNew'
        BY <3>1
           DEF Terminals!Inv, Terminals!SessionsAreNew
      <3>5. Terminals!ReconnectsOnce'
        BY <3>1
           DEF Terminals!Inv, Terminals!ReconnectsOnce
      <3>6. Terminals!ActiveIsATab'
        BY <3>1
           DEF Terminals!Inv, Terminals!ActiveIsATab
      <3>7. Terminals!NoOrphans'
        BY <3>1
           DEF Terminals!Inv, Terminals!NoOrphans
      <3>8. Terminals!DisconnectedHasLoop'
        BY <3>1
           DEF Terminals!Inv, Terminals!DisconnectedHasLoop
      <3> QED
        BY <3>2, <3>3, <3>4, <3>5, <3>6, <3>7, <3>8 DEF Terminals!Inv
    <2>4. CASE t \notin reconnecting
      BY <2>1, <2>2, <2>4, ReconnectStep
    <2> QED
      BY <2>3, <2>4
  <1>2. CASE ~\E t \in Tabs : id[t] = s /\ status[t] = "disconnected"
    <2>1. /\ loops' = loops \ {s} /\ sleeping' = sleeping \ {s}
          /\ UNCHANGED <<backend, id, status, reconnecting, active, opens, closes, stray, wire,
                         userClosed>>
      BY <1>2 DEF Terminals!LoopTick
    <2>2. Terminals!TypeOK'
      BY <2>1, TabTypes DEF Terminals!TypeOK
    <2>3. Terminals!CallsBelong'
      BY <1>2, <2>1
         DEF Terminals!Inv, Terminals!CallsBelong
    <2>4. Terminals!SessionsAreNew'
      BY <1>2, <2>1
         DEF Terminals!Inv, Terminals!SessionsAreNew
    <2>5. Terminals!ReconnectsOnce'
      BY <1>2, <2>1
         DEF Terminals!Inv, Terminals!ReconnectsOnce
    <2>6. Terminals!ActiveIsATab'
      BY <1>2, <2>1
         DEF Terminals!Inv, Terminals!ActiveIsATab
    <2>7. Terminals!NoOrphans'
      BY <1>2, <2>1
         DEF Terminals!Inv, Terminals!NoOrphans
    <2>8. Terminals!DisconnectedHasLoop'
      BY <1>2, <2>1
         DEF Terminals!Inv, Terminals!DisconnectedHasLoop
    <2> QED
      BY <2>2, <2>3, <2>4, <2>5, <2>6, <2>7, <2>8 DEF Terminals!Inv
  <1> QED
    BY <1>1, <1>2

\* removeTabLocal.
LEMMA Removing ==
    ASSUME Terminals!Inv, NEW t \in Tabs, id[t] # None, Terminals!RemoveTab(t)
    PROVE  /\ id' \in [Tabs -> Terminals!Ids \cup {None}]
           /\ id'[t] = None /\ \A u \in Tabs : u # t => id'[u] = id[u]
           /\ reconnecting' = reconnecting \ {t} /\ loops' = loops \ {id[t]}
           /\ active' \in Terminals!Ids \cup {None}
           /\ Terminals!ActiveIsATab'
  <1>1. /\ id' = [id EXCEPT ![t] = None]
        /\ reconnecting' = reconnecting \ {t} /\ loops' = loops \ {id[t]}
        /\ active' \in IF active # id[t] THEN {active}
                      ELSE IF \E u \in Tabs \ {t} : id[u] # None
                           THEN {id[u] : u \in {v \in Tabs \ {t} : id[v] # None}}
                           ELSE {None}
    BY DEF Terminals!RemoveTab
  <1>2. id'[t] = None /\ \A u \in Tabs : u # t => id'[u] = id[u]
    BY <1>1, TabTypes
  <1>3. CASE active # id[t]
    BY <1>1, <1>2, <1>3, TabTypes DEF Terminals!Inv, Terminals!ActiveIsATab
  <1>4. CASE active = id[t] /\ \E u \in Tabs \ {t} : id[u] # None
    <2>1. PICK u \in Tabs \ {t} : id[u] # None /\ active' = id[u]
      BY <1>1, <1>4
    <2> QED
      BY <1>1, <1>2, <2>1, TabTypes DEF Terminals!ActiveIsATab
  <1>5. CASE active = id[t] /\ ~\E u \in Tabs \ {t} : id[u] # None
    BY <1>1, <1>2, <1>5, TabTypes DEF Terminals!ActiveIsATab
  <1> QED
    BY <1>3, <1>4, <1>5

\* session_close has answered.
LEMMA ClosedStep ==
    ASSUME Terminals!Inv, NEW t \in Tabs, NEW s \in Terminals!Ids, Terminals!Closed(t, s)
    PROVE  Terminals!Inv'
  <1> USE TabIds
  <1>1. /\ s \in Sessions => backend[s] = "closed"
        /\ closes' = closes \ {<<t, s>>} /\ userClosed' = userClosed \cup {t}
        /\ UNCHANGED <<backend, status, sleeping, opens, stray, wire>>
    BY DEF Terminals!Closed
  <1>2. CASE id[t] = s
    <2>1. /\ id' \in [Tabs -> Terminals!Ids \cup {None}]
          /\ id'[t] = None /\ \A u \in Tabs : u # t => id'[u] = id[u]
          /\ reconnecting' = reconnecting \ {t} /\ loops' = loops \ {id[t]}
          /\ active' \in Terminals!Ids \cup {None}
          /\ Terminals!ActiveIsATab'
      BY <1>2, Removing DEF Terminals!Closed
    <2>2. Terminals!TypeOK'
      BY <1>1, <2>1, TabTypes DEF Terminals!TypeOK
    <2>3. Terminals!CallsBelong'
      BY <1>1, <1>2, <2>1, TabTypes
         DEF Terminals!Inv, Terminals!CallsBelong
    <2>4. Terminals!SessionsAreNew'
      BY <1>1, <1>2, <2>1, TabTypes
         DEF Terminals!Inv, Terminals!SessionsAreNew
    <2>5. Terminals!ReconnectsOnce'
      BY <1>1, <1>2, <2>1, TabTypes
         DEF Terminals!Inv, Terminals!ReconnectsOnce
    <2>6. Terminals!ActiveIsATab'
      BY <1>1, <1>2, <2>1, TabTypes
         DEF Terminals!Inv, Terminals!ActiveIsATab
    <2>7. Terminals!NoOrphans'
      BY <1>1, <1>2, <2>1, TabTypes
         DEF Terminals!Inv, Terminals!NoOrphans
    <2>8. Terminals!DisconnectedHasLoop'
      BY <1>1, <1>2, <2>1, TabTypes
         DEF Terminals!Inv, Terminals!DisconnectedHasLoop, Terminals!ReconnectsOnce
    <2> QED
      BY <2>2, <2>3, <2>4, <2>5, <2>6, <2>7, <2>8 DEF Terminals!Inv
  <1>3. CASE id[t] # s
    <2>1. UNCHANGED <<id, reconnecting, loops, active>>
      BY <1>3 DEF Terminals!Closed
    <2>2. Terminals!TypeOK'
      BY <1>1, <2>1, TabTypes DEF Terminals!TypeOK
    <2>3. Terminals!CallsBelong'
      BY <1>1, <1>3, <2>1
         DEF Terminals!Inv, Terminals!CallsBelong
    <2>4. Terminals!SessionsAreNew'
      BY <1>1, <1>3, <2>1
         DEF Terminals!Inv, Terminals!SessionsAreNew
    <2>5. Terminals!ReconnectsOnce'
      BY <1>1, <1>3, <2>1
         DEF Terminals!Inv, Terminals!ReconnectsOnce
    <2>6. Terminals!ActiveIsATab'
      BY <1>1, <1>3, <2>1
         DEF Terminals!Inv, Terminals!ActiveIsATab
    <2>7. Terminals!NoOrphans'
      BY <1>1, <1>3, <2>1
         DEF Terminals!Inv, Terminals!NoOrphans
    <2>8. Terminals!DisconnectedHasLoop'
      BY <1>1, <1>3, <2>1
         DEF Terminals!Inv, Terminals!DisconnectedHasLoop
    <2> QED
      BY <2>2, <2>3, <2>4, <2>5, <2>6, <2>7, <2>8 DEF Terminals!Inv
  <1> QED
    BY <1>2, <1>3

\* A session takes the place of the id that a tab had, or makes a tab.
LEMMA Showing ==
    ASSUME Terminals!Inv, NEW t \in Tabs, NEW s \in Sessions, s = opens[t].got,
           opens' = [opens EXCEPT ![t] = Terminals!NoCall],
           id' = [id EXCEPT ![t] = s],
           status' = [status EXCEPT ![t] = "connected"],
           active' = s \/ (active' = active /\ active # id[t]),
           reconnecting' = reconnecting \ {t},
           (UNCHANGED loops) \/ (id[t] # None /\ loops' = loops \ {id[t]}),
           id[t] = opens[t].from,
           UNCHANGED <<backend, sleeping, closes, stray, wire, userClosed>>
    PROVE  Terminals!Inv'
  <1> USE TabIds
  <1>0. \A u \in Tabs : opens[u] \in Terminals!Calls
    BY TabTypes
  <1>1. /\ \A u \in Tabs : u # t => id'[u] = id[u] /\ opens'[u] = opens[u] /\ status'[u] = status[u]
        /\ id'[t] = s /\ opens'[t] = Terminals!NoCall /\ status'[t] = "connected"
    BY TabTypes
  <1>2. \A u \in Tabs : u # t => s \notin {id[u], opens[u].from, opens[u].got}
    BY DEF Terminals!Inv, Terminals!SessionsAreNew
  <1>3. id[t] \in Sessions => backend[id[t]] = "closed"
    <2>1. opens[t].got # None /\ opens[t].cmd # "none"
      BY NoCallFields, CallFields, <1>0
    <2>2. id[t] \in Sessions => opens[t].cmd \in {"reconnect", "reopen"}
      BY <1>0, <2>1, CallFields DEF Terminals!Inv, Terminals!CallsBelong
    <2> QED
      BY <2>1, <2>2 DEF Terminals!Inv, Terminals!CallsBelong
  <1>4. Terminals!TypeOK'
    BY NoCallFields, TabTypes DEF Terminals!TypeOK
  <1>5. Terminals!CallsBelong'
    BY <1>0, <1>1, <1>2, <1>3, CallFields, NoCallFields
       DEF Terminals!Inv, Terminals!CallsBelong
  <1>6. Terminals!SessionsAreNew'
    BY <1>0, <1>1, <1>2, <1>3, CallFields, NoCallFields
       DEF Terminals!Inv, Terminals!SessionsAreNew, Terminals!ReconnectsOnce
  <1>7. Terminals!ReconnectsOnce'
    BY <1>0, <1>1, <1>2, <1>3, CallFields, NoCallFields
       DEF Terminals!Inv, Terminals!ReconnectsOnce, Terminals!CallsBelong
  <1>8. Terminals!ActiveIsATab'
    BY <1>0, <1>1, <1>2, <1>3, CallFields, NoCallFields
       DEF Terminals!Inv, Terminals!ActiveIsATab
  <1>9. Terminals!NoOrphans'
    BY <1>0, <1>1, <1>2, <1>3, CallFields, NoCallFields
       DEF Terminals!Inv, Terminals!NoOrphans, Terminals!SessionsAreNew
  <1>10. Terminals!DisconnectedHasLoop'
    BY <1>0, <1>1, <1>2, <1>3, CallFields, NoCallFields
       DEF Terminals!Inv, Terminals!DisconnectedHasLoop, Terminals!ReconnectsOnce
  <1> QED
    BY <1>4, <1>5, <1>6, <1>7, <1>8, <1>9, <1>10 DEF Terminals!Inv

\* A command has returned a session.
LEMMA OpenedStep ==
    ASSUME Terminals!Inv, NEW t \in Tabs, Terminals!Opened(t)
    PROVE  Terminals!Inv'
  <1> USE TabIds
  <1> DEFINE s == opens[t].got
  <1>0. /\ \A u \in Tabs : opens[u] \in Terminals!Calls
        /\ opens[t].cmd # "none"
    BY TabTypes DEF Terminals!Opened, Terminals!Commands
  <1>1. /\ s \in Sessions
        /\ opens' = [opens EXCEPT ![t] = Terminals!NoCall]
        /\ UNCHANGED <<backend, sleeping, closes, wire, userClosed>>
    BY <1>0, CallFields DEF Terminals!Opened
  <1>2. CASE opens[t].cmd = "palette"
    <2>1. /\ id' = [id EXCEPT ![t] = s]
          /\ status' = [status EXCEPT ![t] = "connected"]
          /\ active' = s
          /\ UNCHANGED <<loops, reconnecting, stray>>
      BY <1>2 DEF Terminals!Opened
    <2>2. id[t] = None /\ opens[t].from = None /\ t \notin reconnecting
      BY <1>2 DEF Terminals!Inv, Terminals!CallsBelong
    <2>3. reconnecting' = reconnecting \ {t}
      BY <2>1, <2>2
    <2> HIDE DEF s
    <2> QED
      BY <1>1, <2>1, <2>2, <2>3, Showing DEF s
  <1>3. CASE opens[t].cmd # "palette" /\ id[t] = opens[t].from
    <2>1. /\ id' = [id EXCEPT ![t] = s]
          /\ status' = [status EXCEPT ![t] = "connected"]
          /\ active' = (IF active = id[t] THEN s ELSE active)
          /\ loops' = loops \ {id[t]} /\ reconnecting' = reconnecting \ {t}
          /\ UNCHANGED stray
      BY <1>3 DEF Terminals!Opened, Terminals!MarkConnected
    <2>2. id[t] # None
      BY <1>0, <1>3, CallFields DEF Terminals!Inv, Terminals!CallsBelong
    <2>3. active' = s \/ (active' = active /\ active # id[t])
      BY <2>1
    <2> HIDE DEF s
    <2> QED
      BY <1>1, <1>3, <2>1, <2>2, <2>3, Showing DEF s
  <1>4. CASE opens[t].cmd # "palette" /\ id[t] # opens[t].from
    <2>1. /\ stray' = stray \cup {s}
          /\ loops' = IF opens[t].loop THEN loops \ {opens[t].from} ELSE loops
          /\ UNCHANGED <<id, status, active, reconnecting>>
      BY <1>4 DEF Terminals!Opened
    <2>2. id[t] \notin Sessions /\ (opens[t].from \in Sessions => \A u \in Tabs : id[u] # opens[t].from)
      <3>1. opens[t] # Terminals!NoCall
        BY <1>0, NoCallFields
      <3>2. id[t] \notin Sessions
        BY <1>4, <3>1 DEF Terminals!Inv, Terminals!CallsBelong
      <3> QED
        BY <3>2 DEF Terminals!Inv, Terminals!SessionsAreNew
    <2>3. /\ \A u \in Tabs : u # t => opens'[u] = opens[u]
          /\ opens'[t] = Terminals!NoCall
      BY <1>1, TabTypes
    <2>4. Terminals!TypeOK'
      BY <1>1, <2>1, NoCallFields, TabTypes DEF Terminals!TypeOK
    <2>5. Terminals!CallsBelong'
      BY <1>0, <1>1, <1>4, <2>1, <2>2, <2>3, CallFields, NoCallFields
         DEF Terminals!Inv, Terminals!CallsBelong
    <2>6. Terminals!SessionsAreNew'
      BY <1>0, <1>1, <1>4, <2>1, <2>2, <2>3, CallFields, NoCallFields
         DEF Terminals!Inv, Terminals!SessionsAreNew
    <2>7. Terminals!ReconnectsOnce'
      BY <1>0, <1>1, <1>4, <2>1, <2>2, <2>3, CallFields, NoCallFields
         DEF Terminals!Inv, Terminals!ReconnectsOnce, Terminals!CallsBelong
    <2>8. Terminals!ActiveIsATab'
      BY <1>0, <1>1, <1>4, <2>1, <2>2, <2>3, CallFields, NoCallFields
         DEF Terminals!Inv, Terminals!ActiveIsATab
    <2>9. Terminals!NoOrphans'
      BY <1>0, <1>1, <1>4, <2>1, <2>2, <2>3, CallFields, NoCallFields
         DEF Terminals!Inv, Terminals!NoOrphans
    <2>10. Terminals!DisconnectedHasLoop'
      BY <1>0, <1>1, <1>4, <2>1, <2>2, <2>3, CallFields, NoCallFields
         DEF Terminals!Inv, Terminals!DisconnectedHasLoop
    <2> QED
      BY <2>4, <2>5, <2>6, <2>7, <2>8, <2>9, <2>10 DEF Terminals!Inv
  <1> QED
    BY <1>2, <1>3, <1>4

\* A disconnect event arrives.
LEMMA DisconnectedStep ==
    ASSUME Terminals!Inv, NEW s \in Sessions, Terminals!Disconnected(s)
    PROVE  Terminals!Inv'
  <1> USE TabIds
  <1>1. wire' \subseteq wire /\ UNCHANGED <<backend, id, active, opens, closes, stray, userClosed>>
    BY DEF Terminals!Disconnected
  <1>2. CASE \E t \in Tabs : id[t] = s /\ status[t] # "disconnected"
    <2> DEFINE t == CHOOSE u \in Tabs : id[u] = s
    <2>1. t \in Tabs /\ id[t] = s
      BY <1>2
    <2>2. /\ status' = [status EXCEPT ![t] = "disconnected"]
          /\ reconnecting' = reconnecting \ {t}
          /\ loops' = loops \cup {s} /\ sleeping' = sleeping \cup {s}
      BY <1>2 DEF Terminals!Disconnected
    <2> HIDE DEF t
    <2>3. \A u \in Tabs : id[u] = s => u = t
      BY <2>1 DEF Terminals!Inv, Terminals!ReconnectsOnce
    <2>4. status[t] # "disconnected"
      BY <1>2, <2>3
    <2>5. /\ \A u \in Tabs : u # t => status'[u] = status[u]
          /\ status'[t] = "disconnected"
      BY <2>1, <2>2, TabTypes
    <2>6. opens[t] = Terminals!NoCall
      BY <2>1, <2>4 DEF Terminals!Inv, Terminals!CallsBelong
    <2>7. Terminals!TypeOK'
      BY <1>1, <2>1, <2>2, TabTypes DEF Terminals!TypeOK
    <2>8. Terminals!CallsBelong'
      BY <1>1, <2>1, <2>2, <2>3, <2>5, <2>6
         DEF Terminals!Inv, Terminals!CallsBelong
    <2>9. Terminals!SessionsAreNew'
      BY <1>1, <2>1, <2>2, <2>3, <2>5, <2>6
         DEF Terminals!Inv, Terminals!SessionsAreNew
    <2>10. Terminals!ReconnectsOnce'
      BY <1>1, <2>1, <2>2, <2>3, <2>5, <2>6
         DEF Terminals!Inv, Terminals!ReconnectsOnce
    <2>11. Terminals!ActiveIsATab'
      BY <1>1, <2>1, <2>2, <2>3, <2>5, <2>6
         DEF Terminals!Inv, Terminals!ActiveIsATab
    <2>12. Terminals!NoOrphans'
      BY <1>1, <2>1, <2>2, <2>3, <2>5, <2>6
         DEF Terminals!Inv, Terminals!NoOrphans
    <2>13. Terminals!DisconnectedHasLoop'
      BY <1>1, <2>1, <2>2, <2>3, <2>5, <2>6
         DEF Terminals!Inv, Terminals!DisconnectedHasLoop
    <2> QED
      BY <2>7, <2>8, <2>9, <2>10, <2>11, <2>12, <2>13 DEF Terminals!Inv
  <1>3. CASE ~\E t \in Tabs : id[t] = s /\ status[t] # "disconnected"
    <2>1. UNCHANGED <<status, reconnecting, loops, sleeping>>
      BY <1>3 DEF Terminals!Disconnected, Terminals!autoloops
    <2>2. Terminals!TypeOK'
      BY <1>1, <2>1, TabTypes DEF Terminals!TypeOK
    <2>3. Terminals!CallsBelong'
      BY <1>1, <2>1
         DEF Terminals!Inv, Terminals!CallsBelong
    <2>4. Terminals!SessionsAreNew'
      BY <1>1, <2>1
         DEF Terminals!Inv, Terminals!SessionsAreNew
    <2>5. Terminals!ReconnectsOnce'
      BY <1>1, <2>1
         DEF Terminals!Inv, Terminals!ReconnectsOnce
    <2>6. Terminals!ActiveIsATab'
      BY <1>1, <2>1
         DEF Terminals!Inv, Terminals!ActiveIsATab
    <2>7. Terminals!NoOrphans'
      BY <1>1, <2>1
         DEF Terminals!Inv, Terminals!NoOrphans
    <2>8. Terminals!DisconnectedHasLoop'
      BY <1>1, <2>1
         DEF Terminals!Inv, Terminals!DisconnectedHasLoop
    <2> QED
      BY <2>2, <2>3, <2>4, <2>5, <2>6, <2>7, <2>8 DEF Terminals!Inv
  <1> QED
    BY <1>2, <1>3

\* A command has failed.
LEMMA RefuseStep ==
    ASSUME Terminals!Inv, NEW t \in Tabs, Terminals!Refuse(t)
    PROVE  Terminals!Inv'
  <1> USE TabIds
  <1>0. /\ \A u \in Tabs : opens[u] \in Terminals!Calls
        /\ opens[t].cmd # "none" /\ opens[t].got = None /\ opens[t] # Terminals!NoCall
    BY TabTypes, NoCallFields DEF Terminals!Refuse, Terminals!Pending
  <1>1. UNCHANGED <<backend, closes, stray, wire, userClosed>>
    BY DEF Terminals!Refuse
  <1>2. CASE opens[t].cmd = "reconnect"
    <2>1. /\ backend[opens[t].from] = "closed"
          /\ opens' = [opens EXCEPT ![t].cmd = "reopen"]
          /\ UNCHANGED <<id, status, reconnecting, active, loops, sleeping>>
      BY <1>2 DEF Terminals!Refuse, Terminals!autoloops
    <2>2. /\ opens' \in [Tabs -> Terminals!Calls]
          /\ \A u \in Tabs : u # t => opens'[u] = opens[u]
          /\ opens'[t].cmd = "reopen" /\ opens'[t].from = opens[t].from
          /\ opens'[t].loop = opens[t].loop /\ opens'[t].got = None
      BY <1>0, <2>1, RepeatedCall, TabTypes
    <2>3. opens'[t] # Terminals!NoCall
      BY <2>2, NoCallFields
    <2>4. Terminals!TypeOK'
      BY <1>1, <2>1, <2>2, TabTypes DEF Terminals!TypeOK
    <2>5. Terminals!CallsBelong'
      BY <1>0, <1>1, <1>2, <2>1, <2>2, <2>3
         DEF Terminals!Inv, Terminals!CallsBelong
    <2>6. Terminals!SessionsAreNew'
      BY <1>0, <1>1, <1>2, <2>1, <2>2, <2>3
         DEF Terminals!Inv, Terminals!SessionsAreNew
    <2>7. Terminals!ReconnectsOnce'
      BY <1>0, <1>1, <1>2, <2>1, <2>2, <2>3
         DEF Terminals!Inv, Terminals!ReconnectsOnce
    <2>8. Terminals!ActiveIsATab'
      BY <1>0, <1>1, <1>2, <2>1, <2>2, <2>3
         DEF Terminals!Inv, Terminals!ActiveIsATab
    <2>9. Terminals!NoOrphans'
      BY <1>0, <1>1, <1>2, <2>1, <2>2, <2>3
         DEF Terminals!Inv, Terminals!NoOrphans
    <2>10. Terminals!DisconnectedHasLoop'
      BY <1>0, <1>1, <1>2, <2>1, <2>2, <2>3
         DEF Terminals!Inv, Terminals!DisconnectedHasLoop
    <2> QED
      BY <2>4, <2>5, <2>6, <2>7, <2>8, <2>9, <2>10 DEF Terminals!Inv
  <1>3. CASE opens[t].cmd = "open" /\ id[t] = opens[t].from
    <2>1. opens' = [opens EXCEPT ![t] = Terminals!NoCall] /\ Terminals!RemoveTab(t)
          /\ UNCHANGED <<status, sleeping>>
      BY <1>3 DEF Terminals!Refuse
    <2>2. id[t] = t
      BY <1>3 DEF Terminals!Inv, Terminals!CallsBelong
    <2>3. /\ id' \in [Tabs -> Terminals!Ids \cup {None}]
          /\ id'[t] = None /\ \A u \in Tabs : u # t => id'[u] = id[u]
          /\ reconnecting' = reconnecting \ {t} /\ loops' = loops \ {id[t]}
          /\ active' \in Terminals!Ids \cup {None}
          /\ Terminals!ActiveIsATab'
      BY <2>1, <2>2, Removing
    <2>4. /\ \A u \in Tabs : u # t => opens'[u] = opens[u]
          /\ opens'[t] = Terminals!NoCall
      BY <2>1, TabTypes
    <2>5. Terminals!TypeOK'
      BY <1>1, <2>1, <2>3, NoCallFields, TabTypes DEF Terminals!TypeOK
    <2>6. Terminals!CallsBelong'
      BY <1>0, <1>1, <2>1, <2>2, <2>3, <2>4, NoCallFields
         DEF Terminals!Inv, Terminals!CallsBelong
    <2>7. Terminals!SessionsAreNew'
      BY <1>0, <1>1, <2>1, <2>2, <2>3, <2>4, NoCallFields
         DEF Terminals!Inv, Terminals!SessionsAreNew
    <2>8. Terminals!ReconnectsOnce'
      BY <1>0, <1>1, <2>1, <2>2, <2>3, <2>4, NoCallFields
         DEF Terminals!Inv, Terminals!ReconnectsOnce
    <2>9. Terminals!ActiveIsATab'
      BY <1>0, <1>1, <2>1, <2>2, <2>3, <2>4, NoCallFields
         DEF Terminals!Inv, Terminals!ActiveIsATab
    <2>10. Terminals!NoOrphans'
      BY <1>0, <1>1, <2>1, <2>2, <2>3, <2>4, NoCallFields
         DEF Terminals!Inv, Terminals!NoOrphans
    <2>11. Terminals!DisconnectedHasLoop'
      BY <1>0, <1>1, <2>1, <2>2, <2>3, <2>4, NoCallFields
         DEF Terminals!Inv, Terminals!DisconnectedHasLoop
    <2> QED
      BY <2>5, <2>6, <2>7, <2>8, <2>9, <2>10, <2>11 DEF Terminals!Inv
  <1>4. CASE opens[t].cmd # "reconnect" /\ ~(opens[t].cmd = "open" /\ id[t] = opens[t].from)
    <2>1. /\ opens' = [opens EXCEPT ![t] = Terminals!NoCall]
          /\ reconnecting' = reconnecting \ {t}
          /\ sleeping' = (IF opens[t].loop /\ opens[t].from \in loops
                          THEN sleeping \cup {opens[t].from} ELSE sleeping)
          /\ UNCHANGED <<id, status, active, loops>>
      BY <1>4 DEF Terminals!Refuse
    <2>2. /\ \A u \in Tabs : u # t => opens'[u] = opens[u]
          /\ opens'[t] = Terminals!NoCall
      BY <2>1, TabTypes
    <2>3. sleeping' \subseteq Sessions
      <3>1. CASE opens[t].cmd \in {"reconnect", "reopen"}
        BY <2>1, <3>1, TabTypes DEF Terminals!Inv, Terminals!CallsBelong
      <3>2. CASE opens[t].cmd \in {"open", "palette"}
        BY <2>1, <3>2, TabTypes DEF Terminals!Inv, Terminals!CallsBelong
      <3> QED
        BY <1>0, <3>1, <3>2, CallFields
    <2>4. Terminals!TypeOK'
      BY <1>1, <2>1, <2>3, NoCallFields, TabTypes DEF Terminals!TypeOK
    <2>5. Terminals!CallsBelong'
      BY <1>0, <1>1, <1>4, <2>1, <2>2, NoCallFields
         DEF Terminals!Inv, Terminals!CallsBelong
    <2>6. Terminals!SessionsAreNew'
      BY <1>0, <1>1, <1>4, <2>1, <2>2, NoCallFields
         DEF Terminals!Inv, Terminals!SessionsAreNew
    <2>7. Terminals!ReconnectsOnce'
      BY <1>0, <1>1, <1>4, <2>1, <2>2, NoCallFields
         DEF Terminals!Inv, Terminals!ReconnectsOnce, Terminals!CallsBelong
    <2>8. Terminals!ActiveIsATab'
      BY <1>0, <1>1, <1>4, <2>1, <2>2, NoCallFields
         DEF Terminals!Inv, Terminals!ActiveIsATab
    <2>9. Terminals!NoOrphans'
      BY <1>0, <1>1, <1>4, <2>1, <2>2, NoCallFields
         DEF Terminals!Inv, Terminals!NoOrphans
    <2>10. Terminals!DisconnectedHasLoop'
      BY <1>0, <1>1, <1>4, <2>1, <2>2, NoCallFields
         DEF Terminals!Inv, Terminals!DisconnectedHasLoop, Terminals!CallsBelong
    <2> QED
      BY <2>4, <2>5, <2>6, <2>7, <2>8, <2>9, <2>10 DEF Terminals!Inv
  <1> QED
    BY <1>2, <1>3, <1>4

\* do_connect has succeeded.
LEMMA ConnectStep ==
    ASSUME Terminals!Inv, NEW t \in Tabs, NEW s \in Sessions, Terminals!Connect(t, s)
    PROVE  Terminals!Inv'
  <1> USE TabIds
  <1>1. /\ opens[t].cmd # "none" /\ opens[t].got = None
        /\ opens[t].cmd = "reconnect" => backend[opens[t].from] = "closed"
        /\ backend[s] = "none" /\ backend' = [backend EXCEPT ![s] = "live"]
        /\ opens' = [opens EXCEPT ![t].got = s]
        /\ UNCHANGED <<id, status, reconnecting, active, loops, sleeping, closes, stray, wire,
                       userClosed>>
    BY DEF Terminals!Connect, Terminals!Pending, Terminals!autoloops
  <1>2. /\ opens' \in [Tabs -> Terminals!Calls]
        /\ \A u \in Tabs : u # t => opens'[u] = opens[u]
        /\ opens'[t].cmd = opens[t].cmd /\ opens'[t].from = opens[t].from
        /\ opens'[t].loop = opens[t].loop /\ opens'[t].got = s
    BY <1>1, AnsweredCall, TabTypes
  <1>3. opens[t] # Terminals!NoCall /\ opens'[t] # Terminals!NoCall
    BY <1>1, <1>2, NoCallFields
  <1>4. backend'[s] = "live" /\ \A r \in Sessions : r # s => backend'[r] = backend[r]
    BY <1>1, TabTypes
  <1>5. \A u \in Tabs : s \notin {id[u], opens[u].from, opens[u].got}
    BY <1>1 DEF Terminals!Inv, Terminals!SessionsAreNew
  <1>6. Terminals!TypeOK'
    BY <1>1, <1>2, TabTypes DEF Terminals!TypeOK
  <1>7. Terminals!CallsBelong'
    BY <1>1, <1>2, <1>3, <1>4, <1>5
       DEF Terminals!Inv, Terminals!CallsBelong
  <1>8. Terminals!SessionsAreNew'
    BY <1>1, <1>2, <1>3, <1>4, <1>5
       DEF Terminals!Inv, Terminals!SessionsAreNew
  <1>9. Terminals!ReconnectsOnce'
    BY <1>1, <1>2, <1>3, <1>4, <1>5
       DEF Terminals!Inv, Terminals!ReconnectsOnce
  <1>10. Terminals!ActiveIsATab'
    BY <1>1, <1>2, <1>3, <1>4, <1>5
       DEF Terminals!Inv, Terminals!ActiveIsATab
  <1>11. Terminals!NoOrphans'
    BY <1>1, <1>2, <1>3, <1>4, <1>5
       DEF Terminals!Inv, Terminals!NoOrphans
  <1>12. Terminals!DisconnectedHasLoop'
    BY <1>1, <1>2, <1>3, <1>4, <1>5
       DEF Terminals!Inv, Terminals!DisconnectedHasLoop
  <1> QED
    BY <1>6, <1>7, <1>8, <1>9, <1>10, <1>11, <1>12 DEF Terminals!Inv

\* A session ends.
LEMMA Ending ==
    ASSUME Terminals!Inv, NEW s \in Sessions, backend[s] \in {"live", "dead"},
           \/ backend' = [backend EXCEPT ![s] = "closed"]
           \/ backend' = [backend EXCEPT ![s] = "dead"] /\ UNCHANGED stray,
           stray' \in {stray, stray \ {s}},
           Terminals!Ends(s) \/ UNCHANGED wire,
           UNCHANGED <<id, status, reconnecting, active, loops, sleeping, opens, closes, userClosed>>
    PROVE  Terminals!Inv'
  <1> USE TabIds
  <1>1. wire' \subseteq Sessions \X {1, 2}
    BY TabTypes DEF Terminals!Ends
  <1>2. /\ \A r \in Sessions : r # s => backend'[r] = backend[r]
        /\ backend'[s] = "closed" \/ (backend'[s] = "dead" /\ UNCHANGED stray)
    BY TabTypes
  <1>3. Terminals!TypeOK'
    BY <1>1, TabTypes DEF Terminals!TypeOK
  <1>4. Terminals!CallsBelong'
    BY <1>2
       DEF Terminals!Inv, Terminals!CallsBelong
  <1>5. Terminals!SessionsAreNew'
    BY <1>2
       DEF Terminals!Inv, Terminals!SessionsAreNew
  <1>6. Terminals!ReconnectsOnce'
    BY <1>2
       DEF Terminals!Inv, Terminals!ReconnectsOnce
  <1>7. Terminals!ActiveIsATab'
    BY <1>2
       DEF Terminals!Inv, Terminals!ActiveIsATab
  <1>8. Terminals!NoOrphans'
    BY <1>2
       DEF Terminals!Inv, Terminals!NoOrphans
  <1>9. Terminals!DisconnectedHasLoop'
    BY <1>2
       DEF Terminals!Inv, Terminals!DisconnectedHasLoop
  <1> QED
    BY <1>3, <1>4, <1>5, <1>6, <1>7, <1>8, <1>9 DEF Terminals!Inv

LEMMA BackendStep ==
    ASSUME Terminals!Inv,
           \/ \E t \in Tabs : Terminals!ReconnectCloses(t)
           \/ \E s \in Sessions : Terminals!CloseArrives(s) \/ Terminals!Break(s)
    PROVE  Terminals!Inv'
  <1>1. ASSUME NEW t \in Tabs, Terminals!ReconnectCloses(t) PROVE Terminals!Inv'
    <2>1. opens[t].from \in Sessions
      BY <1>1 DEF Terminals!ReconnectCloses, Terminals!Inv, Terminals!CallsBelong
    <2> QED
      BY <1>1, <2>1, Ending DEF Terminals!ReconnectCloses, Terminals!EndSession, Terminals!autoloops
  <1>2. ASSUME NEW s \in Sessions, Terminals!CloseArrives(s) PROVE Terminals!Inv'
    BY <1>2, Ending DEF Terminals!CloseArrives, Terminals!EndSession, Terminals!autoloops
  <1>3. ASSUME NEW s \in Sessions, Terminals!Break(s) PROVE Terminals!Inv'
    BY <1>3, Ending DEF Terminals!Break, Terminals!autoloops
  <1> QED
    BY <1>1, <1>2, <1>3

LEMMA TabsStep == Terminals!Inv /\ [Terminals!Next]_Terminals!vars => Terminals!Inv'
  <1> SUFFICES ASSUME Terminals!Inv, [Terminals!Next]_Terminals!vars PROVE Terminals!Inv'
    OBVIOUS
  <1>1. CASE Terminals!User
    <2>1. PICK t \in Tabs : Terminals!Open(t) \/ Terminals!OpenFromPalette(t) \/ Terminals!Close(t)
                            \/ Terminals!SetActive(t) \/ Terminals!ReconnectButton(t)
      BY <1>1 DEF Terminals!User
    <2>2. CASE Terminals!ReconnectButton(t)
      BY <2>2, ReconnectStep DEF Terminals!ReconnectButton
    <2> QED
      BY <2>1, <2>2, UserStep
  <1>2. CASE Terminals!Backend \/ \E s \in Sessions : Terminals!Break(s)
    BY <1>2, BackendStep, RefuseStep, ConnectStep DEF Terminals!Backend
  <1>3. CASE Terminals!Webview
    BY <1>3, OpenedStep, ClosedStep, DisconnectedStep, LoopStep DEF Terminals!Webview
  <1>4. CASE UNCHANGED Terminals!vars
    BY <1>4 DEF Terminals!vars, Terminals!autoloops, Terminals!Inv, Terminals!TypeOK, Terminals!CallsBelong,
                Terminals!SessionsAreNew, Terminals!ReconnectsOnce, Terminals!ActiveIsATab,
                Terminals!NoOrphans, Terminals!DisconnectedHasLoop
  <1> QED
    BY <1>1, <1>2, <1>3, <1>4 DEF Terminals!Next

\* The tabs of stores/sessions.ts: each session has an owner, a tab has one
\* reconnect at a time and, once it is disconnected, a loop that works on it; for
\* any number of tabs and sessions, and however the answers and the events of
\* the backend interleave.
THEOREM TabsCorrect == Terminals!Spec => []Terminals!Inv
  BY TabsInit, TabsStep, PTL DEF Terminals!Spec

==================================================================================
