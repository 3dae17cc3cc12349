------------------------------- MODULE Connect -------------------------------
(***************************************************************************)
(* How an SSH connection comes about: the chain of jump hosts (jump.rs),   *)
(* its hops, each with a stream, a handshake, a check of the host key and  *)
(* a login (session_worker.rs), and the question to the user when a key is *)
(* not known (SessionList.tsx, HostKeyDialog.tsx).  The known hosts are a  *)
(* book that changes in one step, as module TrustedHosts says and          *)
(* HostKeys shows; every connection has a host of its own.                 *)
(***************************************************************************)
EXTENDS KnownHosts, FiniteSets

CONSTANTS
    Attempts,    \* establish_session_chain, one thread each
    Gone,        \* a jump host that was deleted from the store
    MaxTries,    \* of establish_retry
    MaxEdits     \* bound: imports, removals and new host keys

VARIABLES
    jump,        \* the connection store: the jump host of each connection
    key,         \* the key each host presents now
    book,        \* known_hosts.json
    edits,       \* edits made
    at, from, chain, hop, try,  \* each attempt: where it is, who made it, its hops
    shown,       \* the key the host of the present hop presented
    error,       \* what the attempt ends with: a verdict, "other", or None
    relay, stop, \* the relay of each hop, and the flags that are set
    opening,     \* the flag of the UI store
    told,        \* attempts whose answer the UI has handled
    prompt,      \* the HostKeyPrompt, or None
    dialog,      \* handleTrust: "idle", "trust", "open", or the attempt it awaits
    trusting,    \* the prompt handleTrust was called with
    sent,        \* history: to which host with which key a secret went
    approved,    \* history: what the user agreed to
    asked        \* history: what the user was asked

\* Names that stand for nothing are not names of something.
ConnectAssumption ==
    /\ IsFiniteSet(Hosts) /\ Hosts # {} /\ Files \subseteq Seq(Lines)
    /\ Gone \notin Hosts /\ None \notin Hosts \cup Keys \cup {Gone}
    /\ None \notin {"unknown", "changed", "other"}
    /\ Attempts \cap {"idle", "trust", "open"} = {}
    /\ MaxTries \in Nat \ {0}

store == <<jump, key, book, edits>>
thread == <<at, from, chain, hop, try, shown, error, sent>>
relays == <<relay, stop>>
ui == <<opening, told, prompt, dialog, trusting, approved, asked>>
vars == <<store, thread, relays, ui>>

Origins == {"list", "palette", "quick", "dialog", "sub"}
Relays == Attempts \X (1 .. MaxTries) \X (2 .. Cardinality(Hosts))
RelaysOf(a) == {r \in Relays : r[1] = a}
Prompts == [host : Hosts, key : Keys, conn : Hosts]

Init ==
    /\ jump \in [Hosts -> Hosts \cup {None, Gone}]
    /\ key \in [Hosts -> Keys] /\ book \in Books /\ edits = 0
    /\ at = [a \in Attempts |-> "idle"] /\ from = [a \in Attempts |-> None]
    /\ chain = [a \in Attempts |-> <<>>] /\ hop = [a \in Attempts |-> 1]
    /\ try = [a \in Attempts |-> 1]
    /\ shown = [a \in Attempts |-> None] /\ error = [a \in Attempts |-> None]
    /\ relay = [r \in Relays |-> "none"] /\ stop = {}
    /\ opening = FALSE /\ told = {} /\ prompt = None /\ dialog = "idle" /\ trusting = None
    /\ sent = {} /\ asked = {}
    /\ approved = {<<h, book[h]>> : h \in {x \in Hosts : book[x] # None}}

-----------------------------------------------------------------------------
(* resolve_jump_chain *)

\* A path ends at a host without a jump host, or at one that was deleted.
Complete(path) == Head(path) = Gone \/ jump[Head(path)] = None

\* The jump hosts of c, outermost first, as far as the hosts are that many.
Walk(c) ==
    LET walk[n \in 0 .. Cardinality(Hosts)] ==
          IF n = 0 THEN <<c>>
          ELSE IF Complete(walk[n - 1]) THEN walk[n - 1]
          ELSE <<jump[Head(walk[n - 1])]>> \o walk[n - 1]
    IN walk[Cardinality(Hosts)]

Cyclic(path) == \E i, j \in DOMAIN path : i # j /\ path[i] = path[j]
Missing(path) == \E i \in DOMAIN path : path[i] = Gone

-----------------------------------------------------------------------------
(* An attempt *)

\* session_open resolves the chain, and a cycle or a deleted jump host is its
\* answer; a quick connection and a sub-session have their chain.
Start(a, origin, path) ==
    /\ at[a] = "idle"
    /\ from' = [from EXCEPT ![a] = origin]
    /\ chain' = [chain EXCEPT ![a] = path]
    /\ IF Cyclic(path) \/ Missing(path)
       THEN /\ at' = [at EXCEPT ![a] = "failed"]
            /\ error' = [error EXCEPT ![a] = "other"]
       ELSE at' = [at EXCEPT ![a] = "dial"] /\ UNCHANGED error
    /\ UNCHANGED <<hop, try, shown, sent>>

\* handleOpen of the list and handleQuickConnect, behind the dialog; neither waits
\* for an earlier one.
Open(a) ==
    /\ prompt = None
    /\ \E c \in Hosts : Start(a, "list", Walk(c)) \/ Start(a, "quick", <<c>>)
    /\ opening' = TRUE
    /\ UNCHANGED <<store, relays, told, prompt, dialog, trusting, approved, asked>>

\* The palette lies over the dialog, and waits for the flag and for its own.
OpenPalette(a) ==
    /\ ~opening /\ \A b \in Attempts : from[b] = "palette" => b \in told
    /\ \E c \in Hosts : Start(a, "palette", Walk(c))
    /\ opening' = TRUE
    /\ UNCHANGED <<store, relays, told, prompt, dialog, trusting, approved, asked>>

\* A sub-worker of a connected session connects anew.
OpenSub(a) ==
    /\ \E b \in Attempts :
         at[b] = "connected" /\ from[b] # "sub" /\ Start(a, "sub", chain[b])
    /\ UNCHANGED <<store, relays, ui>>

Host(a) == chain[a][hop[a]]
Carrier(a) == <<a, try[a], hop[a]>>

\* The relays in the JumpHold of the attempt.
Held(a) == {r \in RelaysOf(a) : r[2] = try[a] /\ relay[r] \notin {"none", "stray"}}

\* The error leaves establish_session_chain, and the hold is dropped on the way.
Fails(a, what) ==
    /\ at' = [at EXCEPT ![a] = "drop"]
    /\ error' = [error EXCEPT ![a] = what]
    /\ stop' = stop \cup Held(a)

\* tcp_connect_host, or open_local_relay_to with its thread.
Dial(a) ==
    /\ at[a] = "dial"
    /\ \/ /\ at' = [at EXCEPT ![a] = "handshake"]
          /\ relay' = IF hop[a] = 1 THEN relay ELSE [relay EXCEPT ![Carrier(a)] = "accept"]
          /\ UNCHANGED <<error, stop>>
       \/ Fails(a, "other") /\ UNCHANGED relay
    /\ UNCHANGED <<store, ui, from, chain, hop, try, shown, sent>>

\* Slip: the thread is left to itself.
DialRelayFails_Leaks(a) ==
    /\ at[a] = "dial" /\ hop[a] > 1
    /\ Fails(a, "other")
    /\ relay' = [relay EXCEPT ![Carrier(a)] = "stray"]
    /\ UNCHANGED <<store, ui, from, chain, hop, try, shown, sent>>

\* The thread runs, but the connection to it fails: it is told to stop, and is not
\* in the hold.
DialRelayFails(a) ==
    /\ at[a] = "dial" /\ hop[a] > 1
    /\ at' = [at EXCEPT ![a] = "drop"] /\ error' = [error EXCEPT ![a] = "other"]
    /\ relay' = [relay EXCEPT ![Carrier(a)] = "stray"]
    /\ stop' = stop \cup Held(a) \cup {Carrier(a)}
    /\ UNCHANGED <<store, ui, from, chain, hop, try, shown, sent>>

\* The server presents its key, or the handshake fails or times out.
Handshake(a) ==
    /\ at[a] = "handshake"
    /\ \/ /\ hop[a] > 1 => relay[Carrier(a)] = "relaying"
          /\ at' = [at EXCEPT ![a] = "verify"]
          /\ shown' = [shown EXCEPT ![a] = key[Host(a)]]
          /\ UNCHANGED <<error, stop>>
       \/ Fails(a, "other") /\ UNCHANGED shown
    /\ UNCHANGED <<store, ui, relay, from, chain, hop, try, sent>>

\* Slip: a host is taken at its first key.
Verify_FirstUse(a) ==
    /\ at[a] = "verify"
    /\ LET verdict == Verdict(book, Host(a), shown[a]) IN
       IF verdict \in {"ok", "unknown"}
       THEN at' = [at EXCEPT ![a] = "login"] /\ UNCHANGED <<error, stop>>
       ELSE Fails(a, verdict)
    /\ UNCHANGED <<store, ui, relay, from, chain, hop, try, shown, sent>>

\* verify_host_key, Strict.
Verify(a) ==
    /\ at[a] = "verify"
    /\ LET verdict == Verdict(book, Host(a), shown[a]) IN
       IF verdict = "ok"
       THEN at' = [at EXCEPT ![a] = "login"] /\ UNCHANGED <<error, stop>>
       ELSE Fails(a, verdict)
    /\ UNCHANGED <<store, ui, relay, from, chain, hop, try, shown, sent>>

\* authenticate: there is no secret, or it goes to the server, which takes it, at
\* the password or at the interactive prompt, or refuses it.
Login(a) ==
    /\ at[a] = "login"
    /\ \/ Fails(a, "other") /\ UNCHANGED <<sent, hop>>
       \/ /\ sent' = sent \cup {<<Host(a), shown[a]>>}
          /\ \/ Fails(a, "other") /\ UNCHANGED hop
             \/ /\ IF hop[a] = Len(chain[a])
                   THEN at' = [at EXCEPT ![a] = "connected"] /\ UNCHANGED hop
                   ELSE /\ at' = [at EXCEPT ![a] = "dial"]
                        /\ hop' = [hop EXCEPT ![a] = @ + 1]
                /\ UNCHANGED <<error, stop>>
    /\ UNCHANGED <<store, ui, relay, from, chain, try, shown>>

\* The session ends, and its hold is dropped.
Close(a) ==
    /\ at[a] = "connected"
    /\ at' = [at EXCEPT ![a] = "drop"]
    /\ stop' = stop \cup Held(a)
    /\ UNCHANGED <<store, ui, relay, from, chain, hop, try, shown, error, sent>>

\* drop joins the relays.  A sub-worker tries again.
Dropped(a) ==
    /\ at[a] = "drop"
    /\ \A r \in Held(a) : relay[r] = "ended"
    /\ IF error[a] # None /\ from[a] = "sub" /\ try[a] < MaxTries
       THEN /\ at' = [at EXCEPT ![a] = "dial"]
            /\ error' = [error EXCEPT ![a] = None]
            /\ hop' = [hop EXCEPT ![a] = 1] /\ try' = [try EXCEPT ![a] = @ + 1]
       ELSE /\ at' = [at EXCEPT ![a] = IF error[a] = None THEN "closed" ELSE "failed"]
            /\ UNCHANGED <<error, hop, try>>
    /\ UNCHANGED <<store, relays, ui, from, chain, shown, sent>>

-----------------------------------------------------------------------------
(* The thread of a relay *)

Becomes(r, state) ==
    /\ relay' = [relay EXCEPT ![r] = state]
    /\ UNCHANGED <<store, thread, ui, stop>>

\* It accepts its client, unless it sees its flag; it opens the channel of the next
\* hop, within the timeout of its session; it copies until its flag is set or one
\* side ends.
Accept(r) ==
    /\ relay[r] \in {"accept", "stray"}
    /\ Becomes(r, IF r \in stop THEN "ended" ELSE "opening")
Opened(r) == relay[r] = "opening" /\ \E next \in {"relaying", "ended"} : Becomes(r, next)
RelayEnds(r) == relay[r] = "relaying" /\ Becomes(r, "ended")

\* It does not look at its flag while a side takes no data; then it does.
Stall(r) == relay[r] = "relaying" /\ Becomes(r, "stalled")
Unstall(r) ==
    /\ relay[r] = "stalled"
    /\ \E next \in {"relaying", "ended"} : (r \in stop => next = "ended") /\ Becomes(r, next)

-----------------------------------------------------------------------------
(* The UI *)

Question(a) == [host |-> Host(a), key |-> shown[a], conn |-> chain[a][Len(chain[a])]]
Asks(a) == at[a] = "failed" /\ error[a] \in {"unknown", "changed"}

\* The answer of session_open.  Only the list asks the user; the dialog closes when
\* its connection was made, and otherwise stays as it is; the others show a text.
Answered(a) ==
    /\ at[a] \in {"failed", "connected"} /\ a \notin told /\ from[a] # "sub"
    /\ told' = told \cup {a} /\ opening' = FALSE
    /\ IF from[a] = "list" /\ Asks(a)
       THEN prompt' = Question(a) /\ asked' = asked \cup {Question(a)}
       ELSE /\ prompt' = IF from[a] = "dialog" /\ at[a] = "connected" THEN None ELSE prompt
            /\ UNCHANGED asked
    /\ IF dialog = a
       THEN dialog' = "idle" /\ trusting' = None
       ELSE UNCHANGED <<dialog, trusting>>
    /\ UNCHANGED <<store, thread, relays, approved>>

\* handleTrust keeps the prompt it was called with.
PressTrust ==
    /\ prompt # None /\ dialog = "idle"
    /\ dialog' = "trust" /\ trusting' = prompt /\ opening' = TRUE
    /\ approved' = approved \cup {<<prompt.host, prompt.key>>}
    /\ UNCHANGED <<store, thread, relays, told, prompt, asked>>

Cancel ==
    /\ prompt # None /\ dialog = "idle"
    /\ prompt' = None
    /\ UNCHANGED <<store, thread, relays, opening, told, dialog, trusting, approved, asked>>

\* host_key_trust stores the key.
Trust ==
    /\ dialog = "trust"
    /\ book' = [book EXCEPT ![trusting.host] = trusting.key]
    /\ dialog' = "open"
    /\ UNCHANGED <<jump, key, edits, thread, relays, opening, told, prompt, trusting>>
    /\ UNCHANGED <<approved, asked>>

TrustFails ==
    /\ dialog = "trust"
    /\ dialog' = "idle" /\ trusting' = None /\ opening' = FALSE
    /\ UNCHANGED <<store, thread, relays, told, prompt, approved, asked>>

\* The connection is opened again.
Reopen(a) ==
    /\ dialog = "open"
    /\ Start(a, "dialog", Walk(trusting.conn))
    /\ dialog' = a
    /\ UNCHANGED <<store, relays, opening, told, prompt, trusting, approved, asked>>

Edit == edits < MaxEdits /\ edits' = edits + 1

\* import_known_hosts and remove_known_host of the settings.
Import ==
    /\ Edit
    /\ \E lines \in Files :
         /\ book' = Imported(lines, book)
         /\ approved' = approved \cup
              {<<h, book'[h]>> : h \in {x \in Hosts : Naming(lines, x) # {}}}
    /\ UNCHANGED <<jump, key, thread, relays, opening, told, prompt, dialog, trusting, asked>>

RemoveHost ==
    /\ Edit
    /\ \E h \in Hosts : book[h] # None /\ book' = [book EXCEPT ![h] = None]
    /\ UNCHANGED <<jump, key, thread, relays, ui>>

\* The administrator of a host changes its key.
NewKey ==
    /\ Edit
    /\ \E h \in Hosts, k \in Keys : k # key[h] /\ key' = [key EXCEPT ![h] = k]
    /\ UNCHANGED <<jump, book, thread, relays, ui>>

-----------------------------------------------------------------------------

Thread(a) == Dial(a) \/ DialRelayFails(a) \/ Handshake(a) \/ Verify(a) \/ Login(a) \/ Dropped(a)
RelayThread(r) == Accept(r) \/ Opened(r) \/ (r \in stop /\ RelayEnds(r))

Next ==
    \/ \E a \in Attempts :
         \/ Open(a) \/ OpenPalette(a) \/ OpenSub(a) \/ Thread(a) \/ Close(a)
         \/ Answered(a) \/ Reopen(a)
    \/ \E r \in Relays : Accept(r) \/ Opened(r) \/ RelayEnds(r) \/ Stall(r) \/ Unstall(r)
    \/ PressTrust \/ Cancel \/ Trust \/ TrustFails \/ Import \/ RemoveHost \/ NewKey

Spec == Init /\ [][Next]_vars

\* The threads run, with timeouts on what they wait for; a relay whose flag is set
\* looks at it, unless it is stalled.
Fairness ==
    /\ \A a \in Attempts : WF_vars(Thread(a))
    /\ \A r \in Relays : WF_vars(RelayThread(r))

FairSpec == Spec /\ Fairness

-----------------------------------------------------------------------------
(* Properties *)

TypeOK ==
    /\ at \in [Attempts -> {"idle", "dial", "handshake", "verify", "login", "connected", "drop",
                            "failed", "closed"}]
    /\ from \in [Attempts -> Origins \cup {None}]
    /\ chain \in [Attempts -> Seq(Hosts \cup {Gone})]
    /\ hop \in [Attempts -> 1 .. Cardinality(Hosts)] /\ try \in [Attempts -> 1 .. MaxTries]
    /\ shown \in [Attempts -> Keys \cup {None}]
    /\ error \in [Attempts -> {"unknown", "changed", "other", None}]
    /\ relay \in [Relays -> {"none", "accept", "opening", "relaying", "stalled", "stray",
                          "ended"}]
    /\ stop \subseteq Relays /\ told \subseteq Attempts /\ opening \in BOOLEAN
    /\ jump \in [Hosts -> Hosts \cup {None, Gone}] /\ book \in Books /\ key \in [Hosts -> Keys]
    /\ prompt \in Prompts \cup {None} /\ trusting \in Prompts \cup {None}
    /\ dialog \in {"idle", "trust", "open"} \cup Attempts

Refused(a) == error[a] \in {"unknown", "changed"}

\* An attempt under way, and one that is refused because of a key, is at a hop of its
\* chain, and has seen the key it checks.
HopsInChain ==
    \A a \in Attempts :
        /\ at[a] = "idle" => hop[a] = 1
        /\ at[a] \notin {"idle", "failed"} \/ Refused(a) =>
               chain[a] \in Seq(Hosts) /\ hop[a] \in DOMAIN chain[a]
        /\ at[a] \in {"verify", "login"} \/ Refused(a) => shown[a] \in Keys

\* A chain that is walked has each host once, and is the path of jump hosts to the
\* connection that was opened.
ChainsArePaths ==
    \A a \in Attempts :
        at[a] \notin {"idle", "failed"} =>
            /\ ~Cyclic(chain[a])
            /\ from[a] \in {"list", "palette", "dialog"} =>
                 \A i \in DOMAIN chain[a] :
                    jump[chain[a][i]] = IF i = 1 THEN None ELSE chain[a][i - 1]

\* A relay runs for a hop of an attempt under way or of a session, or was told to
\* end; when the attempt has failed or the session is gone, each one has ended, but
\* for those that nobody connected to, which are told to.
RelaysAreHeld ==
    \A a \in Attempts : \A r \in RelaysOf(a) :
        /\ relay[r] = "stray" => r \in stop
        /\ relay[r] \notin {"none", "stray", "ended"} =>
            /\ r[2] = try[a] /\ r[3] <= hop[a]
            /\ at[a] \in {"handshake", "verify", "login", "dial", "connected"} \/ r \in stop
            /\ at[a] \notin {"idle", "failed", "closed"}

\* The user agreed to every key that is stored, is about to be, or let an attempt in.
KeysAreAgreed ==
    /\ \A h \in Hosts : book[h] # None => <<h, book[h]>> \in approved
    /\ \A a \in Attempts : at[a] = "login" => <<Host(a), shown[a]>> \in approved
    /\ trusting # None => <<trusting.host, trusting.key>> \in approved
    /\ dialog \in {"trust", "open"} => trusting # None

\* The types, the chains, the relays and the keys.
Inv == TypeOK /\ HopsInChain /\ ChainsArePaths /\ RelaysAreHeld /\ KeysAreAgreed

\* A secret goes to a host only if the key the host presented is one the user was
\* shown for this host and agreed to, or has imported for it, whatever was opened,
\* asked, changed and retried meanwhile, on every hop and in every sub-session.
SecretsOnlyToApproved == sent \subseteq approved

\* No attempt is under way, and no session is being dropped, but where a relay
\* waits for a next hop that takes no data: drop joins the relays before it drops
\* the sessions of the hops.
Ended ==
    \A a \in Attempts :
        \/ at[a] \in {"idle", "connected", "failed", "closed"}
        \/ \E r \in RelaysOf(a) : relay[r] = "stalled"

\* Every attempt ends in a session or an error, and every session that is closed is
\* gone (each is made and closed once), unless a next hop takes no data.
AttemptsEnd == []<>Ended

\* "An unknown host surfaces HostKeyUnknown so the UI prompts the user to verify the
\* fingerprint" (crates/app/src/commands/session.rs:100): an open that failed
\* because of a key is followed by a question about that key.
UnknownHostIsPrompted ==
    \A a \in told : Asks(a) => Question(a) \in asked

=============================================================================
