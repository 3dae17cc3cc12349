--------------------------- MODULE MCConnections ---------------------------
(***************************************************************************)
(* Three parts of a connection for TLC: the store of known hosts           *)
(* (HostKeys); the attempts to connect (Connect), which use its calls as   *)
(* one step each, as ImplementsTrustedHosts allows; and the packets of the *)
(* connection (SshPackets), with one suite for each way of laying packets  *)
(* out, one whose directions differ in the MAC only and one whose ciphers  *)
(* are not alike.  A behaviour is of one of them while the others rest.    *)
(***************************************************************************)
EXTENDS HostKeys, FiniteSets

CONSTANTS
    h1, h2, k1,                         \* two hosts and a key
    Attempts, Gone, MaxTries, MaxEdits,
    Suites, Plans, Payloads, Chunks, BufSize, MaxPayload, MaxSends

VARIABLES
    part,
    jump, key, book, edits, at, from, chain, hop, try, shown, error, relay, stop, opening, told,
    prompt, dialog, trusting, sent, approved, asked,
    suite, newkeys, stream, received, packet, delivered, pending, frames, written

connectVars == <<jump, key, book, edits, at, from, chain, hop, try, shown, error, relay, stop,
                 opening, told, prompt, dialog, trusting, sent, approved, asked>>
packetVars == <<suite, newkeys, stream, received, packet, delivered, pending, frames, written>>

Connecting == INSTANCE Connect
Transport == INSTANCE SshPackets WITH p <- packet

ASSUME ConnectingAssumption == Connecting!ConnectAssumption
ASSUME SuitesAssumption == Transport!SuitesAssumption
ASSUME PayloadsAssumption == Transport!PayloadsAssumption
ASSUME PlansAssumption == Transport!PlansAssumption
ASSUME BufferAssumption == Transport!BufferAssumption

-----------------------------------------------------------------------------
(* The inputs *)

Line(usable, hosts, k) == [usable |-> usable, hosts |-> hosts, key |-> k]

\* Files of two lines, the second one hashed, and an empty one.
MCFiles == {<<>>} \cup {<<Line(TRUE, Hosts, k), Line(FALSE, {h1}, k1)>> : k \in Keys}

\* Every function, on h1 with both keys; h2 is stored and removed.
MCCalls ==
    LET Call(fn, h, k) == [fn |-> fn, host |-> h, key |-> k, lines |-> <<>>] IN
    {Call(fn, h1, k) : fn \in {"strict", "firstUse", "trust"}, k \in Keys}
        \cup {Call(fn, h1, k1) : fn \in {"remove", "acceptAll", "list"}}
        \cup {Call(fn, h2, k1) : fn \in {"trust", "remove"}}
        \cup {[Call("import", h1, k1) EXCEPT !.lines = lines] : lines \in Files \ {<<>>}}

Suite(crypt, mac) ==
    [local |-> [crypt |-> crypt, mac |-> mac], remote |-> [crypt |-> crypt, mac |-> mac]]
MCSuites ==
    {Suite("chacha", "sha1"), Suite("gcm", "sha1"), Suite("ctr", "sha2"),
     Suite("ctr", "sha2etm"), Suite("cbc", "short"),
     [Suite("ctr", "sha1") EXCEPT !.local = [crypt |-> "cbc", mac |-> "sha1etm"]],
     [Suite("ctr", "sha2") EXCEPT !.remote = [crypt |-> "gcm", mac |-> "sha2"]]}

\* Packets of all sizes around the change of keys, one of them too long for the
\* buffer of a cipher that needs it whole; or none.
Carries(payload, extra) == [payload |-> payload, extra |-> extra, newkeys |-> FALSE]
NewKeys == [payload |-> 1, extra |-> 0, newkeys |-> TRUE]
MCPlans ==
    {<<NewKeys, Carries(a, 0), Carries(21 - a, 0)>> : a \in {1, 20}}
        \cup {<<Carries(20, 1), NewKeys, Carries(7, 1)>>, <<NewKeys, Carries(45, 0)>>, <<>>}

Both(x, y) == [h \in Hosts |-> IF h = h1 THEN x ELSE y]

\* h2 behind h1, a cycle, and a deleted jump host; nothing known, or h1 (with all known,
\* attempts are in MCBackend).  A part that rests has one state.
MCInit ==
    /\ part \in {"hosts", "connect", "packets"}
    /\ Init /\ Connecting!Init /\ Transport!Init
    /\ part # "hosts" => file = Both(None, None)
    /\ key = Both(k1, k1)
    /\ \/ part = "connect" /\ book \in {Both(None, None), Both(k1, None)}
       \/ part # "connect" /\ book = Both(None, None)
    /\ \/ part = "connect" /\ jump \in {Both(None, h1), Both(h2, h1), Both(Gone, None)}
       \/ part # "connect" /\ jump = Both(None, h1)
    /\ part # "packets" => suite = Suite("gcm", "sha1") /\ stream = <<>>

MCNext ==
    \/ part = "hosts" /\ Next /\ UNCHANGED <<part, connectVars, packetVars>>
    \/ part = "connect" /\ Connecting!Next /\ UNCHANGED <<part, vars, packetVars>>
    \/ part = "packets" /\ Transport!Next /\ UNCHANGED <<part, vars, connectVars>>

MCSpec == MCInit /\ [][MCNext]_<<part, vars, connectVars, packetVars>>

-----------------------------------------------------------------------------
(* Properties *)

\* The invariants of the store and of the attempts.
ConnectionsInv == Inv /\ Connecting!Inv

\* A secret goes to a host only if the key the host presented is one the user was
\* shown for this host and agreed to, or has imported for it, whatever was opened,
\* asked, changed and retried meanwhile, on every hop and in every sub-session.
SecretsOnlyToApproved == Connecting!SecretsOnlyToApproved

\* The packets come through: what is buffered and written is accounted for, the
\* packets delivered are those sent, and the reader never waits for what it has.
PacketsComeThrough == Transport!PacketsComeThrough

\* What the client sends is laid out as the cipher and the MAC of its direction
\* ask for.
SentIsWellFormed == Transport!SentIsWellFormed

=============================================================================
