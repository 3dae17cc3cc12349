----------------------------- MODULE KnownHosts -----------------------------
(***************************************************************************)
(* What the functions of host_key.rs answer and store, given the hosts     *)
(* that known_hosts.json lists.  A host is a `host:port` key, a key of a   *)
(* server is its fingerprint.                                              *)
(***************************************************************************)
EXTENDS Integers, Sequences

CONSTANTS
    Hosts, Keys,
    Files,       \* the OpenSSH files that are imported, as sequences of Lines
    None         \* no entry for a host

\* KnownHostsFile: upsert_entry keeps one entry for a host.
Books == [Hosts -> Keys \cup {None}]

\* A line of an OpenSSH known_hosts file.  Hashed hosts, comments and lines with
\* a marker are not usable; every alias of a line gets the line's key.
Lines == [usable : BOOLEAN, hosts : SUBSET Hosts, key : Keys]

Functions == {"strict", "firstUse", "acceptAll", "trust", "remove", "import", "list"}

\* A call: verify_host_key with one of its three policies, trust_host_key, ...
AnyCall ==
    [fn : Functions, host : Hosts, key : Keys, lines : Files]

\* The lines of an import that set the entry of a host; the last one wins.
Naming(lines, h) == {i \in DOMAIN lines : lines[i].usable /\ h \in lines[i].hosts}

Imported(lines, book) ==
    [h \in Hosts |->
        IF Naming(lines, h) = {} THEN book[h]
        ELSE lines[CHOOSE i \in Naming(lines, h) : \A j \in Naming(lines, h) : j <= i].key]

\* AcceptAll and load_known_hosts do not take KNOWN_HOSTS_LOCK.
Locks(c) == c.fn \notin {"acceptAll", "list"}

\* Whether a call saves the file.
Stores(c, book) ==
    \/ c.fn \in {"trust", "import"}
    \/ c.fn = "firstUse" /\ book[c.host] = None
    \/ c.fn = "remove" /\ book[c.host] # None

After(c, book) ==
    IF ~Stores(c, book) THEN book
    ELSE IF c.fn = "import" THEN Imported(c.lines, book)
    ELSE IF c.fn = "remove" THEN [book EXCEPT ![c.host] = None]
    ELSE [book EXCEPT ![c.host] = c.key]

\* verify_host_key compares, and Strict has to know the host.
Verdict(book, h, k) ==
    IF book[h] = None THEN "unknown" ELSE IF book[h] = k THEN "ok" ELSE "changed"

Answers == {"ok", "unknown", "changed", "absent", "error"}

Reply(c, book) ==
    IF c.fn = "strict" THEN Verdict(book, c.host, c.key)
    ELSE IF c.fn = "firstUse" /\ ~Stores(c, book) THEN Verdict(book, c.host, c.key)
    ELSE IF c.fn = "remove" /\ ~Stores(c, book) THEN "absent"
    ELSE "ok"

=============================================================================
