---------------------------- MODULE CatalogIndex ----------------------------
(***************************************************************************)
(* The catalogue index (app/catalog_index.py): an index of the products    *)
(* table in a file, a copy of it in the memory of the server, the warm-up  *)
(* when the server starts (app/main.py), and the agents' catalogue feed    *)
(* that is served from it (app/agent_feed.py).  Disk writes may fail, and  *)
(* the server may be killed at any point and started again.                *)
(***************************************************************************)
EXTENDS Merchandising

CONSTANTS
    Worker,      \* the threads of the server
    Catalogues,  \* the contents of the products table, in their order
    MaxFaults    \* bound: failed writes and restarts

ASSUME CatalogAssumption ==
    /\ Len(Catalogues) \in Nat \ {0} /\ DOMAIN Catalogues = 1 .. Len(Catalogues)
    /\ \A v \in DOMAIN Catalogues : IsCatalogue(Catalogues[v])
    /\ MaxFaults \in Nat

(***************************************************************************)
(* An index is known by the number of the catalogue it was built from; its *)
(* hash is that of the contents and is taken to be collision-free.         *)
(***************************************************************************)
Version == DOMAIN Catalogues
Torn == -1      \* a file that was written in part

VARIABLES
    products,  \* the products table, a number of Catalogues
    file,      \* the index file; 0: there is none
    memory,    \* _INDEX, the server's copy; 0: none
    server,    \* whether it is up, how its warm-up went, the table then
    job,       \* what each thread is doing with the index
    fed,       \* the last catalogue the feed has answered with; 0: none
    faults     \* failed writes and restarts so far

indexVars == <<products, file, memory, server, job, fed, faults>>

Label == {"idle", "check", "build", "compare", "write", "install", "set",
          "backfill", "serve"}
IdleJob == [at |-> "idle", to |-> "none", version |-> 0]

IndexTypeOK ==
    /\ products \in Version
    /\ file \in Version \cup {0, Torn}
    /\ memory \in Version \cup {0}
    /\ server \in [up : BOOLEAN, clean : BOOLEAN, since : Version]
    /\ job \in [Worker -> [at : Label, to : {"none", "startup", "feed"},
                           version : Version \cup {0}]]
    /\ fed \in Version \cup {0}
    /\ faults \in 0 .. MaxFaults

IndexInit ==
    /\ products = 1
    /\ file = 0
    /\ memory = 0
    /\ server = [up |-> FALSE, clean |-> FALSE, since |-> 1]
    /\ job = [w \in Worker |-> IdleJob]
    /\ fed = 0
    /\ faults = 0

-----------------------------------------------------------------------------
(* Helpers. *)

Empty(v) == v = 0 \/ DOMAIN Catalogues[v] = {}

\* _read: nothing from a missing or a torn file, nor from one without rows.
Readable == IF file \in {0, Torn} THEN 0 ELSE IF Empty(file) THEN 0 ELSE file

\* load: the copy in memory, or else the file.
Loaded == IF memory # 0 THEN memory ELSE Readable

Enter(w, label) == job' = [job EXCEPT ![w].at = label]
Leave(w) == job' = [job EXCEPT ![w] = IdleJob]

\* A build has put an index into memory; its caller goes on.
Built(w) == Enter(w, IF job[w].to = "startup" THEN "backfill" ELSE "serve")

-----------------------------------------------------------------------------
(* build. *)

ReadProducts(w) ==
    /\ job[w].at = "build"
    /\ job' = [job EXCEPT ![w].at = "compare", ![w].version = products]
    /\ UNCHANGED <<products, file, memory, server, fed, faults>>

\* A file with the same hash is taken as it is.
SameHash(w) ==
    /\ job[w].at = "compare" /\ Readable = job[w].version
    /\ memory' = Readable
    /\ Built(w)
    /\ UNCHANGED <<products, file, server, fed, faults>>

OtherHash(w) ==
    /\ job[w].at = "compare" /\ Readable # job[w].version
    /\ Enter(w, "write")
    /\ UNCHANGED <<products, file, memory, server, fed, faults>>

\* Mutant: the rows are written into the index file itself.
WriteInPlace(w) ==
    /\ job[w].at = "write"
    /\ file' = Torn
    /\ Enter(w, "install")
    /\ UNCHANGED <<products, memory, server, fed, faults>>

\* _atomic_write: first into a temporary file, which nothing ever reads ...
WriteTemporary(w) ==
    /\ job[w].at = "write"
    /\ Enter(w, "install")
    /\ UNCHANGED <<products, file, memory, server, fed, faults>>

\* Mutant: an index file that is there already stays.
InstallIfMissing(w) ==
    /\ job[w].at = "install"
    /\ file' = IF file = 0 THEN job[w].version ELSE file
    /\ Enter(w, "set")
    /\ UNCHANGED <<products, memory, server, fed, faults>>

\* ... which then replaces the index file.
Install(w) ==
    /\ job[w].at = "install"
    /\ file' = job[w].version
    /\ Enter(w, "set")
    /\ UNCHANGED <<products, memory, server, fed, faults>>

SetMemory(w) ==
    /\ job[w].at = "set"
    /\ memory' = job[w].version
    /\ Built(w)
    /\ UNCHANGED <<products, file, server, fed, faults>>

\* Either step may raise: the warm-up is given up and the server starts all
\* the same, the feed answers that it is empty.
WriteFails(w) ==
    /\ job[w].at \in {"write", "install"}
    /\ faults < MaxFaults /\ faults' = faults + 1
    /\ server' = IF job[w].to = "startup" THEN [server EXCEPT !.up = TRUE] ELSE server
    /\ Leave(w)
    /\ UNCHANGED <<products, file, memory, fed>>

-----------------------------------------------------------------------------
(* The warm-up of a starting server: is_current, build, backfill. *)

Boot(w) ==
    /\ ~server.up /\ \A v \in Worker : job[v].at = "idle"
    /\ server' = [server EXCEPT !.since = products]
    /\ job' = [job EXCEPT ![w].at = "check", ![w].to = "startup"]
    /\ UNCHANGED <<products, file, memory, fed, faults>>

\* Mutant: any whole index file will do.
CheckReadable(w) ==
    /\ job[w].at = "check"
    /\ Enter(w, IF Readable # 0 THEN "backfill" ELSE "build")
    /\ UNCHANGED <<products, file, memory, server, fed, faults>>

CheckCurrent(w) ==
    /\ job[w].at = "check"
    /\ Enter(w, IF Readable = products THEN "backfill" ELSE "build")
    /\ UNCHANGED <<products, file, memory, server, fed, faults>>

\* The backfill of the embedding columns, which nothing reads, loads the
\* index; the server then accepts requests.
Backfill(w) ==
    /\ job[w].at = "backfill"
    /\ memory' = Loaded
    /\ server' = [server EXCEPT !.up = TRUE, !.clean = TRUE]
    /\ Leave(w)
    /\ UNCHANGED <<products, file, fed, faults>>

-----------------------------------------------------------------------------
(* The feed: catalog_feed. *)

\* The rows in memory, or else those of the file; without any, build once.
ReadRows(w) ==
    /\ server.up /\ job[w].at = "idle"
    /\ memory' = Loaded
    /\ job' = [job EXCEPT ![w].at = IF Empty(Loaded) THEN "build" ELSE "serve",
                          ![w].to = "feed"]
    /\ UNCHANGED <<products, file, server, fed, faults>>

\* The rows are read again after a build.  An empty answer is not remembered.
ServeFeed(w) ==
    /\ job[w].at = "serve"
    /\ fed' = IF Empty(memory) THEN fed ELSE memory
    /\ Leave(w)
    /\ UNCHANGED <<products, file, memory, server, faults>>

-----------------------------------------------------------------------------
(* The surroundings. *)

\* The merchant edits the products table.
EditProducts ==
    /\ products < Len(Catalogues)
    /\ products' = products + 1
    /\ UNCHANGED <<file, memory, server, job, fed, faults>>

\* The server is stopped or killed, with all its threads, and its memory lost.
StopServer ==
    /\ faults < MaxFaults /\ faults' = faults + 1
    /\ server' = [server EXCEPT !.up = FALSE, !.clean = FALSE]
    /\ memory' = 0
    /\ job' = [w \in Worker |-> IdleJob]
    /\ UNCHANGED <<products, file, fed>>

IndexStep(w) ==
    \/ ReadProducts(w) \/ SameHash(w) \/ OtherHash(w) \/ WriteTemporary(w) \/ Install(w)
    \/ SetMemory(w) \/ WriteFails(w) \/ CheckCurrent(w) \/ Backfill(w) \/ ServeFeed(w)

-----------------------------------------------------------------------------
(* Safety. *)

\* Once there is an index on disk to start from, there always is a whole one,
\* whatever write fails and whenever the server dies (_atomic_write).
IndexKept == [][Readable # 0 => file' \notin {0, Torn}]_indexVars

\* A server whose warm-up went through never serves a catalogue older than the
\* one it found in the database when it started (is_current, build, load).
StartedFresh ==
    server.up /\ server.clean => memory >= server.since

\* What the feed answers never goes back to an older catalogue, not even
\* across restarts and failed writes: memory is set only after the file, so
\* the next start finds at least what has been served (one thread).
FeedNeverGoesBack == [][fed' >= fed]_indexVars

=============================================================================
