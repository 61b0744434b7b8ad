------------------------------ MODULE AuditLog ------------------------------
(***************************************************************************)
(* The hash-chained audit log of the server (AuditLog in core.py) with its *)
(* callers and its table.  A state-changing call of FleetServer writes its *)
(* row and then appends, both under the server's lock; an advisory request *)
(* (ai.py) appends without it; a start that reconciles appends for every   *)
(* mission it changes, and at last that the server is ready.  Before, a    *)
(* start migrates the schema of the database (SqliteRepository in          *)
(* storage.py), each migration in two statements.                          *)
(*                                                                         *)
(* An append is taken apart where another thread can run: reading the      *)
(* index, reading the previous hash, setting the new hash, listing the     *)
(* entry with the hash that is set by then, inserting the row.  A hash is  *)
(* a number unlike every other in use.                                     *)
(*                                                                         *)
(* A server with a repository is called from the one thread that opened it *)
(* (sqlite3 refuses the others), and it is the one that dies and restarts; *)
(* the threads of the HTTP server share a log in memory only.              *)
(*                                                                         *)
(* Bounds: MaxEntries (appends that a call may still begin), MaxCrashes,   *)
(* MaxFailures.                                                            *)
(***************************************************************************)
EXTENDS Naturals, Sequences, FiniteSets

CONSTANTS
    Threads,
    Main,           \* the thread that opened the repository
    NoThread,
    Migrations,     \* how many there are
    MaxEntries, MaxCrashes, MaxFailures

ASSUME AuditAssumption ==
    /\ Main \in Threads /\ NoThread \notin Threads /\ IsFiniteSet(Threads)
    /\ Migrations \in Nat
    /\ MaxEntries \in Nat /\ MaxCrashes \in Nat /\ MaxFailures \in Nat

VARIABLES
    persistent,     \* FleetServer was given a repository
    mode,           \* "up", "starting" (in the constructor), "migrating" and
                    \* "recording" (opening the database), or "dead"
    lock,           \* FleetServer._lock
    thread,         \* where each thread is, and its local variables
    entries, chain, \* AuditLog.entries and _hash
    created, version,   \* migrations executed and recorded in the database
    table,          \* the rows of audit_log by idx
    crashes, failed,
    written,        \* history: state changes whose own row was written
    overlapped,     \* history: an append began while another was in progress
    gapped          \* history: a start loaded rows with one missing

log == <<entries, chain>>
schema == <<created, version>>
history == <<crashes, failed, written, overlapped, gapped>>
vars == <<persistent, mode, lock, thread, log, schema, table, history>>

Genesis == 0
Idle == [at |-> "idle", kind |-> "none", index |-> 0, previous |-> Genesis, digest |-> Genesis]
InAppend == {"previous", "hash", "list"}

Used == {chain} \union {thread[t].digest : t \in Threads} \union {entries[i].digest : i \in DOMAIN entries}
            \union {table[i].digest : i \in DOMAIN table} \union {Genesis}
Digest == CHOOSE h \in 1 .. Cardinality(Used) : h \notin Used

HashOf(previous, n) == IF n = 0 THEN Genesis ELSE previous[n].hash

\* AuditLog.verify.
Verifies(chained) == \A i \in 1..Len(chained) :
    /\ chained[i].index = i - 1
    /\ chained[i].previous = HashOf(chained, i - 1)
    /\ chained[i].digest = chained[i].hash

\* A slip: rows loaded without the last one.
LoadedShort == [n \in 1 .. Cardinality(DOMAIN table) - 1 |->
    table[CHOOSE i \in DOMAIN table : Cardinality({j \in DOMAIN table : j < i}) = n - 1]]

\* The rows in the order of idx.
Loaded == [n \in 1 .. Cardinality(DOMAIN table) |->
    table[CHOOSE i \in DOMAIN table : Cardinality({j \in DOMAIN table : j < i}) = n - 1]]

\* A slip: the chain of a restarted server begins anew.
ChainFromGenesis == Genesis

\* The _hash a start goes on from.
ChainLoaded == HashOf(Loaded, Len(Loaded))

Init ==
    /\ persistent \in BOOLEAN
    /\ mode = IF persistent THEN "dead" ELSE "up"
    /\ lock = NoThread /\ thread = [t \in Threads |-> Idle]
    /\ entries = <<>> /\ chain = Genesis /\ table = [i \in {} |-> Idle]
    /\ created = 0 /\ version = 0
    /\ crashes = 0 /\ failed = 0 /\ written = 0 /\ overlapped = FALSE /\ gapped = FALSE

Die ==
    /\ mode' = "dead" /\ lock' = NoThread
    /\ thread' = [t \in Threads |-> Idle]
    /\ entries' = <<>> /\ chain' = Genesis

\* The call returns or raises, and gives the lock back.
Leave(t) ==
    /\ thread' = [thread EXCEPT ![t] = Idle]
    /\ lock' = IF lock = t THEN NoThread ELSE lock

\* A statement raises: before the server is up that is the end of the process.
Raise(t) == IF mode # "up" THEN Die ELSE Leave(t) /\ UNCHANGED <<mode, log>>

\* A slip: calls that do not wait for each other.
LockIgnored == TRUE

LockFree == lock = NoThread

\* A call that changes state, an advisory request, or the last append of a start.
Call(t, kind) ==
    /\ thread[t] = Idle
    /\ persistent => t = Main
    /\ \/ kind = "change" /\ LockFree /\ mode \in {"up", "starting"}
       \/ kind = "advice" /\ mode = "up"
       \/ kind = "ready" /\ mode = "starting"
    /\ kind # "ready" => Len(entries) < MaxEntries /\ written < MaxEntries
    /\ thread' = [thread EXCEPT ![t].kind = kind,
                                ![t].at = IF kind = "change" THEN "write" ELSE "index"]
    /\ lock' = IF kind = "change" THEN t ELSE lock
    /\ UNCHANGED <<persistent, mode, log, table, schema, history>>

\* The call changes memory and its vehicle or mission row.
WriteState(t) ==
    /\ thread[t].at = "write"
    /\ thread' = [thread EXCEPT ![t].at = "index"]
    /\ written' = IF persistent THEN written + 1 ELSE written
    /\ UNCHANGED <<persistent, mode, lock, log, table, schema, crashes, failed, overlapped, gapped>>

ReadIndex(t) ==
    /\ thread[t].at = "index"
    /\ thread' = [thread EXCEPT ![t].at = "previous", ![t].index = Len(entries)]
    /\ overlapped' = (overlapped \/ \E u \in Threads : thread[u].at \in InAppend)
    /\ UNCHANGED <<persistent, mode, lock, log, table, schema, crashes, failed, written, gapped>>

ReadPrevious(t) ==
    /\ thread[t].at = "previous"
    /\ thread' = [thread EXCEPT ![t].at = "hash", ![t].previous = chain]
    /\ UNCHANGED <<persistent, mode, lock, log, table, schema, history>>

SetHash(t) ==
    /\ thread[t].at = "hash"
    /\ thread' = [thread EXCEPT ![t].at = "list", ![t].digest = Digest]
    /\ chain' = Digest
    /\ UNCHANGED <<persistent, mode, lock, entries, table, schema, history>>

Entry(t) == [kind |-> thread[t].kind, index |-> thread[t].index, previous |-> thread[t].previous,
             digest |-> thread[t].digest, hash |-> chain]

ListEntry(t) ==
    /\ thread[t].at = "list"
    /\ entries' = Append(entries, Entry(t))
    /\ IF persistent
       THEN thread' = [thread EXCEPT ![t].at = "row"] /\ UNCHANGED lock
       ELSE Leave(t)
    /\ UNCHANGED <<persistent, mode, chain, table, schema, history>>

RowIndex == Len(entries) - 1

InsertRow(t) ==
    /\ thread[t].at = "row"
    /\ IF RowIndex \in DOMAIN table
       THEN Raise(t) /\ UNCHANGED table
       ELSE /\ table' = [i \in DOMAIN table \union {RowIndex} |->
                            IF i = RowIndex THEN Entry(t) ELSE table[i]]
            /\ mode' = IF thread[t].kind = "ready" THEN "up" ELSE mode
            /\ Leave(t)
            /\ UNCHANGED log
    /\ UNCHANGED <<persistent, schema, history>>

\* The disk refuses the statement the thread, or the migration, is at.
Fail(t) ==
    /\ persistent /\ failed < MaxFailures
    /\ \/ thread[t].at \in {"write", "row"}
       \/ t = Main /\ mode \in {"migrating", "recording"}
    /\ failed' = failed + 1
    /\ Raise(t)
    /\ UNCHANGED <<persistent, table, schema, crashes, written, overlapped, gapped>>

Crash ==
    /\ persistent /\ mode # "dead" /\ crashes < MaxCrashes
    /\ crashes' = crashes + 1
    /\ Die
    /\ UNCHANGED <<persistent, table, schema, failed, written, overlapped, gapped>>

\* The database is opened.
Open ==
    /\ mode = "dead"
    /\ mode' = "migrating"
    /\ UNCHANGED <<persistent, lock, thread, log, schema, table, history>>

\* The next migration: its own statement, which raises when it was executed
\* before, and the one that records its version.
Migrate ==
    /\ mode = "migrating" /\ version < Migrations
    /\ IF created = version
       THEN mode' = "recording" /\ created' = created + 1 /\ UNCHANGED <<lock, thread, log>>
       ELSE Die /\ UNCHANGED created
    /\ UNCHANGED <<persistent, version, table, history>>

RecordVersion ==
    /\ mode = "recording"
    /\ mode' = "migrating" /\ version' = version + 1
    /\ UNCHANGED <<persistent, lock, thread, log, created, table, history>>

\* The constructor of FleetServer loads the log.
Restart ==
    /\ mode = "migrating" /\ version = Migrations
    /\ mode' = "starting"
    /\ entries' = Loaded /\ chain' = ChainLoaded
    /\ gapped' = (gapped \/ DOMAIN table # 0 .. Cardinality(DOMAIN table) - 1)
    /\ UNCHANGED <<persistent, lock, thread, table, schema, crashes, failed, written, overlapped>>

Step(t) == WriteState(t) \/ ReadIndex(t) \/ ReadPrevious(t) \/ SetHash(t) \/ ListEntry(t) \/ InsertRow(t)

Next ==
    \/ \E t \in Threads : Step(t) \/ Fail(t) \/ \E kind \in {"change", "advice", "ready"} : Call(t, kind)
    \/ Crash
    \/ Open \/ Migrate \/ RecordVersion \/ Restart

Spec == Init /\ [][Next]_vars

\* Python goes on with what a thread is at and with a constructor, and a
\* dead server is started again.
FairSpec ==
    /\ Spec
    /\ WF_vars(Open) /\ WF_vars(Migrate) /\ WF_vars(RecordVersion) /\ WF_vars(Restart)
    /\ WF_vars(Call(Main, "ready"))
    /\ \A t \in Threads : WF_vars(Step(t))

-----------------------------------------------------------------------------

Entries == [kind : {"change", "advice", "ready"}, index : Nat, previous : Nat, digest : Nat, hash : Nat]

\* Types, and that a thread holds the lock exactly while it is in a call that
\* changes state.
TypeOK ==
    /\ persistent \in BOOLEAN /\ mode \in {"up", "starting", "migrating", "recording", "dead"}
    /\ version \in 0..Migrations /\ created \in {version, version + 1}
    /\ \A t \in Threads : lock = t <=> thread[t].kind = "change"
    /\ lock \in Threads \union {NoThread}
    /\ entries \in Seq(Entries) /\ chain \in Nat
    /\ \A i \in DOMAIN table : i \in Nat /\ table[i] \in Entries

\* verify() holds of a running server's log across any number of crashes and
\* refused statements, as long as no two appends were in progress at once
\* and no start has loaded a gap: the lock is what keeps the calls of
\* FleetServer apart, and only advisory requests can break the chain.
LiveChainVerifies == (overlapped \/ gapped) \/ Verifies(entries)

\* Two appends meet only when one of them is an advisory request.
OnlyAdviceOverlaps == \A t, u \in Threads :
    t # u /\ thread[t].at \in InAppend /\ thread[u].at \in InAppend
        => "advice" \in {thread[t].kind, thread[u].kind}

\* The rows up to the first missing one always verify, whatever crashed or
\* was refused and however often the server started over them.
DurableChainVerifies ==
    \A n \in DOMAIN table : 0 .. n \subseteq DOMAIN table =>
        Verifies([i \in 1 .. n + 1 |-> table[i - 1]])

Audited == Cardinality({i \in DOMAIN table : table[i].kind = "change"})
InBetween == IF \E t \in Threads : thread[t].kind = "change" /\ thread[t].at # "write" THEN 1 ELSE 0

\* A crash or a refused row costs the audit trail one state change at most:
\* all others have their row when the call returns.
UnauditedBounded == gapped \/ ~persistent \/ written <= Audited + InBetween + crashes + failed

\* A migration was executed and its version never recorded.
Torn == mode # "recording" /\ created > version

\* A server that dies without ever having been refused a row becomes ready,
\* unless it died between the two statements of a migration.
ReadyAfterCrashes == mode # "up" ~> (mode = "up" \/ failed > 0 \/ Torn)

\* What docs/architecture.md says of a start: it reconciles and then accepts
\* commands.  It does not after a refused row with rows behind it, even when
\* the schema is complete.
EveryStartIsReady == mode # "up" ~> (mode = "up" \/ Torn)
=============================================================================
