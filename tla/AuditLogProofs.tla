--------------------------- MODULE AuditLogProofs ---------------------------
(***************************************************************************)
(* For any number of threads, migrations, appends, crashes and refused     *)
(* statements:                                                             *)
(*   - the lock of the server keeps the appends of its calls apart (IInv), *)
(*   - the variables have their types (DataInv),                           *)
(*   - the log in memory and the rows up to the first missing one verify   *)
(*     (LogInv).  A started server has either an entry for every row, in   *)
(*     its place (Covered), or loaded a table with a row missing that none *)
(*     of its insertions can be any more (Missed),                         *)
(*   - a crash or a refused statement costs one audit row at most.         *)
(***************************************************************************)
EXTENDS AuditLog, FiniteSetTheorems, TLAPS

Places == {"idle", "write", "index", "row"} \union InAppend
CallKinds == {"none", "change", "advice", "ready"}

\* The local variables of an append are numbers of no interest here.
ThreadsOver(S) ==
    [Threads -> [at : Places, kind : CallKinds, index : S, previous : S, digest : S]]

ThreadType == \E S : thread \in ThreadsOver(S)

\* The lock says who is in a call that changes state; only the thread of the
\* repository ever is in a start.
LockInv ==
    /\ persistent \in BOOLEAN
    /\ lock \in Threads \union {NoThread}
    /\ \A t \in Threads : lock = t <=> thread[t].kind = "change"
    /\ \A t \in Threads : thread[t].kind = "none" => thread[t].at = "idle"
    /\ \A t \in Threads : thread[t].kind = "ready" => persistent
    /\ persistent => \A t \in Threads : t # Main => thread[t] = Idle
    /\ ~persistent => mode = "up"

IInv == ThreadType /\ LockInv

-----------------------------------------------------------------------------

\* A step of thread t that moves it on within its call.
LEMMA MovesOn ==
    ASSUME IInv, NEW t \in Threads, NEW e, ThreadType', UNCHANGED <<persistent, lock>>,
           thread[t].at # "idle",
           thread' = [thread EXCEPT ![t] = e], e.kind = thread[t].kind,
           mode' = mode \/ persistent
    PROVE  LockInv'
<1>1. thread'[t] = e /\ \A u \in Threads \ {t} : thread'[u] = thread[u]
  BY DEF IInv, ThreadType, ThreadsOver
<1>2. thread[t].kind # "none"
  BY DEF IInv, LockInv
<1>3. persistent => t = Main
  BY DEF IInv, LockInv, Idle
<1> QED
  BY <1>1, <1>2, <1>3 DEF IInv, LockInv

\* A step with which thread t leaves its call.
LEMMA Leaves ==
    ASSUME IInv, NEW t \in Threads, Leave(t), UNCHANGED persistent, mode' = mode \/ persistent
    PROVE  IInv'
<1>1. PICK S : thread \in ThreadsOver(S)
  BY DEF IInv, ThreadType
<1>2. thread' \in ThreadsOver(S \union {0})
  BY <1>1 DEF ThreadsOver, Leave, Idle, Genesis, Places, CallKinds
<1>3. thread'[t] = Idle /\ \A u \in Threads \ {t} : thread'[u] = thread[u]
  BY <1>1 DEF ThreadsOver, Leave
<1>4. LockInv'
  BY <1>3, AuditAssumption DEF IInv, LockInv, Leave, Idle
<1> QED
  BY <1>2, <1>4 DEF IInv, ThreadType

\* The death of the process.
LEMMA Dies ==
    ASSUME IInv, Die, UNCHANGED persistent, persistent
    PROVE  IInv'
<1>1. thread' \in ThreadsOver({0})
  BY DEF Die, ThreadsOver, Idle, Genesis, Places, CallKinds
<1>2. \A t \in Threads : thread'[t] = Idle
  BY DEF Die
<1>3. lock' = NoThread /\ persistent'
  BY DEF Die
<1>4. Idle.kind = "none" /\ Idle.at = "idle"
  BY DEF Idle
<1>5. LockInv'
  BY <1>2, <1>3, <1>4, AuditAssumption DEF LockInv
<1> QED
  BY <1>1, <1>5 DEF IInv, ThreadType

\* A call begins: it changes state only when the lock is free.
LEMMA Begins ==
    ASSUME IInv, NEW t \in Threads, NEW kind \in {"change", "advice", "ready"}, Call(t, kind)
    PROVE  IInv'
<1> DEFINE e == [thread[t] EXCEPT !.kind = kind, !.at = IF kind = "change" THEN "write" ELSE "index"]
<1>1. PICK S : thread \in ThreadsOver(S)
  BY DEF IInv, ThreadType
<1>2. thread' = [thread EXCEPT ![t] = e]
  BY <1>1 DEF ThreadsOver, Call
<1>3. /\ e \in [at : Places, kind : CallKinds, index : S, previous : S, digest : S]
      /\ e.kind = kind /\ e.at # "idle"
  BY <1>1 DEF ThreadsOver, Places, CallKinds
<1> HIDE DEF e
<1>4. thread' \in ThreadsOver(S)
  BY <1>1, <1>2, <1>3 DEF ThreadsOver
<1>5. thread'[t] = e /\ \A u \in Threads \ {t} : thread'[u] = thread[u]
  BY <1>1, <1>2 DEF ThreadsOver
<1>6. /\ thread[t].kind = "none" /\ (persistent => t = Main)
      /\ kind = "change" => lock = NoThread
      /\ kind = "ready" => mode # "up"
      /\ lock' = (IF kind = "change" THEN t ELSE lock)
      /\ UNCHANGED <<persistent, mode>>
  BY DEF Call, Idle, LockFree
<1>7. /\ lock' \in Threads \union {NoThread}
      /\ \A u \in Threads : lock' = u <=> thread'[u].kind = "change"
  BY <1>3, <1>5, <1>6, AuditAssumption DEF IInv, LockInv
<1>8. /\ \A u \in Threads : thread'[u].kind = "none" => thread'[u].at = "idle"
      /\ persistent => \A u \in Threads : u # Main => thread'[u] = Idle
      /\ \A u \in Threads : thread'[u].kind = "ready" => persistent
  BY <1>3, <1>5, <1>6 DEF IInv, LockInv
<1>9. LockInv'
  BY <1>6, <1>7, <1>8 DEF IInv, LockInv
<1> QED
  BY <1>4, <1>9 DEF IInv, ThreadType

\* The steps of an append.
LEMMA StepKeepsInv ==
    ASSUME IInv, NEW t \in Threads, Step(t)
    PROVE  IInv'
<1>1. PICK S : thread \in ThreadsOver(S)
  BY DEF IInv, ThreadType
<1> DEFINE T == S \union {Len(entries), chain, Digest}
<1>2. thread \in ThreadsOver(T)
  BY <1>1 DEF ThreadsOver
<1>3. ASSUME NEW e \in [at : Places, kind : CallKinds, index : T, previous : T, digest : T],
             thread' = [thread EXCEPT ![t] = e], e.kind = thread[t].kind,
             UNCHANGED <<persistent, lock, mode>>, thread[t].at # "idle"
      PROVE  IInv'
  <2>1. thread' \in ThreadsOver(T)
    BY <1>2, <1>3 DEF ThreadsOver
  <2>2. ThreadType'
    BY <2>1 DEF ThreadType
  <2>3. LockInv'
    BY <1>3, <2>2, MovesOn
  <2> QED
    BY <2>2, <2>3 DEF IInv
<1> DEFINE at(p) == [thread[t] EXCEPT !.at = p]
<1>4. CASE WriteState(t)
  <2>1. at("index") \in [at : Places, kind : CallKinds, index : T, previous : T, digest : T]
        /\ at("index").kind = thread[t].kind
    BY <1>2 DEF ThreadsOver, Places
  <2> QED
    BY <1>3, <1>4, <2>1 DEF WriteState
<1>5. CASE ReadIndex(t)
  <2> DEFINE e == [thread[t] EXCEPT !.at = "previous", !.index = Len(entries)]
  <2>1. e \in [at : Places, kind : CallKinds, index : T, previous : T, digest : T]
        /\ e.kind = thread[t].kind
    BY <1>2 DEF ThreadsOver, Places, InAppend
  <2>2. thread' = [thread EXCEPT ![t] = e]
    BY <1>2, <1>5 DEF ReadIndex, ThreadsOver
  <2> QED
    BY <1>3, <1>5, <2>1, <2>2 DEF ReadIndex
<1>6. CASE ReadPrevious(t)
  <2> DEFINE e == [thread[t] EXCEPT !.at = "hash", !.previous = chain]
  <2>1. e \in [at : Places, kind : CallKinds, index : T, previous : T, digest : T]
        /\ e.kind = thread[t].kind
    BY <1>2 DEF ThreadsOver, Places, InAppend
  <2>2. thread' = [thread EXCEPT ![t] = e]
    BY <1>2, <1>6 DEF ReadPrevious, ThreadsOver
  <2> QED
    BY <1>3, <1>6, <2>1, <2>2 DEF ReadPrevious
<1>7. CASE SetHash(t)
  <2> DEFINE e == [thread[t] EXCEPT !.at = "list", !.digest = Digest]
  <2>1. e \in [at : Places, kind : CallKinds, index : T, previous : T, digest : T]
        /\ e.kind = thread[t].kind
    BY <1>2 DEF ThreadsOver, Places, InAppend
  <2>2. thread' = [thread EXCEPT ![t] = e]
    BY <1>2, <1>7 DEF SetHash, ThreadsOver
  <2> QED
    BY <1>3, <1>7, <2>1, <2>2 DEF SetHash
<1>8. CASE ListEntry(t)
  <2>1. CASE persistent
    <3>1. at("row") \in [at : Places, kind : CallKinds, index : T, previous : T, digest : T]
          /\ at("row").kind = thread[t].kind
      BY <1>2 DEF ThreadsOver, Places
    <3> QED
      BY <1>3, <1>8, <2>1, <3>1 DEF ListEntry
  <2>2. CASE ~persistent
    BY <1>8, <2>2, Leaves DEF ListEntry
  <2> QED
    BY <2>1, <2>2
<1>9. CASE InsertRow(t)
  <2>1. UNCHANGED persistent /\ (Raise(t) \/ Leave(t))
        /\ (~Raise(t) => mode' = IF thread[t].kind = "ready" THEN "up" ELSE mode)
    BY <1>9 DEF InsertRow, Raise
  <2>2. thread[t].kind = "ready" \/ mode # "up" => persistent
    BY DEF IInv, LockInv
  <2> QED
    BY <2>1, <2>2, Leaves, Dies DEF Raise
<1> QED
  BY <1>4, <1>5, <1>6, <1>7, <1>8, <1>9 DEF Step

\* The invariant is inductive.
LEMMA InvStep == IInv /\ [Next]_vars => IInv'
<1> SUFFICES ASSUME IInv, [Next]_vars PROVE IInv'
  OBVIOUS
<1>1. ASSUME NEW t \in Threads, Fail(t) PROVE IInv'
  <2>1. UNCHANGED persistent /\ persistent /\ Raise(t)
    BY <1>1 DEF Fail
  <2> QED
    BY <2>1, Leaves, Dies DEF Raise
<1>2. CASE Crash
  BY <1>2, Dies DEF Crash
<1>3. CASE Open \/ RecordVersion \/ Restart
  <2>1. UNCHANGED <<persistent, lock, thread>> /\ persistent
    BY <1>3 DEF Open, RecordVersion, Restart, IInv, LockInv
  <2> QED
    BY <2>1 DEF IInv, LockInv, ThreadType, ThreadsOver
<1>5. CASE Migrate
  <2>1. UNCHANGED persistent /\ persistent /\ (Die \/ UNCHANGED <<lock, thread>>)
    BY <1>5 DEF Migrate, IInv, LockInv
  <2> QED
    BY <2>1, Dies DEF IInv, LockInv, ThreadType, ThreadsOver
<1>4. CASE UNCHANGED vars
  BY <1>4 DEF vars, IInv, LockInv, ThreadType, ThreadsOver
<1> QED
  BY <1>1, <1>2, <1>3, <1>4, <1>5, Begins, StepKeepsInv DEF Next

\* The invariant holds of a server that has not been started.
LEMMA InvInitial == Init => IInv
<1> SUFFICES ASSUME Init PROVE IInv
  OBVIOUS
<1>1. thread \in ThreadsOver({0})
  BY DEF Init, ThreadsOver, Idle, Genesis, Places, CallKinds
<1>2. LockInv
  BY AuditAssumption DEF Init, LockInv, Idle
<1> QED
  BY <1>1, <1>2 DEF IInv, ThreadType

\* Two appends are in progress at once only when one of them is an advisory
\* request: all others hold the lock, or belong to a start, in which no other
\* thread has a call (FleetServer._lock, AuditLog.append).
THEOREM OnlyAdviceOverlapsHolds == Spec => []OnlyAdviceOverlaps
<1>1. ASSUME IInv, NEW t \in Threads, NEW u \in Threads, t # u,
             thread[t].at \in InAppend, thread[u].at \in InAppend
      PROVE  "advice" \in {thread[t].kind, thread[u].kind}
  <2>1. thread[t].kind \in CallKinds \ {"none"} /\ thread[u].kind \in CallKinds \ {"none"}
    BY <1>1 DEF IInv, ThreadType, ThreadsOver, LockInv, InAppend
  <2>2. ~persistent
    BY <1>1 DEF IInv, LockInv, InAppend, Idle
  <2>3. thread[t].kind # "ready" /\ thread[u].kind # "ready"
    <3>1. \A v \in Threads : thread[v].kind = "ready" => persistent
      BY <1>1 DEF IInv, LockInv
    <3> QED
      BY <2>2, <3>1
  <2>4. ~(thread[t].kind = "change" /\ thread[u].kind = "change")
    BY <1>1 DEF IInv, LockInv
  <2> QED
    BY <2>1, <2>3, <2>4 DEF CallKinds
<1>2. IInv => OnlyAdviceOverlaps
  BY <1>1 DEF OnlyAdviceOverlaps
<1> QED
  BY <1>2, InvInitial, InvStep, PTL DEF Spec

-----------------------------------------------------------------------------

Modes == {"up", "starting", "migrating", "recording", "dead"}

\* Before a constructor runs there is nothing in memory.
NotStarted == mode \in {"migrating", "recording", "dead"}

DataType ==
    /\ thread \in ThreadsOver(Nat)
    /\ entries \in Seq(Entries) /\ chain \in Nat
    /\ IsFiniteSet(DOMAIN table) /\ DOMAIN table \subseteq Nat
    /\ \A i \in DOMAIN table : table[i] \in Entries
    /\ written \in Nat /\ crashes \in Nat /\ failed \in Nat

\* Which places go with which modes and calls.
PlaceInv ==
    /\ mode \in Modes
    /\ NotStarted => persistent /\ entries = <<>> /\ \A t \in Threads : thread[t] = Idle
    /\ \A t \in Threads : thread[t].at = "write" => thread[t].kind = "change"
    /\ \A t \in Threads : thread[t].at = "row" => persistent /\ entries # <<>>

\* A migration is executed once before its version is recorded.
MigrationInv ==
    /\ version \in 0 .. Migrations /\ created \in {version, version + 1}
    /\ mode = "recording" => version < Migrations /\ created = version + 1

DataInv == IInv /\ DataType /\ PlaceInv /\ MigrationInv

-----------------------------------------------------------------------------

\* In a finite set of numbers every rank is taken.
LEMMA RankExists ==
    ASSUME NEW D \in SUBSET Nat, IsFiniteSet(D), NEW n \in 1 .. Cardinality(D)
    PROVE  \E i \in D : Cardinality({j \in D : j < i}) = n - 1
<1> DEFINE Below(i) == {j \in D : j < i}
           rank == [i \in D |-> Cardinality(Below(i))]
           T == 0 .. Cardinality(D) - 1
<1>1. Cardinality(D) \in Nat
  BY FS_CardinalityType
<1>2. \A i \in D : IsFiniteSet(Below(i)) /\ Cardinality(Below(i)) \in Nat
  BY FS_Subset, FS_CardinalityType
<1>3. ASSUME NEW i \in D PROVE Cardinality(Below(i)) < Cardinality(D)
  <2>1. Below(i) \in SUBSET D /\ Below(i) # D
    OBVIOUS
  <2> HIDE DEF Below
  <2>2. Cardinality(Below(i)) <= Cardinality(D) /\ Cardinality(Below(i)) # Cardinality(D)
    BY <2>1, FS_Subset
  <2> QED
    BY <1>1, <1>2, <2>2
<1>4. ASSUME NEW i \in D, NEW k \in D, i < k PROVE Cardinality(Below(i)) < Cardinality(Below(k))
  <2>1. Below(i) \in SUBSET Below(k) /\ Below(i) # Below(k)
    <3>1. i \in Below(k) /\ i \notin Below(i)
      BY <1>4
    <3>2. \A j \in Below(i) : j \in Below(k)
      BY <1>4
    <3> QED
      BY <3>1, <3>2
  <2> HIDE DEF Below
  <2>2. Cardinality(Below(i)) <= Cardinality(Below(k)) /\ Cardinality(Below(i)) # Cardinality(Below(k))
    BY <1>2, <2>1, FS_Subset
  <2> QED
    BY <1>2, <2>2
<1> HIDE DEF Below
<1>5. rank \in [D -> T]
  BY <1>1, <1>2, <1>3
<1>6. \A i, k \in D : i # k => rank[i] # rank[k]
  <2> SUFFICES ASSUME NEW i \in D, NEW k \in D, i # k PROVE rank[i] # rank[k]
    OBVIOUS
  <2>1. i < k \/ k < i
    OBVIOUS
  <2> QED
    BY <2>1, <1>2, <1>4
<1>7. rank \in Injection(D, T)
  BY <1>5, <1>6 DEF Injection, IsInjective
<1>8. IsFiniteSet(T) /\ Cardinality(T) = Cardinality(D)
  <2> DEFINE c == Cardinality(D) - 1
  <2>1. c \in Int /\ (0 > c => Cardinality(D) = 0) /\ c - 0 + 1 = Cardinality(D)
    BY <1>1
  <2>2. T = 0 .. c
    OBVIOUS
  <2> HIDE DEF c, T
  <2>3. IsFiniteSet(0 .. c) /\ Cardinality(0 .. c) = IF 0 > c THEN 0 ELSE c - 0 + 1
    BY <2>1, FS_Interval
  <2> QED
    BY <2>1, <2>2, <2>3
<1> HIDE DEF rank
<1>9. rank \in Surjection(D, T)
  BY <1>7, <1>8, FS_Injection
<1>10. \E i \in D : rank[i] = n - 1
  BY <1>1, <1>9 DEF Surjection
<1> QED
  BY <1>10 DEF rank, Below

\* The rows of the table in the order of their index are entries, as many.
LEMMA LoadedType ==
    ASSUME DataType
    PROVE  /\ Loaded \in Seq(Entries)
           /\ Len(Loaded) = Cardinality(DOMAIN table) /\ Cardinality(DOMAIN table) \in Nat
           /\ ChainLoaded \in Nat
<1>1. Cardinality(DOMAIN table) \in Nat
  BY FS_CardinalityType DEF DataType
<1>2. ASSUME NEW n \in 1 .. Cardinality(DOMAIN table)
      PROVE  table[CHOOSE i \in DOMAIN table : Cardinality({j \in DOMAIN table : j < i}) = n - 1]
                 \in Entries
  <2>1. \E i \in DOMAIN table : Cardinality({j \in DOMAIN table : j < i}) = n - 1
    BY RankExists DEF DataType
  <2> QED
    BY <2>1 DEF DataType
<1>3. Loaded \in [1 .. Cardinality(DOMAIN table) -> Entries]
  BY <1>2 DEF Loaded
<1>4. Loaded \in Seq(Entries) /\ Len(Loaded) = Cardinality(DOMAIN table)
  BY <1>1, <1>3
<1>5. ChainLoaded \in Nat
  BY <1>1, <1>3, <1>4 DEF ChainLoaded, HashOf, Genesis, Entries
<1> QED
  BY <1>1, <1>4, <1>5

\* Loading a table without gaps leaves every row at its place.
LEMMA LoadedWhenWhole ==
    ASSUME DataType, DOMAIN table = 0 .. Cardinality(DOMAIN table) - 1
    PROVE  \A n \in 1 .. Cardinality(DOMAIN table) : Loaded[n] = table[n - 1]
<1> DEFINE N == Cardinality(DOMAIN table)
<1>1. N \in Nat
  BY FS_CardinalityType DEF DataType
<1> SUFFICES ASSUME NEW n \in 1 .. N PROVE Loaded[n] = table[n - 1]
  OBVIOUS
<1>2. ASSUME NEW i \in 0 .. N - 1 PROVE Cardinality({j \in DOMAIN table : j < i}) = i
  <2>1. {j \in 0 .. N - 1 : j < i} = 0 .. i - 1
    BY <1>1
  <2>2. Cardinality(0 .. i - 1) = i
    BY FS_Interval
  <2>3. {j \in DOMAIN table : j < i} = {j \in 0 .. N - 1 : j < i}
    OBVIOUS
  <2> QED
    BY <2>1, <2>2, <2>3
<1> DEFINE c == CHOOSE i \in DOMAIN table : Cardinality({j \in DOMAIN table : j < i}) = n - 1
<1>3. n - 1 \in 0 .. N - 1
  BY <1>1
<1>4. c \in DOMAIN table /\ Cardinality({j \in DOMAIN table : j < c}) = n - 1
  BY <1>2, <1>3
<1>5. c = n - 1
  <2> HIDE DEF c
  <2>1. c \in 0 .. N - 1
    BY <1>4
  <2> QED
    BY <1>2, <1>4, <2>1
<1>6. Loaded[n] = table[c]
  BY DEF Loaded
<1> QED
  BY <1>5, <1>6

\* There always is a hash unlike every other in use.
LEMMA DigestIsANumber ==
    ASSUME DataType
    PROVE  Digest \in Nat
<1> DEFINE A == {thread[t].digest : t \in Threads}
           B == {entries[i].digest : i \in DOMAIN entries}
           C == {table[i].digest : i \in DOMAIN table}
<1>1. IsFiniteSet(A)
  <2> DEFINE f == [t \in Threads |-> thread[t].digest]
  <2>1. f \in Surjection(Threads, A)
    BY DEF Surjection
  <2> HIDE DEF f, A
  <2> QED
    BY <2>1, FS_Surjection, AuditAssumption
<1>2. IsFiniteSet(B)
  <2> DEFINE f == [i \in DOMAIN entries |-> entries[i].digest]
  <2>1. f \in Surjection(DOMAIN entries, B)
    BY DEF Surjection
  <2>2. IsFiniteSet(DOMAIN entries)
    <3>1. Len(entries) \in Int /\ DOMAIN entries = 1 .. Len(entries)
      BY DEF DataType
    <3> QED
      BY <3>1, FS_Interval
  <2> HIDE DEF f, B
  <2> QED
    BY <2>1, <2>2, FS_Surjection
<1>3. IsFiniteSet(C)
  <2> DEFINE f == [i \in DOMAIN table |-> table[i].digest]
  <2>1. f \in Surjection(DOMAIN table, C)
    BY DEF Surjection
  <2>2. IsFiniteSet(DOMAIN table)
    BY DEF DataType
  <2> HIDE DEF f, C
  <2> QED
    BY <2>1, <2>2, FS_Surjection
<1>4. Used = {chain} \union A \union B \union C \union {Genesis}
  BY DEF Used
<1>5. IsFiniteSet(Used)
  <2> HIDE DEF A, B, C
  <2>1. IsFiniteSet({chain}) /\ IsFiniteSet({Genesis})
    BY FS_Singleton
  <2>2. IsFiniteSet({chain} \union A)
    BY <1>1, <2>1, FS_Union
  <2>3. IsFiniteSet({chain} \union A \union B)
    BY <1>2, <2>2, FS_Union
  <2>4. IsFiniteSet({chain} \union A \union B \union C)
    BY <1>3, <2>3, FS_Union
  <2> QED
    BY <1>4, <2>1, <2>4, FS_Union
<1>6. Genesis \in Used /\ Genesis = 0
  BY <1>4 DEF Genesis
<1> HIDE DEF A, B, C
<1>7. Cardinality(Used) \in Nat
  BY <1>5, FS_CardinalityType
<1>8. \E h \in 1 .. Cardinality(Used) : h \notin Used
  <2> SUFFICES ASSUME 1 .. Cardinality(Used) \subseteq Used PROVE FALSE
    OBVIOUS
  <2>1. 0 .. Cardinality(Used) \subseteq Used
    BY <1>6, <1>7
  <2>2. Cardinality(0 .. Cardinality(Used)) = Cardinality(Used) + 1
    BY <1>7, FS_Interval
  <2>3. Cardinality(0 .. Cardinality(Used)) <= Cardinality(Used)
    BY <1>5, <2>1, FS_Subset
  <2> QED
    BY <1>7, <2>2, <2>3
<1> QED
  BY <1>7, <1>8 DEF Digest

\* The initial state has its types.
LEMMA DataInitial == Init => DataInv
<1> SUFFICES ASSUME Init PROVE DataInv
  OBVIOUS
<1>1. thread \in ThreadsOver(Nat)
  BY DEF Init, ThreadsOver, Idle, Genesis, Places, CallKinds
<1>2. IsFiniteSet(DOMAIN table) /\ DOMAIN table = {}
  BY FS_EmptySet DEF Init
<1>3. DataType
  BY <1>1, <1>2 DEF Init, DataType, Genesis
<1>4. PlaceInv /\ MigrationInv
  BY AuditAssumption DEF Init, PlaceInv, MigrationInv, NotStarted, Modes, Idle
<1> QED
  BY <1>3, <1>4, InvInitial DEF DataInv

\* The process dies, or a call is left.
LEMMA RaiseKeepsData ==
    ASSUME DataInv, NEW t \in Threads, UNCHANGED <<persistent, table, version>>,
           \/ Die /\ persistent
           \/ Leave(t) /\ UNCHANGED log /\ mode' \in {mode, "up"} /\ ~NotStarted,
           created' \in {version, version + 1},
           written' = written, crashes' \in Nat, failed' \in Nat
    PROVE  DataType' /\ PlaceInv' /\ MigrationInv'
<1>1. Idle \in [at : Places, kind : CallKinds, index : Nat, previous : Nat, digest : Nat]
      /\ Idle.at = "idle"
  BY DEF Idle, Genesis, Places, CallKinds
<1>2. CASE Die /\ persistent
  <2>1. /\ thread' = [u \in Threads |-> Idle] /\ entries' = <<>> /\ chain' = 0 /\ mode' = "dead"
    BY <1>2 DEF Die, Genesis
  <2>2. thread' \in ThreadsOver(Nat) /\ \A u \in Threads : thread'[u] = Idle
    BY <1>1, <2>1 DEF ThreadsOver
  <2>3. DataType'
    BY <2>1, <2>2 DEF DataInv, DataType
  <2>4. PlaceInv'
    BY <1>1, <1>2, <2>1, <2>2 DEF PlaceInv, NotStarted, Modes
  <2> QED
    BY <2>1, <2>3, <2>4 DEF DataInv, MigrationInv
<1>3. CASE Leave(t) /\ UNCHANGED log /\ mode' \in {mode, "up"} /\ ~NotStarted
  <2>1. thread' = [thread EXCEPT ![t] = Idle] /\ UNCHANGED <<entries, chain>>
    BY <1>3 DEF Leave, log
  <2>2. /\ thread' \in ThreadsOver(Nat)
        /\ \A u \in Threads : thread'[u] \in {thread[u], Idle}
    BY <1>1, <2>1 DEF ThreadsOver, DataInv, DataType
  <2>3. DataType'
    BY <2>1, <2>2 DEF DataInv, DataType
  <2>4. PlaceInv'
    BY <1>1, <1>3, <2>1, <2>2 DEF DataInv, PlaceInv, NotStarted, Modes
  <2>5. mode' # "recording"
    BY <1>3 DEF NotStarted
  <2> QED
    BY <2>3, <2>4, <2>5 DEF DataInv, MigrationInv
<1> QED
  BY <1>2, <1>3

\* An append's record is an entry.
LEMMA EntryType ==
    ASSUME DataInv, NEW t \in Threads, thread[t].at \in {"list", "row"}
    PROVE  Entry(t) \in Entries
<1>1. thread[t].kind \in {"change", "advice", "ready"}
  BY DEF DataInv, IInv, LockInv, DataType, ThreadsOver, CallKinds
<1> QED
  BY <1>1 DEF Entry, Entries, DataInv, DataType, ThreadsOver

\* A thread that is at something is in a started server.
LEMMA BusyMeansStarted ==
    ASSUME DataInv, NEW t \in Threads, thread[t].at # "idle"
    PROVE  ~NotStarted /\ mode \in {"up", "starting"}
BY DEF DataInv, PlaceInv, Idle, NotStarted, Modes

\* A thread goes on within its call.
LEMMA MoveKeepsData ==
    ASSUME DataInv, NEW t \in Threads, thread[t].at # "idle",
           NEW e \in [at : Places, kind : CallKinds, index : Nat, previous : Nat, digest : Nat],
           thread' = [thread EXCEPT ![t] = e], e.at # "write",
           e.at = "row" => persistent /\ entries' # <<>>,
           entries' \in Seq(Entries), chain' \in Nat, written' \in Nat,
           \A u \in Threads : thread[u].at = "row" => entries' # <<>>,
           UNCHANGED <<persistent, mode, table, schema, crashes, failed>>
    PROVE  DataType' /\ PlaceInv' /\ MigrationInv'
<1>1. /\ thread' \in ThreadsOver(Nat)
      /\ \A u \in Threads : thread'[u] = e \/ thread'[u] = thread[u]
  BY DEF ThreadsOver, DataInv, DataType
<1>2. DataType'
  BY <1>1 DEF DataInv, DataType
<1>3. PlaceInv'
  <2>1. ~NotStarted /\ ~NotStarted'
    BY BusyMeansStarted DEF NotStarted
  <2>2. \A u \in Threads : thread'[u].at = "write" => thread'[u].kind = "change"
    BY <1>1 DEF DataInv, PlaceInv
  <2>3. \A u \in Threads : thread'[u].at = "row" => persistent' /\ entries' # <<>>
    BY <1>1 DEF DataInv, PlaceInv
  <2> QED
    BY <2>1, <2>2, <2>3 DEF DataInv, PlaceInv
<1> QED
  BY <1>2, <1>3 DEF DataInv, MigrationInv, schema

\* The steps of an append keep the types.
LEMMA StepKeepsData ==
    ASSUME DataInv, NEW t \in Threads, Step(t)
    PROVE  DataType' /\ PlaceInv' /\ MigrationInv'
<1> DEFINE R == [at : Places, kind : CallKinds, index : Nat, previous : Nat, digest : Nat]
<1>1. /\ thread \in [Threads -> R] /\ thread[t] \in R
      /\ entries \in Seq(Entries) /\ Len(entries) \in Nat /\ chain \in Nat /\ written \in Nat
  BY DEF DataInv, DataType, ThreadsOver
<1>2. /\ \A u \in Threads : thread[u].at = "row" => entries # <<>>
  BY DEF DataInv, PlaceInv
<1> HIDE DEF R
<1>3. CASE WriteState(t)
  <2> DEFINE e == [thread[t] EXCEPT !.at = "index"]
  <2>1. e \in R /\ e.at = "index"
    BY <1>1 DEF R, Places
  <2>2. thread' = [thread EXCEPT ![t] = e] /\ thread[t].at # "idle" /\ written' \in Nat
        /\ UNCHANGED <<persistent, mode, entries, chain, table, schema, crashes, failed>>
    BY <1>1, <1>3 DEF WriteState, log
  <2> HIDE DEF e
  <2> QED
    BY <1>1, <1>2, <2>1, <2>2, MoveKeepsData DEF R
<1>4. CASE ReadIndex(t)
  <2> DEFINE e == [thread[t] EXCEPT !.at = "previous", !.index = Len(entries)]
  <2>1. e \in R /\ e.at = "previous"
    BY <1>1 DEF R, Places, InAppend
  <2>2. thread' = [thread EXCEPT ![t] = e] /\ thread[t].at # "idle"
        /\ UNCHANGED <<persistent, mode, entries, chain, table, schema, crashes, failed, written>>
    BY <1>1, <1>4 DEF ReadIndex, log, R
  <2> HIDE DEF e
  <2> QED
    BY <1>1, <1>2, <2>1, <2>2, MoveKeepsData DEF R
<1>5. CASE ReadPrevious(t)
  <2> DEFINE e == [thread[t] EXCEPT !.at = "hash", !.previous = chain]
  <2>1. e \in R /\ e.at = "hash"
    BY <1>1 DEF R, Places, InAppend
  <2>2. thread' = [thread EXCEPT ![t] = e] /\ thread[t].at # "idle"
        /\ UNCHANGED <<persistent, mode, entries, chain, table, schema, crashes, failed, written>>
    BY <1>1, <1>5 DEF ReadPrevious, log, R, history
  <2> HIDE DEF e
  <2> QED
    BY <1>1, <1>2, <2>1, <2>2, MoveKeepsData DEF R
<1>6. CASE SetHash(t)
  <2> DEFINE e == [thread[t] EXCEPT !.at = "list", !.digest = Digest]
  <2>1. Digest \in Nat
    BY DigestIsANumber DEF DataInv
  <2>2. e \in R /\ e.at = "list"
    BY <1>1, <2>1 DEF R, Places, InAppend
  <2>3. thread' = [thread EXCEPT ![t] = e] /\ thread[t].at # "idle" /\ chain' = Digest
        /\ UNCHANGED <<persistent, mode, entries, table, schema, crashes, failed, written>>
    BY <1>1, <1>6 DEF SetHash, R, history
  <2> HIDE DEF e
  <2> QED
    BY <1>1, <1>2, <2>1, <2>2, <2>3, MoveKeepsData DEF R
<1>7. CASE ListEntry(t)
  <2>1. Entry(t) \in Entries /\ entries' = Append(entries, Entry(t)) /\ chain' = chain
    BY <1>7, EntryType DEF ListEntry
  <2>2. entries' \in Seq(Entries) /\ entries' # <<>>
    <3> DEFINE x == Entry(t)
    <3>1. x \in Entries /\ entries' = Append(entries, x)
      BY <2>1
    <3> HIDE DEF x
    <3> QED
      BY <1>1, <3>1
  <2>3. CASE persistent
    <3> DEFINE e == [thread[t] EXCEPT !.at = "row"]
    <3>1. e \in R /\ e.at = "row"
      BY <1>1 DEF R, Places
    <3>2. thread' = [thread EXCEPT ![t] = e] /\ thread[t].at # "idle"
          /\ UNCHANGED <<persistent, mode, chain, table, schema, crashes, failed, written>>
      BY <1>1, <1>7, <2>3 DEF ListEntry, R, history
    <3> HIDE DEF e
    <3> QED
      BY <1>1, <2>2, <2>3, <3>1, <3>2, MoveKeepsData DEF R
  <2>4. CASE ~persistent
    <3>1. Leave(t) /\ ~NotStarted /\ UNCHANGED <<persistent, mode, chain, table, schema, history>>
      BY <1>7, <2>4, BusyMeansStarted DEF ListEntry
    <3>2. /\ thread' \in ThreadsOver(Nat)
          /\ \A u \in Threads : thread'[u] \in {thread[u], Idle}
      BY <3>1 DEF Leave, ThreadsOver, DataInv, DataType, Idle, Genesis, Places, CallKinds
    <3>3. DataType'
      BY <2>2, <3>1, <3>2 DEF DataInv, DataType, history
    <3>4. PlaceInv'
      BY <2>2, <2>4, <3>1, <3>2 DEF DataInv, PlaceInv, NotStarted, Idle
    <3> QED
      BY <3>1, <3>3, <3>4 DEF DataInv, MigrationInv, schema
  <2> QED
    BY <2>3, <2>4
<1>8. CASE InsertRow(t)
  <2>1. /\ thread[t].at = "row" /\ ~NotStarted /\ persistent /\ entries # <<>>
        /\ UNCHANGED <<persistent, created, version, crashes, failed, written>>
    BY <1>8, BusyMeansStarted DEF InsertRow, DataInv, PlaceInv, schema, history
  <2>2. CASE RowIndex \in DOMAIN table
    <3>1. Raise(t) /\ UNCHANGED table
      BY <1>8, <2>2 DEF InsertRow
    <3> QED
      BY <2>1, <3>1, RaiseKeepsData DEF Raise, DataInv, DataType, MigrationInv
  <2>3. CASE RowIndex \notin DOMAIN table
    <3>1. /\ table' = [i \in DOMAIN table \union {RowIndex} |->
                          IF i = RowIndex THEN Entry(t) ELSE table[i]]
          /\ Leave(t) /\ UNCHANGED log /\ mode' \in {mode, "up"}
      BY <1>8, <2>3 DEF InsertRow
    <3>2. RowIndex \in Nat
      BY <1>1, <2>1 DEF RowIndex
    <3>3. Entry(t) \in Entries
      BY <2>1, EntryType
    <3>4. /\ IsFiniteSet(DOMAIN table') /\ DOMAIN table' \subseteq Nat
          /\ \A i \in DOMAIN table' : table'[i] \in Entries
      <4>1. IsFiniteSet(DOMAIN table \union {RowIndex})
        BY FS_AddElement DEF DataInv, DataType
      <4> QED
        BY <3>1, <3>2, <3>3, <4>1 DEF DataInv, DataType
    <3>5. thread' \in ThreadsOver(Nat) /\ \A u \in Threads : thread'[u] \in {thread[u], Idle}
      BY <3>1 DEF Leave, ThreadsOver, DataInv, DataType, Idle, Genesis, Places, CallKinds
    <3>6. DataType'
      BY <2>1, <3>1, <3>4, <3>5 DEF DataInv, DataType, log
    <3>7. PlaceInv'
      BY <2>1, <3>1, <3>5 DEF DataInv, PlaceInv, NotStarted, Modes, Idle, log
    <3>8. MigrationInv'
      BY <2>1, <3>1 DEF DataInv, MigrationInv, NotStarted
    <3> QED
      BY <3>6, <3>7, <3>8
  <2> QED
    BY <2>2, <2>3
<1> QED
  BY <1>3, <1>4, <1>5, <1>6, <1>7, <1>8 DEF Step

\* Every step keeps the types.
LEMMA DataStep == DataInv /\ [Next]_vars => DataInv'
<1> SUFFICES ASSUME DataInv, [Next]_vars PROVE DataType' /\ PlaceInv' /\ MigrationInv'
  BY InvStep DEF DataInv
<1>1. ASSUME NEW t \in Threads, NEW kind \in {"change", "advice", "ready"}, Call(t, kind)
      PROVE  DataType' /\ PlaceInv' /\ MigrationInv'
  <2> DEFINE e == [thread[t] EXCEPT !.kind = kind, !.at = IF kind = "change" THEN "write" ELSE "index"]
  <2>1. /\ mode \in {"up", "starting"} /\ thread' = [thread EXCEPT ![t] = e]
        /\ UNCHANGED <<persistent, mode, entries, chain, table, created, version, crashes, failed, written>>
    BY <1>1 DEF Call, log, schema, history, DataInv, DataType, ThreadsOver
  <2>2. /\ e \in [at : Places, kind : CallKinds, index : Nat, previous : Nat, digest : Nat]
        /\ e.kind = kind /\ e.at = IF kind = "change" THEN "write" ELSE "index"
    BY DEF Places, CallKinds, DataInv, DataType, ThreadsOver
  <2> HIDE DEF e
  <2>3. thread' \in ThreadsOver(Nat) /\ \A u \in Threads : thread'[u] \in {thread[u], e}
    BY <2>1, <2>2 DEF ThreadsOver, DataInv, DataType
  <2>4. DataType'
    BY <2>1, <2>3 DEF DataInv, DataType
  <2>5. PlaceInv'
    BY <2>1, <2>2, <2>3 DEF DataInv, PlaceInv, NotStarted
  <2> QED
    BY <2>1, <2>4, <2>5 DEF DataInv, MigrationInv
<1>2. ASSUME NEW t \in Threads, Fail(t)
      PROVE  DataType' /\ PlaceInv' /\ MigrationInv'
  <2>1. /\ persistent /\ Raise(t) /\ failed' \in Nat
        /\ UNCHANGED <<persistent, table, created, version, crashes, written>>
        /\ mode = "up" => thread[t].at # "idle"
    BY <1>2 DEF Fail, schema, DataInv, DataType
  <2>2. Die \/ (Leave(t) /\ UNCHANGED log /\ mode' = mode /\ ~NotStarted)
    BY <2>1 DEF Raise, NotStarted
  <2> QED
    BY <2>1, <2>2, RaiseKeepsData DEF DataInv, DataType, MigrationInv
<1>3. CASE Crash
  <2>1. /\ persistent /\ Die /\ crashes' \in Nat
        /\ UNCHANGED <<persistent, table, created, version, failed, written>>
    BY <1>3 DEF Crash, schema, DataInv, DataType
  <2> QED
    BY <2>1, RaiseKeepsData, AuditAssumption DEF DataInv, DataType, MigrationInv
<1>4. CASE Open \/ RecordVersion
  <2>1. /\ UNCHANGED <<persistent, thread, entries, chain, table, crashes, failed, written>>
        /\ NotStarted /\ mode' = "migrating"
    BY <1>4 DEF Open, RecordVersion, log, history, NotStarted
  <2>2. PlaceInv'
    BY <2>1 DEF DataInv, PlaceInv, NotStarted, Modes
  <2>3. MigrationInv'
    BY <1>4, AuditAssumption DEF DataInv, MigrationInv, Open, RecordVersion, schema
  <2> QED
    BY <2>1, <2>2, <2>3 DEF DataInv, DataType
<1>5. CASE Migrate
  <2>1. /\ mode = "migrating" /\ persistent
        /\ UNCHANGED <<persistent, version, table, crashes, failed, written>>
    BY <1>5 DEF Migrate, history, DataInv, PlaceInv, NotStarted
  <2>2. CASE created = version
    <3>1. /\ mode' = "recording" /\ created' = created + 1 /\ UNCHANGED <<thread, entries, chain>>
          /\ version < Migrations
      BY <1>5, <2>2 DEF Migrate, log
    <3> QED
      BY <2>1, <2>2, <3>1 DEF DataInv, DataType, PlaceInv, NotStarted, Modes, MigrationInv
  <2>3. CASE created # version
    <3>1. Die /\ UNCHANGED created
      BY <1>5, <2>3 DEF Migrate
    <3> QED
      BY <2>1, <3>1, RaiseKeepsData, AuditAssumption DEF DataInv, DataType, MigrationInv
  <2> QED
    BY <2>2, <2>3
<1>6. CASE Restart
  <2>1. /\ mode' = "starting" /\ entries' = Loaded /\ chain' = ChainLoaded /\ NotStarted
        /\ UNCHANGED <<persistent, thread, table, created, version, crashes, failed, written>>
    BY <1>6 DEF Restart, schema, NotStarted
  <2>2. \A t \in Threads : thread[t].at = "idle"
    BY <2>1 DEF DataInv, PlaceInv, Idle
  <2>3. DataType'
    BY <2>1, LoadedType DEF DataInv, DataType
  <2>4. PlaceInv'
    BY <2>1, <2>2 DEF DataInv, PlaceInv, NotStarted, Modes
  <2> QED
    BY <2>1, <2>3, <2>4 DEF DataInv, MigrationInv
<1>7. CASE UNCHANGED vars
  BY <1>7 DEF vars, log, schema, history, DataInv, DataType, PlaceInv, NotStarted, MigrationInv
<1> QED
  BY <1>1, <1>2, <1>3, <1>4, <1>5, <1>6, <1>7, StepKeepsData DEF Next

\* Types, and that a thread holds the lock exactly while it is in a call that
\* changes state (FleetServer._lock).
THEOREM AuditTypeCorrect == Spec => []TypeOK
<1>1. DataInv => TypeOK
  <2> SUFFICES ASSUME DataInv PROVE TypeOK
    OBVIOUS
  <2>1. persistent \in BOOLEAN
    BY DEF DataInv, IInv, LockInv
  <2>2. /\ lock \in Threads \union {NoThread}
        /\ \A t \in Threads : lock = t <=> thread[t].kind = "change"
    BY DEF DataInv, IInv, LockInv
  <2>3. /\ mode \in {"up", "starting", "migrating", "recording", "dead"}
        /\ version \in 0 .. Migrations /\ created \in {version, version + 1}
    BY DEF DataInv, PlaceInv, MigrationInv, Modes
  <2>4. /\ entries \in Seq(Entries) /\ chain \in Nat
        /\ \A i \in DOMAIN table : i \in Nat /\ table[i] \in Entries
    BY DEF DataInv, DataType
  <2> QED
    BY <2>1, <2>2, <2>3, <2>4 DEF TypeOK
<1> QED
  BY <1>1, DataInitial, DataStep, PTL DEF Spec

-----------------------------------------------------------------------------

\* A verified log with at most one append in progress, whose variables are
\* those of the end of the log.
ChainInv ==
    /\ Verifies(entries)
    /\ (\A t \in Threads : thread[t].at # "list") => chain = HashOf(entries, Len(entries))
    /\ \A t \in Threads : thread[t].at \in InAppend => thread[t].index = Len(entries)
    /\ \A t \in Threads : thread[t].at = "hash" => thread[t].previous = chain
    /\ \A t \in Threads : thread[t].at = "list" =>
           thread[t].previous = HashOf(entries, Len(entries)) /\ thread[t].digest = chain
    /\ \A t, u \in Threads : thread[t].at \in InAppend /\ thread[u].at \in InAppend => t = u

\* Every row is the entry of its index, and a row about to be inserted is the
\* last entry.
Covered ==
    /\ \A i \in DOMAIN table : i + 1 <= Len(entries) /\ table[i] = entries[i + 1]
    /\ \A t \in Threads : thread[t].at = "row" =>
           Entry(t) = entries[Len(entries)] /\ RowIndex \notin DOMAIN table

\* A row is missing that no insertion of this process can be.
Missed ==
    \E g \in Nat : /\ g \notin DOMAIN table /\ g < Len(entries)
                   /\ \A t \in Threads : thread[t].at = "row" => g < RowIndex

\* A log in memory only verifies as long as no appends overlapped; a log with
\* a table is that of the table unless this start loaded a gap.
LogInv ==
    /\ ~persistent => overlapped \/ ChainInv
    /\ persistent /\ ~NotStarted => (ChainInv /\ Covered) \/ (gapped /\ Missed)
    /\ DurableChainVerifies

-----------------------------------------------------------------------------

\* An entry that continues a verified log keeps it verified.
LEMMA VerifiesAppend ==
    ASSUME NEW s \in Seq(Entries), NEW e \in Entries, Verifies(s),
           e.index = Len(s), e.previous = HashOf(s, Len(s)), e.digest = e.hash
    PROVE  /\ Verifies(Append(s, e))
           /\ HashOf(Append(s, e), Len(Append(s, e))) = e.hash
<1>1. /\ Len(s) \in Nat /\ Len(Append(s, e)) = Len(s) + 1
      /\ \A i \in 1 .. Len(s) : Append(s, e)[i] = s[i]
      /\ Append(s, e)[Len(s) + 1] = e
  OBVIOUS
<1> DEFINE q == Append(s, e)
<1> HIDE DEF q
<1>2. \A i \in 0 .. Len(s) : HashOf(q, i) = HashOf(s, i)
  BY <1>1 DEF HashOf, q
<1>3. ASSUME NEW i \in 1 .. Len(s) + 1
      PROVE  q[i].index = i - 1 /\ q[i].previous = HashOf(q, i - 1) /\ q[i].digest = q[i].hash
  <2>1. CASE i = Len(s) + 1
    BY <1>1, <1>2, <2>1 DEF q
  <2>2. CASE i \in 1 .. Len(s)
    <3>1. q[i] = s[i] /\ HashOf(q, i - 1) = HashOf(s, i - 1)
      BY <1>1, <1>2, <2>2 DEF q
    <3> QED
      BY <2>2, <3>1 DEF Verifies
  <2> QED
    BY <1>1, <2>1, <2>2
<1> QED
  BY <1>1, <1>3 DEF Verifies, HashOf, q

\* A log that is empty or given up has no append in progress.
LEMMA DeathKeepsChain ==
    ASSUME Die
    PROVE  ChainInv'
<1>1. entries' = <<>> /\ chain' = Genesis /\ \A t \in Threads : thread'[t].at = "idle"
  BY DEF Die, Idle
<1> QED
  BY <1>1 DEF ChainInv, Verifies, HashOf, InAppend

\* A call left outside its append takes nothing from the chain.
LEMMA LeavingKeepsChain ==
    ASSUME DataInv, ChainInv, NEW t \in Threads, Leave(t), UNCHANGED log,
           thread[t].at \notin InAppend
    PROVE  ChainInv'
<1>1. /\ UNCHANGED <<entries, chain>> /\ thread'[t].at = "idle"
      /\ \A u \in Threads \ {t} : thread'[u] = thread[u]
  BY DEF Leave, log, Idle, DataInv, DataType, ThreadsOver
<1> QED
  BY <1>1 DEF ChainInv, InAppend

\* What a step of thread t leaves of the others.
LEMMA OthersStay ==
    ASSUME DataInv, NEW t \in Threads, WriteState(t) \/ ReadIndex(t) \/ ReadPrevious(t) \/ SetHash(t)
    PROVE  /\ \A u \in Threads \ {t} : thread'[u] = thread[u]
           /\ WriteState(t) => thread'[t].at = "index"
           /\ ReadIndex(t) => thread'[t].at = "previous" /\ thread'[t].index = Len(entries)
           /\ ReadPrevious(t) => /\ thread'[t].at = "hash" /\ thread'[t].index = thread[t].index
                                 /\ thread'[t].previous = chain
           /\ SetHash(t) => /\ thread'[t].at = "list" /\ thread'[t].index = thread[t].index
                            /\ thread'[t].previous = thread[t].previous
                            /\ thread'[t].digest = Digest
<1>1. thread \in [Threads -> [at : Places, kind : CallKinds, index : Nat, previous : Nat, digest : Nat]]
  BY DEF DataInv, DataType, ThreadsOver
<1> HIDE DEF Digest
<1>2. \A u \in Threads \ {t} : thread'[u] = thread[u]
  BY <1>1 DEF WriteState, ReadIndex, ReadPrevious, SetHash
<1>3. WriteState(t) => thread'[t].at = "index"
  BY <1>1 DEF WriteState
<1>4. ReadIndex(t) => thread'[t].at = "previous" /\ thread'[t].index = Len(entries)
  BY <1>1 DEF ReadIndex
<1>5. ReadPrevious(t) => /\ thread'[t].at = "hash" /\ thread'[t].index = thread[t].index
                         /\ thread'[t].previous = chain
  BY <1>1 DEF ReadPrevious
<1>6. SetHash(t) => /\ thread'[t].at = "list" /\ thread'[t].index = thread[t].index
                    /\ thread'[t].previous = thread[t].previous
                    /\ thread'[t].digest = Digest
  BY <1>1 DEF SetHash
<1> QED
  BY <1>2, <1>3, <1>4, <1>5, <1>6

\* The steps of an append keep the chain, when it begins alone.
LEMMA StepKeepsChain ==
    ASSUME DataInv, ChainInv, NEW t \in Threads, Step(t),
           thread[t].at = "index" => \A u \in Threads : thread[u].at \notin InAppend
    PROVE  ChainInv'
<1>1. CASE WriteState(t)
  <2>1. /\ UNCHANGED <<entries, chain>> /\ thread'[t].at = "index" /\ thread[t].at = "write"
        /\ \A u \in Threads \ {t} : thread'[u] = thread[u]
    BY <1>1, OthersStay DEF WriteState, log
  <2>2. /\ \A u \in Threads : thread'[u].at \in InAppend => thread'[u] = thread[u]
        /\ \A u \in Threads : thread[u].at = "list" => thread'[u].at = "list"
    BY <2>1 DEF InAppend
  <2> QED
    BY <2>1, <2>2 DEF ChainInv, InAppend
<1>2. CASE ReadIndex(t)
  <2>1. /\ UNCHANGED <<entries, chain>> /\ thread'[t].at = "previous" /\ thread'[t].index = Len(entries)
        /\ \A u \in Threads \ {t} : thread'[u] = thread[u]
        /\ \A u \in Threads : thread[u].at \notin InAppend
    BY <1>2, OthersStay DEF ReadIndex, log
  <2>2. \A u \in Threads : thread'[u].at \in InAppend => u = t /\ thread'[u].at = "previous"
    BY <2>1
  <2>3. chain = HashOf(entries, Len(entries))
    BY <2>1 DEF ChainInv, InAppend
  <2> QED
    BY <2>1, <2>2, <2>3 DEF ChainInv, InAppend
<1>3. CASE ReadPrevious(t)
  <2>1. /\ UNCHANGED <<entries, chain>> /\ thread'[t].at = "hash" /\ thread[t].at = "previous"
        /\ thread'[t].index = thread[t].index /\ thread'[t].previous = chain
        /\ \A u \in Threads \ {t} : thread'[u] = thread[u]
    BY <1>3, OthersStay DEF ReadPrevious, log
  <2> QED
    BY <2>1 DEF ChainInv, InAppend
<1>4. CASE SetHash(t)
  <2>1. /\ entries' = entries /\ chain' = Digest /\ thread'[t].at = "list" /\ thread[t].at = "hash"
        /\ thread'[t].index = thread[t].index /\ thread'[t].previous = thread[t].previous
        /\ thread'[t].digest = Digest
        /\ \A u \in Threads \ {t} : thread'[u] = thread[u]
    BY <1>4, OthersStay DEF SetHash, log
  <2>2. \A u \in Threads \ {t} : thread[u].at \notin InAppend
    BY <2>1 DEF ChainInv, InAppend
  <2>3. thread[t].previous = HashOf(entries, Len(entries)) /\ thread[t].index = Len(entries)
    BY <2>1, <2>2 DEF ChainInv, InAppend
  <2> HIDE DEF Digest
  <2> QED
    BY <2>1, <2>2, <2>3 DEF ChainInv, InAppend
<1>5. CASE ListEntry(t)
  <2>1. /\ thread[t].at = "list" /\ entries' = Append(entries, Entry(t)) /\ chain' = chain
        /\ thread'[t].at \in {"row", "idle"}
        /\ \A u \in Threads \ {t} : thread'[u] = thread[u]
    BY <1>5 DEF ListEntry, Leave, Idle, DataInv, DataType, ThreadsOver
  <2>2. /\ Entry(t) \in Entries /\ Entry(t).index = Len(entries)
        /\ Entry(t).previous = HashOf(entries, Len(entries))
        /\ Entry(t).digest = Entry(t).hash /\ Entry(t).hash = chain
    BY <2>1, EntryType DEF Entry, ChainInv, InAppend
  <2>3. Verifies(entries') /\ HashOf(entries', Len(entries')) = chain'
    BY <2>1, <2>2, VerifiesAppend DEF ChainInv, DataInv, DataType
  <2>4. \A u \in Threads : thread'[u].at \notin InAppend
    BY <2>1 DEF ChainInv, InAppend
  <2> QED
    BY <2>3, <2>4 DEF ChainInv, InAppend
<1>6. CASE InsertRow(t)
  <2>1. thread[t].at \notin InAppend /\ (Die \/ (Leave(t) /\ UNCHANGED log))
    BY <1>6 DEF InsertRow, Raise, InAppend
  <2> QED
    BY <2>1, DeathKeepsChain, LeavingKeepsChain
<1> QED
  BY <1>1, <1>2, <1>3, <1>4, <1>5, <1>6 DEF Step

\* A server with a table is called from one thread.
LEMMA OneCaller ==
    ASSUME DataInv, persistent, NEW t \in Threads, thread[t].at # "idle"
    PROVE  t = Main
BY DEF DataInv, IInv, LockInv, Idle

\* A call begun keeps the chain.
LEMMA CallKeepsChain ==
    ASSUME DataInv, NEW t \in Threads, NEW kind \in {"change", "advice", "ready"}, Call(t, kind)
    PROVE  /\ ChainInv => ChainInv'
           /\ persistent /\ Covered => Covered'
           /\ persistent /\ Missed => Missed'
<1>1. /\ UNCHANGED <<entries, chain, table>> /\ thread[t].at = "idle"
      /\ thread'[t].at \in {"write", "index"}
      /\ \A u \in Threads \ {t} : thread'[u] = thread[u]
  BY DEF Call, log, Idle, DataInv, DataType, ThreadsOver
<1>2. ChainInv => ChainInv'
  BY <1>1 DEF ChainInv, InAppend
<1>3. \A u \in Threads : thread'[u].at = "row" => thread[u].at = "row" /\ thread'[u] = thread[u]
  BY <1>1
<1>4. Covered => Covered'
  BY <1>1, <1>3 DEF Covered, Entry, RowIndex
<1>5. Missed => Missed'
  BY <1>1, <1>3 DEF Missed, RowIndex
<1> QED
  BY <1>2, <1>4, <1>5

\* A call left without inserting its row changes neither log nor table.
LEMMA LeavingKeepsCover ==
    ASSUME DataInv, NEW t \in Threads, Leave(t), UNCHANGED <<entries, chain, table>>
    PROVE  (Covered => Covered') /\ (Missed => Missed')
<1>1. \A u \in Threads : thread'[u].at = "row" => thread[u].at = "row" /\ thread'[u] = thread[u]
  BY DEF Leave, Idle, DataInv, DataType, ThreadsOver
<1>2. Covered => Covered'
  BY <1>1 DEF Covered, Entry, RowIndex
<1>3. Missed => Missed'
  BY <1>1 DEF Missed, RowIndex
<1> QED
  BY <1>2, <1>3

\* A step of the one thread of a server with a table leaves no other at
\* anything.
LEMMA OthersIdle ==
    ASSUME DataInv, persistent, NEW t \in Threads, Step(t)
    PROVE  /\ thread[t].at # "idle"
           /\ \A u \in Threads \ {t} :
                thread[u].at = "idle" /\ (thread'[u] = thread[u] \/ Die)
<1>1. thread[t].at # "idle"
  BY DEF Step, WriteState, ReadIndex, ReadPrevious, SetHash, ListEntry, InsertRow
<1>2. \A u \in Threads \ {t} : thread[u].at = "idle"
  BY <1>1, OneCaller
<1>3. Die \/ \A u \in Threads \ {t} : thread'[u] = thread[u]
  BY DEF Step, WriteState, ReadIndex, ReadPrevious, SetHash, ListEntry, InsertRow, Raise, Leave,
         DataInv, DataType, ThreadsOver
<1> QED
  BY <1>1, <1>2, <1>3

\* A row inserted is the last entry.
LEMMA StepKeepsCovered ==
    ASSUME DataInv, persistent, Covered, NEW t \in Threads, Step(t), ~NotStarted'
    PROVE  Covered'
<1>1. ~Die
  BY DEF Die, NotStarted
<1>2. thread[t].at # "idle" /\ \A u \in Threads \ {t} : thread[u].at = "idle" /\ thread'[u] = thread[u]
  BY <1>1, OthersIdle
<1>3. CASE WriteState(t) \/ ReadIndex(t) \/ ReadPrevious(t) \/ SetHash(t)
  <2>1. UNCHANGED <<entries, table>> /\ thread'[t].at # "row"
    BY <1>3, OthersStay DEF WriteState, ReadIndex, ReadPrevious, SetHash, log
  <2>2. \A u \in Threads : thread'[u].at # "row"
    BY <1>2, <2>1
  <2> QED
    BY <2>1, <2>2 DEF Covered
<1>4. CASE ListEntry(t)
  <2>1. /\ thread[t].at = "list" /\ entries' = Append(entries, Entry(t))
        /\ UNCHANGED <<chain, table>>
        /\ thread' = [thread EXCEPT ![t].at = "row"]
    BY <1>4 DEF ListEntry
  <2>2. /\ Entry(t) \in Entries /\ Entry(t)' = Entry(t)
        /\ entries \in Seq(Entries) /\ Len(entries) \in Nat
    BY <2>1, EntryType DEF Entry, DataInv, DataType, ThreadsOver
  <2> DEFINE x == Entry(t)
  <2>3. x \in Entries /\ entries' = Append(entries, x)
    BY <2>1, <2>2
  <2> HIDE DEF x
  <2>4. /\ Len(entries') = Len(entries) + 1 /\ entries'[Len(entries) + 1] = x
        /\ \A i \in 1 .. Len(entries) : entries'[i] = entries[i]
    BY <2>2, <2>3
  <2>5. \A i \in DOMAIN table : i \in Nat /\ i + 1 <= Len(entries) /\ table[i] = entries[i + 1]
    BY DEF Covered, DataInv, DataType
  <2>6. \A i \in DOMAIN table' : i + 1 <= Len(entries') /\ table'[i] = entries'[i + 1]
    BY <2>1, <2>2, <2>4, <2>5
  <2>7. Entry(t)' = entries'[Len(entries')] /\ RowIndex' \notin DOMAIN table'
    BY <2>1, <2>2, <2>4, <2>5 DEF RowIndex, x
  <2>8. \A u \in Threads : thread'[u].at = "row" => u = t
    BY <1>2
  <2> QED
    BY <2>6, <2>7, <2>8 DEF Covered
<1>5. CASE InsertRow(t)
  <2>1. /\ thread[t].at = "row" /\ Entry(t) = entries[Len(entries)] /\ RowIndex \notin DOMAIN table
        /\ entries # <<>> /\ entries \in Seq(Entries)
    BY <1>5 DEF InsertRow, Covered, DataInv, PlaceInv, DataType
  <2>2. /\ table' = [i \in DOMAIN table \union {RowIndex} |->
                        IF i = RowIndex THEN Entry(t) ELSE table[i]]
        /\ entries' = entries /\ thread'[t].at = "idle"
    BY <1>5, <2>1 DEF InsertRow, Leave, log, Idle, DataInv, DataType, ThreadsOver
  <2>3. RowIndex + 1 = Len(entries) /\ Len(entries) \in Nat
    BY <2>1 DEF RowIndex
  <2>4. \A i \in DOMAIN table' : i + 1 <= Len(entries') /\ table'[i] = entries'[i + 1]
    BY <2>1, <2>2, <2>3 DEF Covered
  <2>5. \A u \in Threads : thread'[u].at # "row"
    BY <1>2, <2>2
  <2> QED
    BY <2>4, <2>5 DEF Covered
<1> QED
  BY <1>3, <1>4, <1>5 DEF Step

\* What is missing stays missing.
LEMMA StepKeepsMissed ==
    ASSUME DataInv, persistent, Missed, NEW t \in Threads, Step(t), ~NotStarted'
    PROVE  Missed'
<1>1. ~Die
  BY DEF Die, NotStarted
<1>2. thread[t].at # "idle" /\ \A u \in Threads \ {t} : thread[u].at = "idle" /\ thread'[u] = thread[u]
  BY <1>1, OthersIdle
<1>3. PICK g \in Nat : /\ g \notin DOMAIN table /\ g < Len(entries)
                       /\ thread[t].at = "row" => g < RowIndex
  BY DEF Missed
<1>4. CASE WriteState(t) \/ ReadIndex(t) \/ ReadPrevious(t) \/ SetHash(t)
  <2>1. UNCHANGED <<entries, table>> /\ thread'[t].at # "row"
    BY <1>4, OthersStay DEF WriteState, ReadIndex, ReadPrevious, SetHash, log
  <2>2. \A u \in Threads : thread'[u].at # "row"
    BY <1>2, <2>1
  <2> QED
    BY <1>3, <2>1, <2>2 DEF Missed
<1>5. CASE ListEntry(t)
  <2>1. table' = table /\ Entry(t) \in Entries /\ entries' = Append(entries, Entry(t))
        /\ entries \in Seq(Entries)
    BY <1>5, EntryType DEF ListEntry, DataInv, DataType
  <2> HIDE DEF Entry
  <2>2. Len(entries') = Len(entries) + 1 /\ Len(entries) \in Nat
    BY <2>1
  <2>3. g < Len(entries') /\ g < RowIndex'
    BY <1>3, <2>2 DEF RowIndex
  <2> QED
    BY <1>3, <2>1, <2>3 DEF Missed
<1>6. CASE InsertRow(t)
  <2>1. thread[t].at = "row" /\ g < RowIndex
    BY <1>3, <1>6 DEF InsertRow
  <2>2. /\ DOMAIN table' \subseteq DOMAIN table \union {RowIndex}
        /\ entries' = entries /\ thread'[t].at = "idle"
    BY <1>1, <1>6 DEF InsertRow, Raise, Leave, log, Idle, DataInv, DataType, ThreadsOver
  <2>3. RowIndex \in Int
    BY DEF RowIndex, DataInv, DataType
  <2>4. g \notin DOMAIN table'
    BY <1>3, <2>1, <2>2, <2>3
  <2>5. \A u \in Threads : thread'[u].at # "row"
    BY <1>2, <2>2
  <2> QED
    BY <1>3, <2>2, <2>4, <2>5 DEF Missed
<1> QED
  BY <1>4, <1>5, <1>6 DEF Step

-----------------------------------------------------------------------------

\* The rows of a table that a verified log covers verify.
LEMMA CoveredIsDurable ==
    ASSUME NEW es \in Seq(Entries), NEW rows, DOMAIN rows \subseteq Nat, Verifies(es),
           \A i \in DOMAIN rows : i + 1 <= Len(es) /\ rows[i] = es[i + 1],
           NEW n \in DOMAIN rows, 0 .. n \subseteq DOMAIN rows
    PROVE  Verifies([i \in 1 .. n + 1 |-> rows[i - 1]])
<1> DEFINE q == [i \in 1 .. n + 1 |-> rows[i - 1]]
<1>1. n \in Nat /\ Len(es) \in Nat /\ n + 1 <= Len(es)
  OBVIOUS
<1>2. ASSUME NEW i \in 1 .. n + 1 PROVE q[i] = es[i]
  <2>1. i - 1 \in DOMAIN rows /\ (i - 1) + 1 = i
    BY <1>1
  <2> QED
    BY <2>1
<1>3. Len(q) = n + 1
  BY <1>1
<1> HIDE DEF q
<1>4. ASSUME NEW i \in 1 .. n + 1
      PROVE  q[i].index = i - 1 /\ q[i].previous = HashOf(q, i - 1) /\ q[i].digest = q[i].hash
  <2>1. i \in 1 .. Len(es)
    BY <1>1
  <2>2. HashOf(q, i - 1) = HashOf(es, i - 1)
    BY <1>1, <1>2 DEF HashOf
  <2> QED
    BY <1>2, <2>1, <2>2 DEF Verifies
<1>5. Verifies(q)
  BY <1>3, <1>4 DEF Verifies
<1> QED
  BY <1>5 DEF q

\* A row behind a missing one is no part of what has to verify.
LEMMA MissedIsDurable ==
    ASSUME DataInv, DurableChainVerifies, Missed, NEW t \in Threads, InsertRow(t)
    PROVE  DurableChainVerifies'
<1>1. PICK g \in Nat : g \notin DOMAIN table /\ g < RowIndex
  BY DEF Missed, InsertRow
<1>2. RowIndex \in Int /\ DOMAIN table \subseteq Nat
  BY DEF RowIndex, DataInv, DataType
<1>3. \/ table' = table
      \/ table' = [i \in DOMAIN table \union {RowIndex} |->
                      IF i = RowIndex THEN Entry(t) ELSE table[i]]
  BY DEF InsertRow
<1> SUFFICES ASSUME NEW n \in DOMAIN table', 0 .. n \subseteq DOMAIN table'
             PROVE  Verifies([i \in 1 .. n + 1 |-> table'[i - 1]])
  BY DEF DurableChainVerifies, Verifies, HashOf
<1>4. n \in Int /\ n < g
  <2>1. g \notin DOMAIN table' /\ DOMAIN table' \subseteq Int
    BY <1>1, <1>2, <1>3
  <2> QED
    BY <2>1
<1>5. n \in DOMAIN table /\ 0 .. n \subseteq DOMAIN table
  BY <1>1, <1>2, <1>3, <1>4
<1>6. \A i \in 1 .. n + 1 : table'[i - 1] = table[i - 1]
  BY <1>1, <1>2, <1>3, <1>4, <1>5
<1>7. [i \in 1 .. n + 1 |-> table'[i - 1]] = [i \in 1 .. n + 1 |-> table[i - 1]]
  BY <1>6
<1>8. Verifies([i \in 1 .. n + 1 |-> table[i - 1]])
  BY <1>5 DEF DurableChainVerifies
<1> QED
  BY <1>7, <1>8

\* A start loads a verified log, or one with a row missing.
LEMMA RestartKeepsLog ==
    ASSUME DataInv, LogInv, Restart
    PROVE  LogInv'
<1> DEFINE N == Cardinality(DOMAIN table)
<1>1. /\ entries' = Loaded /\ chain' = ChainLoaded
      /\ UNCHANGED <<persistent, thread, table>>
      /\ gapped' = (gapped \/ DOMAIN table # 0 .. N - 1)
      /\ persistent /\ \A t \in Threads : thread[t].at = "idle"
  BY DEF Restart, DataInv, PlaceInv, NotStarted, Idle
<1>2. Loaded \in Seq(Entries) /\ Len(Loaded) = N /\ N \in Nat
  BY LoadedType DEF DataInv
<1>3. DurableChainVerifies'
  BY <1>1 DEF LogInv, DurableChainVerifies
<1>4. CASE DOMAIN table = 0 .. N - 1
  <2>1. \A n \in 1 .. N : Loaded[n] = table[n - 1]
    BY <1>4, LoadedWhenWhole DEF DataInv
  <2>2. Verifies(Loaded)
    <3>1. CASE N = 0
      BY <1>2, <3>1 DEF Verifies
    <3>2. CASE N # 0
      <4>1. N - 1 \in DOMAIN table /\ 0 .. N - 1 \subseteq DOMAIN table
        BY <1>2, <1>4, <3>2
      <4>2. Verifies([i \in 1 .. (N - 1) + 1 |-> table[i - 1]])
        BY <4>1 DEF LogInv, DurableChainVerifies
      <4>3. Loaded = [i \in 1 .. (N - 1) + 1 |-> table[i - 1]]
        <5>1. DOMAIN Loaded = 1 .. N
          BY DEF Loaded
        <5>2. 1 .. (N - 1) + 1 = 1 .. N
          BY <1>2
        <5>3. Loaded = [i \in 1 .. N |-> Loaded[i]]
          BY <5>1 DEF Loaded
        <5> QED
          BY <2>1, <5>2, <5>3
      <4> QED
        BY <4>2, <4>3
    <3> QED
      BY <3>1, <3>2
  <2>3. ChainInv'
    BY <1>1, <1>2, <2>2 DEF ChainInv, ChainLoaded, InAppend
  <2>4. ASSUME NEW i \in DOMAIN table PROVE i + 1 <= Len(Loaded) /\ table[i] = Loaded[i + 1]
    <3>1. i + 1 \in 1 .. N /\ (i + 1) - 1 = i
      BY <1>2, <1>4
    <3> QED
      BY <1>2, <2>1, <3>1
  <2>5. Covered'
    BY <1>1, <2>4 DEF Covered
  <2> QED
    BY <1>1, <1>3, <2>3, <2>5 DEF LogInv
<1>5. CASE DOMAIN table # 0 .. N - 1
  <2>1. \E g \in 0 .. N - 1 : g \notin DOMAIN table
    <3> SUFFICES ASSUME 0 .. N - 1 \subseteq DOMAIN table PROVE FALSE
      OBVIOUS
    <3> DEFINE c == N - 1
    <3>1. c \in Int /\ (0 > c => N = 0) /\ c - 0 + 1 = N
      BY <1>2
    <3> HIDE DEF c
    <3>2. Cardinality(0 .. c) = N
      BY <3>1, FS_Interval
    <3> QED
      BY <1>5, <3>2, FS_Subset DEF c, DataInv, DataType
  <2>2. Missed'
    BY <1>1, <1>2, <2>1 DEF Missed
  <2> QED
    BY <1>1, <1>3, <1>5, <2>2 DEF LogInv
<1> QED
  BY <1>4, <1>5

\* The steps of an append keep the log.
LEMMA StepKeepsLog ==
    ASSUME DataInv, LogInv, NEW t \in Threads, Step(t)
    PROVE  LogInv'
<1>1. /\ persistent' = persistent /\ persistent \in BOOLEAN /\ gapped' = gapped
      /\ overlapped' = overlapped
           \/ (ReadIndex(t) /\ overlapped' = (overlapped \/ \E u \in Threads : thread[u].at \in InAppend))
  BY DEF Step, WriteState, ReadIndex, ReadPrevious, SetHash, ListEntry, InsertRow, history,
         DataInv, IInv, LockInv
<1>2. CASE ~persistent
  <2>1. table' = table
    <3>1. ~InsertRow(t)
      BY <1>2 DEF InsertRow, DataInv, PlaceInv
    <3> QED
      BY <3>1 DEF Step, WriteState, ReadIndex, ReadPrevious, SetHash, ListEntry
  <2>2. DurableChainVerifies'
    BY <2>1 DEF LogInv, DurableChainVerifies
  <2>3. overlapped' \/ ChainInv'
    <3>1. CASE overlapped
      BY <1>1, <3>1
    <3>2. CASE ~overlapped /\ thread[t].at = "index" /\ \E u \in Threads : thread[u].at \in InAppend
      <4>1. ReadIndex(t)
        BY <3>2 DEF Step, WriteState, ReadPrevious, SetHash, ListEntry, InsertRow
      <4> QED
        BY <3>2, <4>1 DEF ReadIndex
    <3>3. CASE ~overlapped /\ (thread[t].at = "index" => \A u \in Threads : thread[u].at \notin InAppend)
      BY <1>2, <3>3, StepKeepsChain DEF LogInv
    <3> QED
      BY <3>1, <3>2, <3>3
  <2> QED
    BY <1>1, <1>2, <2>2, <2>3 DEF LogInv
<1>3. CASE persistent
  <2>1. thread[t].at # "idle" /\ \A u \in Threads \ {t} : thread[u].at = "idle"
    BY <1>3, OneCaller DEF Step, WriteState, ReadIndex, ReadPrevious, SetHash, ListEntry, InsertRow
  <2>2. thread[t].at = "index" => \A u \in Threads : thread[u].at \notin InAppend
    BY <2>1 DEF InAppend
  <2>3. ~NotStarted
    BY <2>1, BusyMeansStarted
  <2>4. (ChainInv /\ Covered) \/ (gapped /\ Missed)
    BY <1>3, <2>3 DEF LogInv
  <2>5. ~NotStarted' => (ChainInv' /\ Covered') \/ (gapped' /\ Missed')
    BY <1>1, <1>3, <2>2, <2>4, StepKeepsChain, StepKeepsCovered, StepKeepsMissed
  <2>6. DurableChainVerifies'
    <3>1. CASE table' = table
      BY <3>1 DEF LogInv, DurableChainVerifies
    <3>2. CASE table' # table
      <4>1. InsertRow(t)
        BY <3>2 DEF Step, WriteState, ReadIndex, ReadPrevious, SetHash, ListEntry
      <4>2. CASE ChainInv /\ Covered
        <5>1. ~NotStarted'
          <6>1. mode' \in {mode, "up"}
            BY <3>2, <4>1 DEF InsertRow
          <6> QED
            BY <2>3, <6>1 DEF NotStarted
        <5>2. ChainInv' /\ Covered'
          BY <1>3, <2>2, <4>2, <5>1, StepKeepsChain, StepKeepsCovered
        <5>3. DataType'
          BY StepKeepsData
        <5> QED
          <6>1. /\ entries' \in Seq(Entries) /\ DOMAIN table' \subseteq Nat /\ Verifies(entries')
                /\ \A i \in DOMAIN table' : i + 1 <= Len(entries') /\ table'[i] = entries'[i + 1]
            BY <5>2, <5>3 DEF ChainInv, Covered, DataType, Verifies, HashOf
          <6>2. ASSUME NEW n \in DOMAIN table', 0 .. n \subseteq DOMAIN table'
                PROVE  Verifies([i \in 1 .. n + 1 |-> table'[i - 1]])
            BY <6>1, <6>2, CoveredIsDurable
          <6> QED
            BY <6>2 DEF DurableChainVerifies, Verifies, HashOf
      <4>3. CASE Missed
        BY <4>1, <4>3, MissedIsDurable DEF LogInv
      <4> QED
        BY <2>4, <4>2, <4>3
    <3> QED
      BY <3>1, <3>2
  <2> QED
    BY <1>1, <1>3, <2>5, <2>6 DEF LogInv
<1> QED
  BY <1>1, <1>2, <1>3

\* Every step keeps the log.
LEMMA LogStep == DataInv /\ LogInv /\ [Next]_vars => LogInv'
<1> SUFFICES ASSUME DataInv, LogInv, [Next]_vars PROVE LogInv'
  OBVIOUS
<1>1. ASSUME NEW t \in Threads, NEW kind \in {"change", "advice", "ready"}, Call(t, kind)
      PROVE  LogInv'
  <2>1. UNCHANGED <<persistent, mode, table, overlapped, gapped>>
    BY <1>1 DEF Call, history
  <2>2. DurableChainVerifies'
    BY <2>1 DEF LogInv, DurableChainVerifies
  <2> QED
    BY <1>1, <2>1, <2>2, CallKeepsChain DEF LogInv, NotStarted
<1>2. ASSUME NEW t \in Threads, Fail(t)
      PROVE  LogInv'
  <2>1. /\ persistent /\ Raise(t) /\ UNCHANGED <<persistent, table, overlapped, gapped>>
        /\ mode = "up" => thread[t].at \notin InAppend
    BY <1>2 DEF Fail, InAppend
  <2>2. DurableChainVerifies'
    BY <2>1 DEF LogInv, DurableChainVerifies
  <2>3. CASE mode # "up"
    BY <2>1, <2>2, <2>3 DEF Raise, Die, LogInv, NotStarted
  <2>4. CASE mode = "up"
    <3>1. Leave(t) /\ UNCHANGED <<mode, log>> /\ UNCHANGED <<entries, chain, table>>
      BY <2>1, <2>4 DEF Raise, log
    <3> QED
      BY <2>1, <2>2, <2>4, <3>1, LeavingKeepsChain, LeavingKeepsCover DEF LogInv, NotStarted
  <2> QED
    BY <2>3, <2>4
<1>3. CASE Crash \/ Open \/ Migrate \/ RecordVersion
  <2>1. UNCHANGED <<persistent, table>> /\ NotStarted' /\ persistent
    BY <1>3 DEF Crash, Open, Migrate, RecordVersion, Die, NotStarted, DataInv, PlaceInv
  <2>2. DurableChainVerifies'
    BY <2>1 DEF LogInv, DurableChainVerifies
  <2> QED
    BY <2>1, <2>2 DEF LogInv
<1>4. CASE UNCHANGED vars
  <2>1. UNCHANGED <<persistent, mode, thread, entries, chain, table, overlapped, gapped>>
    BY <1>4 DEF vars, log, history
  <2> QED
    BY <2>1 DEF LogInv, ChainInv, Covered, Missed, Entry, RowIndex, NotStarted, DurableChainVerifies
<1> QED
  BY <1>1, <1>2, <1>3, <1>4, StepKeepsLog, RestartKeepsLog DEF Next

LEMMA LogHolds == Spec => [](DataInv /\ LogInv)
<1>1. ASSUME Init PROVE LogInv
  <2>1. /\ entries = <<>> /\ chain = Genesis /\ DOMAIN table = {}
        /\ \A t \in Threads : thread[t].at = "idle"
        /\ persistent => NotStarted
    BY <1>1 DEF Init, Idle, NotStarted
  <2>2. ChainInv
    BY <2>1 DEF ChainInv, Verifies, HashOf, InAppend
  <2> QED
    BY <2>1, <2>2 DEF LogInv, DurableChainVerifies
<1> QED
  BY <1>1, DataInitial, DataStep, LogStep, PTL DEF Spec

\* The log of a running server verifies, over any number of threads, appends,
\* crashes and refused statements, unless appends overlapped or a start
\* loaded a gap (AuditLog.append, AuditLog.verify).
THEOREM LiveChainVerifiesHolds == Spec => []LiveChainVerifies
<1>1. ASSUME DataInv, LogInv PROVE LiveChainVerifies
  <2>1. CASE NotStarted
    BY <1>1, <2>1 DEF DataInv, PlaceInv, LiveChainVerifies, Verifies
  <2>2. CASE ~NotStarted
    BY <1>1, <2>2 DEF DataInv, IInv, LockInv, LogInv, ChainInv, LiveChainVerifies
  <2> QED
    BY <2>1, <2>2
<1> QED
  BY <1>1, LogHolds, PTL

\* The rows of the table up to the first missing one always verify.
THEOREM DurableChainVerifiesHolds == Spec => []DurableChainVerifies
<1>1. LogInv => DurableChainVerifies
  BY DEF LogInv
<1> QED
  BY <1>1, LogHolds, PTL

-----------------------------------------------------------------------------

Between == \E t \in Threads : thread[t].kind = "change" /\ thread[t].at # "write"

\* A row inserted counts when it is that of a state change.
LEMMA AuditedGrows ==
    ASSUME DataType, NEW r, r \notin DOMAIN table, NEW e,
           table' = [i \in DOMAIN table \union {r} |-> IF i = r THEN e ELSE table[i]]
    PROVE  Audited' = IF e.kind = "change" THEN Audited + 1 ELSE Audited
<1> DEFINE C == {i \in DOMAIN table : table[i].kind = "change"}
           D == {i \in DOMAIN table' : table'[i].kind = "change"}
<1>1. D = IF e.kind = "change" THEN C \union {r} ELSE C
  OBVIOUS
<1>2. r \notin C
  OBVIOUS
<1>3. IsFiniteSet(C)
  BY FS_Subset DEF DataType
<1>4. Audited = Cardinality(C) /\ Audited' = Cardinality(D)
  BY DEF Audited
<1> HIDE DEF C, D
<1>5. Cardinality(C \union {r}) = Cardinality(C) + 1
  BY <1>2, <1>3, FS_AddElement
<1> QED
  BY <1>1, <1>4, <1>5

\* How many rows there are is a number.
LEMMA AuditedIsANumber == ASSUME DataType PROVE Audited \in Nat
<1>1. IsFiniteSet({i \in DOMAIN table : table[i].kind = "change"})
  BY FS_Subset DEF DataType
<1> QED
  BY <1>1, FS_CardinalityType DEF Audited

\* A step of an append moves a state change from being written to being
\* without its row, and from there to having it.
LEMMA StepKeepsBound ==
    ASSUME DataInv, LogInv, persistent, ~gapped, NEW t \in Threads, Step(t),
           written <= Audited + InBetween + crashes + failed
    PROVE  written' <= Audited' + InBetween' + crashes' + failed'
<1> DEFINE audited == Audited'
           between == InBetween'
<1> SUFFICES written' <= audited + between + crashes' + failed'
  OBVIOUS
<1> HIDE DEF audited, between
<1>1. /\ Audited \in Nat /\ written \in Nat /\ crashes \in Nat /\ failed \in Nat
      /\ crashes' = crashes /\ failed' = failed
  BY AuditedIsANumber DEF DataInv, DataType, Step, WriteState, ReadIndex, ReadPrevious, SetHash,
     ListEntry, InsertRow, history
<1>2. /\ t = Main /\ thread[t].at # "idle" /\ thread \in ThreadsOver(Nat)
      /\ \A u \in Threads \ {t} : thread[u].kind # "change"
  <2>1. thread[t].at # "idle"
    BY DEF Step, WriteState, ReadIndex, ReadPrevious, SetHash, ListEntry, InsertRow
  <2>2. t = Main
    BY <2>1, OneCaller
  <2>3. \A u \in Threads \ {t} : thread[u] = Idle
    BY <2>2 DEF DataInv, IInv, LockInv
  <2> QED
    BY <2>1, <2>2, <2>3 DEF Idle, DataInv, DataType
<1>3. InBetween = (IF thread[t].kind = "change" /\ thread[t].at # "write" THEN 1 ELSE 0)
  <2>1. Between <=> thread[t].kind = "change" /\ thread[t].at # "write"
    BY <1>2 DEF Between
  <2> QED
    BY <2>1 DEF InBetween, Between
<1>4. CASE WriteState(t)
  <2>1. /\ thread[t].at = "write" /\ written' = written + 1 /\ table' = table
        /\ thread'[t].kind = thread[t].kind /\ thread'[t].at = "index"
    BY <1>2, <1>4 DEF WriteState, ThreadsOver
  <2>2. InBetween = 0 /\ thread[t].kind = "change"
    BY <1>3, <2>1 DEF DataInv, PlaceInv
  <2>3. between = 1
    <3>1. thread'[t].kind = "change" /\ thread'[t].at # "write"
      BY <2>1, <2>2
    <3> QED
      BY <3>1 DEF InBetween, between
  <2>4. audited = Audited
    BY <2>1 DEF Audited, audited
  <2> QED
    BY <1>1, <2>1, <2>2, <2>3, <2>4
<1>5. CASE ReadIndex(t) \/ ReadPrevious(t) \/ SetHash(t) \/ ListEntry(t)
  <2>1. /\ written' = written /\ table' = table
        /\ thread'[t].kind = thread[t].kind /\ thread'[t].at # "write" /\ thread[t].at # "write"
    <3>1. CASE ReadIndex(t)
      BY <1>2, <3>1 DEF ReadIndex, ThreadsOver
    <3>2. CASE ReadPrevious(t)
      BY <1>2, <3>2 DEF ReadPrevious, ThreadsOver, history
    <3>3. CASE SetHash(t)
      BY <1>2, <3>3 DEF SetHash, ThreadsOver, history
    <3>4. CASE ListEntry(t)
      BY <1>2, <3>4 DEF ListEntry, ThreadsOver, history
    <3> QED
      BY <1>5, <3>1, <3>2, <3>3, <3>4
  <2>2. between >= InBetween
    <3>1. CASE thread[t].kind = "change"
      <4>1. thread'[t].kind = "change" /\ thread'[t].at # "write"
        BY <2>1, <3>1
      <4> QED
        BY <1>3, <4>1 DEF InBetween, between
    <3>2. CASE thread[t].kind # "change"
      BY <1>3, <3>2 DEF InBetween, between
    <3> QED
      BY <3>1, <3>2
  <2>3. audited = Audited /\ InBetween \in Nat /\ between \in Nat
    BY <2>1 DEF Audited, InBetween, audited, between
  <2> QED
    BY <1>1, <2>1, <2>2, <2>3
<1>6. CASE InsertRow(t)
  <2>1. thread[t].at = "row" /\ written' = written /\ RowIndex \notin DOMAIN table
    BY <1>2, <1>6, BusyMeansStarted DEF InsertRow, LogInv, Covered, history
  <2>2. table' = [i \in DOMAIN table \union {RowIndex} |->
                     IF i = RowIndex THEN Entry(t) ELSE table[i]]
    BY <1>6, <2>1 DEF InsertRow
  <2>3. audited = IF Entry(t).kind = "change" THEN Audited + 1 ELSE Audited
    BY <2>1, <2>2, AuditedGrows DEF DataInv, audited
  <2>4. Entry(t).kind = thread[t].kind
    BY DEF Entry
  <2>5. InBetween = (IF thread[t].kind = "change" THEN 1 ELSE 0) /\ between \in Nat
    BY <1>3, <2>1 DEF InBetween, between
  <2> QED
    BY <1>1, <2>1, <2>3, <2>4, <2>5
<1> QED
  BY <1>4, <1>5, <1>6 DEF Step

\* Every other step that ends a call is counted.
LEMMA BoundStep == DataInv /\ LogInv /\ UnauditedBounded /\ [Next]_vars => UnauditedBounded'
<1> SUFFICES ASSUME DataInv, LogInv, UnauditedBounded, [Next]_vars, persistent', ~gapped'
             PROVE  written' <= Audited' + InBetween' + crashes' + failed'
  BY DEF UnauditedBounded
<1> DEFINE audited == Audited'
           between == InBetween'
<1> SUFFICES written' <= audited + between + crashes' + failed'
  OBVIOUS
<1> HIDE DEF audited, between
<1>1. persistent /\ ~gapped
  <2>1. CASE UNCHANGED vars
    BY <2>1 DEF vars, history
  <2>2. CASE \E t \in Threads : Step(t)
    <3>1. persistent' = persistent /\ gapped' = gapped
      BY <2>2 DEF Step, WriteState, ReadIndex, ReadPrevious, SetHash, ListEntry, InsertRow, history
    <3> QED
      BY <3>1
  <2>3. CASE \E t \in Threads : Fail(t) \/ \E kind \in {"change", "advice", "ready"} : Call(t, kind)
    <3>1. persistent' = persistent /\ gapped' = gapped
      BY <2>3 DEF Call, Fail, history
    <3> QED
      BY <3>1
  <2>4. CASE Crash \/ Open \/ Migrate \/ RecordVersion
    <3>1. persistent' = persistent /\ gapped' = gapped
      BY <2>4 DEF Crash, Open, Migrate, RecordVersion, history
    <3> QED
      BY <3>1
  <2>5. CASE Restart
    <3>1. persistent' = persistent /\ (gapped => gapped')
      BY <2>5, Zenon DEF Restart
    <3> QED
      BY <3>1
  <2> QED
    BY <2>1, <2>2, <2>3, <2>4, <2>5 DEF Next
<1>2. /\ written <= Audited + InBetween + crashes + failed
      /\ Audited \in Nat /\ written \in Nat /\ crashes \in Nat /\ failed \in Nat
      /\ InBetween \in {0, 1} /\ between \in {0, 1}
  BY <1>1, AuditedIsANumber DEF UnauditedBounded, DataInv, DataType, InBetween, between
<1>3. ASSUME NEW t \in Threads, NEW kind \in {"change", "advice", "ready"}, Call(t, kind)
      PROVE  written' <= audited + between + crashes' + failed'
  <2>1. /\ UNCHANGED <<table, written, crashes, failed>> /\ thread[t].kind = "none"
        /\ \A u \in Threads \ {t} : thread'[u] = thread[u]
    BY <1>3 DEF Call, history, Idle, DataInv, DataType, ThreadsOver
  <2>2. Between => Between'
    BY <2>1 DEF Between
  <2>3. audited = Audited
    BY <2>1 DEF Audited, audited
  <2> QED
    BY <1>2, <2>1, <2>2, <2>3 DEF InBetween, Between, between
<1>4. ASSUME NEW t \in Threads, Fail(t)
      PROVE  written' <= audited + between + crashes' + failed'
  <2>1. UNCHANGED <<table, written, crashes>> /\ failed' = failed + 1
    BY <1>4 DEF Fail
  <2>2. audited = Audited
    BY <2>1 DEF Audited, audited
  <2> QED
    BY <1>2, <2>1, <2>2
<1>5. CASE Crash
  <2>1. UNCHANGED <<table, written, failed>> /\ crashes' = crashes + 1
    BY <1>5 DEF Crash
  <2>2. audited = Audited
    BY <2>1 DEF Audited, audited
  <2> QED
    BY <1>2, <2>1, <2>2
<1>6. CASE Open \/ Migrate \/ RecordVersion \/ Restart
  <2>1. UNCHANGED <<table, written, crashes, failed>> /\ NotStarted
    BY <1>6 DEF Open, Migrate, RecordVersion, Restart, history, NotStarted
  <2>2. InBetween = 0
    BY <2>1 DEF DataInv, PlaceInv, InBetween, Idle
  <2>3. audited = Audited
    BY <2>1 DEF Audited, audited
  <2> QED
    BY <1>2, <2>1, <2>2, <2>3
<1>8. ASSUME NEW t \in Threads, Step(t)
      PROVE  written' <= audited + between + crashes' + failed'
  BY <1>1, <1>2, <1>8, StepKeepsBound DEF audited, between
<1>7. CASE UNCHANGED vars
  BY <1>2, <1>7 DEF vars, history, Audited, InBetween, audited, between
<1> QED
  BY <1>1, <1>2, <1>3, <1>4, <1>5, <1>6, <1>7, <1>8 DEF Next

\* A crash or a refused statement costs the audit trail one state change at
\* most, over any number of them, until a start loads a gap: everything else
\* that was written to the database has its row when the call returns
\* (FleetServer._persist, AuditLog.append).
THEOREM UnauditedBoundedHolds == Spec => []UnauditedBounded
<1>1. ASSUME Init PROVE UnauditedBounded
  <2>1. written = 0 /\ crashes = 0 /\ failed = 0
    BY <1>1 DEF Init
  <2>2. Audited \in Nat /\ InBetween \in Nat
    BY <1>1, DataInitial, AuditedIsANumber DEF DataInv, InBetween
  <2> QED
    BY <2>1, <2>2 DEF UnauditedBounded
<1> QED
  BY <1>1, BoundStep, LogHolds, PTL DEF Spec

=============================================================================
