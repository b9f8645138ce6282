---------------------------- MODULE AuditLogProofs ----------------------------
(***************************************************************************)
(* Proofs about AuditLog for any number of processes, threads, runs, rows  *)
(* and calls. Every hash stored is the hash of a row of the log or the     *)
(* genesis (Chained); a writer past its SELECT holds such a hash too       *)
(* (SelectedOK), which the rows of its own process do not continue.        *)
(***************************************************************************)
EXTENDS AuditLog, SequenceTheorems, TLAPS

\* A hash that a row of the log, of the first n, can be chained to.
Stored(hash, n) ==
  hash = GENESIS \/ \E k \in 1..n : k <= Len(log) /\ hash = log[k].row_hash

\* Every row continues a hash stored before it and hashes the event append()
\* was answered for, whatever became of the row's columns since.
Chained ==
  \A i \in 1..Len(log) :
    /\ log[i].ts = i
    /\ Stored(log[i].prev_hash, i - 1)
    /\ log[i].row_hash = RowHash(log[i].prev_hash, i, appended[i].event)

\* A writer past its SELECT is in its process's lock; no row of its process
\* continues the hash it selected.
SelectedOK ==
  \A w \in Writers :
    pc[w] = "selected" =>
      /\ lock[Process(w)] = w[2]
      /\ Stored(prev[w], Len(log))
      /\ \A i \in 1..Len(log) :
           log[i].prev_hash = prev[w] => appended[i].by # Process(w)

\* As long as the log has no fork, every row continues the row before it.
Linear == ~Forked => \A i \in 1..Len(log) : log[i].prev_hash = HashBefore(i)

IInv == TypeOK /\ Chained /\ SelectedOK /\ ForkedRowsOfTwoProcesses /\ Linear

LEMMA WriterParts ==
  ASSUME NEW w \in Writers
  PROVE  /\ Process(w) \in Processes /\ w[2] \in Lanes
         /\ w = <<Process(w), w[2]>>
BY AuditAssumption DEF Process

LEMMA RedactedType ==
  ASSUME NEW event \in Event
  PROVE  Redacted(event) \in Event
BY DEF Redacted, Event, Payloads

LEMMA SeriesType ==
  ASSUME NEW run \in Runs, NEW n \in 1..MaxCalls, NEW ok \in BOOLEAN
  PROVE  Series(run, n, ok) \in Seq(Event) /\ Series(run, n, ok) # <<>>
<1>1. n \in Nat /\ n > 0
  BY AuditAssumption
<1>2. \A i \in 1..n : CallEvent(run, i = n /\ ok, i = n) \in Event
  BY DEF CallEvent, Event, Payloads
<1>3. Series(run, n, ok) \in [1..n -> Event]
  BY <1>2 DEF Series
<1>4. Series(run, n, ok) \in Seq(Event) /\ Len(Series(run, n, ok)) = n
  BY <1>1, <1>3, SeqDef, LenProperties
<1> QED
  BY <1>1, <1>4

LEMMA RowType ==
  ASSUME NEW hash \in Hashes, NEW ts \in Nat, NEW event \in Event
  PROVE  NewRow(hash, ts, event) \in Rows
<1>1. Redacted(event) \in Event
  BY RedactedType
<1>2. RowHash(hash, ts, Redacted(event)) \in Hashes
  BY <1>1 DEF RowHash, Hashes, Digested
<1> QED
  BY <1>1, <1>2 DEF NewRow, Rows

LEMMA LastHashType ==
  ASSUME TypeOK
  PROVE  LastHash \in Hashes
<1>1. CASE log = <<>>
  BY <1>1 DEF LastHash, GENESIS, Hashes
<1>2. CASE log # <<>>
  <2>1. Len(log) \in 1..Len(log)
    BY <1>2 DEF TypeOK
  <2>2. log[Len(log)] \in Rows
    BY <2>1 DEF TypeOK
  <2> QED
    BY <1>2, <2>2 DEF LastHash, Rows
<1> QED
  BY <1>1, <1>2

LEMMA HashBeforeType ==
  ASSUME TypeOK, NEW i \in 1..Len(log)
  PROVE  HashBefore(i) \in Hashes
<1>1. CASE i = 1
  BY <1>1 DEF HashBefore, GENESIS, Hashes
<1>2. CASE i # 1
  <2>1. i - 1 \in 1..Len(log)
    BY <1>2 DEF TypeOK
  <2>2. log[i - 1] \in Rows
    BY <2>1 DEF TypeOK
  <2> QED
    BY <1>2, <2>2 DEF HashBefore, Rows
<1> QED
  BY <1>1, <1>2

\* sha256 is taken to have no collisions.
LEMMA NoCollision ==
  ASSUME NEW g \in Hashes, NEW h \in Hashes, NEW s \in Nat, NEW t \in Nat,
         NEW a \in Event, NEW b \in Event, RowHash(g, s, a) = RowHash(h, t, b)
  PROVE  s = t /\ a = b
<1> DEFINE x == [ts |-> s, event |-> a]
           y == [ts |-> t, event |-> b]
<1>1. x \in Digested /\ y \in Digested
  BY DEF Digested
<1> HIDE DEF x, y
<1>2. Append(g, x) = Append(h, y)
  BY DEF RowHash, x, y
<1>3. Len(Append(g, x)) = Len(g) + 1 /\ Len(Append(h, y)) = Len(h) + 1
  BY <1>1 DEF Hashes
<1>4. Append(g, x)[Len(g) + 1] = x /\ Append(h, y)[Len(h) + 1] = y
  BY <1>1 DEF Hashes
<1>5. Len(g) \in Nat /\ Len(h) \in Nat
  BY DEF Hashes
<1>6. x = y
  BY <1>2, <1>3, <1>4, <1>5
<1> QED
  BY <1>6 DEF x, y

\* No row hashes to the genesis.
LEMMA NotGenesis ==
  ASSUME NEW h \in Hashes, NEW t \in Nat, NEW a \in Event
  PROVE  RowHash(h, t, a) # GENESIS
<1>1. [ts |-> t, event |-> a] \in Digested
  BY DEF Digested
<1> QED
  BY <1>1 DEF RowHash, GENESIS, Hashes

\* What an edit leaves alone: the table's length, hashes and other rows.
LEMMA EditKeepsChain ==
  ASSUME TypeOK, NEW i \in 1..Len(log), Edit(i)
  PROVE  /\ log' \in Seq(Rows) /\ Len(log') = Len(log)
         /\ \A j \in 1..Len(log) :
              /\ log'[j].prev_hash = log[j].prev_hash
              /\ log'[j].row_hash = log[j].row_hash /\ log'[j].ts = log[j].ts
<1>1. PICK payload \in {"none", "masked_output"} :
        log' = [log EXCEPT ![i].event.payload = payload]
  BY DEF Edit
<1>2. log \in [1..Len(log) -> Rows] /\ Len(log) \in Nat
  BY DEF TypeOK
<1>3. \A j \in 1..Len(log) :
        log'[j] = IF j = i THEN [log[i] EXCEPT !.event.payload = payload] ELSE log[j]
  BY <1>1, <1>2
<1>4. [log[i] EXCEPT !.event.payload = payload] \in Rows
  <2>1. log[i] \in Rows
    BY <1>2
  <2>2. [log[i].event EXCEPT !.payload = payload] \in Event
    BY <2>1 DEF Rows, Event, Payloads
  <2> QED
    BY <2>1, <2>2 DEF Rows
<1>5. log' \in [1..Len(log) -> Rows]
  BY <1>1, <1>2, <1>3, <1>4
<1>6. log' \in Seq(Rows) /\ Len(log') = Len(log)
  BY <1>2, <1>5, SeqDef, LenProperties
<1>7. \A j \in 1..Len(log) :
        /\ log'[j].prev_hash = log[j].prev_hash
        /\ log'[j].row_hash = log[j].row_hash /\ log'[j].ts = log[j].ts
  <2> SUFFICES ASSUME NEW j \in 1..Len(log)
               PROVE  /\ log'[j].prev_hash = log[j].prev_hash
                      /\ log'[j].row_hash = log[j].row_hash /\ log'[j].ts = log[j].ts
    OBVIOUS
  <2>1. CASE j # i
    BY <1>3, <2>1
  <2>2. CASE j = i
    <3>1. log[i] \in Rows
      BY <1>2
    <3> QED
      BY <1>3, <2>2, <3>1 DEF Rows
  <2> QED
    BY <2>1, <2>2
<1> QED
  BY <1>6, <1>7

------------------------------------------------------------------------------

LEMMA TypeInit == Init => TypeOK
BY DEF Init, TypeOK, GENESIS, Hashes

LEMMA TypeNext == TypeOK /\ [Next]_vars => TypeOK'
<1> SUFFICES ASSUME TypeOK, [Next]_vars
             PROVE  TypeOK'
  OBVIOUS
<1> USE DEF TypeOK
<1>1. ASSUME NEW w \in Writers, RecordCalls(w)
      PROVE  TypeOK'
  BY <1>1, SeriesType DEF RecordCalls
<1>2. ASSUME NEW w \in Writers, SelectLast(w)
      PROVE  TypeOK'
  <2>1. LastHash \in Hashes
    BY LastHashType
  <2>2. Process(w) \in Processes /\ w[2] \in Lanes
    BY WriterParts
  <2> QED
    BY <1>2, <2>1, <2>2 DEF SelectLast
<1>3. ASSUME NEW w \in Writers, Insert(w)
      PROVE  TypeOK'
  <2>1. todo[w] \in Seq(Event) /\ todo[w] # <<>>
    BY <1>3 DEF Insert
  <2>2. Head(todo[w]) \in Event /\ Tail(todo[w]) \in Seq(Event)
    BY <2>1
  <2>3. Len(todo[w]) > 1 => Tail(todo[w]) # <<>>
    <3>1. Len(Tail(todo[w])) = Len(todo[w]) - 1 /\ Len(todo[w]) \in Nat
      BY <2>1, HeadTailProperties
    <3>2. \A k, m \in Nat : k > 1 /\ m = k - 1 => m # 0
      OBVIOUS
    <3>3. Len(Tail(todo[w])) \in Nat
      BY <2>2
    <3>4. Len(todo[w]) > 1 => Len(Tail(todo[w])) # 0
      BY <3>1, <3>2, <3>3
    <3> QED
      BY <3>4, EmptySeq
  <2>4. /\ NewRow(prev[w], Len(log) + 1, Head(todo[w])) \in Rows
        /\ [by |-> Process(w), event |-> Redacted(Head(todo[w]))]
             \in [by : Processes, event : Event]
    BY <2>2, RowType, RedactedType, WriterParts
  <2>5. /\ log' \in Seq(Rows) /\ Len(appended') = Len(log')
        /\ appended' \in Seq([by : Processes, event : Event])
    BY <1>3, <2>4 DEF Insert
  <2>6. todo' \in [Writers -> Seq(Event)]
    BY <1>3, <2>2 DEF Insert
  <2>7. pc' \in [Writers -> {"idle", "appending", "selected"}]
    BY <1>3 DEF Insert
  <2>8. \A x \in Writers : pc'[x] # "idle" => todo'[x] # <<>>
    BY <1>3, <2>3 DEF Insert, MoreCalls
  <2>9. prev' \in [Writers -> Hashes] /\ lock' \in [Processes -> Lanes \union {NoLane}]
    BY <1>3 DEF Insert
  <2> QED
    BY <2>5, <2>6, <2>7, <2>8, <2>9
<1>4. ASSUME NEW w \in Writers, AppendFails(w)
      PROVE  TypeOK'
  <2>1. todo' \in [Writers -> Seq(Event)] /\ pc' \in [Writers -> {"idle", "appending", "selected"}]
    BY <1>4 DEF AppendFails
  <2>2. lock' \in [Processes -> Lanes \union {NoLane}]
    BY <1>4 DEF AppendFails, ReleaseLock
  <2>3. \A x \in Writers : pc'[x] # "idle" => todo'[x] # <<>>
    BY <1>4 DEF AppendFails
  <2> QED
    BY <1>4, <2>1, <2>2, <2>3 DEF AppendFails
<1>5. ASSUME NEW p \in Processes, Crash(p)
      PROVE  TypeOK'
  BY <1>5 DEF Crash
<1>6. ASSUME NEW i \in 1..Len(log), Edit(i)
      PROVE  TypeOK'
  BY <1>6, EditKeepsChain DEF Edit
<1>7. CASE UNCHANGED vars
  BY <1>7 DEF vars
<1> QED
  BY <1>1, <1>2, <1>3, <1>4, <1>5, <1>6, <1>7 DEF Next

\* Every reachable table and writer is well typed (TypeOK), with any number of
\* processes on the database.
THEOREM AuditTypeSafety == Spec => []TypeOK
BY TypeInit, TypeNext, PTL DEF Spec

------------------------------------------------------------------------------

\* What an INSERT does to the two sequences.
LEMMA InsertFacts ==
  ASSUME TypeOK, NEW w \in Writers, Insert(w)
  PROVE  /\ Len(log) \in Nat /\ Len(log') = Len(log) + 1
         /\ \A i \in 1..Len(log) : log'[i] = log[i] /\ appended'[i] = appended[i]
         /\ \E event \in Event :
              /\ log'[Len(log) + 1] =
                   [ts |-> Len(log) + 1, event |-> event, prev_hash |-> prev[w],
                    row_hash |-> RowHash(prev[w], Len(log) + 1, event)]
              /\ appended'[Len(log) + 1] = [by |-> Process(w), event |-> event]
<1>1. todo[w] \in Seq(Event) /\ todo[w] # <<>>
  BY DEF Insert, TypeOK
<1>2. Redacted(Head(todo[w])) \in Event
  BY <1>1, RedactedType
<1>3. /\ Len(log) \in Nat /\ Len(log') = Len(log) + 1
      /\ log'[Len(log) + 1] = NewRow(prev[w], Len(log) + 1, Head(todo[w]))
      /\ \A i \in 1..Len(log) : log'[i] = log[i]
  BY DEF Insert, TypeOK
<1>4. /\ appended'[Len(log) + 1] = [by |-> Process(w), event |-> Redacted(Head(todo[w]))]
      /\ \A i \in 1..Len(log) : appended'[i] = appended[i]
  BY <1>3 DEF Insert, TypeOK
<1> QED
  BY <1>2, <1>3, <1>4 DEF NewRow

\* The steps that insert nothing keep what is said about the table.
LEMMA SameTable ==
  ASSUME IInv,
         Len(log') = Len(log), appended' = appended,
         \A j \in 1..Len(log) :
           /\ log'[j].prev_hash = log[j].prev_hash
           /\ log'[j].row_hash = log[j].row_hash /\ log'[j].ts = log[j].ts
  PROVE  /\ Chained' /\ ForkedRowsOfTwoProcesses' /\ Linear'
         /\ \A h \in Hashes : Stored(h, Len(log)) => Stored(h, Len(log))'
<1> USE DEF IInv
<1>1. Len(log) \in Nat
  BY DEF TypeOK
<1>2. \A h \in Hashes, n \in 0..Len(log) : Stored(h, n) => Stored(h, n)'
  BY <1>1 DEF Stored
<1>3. Chained'
  <2> SUFFICES ASSUME NEW i \in 1..Len(log)
               PROVE  /\ log'[i].ts = i
                      /\ Stored(log[i].prev_hash, i - 1)'
                      /\ log'[i].row_hash = RowHash(log'[i].prev_hash, i, appended'[i].event)
    BY DEF Chained, Stored, RowHash
  <2>1. Stored(log[i].prev_hash, i - 1)
    BY DEF Chained
  <2> QED
    BY <1>1, <2>1 DEF Chained, Stored
<1>4. ForkedRowsOfTwoProcesses' /\ (Forked' <=> Forked)
  BY DEF ForkedRowsOfTwoProcesses, Forked
<1>5. \A j \in 1..Len(log) : HashBefore(j)' = HashBefore(j)
  <2> SUFFICES ASSUME NEW j \in 1..Len(log)
               PROVE  HashBefore(j)' = HashBefore(j)
    OBVIOUS
  <2>1. CASE j = 1
    BY <2>1 DEF HashBefore
  <2>2. CASE j # 1
    <3>1. j - 1 \in 1..Len(log)
      BY <1>1, <2>2
    <3> QED
      BY <2>2, <3>1 DEF HashBefore
  <2> QED
    BY <2>1, <2>2
<1>6. Linear'
  BY <1>4, <1>5 DEF Linear
<1> QED
  BY <1>1, <1>2, <1>3, <1>4, <1>6

LEMMA AuditInit == Init => IInv
<1> SUFFICES ASSUME Init
             PROVE  IInv
  OBVIOUS
<1>1. TypeOK
  BY TypeInit
<1>2. Len(log) = 0
  BY DEF Init
<1> QED
  BY <1>1, <1>2 DEF Init, IInv, Chained, SelectedOK, ForkedRowsOfTwoProcesses, Linear

\* At most one writer of a process is past its SELECT.
LEMMA OneSelected ==
  ASSUME SelectedOK, NEW v \in Writers, NEW w \in Writers,
         pc[v] = "selected", pc[w] = "selected", Process(v) = Process(w)
  PROVE  v = w
<1>1. v[2] = w[2]
  BY DEF SelectedOK
<1> QED
  BY <1>1, WriterParts

\* The last hash is one no row continues yet.
LEMMA LastHashFresh ==
  ASSUME TypeOK, Chained
  PROVE  /\ Stored(LastHash, Len(log))
         /\ \A i \in 1..Len(log) : log[i].prev_hash # LastHash
<1>1. Len(log) \in Nat /\ Len(appended) = Len(log)
  BY DEF TypeOK
<1>2. \A i \in 1..Len(log) : /\ log[i].prev_hash \in Hashes
                            /\ appended[i].event \in Event
                            /\ log[i].row_hash = RowHash(log[i].prev_hash, i, appended[i].event)
  <2> SUFFICES ASSUME NEW i \in 1..Len(log)
               PROVE  log[i].prev_hash \in Hashes /\ appended[i].event \in Event
    BY DEF Chained
  <2>1. log[i] \in Rows /\ appended[i] \in [by : Processes, event : Event]
    BY <1>1, ElementOfSeq DEF TypeOK
  <2> QED
    BY <2>1 DEF Rows
<1>3. CASE log = <<>>
  BY <1>3 DEF LastHash, Stored
<1>4. CASE log # <<>>
  <2> DEFINE n == Len(log)
  <2>1. n \in 1..n
    BY <1>1, <1>4, EmptySeq DEF TypeOK
  <2>2. LastHash = log[n].row_hash
    BY <1>4 DEF LastHash
  <2>3. Stored(LastHash, Len(log))
    BY <2>1, <2>2 DEF Stored
  <2>4. ASSUME NEW i \in 1..n, log[i].prev_hash = LastHash
        PROVE  FALSE
    <3>1. LastHash # GENESIS
      BY <1>2, <2>1, <2>2, NotGenesis
    <3>2. PICK k \in 1..(i - 1) : log[i].prev_hash = log[k].row_hash
      BY <2>4, <3>1 DEF Chained, Stored
    <3>3. k \in 1..n /\ k \in Nat /\ n \in Nat /\ k # n
      BY <1>1, <3>2
    <3>4. /\ log[k].row_hash = RowHash(log[k].prev_hash, k, appended[k].event)
          /\ log[n].row_hash = RowHash(log[n].prev_hash, n, appended[n].event)
          /\ log[k].prev_hash \in Hashes /\ log[n].prev_hash \in Hashes
          /\ appended[k].event \in Event /\ appended[n].event \in Event
      BY <1>2, <2>1, <3>3
    <3>5. RowHash(log[k].prev_hash, k, appended[k].event) = RowHash(log[n].prev_hash, n, appended[n].event)
      BY <2>2, <2>4, <3>2, <3>4
    <3>6. k = n
      <4> HIDE DEF n
      <4> QED
        BY <3>3, <3>4, <3>5, NoCollision
    <3> QED
      BY <3>3, <3>6
  <2> QED
    BY <2>3, <2>4
<1> QED
  BY <1>3, <1>4

LEMMA InsertStep ==
  ASSUME IInv, NEW w \in Writers, Insert(w)
  PROVE  Chained' /\ SelectedOK' /\ ForkedRowsOfTwoProcesses' /\ Linear'
<1> USE DEF IInv
<1> DEFINE n == Len(log)
<1>1. /\ n \in Nat /\ Len(log') = n + 1
      /\ \A i \in 1..n : log'[i] = log[i] /\ appended'[i] = appended[i]
  BY InsertFacts
<1>2. PICK event \in Event :
        /\ log'[n + 1] = [ts |-> n + 1, event |-> event, prev_hash |-> prev[w],
                          row_hash |-> RowHash(prev[w], n + 1, event)]
        /\ appended'[n + 1] = [by |-> Process(w), event |-> event]
  BY InsertFacts
<1>3. /\ log'[n + 1].ts = n + 1 /\ log'[n + 1].prev_hash = prev[w]
      /\ log'[n + 1].row_hash = RowHash(prev[w], n + 1, event)
      /\ appended'[n + 1].by = Process(w) /\ appended'[n + 1].event = event
  BY <1>2
<1>4. /\ pc[w] = "selected" /\ lock[Process(w)] = w[2] /\ Stored(prev[w], n)
      /\ \A i \in 1..n : log[i].prev_hash = prev[w] => appended[i].by # Process(w)
  BY DEF Insert, SelectedOK
<1>5. ASSUME NEW h, NEW m \in 0..n, Stored(h, m)
      PROVE  Stored(h, m)'
  BY <1>1, <1>5 DEF Stored
<1>6. Chained'
  <2> SUFFICES ASSUME NEW i \in 1..(n + 1)
               PROVE  /\ log'[i].ts = i
                      /\ log'[i].prev_hash = GENESIS
                           \/ \E k \in 1..(i - 1) : k <= n + 1 /\ log'[i].prev_hash = log'[k].row_hash
                      /\ log'[i].row_hash = RowHash(log'[i].prev_hash, i, appended'[i].event)
    BY <1>1 DEF Chained, Stored, RowHash, GENESIS
  <2>1. CASE i \in 1..n
    <3>1. log[i].prev_hash = GENESIS
            \/ \E k \in 1..(i - 1) : k <= n /\ log[i].prev_hash = log[k].row_hash
      BY <2>1 DEF Chained, Stored
    <3>2. \A k \in 1..(i - 1) : log'[k] = log[k]
      BY <1>1, <2>1
    <3> QED
      BY <1>1, <2>1, <3>1, <3>2 DEF Chained
  <2>2. CASE i = n + 1
    <3>1. prev[w] = GENESIS \/ \E k \in 1..n : prev[w] = log[k].row_hash
      BY <1>4 DEF Stored
    <3>2. i - 1 = n
      BY <1>1, <2>2
    <3> QED
      BY <1>1, <1>3, <2>2, <3>1, <3>2
  <2> QED
    BY <1>1, <2>1, <2>2
<1>7. ForkedRowsOfTwoProcesses'
  <2> SUFFICES ASSUME NEW i \in 1..(n + 1), NEW j \in 1..(n + 1), i # j,
                      log'[i].prev_hash = log'[j].prev_hash
               PROVE  appended'[i].by # appended'[j].by
    BY <1>1 DEF ForkedRowsOfTwoProcesses
  <2>1. CASE i \in 1..n /\ j \in 1..n
    BY <1>1, <2>1 DEF ForkedRowsOfTwoProcesses
  <2>2. CASE i = n + 1 /\ j \in 1..n
    BY <1>1, <1>3, <1>4, <2>2
  <2>3. CASE j = n + 1 /\ i \in 1..n
    BY <1>1, <1>3, <1>4, <2>3
  <2> QED
    BY <1>1, <2>1, <2>2, <2>3
<1>8. SelectedOK'
  <2> SUFFICES ASSUME NEW v \in Writers, pc'[v] = "selected"
               PROVE  /\ lock'[Process(v)] = v[2]
                      /\ prev[v] = GENESIS
                           \/ \E k \in 1..(n + 1) : k <= n + 1 /\ prev[v] = log'[k].row_hash
                      /\ \A i \in 1..(n + 1) :
                           log'[i].prev_hash = prev[v] => appended'[i].by # Process(v)
    BY <1>1 DEF SelectedOK, Stored, GENESIS, Insert
  <2>1. v # w /\ pc[v] = "selected"
    BY DEF Insert, TypeOK
  <2>2. Process(v) # Process(w)
    BY <1>4, <2>1, OneSelected
  <2>3. lock'[Process(v)] = v[2]
    BY <2>1, <2>2, WriterParts DEF Insert, SelectedOK, TypeOK
  <2>4. Stored(prev[v], n) /\ \A i \in 1..n : log[i].prev_hash = prev[v] => appended[i].by # Process(v)
    BY <2>1 DEF SelectedOK
  <2>5. prev[v] = GENESIS \/ \E k \in 1..(n + 1) : k <= n + 1 /\ prev[v] = log'[k].row_hash
    BY <1>1, <2>4 DEF Stored
  <2>6. \A i \in 1..(n + 1) : log'[i].prev_hash = prev[v] => appended'[i].by # Process(v)
    <3> SUFFICES ASSUME NEW i \in 1..(n + 1), log'[i].prev_hash = prev[v]
                 PROVE  appended'[i].by # Process(v)
      OBVIOUS
    <3>1. CASE i \in 1..n
      BY <1>1, <2>4, <3>1
    <3>2. CASE i = n + 1
      BY <1>3, <2>2, <3>2
    <3> QED
      BY <1>1, <3>1, <3>2
  <2> QED
    BY <2>3, <2>5, <2>6
<1>9. Linear'
  <2> SUFFICES ASSUME ~Forked', NEW i \in 1..(n + 1)
               PROVE  log'[i].prev_hash = HashBefore(i)'
    BY <1>1 DEF Linear
  <2>1. ~Forked
    BY <1>1 DEF Forked
  <2>2. \A k \in 1..n : log[k].prev_hash = HashBefore(k)
    BY <2>1 DEF Linear
  <2>3. CASE i \in 1..n
    <3>1. CASE i = 1
      BY <1>1, <2>2, <2>3, <3>1 DEF HashBefore
    <3>2. CASE i # 1
      <4>1. i - 1 \in 1..n
        BY <1>1, <2>3, <3>2
      <4> QED
        BY <1>1, <2>2, <2>3, <3>2, <4>1 DEF HashBefore
    <3> QED
      BY <3>1, <3>2
  <2>4. CASE i = n + 1
    <3>1. \A k \in 1..n : log[k].prev_hash # prev[w]
      <4> SUFFICES ASSUME NEW k \in 1..n, log[k].prev_hash = prev[w]
                   PROVE  FALSE
        OBVIOUS
      <4>1. k \in 1..Len(log') /\ n + 1 \in 1..Len(log') /\ k # n + 1
        BY <1>1
      <4>2. log'[k].prev_hash = log'[n + 1].prev_hash
        BY <1>1, <1>3
      <4> QED
        BY <4>1, <4>2 DEF Forked
    <3>2. CASE prev[w] = GENESIS
      <4>1. n = 0
        <5>1. n # 0 => 1 \in 1..n /\ log[1].prev_hash = GENESIS
          BY <1>1, <2>2 DEF HashBefore
        <5> QED
          BY <3>1, <3>2, <5>1
      <4> QED
        BY <1>3, <2>4, <3>2, <4>1 DEF HashBefore
    <3>3. CASE \E k \in 1..n : prev[w] = log[k].row_hash
      <4>1. PICK k \in 1..n : prev[w] = log[k].row_hash
        BY <3>3
      <4>2. k = n
        <5>1. k # n => k + 1 \in 1..n /\ k + 1 # 1 /\ (k + 1) - 1 = k
          BY <1>1
        <5>2. k # n => log[k + 1].prev_hash = log[k].row_hash
          BY <2>2, <5>1 DEF HashBefore
        <5> QED
          BY <3>1, <4>1, <5>1, <5>2
      <4>3. i # 1 /\ i - 1 = n
        BY <1>1, <2>4, <4>2
      <4> QED
        BY <1>1, <1>3, <2>4, <4>1, <4>2, <4>3 DEF HashBefore
    <3> QED
      BY <1>4, <3>2, <3>3 DEF Stored
  <2> QED
    BY <1>1, <2>3, <2>4
<1> QED
  BY <1>6, <1>7, <1>8, <1>9

LEMMA AuditNext ==
  ASSUME IInv, [Next]_vars
  PROVE  IInv'
<1> USE DEF IInv
<1>1. TypeOK'
  BY TypeNext
<1>2. ASSUME NEW w \in Writers, RecordCalls(w) \/ AppendFails(w)
      PROVE  IInv'
  <2>1. log' = log /\ appended' = appended /\ prev' = prev
    BY <1>2 DEF RecordCalls, AppendFails
  <2>2. Chained' /\ ForkedRowsOfTwoProcesses' /\ Linear'
    BY <2>1, SameTable
  <2>3. SelectedOK'
    <3> SUFFICES ASSUME NEW v \in Writers, pc'[v] = "selected"
                 PROVE  lock'[Process(v)] = v[2] /\ pc[v] = "selected"
      BY <2>1 DEF SelectedOK, Stored
    <3>1. pc[v] = "selected" /\ v # w
      BY <1>2 DEF RecordCalls, AppendFails, TypeOK
    <3>2. CASE RecordCalls(w)
      BY <3>1, <3>2 DEF RecordCalls, SelectedOK
    <3>3. CASE AppendFails(w)
      <4>1. Process(v) # Process(w)
        BY <3>1, <3>3, OneSelected DEF AppendFails
      <4> QED
        BY <3>1, <3>3, <4>1, WriterParts DEF AppendFails, ReleaseLock, SelectedOK, TypeOK
    <3> QED
      BY <1>2, <3>1, <3>2, <3>3
  <2> QED
    BY <1>1, <2>2, <2>3
<1>3. ASSUME NEW w \in Writers, SelectLast(w)
      PROVE  IInv'
  <2>1. log' = log /\ appended' = appended
    BY <1>3 DEF SelectLast
  <2>2. Chained' /\ ForkedRowsOfTwoProcesses' /\ Linear'
    BY <2>1, SameTable
  <2>3. SelectedOK'
    <3> SUFFICES ASSUME NEW v \in Writers, pc'[v] = "selected"
                 PROVE  /\ lock'[Process(v)] = v[2]
                        /\ Stored(prev'[v], Len(log))
                        /\ \A i \in 1..Len(log) :
                             log[i].prev_hash = prev'[v] => appended[i].by # Process(v)
      BY <2>1 DEF SelectedOK, Stored
    <3>1. CASE v = w
      BY <1>3, <3>1, LastHashFresh, WriterParts DEF SelectLast, TypeOK
    <3>2. CASE v # w
      <4>1. pc[v] = "selected" /\ prev'[v] = prev[v]
        BY <1>3, <3>2 DEF SelectLast, TypeOK
      <4>2. lock[Process(v)] = v[2] /\ v[2] # NoLane
        BY <4>1, WriterParts, AuditAssumption DEF SelectedOK
      <4>3. Process(v) # Process(w)
        BY <1>3, <4>2 DEF SelectLast, LockFree
      <4> QED
        BY <1>3, <4>1, <4>3, WriterParts DEF SelectLast, SelectedOK, TypeOK
    <3> QED
      BY <3>1, <3>2
  <2> QED
    BY <1>1, <2>2, <2>3
<1>4. ASSUME NEW w \in Writers, Insert(w)
      PROVE  IInv'
  BY <1>1, <1>4, InsertStep
<1>5. ASSUME NEW p \in Processes, Crash(p)
      PROVE  IInv'
  <2>1. log' = log /\ appended' = appended /\ prev' = prev
    BY <1>5 DEF Crash
  <2>2. Chained' /\ ForkedRowsOfTwoProcesses' /\ Linear'
    BY <2>1, SameTable
  <2>3. SelectedOK'
    <3> SUFFICES ASSUME NEW v \in Writers, pc'[v] = "selected"
                 PROVE  lock'[Process(v)] = v[2] /\ pc[v] = "selected"
      BY <2>1 DEF SelectedOK, Stored
    <3>1. pc[v] = "selected" /\ Process(v) # p
      BY <1>5 DEF Crash
    <3> QED
      BY <1>5, <3>1, WriterParts DEF Crash, SelectedOK, TypeOK
  <2> QED
    BY <1>1, <2>2, <2>3
<1>6. ASSUME NEW i \in 1..Len(log), Edit(i)
      PROVE  IInv'
  <2>1. /\ Len(log') = Len(log) /\ appended' = appended
        /\ \A j \in 1..Len(log) :
             /\ log'[j].prev_hash = log[j].prev_hash
             /\ log'[j].row_hash = log[j].row_hash /\ log'[j].ts = log[j].ts
    BY <1>6, EditKeepsChain DEF Edit
  <2>2. /\ Chained' /\ ForkedRowsOfTwoProcesses' /\ Linear'
        /\ \A h \in Hashes : Stored(h, Len(log)) => Stored(h, Len(log))'
    BY <2>1, SameTable
  <2>3. pc' = pc /\ lock' = lock /\ prev' = prev
    BY <1>6 DEF Edit
  <2>4. SelectedOK'
    <3> SUFFICES ASSUME NEW v \in Writers, pc[v] = "selected"
                 PROVE  /\ lock[Process(v)] = v[2]
                        /\ Stored(prev[v], Len(log))'
                        /\ \A j \in 1..Len(log) :
                             log'[j].prev_hash = prev[v] => appended[j].by # Process(v)
      BY <2>1, <2>3 DEF SelectedOK
    <3>1. prev[v] \in Hashes
      BY DEF TypeOK
    <3>2. Stored(prev[v], Len(log))
      BY DEF SelectedOK
    <3>3. Stored(prev[v], Len(log))'
      BY <2>2, <2>3, <3>1, <3>2
    <3> QED
      BY <2>1, <3>3 DEF SelectedOK
  <2> QED
    BY <1>1, <2>2, <2>4
<1>7. CASE UNCHANGED vars
  <2>1. Chained' /\ ForkedRowsOfTwoProcesses' /\ Linear'
    BY <1>7, SameTable DEF vars
  <2>2. SelectedOK'
    BY <1>7 DEF vars, SelectedOK, Stored
  <2> QED
    BY <1>1, <2>1, <2>2
<1> QED
  BY <1>2, <1>3, <1>4, <1>5, <1>6, <1>7 DEF Next

LEMMA AuditInv == Spec => []IInv
BY AuditInit, AuditNext, PTL DEF Spec

\* The rows verify_chain calls bad are the edited ones, as long as every row
\* continues the one before it.
LEMMA BadRowsAreEdited ==
  ASSUME IInv, ~Forked
  PROVE  BadRows = Edited
<1> USE DEF IInv
<1> SUFFICES ASSUME NEW i \in 1..Len(log)
             PROVE  i \in BadRows <=> i \in Edited
  BY DEF BadRows, Edited
<1>1. log[i].event \in Event /\ appended[i].event \in Event /\ log[i].ts = i /\ i \in Nat
  <2>1. i \in 1..Len(appended)
    BY DEF TypeOK
  <2>2. log[i] \in Rows /\ appended[i] \in [by : Processes, event : Event]
    BY <2>1, ElementOfSeq DEF TypeOK
  <2> QED
    BY <2>2 DEF Rows, Chained
<1>2. HashBefore(i) \in Hashes
  BY HashBeforeType
<1>3. i \in BadRows <=>
        RowHash(HashBefore(i), i, appended[i].event) # RowHash(HashBefore(i), i, log[i].event)
  BY <1>1 DEF BadRows, Chained, Linear
<1>4. i \in BadRows <=> appended[i].event # log[i].event
  BY <1>1, <1>2, <1>3, NoCollision
<1> QED
  BY <1>4 DEF Edited

\* verify_chain reports the first row changed behind the log's back, and
\* nothing else, as long as the log has not forked (VerifyReportsFirstEdit).
THEOREM VerifySafety == Spec => []VerifyReportsFirstEdit
<1>1. IInv => VerifyReportsFirstEdit
  BY BadRowsAreEdited DEF VerifyReportsFirstEdit, VerifyChain
<1> QED
  BY <1>1, AuditInv, PTL

\* Two rows chained to the same one were appended by different processes
\* (ForkedRowsOfTwoProcesses).
THEOREM ForkSafety == Spec => []ForkedRowsOfTwoProcesses
BY AuditInv, PTL DEF IInv

\* With one process on the database the log is one line, and verify-audit says
\* exactly whether it was tampered with, and where.
THEOREM SingleProcessVerifies ==
  ASSUME \A p, q \in Processes : p = q
  PROVE  Spec => [](VerifyChain = Least(Edited))
<1>1. IInv => VerifyChain = Least(Edited)
  <2> SUFFICES ASSUME IInv
               PROVE  VerifyChain = Least(Edited)
    OBVIOUS
  <2>1. \A i \in 1..Len(log) : appended[i].by \in Processes
    <3> SUFFICES ASSUME NEW i \in 1..Len(log)
                 PROVE  appended[i].by \in Processes
      OBVIOUS
    <3>1. appended[i] \in [by : Processes, event : Event]
      BY ElementOfSeq DEF IInv, TypeOK
    <3> QED
      BY <3>1
  <2>2. ~Forked
    BY <2>1 DEF IInv, ForkedRowsOfTwoProcesses, Forked
  <2> QED
    BY <2>2, BadRowsAreEdited DEF VerifyChain
<1> QED
  BY <1>1, AuditInv, PTL
=============================================================================
