-------------------------------- MODULE AuditLog -------------------------------
(***************************************************************************)
(* The audit trail (governance/audit.py) and the calls that fill it        *)
(* (graph/telemetry.py): threads of several processes append rows to one   *)
(* SQLite table, each row chained to the one before it by its hash;        *)
(* appends fail, processes stop, and somebody may change a row behind the  *)
(* log's back, which verify_chain has to report.                           *)
(***************************************************************************)
EXTENDS Naturals, Sequences

CONSTANTS
  Processes,   \* processes with an AuditLog on the same database file
  Lanes,       \* names of threads
  NoLane,
  Writers,     \* the threads there are: pairs of a process and a lane
  Runs,
  MaxRows,     \* bound: rows of the table
  MaxCalls     \* bound: LLM calls of one structured call

ASSUME AuditAssumption ==
  /\ NoLane \notin Lanes
  /\ Writers \subseteq Processes \X Lanes
  /\ MaxRows \in Nat /\ MaxCalls \in Nat \ {0}

Process(w) == w[1]

\* What the properties tell apart in an event: the run, whether the call gave
\* a valid output, the output or the raw text in the payload.
Payloads == {"output", "none", "raw_output", "masked_output", "masked_raw_output"}
Event == [run : Runs, event_type : {"persona_call", "parse_failure"}, payload : Payloads]

\* sha256 over the previous hash, the timestamp and the row: no two inputs
\* collide. Timestamps are taken to differ; the row's id stands for its own.
Digested == [ts : Nat, event : Event]
Hashes == Seq(Digested)
GENESIS == <<>>
RowHash(prev, ts, event) == Append(prev, [ts |-> ts, event |-> event])

Rows == [ts : Nat, event : Event, prev_hash : Hashes, row_hash : Hashes]

VARIABLES
  log,        \* the table, in the order of its ids
  appended,   \* id -> the event append() was answered for, and in which process
  todo,       \* writer -> the events its record_calls has left to append
  pc,         \* writer -> idle, before an append, or past its SELECT
  prev,       \* writer -> the last hash it selected
  lock        \* process -> the writer in its log's lock

vars == <<log, appended, todo, pc, prev, lock>>

Init ==
  /\ log = <<>> /\ appended = <<>>
  /\ todo = [w \in Writers |-> <<>>]
  /\ pc = [w \in Writers |-> "idle"]
  /\ prev = [w \in Writers |-> GENESIS]
  /\ lock = [p \in Processes |-> NoLane]

------------------------------------------------------------------------------
(* Appending.                                                              *)

\* One event per call: only the last can be the valid one, and only its row
\* carries the output; the others carry the raw text.
CallEvent(run, ok, isLast) ==
  [run        |-> run,
   event_type |-> IF ok THEN "persona_call" ELSE "parse_failure",
   payload    |-> IF ~ok THEN "raw_output" ELSE IF isLast THEN "output" ELSE "none"]

\* The calls of a structured call: failures, and a valid output or not.
Series(run, n, ok) ==
  [i \in 1..n |-> CallEvent(run, i = n /\ ok, i = n)]

\* A node or the orchestrator hands its call records over.
RecordCalls(w) ==
  /\ pc[w] = "idle"
  /\ \E run \in Runs, n \in 1..MaxCalls, ok \in BOOLEAN :
       todo' = [todo EXCEPT ![w] = Series(run, n, ok)]
  /\ pc' = [pc EXCEPT ![w] = "appending"]
  /\ UNCHANGED <<log, appended, prev, lock>>

\* The payload is redacted first: what is hashed is what is stored.
Redacted(event) ==
  [event EXCEPT !.payload = CASE @ = "output" -> "masked_output"
                              [] @ = "raw_output" -> "masked_raw_output"
                              [] OTHER -> @]

LastHash == IF log = <<>> THEN GENESIS ELSE log[Len(log)].row_hash

NotLocked(w) == TRUE

LockFree(w) == lock[Process(w)] = NoLane

\* The lock is one of this process; the SELECT opens no transaction.
SelectLast(w) ==
  /\ pc[w] = "appending" /\ LockFree(w)
  /\ Len(log) < MaxRows   \* bound
  /\ lock' = [lock EXCEPT ![Process(w)] = w[2]]
  /\ prev' = [prev EXCEPT ![w] = LastHash]
  /\ pc' = [pc EXCEPT ![w] = "selected"]
  /\ UNCHANGED <<log, appended, todo>>

HashedUnredacted(hash, ts, event) ==
  [ts |-> ts, event |-> Redacted(event), prev_hash |-> hash,
   row_hash |-> RowHash(hash, ts, event)]

NewRow(hash, ts, event) ==
  [ts |-> ts, event |-> Redacted(event), prev_hash |-> hash,
   row_hash |-> RowHash(hash, ts, Redacted(event))]

StillLoops(w) == Len(todo[w]) >= 1

MoreCalls(w) == Len(todo[w]) > 1

\* The INSERT and its commit, and the lock is free again.
Insert(w) ==
  /\ pc[w] = "selected"
  /\ log' = Append(log, NewRow(prev[w], Len(log) + 1, Head(todo[w])))
  /\ appended' = Append(appended, [by |-> Process(w), event |-> Redacted(Head(todo[w]))])
  /\ todo' = [todo EXCEPT ![w] = Tail(@)]
  /\ pc' = [pc EXCEPT ![w] = IF MoreCalls(w) THEN "appending" ELSE "idle"]
  /\ lock' = [lock EXCEPT ![Process(w)] = NoLane]
  /\ UNCHANGED prev

KeepLock(w) == lock

ReleaseLock(w) == [lock EXCEPT ![Process(w)] = NoLane]

\* The database refuses the row (locked, full, gone): rolled back, the lock is
\* left, and record_calls appends none of the calls after it.
AppendFails(w) ==
  /\ pc[w] = "selected"
  /\ lock' = ReleaseLock(w)
  /\ todo' = [todo EXCEPT ![w] = <<>>]
  /\ pc' = [pc EXCEPT ![w] = "idle"]
  /\ UNCHANGED <<log, appended, prev>>

\* A process stops and starts again; rows committed stay.
Crash(p) ==
  /\ pc' = [w \in Writers |-> IF Process(w) = p THEN "idle" ELSE pc[w]]
  /\ todo' = [w \in Writers |-> IF Process(w) = p THEN <<>> ELSE todo[w]]
  /\ lock' = [lock EXCEPT ![p] = NoLane]
  /\ UNCHANGED <<log, appended, prev>>

\* A column of a row is changed outside the application, whose own statements
\* the triggers would reject; the hash columns are left as they are.
Edit(i) ==
  /\ \E payload \in {"none", "masked_output"} :
       log' = [log EXCEPT ![i].event.payload = payload]
  /\ UNCHANGED <<appended, todo, pc, prev, lock>>

Next ==
  \/ \E w \in Writers : RecordCalls(w) \/ SelectLast(w) \/ Insert(w) \/ AppendFails(w)
  \/ \E p \in Processes : Crash(p)
  \/ \E i \in 1..Len(log) : Edit(i)

Spec == Init /\ [][Next]_vars

\* A thread past its SELECT goes on; nobody has to hand over calls, and nothing
\* says in which order the threads get the lock.
FairSpec == Spec /\ \A w \in Writers : WF_vars(Insert(w) \/ AppendFails(w))

------------------------------------------------------------------------------
(* verify_chain.                                                           *)

HashBefore(i) == IF i = 1 THEN GENESIS ELSE log[i - 1].row_hash

\* The walk stops at the first bad row, so the hash it expects a row to be
\* chained to is the one stored in the row before it.
BadRows ==
  {i \in 1..Len(log) :
     \/ log[i].prev_hash # HashBefore(i)
     \/ log[i].row_hash # RowHash(HashBefore(i), log[i].ts, log[i].event)}

Least(S) == IF S = {} THEN 0 ELSE CHOOSE x \in S : \A y \in S : x <= y

\* verify_chain: the first bad row's id, or 0 for an intact chain.
VerifyChain == Least(BadRows)

Edited == {i \in 1..Len(log) : log[i].event # appended[i].event}

------------------------------------------------------------------------------
(* Correctness.                                                            *)

\* Type invariant: a row for every answered append; a writer past its SELECT
\* has a row to insert (AuditLog.append).
TypeOK ==
  /\ log \in Seq(Rows) /\ Len(appended) = Len(log)
  /\ appended \in Seq([by : Processes, event : Event])
  /\ todo \in [Writers -> Seq(Event)]
  /\ pc \in [Writers -> {"idle", "appending", "selected"}]
  /\ \A w \in Writers : pc[w] # "idle" => todo[w] # <<>>
  /\ prev \in [Writers -> Hashes]
  /\ lock \in [Processes -> Lanes \union {NoLane}]

\* Two rows were chained to the same one: their threads read the last hash
\* before either inserted.
Forked ==
  \E i, j \in 1..Len(log) : i # j /\ log[i].prev_hash = log[j].prev_hash

\* Whatever threads append, however appends fail and processes stop, the chain
\* is reported broken exactly at the first row changed behind the log's back
\* (AuditLog.verify_chain), unless the log has forked; appends after a change
\* neither repair the chain nor break it again.
VerifyReportsFirstEdit == ~Forked => VerifyChain = Least(Edited)

\* A fork takes two processes: the lock of append makes a process's SELECT and
\* INSERT one step for its other threads, so it never chains two rows to one.
ForkedRowsOfTwoProcesses ==
  \A i, j \in 1..Len(log) :
    i # j /\ log[i].prev_hash = log[j].prev_hash => appended[i].by # appended[j].by

\* An append that fails leaves the log usable for the other threads: however
\* each append ends, the process's lock comes free (the `with` of append).
LockComesFree == \A p \in Processes : lock[p] # NoLane ~> lock[p] = NoLane
=============================================================================
