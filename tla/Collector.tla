----------------------------- MODULE Collector -----------------------------
(***************************************************************************)
(* One stream of the collector (collector.cpp), from the row received to   *)
(* the row stored: the stream's buffer, the writer queue, the writer       *)
(* thread, the write-ahead log (wal.hpp) and the table.                    *)
(*                                                                         *)
(* The io thread and the writer thread meet at two mutexes: a buffer and   *)
(* the queue are each touched in one step.  The streams share the queue's  *)
(* capacity and nothing else.  Rows are numbered as they are received, and *)
(* no two trades are equal.                                                *)
(*                                                                         *)
(* A line of the log is the row it was written from, or it is damaged.     *)
(* The log is append-only: what an interrupted write leaves behind the     *)
(* last newline is its tail, and the next line written is merged into it.  *)
(***************************************************************************)
EXTENDS Integers, Sequences, FiniteSets, SequencesExt

CONSTANTS Stream,      \* "tick", "bbo" or "depth"
          FlushN,      \* FLUSH_EVERY_N
          QueueMax,    \* WRITER_QUEUE_MAX
          MaxRows, MaxFaults, MaxCrashes   \* bounds

ASSUME StreamAssumption == Stream \in {"tick", "bbo", "depth"}
ASSUME SizesAssumption == FlushN \in Nat \ {0} /\ QueueMax \in Nat \ {0}
ASSUME BoundsAssumption == MaxRows \in Nat /\ MaxFaults \in Nat /\ MaxCrashes \in Nat

VARIABLES phase,    \* of the process: "down", "open", "run", "enqueue", "stopping"
          buf,      \* buf_, bbo_buf_ or depth_buf_
          batch,    \* swapped out of buf, on its way into the queue
          queue,    \* queue_, this stream's jobs
          writer,   \* where the write path is, and the job it holds
          file,     \* the log on disk
          pending,  \* Wal::pending_
          db,       \* the table: rows with their seq
          hist      \* what happened, for the properties, and the bounds' counters

vars == <<phase, buf, batch, queue, writer, file, pending, db, hist>>

Row == 1 .. MaxRows
Unreadable == 0     \* a damaged line that from_line refuses
Garbled == -1       \* a damaged line that reads as a row nobody received
Line == Row \cup {Unreadable, Garbled}

-----------------------------------------------------------------------------
(* The log. *)

\* The fields to_line writes, and those from_line asks for.
FieldsWritten == CASE Stream = "tick" -> 6 [] Stream = "bbo" -> 9 [] Stream = "depth" -> 11
FieldsNeeded == CASE Stream = "tick" -> 6 [] Stream = "bbo" -> 9 [] Stream = "depth" -> 12

from_line(line) ==
  CASE line = Unreadable -> FALSE
    [] line = Garbled -> TRUE
    [] line \in Row -> FieldsWritten >= FieldsNeeded

\* Mutant: replay ends at the first line that does not parse.
replay_up_to_damage(f) ==
  LET all == f.lines \o f.tail
      good == {n \in 0 .. Len(all) : \A i \in 1 .. n : from_line(all[i])} IN
  SubSeq(all, 1, CHOOSE n \in good : \A k \in good : k <= n)

\* Line by line; one that does not parse is skipped.
replay_once(f) ==
  LET all == f.lines \o f.tail
      read[n \in 0 .. Len(all)] ==
        IF n = 0 THEN << >>
        ELSE IF from_line(all[n]) THEN Append(read[n - 1], all[n]) ELSE read[n - 1] IN
  read[Len(all)]

EmptyLog == [lines |-> << >>, tail |-> << >>]

\* What ::write can leave of the line behind the first k rows: nothing, a part (a cut
\* inside the last field still has every field), or all of it but the newline.
Remnants(rows, k) ==
  {<< >>} \cup
  IF k = Len(rows) THEN {}
  ELSE {<<Unreadable>>, <<rows[k + 1]>>} \cup
       (IF FieldsWritten >= FieldsNeeded THEN {<<Garbled>>} ELSE {})

\* What a tail and the line merged into it may read as.
Merged(f) == IF f.tail = << >> THEN {Unreadable} ELSE {Unreadable, Garbled}

\* ::write of whole lines and of a remnant, behind the tail that is there.
Written(f, rows, remnant, m) ==
  IF f.tail = << >> THEN [lines |-> f.lines \o rows, tail |-> remnant]
  ELSE IF rows # << >>
       THEN [lines |-> f.lines \o <<m>> \o Tail(rows), tail |-> remnant]
       ELSE [f EXCEPT !.tail = IF remnant = << >> THEN @ ELSE <<m>>]

\* The rows whose lines such a write destroys.
Spoilt(f, rows, remnant) ==
  IF f.tail # << >> /\ rows \o remnant # << >>
  THEN {f.tail[1], (rows \o remnant)[1]} \cap Row ELSE {}

-----------------------------------------------------------------------------
(* The table. *)

\* TickDB::write numbers the equal rows of one call; ON CONFLICT keeps one row for
\* each number.  The other tables have no such number.
Rank(p, i) ==
  IF Stream = "tick" THEN Cardinality({j \in 1 .. i - 1 : p[j] = p[i]}) ELSE 0

\* Mutant: the numbers go on from those in the table.
write_counting_on(d, p) ==
  d \cup {<<p[i], Rank(p, i) + Cardinality({e \in d : e[1] = p[i]})>> : i \in DOMAIN p}

write(d, p) == d \cup {<<p[i], Rank(p, i)>> : i \in DOMAIN p}

-----------------------------------------------------------------------------
(* The io thread. *)

Idle == [pc |-> "idle", job |-> << >>]

Init ==
  /\ phase = "down" /\ buf = << >> /\ batch = << >> /\ queue = << >> /\ writer = Idle
  /\ file = EmptyLog /\ pending = << >> /\ db = {}
  /\ hist = [received |-> 0, logged |-> {}, dropped |-> {}, lost |-> {}, spoilt |-> {},
             half |-> FALSE, faults |-> 0, crashes |-> 0]

\* The constructor opens the log and replays it once; recover() stores and commits
\* what is pending, with the steps of the writer below.
Open ==
  /\ phase = "down"
  /\ phase' = "open" /\ pending' = replay_once(file)
  /\ writer' = IF pending' = << >> THEN Idle ELSE [Idle EXCEPT !.pc = "store"]
  /\ UNCHANGED <<buf, batch, queue, file, db, hist>>

\* replay_once cannot open the file for reading and returns: nothing is pending, and
\* the next commit truncates what is there.
OpenUnread ==
  /\ phase = "down" /\ file # EmptyLog /\ hist.faults < MaxFaults
  /\ phase' = "open"
  /\ hist' = [hist EXCEPT !.faults = @ + 1,
                          !.spoilt = @ \cup (Range(file.lines \o file.tail) \cap Row)]
  /\ UNCHANGED <<buf, batch, queue, writer, file, pending, db>>

Run ==
  /\ phase = "open" /\ writer.pc = "idle"
  /\ phase' = "run"
  /\ UNCHANGED <<buf, batch, queue, writer, file, pending, db, hist>>

\* on_tick, on_bbo, on_depth with a valid row: the buffer is swapped out when it is
\* full or its time has come.
OnRow ==
  /\ phase = "run" /\ hist.received < MaxRows
  /\ LET b == Append(buf, hist.received + 1) IN
     \E elapsed \in BOOLEAN :
       IF Len(b) >= FlushN \/ elapsed
       THEN buf' = << >> /\ batch' = b /\ phase' = "enqueue"
       ELSE buf' = b /\ UNCHANGED <<batch, phase>>
  /\ hist' = [hist EXCEPT !.received = @ + 1]
  /\ UNCHANGED <<queue, writer, file, pending, db>>

\* Mutant: one job more than the cap.
Full_late(q, others) == Len(q) + others > QueueMax
\* The jobs of the other streams take their share of the queue.
Full(q, others) == Len(q) + others >= QueueMax

\* enqueue_job: a full queue drops the batch.
EnqueueJob ==
  /\ phase = "enqueue"
  /\ \E others \in 0 .. QueueMax :
       IF Full(queue, others)
       THEN /\ hist' = [hist EXCEPT !.dropped = @ \cup Range(batch)]
            /\ UNCHANGED queue
       ELSE queue' = Append(queue, batch) /\ UNCHANGED hist
  /\ batch' = << >> /\ phase' = "run"
  /\ UNCHANGED <<buf, writer, file, pending, db>>

\* Mutant: the remaining rows obey the cap.
enqueue_remaining_capped(q, b) ==
  IF b = << >> \/ Len(q) >= QueueMax THEN q ELSE Append(q, b)
enqueue_remaining(q, b) == IF b = << >> THEN q ELSE Append(q, b)

\* run() after ioc_.run(): enqueue_remaining and stop_writer.
Stop ==
  /\ phase = "run"
  /\ queue' = enqueue_remaining(queue, buf) /\ buf' = << >>
  /\ phase' = "stopping"
  /\ UNCHANGED <<batch, writer, file, pending, db, hist>>

\* The writer has drained the queue and is joined; the process ends, and with it
\* whatever is back in the buffer.
Join ==
  /\ phase = "stopping" /\ writer.pc = "idle" /\ queue = << >>
  /\ phase' = "down" /\ buf' = << >> /\ pending' = << >>
  /\ hist' = [hist EXCEPT !.lost = @ \cup Range(buf)]
  /\ UNCHANGED <<batch, queue, writer, file, db>>

-----------------------------------------------------------------------------
(* The writer thread. *)

Pop ==
  /\ phase \in {"run", "enqueue", "stopping"} /\ writer.pc = "idle" /\ queue # << >>
  /\ writer' = [pc |-> "append", job |-> Head(queue)]
  /\ queue' = Tail(queue)
  /\ UNCHANGED <<phase, buf, batch, file, pending, db, hist>>

\* write_batch returned.
WriteBatch ==
  /\ writer.pc = "append"
  /\ \E m \in Merged(file) : file' = Written(file, writer.job, << >>, m)
  /\ pending' = pending \o writer.job
  /\ hist' = [hist EXCEPT !.logged = @ \cup Range(writer.job),
                          !.spoilt = @ \cup Spoilt(file, writer.job, << >>)]
  /\ writer' = [pc |-> "store", job |-> << >>]
  /\ UNCHANGED <<phase, buf, batch, queue, db>>

\* write_batch threw, in write or in fdatasync: the batch goes back to the front of
\* the buffer and nothing becomes pending; what reached the file stays there.
WriteBatchFails ==
  /\ writer.pc = "append" /\ hist.faults < MaxFaults
  /\ \E k \in 0 .. Len(writer.job) : \E remnant \in Remnants(writer.job, k) :
       LET rows == SubSeq(writer.job, 1, k) IN
       /\ \E m \in Merged(file) : file' = Written(file, rows, remnant, m)
       /\ hist' = [hist EXCEPT !.faults = @ + 1,
                               !.half = @ \/ Range(rows \o remnant) \cap Row # {},
                               !.spoilt = @ \cup Spoilt(file, rows, remnant)]
  /\ buf' = writer.job \o buf
  /\ writer' = Idle
  /\ UNCHANGED <<phase, batch, queue, pending, db>>

\* The database write of everything pending.  It may fail, and it may fail after the
\* rows have landed; either way they stay pending.
Store ==
  /\ writer.pc = "store"
  /\ \E landed, acked \in BOOLEAN :
       /\ acked => landed
       /\ db' = IF landed THEN write(db, pending) ELSE db
       /\ writer' = IF acked THEN [writer EXCEPT !.pc = "commit"] ELSE Idle
  /\ UNCHANGED <<phase, buf, batch, queue, file, pending, hist>>

\* Mutant: a database write that failed is taken for done.
Commit_early ==
  /\ writer.pc \in {"store", "commit"}
  /\ file' = EmptyLog /\ pending' = << >>
  /\ writer' = Idle
  /\ UNCHANGED <<phase, buf, batch, queue, db, hist>>

Commit ==
  /\ writer.pc = "commit"
  /\ file' = EmptyLog /\ pending' = << >>
  /\ writer' = Idle
  /\ UNCHANGED <<phase, buf, batch, queue, db, hist>>

\* ftruncate failed: the rows stay pending.
CommitFails ==
  /\ writer.pc = "commit" /\ hist.faults < MaxFaults
  /\ writer' = Idle
  /\ hist' = [hist EXCEPT !.faults = @ + 1]
  /\ UNCHANGED <<phase, buf, batch, queue, file, pending, db>>

-----------------------------------------------------------------------------
(* Crash. *)

\* Rows received and not yet acknowledged by the log.
Unlogged == Range(buf) \cup Range(batch) \cup Range(writer.job)
              \cup UNION {Range(j) : j \in Range(queue)}

\* The process dies, perhaps in the middle of an append.
Crash ==
  /\ phase # "down" /\ hist.crashes < MaxCrashes
  /\ \E k \in 0 .. Len(writer.job) : \E remnant \in Remnants(writer.job, k) :
       LET rows == SubSeq(writer.job, 1, k) IN
       /\ \E m \in Merged(file) : file' = Written(file, rows, remnant, m)
       /\ hist' = [hist EXCEPT !.crashes = @ + 1, !.lost = @ \cup Unlogged,
                               !.spoilt = @ \cup Spoilt(file, rows, remnant)]
  /\ phase' = "down" /\ writer' = Idle
  /\ buf' = << >> /\ batch' = << >> /\ queue' = << >> /\ pending' = << >>
  /\ UNCHANGED db

Next ==
  \/ Open \/ OpenUnread \/ Run \/ OnRow \/ EnqueueJob \/ Stop \/ Join
  \/ Pop \/ WriteBatch \/ WriteBatchFails \/ Store \/ Commit \/ CommitFails
  \/ Crash

Spec == Init /\ [][Next]_vars

-----------------------------------------------------------------------------
(* Properties. *)

Writer == [pc : {"idle", "append", "store", "commit"}, job : Seq(Row)]
Log == [lines : Seq(Line), tail : Seq(Line)]
History == [received : 0 .. MaxRows, logged : SUBSET Row, dropped : SUBSET Row,
            lost : SUBSET Row, spoilt : SUBSET Row, half : BOOLEAN,
            faults : 0 .. MaxFaults, crashes : 0 .. MaxCrashes]

\* Types, and the cap of the writer queue, which only the rows handed over at shutdown
\* may exceed, by one job.
TypeOK ==
  /\ phase \in {"down", "open", "run", "enqueue", "stopping"}
  /\ buf \in Seq(Row) /\ batch \in Seq(Row) /\ queue \in Seq(Seq(Row) \ {<< >>})
  /\ Len(queue) <= QueueMax + (IF phase = "stopping" THEN 1 ELSE 0)
  /\ writer \in Writer
  /\ file \in Log /\ Len(file.tail) <= 1
  /\ pending \in Seq(Row \cup {Garbled})
  /\ db \subseteq (Row \cup {Garbled}) \X Nat
  /\ hist \in History

Stored == {e[1] : e \in db} \cap Row

\* What recovery can still find: the log when the process is down, Wal::pending_ when
\* it is up.
Recoverable == Range(IF phase = "down" THEN replay_once(file) ELSE pending)

\* Every row the client delivered is stored, or on its way, or was dropped by the full
\* queue, or was in memory only when the process ended, or its line was destroyed.
NothingVanishes ==
  1 .. hist.received \subseteq
    Stored \cup Unlogged \cup Recoverable \cup hist.dropped \cup hist.lost \cup hist.spoilt

\* A row whose append returned survives a crash at any later step: it is stored, or
\* pending, or it will be replayed (wal.hpp: "pending rows are replayed at the next
\* start").  Excepted are rows written behind a torn tail.
LoggedRowsSurvive == hist.logged \ hist.spoilt \subseteq Stored \cup Recoverable

\* Retries, replays and acknowledgements lost after the rows have landed never store a
\* row twice, unless an append failed half-way (then both copies of the row are in the
\* log, and one call may number them 0 and 1).
NoDuplicates ==
  ~hist.half => \A e, f \in db : e[1] = f[1] /\ e[1] \in Row => e = f
-----------------------------------------------------------------------------
(* The life cycle of a row. *)

\* The log vouches for the rows it reads back, but for those of a damaged line.
Lifecycle == INSTANCE RowLog WITH log <- (Range(replay_once(file)) \cap Row) \ hist.spoilt,
                                  acked <- hist.logged, table <- Stored,
                                  spoilt <- hist.spoilt

\* Through the queue, retries of a failed write or commit, lost acknowledgements,
\* torn appends, crashes and replays the collector follows the life cycle of wal.hpp:
\* rows reach the table only from the log, and the log is truncated only when every
\* row it acknowledged is stored.
WriteAhead == Lifecycle!Spec

=============================================================================
