------------------------------ MODULE RowLog ------------------------------
(***************************************************************************)
(* What the write-ahead log and the table promise together about the rows  *)
(* of one stream: an abstract specification of the life cycle wal.hpp      *)
(* describes, without threads, queues, retries, files or crashes.  A row   *)
(* is stored only from the log, the table only grows, and the log is       *)
(* emptied only when each row it vouched for is in the table.  A row whose *)
(* line is destroyed leaves the log and is named in spoilt.                *)
(***************************************************************************)
VARIABLES log,     \* rows that a replay would find now
          acked,   \* rows whose append has returned
          table,   \* rows stored
          spoilt   \* rows of which a line was damaged

vars == <<log, acked, table, spoilt>>

Init == log = {} /\ acked = {} /\ table = {} /\ spoilt = {}

\* Rows reach the log, by whole appends or as what is left of one; only what it holds
\* is acknowledged.  Lines may be damaged by it, or found unreadable.
Append ==
  /\ spoilt \subseteq spoilt' /\ log' \cap spoilt' = {}
  /\ log \subseteq log' \cup spoilt'
  /\ acked \subseteq acked' /\ acked' \subseteq acked \cup log' \cup spoilt'
  /\ UNCHANGED table

\* The write-ahead rule.
Insert ==
  /\ table \subseteq table' /\ table' \subseteq table \cup log \cup spoilt
  /\ UNCHANGED <<log, acked, spoilt>>

\* The commit.
Truncate ==
  /\ log \cap acked \subseteq table
  /\ log' = {}
  /\ UNCHANGED <<acked, table, spoilt>>

Next == Append \/ Insert \/ Truncate

Spec == Init /\ [][Next]_vars

=============================================================================
