--------------------------- MODULE DurableArchive ---------------------------
(***************************************************************************)
(* What the archiver promises to whoever reads the Iceberg table, the DLQ  *)
(* topic and the offsets of its group: the three places its work outlives  *)
(* its runs in.  The table holds published rows and keeps them, the DLQ    *)
(* published undecodable messages, and an offset is committed only when    *)
(* every row below it is in the table already, or has an undecodable       *)
(* message behind it.  Offsets may move back.                              *)
(***************************************************************************)
EXTENDS Integers

CONSTANTS Partition, MaxOffset, Logs

Offset == 0..MaxOffset - 1
Msg == Partition \X Offset

VARIABLES
  log,          \* what each offset of each partition holds or will hold
  end,          \* how much of each log is published
  table,        \* the archived messages
  quarantine,   \* the messages in the DLQ
  offset        \* the committed offset of each partition

vars == <<log, end, table, quarantine, offset>>

IsRow(p, o) == log[p][o] = "row"
Published(m) == m[2] < end[m[1]]
Rows == { m \in Msg : Published(m) /\ IsRow(m[1], m[2]) }
Bad == { m \in Msg : Published(m) /\ ~IsRow(m[1], m[2]) }

Init ==
  /\ log \in Logs
  /\ end = [p \in Partition |-> 0]
  /\ table = {}
  /\ quarantine = {}
  /\ offset = [p \in Partition |-> 0]

Publish(p) ==
  /\ end[p] \in DOMAIN log[p]
  /\ end' = [end EXCEPT ![p] = @ + 1]
  /\ UNCHANGED <<log, table, quarantine, offset>>

Archive ==
  /\ table \subseteq table' /\ table' \subseteq table \cup Rows
  /\ UNCHANGED <<log, end, quarantine, offset>>

Quarantine ==
  /\ quarantine \subseteq quarantine' /\ quarantine' \subseteq quarantine \cup Bad
  /\ UNCHANGED <<log, end, table, offset>>

\* The rows of the partition below the offset are in the table, or have an
\* undecodable message behind them.
Covered(p, n) ==
  \A m \in Rows :
    m[1] = p /\ m[2] < n => m \in table \/ \E b \in Bad : b[1] = p /\ m[2] < b[2]

Commit ==
  /\ offset' \in [Partition -> 0..MaxOffset]
  /\ \A p \in Partition : offset'[p] <= end[p] /\ Covered(p, offset'[p])
  /\ UNCHANGED <<log, end, table, quarantine>>

Next == (\E p \in Partition : Publish(p)) \/ Archive \/ Quarantine \/ Commit

Spec == Init /\ [][Next]_vars
=============================================================================
