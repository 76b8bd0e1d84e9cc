------------------------------ MODULE MCBronze ------------------------------
(***************************************************************************)
(* Small instances of Bronze for TLC.                                      *)
(***************************************************************************)
EXTENDS Bronze, TLC

Rows == [o \in Offset |-> "row"]

\* Every mix of rows and undecodable messages in one partition, rows in the
\* others.
MixedLogs ==
  { [p \in Partition |-> IF p = q THEN mix ELSE Rows] :
      q \in Partition, mix \in [Offset -> {"row", "bad"}] }

\* One partition with rows, or rows and at last an undecodable message; the
\* others stay empty.
ShortLogs ==
  { [p \in Partition |-> IF p = q THEN mix ELSE [o \in {} |-> "row"]] :
      q \in {CHOOSE p \in Partition : TRUE},
      mix \in {Rows, [Rows EXCEPT ![MaxOffset - 1] = "bad"]} }

\* Runs are interchangeable, and so are partitions.
Symmetry == Permutations(Run) \cup Permutations(Partition)
=============================================================================
