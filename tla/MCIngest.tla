------------------------------ MODULE MCIngest ------------------------------
(***************************************************************************)
(* Small instances of Ingest for TLC.                                      *)
(***************************************************************************)
EXTENDS IngestInductive, TLC

Good    == [result |-> "model",      timed |-> TRUE]
Bad     == [result |-> "KeyError",   timed |-> TRUE]
Other   == [result |-> "ValueError", timed |-> TRUE]
Untimed == [result |-> "model",      timed |-> FALSE]

\* Posts only, and posts around each other kind of event.
MCStreams == { <<Good, Good, Good>>, <<Good, Bad, Good>>,
               <<Good, Untimed, Good>>, <<Good, Other, Good>>,
               <<Other, Good, Bad>> }

\* For the runs that look for one shape of behaviour.
MCShortStreams == { <<Good, Good>>, <<Bad, Good>>, <<Good, Untimed>> }

SlotSymmetry == Permutations(Slot)
=============================================================================
