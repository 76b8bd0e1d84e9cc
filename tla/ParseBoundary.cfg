SPECIFICATION FairSpec
INVARIANTS IInv ProducesExactlyTheSound MissingFieldIsQuarantined StagedIsWhatWasProduced
PROPERTY ProducedIsStaged
CHECK_DEADLOCK FALSE
