-------------------------- MODULE MCStreamPersister --------------------------
\* StreamPersister for TLC: workers are interchangeable in the safety runs.
EXTENDS StreamPersister, TLC

WorkerSymmetry == Permutations(Workers)
=============================================================================
