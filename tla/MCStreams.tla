----------------------------- MODULE MCStreams -----------------------------
\* Streams.tla for TLC: clients are interchangeable.
EXTENDS Streams, TLC

Symmetry == Permutations(Clients)
=============================================================================
