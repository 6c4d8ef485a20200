---------------------------- MODULE MCBufferPool ----------------------------
EXTENDS BufferPool, TLC

\* Buffers, threads and references are interchangeable.
Symmetry == Permutations(Buffers) \cup Permutations(Threads) \cup Permutations(References)
=============================================================================
