----------------------------- MODULE MCNodeAuth -----------------------------
\* NodeAuth for TLC: neither requests nor threads are told apart.
EXTENDS NodeAuth, TLC

Symmetry == Permutations(Requests) \union Permutations(Threads)

=============================================================================
