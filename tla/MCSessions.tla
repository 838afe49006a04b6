---------------------------- MODULE MCSessions ----------------------------
EXTENDS TokenSessions, TLC

\* Grants and requests are interchangeable names.
Symmetry == Permutations(Grants) \cup Permutations(Requests)

=============================================================================
