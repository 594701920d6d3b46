----------------------------- MODULE MCService ------------------------------
\* An instance of Service: calls that may be exchanged for each other.
EXTENDS Service, TLC

CONSTANTS c1, c2, c3

Interchangeable == Permutations({c1, c2, c3})
=============================================================================
