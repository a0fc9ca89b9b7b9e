------------------------------ MODULE TablesMC ------------------------------
EXTENDS Tables, TLC

CONSTANTS k1, k2, k3, v, w

\* The hashes of the numbers -1, -2 and 32 in words of 12 bits: of k1 and k2 the
\* masks and the groups are equal, as of all negative numbers; k3 differs in both.
HashExample == k1 :> NumberHash(-1, 12) @@ k2 :> NumberHash(-2, 12) @@ k3 :> NumberHash(32, 12)

PairsExample == {<<k1, v>>, <<k1, w>>, <<k2, v>>, <<k3, v>>}

Interchangeable == Permutations(Maps)
=============================================================================
