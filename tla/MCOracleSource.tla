--------------------------- MODULE MCOracleSource ---------------------------
(* Small instances of OracleSource.  Keys and sessions are alike, and the    *)
(* runs check safety only.                                                   *)
EXTENDS OracleSource, TLC

CONSTANTS s1, s2, w1, k1, k2, c1, c2

Sym == Permutations(Keys) \union Permutations(Sessions)
=============================================================================
