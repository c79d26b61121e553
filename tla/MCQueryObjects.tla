--------------------------- MODULE MCQueryObjects ---------------------------
(***************************************************************************)
(* An instance of QueryObjects for TLC: two places for objects of each     *)
(* kind.  A SELECT * of two columns becomes one with another order, which  *)
(* has a name twice and a column without a name.                           *)
(***************************************************************************)
EXTENDS QueryObjects, TLC

CONSTANTS d1, d2, q1, q2, h1, h2, s1, s2

MCColumns == << <<"id", "name">>, <<"name", "id", "id", "", "age">> >>

\* Places, connections and statements are alike.
MCSymmetry ==
    Permutations({d1, d2}) \cup Permutations({q1, q2})
        \cup Permutations({h1, h2}) \cup Permutations({s1, s2})
=============================================================================
