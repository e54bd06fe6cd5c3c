-------------------------------- MODULE Sums --------------------------------
(***************************************************************************)
(* What the models add up and put in order: the rows of a table, as a       *)
(* function of their keys, over a set of keys; and a set by a strict order. *)
(* The community modules take both as operators; as functions and relations *)
(* they can be named in a lemma.                                            *)
(***************************************************************************)
EXTENDS Integers, FiniteSetsExt

\* The sum of f over S
SumOver(f, S) == MapThenSumSet(LAMBDA x : f[x], S)

\* The members of S in the order R, each once
Listing(S, R) ==
  CHOOSE q \in [1 .. Cardinality(S) -> S] :
    \A i, j \in 1 .. Cardinality(S) : i < j => <<q[i], q[j]>> \in R
=============================================================================
