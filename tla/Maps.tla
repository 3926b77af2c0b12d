--------------------------------- MODULE Maps ---------------------------------
(***************************************************************************)
(* JavaScript's Map as a function on the keys it holds, and what the filter  *)
(* of an Array leaves of a sequence.                                         *)
(*                                                                         *)
(* The services use these and no community module: a proof about an instance *)
(* carries every definition that the instance has, and Services has many.    *)
(***************************************************************************)
EXTENDS Integers, FiniteSets

Empty == [k \in {} |-> 0]

Put(f, key, value) == [k \in DOMAIN f \cup {key} |-> IF k = key THEN value ELSE f[k]]
Drop(f, keys) == [k \in DOMAIN f \ keys |-> f[k]]
Get(f, key, other) == IF key \in DOMAIN f THEN f[key] ELSE other

\* Every key and every value is in its set.
IsMap(f, keys, values) == DOMAIN f \subseteq keys /\ \A k \in DOMAIN f : f[k] \in values

\* What stands in s at the places S, in its order: SelectSeq with the places that
\* pass its test instead of the test, which the proofs cannot instantiate.
Below(S, i) == {j \in S : j < i}
Nth(S, n) == CHOOSE i \in S : Cardinality(Below(S, i)) = n - 1
Kept(s, S) == [n \in 1..Cardinality(S) |-> s[Nth(S, n)]]

ToSet(s) == {s[i] : i \in DOMAIN s}
Min(S) == CHOOSE m \in S : \A x \in S : m <= x
Max(S) == CHOOSE m \in S : \A x \in S : m >= x

\* The elements of a finite set in some order, always the same one.
Listed(S) == CHOOSE s \in [1..Cardinality(S) -> S] : \A i, j \in DOMAIN s : s[i] = s[j] => i = j

\* The sum of a map's or a sequence's values.
Sum(f) ==
    LET sum[keys \in SUBSET DOMAIN f] ==
            IF keys = {} THEN 0 ELSE LET k == CHOOSE k \in keys : TRUE IN f[k] + sum[keys \ {k}]
    IN  sum[DOMAIN f]
=============================================================================
