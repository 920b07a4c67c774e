-------------------------------- MODULE Maps --------------------------------
(* Go maps as functions on their present keys, and the id counters of the  *)
(* library (tk.Counter), which give ids back in the order they were put.   *)
EXTENDS Integers, FiniteSets, SequencesExt

NoMap == [x \in {} |-> x]
With(f, x, v) == [y \in DOMAIN f \cup {x} |-> IF y = x THEN v ELSE f[y]]
Without(f, S) == Restrict(f, DOMAIN f \ S)

NewCounter(n) == [i \in 1 .. n |-> i]

=============================================================================
