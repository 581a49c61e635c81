---- MODULE InOrder ----
(***************************************************************************)
(* Comparing a sequence with a log by position: what is at some places of  *)
(* the one is what is at some places of the other, in the same order.      *)
(***************************************************************************)
EXTENDS Integers

\* The ways to match the numbers in from with those in to, one to one and in order: one
\* at most.
Matchings(from, to) ==
    {f \in [from -> to] :
        /\ \A b \in to : \E a \in from : f[a] = b
        /\ \A a, b \in from : a < b => f[a] < f[b]}
====
