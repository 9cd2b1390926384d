---------------------------- MODULE Subsequences ----------------------------
(***************************************************************************)
(* The elements of a sequence at chosen positions, in their order, which   *)
(* is what Vec::retain and the loops like it leave of a vector, and sums   *)
(* and counts, as functions defined by recursion.                          *)
(***************************************************************************)
EXTENDS Integers, Sequences

At(s, K) ==
    LET at[i \in 0 .. Len(s)] ==
          IF i = 0 THEN <<>> ELSE IF i \in K THEN Append(at[i - 1], s[i]) ELSE at[i - 1]
    IN at[Len(s)]

\* f[1] + ... + f[n]
SumTo(f, n) ==
    LET sum[i \in 0 .. n] == IF i = 0 THEN 0 ELSE sum[i - 1] + f[i]
    IN sum[n]

\* How many elements of s are in S
Tally(s, S) == SumTo([i \in 1 .. Len(s) |-> IF s[i] \in S THEN 1 ELSE 0], Len(s))
=============================================================================
