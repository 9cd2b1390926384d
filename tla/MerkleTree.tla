----------------------------- MODULE MerkleTree -----------------------------
(***************************************************************************)
(* The merkle tree whose root a user signs for the vault                   *)
(* (crypto/merkle-tree).  The tree is kept in one vector, leaves at the    *)
(* even indices and every inner node between its two halves, so push and   *)
(* proof walk it with widths and bit masks instead of pointers.            *)
(*                                                                         *)
(* A hash is a sequence of numbers that shows how it was made: <<v>> for a *)
(* leaf, and the two parts in brackets for combine.                        *)
(***************************************************************************)
EXTENDS Integers, Sequences, FiniteSets, FiniteSetsExt

CONSTANT MaxLeaves
ASSUME LeavesAssumption == MaxLeaves \in Nat \ {0}

VARIABLES nodes,   \* MerkleTree::nodes
          leaves   \* history: the leaves, in order

merkle == <<nodes, leaves>>

Leaf(i) == <<i>>
Default == <<>>
Combine(a, b) == <<-1>> \o a \o b \o <<-2>>

At(ns, i) == ns[i + 1]
Pow2(n) == CHOOSE p \in {2 ^ k : k \in 0 .. n} : n <= p /\ \A k \in 0 .. n : n <= 2 ^ k => p <= 2 ^ k
Ilog2(n) == CHOOSE k \in 0 .. n : 2 ^ k <= n /\ n < 2 ^ (k + 1)
Bit(mask) == mask % 2

\* mid_point: (len.next_power_of_two() / 2).saturating_sub(1)
MidPoint(len) == Max({Pow2(len) \div 2 - 1, 0})
Root(ns) == At(ns, MidPoint(Len(ns)))

\* comute_recur: the nodes with the inner ones filled in
RECURSIVE Computed(_)
Computed(ns) ==
    LET mid   == MidPoint(Len(ns))
        left  == Computed(SubSeq(ns, 1, mid))
        right == Computed(SubSeq(ns, mid + 2, Len(ns)))
    IN  IF Len(ns) = 1 THEN ns
        ELSE left \o <<IF right = <<>> THEN Root(left) ELSE Combine(Root(left), Root(right))>> \o right

\* from_base: the leaves interspersed with defaults
FromBase(base) ==
    IF base = <<>> THEN <<Default>>
    ELSE Computed([i \in 1 .. 2 * Len(base) - 1 |-> IF i % 2 = 1 THEN base[(i + 1) \div 2] ELSE Default])

\* The loop of push
RECURSIVE Climb(_, _, _, _, _, _)
Climb(ns, cursor, clamp, width, mask, fuel) ==
    LET at == cursor - width
    IN  IF fuel = 0 THEN ns
        ELSE IF Bit(mask) = 0 THEN Climb(ns, cursor + width, clamp, 2 * width, mask \div 2, fuel - 1)
        ELSE Climb([ns EXCEPT ![at + 1] = Combine(At(ns, at - width), At(ns, Min({at + width, clamp})))],
                   at, at, 2 * width, mask \div 2, fuel - 1)

\* Mutant of Pushed: the climb ends one level below the root.
PushedShort(ns) == Climb(ns, Len(ns) - 1, Len(ns) - 1, 1, Len(ns) \div 2, Ilog2(Len(ns)) - 1)

\* push, of a vector that already has the new leaf
Pushed(ns) == Climb(ns, Len(ns) - 1, Len(ns) - 1, 1, Len(ns) \div 2, Ilog2(Len(ns)))

\* The iterator of proof, where index is that of the leaf in the vector
RECURSIVE Siblings(_, _, _, _, _, _, _, _)
Siblings(ns, cursor, clampCursor, clamp, width, mask, clampMask, fuel) ==
    LET up       == IF Bit(mask) = 0 THEN cursor + width ELSE cursor - width
        opposite == IF Bit(mask) = 0 THEN up + width ELSE up - width
        inside   == Bit(clampMask) = 1
        clampUp  == IF inside THEN clampCursor - width ELSE clampCursor + width
        value    == IF inside THEN <<At(ns, Min({opposite, clamp}))>>
                    ELSE IF opposite < Len(ns) THEN <<At(ns, opposite)>> ELSE <<>>
    IN  IF fuel = 0 THEN <<>>
        ELSE value \o Siblings(ns, up, clampUp, IF inside THEN clampUp ELSE clamp, 2 * width,
                               mask \div 2, clampMask \div 2, fuel - 1)

Proof(ns, index) == Siblings(ns, index, Len(ns) - 1, Len(ns) - 1, 1, (index + 1) \div 2,
                             Len(ns) \div 2, Ilog2(Len(ns)))

\* index_of: which leaf has this hash
IndexOf(ns, key) == CHOOSE i \in 0 .. Len(ns) \div 2 : At(ns, 2 * i) = key

\* MerkleTree::new and clear
MerkleInit == nodes = <<Leaf(1)>> /\ leaves = <<Leaf(1)>>

PushLeaf ==
    /\ Len(leaves) < MaxLeaves
    /\ LET value == Leaf(Len(leaves) + 1)
       IN  nodes' = Pushed(nodes \o <<Default, value>>) /\ leaves' = Append(leaves, value)

Clear == nodes' = <<Leaf(1)>> /\ leaves' = <<Leaf(1)>>

MerkleNext == PushLeaf \/ Clear
MerkleSpec == MerkleInit /\ [][MerkleNext]_merkle
-----------------------------------------------------------------------------
\* The hash of a tree whose left half is the largest complete one, and the path from
\* leaf i up to its root: the other half at every fork.
RECURSIVE Hashed(_)
Hashed(s) == LET half == Pow2(Len(s)) \div 2
             IN  IF Len(s) = 1 THEN s[1]
                 ELSE Combine(Hashed(SubSeq(s, 1, half)), Hashed(SubSeq(s, half + 1, Len(s))))

RECURSIVE PathOf(_, _)
PathOf(s, i) ==
    LET half == Pow2(Len(s)) \div 2
        left == SubSeq(s, 1, half)
        right == SubSeq(s, half + 1, Len(s))
    IN  IF Len(s) = 1 THEN <<>>
        ELSE IF i <= half THEN Append(PathOf(left, i), Hashed(right))
        ELSE Append(PathOf(right, i - half), Hashed(left))

\* Leaf by leaf or all at once, the same vector results; its root is the hash of exactly
\* these leaves; every leaf is found where it is, and its proof is the other half at
\* every fork, from the leaf up to the root.
TreeOfLeaves ==
    /\ nodes = FromBase(leaves)
    /\ Root(nodes) = Hashed(leaves)
    /\ \A i \in DOMAIN leaves : /\ IndexOf(nodes, leaves[i]) = i - 1
                                /\ Proof(nodes, 2 * (i - 1)) = PathOf(leaves, i)
=============================================================================
