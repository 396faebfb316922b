------------------------------ MODULE LoserTree ------------------------------
(***************************************************************************)
(* internal::LoserTree (src/include/pgm/pgm_index_dynamic.hpp), the        *)
(* tournament tree an iterator merges the levels with. The tree is a       *)
(* function from the positions 0..2k-1 to entries: position 0 holds the    *)
(* winner, 1..k-1 the losers of the inner nodes, k..2k-1 the leaves.       *)
(***************************************************************************)
EXTENDS Integers, Sequences

CONSTANTS
    KeyMax,     \* std::numeric_limits<T>::max()
    NoSource    \* std::numeric_limits<Source>::max()

ASSUME LoserTreeAssumption == KeyMax \in Int /\ NoSource \in Nat

\* The smallest power of two that is not less than n, by doubling.
Doubled(power, n) == IF power >= n THEN power ELSE 2 * power
next_pow2(n) ==
    LET power[e \in 0..n] == IF e = 0 THEN 1 ELSE Doubled(power[e - 1], n)
    IN  power[n]

Entry(key, source) == [key |-> key, source |-> source]

\* The leaves of a tree on the sequences 0..n-1 with the given first keys; the
\* rest of the k leaves never win against a smaller key.
Leaves(k, first_keys) ==
    [pos \in k..(2 * k - 1) |->
        IF pos - k < Len(first_keys) THEN Entry(first_keys[pos - k + 1], pos - k)
                                     ELSE Entry(KeyMax, NoSource)]

\* init_winner: the leaf that wins the subtree of a node; a tie goes left.
init_winner(k, leaves) ==
    LET winner[pos \in 1..(2 * k - 1)] ==
            IF pos >= k THEN pos
            ELSE LET left == winner[2 * pos]
                     right == winner[2 * pos + 1]
                 IN  IF leaves[right].key >= leaves[left].key THEN left ELSE right
    IN  winner

\* The constructor, an insert_start for each sequence, and init. The loser kept
\* in a node is the winner of the other child.
Tree(first_keys) ==
    LET k == next_pow2(Len(first_keys))
        leaves == Leaves(k, first_keys)
        winner == init_winner(k, leaves)
    IN  [pos \in 0..(2 * k - 1) |->
            IF pos >= k THEN leaves[pos]
            ELSE IF pos = 0 THEN leaves[winner[1]]
            ELSE LET left == winner[2 * pos]
                     right == winner[2 * pos + 1]
                 IN  IF winner[pos] = left THEN leaves[right] ELSE leaves[left]]

min_source(tree) == tree[0].source

\* Variant for testing the properties: a tie is left to the challenger.
Beats_AnyTie(loser, e) == loser.key < e.key

\* Variant for testing the properties: compares the sources only.
Beats_BySource(loser, e) == loser.source < e.source

\* The entry kept in a node comes before entry e that moves up.
Beats(loser, e) ==
    \/ loser.key < e.key
    \/ e.key >= loser.key /\ loser.source < e.source

\* Of the entry kept in a node and entry e that comes to it: which one moves up,
\* which one stays.
Winner(loser, e) == IF Beats(loser, e) THEN loser ELSE e
Loser(loser, e) == IF Beats(loser, e) THEN e ELSE loser

\* delete_min_insert: key takes the place of the winner; KeyMax if the winner's
\* sequence is at its end. The variables of its loop after n iterations; there are
\* fewer iterations than leaves. A node is come to once, with the tree's entry in it.
delete_min_insert(tree, k, key) ==
    LET pos[n \in 0..k] ==
            IF n = 0 THEN (k + min_source(tree)) \div 2 ELSE pos[n - 1] \div 2
        entry[n \in 0..k] ==
            IF n = 0 THEN Entry(key, min_source(tree))
            ELSE IF pos[n - 1] = 0 THEN entry[n - 1]
            ELSE Winner(tree[pos[n - 1]], entry[n - 1])
        losers[n \in 0..k] ==
            IF n = 0 THEN tree
            ELSE IF pos[n - 1] = 0 THEN losers[n - 1]
            ELSE [losers[n - 1] EXCEPT ![pos[n - 1]] = Loser(@, entry[n - 1])]
    IN  [losers[k] EXCEPT ![0] = entry[k]]
=============================================================================
