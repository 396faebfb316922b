--------------------------- MODULE DynamicIterator ---------------------------
(***************************************************************************)
(* DynamicPGMIndex::Iterator (src/include/pgm/pgm_index_dynamic.hpp): a    *)
(* walk over the levels in use, merged by a loser tree, that visits the    *)
(* newest item of each key and passes over the erased ones. It starts from *)
(* the iterator a call of DynamicQueries returned.                         *)
(*                                                                         *)
(* A position in a level's sorted array is the key found there, End past   *)
(* the last one. The container does not change under an iterator: an       *)
(* update moves the arrays and makes every iterator invalid.               *)
(***************************************************************************)
EXTENDS LoserTree, DynamicQueries

CONSTANT End            \* the end of a level's array

\* numeric_limits<K>::max() is not stored, and the levels fit the type of a source.
ASSUME IteratorAssumption ==
    /\ \A k \in Key : k < KeyMax
    /\ NumLevels <= NoSource
    /\ End \notin Key

VARIABLES
    current,            \* the cursor: a level number and a position in it, or None
    initialized,        \* tree and iterators have been initialized
    iterators,          \* the cursor of each sequence in the tree
    unconsumed_count,   \* iterators that have not reached the end
    tree,               \* the loser tree
    tmp,                \* advance: the cursor step() returned
    advancing           \* advance is in its loop

iterator_vars == <<current, initialized, iterators, unconsumed_count, tree, tmp, advancing>>
vars == <<data, query_vars, iterator_vars>>

Cursor == Level \X (Key \cup {End})
EndCursor == <<NumLevels - 1, End>>

\* The first position of a level whose key is greater than k.
upper_bound(level, k) ==
    LET greater == {l \in KeysOf(level) : l > k}
    IN  IF greater = {} THEN End ELSE Min(greater)

\* The members of an iterator as its constructor leaves them.
Fresh ==
    /\ initialized' = FALSE
    /\ iterators' = << >>
    /\ unconsumed_count' = 0
    /\ tree' = << >>

Init ==
    /\ QueryInit
    /\ current = None
    /\ initialized = FALSE
    /\ iterators = << >>
    /\ unconsumed_count = 0
    /\ tree = << >>
    /\ tmp = EndCursor
    /\ advancing = FALSE

-----------------------------------------------------------------------------

\* lower_bound and begin return an iterator; nothing else is left of the call.
MakeIterator ==
    /\ Seeks /\ result # None
    /\ current' = IF result = EndOf THEN EndCursor ELSE result
    /\ query' = NoCall
    /\ i' = 0 /\ lb' = None /\ erased' = {} /\ result' = None
    /\ Fresh
    /\ UNCHANGED <<data, tmp, advancing>>

\* Variant for testing the properties: positions the sequences at the current key.
Position_AtCurrent(level, k) ==
    LET ge == {l \in KeysOf(level) : l >= k}
    IN  IF ge = {} THEN End ELSE Min(ge)

\* Where lazy_initialize positions the cursor of a level.
Position(level, k) == upper_bound(level, k)

\* A cursor for each level that has a key greater than the current one; levels are
\* come to in a loop.
Positioned ==
    LET emplaced[n \in 0..NumLevels] ==
            IF n = 0 THEN << >>
            ELSE LET pos == Position(n - 1, current[2])
                 IN  IF pos = End THEN emplaced[n - 1] ELSE Append(emplaced[n - 1], <<n - 1, pos>>)
    IN  emplaced[NumLevels]

\* lazy_initialize: nothing to merge leaves the tree empty. (The code then builds
\* a tree on no sequence, whose size is a shift by the width of the word: it is
\* never looked at, since unconsumed_count is 0. The \E only binds a value once.)
lazy_initialize ==
    IF initialized THEN UNCHANGED <<initialized, iterators, unconsumed_count, tree>>
    ELSE /\ initialized' = TRUE
         /\ iterators' = Positioned
         /\ unconsumed_count' = Len(iterators')
         /\ \E first_keys \in {[j \in DOMAIN iterators' |-> iterators'[j][2]]} :
               tree' = IF first_keys = << >> THEN << >> ELSE Tree(first_keys)

\* The increment of an iterator constructed by find or lower_bound, or copied
\* from one: the first one sets up the tree.
Increment ==
    /\ current \notin {None, EndCursor}
    /\ ~advancing
    /\ lazy_initialize
    /\ advancing' = TRUE
    /\ tmp' = EndCursor
    /\ UNCHANGED <<data, query_vars, current>>

\* *this = super->end()
BecomeEnd == current' = EndCursor /\ Fresh

\* The position of the sequence the tree says is smallest.
it_min == iterators[min_source(tree) + 1]

\* Variant for testing the properties: a sequence at its end still counts.
step_CountEnded ==
    LET next == upper_bound(it_min[1], it_min[2])
    IN  /\ iterators' = [iterators EXCEPT ![min_source(tree) + 1] = <<it_min[1], next>>]
        /\ tree' = delete_min_insert(tree, next_pow2(Len(iterators)),
                                     IF next = End THEN KeyMax ELSE next)
        /\ unconsumed_count' = unconsumed_count

\* The lambda step of advance: moves the smallest sequence on by one.
step ==
    \E next \in {upper_bound(it_min[1], it_min[2])} :
        /\ iterators' = [iterators EXCEPT ![min_source(tree) + 1] = <<it_min[1], next>>]
        /\ \E key \in {IF next = End THEN KeyMax ELSE next} :
              tree' = delete_min_insert(tree, next_pow2(Len(iterators)), key)
        /\ unconsumed_count' = IF next = End THEN unconsumed_count - 1 ELSE unconsumed_count

deleted(cursor) == data[cursor[1]][cursor[2]] = "deleted"

\* Variant for testing the properties: leaves the iterator where it is.
NothingLeft_Stay ==
    /\ advancing /\ tmp = EndCursor
    /\ unconsumed_count = 0
    /\ advancing' = FALSE
    /\ UNCHANGED <<data, query_vars, current, initialized, iterators, unconsumed_count, tree, tmp>>

NothingLeft ==
    /\ advancing /\ tmp = EndCursor
    /\ unconsumed_count = 0
    /\ BecomeEnd
    /\ advancing' = FALSE
    /\ UNCHANGED <<data, query_vars, tmp>>

\* tmp = step(), entering the loop.
FirstStep ==
    /\ advancing /\ tmp = EndCursor
    /\ unconsumed_count > 0
    /\ tmp' = it_min
    /\ step
    /\ UNCHANGED <<data, query_vars, current, initialized, advancing>>

\* The older items of the key just taken are passed over.
Older == unconsumed_count > 0 /\ it_min[2] = tmp[2]

SkipOlder ==
    /\ advancing /\ tmp # EndCursor
    /\ Older
    /\ step
    /\ UNCHANGED <<data, query_vars, current, initialized, tmp, advancing>>

\* The key just taken is an erased one: the loop takes the next.
SkipDeleted ==
    /\ advancing /\ tmp # EndCursor
    /\ ~Older
    /\ unconsumed_count > 0 /\ deleted(tmp)
    /\ tmp' = it_min
    /\ step
    /\ UNCHANGED <<data, query_vars, current, initialized, advancing>>

Settle ==
    /\ advancing /\ tmp # EndCursor
    /\ ~Older
    /\ ~(unconsumed_count > 0 /\ deleted(tmp))
    /\ \/ /\ deleted(tmp)
          /\ BecomeEnd
       \/ /\ ~deleted(tmp)
          /\ current' = tmp
          /\ UNCHANGED <<initialized, iterators, unconsumed_count, tree>>
    /\ advancing' = FALSE
    /\ tmp' = EndCursor
    /\ UNCHANGED <<data, query_vars>>

Walk == Increment \/ NothingLeft \/ FirstStep \/ SkipOlder \/ SkipDeleted \/ Settle

Next == (Query /\ UNCHANGED iterator_vars) \/ MakeIterator \/ Walk

\* The query is one call, the walk a loop of the caller up to end().
Spec == Init /\ [][Next]_vars /\ WF_vars(Next)

-----------------------------------------------------------------------------
(* Correctness.                                                            *)

\* What advance takes for the number of sequences that have an element left, the
\* one thing that keeps it from reading past the end of a level.
UnconsumedCounted ==
    unconsumed_count = Cardinality({j \in DOMAIN iterators : iterators[j][2] # End})

\* What the comment on min_source says (514): "Returns the index of the sequence
\* with the smallest element", as long as a sequence has an element. Every
\* increment of an iterator relies on it.
MinSourceIsSmallest ==
    unconsumed_count > 0 =>
        /\ it_min[2] # End
        /\ \A j \in DOMAIN iterators : iterators[j][2] # End => it_min[2] <= iterators[j][2]

\* Of several levels with the smallest key the newest comes first: its item
\* decides whether the key is live, and with which value.
NewestComesFirst ==
    unconsumed_count > 0 =>
        \A j \in 1..min_source(tree) : iterators[j][2] # it_min[2]

\* The newest item of the live key that follows the one at cursor c, or the end.
Successor(c) ==
    LET later == {k \in Map!Live : k > c[2]}
    IN  IF later = {} THEN EndCursor ELSE <<NewestLevel(Min(later)), Min(later)>>

\* Each increment moves to the next live element: none is left out, none comes
\* twice, no erased or overwritten item shows.
AdvancesToSuccessor ==
    [][advancing /\ ~advancing' => current' = Successor(current)]_vars

\* A query returns, and a loop from the iterator it made comes to end().
WalkEnds == <>(current = EndCursor)
=============================================================================
