---------------------------- MODULE MCQuicksorter ----------------------------
(* Calls of the sort functions for the model checker.                      *)
EXTENDS Quicksorter

Arrays(sizes, values) == UNION {[0..size - 1 -> values] : size \in sizes}

(* An array of a few sizes, written as a sequence.                         *)
Array(s) == [i \in 0..Len(s) - 1 |-> s[i + 1]]

Quick(arrays, perBlock, call, ord) ==
  [call : {call}, order : {ord}, algorithm : {"quick"}, elements : arrays,
   elemPerBlock : perBlock, shared : {0}]
Bitonic(arrays, shares, call, ord) ==
  [call : {call}, order : {ord}, algorithm : {"bitonic"}, elements : arrays,
   elemPerBlock : {1}, shared : shares]

(* The bitonic networks: zeros and ones decide whether a network sorts.    *)
Networks ==
  Bitonic(Arrays(1..7, {0, 1}), 0..2, "ascendingSort", "less")
    \cup Bitonic(Arrays(1..4, {0, 1}), 0..2, "sort", "greater")
    \cup Quick(Arrays(1..7, {0, 1}), {7}, "ascendingSort", "less")

(* All orders of few elements, equal ones among them, one to a block.      *)
Few == Quick(Arrays(1..4, 0..2), {1, 2}, "ascendingSort", "less")

(* Longer arrays: small tasks that find their list full, and a stack as    *)
(* deep as it gets.                                                        *)
Longer ==
  Quick({Array(<<3, 1, 4, 2, 5>>), Array(<<0, 3, 1, 3, 2, 2>>),
         Array(<<5, 1, 6, 3, 0, 2, 4>>), Array(<<0, 1, 2, 5, 3, 4, 6>>)},
        {1, 2, 3}, "sort", "greater")

(* Two tasks after one iteration, and then: two big and two small ones, no *)
(* room for more; four small ones, one of them in the other list; three    *)
(* small ones, that have to be sorted before the big one is partitioned.   *)
ThreePlaces ==
  Quick({Array(<<0, 2, 3, 1, 4, 5, 10, 10, 10, 20, 22, 23, 21, 24, 25>>),
         Array(<<0, 4, 1, 3, 5, 2, 10, 10, 10, 20, 24, 21, 23, 25, 22>>),
         Array(<<0, 1, 2, 3, 4, 5, 10, 10, 10, 20, 22, 23, 21, 24, 25>>)},
        {3}, "ascendingSort", "less")

AllCalls == Networks \cup Few \cup Longer \cup ThreePlaces
Descending == Quick(Arrays(1..3, 0..1), {1}, "descendingSort", "less")
==============================================================================
