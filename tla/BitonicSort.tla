----------------------------- MODULE BitonicSort -----------------------------
(***************************************************************************)
(* The bitonic sorting networks of src/TNL/Algorithms/Sorting/detail:      *)
(* blockBitonicSort.h (one block of threads, the base case of the          *)
(* quicksort) and bitonicSort.h (kernels over the whole array, with or     *)
(* without shared memory).  An array of n elements is a function on        *)
(* 0..n-1.  The pairs of one layer are disjoint and a barrier separates    *)
(* the layers, so a layer is one step on the whole array.  Lengths are     *)
(* powers of two and are given by their exponents.                         *)
(***************************************************************************)
EXTENDS Integers, FiniteSets, SequencesExt, TLC

\* The comparisons a caller hands to a sorter: < or >.
Cmp(order, a, b) == IF order = "less" THEN a < b ELSE b < a

Size(a) == Cardinality(DOMAIN a)

\* closestPow2: the exponent of the smallest power of two not below n > 0.
ClosestPow2(n) == CHOOSE p \in 0..n : 2^p >= n /\ (p = 0 \/ 2^(p - 1) < n)

\* Faulty: the directions alternate throughout.
Ascending_Alternating(n, monotonicSeqIdx, monotonicSeqLen) ==
  monotonicSeqIdx % 2 # 0

\* Every second monotonic sequence ascends, so does the one that has no
\* partner in the next phase.
Ascending(n, monotonicSeqIdx, monotonicSeqLen) ==
  \/ monotonicSeqIdx % 2 # 0
  \/ (monotonicSeqIdx + 1) * monotonicSeqLen >= n

\* cmpSwap on the element at i, whose pair is s < e: what i holds afterwards.
CmpSwap(a, s, e, i, ascending, order) ==
  IF ascending = Cmp(order, a[e], a[s]) THEN a[s + e - i] ELSE a[i]

\* One layer of compare-exchanges on the contiguous indices I; a partner
\* outside I is virtual padding and keeps the element where it is.  Layers map
\* sets of arrays to sets of arrays, to be applied one after another.
Exchange(arrays, I, m, b, order) ==
  LET half == 2^(b - 1)
      First(i) == (i \div 2^b) * 2^b + (i % half)
      paired == {i \in I : First(i) + half \in I}
  IN {[i \in paired |->
         CmpSwap(a, First(i), First(i) + half, i,
                 Ascending(Size(a), i \div 2^m, 2^m), order)] @@ a : a \in arrays}

\* The merges that turn bitonic sequences of 2^first elements into monotonic
\* ones, and so on up to 2^last.
Merges(arrays, I, first, last, order) ==
  LET Merge(S, m) ==
        FoldLeft(LAMBDA T, b : Exchange(T, I, m, b, order),
                 S, [k \in 1..m |-> m + 1 - k])
  IN FoldLeft(Merge, arrays, [k \in 1..(last - first + 1) |-> first + k - 1])

\* bitonicSort_Block.
BitonicSortBlock(a, order) ==
  Merges({a}, DOMAIN a, 1, ClosestPow2(Size(a)), order)

\* bitoniSort1stStepSharedMemory: each block sorts its part of 2^shared
\* elements, the last part may be shorter.
FirstStep(a, shared, order) ==
  LET Part(k) == {i \in DOMAIN a : i \div 2^shared = k - 1}
      SortOf(S, k) ==
        Merges(S, Part(k), 1, ClosestPow2(Cardinality(Part(k))), order)
      parts == (Size(a) + 2^shared - 1) \div 2^shared
  IN FoldLeft(SortOf, {a}, [k \in 1..parts |-> k])

\* bitonicSort: with shared memory for 2^shared elements, or without.  The
\* merges in shared memory make the same exchanges as those in global memory.
BitonicSortArray(a, shared, order) ==
  IF shared = 0 THEN Merges({a}, DOMAIN a, 1, ClosestPow2(Size(a)), order)
  ELSE Merges(FirstStep(a, shared, order), DOMAIN a, shared + 1,
              ClosestPow2(Size(a)), order)
==============================================================================
