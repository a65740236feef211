----------------------------- MODULE Quicksorter -----------------------------
(***************************************************************************)
(* Sorting on the GPU: sort.h, and the Quicksorter of                      *)
(* src/TNL/Algorithms/Sorting/detail.  The host starts kernels one after   *)
(* another and keeps lists of tasks, each a range of the array that is     *)
(* still to be sorted.  In the first phase several blocks partition one    *)
(* task from arr to aux or back, in the second phase one block sorts one   *)
(* task with a stack of its own.  The blocks of a kernel run concurrently  *)
(* and meet in atomic counters only; the threads of a block run in step.   *)
(***************************************************************************)
EXTENDS BitonicSort

CONSTANTS
  Calls,          (* [call, order, algorithm, elements, elemPerBlock,      *)
                  (* shared]: the calls of a sort function; order is that  *)
                  (* of the comparison passed to sort                      *)
  g_maxTasks,     (* length of a list of tasks                             *)
  maxBlocks,      (* blocks of a kernel                                    *)
  threadsPerBlock

ASSUME SortAssumption ==
  /\ {g_maxTasks, maxBlocks, threadsPerBlock} \subseteq Nat \ {0}
  /\ \A c \in Calls : c.elemPerBlock > 0 /\ Size(c.elements) > 0

VARIABLES
  sort,          (* the call                                               *)
  pc,            (* what the host does, or the kernel it waits for         *)
  arr, aux,
  iteration,     (* modulo 2                                               *)
  cuda_tasks,    (* the two rotating lists of tasks, by iteration          *)
  cuda_2ndPhaseTasks,
  cuda_newTasksAmount, cuda_2ndPhaseTasksAmount,       (* atomic counters  *)
  host_1stPhaseTasksAmount, host_2ndPhaseTasksAmount,
  blocks,        (* where each block of a first phase kernel is            *)
  smallerStart,  (* of each block, once it is reserved                     *)
  stacks         (* the stack of each block of the second phase            *)

data == <<arr, aux>>
lists == <<iteration, cuda_tasks, cuda_2ndPhaseTasks, cuda_newTasksAmount,
           cuda_2ndPhaseTasksAmount>>
host == <<host_1stPhaseTasksAmount, host_2ndPhaseTasksAmount>>
kernels == <<blocks, smallerStart, stacks>>
vars == <<sort, pc, data, lists, host, kernels>>

Uninitialized == -1

\* ascendingSort and descendingSort pass the same comparison.
order == IF sort.call = "sort" THEN sort.order ELSE "less"
elemPerBlock == sort.elemPerBlock
maxTasks == IF Size(arr) < g_maxTasks THEN Size(arr) ELSE g_maxTasks

Task(begin, end, i) ==
  [begin |-> begin, end |-> end, iteration |-> i % 2, pivotIdx |-> -1,
   dstBegin |-> 0, dstEnd |-> 0, firstBlock |-> 0, blockCount |-> 0]

tasks == cuda_tasks[iteration]

\* The buffer a task is read from, and the one it is partitioned to.
Src(i) == IF i = 0 THEN arr ELSE aux

Blocks(task) ==
  (task.end - task.begin + elemPerBlock - 1) \div elemPerBlock

Init ==
  /\ sort \in Calls
  /\ pc = "start"
  /\ arr = sort.elements
  /\ aux = [i \in DOMAIN sort.elements |-> Uninitialized]
  /\ iteration = 0
  /\ cuda_tasks = [i \in 0..1 |-> <<>>] /\ cuda_2ndPhaseTasks = <<>>
  /\ cuda_newTasksAmount = 0 /\ cuda_2ndPhaseTasksAmount = 0
  /\ host_1stPhaseTasksAmount = 0 /\ host_2ndPhaseTasksAmount = 0
  /\ blocks = <<>> /\ smallerStart = <<>> /\ stacks = <<>>

------------------------------------------------------------------------------
\* Partitioning.

\* pickPivotIdx: the median of the first, the middle and the last element.
PickPivotIdx(src, begin, end) ==
  LET a == begin
      b == begin + (end - begin) \div 2
      c == end - 1
      Before(i, j) == Cmp(order, src[i], src[j])
  IN IF Before(a, b)
     THEN IF Before(b, c) THEN b ELSE IF Before(c, a) THEN a ELSE c
     ELSE IF Before(a, c) THEN a ELSE IF Before(c, b) THEN b ELSE c

\* The indices lo..hi-1 in the order in which the scans over the threads of a
\* block give them their places: thread by thread.
ByThread(lo, hi) ==
  LET Thread(i) == (i - lo) % threadsPerBlock
  IN SortSeq([k \in 1..hi - lo |-> lo + k - 1], LAMBDA i, j :
       Thread(i) < Thread(j) \/ (Thread(i) = Thread(j) /\ i < j))

Smaller(src, lo, hi, pivot) ==
  SelectSeq(ByThread(lo, hi), LAMBDA i : Cmp(order, src[i], pivot))

\* Faulty: elements that equal the pivot are moved, too.
Bigger_OrEqual(src, lo, hi, pivot) ==
  SelectSeq(ByThread(lo, hi), LAMBDA i : ~Cmp(order, src[i], pivot))

Bigger(src, lo, hi, pivot) ==
  SelectSeq(ByThread(lo, hi), LAMBDA i : Cmp(order, pivot, src[i]))

\* copyData, copyDataShared: dst with the elements of src at the given
\* indices, from position "at" on.
Copied(src, dst, indices, at) ==
  [i \in at..at + Len(indices) - 1 |-> src[indices[i - at + 1]]] @@ dst

Partitioned(src, dst, smaller, smallerAt, bigger, biggerAt) ==
  Copied(src, Copied(src, dst, smaller, smallerAt), bigger, biggerAt)

\* arr with the pivot in the gap between the smaller and the bigger elements.
Filled(a, begin, end, pivot) == [i \in begin..end - 1 |-> pivot] @@ a

------------------------------------------------------------------------------
\* The host.

\* BitonicSort::sort, all of its kernels.
SortBitonic ==
  /\ pc = "start" /\ sort.algorithm = "bitonic"
  /\ arr' \in BitonicSortArray(arr, sort.shared, order)
  /\ pc' = "done"
  /\ UNCHANGED <<sort, aux, lists, host, kernels>>

\* Quicksorter::init: the whole array is a task of one of the two phases.
InitQuicksort ==
  /\ pc = "start" /\ sort.algorithm = "quick"
  /\ LET whole == <<Task(0, Size(arr), 0)>>
     IN IF Size(arr) > elemPerBlock
        THEN /\ cuda_tasks' = [cuda_tasks EXCEPT ![0] = whole]
             /\ host_1stPhaseTasksAmount' = 1
             /\ UNCHANGED <<cuda_2ndPhaseTasks, host_2ndPhaseTasksAmount>>
        ELSE /\ cuda_2ndPhaseTasks' = whole
             /\ host_2ndPhaseTasksAmount' = 1
             /\ UNCHANGED <<cuda_tasks, host_1stPhaseTasksAmount>>
  /\ cuda_2ndPhaseTasksAmount' = 0
  /\ pc' = "firstPhase"
  /\ UNCHANGED <<sort, data, iteration, cuda_newTasksAmount, kernels>>

\* The tasks of both lists, in the order secondPhase gives them to its blocks.
Pending == SubSeq(tasks, 1, host_1stPhaseTasksAmount)
           \o SubSeq(cuda_2ndPhaseTasks, 1, host_2ndPhaseTasksAmount)

\* New tasks might not fit in the two lists.
NoRoom == host_1stPhaseTasksAmount * 2
            >= maxTasks + (maxTasks - host_2ndPhaseTasksAmount)

\* The tasks of the second phase are sorted now to make room.
Premature ==
  \/ host_2ndPhaseTasksAmount >= maxTasks
  \/ NoRoom /\ 4 * host_2ndPhaseTasksAmount >= 3 * maxTasks

Continues == host_1stPhaseTasksAmount \in 1..maxTasks - 1

\* The kernel of the second phase: one block for each of the tasks.
Launch2ndPhase(ts) ==
  stacks' = [b \in 1..Len(ts) |-> <<ts[b]>>]

\* firstPhase, the premature calls of secondPhase.
SortPrematurely ==
  /\ pc = "firstPhase" /\ Continues /\ Premature
  /\ Launch2ndPhase(SubSeq(cuda_2ndPhaseTasks, 1, host_2ndPhaseTasksAmount))
  /\ pc' = "premature"
  /\ UNCHANGED <<sort, data, lists, host, blocks, smallerStart>>

EndPremature ==
  /\ pc = "premature" /\ \A b \in DOMAIN stacks : stacks[b] = <<>>
  /\ cuda_2ndPhaseTasks' = <<>>
  /\ cuda_2ndPhaseTasksAmount' = 0 /\ host_2ndPhaseTasksAmount' = 0
  /\ stacks' = <<>>
  /\ pc' = "firstPhase"
  /\ UNCHANGED <<sort, data, iteration, cuda_tasks, cuda_newTasksAmount,
                 host_1stPhaseTasksAmount, blocks, smallerStart>>

\* initTasks: the blocks of the tasks in a row, and the pivots.
Initialized ==
  LET before(k) == FoldLeft(LAMBDA n, t : n + Blocks(t), 0, SubSeq(tasks, 1, k - 1))
  IN [k \in 1..host_1stPhaseTasksAmount |->
        [tasks[k] EXCEPT
           !.pivotIdx = PickPivotIdx(Src(iteration), tasks[k].begin, tasks[k].end),
           !.dstBegin = 0, !.dstEnd = tasks[k].end - tasks[k].begin,
           !.firstBlock = before(k), !.blockCount = Blocks(tasks[k])]]

BlocksNeeded ==
  FoldLeft(LAMBDA n, t : n + Blocks(t), 0,
           SubSeq(tasks, 1, host_1stPhaseTasksAmount))

\* firstPhase ends, what is left is sorted by secondPhase.
Leaves ==
  \/ ~Continues
  \/ ~Premature /\ (NoRoom \/ BlocksNeeded \notin 2..maxBlocks)

LeaveFirstPhase ==
  /\ pc = "firstPhase" /\ Leaves
  /\ Launch2ndPhase(Pending)
  /\ pc' = "secondPhase"
  /\ UNCHANGED <<sort, data, lists, host, blocks, smallerStart>>

\* firstPhase: the kernel cudaQuickSort1stPhase is started.
LaunchPartition ==
  /\ pc = "firstPhase" /\ ~Premature /\ ~Leaves
  /\ cuda_tasks' = [cuda_tasks EXCEPT ![iteration] = Initialized,
                                      ![1 - iteration] = <<>>]
  /\ cuda_newTasksAmount' = 0
  /\ blocks' = [b \in 0..BlocksNeeded - 1 |-> "count"]
  /\ smallerStart' = [b \in 0..BlocksNeeded - 1 |-> 0]
  /\ pc' = "partition"
  /\ UNCHANGED <<sort, data, iteration, cuda_2ndPhaseTasks,
                 cuda_2ndPhaseTasksAmount, host, stacks>>

\* The kernel cudaWritePivot is started when the partition is complete.
LaunchWritePivot ==
  /\ pc = "partition" /\ \A b \in DOMAIN blocks : blocks[b] = "ended"
  /\ blocks' = [k \in 1..host_1stPhaseTasksAmount |-> "fill"]
  /\ smallerStart' = <<>>
  /\ pc' = "writePivot"
  /\ UNCHANGED <<sort, data, lists, host, stacks>>

\* processNewTasks, and the end of an iteration.
ProcessNewTasks ==
  LET Clamped(n) == IF n < maxTasks THEN n ELSE maxTasks
  IN /\ pc = "writePivot" /\ \A b \in DOMAIN blocks : blocks[b] = "ended"
     /\ host_1stPhaseTasksAmount' = Clamped(cuda_newTasksAmount)
     /\ host_2ndPhaseTasksAmount' = Clamped(cuda_2ndPhaseTasksAmount)
     /\ iteration' = 1 - iteration
     /\ blocks' = <<>>
     /\ pc' = "firstPhase"
     /\ UNCHANGED <<sort, data, cuda_tasks, cuda_2ndPhaseTasks,
                    cuda_newTasksAmount, cuda_2ndPhaseTasksAmount, smallerStart, stacks>>

EndSort ==
  /\ pc = "secondPhase" /\ \A b \in DOMAIN stacks : stacks[b] = <<>>
  /\ stacks' = <<>>
  /\ pc' = "done"
  /\ UNCHANGED <<sort, data, lists, host, blocks, smallerStart>>

------------------------------------------------------------------------------
\* The blocks of the kernel cudaQuickSort1stPhase.

\* cuda_blockToTaskMapping.
TaskOf(b) ==
  CHOOSE k \in DOMAIN tasks :
    b \in tasks[k].firstBlock..tasks[k].firstBlock + tasks[k].blockCount - 1

\* The part of its task that block b partitions, and the pivot.
PartBegin(b) ==
  LET t == tasks[TaskOf(b)] IN t.begin + elemPerBlock * (b - t.firstBlock)
PartEnd(b) ==
  LET end == tasks[TaskOf(b)].end
  IN IF PartBegin(b) + elemPerBlock < end THEN PartBegin(b) + elemPerBlock ELSE end
SmallerOf(b) ==
  LET t == tasks[TaskOf(b)]
  IN Smaller(Src(t.iteration), PartBegin(b), PartEnd(b), Src(t.iteration)[t.pivotIdx])
BiggerOf(b) ==
  LET t == tasks[TaskOf(b)]
  IN Bigger(Src(t.iteration), PartBegin(b), PartEnd(b), Src(t.iteration)[t.pivotIdx])

\* cudaPartition: the atomic addition to dstBegin.
ReserveSmaller(b) ==
  LET k == TaskOf(b)
  IN /\ pc = "partition" /\ blocks[b] = "count"
     /\ smallerStart' = [smallerStart EXCEPT ![b] = tasks[k].dstBegin]
     /\ cuda_tasks' = [cuda_tasks EXCEPT
                         ![iteration][k].dstBegin = @ + Len(SmallerOf(b))]
     /\ blocks' = [blocks EXCEPT ![b] = "bigger"]
     /\ UNCHANGED <<sort, pc, data, iteration, cuda_2ndPhaseTasks,
                    cuda_newTasksAmount, cuda_2ndPhaseTasksAmount, host, stacks>>

\* cudaPartition: the atomic subtraction from dstEnd, and the copies, which
\* read what no block writes and write the reserved places.
ReserveBigger(b) ==
  LET k == TaskOf(b)
      t == tasks[k]
      biggerStart == t.dstEnd - Len(BiggerOf(b))
      copied == Partitioned(Src(t.iteration), Src(1 - t.iteration),
                            SmallerOf(b), t.begin + smallerStart[b],
                            BiggerOf(b), t.begin + biggerStart)
  IN /\ pc = "partition" /\ blocks[b] = "bigger"
     /\ cuda_tasks' = [cuda_tasks EXCEPT ![iteration][k].dstEnd = biggerStart]
     /\ IF t.iteration = 0 THEN aux' = copied /\ UNCHANGED arr
                           ELSE arr' = copied /\ UNCHANGED aux
     /\ blocks' = [blocks EXCEPT ![b] = "ended"]
     /\ UNCHANGED <<sort, pc, iteration, cuda_2ndPhaseTasks,
                    cuda_newTasksAmount, cuda_2ndPhaseTasksAmount, host,
                    smallerStart, stacks>>

------------------------------------------------------------------------------
\* The blocks of the kernel cudaWritePivot, one for each task.

Fill(k) ==
  LET t == tasks[k]
  IN /\ pc = "writePivot" /\ blocks[k] = "fill"
     /\ arr' = Filled(arr, t.begin + t.dstBegin, t.begin + t.dstEnd,
                      Src(t.iteration)[t.pivotIdx])
     /\ blocks' = [blocks EXCEPT ![k] = "left"]
     /\ UNCHANGED <<sort, pc, aux, lists, host, smallerStart, stacks>>

\* The sides of the gap: the part that block k makes a task of, and what it
\* does afterwards.
Side(k) ==
  LET t == tasks[k]
  IN IF blocks[k] \in {"left", "leftBackup"}
     THEN [task |-> Task(t.begin, t.begin + t.dstBegin, t.iteration + 1),
           next |-> "right", backup |-> "leftBackup"]
     ELSE [task |-> Task(t.begin + t.dstEnd, t.end, t.iteration + 1),
           next |-> "ended", backup |-> "rightBackup"]

IsSmall(t) == t.end - t.begin <= elemPerBlock

\* The list that a new task goes to: small ones to the second phase, unless
\* that list was found full.
To2ndPhase(k) ==
  IsSmall(Side(k).task) = (blocks[k] \in {"left", "right"})

\* writeNewTask: nothing to do for an empty part.
SkipEmptyPart(k) ==
  /\ pc = "writePivot" /\ blocks[k] \in {"left", "right"}
  /\ Side(k).task.begin = Side(k).task.end
  /\ blocks' = [blocks EXCEPT ![k] = Side(k).next]
  /\ UNCHANGED <<sort, pc, data, lists, host, smallerStart, stacks>>

\* Faulty: the other list is not tried.
AfterAttempt_NoBackup(k, idx) == Side(k).next

\* writeNewTask: a place in a list is taken by an atomic addition; a list
\* that is full sends the block to the other list, and then the task is lost.
AfterAttempt(k, idx) ==
  IF idx >= maxTasks /\ blocks[k] \in {"left", "right"}
  THEN Side(k).backup ELSE Side(k).next

WriteNewTask(k) ==
  /\ pc = "writePivot"
  /\ blocks[k] \in {"left", "right", "leftBackup", "rightBackup"}
  /\ Side(k).task.begin < Side(k).task.end
  /\ IF To2ndPhase(k)
     THEN LET idx == cuda_2ndPhaseTasksAmount
          IN /\ cuda_2ndPhaseTasksAmount' = idx + 1
             /\ cuda_2ndPhaseTasks' =
                  IF idx < maxTasks THEN Append(cuda_2ndPhaseTasks, Side(k).task)
                  ELSE cuda_2ndPhaseTasks
             /\ blocks' = [blocks EXCEPT ![k] = AfterAttempt(k, idx)]
             /\ UNCHANGED <<cuda_tasks, cuda_newTasksAmount>>
     ELSE LET idx == cuda_newTasksAmount
          IN /\ cuda_newTasksAmount' = idx + 1
             /\ cuda_tasks' =
                  IF idx < maxTasks
                  THEN [cuda_tasks EXCEPT ![1 - iteration] = Append(@, Side(k).task)]
                  ELSE cuda_tasks
             /\ blocks' = [blocks EXCEPT ![k] = AfterAttempt(k, idx)]
             /\ UNCHANGED <<cuda_2ndPhaseTasks, cuda_2ndPhaseTasksAmount>>
  /\ UNCHANGED <<sort, pc, data, iteration, host, smallerStart, stacks>>

------------------------------------------------------------------------------
\* The blocks of the kernel cudaQuickSort2ndPhase.

\* externSort: the part is sorted in shared memory and written to arr.
ExternSort(src, begin, end) ==
  {[i \in begin..end - 1 |-> part[i - begin]] @@ arr :
     part \in BitonicSortBlock([i \in 0..end - begin - 1 |-> src[begin + i]], order)}

\* Faulty: the smaller part is pushed first.
StackPush_SmallerFirst(stack, left, right) ==
  LET size(t) == t.end - t.begin
      pushed == IF size(left) < size(right) THEN <<left, right>> ELSE <<right, left>>
  IN stack \o SelectSeq(pushed, LAMBDA t : size(t) > 0)

\* stackPush: the bigger part below the smaller one, empty parts not at all.
StackPush(stack, left, right) ==
  LET size(t) == t.end - t.begin
      pushed == IF size(left) > size(right) THEN <<left, right>> ELSE <<right, left>>
  IN stack \o SelectSeq(pushed, LAMBDA t : size(t) > 0)

\* singleBlockQuickSort: one round of its loop.
SortPart(b) ==
  /\ pc \in {"premature", "secondPhase"} /\ stacks[b] # <<>>
  /\ LET t == Last(stacks[b])
         src == Src(t.iteration)
         pivot == src[PickPivotIdx(src, t.begin, t.end)]
         smaller == Smaller(src, t.begin, t.end, pivot)
         bigger == Bigger(src, t.begin, t.end, pivot)
         pivotBegin == t.begin + Len(smaller)
         pivotEnd == t.end - Len(bigger)
         dst == Partitioned(src, Src(1 - t.iteration), smaller, t.begin,
                            bigger, pivotEnd)
     IN IF IsSmall(t)
        THEN /\ arr' \in ExternSort(src, t.begin, t.end)
             /\ stacks' = [stacks EXCEPT ![b] = Front(@)]
             /\ UNCHANGED aux
        ELSE /\ aux' = IF t.iteration = 0 THEN dst ELSE aux
             /\ arr' = Filled(IF t.iteration = 0 THEN arr ELSE dst,
                              pivotBegin, pivotEnd, pivot)
             /\ stacks' = [stacks EXCEPT ![b] =
                             StackPush(Front(@),
                                       Task(t.begin, pivotBegin, t.iteration + 1),
                                       Task(pivotEnd, t.end, t.iteration + 1))]
  /\ UNCHANGED <<sort, pc, lists, host, blocks, smallerStart>>

------------------------------------------------------------------------------
Host ==
  \/ SortBitonic \/ InitQuicksort
  \/ SortPrematurely \/ EndPremature
  \/ LaunchPartition \/ LaunchWritePivot \/ ProcessNewTasks
  \/ LeaveFirstPhase \/ EndSort

Block(b) ==
  \/ ReserveSmaller(b) \/ ReserveBigger(b)
  \/ Fill(b) \/ SkipEmptyPart(b) \/ WriteNewTask(b)

Next == Host \/ (\E b \in DOMAIN blocks : Block(b)) \/ (\E b \in DOMAIN stacks : SortPart(b))

\* The host goes on, and so do the blocks of a kernel that was started.
Spec == Init /\ [][Next]_vars /\ WF_vars(Next)

------------------------------------------------------------------------------
\* Properties.

n == Size(arr)

\* The elements of the call in the order of the comparison.
Reference ==
  LET sorted == SortSeq([i \in 1..n |-> sort.elements[i - 1]],
                        LAMBDA a, b : Cmp(order, a, b))
  IN [i \in 0..n - 1 |-> sorted[i + 1]]

\* The array is sorted when sort returns: the elements of the call, in the
\* order of the comparison that the sorter was given.  No element is lost or
\* doubled by blocks that write one part of the array at the same time.
SortedInTheEnd == pc = "done" => arr = Reference

Positions(t) == t.begin..t.end - 1

SameElements(a, b, I) ==
  \A v \in {a[i] : i \in I} \cup {b[i] : i \in I} :
    Cardinality({i \in I : a[i] = v}) = Cardinality({i \in I : b[i] = v})

\* Between the kernels of the first phase the tasks in the two lists account
\* for all that is not sorted: their ranges do not overlap, the buffer of
\* each holds the elements that belong to its range, and outside of them arr
\* is final.  In particular no task is lost when a list is full ("Part of
\* array may stay unsorted!!!", quicksort_kernel.h:204).
TasksTile ==
  pc = "firstPhase" =>
    /\ \A k, l \in DOMAIN Pending :
         k # l => Positions(Pending[k]) \cap Positions(Pending[l]) = {}
    /\ \A k \in DOMAIN Pending :
         SameElements(Src(Pending[k].iteration), Reference, Positions(Pending[k]))
    /\ \A i \in 0..n - 1 :
         \/ \E k \in DOMAIN Pending : i \in Positions(Pending[k])
         \/ arr[i] = Reference[i]

\* The stack of a block grows with the logarithm of its task only, whatever
\* the pivots are: 32 places are enough for an int.  The assertion in
\* stackPush (quicksort_1Block.h:229) guards one of its two pushes.
StackFits ==
  pc \in {"premature", "secondPhase"} =>
    LET launched == IF pc = "premature" THEN cuda_2ndPhaseTasks ELSE Pending
        size(b) == launched[b].end - launched[b].begin
    IN \A b \in DOMAIN stacks :
         stacks[b] # <<>> => 2^(Len(stacks[b]) - 1) <= size(b)

\* Every sort returns, also with equal elements and with full lists.
SortEnds == <>(pc = "done")

\* descendingSort sorts "in descending order" (sort.h:49).
DescendingSortDescends ==
  pc = "done" /\ sort.call = "descendingSort" =>
    \A i \in 1..n - 1 : arr[i - 1] >= arr[i]
==============================================================================
