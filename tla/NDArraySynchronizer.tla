------------------------ MODULE NDArraySynchronizer ------------------------
(***************************************************************************)
(* Ghost exchange of distributed N-dimensional arrays.  Unlike the one of  *)
(* DistributedArray it packs the boundaries of every dimension into send   *)
(* buffers, restricts an exchange to the directions of a mask, tells its   *)
(* messages apart by tags, and unpacks receive buffers when all requests   *)
(* are complete.  Buffers, neighbours and tags are set up by the first     *)
(* exchange and reused by the next ones, also for other arrays.            *)
(*                                                                         *)
(* All processes execute one program of writes and exchanges (SPMD).  The  *)
(* data of an array is abstracted to one value per boundary: who wrote it  *)
(* and by which operation of the program.                                  *)
(***************************************************************************)
EXTENDS Integers, Sequences, SequencesExt

CONSTANTS
  NProc,           (* number of processes                                  *)
  NDims,           (* number of dimensions with overlaps                   *)
  Arrays,          (* distributed arrays of the program                    *)
  Synchronizers,   (* 1 .. n, in the order of their construction           *)
  SyncOf,          (* the synchronizer the program uses for each array     *)
  Communicator,    (* of each array: the rank of every process in it       *)
  Shape,           (* sizes, local begins and local ends of each array     *)
  Policies,        (* the async policies the program uses                  *)
  Masks,           (* the sets of directions the program synchronizes      *)
  Periodic,        (* FALSE: the program skips the periodic boundary with  *)
                   (* negative tags                                        *)
  EagerSends,      (* does the MPI library buffer messages?                *)
  MaxOps           (* bound on the length of the program                   *)

Procs == 0 .. (NProc - 1)
Dims == 1 .. NDims
Sides == {"left", "right"}
Boundaries == Dims \X Sides

AsyncPolicy == {"synchronous", "deferred", "threadpool", "async"}

ASSUME ConstantsAssumption ==
  /\ NProc \in Nat \ {0}
  /\ NDims \in Nat \ {0}
  /\ MaxOps \in Nat
  /\ Synchronizers \subseteq Nat /\ 1 \in Synchronizers
  /\ SyncOf \in [Arrays -> Synchronizers]
  /\ Communicator \in [Arrays -> [Procs -> Procs]]
  /\ \A a \in Arrays, p, q \in Procs :
       Communicator[a][p] = Communicator[a][q] => p = q
  /\ DOMAIN Shape = Arrays
  /\ Policies \subseteq AsyncPolicy
  /\ Masks \subseteq SUBSET Sides
  /\ {Periodic, EagerSends} \subseteq BOOLEAN

Operations ==
  [kind : {"write"}, array : Arrays, policy : {"none"}, mask : {{}}] \union
  [kind : {"synchronize"}, array : Arrays, policy : Policies, mask : Masks]

Opposite(side) == IF side = "left" THEN "right" ELSE "left"

(* A boundary of array a, written on process p by the k-th operation.      *)
Boundary(p, a, b, k) == <<p, a, b, k>>
NeverWritten == <<>>       (* ghosts before the first exchange             *)
Uninitialized == <<0>>     (* contents of a freshly allocated buffer       *)

(* The tags reserved by the constructor of the s-th synchronizer.          *)
reserve_tags(s) == 2 * s

(* Faulty: the tags of the receives are those of the sends.                *)
DefaultTags_Mixed(offset) ==
  [from |-> [left |-> offset, right |-> offset + 1],
   to   |-> [left |-> offset, right |-> offset + 1]]

(* What travels to the left has the first tag, to the right the second.    *)
DefaultTags(offset) ==
  [from |-> [left |-> offset + 1, right |-> offset],
   to   |-> [left |-> offset, right |-> offset + 1]]

NoTags == [from |-> [left |-> -1, right |-> -1],
           to   |-> [left |-> -1, right |-> -1]]

(* setTags by a program without a periodic boundary: the first process     *)
(* skips its left, the last one its right neighbour.                       *)
SkippedSide(p, side) ==
  ~Periodic /\ p = (IF side = "left" THEN 0 ELSE NProc - 1)

InitialTags(p, s) ==
  IF Periodic THEN NoTags
  ELSE LET t == DefaultTags(reserve_tags(s))
           skip(f) == [side \in Sides |->
                         IF SkippedSide(p, side) THEN -1 ELSE f[side]]
       IN [from |-> skip(t.from), to |-> skip(t.to)]

-----------------------------------------------------------------------------
VARIABLES
  program,     (* operations the processes execute, in this order          *)
  pos,         (* pos[p]: number of operations p has begun                 *)
  pc,          (* pc[p]: what the main thread of p does                    *)
  awaited,     (* awaited[p]: synchronizer it waits for, when it waits     *)
  written,     (* written[p][a]: last operation that wrote the local cells *)
  ghosts,      (* ghosts[p][a]: contents of the overlaps                   *)
  view,        (* view[p][s]: array_view and mask of synchronizer s, and   *)
               (* the operation it was set by (0: never bound)             *)
  neighbors,   (* neighbors[p][s]: a rank or -1, for each boundary         *)
  tags,        (* tags[p][s]: tag_from_left ... tag_to_right               *)
  sendBuffer, recvBuffer, (* of each synchronizer, for each boundary       *)
  stage,       (* stage[p][s]: progress of the operation of synchronizer s *)
  sends, recvs (* incomplete MPI requests of each process, in call order   *)

vars == <<program, pos, pc, awaited, written, ghosts, view, neighbors, tags,
          sendBuffer, recvBuffer, stage, sends, recvs>>
programVars == <<program, pos>>
mainVars == <<pc, awaited>>
setup == <<view, neighbors, tags>>
buffers == <<sendBuffer, recvBuffer>>
mpi == <<sends, recvs>>

Ops == 1 .. MaxOps
Values == {NeverWritten, Uninitialized} \union
          (Procs \X Arrays \X Boundaries \X (0 .. MaxOps))
TagValues == -1 .. (2 * Len(SetToSeq(Synchronizers)) + 1)

TypeOK ==
  /\ program \in Seq(Operations) /\ Len(program) <= MaxOps
  /\ pos \in [Procs -> 0 .. MaxOps]
  /\ pc \in [Procs -> {"idle", "calling", "communicating", "waiting"}]
  /\ awaited \in [Procs -> Synchronizers]
  /\ written \in [Procs -> [Arrays -> 0 .. MaxOps]]
  /\ ghosts \in [Procs -> [Arrays -> [Boundaries -> Values]]]
  /\ view \in [Procs -> [Synchronizers ->
                 [array : Arrays, mask : SUBSET Sides, op : 0 .. MaxOps]]]
  /\ neighbors \in [Procs -> [Synchronizers ->
                      [Boundaries -> -1 .. (NProc - 1)]]]
  /\ tags \in [Procs -> [Synchronizers -> [from : [Sides -> TagValues],
                                           to   : [Sides -> TagValues]]]]
  /\ {sendBuffer, recvBuffer} \subseteq
       [Procs -> [Synchronizers -> [Boundaries -> Values]]]
  /\ stage \in [Procs -> [Synchronizers -> {"ready", "started", "posted"}]]
  /\ {sends, recvs} \subseteq [Procs -> Seq(
       [sync : Synchronizers, boundary : Boundaries, peer : Procs,
        comm : [Procs -> Procs], tag : Nat, data : Values])]

-----------------------------------------------------------------------------
(* The operation the main thread of p executes, and its synchronizer.      *)
CurrentOp(p) == program[pos[p]]
CurrentSync(p) == SyncOf[CurrentOp(p).array]

PolicyOf(p, s) == program[view[p][s].op].policy

(* async_op is invalid or its shared state is ready.                       *)
Ready(p, s) == stage[p][s] = "ready"

(* Exchanges that are handed to another thread.                            *)
Offloaded(policy) == policy \in {"threadpool", "async"}

(* The next operation of p: the first process to get there chooses it.     *)
NextOp(p, op) ==
  /\ pos[p] < MaxOps
  /\ IF pos[p] < Len(program)
     THEN op = program[pos[p] + 1] /\ UNCHANGED program
     ELSE program' = Append(program, op)
  /\ pos' = [pos EXCEPT ![p] = @ + 1]

(* The program writes the local cells of an array that it does not exchange*)
(* at the moment: it calls wait() before.                                  *)
Write(p) ==
  /\ pc[p] = "idle"
  /\ \E op \in Operations :
       /\ op.kind = "write"
       /\ \A s \in Synchronizers : view[p][s].array = op.array => Ready(p, s)
       /\ NextOp(p, op)
       /\ written' = [written EXCEPT ![p][op.array] = pos[p] + 1]
  /\ UNCHANGED <<mainVars, ghosts, setup, buffers, stage, mpi>>

(* synchronizeAsync is called; it waits for the previous operation.        *)
Call(p) ==
  /\ pc[p] = "idle"
  /\ \E op \in Operations :
       /\ op.kind = "synchronize"
       /\ NextOp(p, op)
       /\ awaited' = [awaited EXCEPT ![p] = SyncOf[op.array]]
  /\ pc' = [pc EXCEPT ![p] = "calling"]
  /\ UNCHANGED <<written, ghosts, setup, buffers, stage, mpi>>

(* "skip allocation on repeated calls - compare only sizes"                *)
NeedsAllocation(p, s, a) ==
  \/ view[p][s].op = 0
  \/ Communicator[view[p][s].array] # Communicator[a]
  \/ Shape[view[p][s].array] # Shape[a]

DefaultNeighbor(rank, side) ==
  (rank + (IF side = "left" THEN NProc - 1 ELSE 1)) % NProc

(* allocateHelper: new buffers; neighbours that are set already stay.      *)
Allocate(p, s, a) ==
  /\ sendBuffer' = [sendBuffer EXCEPT ![p][s] =
                      [b \in Boundaries |-> Uninitialized]]
  /\ recvBuffer' = [recvBuffer EXCEPT ![p][s] =
                      [b \in Boundaries |-> Uninitialized]]
  /\ neighbors' = [neighbors EXCEPT ![p][s] = [b \in Boundaries |->
       IF @[b] < 0 THEN DefaultNeighbor(Communicator[a][p], b[2]) ELSE @[b]]]

(* synchronizeAsync after the wait: buffers, view and mask are set, and the*)
(* exchange is started by this thread or handed to another one.            *)
Start(p) ==
  LET op == CurrentOp(p)
      s == CurrentSync(p)
  IN
  /\ pc[p] = "calling"
  /\ Ready(p, s)
  /\ IF NeedsAllocation(p, s, op.array)
     THEN Allocate(p, s, op.array)
     ELSE UNCHANGED <<buffers, neighbors>>
  /\ view' = [view EXCEPT ![p][s] =
                [array |-> op.array, mask |-> op.mask, op |-> pos[p]]]
  /\ stage' = [stage EXCEPT ![p][s] = "started"]
  /\ pc' = [pc EXCEPT ![p] =
              IF Offloaded(op.policy) THEN "idle" ELSE "communicating"]
  /\ UNCHANGED <<programVars, awaited, written, ghosts, tags, mpi>>

(* The main thread returns from synchronizeAsync.                          *)
FinishCall(p) ==
  LET s == CurrentSync(p) IN
  /\ pc[p] = "communicating"
  /\ \/ CurrentOp(p).policy = "deferred" /\ stage[p][s] = "posted"
     \/ Ready(p, s)
  /\ pc' = [pc EXCEPT ![p] = "idle"]
  /\ UNCHANGED <<programVars, awaited, written, ghosts, setup, buffers, stage, mpi>>

(* wait() of a synchronizer that is busy.                                  *)
Wait(p, s) ==
  /\ pc[p] = "idle"
  /\ ~Ready(p, s)
  /\ pc' = [pc EXCEPT ![p] = "waiting"]
  /\ awaited' = [awaited EXCEPT ![p] = s]
  /\ UNCHANGED <<programVars, written, ghosts, setup, buffers, stage, mpi>>

FinishWait(p) ==
  /\ pc[p] = "waiting"
  /\ Ready(p, awaited[p])
  /\ pc' = [pc EXCEPT ![p] = "idle"]
  /\ UNCHANGED <<programVars, awaited, written, ghosts, setup, buffers, stage,
                 mpi>>

-----------------------------------------------------------------------------
(* The thread that executes an exchange.                                   *)

(* The order in which sendHelper visits the boundaries: by dimension, and  *)
(* one side first.                                                         *)
BoundarySeq(first) == [i \in 1 .. (2 * NDims) |->
  <<(i + 1) \div 2, IF i % 2 = 1 THEN first ELSE Opposite(first)>>]

ProcessOf(comm, rank) == CHOOSE p \in Procs : comm[p] = rank

Request(p, s, b, tag, data) ==
  LET comm == Communicator[view[p][s].array] IN
  [sync |-> s, boundary |-> b, comm |-> comm, tag |-> tag, data |-> data,
   peer |-> ProcessOf(comm, neighbors[p][s][b])]

(* Requests to the neighbours across the boundaries of mask, with the tags *)
(* t; those with negative tags are skipped.                                *)
Requests(p, s, first, mask, t, data) ==
  LET chosen == SelectSeq(BoundarySeq(first),
                          LAMBDA b : b[2] \in mask /\ t[b[2]] >= 0)
  IN [i \in 1 .. Len(chosen) |->
        Request(p, s, chosen[i], t[chosen[i][2]], data[chosen[i]])]

(* Faulty: everything is sent, whatever the mask.                          *)
Sent_All(mask) == Sides

(* The sides that an exchange sends to, and those it receives from: what is*)
(* sent to the left arrives from the right.                                *)
Sent(mask) == mask
Received(mask) == {Opposite(side) : side \in mask}

(* Faulty: the buffers of the sending side are unpacked.                   *)
Unpacked_SendingSide(mask) == mask

(* The sides whose receive buffers are copied to the ghosts.               *)
Unpacked(mask) == {Opposite(side) : side \in mask}

(* worker_init: packs the boundaries, sets the default tags if there are   *)
(* none, and issues the sends and receives of all dimensions.              *)
WorkerInit(p, s) ==
  LET v == view[p][s]
      packed == [b \in Boundaries |->
                   IF b[2] \in v.mask
                   THEN Boundary(p, v.array, b, written[p][v.array])
                   ELSE sendBuffer[p][s][b]]
      t == IF tags[p][s] = NoTags THEN DefaultTags(reserve_tags(s))
           ELSE tags[p][s]
      none == [b \in Boundaries |-> Uninitialized]
      data == IF EagerSends THEN packed ELSE none
  IN
  /\ stage[p][s] = "started"
  /\ sendBuffer' = [sendBuffer EXCEPT ![p][s] = packed]
  /\ tags' = [tags EXCEPT ![p][s] = t]
  /\ sends' = [sends EXCEPT ![p] = @ \o Requests(p, s, "left", Sent(v.mask), t.to, data)]
  /\ recvs' = [recvs EXCEPT ![p] =
                 @ \o Requests(p, s, "right", Received(v.mask), t.from, none)]
  /\ stage' = [stage EXCEPT ![p][s] = "posted"]
  /\ UNCHANGED <<programVars, mainVars, written, ghosts, view, neighbors,
                 recvBuffer>>

(* All requests of the operation are complete; a send that the library has *)
(* buffered is complete at once.                                           *)
Complete(p, s) ==
  /\ \A i \in DOMAIN recvs[p] : recvs[p][i].sync # s
  /\ EagerSends \/ \A i \in DOMAIN sends[p] : sends[p][i].sync # s

(* Waitall and worker_finish: the ghosts are copied from the buffers.  A   *)
(* deferred operation gets here only while the main thread waits for it.   *)
WorkerFinish(p, s) ==
  LET v == view[p][s] IN
  /\ stage[p][s] = "posted"
  /\ PolicyOf(p, s) = "deferred" =>
       pc[p] \in {"calling", "waiting"} /\ awaited[p] = s
  /\ Complete(p, s)
  /\ ghosts' = [ghosts EXCEPT ![p][v.array] = [b \in Boundaries |->
       IF b[2] \in Unpacked(v.mask) THEN recvBuffer[p][s][b] ELSE @[b]]]
  /\ stage' = [stage EXCEPT ![p][s] = "ready"]
  /\ UNCHANGED <<programVars, mainVars, written, setup, buffers, mpi>>

-----------------------------------------------------------------------------
(* The MPI library: the first message from p to q with a communicator and  *)
(* a tag goes to the first receive of q for them.                          *)
Matching(p, q, i, j) ==
  LET same(x, y) == x.comm = y.comm /\ x.tag = y.tag
      snd == sends[p][i]
      rcv == recvs[q][j]
  IN
  /\ snd.peer = q /\ rcv.peer = p /\ same(snd, rcv)
  /\ \A h \in 1 .. (i - 1) : ~(sends[p][h].peer = q /\ same(sends[p][h], snd))
  /\ \A h \in 1 .. (j - 1) : ~(recvs[q][h].peer = p /\ same(recvs[q][h], rcv))

Match(p, q) ==
  \E i \in DOMAIN sends[p], j \in DOMAIN recvs[q] :
    /\ Matching(p, q, i, j)
    /\ LET snd == sends[p][i]
           rcv == recvs[q][j]
           payload == IF EagerSends THEN snd.data
                      ELSE sendBuffer[p][snd.sync][snd.boundary]
       IN recvBuffer' =
            [recvBuffer EXCEPT ![q][rcv.sync][rcv.boundary] = payload]
    /\ sends' = [sends EXCEPT ![p] = RemoveAt(@, i)]
    /\ recvs' = [recvs EXCEPT ![q] = RemoveAt(@, j)]
    /\ UNCHANGED <<programVars, mainVars, written, ghosts, setup, sendBuffer, stage>>

-----------------------------------------------------------------------------
Init ==
  /\ program = <<>>
  /\ pos = [p \in Procs |-> 0]
  /\ pc = [p \in Procs |-> "idle"]
  /\ awaited = [p \in Procs |-> 1]
  /\ written = [p \in Procs |-> [a \in Arrays |-> 0]]
  /\ ghosts = [p \in Procs |-> [a \in Arrays |->
                 [b \in Boundaries |-> NeverWritten]]]
  /\ view = [p \in Procs |-> [s \in Synchronizers |->
               [array |-> CHOOSE a \in Arrays : TRUE, mask |-> Sides,
                op |-> 0]]]
  /\ neighbors = [p \in Procs |-> [s \in Synchronizers |->
                    [b \in Boundaries |-> -1]]]
  /\ tags = [p \in Procs |-> [s \in Synchronizers |-> InitialTags(p, s)]]
  /\ sendBuffer = [p \in Procs |-> [s \in Synchronizers |->
                     [b \in Boundaries |-> Uninitialized]]]
  /\ recvBuffer = sendBuffer
  /\ stage = [p \in Procs |-> [s \in Synchronizers |-> "ready"]]
  /\ sends = [p \in Procs |-> <<>>]
  /\ recvs = [p \in Procs |-> <<>>]

(* Every process has executed the whole program, and nothing is running.   *)
Finished ==
  /\ \A p \in Procs : pc[p] = "idle" /\ pos[p] = Len(program)
  /\ \A p \in Procs, s \in Synchronizers : stage[p][s] = "ready"

Terminated == Finished /\ UNCHANGED vars

Next ==
  \/ \E p \in Procs : Write(p) \/ Call(p) \/ Start(p) \/ FinishCall(p)
                        \/ FinishWait(p)
  \/ \E p \in Procs, s \in Synchronizers :
       Wait(p, s) \/ WorkerInit(p, s) \/ WorkerFinish(p, s)
  \/ \E p, q \in Procs : Match(p, q)
  \/ Terminated

Spec == Init /\ [][Next]_vars

(* Threads that can run do run, MPI makes progress, every process executes *)
(* the program to its end and waits for what it started (the destructor of *)
(* the synchronizer does).                                                 *)
Follow(p) == pos[p] < Len(program) /\ (Write(p) \/ Call(p))

Fairness ==
  /\ \A p \in Procs : /\ WF_vars(Follow(p)) /\ WF_vars(Start(p))
                      /\ WF_vars(FinishCall(p)) /\ WF_vars(FinishWait(p))
  /\ \A p \in Procs, s \in Synchronizers :
       /\ WF_vars(Wait(p, s))
       /\ WF_vars(WorkerInit(p, s)) /\ WF_vars(WorkerFinish(p, s))
  /\ \A p, q \in Procs : WF_vars(Match(p, q))

FairSpec == Spec /\ Fairness

-----------------------------------------------------------------------------
(* Correctness.                                                            *)

(* The last of the first n operations that satisfies a condition; or 0.    *)
LastOp(n, Test(_)) ==
  LET T == {k \in 1 .. n : Test(program[k])} IN
  IF T = {} THEN 0 ELSE CHOOSE k \in T : \A j \in T : j <= k

(* No exchange of array a is under way on p.                               *)
Settled(p, a) ==
  /\ stage[p][SyncOf[a]] = "ready"
  /\ pc[p] = "calling" => CurrentOp(p).array # a

(* What the ghosts across boundary b should hold: the opposite boundary of *)
(* the neighbour, as it was at the last exchange in this direction.        *)
ExpectedGhosts(p, a, b) ==
  LET k == LastOp(pos[p], LAMBDA op :
             op.kind = "synchronize" /\ op.array = a
               /\ Opposite(b[2]) \in op.mask)
      w == LastOp(k, LAMBDA op : op.kind = "write" /\ op.array = a)
      q == ProcessOf(Communicator[a],
                     DefaultNeighbor(Communicator[a][p], b[2]))
  IN IF k = 0 THEN NeverWritten
     ELSE Boundary(q, a, <<b[1], Opposite(b[2])>>, w)

(* When no exchange of an array is under way, every ghost holds what the   *)
(* neighbour's boundary held at the last exchange in its direction, and    *)
(* the directions outside the mask are as the exchanges before left them.  *)
GhostsMatchMask ==
  \A p \in Procs, a \in Arrays : Settled(p, a) =>
    \A b \in Boundaries :
      ~SkippedSide(p, b[2]) => ghosts[p][a][b] = ExpectedGhosts(p, a, b)

(* An exchange leaves the ghosts alone whose communication the program     *)
(* skips with negative tags.                                               *)
SkippedGhostsKept ==
  \A p \in Procs, a \in Arrays, b \in Boundaries :
    SkippedSide(p, b[2]) => ghosts[p][a][b] = NeverWritten

(* When the program has ended, no message and no receive is left that a    *)
(* later exchange with the same tags would take for its own.               *)
NoRequestLeftOver ==
  Finished => \A p \in Procs : sends[p] = <<>> /\ recvs[p] = <<>>

(* Every exchange that a process begins ends, whatever direction it has and*)
(* whichever thread executes it.                                           *)
ExchangesEnd ==
  \A p \in Procs :
    (\E a \in Arrays : ~Settled(p, a)) ~> (\A a \in Arrays : Settled(p, a))
=============================================================================
