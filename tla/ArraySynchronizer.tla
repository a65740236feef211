------------------------- MODULE ArraySynchronizer -------------------------
(***************************************************************************)
(* Ghost exchange of distributed arrays: every rank runs a main thread     *)
(* that executes the operations of DistributedArray(View) on a common      *)
(* program (SPMD), a ByteArraySynchronizer that runs at most one exchange  *)
(* at a time in one of four ways, Partitioner::ArraySynchronizer, which    *)
(* posts two receives and two sends, and the MPI library that matches them.*)
(*                                                                         *)
(* An array of rank r has LocalSize(r) local cells followed by Overlaps    *)
(* cells for the ghosts of the left and Overlaps cells for the ghosts of   *)
(* the right neighbour.                                                    *)
(***************************************************************************)
EXTENDS DistributedProgram

CONSTANT
  EagerWrites      (* may the program write an array during its exchange?  *)

ASSUME EagerWritesAssumption == EagerWrites \in BOOLEAN

-----------------------------------------------------------------------------
(* The four MPI calls of an exchange, in the order they are issued.        *)
RecvSides == {"recvLeft", "recvRight"}
SendSides == {"sendLeft", "sendRight"}
Sides == RecvSides \union SendSides

Stages == {"none"} \union Sides \union {"waitall", "done"}

(* The stage that follows each call.                                       *)
NextStage ==
  [recvLeft |-> "recvRight", recvRight |-> "sendLeft",
   sendLeft |-> "sendRight", sendRight |-> "waitall"]

(* The rank a call communicates with.                                      *)
Peer(r, side) ==
  IF side \in {"recvLeft", "sendLeft"} THEN Left(r) ELSE Right(r)

(* Faulty: the left ghosts are received behind the right ones.             *)
FirstCell_SwappedGhosts(r, side) ==
  CASE side = "recvLeft"  -> LocalSize(r) + Overlaps
    [] side = "recvRight" -> LocalSize(r)
    [] side = "sendLeft"  -> 0
    [] side = "sendRight" -> LocalSize(r) - Overlaps

(* Faulty: the right boundary is sent from the first ghost.                *)
FirstCell_OffByOverlaps(r, side) ==
  CASE side = "recvLeft"  -> LocalSize(r)
    [] side = "recvRight" -> LocalSize(r) + Overlaps
    [] side = "sendLeft"  -> 0
    [] side = "sendRight" -> LocalSize(r)

(* First cell of the buffer of a call.                                     *)
FirstCell(r, side) ==
  CASE side = "recvLeft"  -> LocalSize(r)
    [] side = "recvRight" -> LocalSize(r) + Overlaps
    [] side = "sendLeft"  -> 0
    [] side = "sendRight" -> LocalSize(r) - Overlaps

Window == 0 .. (Overlaps - 1)
Payloads == [Window -> Values]
NoData == <<>>
Pending == <<>>

(* What MPI knows of a send and of a receive; data is NoData while the     *)
(* payload has not been copied out of the send buffer.                     *)
SendRequests == [op : Ops, side : SendSides, data : Payloads \union {NoData}]
RecvRequests == [op : Ops, side : RecvSides]

-----------------------------------------------------------------------------
VARIABLES
  program,   (* operations the ranks execute, in this order                *)
  pos,       (* pos[r]: number of operations rank r has begun              *)
  pc,        (* pc[r]: what the main thread of r does                      *)
  waits,     (* waits[r]: synchronizers whose future the main thread of r  *)
             (* is blocked on                                              *)
  mem,       (* mem[r][a]: local data of array a on rank r                 *)
  alive,     (* alive[r][a]: the storage of a on r is allocated            *)
  async_op,  (* async_op[r][s]: operation the future refers to, 0: invalid *)
  stage,     (* stage[r][k]: progress of the exchange of operation k on r  *)
  requests,  (* requests[r][k]: its MPI requests that are not complete     *)
  sends,     (* sends[p][q]: messages p sent to q, in the order of calls   *)
  recvs,     (* recvs[p][q]: receives q posted for messages from p         *)
  matched    (* matched[p][q]: how many of them have been matched          *)

vars == <<program, pos, pc, waits, mem, alive, async_op, stage, requests,
          sends, recvs, matched>>

PcValues == {"idle", "starting", "communicating", "waiting", "destroying"}

TypeOK ==
  /\ program \in Seq(Operations)
  /\ Len(program) <= MaxOps
  /\ pos \in [Ranks -> 0 .. MaxOps]
  /\ pc \in [Ranks -> PcValues]
  /\ waits \in [Ranks -> SUBSET Synchronizers]
  /\ DOMAIN mem = Ranks
  /\ \A r \in Ranks : mem[r] \in [Arrays -> [Cells(r) -> Values]]
  /\ alive \in [Ranks -> [Arrays -> BOOLEAN]]
  /\ async_op \in [Ranks -> [Synchronizers -> 0 .. MaxOps]]
  /\ stage \in [Ranks -> [Ops -> Stages]]
  /\ requests \in [Ranks -> [Ops -> SUBSET Sides]]
  /\ sends \in [Ranks -> [Ranks -> Seq(SendRequests)]]
  /\ recvs \in [Ranks -> [Ranks -> Seq(RecvRequests)]]
  /\ matched \in [Ranks -> [Ranks -> Nat]]

-----------------------------------------------------------------------------
ArrayOf(k) == program[k].array
SynchronizerOf(k) == SyncOf[ArrayOf(k)]

(* The exchange of operation k is running on rank r.                       *)
Active(r, k) == stage[r][k] \notin {"none", "done"}

(* The future of synchronizer s is invalid or ready.                       *)
Ready(r, s) == async_op[r][s] # 0 => stage[r][async_op[r][s]] = "done"

(* Faulty: setValue makes the local data as short as the local range.      *)
WriteLocal_NoGhosts(r, op, k) ==
  IF op.kind = "setValue"
  THEN [c \in 0 .. (LocalSize(r) - 1) |-> Written(op, k, c)]
  ELSE mem[r][op.array]

(***************************************************************************)
(* The local write of an operation: copyFromGlobal writes the local cells, *)
(* setValue every cell, the ghosts included.                               *)
(***************************************************************************)
WriteLocal(r, op, k) ==
  CASE op.kind = "copyFromGlobal" ->
         [c \in Cells(r) |-> IF c < LocalSize(r)
                             THEN Written(op, k, LocalBegin(r) + c)
                             ELSE mem[r][op.array][c]]
    [] op.kind = "setValue" -> [c \in Cells(r) |-> Written(op, k, c)]
    [] OTHER -> mem[r][op.array]

-----------------------------------------------------------------------------
(* The main thread.                                                        *)

(***************************************************************************)
(* The next operation of rank r.  The ranks execute one common program:    *)
(* the first rank to get there chooses the operation, the others follow.   *)
(***************************************************************************)
NextOp(r, op) ==
  IF pos[r] < Len(program)
  THEN op = program[pos[r] + 1] /\ UNCHANGED program
  ELSE program' = Append(program, op)

(* No exchange of array a is running on rank r.                            *)
Quiet(r, a) ==
  \A k \in 1 .. pos[r] : ArrayOf(k) = a => ~Active(r, k)

(***************************************************************************)
(* Call of an operation that exchanges ghosts: the local write, if any,    *)
(* comes first; then synchronizeByteArrayAsync is entered.                 *)
(***************************************************************************)
BeginExchange(r) ==
  /\ pc[r] = "idle"
  /\ pos[r] < MaxOps
  /\ \E op \in Writers \union Starters :
       /\ NextOp(r, op)
       /\ alive[r][op.array]
       /\ op \in Writers /\ ~EagerWrites => Quiet(r, op.array)
       /\ mem' = [mem EXCEPT ![r][op.array] = WriteLocal(r, op, pos[r] + 1)]
       /\ waits' = [waits EXCEPT ![r] = {SyncOf[op.array]}]
  /\ pos' = [pos EXCEPT ![r] = @ + 1]
  /\ pc' = [pc EXCEPT ![r] = "starting"]
  /\ UNCHANGED <<alive, async_op, stage, requests, sends, recvs, matched>>

(* Faulty: the previous operation is not waited for.                       *)
StartExchange_NoWait(r) ==
  LET k == pos[r]
      s == SynchronizerOf(k)
      offloaded == program[k].policy \in {"threadpool", "async"}
  IN
  /\ pc[r] = "starting"
  /\ stage' = [stage EXCEPT ![r][k] = "recvLeft"]
  /\ waits' = [waits EXCEPT ![r] = {}]
  /\ IF offloaded
     THEN /\ async_op' = [async_op EXCEPT ![r][s] = k]
          /\ pc' = [pc EXCEPT ![r] = "idle"]
     ELSE /\ pc' = [pc EXCEPT ![r] = "communicating"]
          /\ UNCHANGED async_op
  /\ UNCHANGED <<program, pos, mem, alive, requests, sends, recvs, matched>>

(* Faulty: a deferred exchange is started by a worker, too.                *)
StartExchange_AllOffloaded(r) ==
  LET k == pos[r]
      s == SynchronizerOf(k)
      offloaded == program[k].policy # "synchronous"
  IN
  /\ pc[r] = "starting"
  /\ Ready(r, s)
  /\ stage' = [stage EXCEPT ![r][k] = "recvLeft"]
  /\ waits' = [waits EXCEPT ![r] = {}]
  /\ IF offloaded
     THEN /\ async_op' = [async_op EXCEPT ![r][s] = k]
          /\ pc' = [pc EXCEPT ![r] = "idle"]
     ELSE /\ pc' = [pc EXCEPT ![r] = "communicating"]
          /\ UNCHANGED async_op
  /\ UNCHANGED <<program, pos, mem, alive, requests, sends, recvs, matched>>

(***************************************************************************)
(* synchronizeByteArrayAsync after the wait for the previous operation:    *)
(* the exchange is started in the calling thread (synchronous, deferred)   *)
(* or handed to a worker thread (threadpool, async).                       *)
(***************************************************************************)
StartExchange(r) ==
  LET k == pos[r]
      s == SynchronizerOf(k)
      offloaded == program[k].policy \in {"threadpool", "async"}
  IN
  /\ pc[r] = "starting"
  /\ Ready(r, s)
  /\ stage' = [stage EXCEPT ![r][k] = "recvLeft"]
  /\ waits' = [waits EXCEPT ![r] = {}]
  /\ IF offloaded
     THEN /\ async_op' = [async_op EXCEPT ![r][s] = k]
          /\ pc' = [pc EXCEPT ![r] = "idle"]
     ELSE /\ pc' = [pc EXCEPT ![r] = "communicating"]
          /\ UNCHANGED async_op
  /\ UNCHANGED <<program, pos, mem, alive, requests, sends, recvs, matched>>

(***************************************************************************)
(* The main thread returns from synchronizeByteArrayAsync: when everything *)
(* is posted if the policy is deferred, after Waitall if it is synchronous.*)
(***************************************************************************)
FinishCall(r) ==
  LET k == pos[r]
      s == SynchronizerOf(k)
  IN
  /\ pc[r] = "communicating"
  /\ IF program[k].policy = "deferred"
     THEN /\ stage[r][k] = "waitall"
          /\ async_op' = [async_op EXCEPT ![r][s] = k]
     ELSE /\ stage[r][k] = "done"
          /\ UNCHANGED async_op
  /\ pc' = [pc EXCEPT ![r] = "idle"]
  /\ UNCHANGED <<program, pos, waits, mem, alive, stage, requests, sends,
                 recvs, matched>>

(* waitForSynchronization: blocks while the future is not ready.           *)
WaitForSynchronization(r, s) ==
  /\ pc[r] = "idle"
  /\ ~Ready(r, s)
  /\ pc' = [pc EXCEPT ![r] = "waiting"]
  /\ waits' = [waits EXCEPT ![r] = {s}]
  /\ UNCHANGED <<program, pos, mem, alive, async_op, stage, requests, sends,
                 recvs, matched>>

(* Faulty: waits only for a moment, like wait_for with a timeout.          *)
FinishWait_Poll(r) ==
  /\ pc[r] = "waiting"
  /\ pc' = [pc EXCEPT ![r] = "idle"]
  /\ waits' = [waits EXCEPT ![r] = {}]
  /\ UNCHANGED <<program, pos, mem, alive, async_op, stage, requests, sends,
                 recvs, matched>>

FinishWait(r) ==
  /\ pc[r] = "waiting"
  /\ \A s \in waits[r] : Ready(r, s)
  /\ pc' = [pc EXCEPT ![r] = "idle"]
  /\ waits' = [waits EXCEPT ![r] = {}]
  /\ UNCHANGED <<program, pos, mem, alive, async_op, stage, requests, sends,
                 recvs, matched>>

(***************************************************************************)
(* Release of an array: reset() deallocates at once, the destructor waits  *)
(* for the pending operation of its synchronizer and then deallocates.     *)
(***************************************************************************)
Release(r) ==
  /\ pc[r] = "idle"
  /\ pos[r] < MaxOps
  /\ \E op \in Releasers :
       /\ NextOp(r, op)
       /\ alive[r][op.array]
       /\ IF op.kind = "reset"
          THEN /\ alive' = [alive EXCEPT ![r][op.array] = FALSE]
               /\ UNCHANGED <<pc, waits>>
          ELSE /\ pc' = [pc EXCEPT ![r] = "destroying"]
               /\ waits' = [waits EXCEPT ![r] = {SyncOf[op.array]}]
               /\ UNCHANGED alive
  /\ pos' = [pos EXCEPT ![r] = @ + 1]
  /\ UNCHANGED <<mem, async_op, stage, requests, sends, recvs, matched>>

(* Faulty: the destructor does not wait.                                   *)
FinishDestructor_NoWait(r) ==
  /\ pc[r] = "destroying"
  /\ alive' = [alive EXCEPT ![r][ArrayOf(pos[r])] = FALSE]
  /\ pc' = [pc EXCEPT ![r] = "idle"]
  /\ waits' = [waits EXCEPT ![r] = {}]
  /\ UNCHANGED <<program, pos, mem, async_op, stage, requests, sends, recvs,
                 matched>>

FinishDestructor(r) ==
  /\ pc[r] = "destroying"
  /\ \A s \in waits[r] : Ready(r, s)
  /\ alive' = [alive EXCEPT ![r][ArrayOf(pos[r])] = FALSE]
  /\ pc' = [pc EXCEPT ![r] = "idle"]
  /\ waits' = [waits EXCEPT ![r] = {}]
  /\ UNCHANGED <<program, pos, mem, async_op, stage, requests, sends, recvs,
                 matched>>

-----------------------------------------------------------------------------
(* The thread that executes an exchange: the main thread of the rank       *)
(* (synchronous, deferred) or a worker (threadpool, async).                *)

(* One MPI_Irecv or MPI_Isend of synchronizeByteArrayAsyncWorker.          *)
Post(r, k) ==
  LET side == stage[r][k]
      q == Peer(r, side)
  IN
  /\ side \in Sides
  /\ IF side \in RecvSides
     THEN /\ recvs' = [recvs EXCEPT ![q][r] = Append(@, [op |-> k, side |-> side])]
          /\ UNCHANGED sends
     ELSE /\ sends' = [sends EXCEPT ![r][q] =
                        Append(@, [op |-> k, side |-> side, data |-> NoData])]
          /\ UNCHANGED recvs
  /\ requests' = [requests EXCEPT ![r][k] = @ \union {side}]
  /\ stage' = [stage EXCEPT ![r][k] = NextStage[side]]
  /\ UNCHANGED <<program, pos, pc, waits, mem, alive, async_op, matched>>

(* Faulty: returns while requests are incomplete.                          *)
Waitall_NoWait(r, k) ==
  /\ stage[r][k] = "waitall"
  /\ program[k].policy = "deferred" => SynchronizerOf(k) \in waits[r]
  /\ stage' = [stage EXCEPT ![r][k] = "done"]
  /\ UNCHANGED <<program, pos, pc, waits, mem, alive, async_op, requests,
                 sends, recvs, matched>>

(***************************************************************************)
(* MPI_Waitall returns when every request is complete.  A deferred         *)
(* exchange calls it only when the main thread waits for the future.       *)
(***************************************************************************)
Waitall(r, k) ==
  /\ stage[r][k] = "waitall"
  /\ requests[r][k] = {}
  /\ program[k].policy = "deferred" => SynchronizerOf(k) \in waits[r]
  /\ stage' = [stage EXCEPT ![r][k] = "done"]
  /\ UNCHANGED <<program, pos, pc, waits, mem, alive, async_op, requests,
                 sends, recvs, matched>>

-----------------------------------------------------------------------------
(* The MPI library: messages from p to q with the same tag are matched in  *)
(* the order of the calls.  The payload is read from the send buffer when  *)
(* the message is matched, or earlier if the library buffers it.           *)

Payload(p, m) ==
  IF m.data # NoData THEN m.data
  ELSE [w \in Window |-> mem[p][ArrayOf(m.op)][FirstCell(p, m.side) + w]]

Buffer(p, q) ==
  \E i \in (matched[p][q] + 1) .. Len(sends[p][q]) :
    LET m == sends[p][q][i] IN
    /\ m.data = NoData
    /\ sends' = [sends EXCEPT ![p][q][i].data = Payload(p, m)]
    /\ requests' = [requests EXCEPT ![p][m.op] = @ \ {m.side}]
    /\ UNCHANGED <<program, pos, pc, waits, mem, alive, async_op, stage,
                   recvs, matched>>

(* Cells of array a of rank q after payload d arrived in the window at f.  *)
Received(q, a, f, d) ==
  [c \in Cells(q) |-> IF c \in f .. (f + Overlaps - 1)
                      THEN d[c - f]
                      ELSE mem[q][a][c]]

Match(p, q) ==
  LET i == matched[p][q] + 1 IN
  /\ i <= Len(sends[p][q])
  /\ i <= Len(recvs[p][q])
  /\ LET snd == sends[p][q][i]
         rcv == recvs[p][q][i]
         a == ArrayOf(rcv.op)
         complete == {<<p, snd.op, snd.side>>, <<q, rcv.op, rcv.side>>}
     IN /\ mem' = [mem EXCEPT ![q][a] =
                     Received(q, a, FirstCell(q, rcv.side), Payload(p, snd))]
        /\ requests' = [r \in Ranks |-> [k \in Ops |->
             {side \in requests[r][k] : <<r, k, side>> \notin complete}]]
  /\ matched' = [matched EXCEPT ![p][q] = i]
  /\ sends' = [sends EXCEPT ![p][q][i].data = NoData]
  /\ UNCHANGED <<program, pos, pc, waits, alive, async_op, stage, recvs>>

-----------------------------------------------------------------------------
Init ==
  /\ program = <<>>
  /\ pos = [r \in Ranks |-> 0]
  /\ pc = [r \in Ranks |-> "idle"]
  /\ waits = [r \in Ranks |-> {}]
  /\ mem = [r \in Ranks |-> [a \in Arrays |->
              [c \in Cells(r) |-> IF c < LocalSize(r)
                                  THEN Initial(a, LocalBegin(r) + c)
                                  ELSE NeverWritten(a)]]]
  /\ alive = [r \in Ranks |-> [a \in Arrays |-> TRUE]]
  /\ async_op = [r \in Ranks |-> [s \in Synchronizers |-> 0]]
  /\ stage = [r \in Ranks |-> [k \in Ops |-> "none"]]
  /\ requests = [r \in Ranks |-> [k \in Ops |-> {}]]
  /\ sends = [p \in Ranks |-> [q \in Ranks |-> <<>>]]
  /\ recvs = [p \in Ranks |-> [q \in Ranks |-> <<>>]]
  /\ matched = [p \in Ranks |-> [q \in Ranks |-> 0]]

MainStep(r) ==
  \/ BeginExchange(r)
  \/ StartExchange(r)
  \/ FinishCall(r)
  \/ \E s \in Synchronizers : WaitForSynchronization(r, s)
  \/ FinishWait(r)
  \/ Release(r)
  \/ FinishDestructor(r)

MPIStep(p, q) == Buffer(p, q) \/ Match(p, q)

(* Every rank has executed the whole program and no exchange is pending.   *)
Finished ==
  /\ \A r \in Ranks : pc[r] = "idle" /\ pos[r] = Len(program)
  /\ \A r \in Ranks, s \in Synchronizers : Ready(r, s)

Terminated == Finished /\ UNCHANGED vars

Next ==
  \/ \E r \in Ranks : MainStep(r)
  \/ \E r \in Ranks, k \in Ops : Post(r, k) \/ Waitall(r, k)
  \/ \E p, q \in Ranks : MPIStep(p, q)
  \/ Terminated

Spec == Init /\ [][Next]_vars

(***************************************************************************)
(* Fairness: threads that can run do run, the MPI library makes progress,  *)
(* every rank executes the program to its end (SPMD), and a rank waits for *)
(* what it started (at the latest in the destructor of the array).         *)
(***************************************************************************)
Follow(r) == BeginExchange(r) /\ pos[r] < Len(program)
FollowRelease(r) == Release(r) /\ pos[r] < Len(program)

Fairness ==
  /\ \A r \in Ranks :
       /\ WF_vars(Follow(r)) /\ WF_vars(FollowRelease(r))
       /\ WF_vars(StartExchange(r)) /\ WF_vars(FinishCall(r))
       /\ WF_vars(FinishWait(r)) /\ WF_vars(FinishDestructor(r))
       /\ \A s \in Synchronizers : WF_vars(WaitForSynchronization(r, s))
       /\ \A k \in Ops : WF_vars(Post(r, k)) /\ WF_vars(Waitall(r, k))
  /\ \A p, q \in Ranks : WF_vars(Match(p, q))

FairSpec == Spec /\ Fairness

-----------------------------------------------------------------------------
(* Correctness.                                                            *)

(* When the last exchange of an array is done, the ghosts hold the values  *)
(* that the neighbours' boundary cells had when they began that exchange.  *)
GhostsMatchNeighbours ==
  \A r \in Ranks, a \in Arrays : \A k \in 1 .. pos[r] :
    LastExchange(program, pos[r], a, k) /\ stage[r][k] = "done" =>
      \A c \in GhostCells(r) :
        mem[r][a][c] = ExpectedGhosts(program, r, a, k)[c]

(* The same once the program has ended, even if it wrote arrays while they *)
(* were being exchanged: the last exchange of each array repairs the ghosts*)
(* of all ranks.                                                           *)
GhostsMatchAtEnd == Finished => GhostsMatchNeighbours

(* "At most one async operation may be active at a time": two exchanges of *)
(* one synchronizer never run on a rank at the same time, whatever threads *)
(* execute them.                                                           *)
AtMostOneActive ==
  \A r \in Ranks : \A j, k \in 1 .. pos[r] :
    Active(r, j) /\ Active(r, k) /\ SynchronizerOf(j) = SynchronizerOf(k)
      => j = k

(* No exchange runs on an array whose storage has been deallocated.        *)
StorageOutlivesExchange ==
  \A r \in Ranks : \A k \in 1 .. pos[r] :
    Active(r, k) => alive[r][ArrayOf(k)]

(* The receive that is posted for a send: the one that faces it, but with  *)
(* fewer than three ranks, where all messages are between one pair, the    *)
(* one of the same side (which swaps the ghosts: GhostTwoRanks.cfg).       *)
Taker ==
  IF NProc > 2 THEN [sendLeft |-> "recvRight", sendRight |-> "recvLeft"]
               ELSE [sendLeft |-> "recvLeft", sendRight |-> "recvRight"]

(* All exchanges of all synchronizers use one communicator and one tag:    *)
(* still no message is taken by a receive of another exchange, nor of the  *)
(* wrong side (synchronizeByteArrayAsyncWorker).                           *)
NoCrossTalk ==
  \A p, q \in Ranks : \A i \in 1 .. matched[p][q] :
    /\ sends[p][q][i].op = recvs[p][q][i].op
    /\ recvs[p][q][i].side = Taker[sends[p][q][i].side]

(* When the program has ended no message and no receive is left over.      *)
NoMessageLeftOver ==
  Finished => \A p, q \in Ranks :
    matched[p][q] = Len(sends[p][q]) /\ matched[p][q] = Len(recvs[p][q])

(* An exchange is a synchronization with the neighbours: it is done only   *)
(* after both of them have begun it.                                       *)
NeighboursReached ==
  \A r \in Ranks : \A k \in 1 .. pos[r] :
    stage[r][k] = "done" => pos[Left(r)] >= k /\ pos[Right(r)] >= k

(* Every exchange that a rank begins is eventually done.                   *)
EveryExchangeFinishes ==
  \A r \in Ranks, k \in Ops :
    (pos[r] >= k /\ IsExchange(program[k])) ~> (stage[r][k] = "done")

(***************************************************************************)
(* Refinement: while the last exchange of an array is under way its ghosts *)
(* are pending; once it is done they are what the abstract exchange gives. *)
(***************************************************************************)
GhostsOf(r, a) ==
  IF \E k \in 1 .. pos[r] :
       LastExchange(program, pos[r], a, k) /\ stage[r][k] # "done"
  THEN Pending
  ELSE [c \in GhostCells(r) |-> mem[r][a][c]]

Abstract == INSTANCE GhostExchange WITH
  begun <- pos,
  ghosts <- [r \in Ranks |-> [a \in Arrays |-> GhostsOf(r, a)]]

(* The exchange through MPI implements the abstract neighbour exchange.    *)
ImplementsGhostExchange == Abstract!Spec
=============================================================================
