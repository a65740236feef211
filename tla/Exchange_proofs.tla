-------------------------- MODULE Exchange_proofs ---------------------------
(***************************************************************************)
(* Proofs about the ghost exchange, for every number of ranks, every array *)
(* size and every program whose ranks post in order.  First the messages:  *)
(* none is taken by another operation, none is left over, and an exchange  *)
(* waits for both neighbours.  Then, with three or more ranks, what they   *)
(* deliver: the ghosts equal the neighbours' boundaries as of the same     *)
(* exchange, and the exchange through MPI implements GhostExchange.        *)
(***************************************************************************)
EXTENDS ArraySynchronizer_proofs, WellFoundedInduction

-----------------------------------------------------------------------------
(* The ranks post the calls of their exchanges in the order of the program *)
(* if all arrays share one synchronizer, or if no exchange is offloaded to *)
(* a worker.  Otherwise two workers of a rank race for the order, and one  *)
(* tag cannot tell their messages apart.                                   *)
OneSynchronizer == \A a, b \in Arrays : SyncOf[a] = SyncOf[b]
InThread == Policies \subseteq {"synchronous", "deferred"}
InOrder == OneSynchronizer \/ InThread

-----------------------------------------------------------------------------
(* The order of the exchanges of a rank.                                   *)

(* Exchanges, and they only, have a stage; only the operation just begun   *)
(* has not been started.                                                   *)
StartedOK ==
  /\ \A r \in Ranks :
       pc[r] \in {"starting", "communicating"} => IsExchange(program[pos[r]])
  /\ \A r \in Ranks, k \in Ops : stage[r][k] # "none" => IsExchange(program[k])
  /\ \A r \in Ranks : \A k \in 1 .. pos[r] :
       IsExchange(program[k]) =>
         \/ stage[r][k] # "none"
         \/ pc[r] = "starting" /\ k = pos[r]

(* A synchronizer starts an exchange after its previous ones are done.     *)
SequentialOK ==
  \A r \in Ranks : \A k \in 1 .. pos[r] : \A j \in 1 .. (k - 1) :
    /\ stage[r][k] # "none" /\ IsExchange(program[j])
    /\ SynchronizerOf(j) = SynchronizerOf(k)
    => stage[r][j] = "done"

(* An exchange that the main thread executes is posted before the call of  *)
(* it returns.                                                             *)
InThreadOK ==
  InThread =>
    \A r \in Ranks : \A k \in 1 .. pos[r] :
      IsExchange(program[k]) =>
        \/ stage[r][k] \in {"waitall", "done"}
        \/ pc[r] \in {"starting", "communicating"} /\ k = pos[r]

OrderOK == StartedOK /\ SequentialOK /\ InThreadOK

-----------------------------------------------------------------------------
(* The queues of the MPI library.                                          *)

(* Stages of an exchange in which a call has been issued.                  *)
StagesAfter ==
  [recvLeft  |-> {"recvRight", "sendLeft", "sendRight", "waitall", "done"},
   recvRight |-> {"sendLeft", "sendRight", "waitall", "done"},
   sendLeft  |-> {"sendRight", "waitall", "done"},
   sendRight |-> {"waitall", "done"}]

Posted(r, k, side) == stage[r][k] \in StagesAfter[side]

(* The place of a call in the queue of a pair of ranks: with fewer than    *)
(* three ranks both calls of an operation are between the same two ranks.  *)
Key(k, side) ==
  2 * k + (IF NProc >= 3 \/ side \in {"sendLeft", "recvLeft"} THEN 0 ELSE 1)

(* The queue of a pair holds the calls that have been issued ...           *)
QueuesHoldPosted ==
  \A p, q \in Ranks :
    /\ \A i \in 1 .. Len(sends[p][q]) :
         /\ Posted(p, sends[p][q][i].op, sends[p][q][i].side)
         /\ Peer(p, sends[p][q][i].side) = q
    /\ \A i \in 1 .. Len(recvs[p][q]) :
         /\ Posted(q, recvs[p][q][i].op, recvs[p][q][i].side)
         /\ Peer(q, recvs[p][q][i].side) = p

(* ... all of them ...                                                     *)
PostedInQueues ==
  \A r \in Ranks, k \in Ops :
    /\ \A side \in SendSides : Posted(r, k, side) =>
         \E i \in 1 .. Len(sends[r][Peer(r, side)]) :
           /\ sends[r][Peer(r, side)][i].op = k
           /\ sends[r][Peer(r, side)][i].side = side
    /\ \A side \in RecvSides : Posted(r, k, side) =>
         \E i \in 1 .. Len(recvs[Peer(r, side)][r]) :
           /\ recvs[Peer(r, side)][r][i].op = k
           /\ recvs[Peer(r, side)][r][i].side = side

(* ... in the order of the program ...                                     *)
KeyAt(queue, i) == Key(queue[i].op, queue[i].side)

QueuesIncrease ==
  \A p, q \in Ranks :
    /\ \A i, j \in 1 .. Len(sends[p][q]) :
         i < j => KeyAt(sends[p][q], i) < KeyAt(sends[p][q], j)
    /\ \A i, j \in 1 .. Len(recvs[p][q]) :
         i < j => KeyAt(recvs[p][q], i) < KeyAt(recvs[p][q], j)

(* ... so that sends and receives of a pair correspond one to one.         *)
QueuesAgree ==
  \A p, q \in Ranks :
    \A i \in 1 .. Len(sends[p][q]) : i <= Len(recvs[p][q]) =>
      KeyAt(sends[p][q], i) = KeyAt(recvs[p][q], i)

(* What is matched has been posted; what is not matched, or not yet copied *)
(* out of the send buffer, is an incomplete request.                       *)
RequestsOK ==
  /\ \A r \in Ranks, k \in Ops : stage[r][k] = "done" => requests[r][k] = {}
  /\ \A p, q \in Ranks :
       /\ matched[p][q] <= Len(sends[p][q])
       /\ matched[p][q] <= Len(recvs[p][q])
       /\ \A i \in (matched[p][q] + 1) .. Len(sends[p][q]) :
            sends[p][q][i].data = NoData =>
              sends[p][q][i].side \in requests[p][sends[p][q][i].op]
       /\ \A i \in (matched[p][q] + 1) .. Len(recvs[p][q]) :
            recvs[p][q][i].side \in requests[q][recvs[p][q][i].op]

QueuesOK ==
  /\ QueuesHoldPosted
  /\ PostedInQueues
  /\ QueuesIncrease
  /\ QueuesAgree

(* A receive that is complete came from a neighbour that has begun the     *)
(* same operation.                                                         *)
Arrived(r, k, side) == Posted(r, k, side) /\ side \notin requests[r][k]

NeighboursOK ==
  \A r \in Ranks, k \in Ops : \A side \in RecvSides :
    Arrived(r, k, side) => k <= pos[Peer(r, side)]

MessagesInv == IndInv /\ OrderOK /\ QueuesOK /\ RequestsOK /\ NeighboursOK


-----------------------------------------------------------------------------
(* Order.                                                                  *)

(* Writes and synchronizations are exchanges, releases are not; only       *)
(* writes write, and the calling thread executes them.                     *)
LEMMA OperationKinds ==
  /\ \A op \in Writers \union Starters :
       /\ IsExchange(op) /\ op \in Operations
       /\ op.kind \in WriteKinds => op \in Writers
       /\ InThread => op.policy \notin {"threadpool", "async"}
  /\ \A op \in Releasers :
       ~IsExchange(op) /\ op.kind \notin WriteKinds /\ op \in Operations
<1>1. /\ WriteKinds \subseteq {"copyFromGlobal", "setValue"}
      /\ Releases \subseteq {"destructor", "reset"}
  BY ConstantsAssumption
<1>2. ASSUME NEW op \in Writers
      PROVE  op.kind \in WriteKinds /\ op.policy = "synchronous"
  BY DEF Writers
<1>3. ASSUME NEW op \in Starters
      PROVE  op.kind = "synchronizeByteArrayAsync" /\ op.policy \in Policies
  BY DEF Starters, StartKinds
<1>4. ASSUME NEW op \in Releasers
      PROVE  op.kind \in Releases
  BY DEF Releasers
<1>5. ASSUME NEW op \in Writers \union Starters
      PROVE  /\ IsExchange(op) /\ op \in Operations
             /\ op.kind \in WriteKinds => op \in Writers
             /\ InThread => op.policy \notin {"threadpool", "async"}
  BY <1>1, <1>2, <1>3 DEF IsExchange, StartKinds, Operations, InThread
<1>6. ASSUME NEW op \in Releasers
      PROVE  ~IsExchange(op) /\ op.kind \notin WriteKinds /\ op \in Operations
  BY <1>1, <1>4 DEF IsExchange, StartKinds, Operations
<1>. QED BY <1>5, <1>6

(* An operation that a rank begins is appended to the program or is already*)
(* in it; it does not touch the exchanges.                                 *)
LEMMA BeginOperation ==
  ASSUME TypeOK, PositionsOK, NEW r \in Ranks, BeginExchange(r) \/ Release(r)
  PROVE  /\ pos[r] + 1 \in Ops /\ pos[r] + 1 \in 1 .. Len(program')
         /\ pos' = [pos EXCEPT ![r] = @ + 1]
         /\ program' \in Seq(Operations)
         /\ \A k \in 1 .. Len(program) : program'[k] = program[k]
         /\ \A q \in Ranks : \A k \in 1 .. pos[q] :
              k \in Ops /\ program'[k] = program[k]
         /\ UNCHANGED <<async_op, stage, requests, sends, recvs, matched>>
         /\ pc[r] = "idle"
         /\ \/ /\ program'[pos[r] + 1] \in Writers \union Starters
               /\ pc' = [pc EXCEPT ![r] = "starting"]
            \/ /\ program'[pos[r] + 1] \in Releasers
               /\ mem' = mem
               /\ pc' = pc \/ pc' = [pc EXCEPT ![r] = "destroying"]
<1>1. /\ pos[r] + 1 \in Ops /\ pos[r] + 1 <= Len(program')
      /\ pos' = [pos EXCEPT ![r] = @ + 1] /\ pc[r] = "idle"
      /\ Len(program') \in Nat
      /\ \A k \in 1 .. Len(program) : program'[k] = program[k]
      /\ UNCHANGED <<async_op, stage, requests, sends, recvs, matched>>
  BY BeginAdvances
<1>2. pos[r] < MaxOps /\ pos[r] \in Nat
  BY DEF BeginExchange, Release, TypeOK
<1>3. /\ program' \in Seq(Operations)
      /\ \/ /\ program'[pos[r] + 1] \in Writers \union Starters
            /\ pc' = [pc EXCEPT ![r] = "starting"]
         \/ /\ program'[pos[r] + 1] \in Releasers
            /\ mem' = mem
            /\ pc' = pc \/ pc' = [pc EXCEPT ![r] = "destroying"]
  <2>1. CASE BeginExchange(r)
    <3>1. PICK op \in Writers \union Starters : NextOp(r, op)
      BY <2>1 DEF BeginExchange
    <3>2. op \in Operations
      BY OperationKinds
    <3>3. program' \in Seq(Operations) /\ program'[pos[r] + 1] = op
      BY <1>2, <3>1, <3>2, NextOpGrows
    <3>. QED BY <2>1, <3>3 DEF BeginExchange
  <2>2. CASE Release(r)
    <3>1. PICK op \in Releasers : NextOp(r, op)
      BY <2>2 DEF Release
    <3>2. op \in Operations
      BY OperationKinds
    <3>3. program' \in Seq(Operations) /\ program'[pos[r] + 1] = op
      BY <1>2, <3>1, <3>2, NextOpGrows
    <3>. QED BY <2>2, <3>3 DEF Release
  <2>. QED BY <2>1, <2>2
<1>4. ASSUME NEW q \in Ranks, NEW k \in 1 .. pos[q]
      PROVE  k \in Ops /\ program'[k] = program[k]
  <2>1. k \in Ops /\ k <= pos[q]
    BY ConstantsAssumption DEF TypeOK, Ops
  <2>2. k \in 1 .. Len(program)
    BY <2>1, BegunOperation
  <2>. QED BY <1>1, <2>1, <2>2
<1>5. pos[r] + 1 \in 1 .. Len(program')
  BY <1>1, <1>2
<1>. QED BY <1>1, <1>3, <1>4, <1>5

LEMMA OrderInit == Init => OrderOK
<1> SUFFICES ASSUME Init PROVE OrderOK
  OBVIOUS
<1>1. /\ \A r \in Ranks : pc[r] = "idle" /\ 1 .. pos[r] = {}
      /\ \A r \in Ranks, k \in Ops : stage[r][k] = "none"
  BY DEF Init
<1>. QED BY <1>1 DEF OrderOK, StartedOK, SequentialOK, InThreadOK

(* An operation is begun.                                                  *)
LEMMA OrderBegin ==
  ASSUME TypeOK, PositionsOK, OrderOK, NEW r \in Ranks,
         BeginExchange(r) \/ Release(r)
  PROVE  OrderOK'
<1> DEFINE n == pos[r] + 1
<1>1. /\ n \in Ops /\ pos'[r] = n /\ pc[r] = "idle"
      /\ \A q \in Ranks : \A k \in 1 .. pos[q] :
           k \in Ops /\ program'[k] = program[k]
      /\ stage' = stage
      /\ \A q \in Ranks : q # r => pos'[q] = pos[q] /\ pc'[q] = pc[q]
      /\ \/ IsExchange(program'[n]) /\ pc'[r] = "starting"
         \/ ~IsExchange(program'[n]) /\ pc'[r] \in {"idle", "destroying"}
  <2>1. /\ n \in Ops /\ pos' = [pos EXCEPT ![r] = n] /\ pc[r] = "idle"
        /\ \A q \in Ranks : \A k \in 1 .. pos[q] :
             k \in Ops /\ program'[k] = program[k]
        /\ stage' = stage
        /\ \/ /\ program'[n] \in Writers \union Starters
              /\ pc' = [pc EXCEPT ![r] = "starting"]
           \/ /\ program'[n] \in Releasers
              /\ pc' = pc \/ pc' = [pc EXCEPT ![r] = "destroying"]
    BY BeginOperation
  <2> HIDE DEF n
  <2>2. /\ pos'[r] = n
        /\ \A q \in Ranks : q # r => pos'[q] = pos[q] /\ pc'[q] = pc[q]
    BY <2>1 DEF TypeOK
  <2>3. \/ IsExchange(program'[n]) /\ pc'[r] = "starting"
        \/ ~IsExchange(program'[n]) /\ pc'[r] \in {"idle", "destroying"}
    BY <2>1, OperationKinds DEF TypeOK
  <2>. QED BY <2>1, <2>2, <2>3
<1>2. \A q \in Ranks : pos[q] \in Nat
  BY DEF TypeOK
<1>3. stage[r][n] = "none"
  BY <1>1, <1>2 DEF PositionsOK
<1>4. \A q \in Ranks : \A k \in 1 .. pos'[q] :
        k \in 1 .. pos[q] \/ (q = r /\ k = n)
  BY <1>1, <1>2
<1> HIDE DEF n
<1>5. ASSUME NEW q \in Ranks, NEW k \in 1 .. pos[q]
      PROVE  /\ IsExchange(program[k])' <=> IsExchange(program[k])
             /\ SynchronizerOf(k)' = SynchronizerOf(k)
             /\ k \in Ops
  BY <1>1 DEF IsExchange, SynchronizerOf, ArrayOf
<1>6. StartedOK'
  <2>1. ASSUME NEW q \in Ranks, pc'[q] \in {"starting", "communicating"}
        PROVE  IsExchange(program[pos[q]])'
    <3>1. CASE q = r
      BY <1>1, <2>1, <3>1
    <3>2. CASE q # r
      <4>1. pc[q] \in {"starting", "communicating"} /\ pos'[q] = pos[q]
        BY <1>1, <2>1, <3>2
      <4>2. pos[q] \in 1 .. pos[q]
        BY <1>2, <4>1 DEF PositionsOK
      <4>3. IsExchange(program[pos[q]])
        BY <4>1 DEF OrderOK, StartedOK
      <4>4. IsExchange(program'[pos[q]])
        BY <1>5, <4>2, <4>3
      <4>. QED BY <4>1, <4>4
    <3>. QED BY <3>1, <3>2
  <2>2. ASSUME NEW q \in Ranks, NEW k \in Ops, stage'[q][k] # "none"
        PROVE  IsExchange(program[k])'
    <3>1. k \in 1 .. pos[q] /\ IsExchange(program[k])
      BY <1>1, <1>2, <2>2 DEF PositionsOK, OrderOK, StartedOK, Ops
    <3>. QED BY <1>5, <3>1
  <2>3. ASSUME NEW q \in Ranks, NEW k \in 1 .. pos'[q], IsExchange(program[k])'
        PROVE  \/ stage'[q][k] # "none"
               \/ pc'[q] = "starting" /\ k = pos'[q]
    <3>1. CASE q = r /\ k = n
      BY <1>1, <2>3, <3>1
    <3>2. CASE k \in 1 .. pos[q]
      <4>1. IsExchange(program[k])
        BY <1>5, <2>3, <3>2
      <4>2. \/ stage[q][k] # "none"
            \/ pc[q] = "starting" /\ k = pos[q]
        BY <3>2, <4>1 DEF OrderOK, StartedOK
      <4>. QED BY <1>1, <4>2
    <3>. QED BY <1>4, <3>1, <3>2
  <2>. QED BY <2>1, <2>2, <2>3 DEF StartedOK
<1>7. SequentialOK'
  <2>1. ASSUME NEW q \in Ranks, NEW k \in 1 .. pos'[q], NEW j \in 1 .. (k - 1),
               stage'[q][k] # "none", IsExchange(program[j])',
               SynchronizerOf(j)' = SynchronizerOf(k)'
        PROVE  stage'[q][j] = "done"
    <3>1. k \in 1 .. pos[q]
      BY <1>1, <1>3, <1>4, <2>1
    <3>2. j \in 1 .. pos[q]
      BY <1>2, <3>1
    <3>3. IsExchange(program[j]) /\ SynchronizerOf(j) = SynchronizerOf(k)
      BY <1>5, <2>1, <3>1, <3>2
    <3>. QED BY <1>1, <2>1, <3>1, <3>3 DEF OrderOK, SequentialOK
  <2>. QED BY <2>1 DEF SequentialOK
<1>8. InThreadOK'
  <2>1. ASSUME InThread, NEW q \in Ranks, NEW k \in 1 .. pos'[q],
               IsExchange(program[k])'
        PROVE  \/ stage'[q][k] \in {"waitall", "done"}
               \/ pc'[q] \in {"starting", "communicating"} /\ k = pos'[q]
    <3>1. CASE q = r /\ k = n
      BY <1>1, <2>1, <3>1
    <3>2. CASE k \in 1 .. pos[q]
      <4>1. IsExchange(program[k])
        BY <1>5, <2>1, <3>2
      <4>2. \/ stage[q][k] \in {"waitall", "done"}
            \/ pc[q] \in {"starting", "communicating"} /\ k = pos[q]
        BY <2>1, <3>2, <4>1 DEF OrderOK, InThreadOK
      <4>. QED BY <1>1, <4>2
    <3>. QED BY <1>4, <3>1, <3>2
  <2>. QED BY <2>1 DEF InThreadOK, InThread
<1>. QED BY <1>6, <1>7, <1>8 DEF OrderOK

(* An exchange is started.                                                 *)
LEMMA OrderStart ==
  ASSUME IndInv, OrderOK, NEW r \in Ranks, StartExchange(r)
  PROVE  OrderOK'
<1> DEFINE n == pos[r]
           s == SynchronizerOf(n)
<1>0. /\ TypeOK /\ PositionsOK /\ FuturesOK
      /\ stage \in [Ranks -> [Ops -> Stages]] /\ pc \in [Ranks -> PcValues]
      /\ \A q \in Ranks : pos[q] \in 0 .. MaxOps
      /\ MaxOps \in Nat
  BY ConstantsAssumption DEF IndInv, TypeOK
<1>1. /\ pc[r] = "starting" /\ Ready(r, s)
      /\ stage' = [stage EXCEPT ![r][n] = "recvLeft"]
      /\ \/ pc' = [pc EXCEPT ![r] = "communicating"]
         \/ /\ program[n].policy \in {"threadpool", "async"}
            /\ pc' = [pc EXCEPT ![r] = "idle"]
      /\ UNCHANGED <<program, pos>>
  BY DEF StartExchange
<1>2. n \in Ops /\ stage[r][n] = "none" /\ IsExchange(program[n])
  BY <1>0, <1>1, CurrentOperation DEF PositionsOK, OrderOK, StartedOK
<1>3. /\ stage'[r][n] = "recvLeft"
      /\ \A q \in Ranks : q # r => stage'[q] = stage[q] /\ pc'[q] = pc[q]
      /\ \A k \in Ops : k # n => stage'[r][k] = stage[r][k]
      /\ pc'[r] \in {"idle", "communicating"}
  BY <1>0, <1>1, <1>2
<1>4. \A q \in Ranks : \A k \in 1 .. pos[q] : k \in Ops
  BY <1>0 DEF Ops
<1>5. UNCHANGED <<program, pos>> /\ \A k : SynchronizerOf(k)' = SynchronizerOf(k)
  BY <1>1 DEF SynchronizerOf, ArrayOf
<1>6. StartedOK'
  <2>1. \A q \in Ranks : pc'[q] \in {"starting", "communicating"} =>
          IsExchange(program[pos[q]])
    BY <1>2, <1>3 DEF OrderOK, StartedOK
  <2>2. \A q \in Ranks, k \in Ops : stage'[q][k] # "none" => IsExchange(program[k])
    BY <1>2, <1>3 DEF OrderOK, StartedOK
  <2>3. ASSUME NEW q \in Ranks, NEW k \in 1 .. pos[q], IsExchange(program[k])
        PROVE  \/ stage'[q][k] # "none"
               \/ pc'[q] = "starting" /\ k = pos[q]
    BY <1>3, <1>4, <2>3 DEF OrderOK, StartedOK
  <2>. QED BY <1>5, <2>1, <2>2, <2>3 DEF StartedOK
<1>7. SequentialOK'
  <2>1. ASSUME NEW q \in Ranks, NEW k \in 1 .. pos[q], NEW j \in 1 .. (k - 1),
               stage'[q][k] # "none", IsExchange(program[j]),
               SynchronizerOf(j) = SynchronizerOf(k)
        PROVE  stage'[q][j] = "done"
    <3>1. j \in 1 .. pos[q] /\ j < k /\ k \in Ops /\ j \in Ops /\ k <= pos[q]
      BY <1>0, <1>4
    <3>2. CASE q = r /\ k = n
      <4>1. stage[r][j] # "none"
        BY <2>1, <3>1, <3>2 DEF OrderOK, StartedOK, Ops
      <4>2. Active(r, j) => async_op[r][s] = j
        BY <1>0, <1>1, <2>1, <3>1, <3>2 DEF FuturesOK
      <4>3. stage[r][j] = "done"
        BY <1>1, <3>1, <4>1, <4>2 DEF Ready, Active, Ops
      <4>. QED BY <1>3, <3>1, <3>2, <4>3 DEF Ops
    <3>3. CASE ~(q = r /\ k = n)
      <4>1. stage[q][k] # "none"
        BY <1>3, <2>1, <3>1, <3>3
      <4>2. stage[q][j] = "done"
        BY <2>1, <4>1 DEF OrderOK, SequentialOK
      <4>. QED BY <1>2, <1>3, <3>1, <4>2
    <3>. QED BY <3>2, <3>3
  <2>. QED BY <1>5, <2>1 DEF SequentialOK
<1>8. InThreadOK'
  <2>1. ASSUME InThread, NEW q \in Ranks, NEW k \in 1 .. pos[q],
               IsExchange(program[k])
        PROVE  \/ stage'[q][k] \in {"waitall", "done"}
               \/ pc'[q] \in {"starting", "communicating"} /\ k = pos[q]
    <3>1. \/ stage[q][k] \in {"waitall", "done"}
          \/ pc[q] \in {"starting", "communicating"} /\ k = pos[q]
      BY <2>1 DEF OrderOK, InThreadOK
    <3>2. CASE q = r
      <4>0. n \in 1 .. Len(program)
        BY <1>0, <1>1, CurrentOperation
      <4>1. program[n] \in Operations
        <5>1. program \in Seq(Operations)
          BY <1>0 DEF TypeOK
        <5>. QED BY <4>0, <5>1
      <4>2. program[n] \in Writers \union Starters
        BY <1>2, <4>1, OperationKinds DEF Operations
      <4>3. pc'[r] = "communicating"
        BY <1>0, <1>1, <2>1, <4>2, OperationKinds
      <4>. QED BY <1>2, <1>3, <1>4, <3>1, <3>2, <4>3
    <3>3. CASE q # r
      BY <1>3, <3>1, <3>3
    <3>. QED BY <3>2, <3>3
  <2>. QED BY <1>5, <2>1 DEF InThreadOK, InThread
<1>. QED BY <1>6, <1>7, <1>8 DEF OrderOK

(* Steps that leave the operations alone, do not move a main thread into or*)
(* out of the start of an exchange unless it is posted, and move only      *)
(* active exchanges on.                                                    *)
LEMMA OrderElsewhere ==
  ASSUME TypeOK, PositionsOK, OrderOK,
         UNCHANGED <<program, pos>>,
         \A q \in Ranks :
           \/ pc'[q] = pc[q]
           \/ /\ pc[q] \notin {"starting", "communicating"}
              /\ pc'[q] \notin {"starting", "communicating"}
           \/ /\ pc[q] = "communicating"
              /\ pc'[q] \notin {"starting", "communicating"}
              /\ stage[q][pos[q]] \in {"waitall", "done"},
         \A q \in Ranks, k \in Ops :
           \/ stage'[q][k] = stage[q][k]
           \/ /\ Active(q, k) /\ stage'[q][k] # "none"
              /\ stage[q][k] = "waitall" => stage'[q][k] = "done"
  PROVE  OrderOK'
<1>1. \A q \in Ranks : \A k \in 1 .. pos[q] : k \in Ops
  BY ConstantsAssumption DEF TypeOK, Ops
<1>2. \A k : SynchronizerOf(k)' = SynchronizerOf(k)
  BY DEF SynchronizerOf, ArrayOf
<1>3. \A q \in Ranks, k \in Ops :
        /\ stage'[q][k] # "none" <=> stage[q][k] # "none"
        /\ stage[q][k] = "done" => stage'[q][k] = "done"
        /\ stage[q][k] \in {"waitall", "done"} => stage'[q][k] \in {"waitall", "done"}
  BY DEF Active
<1>4. StartedOK'
  <2>1. \A q \in Ranks : pc'[q] \in {"starting", "communicating"} =>
          IsExchange(program[pos[q]])
    BY DEF OrderOK, StartedOK
  <2>2. \A q \in Ranks, k \in Ops : stage'[q][k] # "none" => IsExchange(program[k])
    BY <1>3 DEF OrderOK, StartedOK
  <2>3. ASSUME NEW q \in Ranks, NEW k \in 1 .. pos[q], IsExchange(program[k])
        PROVE  \/ stage'[q][k] # "none"
               \/ pc'[q] = "starting" /\ k = pos[q]
    BY <1>1, <1>3, <2>3 DEF OrderOK, StartedOK
  <2>. QED BY <2>1, <2>2, <2>3 DEF StartedOK
<1>5. SequentialOK'
  <2>1. ASSUME NEW q \in Ranks, NEW k \in 1 .. pos[q], NEW j \in 1 .. (k - 1),
               stage'[q][k] # "none", IsExchange(program[j]),
               SynchronizerOf(j) = SynchronizerOf(k)
        PROVE  stage'[q][j] = "done"
    <3>1. j \in Ops /\ k \in Ops
      <4>1. j \in 1 .. pos[q]
        BY DEF TypeOK
      <4>. QED BY <1>1, <4>1
    <3>. QED BY <1>3, <2>1, <3>1 DEF OrderOK, SequentialOK
  <2>. QED BY <1>2, <2>1 DEF SequentialOK
<1>6. InThreadOK'
  <2>1. ASSUME InThread, NEW q \in Ranks, NEW k \in 1 .. pos[q],
               IsExchange(program[k])
        PROVE  \/ stage'[q][k] \in {"waitall", "done"}
               \/ pc'[q] \in {"starting", "communicating"} /\ k = pos[q]
    BY <1>1, <1>3, <2>1 DEF OrderOK, InThreadOK
  <2>. QED BY <2>1 DEF InThreadOK, InThread
<1>. QED BY <1>4, <1>5, <1>6 DEF OrderOK

LEMMA OrderNext == IndInv /\ OrderOK /\ [Next]_vars => OrderOK'
<1> SUFFICES ASSUME IndInv, OrderOK, [Next]_vars PROVE OrderOK'
  OBVIOUS
<1>0. /\ TypeOK /\ PositionsOK
      /\ pc \in [Ranks -> PcValues] /\ stage \in [Ranks -> [Ops -> Stages]]
  BY DEF IndInv, TypeOK
<1>1. ASSUME NEW r \in Ranks, BeginExchange(r) \/ Release(r) PROVE OrderOK'
  BY <1>0, <1>1, OrderBegin
<1>2. ASSUME NEW r \in Ranks, StartExchange(r) PROVE OrderOK'
  BY <1>2, OrderStart
<1>3. ASSUME NEW r \in Ranks, FinishCall(r) PROVE OrderOK'
  <2>1. /\ pc[r] = "communicating" /\ pc' = [pc EXCEPT ![r] = "idle"]
        /\ stage[r][pos[r]] \in {"waitall", "done"}
        /\ UNCHANGED <<program, pos, stage>>
    BY <1>3 DEF FinishCall
  <2>. QED BY <1>0, <2>1, OrderElsewhere
<1>4. ASSUME NEW r \in Ranks,
             \/ \E s \in Synchronizers : WaitForSynchronization(r, s)
             \/ FinishWait(r)
             \/ FinishDestructor(r)
      PROVE  OrderOK'
  <2>1. /\ pc[r] \notin {"starting", "communicating"}
        /\ \E v \in {"idle", "waiting"} : pc' = [pc EXCEPT ![r] = v]
        /\ UNCHANGED <<program, pos, stage>>
    BY <1>4 DEF WaitForSynchronization, FinishWait, FinishDestructor
  <2>. QED BY <1>0, <2>1, OrderElsewhere
<1>5. ASSUME NEW r \in Ranks, NEW k \in Ops, Post(r, k) PROVE OrderOK'
  <2>1. /\ stage[r][k] \in Sides
        /\ stage' = [stage EXCEPT ![r][k] = NextStage[stage[r][k]]]
        /\ UNCHANGED <<program, pos, pc>>
    BY <1>5 DEF Post
  <2>2. /\ Active(r, k) /\ stage[r][k] # "waitall"
        /\ NextStage[stage[r][k]] # "none"
    BY <2>1 DEF Active, NextStage, Sides, RecvSides, SendSides
  <2>. QED BY <1>0, <2>1, <2>2, OrderElsewhere
<1>6. ASSUME NEW r \in Ranks, NEW k \in Ops, Waitall(r, k) PROVE OrderOK'
  <2>1. /\ stage[r][k] = "waitall" /\ Active(r, k)
        /\ stage' = [stage EXCEPT ![r][k] = "done"]
        /\ UNCHANGED <<program, pos, pc>>
    BY <1>6 DEF Waitall, Active
  <2>. QED BY <1>0, <2>1, OrderElsewhere
<1>7. ASSUME NEW p \in Ranks, NEW q \in Ranks, MPIStep(p, q) PROVE OrderOK'
  <2>1. UNCHANGED <<program, pos, pc, stage>>
    BY <1>7 DEF MPIStep, Buffer, Match
  <2>. QED BY <1>0, <2>1, OrderElsewhere
<1>8. CASE UNCHANGED vars
  <2>1. UNCHANGED <<program, pos, pc, stage>>
    BY <1>8 DEF vars
  <2>. QED BY <1>0, <2>1, OrderElsewhere
<1>. QED BY <1>1, <1>2, <1>3, <1>4, <1>5, <1>6, <1>7, <1>8
         DEF Next, MainStep, Terminated

(* What has been started later is behind an exchange that has been posted. *)
LEMMA PostedBefore ==
  ASSUME InOrder, TypeOK, PositionsOK, OrderOK, NEW r \in Ranks,
         NEW j \in Ops, NEW k \in Ops, j < k, k <= pos[r],
         IsExchange(program[j]), stage[r][k] # "none"
  PROVE  stage[r][j] \in {"waitall", "done"}
<1>1. /\ k \in 1 .. pos[r] /\ j \in 1 .. pos[r] /\ j \in 1 .. (k - 1)
      /\ j # pos[r] /\ j <= pos[r]
  BY DEF Ops, TypeOK
<1>2. CASE OneSynchronizer
  <2>1. ArrayOf(j) \in Arrays /\ ArrayOf(k) \in Arrays
    BY <1>1, BegunOperation
  <2>2. SynchronizerOf(j) = SynchronizerOf(k)
    BY <1>2, <2>1 DEF OneSynchronizer, SynchronizerOf
  <2>. QED BY <1>1, <2>2 DEF OrderOK, SequentialOK
<1>3. CASE InThread
  BY <1>1, <1>3 DEF OrderOK, InThreadOK
<1>. QED BY <1>2, <1>3 DEF InOrder

-----------------------------------------------------------------------------
(* Two queues that grow in order.                                          *)

(* If two increasing sequences of keys agree as far as both go, and each   *)
(* holds every key of the other that is smaller than its own next one, then*)
(* the next key of the shorter one is what the longer one has there.       *)
LEMMA AppendAgrees ==
  ASSUME NEW m \in Nat, NEW n \in Nat, NEW f, NEW g, NEW key \in Int, m < n,
         \A i \in 1 .. m : f[i] \in Int, \A i \in 1 .. n : g[i] \in Int,
         \A i, j \in 1 .. n : i < j => g[i] < g[j],
         \A i \in 1 .. m : f[i] < key,
         \A i \in 1 .. m : f[i] = g[i],
         g[m + 1] < key => \E i \in 1 .. m : f[i] = g[m + 1],
         key < g[m + 1] => \E i \in 1 .. n : g[i] = key
  PROVE  key = g[m + 1]
<1>1. m + 1 \in 1 .. n /\ \A i \in 1 .. m : i \in 1 .. n /\ i < m + 1
  OBVIOUS
<1>2. CASE g[m + 1] < key
  <2>1. PICK i \in 1 .. m : f[i] = g[m + 1]
    BY <1>2
  <2>2. g[i] < g[m + 1] /\ g[i] = f[i]
    BY <1>1
  <2>. QED BY <1>1, <2>1, <2>2
<1>3. CASE key < g[m + 1]
  <2>1. PICK i \in 1 .. n : g[i] = key
    BY <1>3
  <2>2. i # m + 1 /\ ~(m + 1 < i)
    BY <1>1, <1>3, <2>1
  <2>3. i \in 1 .. m
    BY <2>2
  <2>. QED BY <1>1, <2>1, <2>3
<1>. QED BY <1>1, <1>2, <1>3

(* The entries of the queues.                                              *)
LEMMA EntryTypes ==
  ASSUME TypeOK, NEW p \in Ranks, NEW q \in Ranks
  PROVE  /\ Len(sends[p][q]) \in Nat /\ Len(recvs[p][q]) \in Nat
         /\ sends[p][q] \in Seq(SendRequests)
         /\ recvs[p][q] \in Seq(RecvRequests)
         /\ \A i \in 1 .. Len(sends[p][q]) :
              /\ sends[p][q][i] \in SendRequests
              /\ sends[p][q][i].op \in Ops
              /\ sends[p][q][i].side \in SendSides
              /\ KeyAt(sends[p][q], i) \in Int
         /\ \A i \in 1 .. Len(recvs[p][q]) :
              /\ recvs[p][q][i] \in RecvRequests
              /\ recvs[p][q][i].op \in Ops
              /\ recvs[p][q][i].side \in RecvSides
              /\ KeyAt(recvs[p][q], i) \in Int
<1>1. sends[p][q] \in Seq(SendRequests) /\ recvs[p][q] \in Seq(RecvRequests)
  BY DEF TypeOK
<1>2. ASSUME NEW i \in 1 .. Len(sends[p][q])
      PROVE  /\ sends[p][q][i] \in SendRequests
             /\ sends[p][q][i].op \in Ops /\ sends[p][q][i].side \in SendSides
  <2>1. sends[p][q][i] \in SendRequests
    BY <1>1
  <2>. QED BY <2>1 DEF SendRequests
<1>3. ASSUME NEW i \in 1 .. Len(recvs[p][q])
      PROVE  /\ recvs[p][q][i] \in RecvRequests
             /\ recvs[p][q][i].op \in Ops /\ recvs[p][q][i].side \in RecvSides
  <2>1. recvs[p][q][i] \in RecvRequests
    BY <1>1
  <2>. QED BY <2>1 DEF RecvRequests
<1>4. \A k \in Ops, side \in Sides : Key(k, side) \in Int
  BY DEF Key, Ops
<1>. QED BY <1>1, <1>2, <1>3, <1>4 DEF KeyAt, Sides

(* For each call of a rank its neighbour issues one with the same key.     *)
Opposite(side) == IF side \in SendSides THEN RecvSides ELSE SendSides

LEMMA Partner ==
  ASSUME NEW p \in Ranks, NEW side \in Sides
  PROVE  \E t \in Opposite(side) :
           Peer(Peer(p, side), t) = p /\ \A k : Key(k, t) = Key(k, side)
<1>0. NProc \in Nat \ {0} /\ p \in Nat /\ p <= NProc - 1
  BY ConstantsAssumption DEF Ranks
<1>1. CASE NProc >= 3
  <2>1. /\ Peer(Peer(p, "sendLeft"), "recvRight") = p
        /\ Peer(Peer(p, "recvRight"), "sendLeft") = p
        /\ Peer(Peer(p, "sendRight"), "recvLeft") = p
        /\ Peer(Peer(p, "recvLeft"), "sendRight") = p
    BY <1>0 DEF Peer, Left, Right
  <2>. QED BY <1>1, <2>1 DEF Key, Opposite, Sides, SendSides, RecvSides
<1>2. CASE NProc < 3
  <2>1. /\ Peer(Peer(p, "sendLeft"), "recvLeft") = p
        /\ Peer(Peer(p, "recvLeft"), "sendLeft") = p
        /\ Peer(Peer(p, "sendRight"), "recvRight") = p
        /\ Peer(Peer(p, "recvRight"), "sendRight") = p
    BY <1>0, <1>2 DEF Peer, Left, Right
  <2>. QED BY <2>1 DEF Key, Opposite, Sides, SendSides, RecvSides
<1>. QED BY <1>0, <1>1, <1>2

(* With three ranks or more the two sends, and the two receives, of an     *)
(* operation go to different ranks.                                        *)
LEMMA SidesApart ==
  ASSUME NEW r \in Ranks, NProc >= 3
  PROVE  Left(r) # Right(r)
BY ConstantsAssumption DEF Left, Right, Ranks

(* Keys order the calls that one rank issues for the queue of a pair.      *)
SameQueue(r, s, t) ==
  /\ {s, t} \subseteq SendSides \/ {s, t} \subseteq RecvSides
  /\ Peer(r, s) = Peer(r, t)

LEMMA KeyOrder ==
  ASSUME NEW r \in Ranks, NEW s, NEW t, SameQueue(r, s, t),
         NEW j \in Ops, NEW k \in Ops
  PROVE  Key(j, s) < Key(k, t) <=>
           \/ j < k
           \/ /\ j = k
              /\ \/ s = "sendLeft" /\ t = "sendRight"
                 \/ s = "recvLeft" /\ t = "recvRight"
<1>1. NProc >= 3 => s = t
  BY SidesApart DEF SameQueue, Peer, SendSides, RecvSides
<1>2. j \in Nat /\ k \in Nat
  BY DEF Ops
<1>. QED BY <1>1, <1>2, ConstantsAssumption
         DEF SameQueue, Key, SendSides, RecvSides

(* A call is issued after all calls of the queue with smaller keys.        *)
LEMMA SmallerPosted ==
  ASSUME InOrder, TypeOK, PositionsOK, OrderOK, NEW r \in Ranks,
         NEW s, NEW t, SameQueue(r, s, t), NEW j \in Ops, NEW k \in Ops,
         stage[r][k] = t \/ Posted(r, k, t),
         IsExchange(program[j]), Key(j, s) < Key(k, t)
  PROVE  Posted(r, j, s)
<1>1. CASE j < k
  <2>1. stage[r][k] # "none" /\ k <= pos[r]
    <3>1. stage[r][k] # "none"
      BY DEF SameQueue, Posted, StagesAfter, SendSides, RecvSides
    <3>. QED BY <3>1 DEF PositionsOK
  <2>2. stage[r][j] \in {"waitall", "done"}
    BY <1>1, <2>1, PostedBefore
  <2>. QED BY <2>2 DEF SameQueue, Posted, StagesAfter, SendSides, RecvSides
<1>2. CASE /\ j = k
           /\ \/ s = "sendLeft" /\ t = "sendRight"
              \/ s = "recvLeft" /\ t = "recvRight"
  BY <1>2 DEF Posted, StagesAfter
<1>. QED BY <1>1, <1>2, KeyOrder

(* The next call of a rank has a larger key than those issued before.      *)
LEMMA PostedSmaller ==
  ASSUME InOrder, TypeOK, PositionsOK, OrderOK, NEW r \in Ranks,
         NEW s, NEW t, SameQueue(r, s, t), NEW j \in Ops, NEW k \in Ops,
         stage[r][k] = t, Posted(r, j, s)
  PROVE  Key(j, s) < Key(k, t)
<1>1. t \in Sides /\ s \in Sides
  BY DEF SameQueue, Sides
<1>2. stage[r][k] # "none" /\ stage[r][j] # "none"
  BY <1>1 DEF Posted, StagesAfter, Sides, SendSides, RecvSides
<1>3. IsExchange(program[k]) /\ j <= pos[r]
  BY <1>2 DEF OrderOK, StartedOK, PositionsOK
<1>4. ~(k < j)
  <2>1. stage[r][k] \notin {"waitall", "done"}
    BY <1>1 DEF Sides, SendSides, RecvSides
  <2>. QED BY <1>2, <1>3, <2>1, PostedBefore
<1>5. CASE j = k
  BY <1>1, <1>5, KeyOrder
     DEF SameQueue, Posted, StagesAfter, Sides, SendSides, RecvSides
<1>6. CASE j < k
  BY <1>6, KeyOrder
<1>. QED BY <1>4, <1>5, <1>6 DEF Ops

-----------------------------------------------------------------------------
(* The queues.                                                             *)

LEMMA QueuesInit == Init => QueuesOK
<1> SUFFICES ASSUME Init PROVE QueuesOK
  OBVIOUS
<1>1. /\ \A p, q \in Ranks : Len(sends[p][q]) = 0 /\ Len(recvs[p][q]) = 0
      /\ \A r \in Ranks, k \in Ops : stage[r][k] = "none"
  BY DEF Init
<1>2. \A r \in Ranks, k \in Ops : \A side \in Sides : ~Posted(r, k, side)
  BY <1>1 DEF Posted, StagesAfter, Sides, SendSides, RecvSides
<1>. QED BY <1>1, <1>2 DEF QueuesOK, QueuesHoldPosted, PostedInQueues,
                           QueuesIncrease, QueuesAgree, Sides

(* Steps that issue no call.                                               *)
LEMMA QueuesElsewhere ==
  ASSUME QueuesOK,
         \A r \in Ranks, k \in Ops : \A side \in Sides :
           Posted(r, k, side)' <=> Posted(r, k, side),
         recvs' = recvs,
         \A p, q \in Ranks :
           /\ Len(sends'[p][q]) = Len(sends[p][q])
           /\ \A i \in 1 .. Len(sends[p][q]) :
                /\ sends'[p][q][i].op = sends[p][q][i].op
                /\ sends'[p][q][i].side = sends[p][q][i].side,
         TypeOK
  PROVE  QueuesOK'
<1>1. \A p, q \in Ranks :
        /\ \A i \in 1 .. Len(sends[p][q]) :
             /\ sends[p][q][i].op \in Ops /\ sends[p][q][i].side \in Sides
             /\ KeyAt(sends'[p][q], i) = KeyAt(sends[p][q], i)
        /\ \A i \in 1 .. Len(recvs[p][q]) :
             recvs[p][q][i].op \in Ops /\ recvs[p][q][i].side \in Sides
  BY EntryTypes DEF Sides, KeyAt
<1>2. QueuesHoldPosted'
  <2>1. ASSUME NEW p \in Ranks, NEW q \in Ranks, NEW i \in 1 .. Len(sends'[p][q])
        PROVE  /\ Posted(p, sends[p][q][i].op, sends[p][q][i].side)'
               /\ Peer(p, sends'[p][q][i].side) = q
    <3>1. i \in 1 .. Len(sends[p][q])
      OBVIOUS
    <3>2. /\ Posted(p, sends[p][q][i].op, sends[p][q][i].side)
          /\ Peer(p, sends[p][q][i].side) = q
      BY <3>1 DEF QueuesOK, QueuesHoldPosted
    <3>. QED BY <1>1, <3>1, <3>2 DEF Posted
  <2>2. ASSUME NEW p \in Ranks, NEW q \in Ranks, NEW i \in 1 .. Len(recvs'[p][q])
        PROVE  /\ Posted(q, recvs[p][q][i].op, recvs[p][q][i].side)'
               /\ Peer(q, recvs'[p][q][i].side) = p
    <3>1. i \in 1 .. Len(recvs[p][q])
      OBVIOUS
    <3>2. /\ Posted(q, recvs[p][q][i].op, recvs[p][q][i].side)
          /\ Peer(q, recvs[p][q][i].side) = p
      BY <3>1 DEF QueuesOK, QueuesHoldPosted
    <3>. QED BY <1>1, <3>1, <3>2 DEF Posted
  <2>. QED BY <2>1, <2>2 DEF QueuesHoldPosted
<1>3. PostedInQueues'
  <2>1. ASSUME NEW r \in Ranks, NEW k \in Ops, NEW side \in SendSides,
               Posted(r, k, side)'
        PROVE  \E i \in 1 .. Len(sends'[r][Peer(r, side)]) :
                 /\ sends'[r][Peer(r, side)][i].op = k
                 /\ sends'[r][Peer(r, side)][i].side = side
    <3>1. Peer(r, side) \in Ranks /\ Posted(r, k, side)
      BY <2>1, PeerType DEF Sides
    <3>2. PICK i \in 1 .. Len(sends[r][Peer(r, side)]) :
            /\ sends[r][Peer(r, side)][i].op = k
            /\ sends[r][Peer(r, side)][i].side = side
      BY <3>1 DEF QueuesOK, PostedInQueues
    <3>. QED BY <3>1, <3>2
  <2>2. ASSUME NEW r \in Ranks, NEW k \in Ops, NEW side \in RecvSides,
               Posted(r, k, side)'
        PROVE  \E i \in 1 .. Len(recvs'[Peer(r, side)][r]) :
                 /\ recvs'[Peer(r, side)][r][i].op = k
                 /\ recvs'[Peer(r, side)][r][i].side = side
    BY <2>2 DEF QueuesOK, PostedInQueues, Sides
  <2>. QED BY <2>1, <2>2 DEF PostedInQueues
<1>4. QueuesIncrease'
  BY <1>1 DEF QueuesOK, QueuesIncrease
<1>5. QueuesAgree'
  BY <1>1 DEF QueuesOK, QueuesAgree
<1>. QED BY <1>2, <1>3, <1>4, <1>5 DEF QueuesOK

(* Posting a call adds it to the calls that are posted.                    *)
LEMMA PostPosted ==
  ASSUME TypeOK, NEW r \in Ranks, NEW k \in Ops, Post(r, k)
  PROVE  /\ ~Posted(r, k, stage[r][k])
         /\ \A p \in Ranks, j \in Ops : \A s \in Sides :
              Posted(p, j, s)' <=>
                Posted(p, j, s) \/ (p = r /\ j = k /\ s = stage[r][k])
<1>1. /\ stage[r][k] \in Sides
      /\ stage' = [stage EXCEPT ![r][k] = NextStage[stage[r][k]]]
  BY DEF Post
<1>2. /\ stage'[r][k] = NextStage[stage[r][k]]
      /\ \A p \in Ranks, j \in Ops :
           p # r \/ j # k => stage'[p][j] = stage[p][j]
  BY <1>1 DEF TypeOK
<1>3. ~Posted(r, k, stage[r][k])
  BY <1>1 DEF Posted, StagesAfter, Sides, SendSides, RecvSides
<1>4. \A s \in Sides :
        Posted(r, k, s)' <=> Posted(r, k, s) \/ s = stage[r][k]
  BY <1>1, <1>2 DEF Posted, StagesAfter, NextStage, Sides, SendSides, RecvSides
<1>5. \A p \in Ranks, j \in Ops : \A s \in Sides :
        p # r \/ j # k => (Posted(p, j, s)' <=> Posted(p, j, s))
  BY <1>2 DEF Posted
<1>. QED BY <1>3, <1>4, <1>5

(* A send is posted.                                                     *)
LEMMA QueuesPostSend ==
  ASSUME InOrder, TypeOK, PositionsOK, OrderOK, QueuesOK,
         NEW r \in Ranks, NEW k \in Ops, Post(r, k), stage[r][k] \in SendSides
  PROVE  QueuesOK'
<1> DEFINE side == stage[r][k]
           q == Peer(r, side)
           n == Len(sends[r][q])
<1>0. /\ side \in SendSides /\ side \in Sides /\ q \in Ranks /\ n \in Nat
      /\ stage[r][k] = side
  BY PeerType, EntryTypes DEF Sides
<1>1. /\ recvs' = recvs
      /\ sends' = [sends EXCEPT ![r][q] = Append(@, [op |-> k, side |-> side, data |-> NoData])]
  BY <1>0 DEF Post, SendSides, RecvSides
<1>2. /\ ~Posted(r, k, side)
      /\ \A p \in Ranks, j \in Ops : \A s \in Sides :
           Posted(p, j, s)' <=> Posted(p, j, s) \/ (p = r /\ j = k /\ s = side)
  BY <1>0, PostPosted
<1>3. q = Peer(r, side)
  OBVIOUS
<1> HIDE DEF side, q
<1>4. /\ Len(sends'[r][q]) = n + 1
      /\ \A i \in 1 .. n : sends'[r][q][i] = sends[r][q][i]
      /\ sends'[r][q][n + 1].op = k /\ sends'[r][q][n + 1].side = side
      /\ \A x, y \in Ranks : <<x, y>> # <<r, q>> => sends'[x][y] = sends[x][y]
  <2>1. sends'[r][q] = Append(sends[r][q], [op |-> k, side |-> side, data |-> NoData])
    BY <1>0, <1>1 DEF TypeOK
  <2>2. \A x, y \in Ranks : <<x, y>> # <<r, q>> => sends'[x][y] = sends[x][y]
    BY <1>0, <1>1 DEF TypeOK
  <2>. QED BY <1>0, <2>1, <2>2, EntryTypes
<1>5. /\ \A x, y \in Ranks : \A i \in 1 .. Len(sends[x][y]) :
           /\ sends'[x][y][i] = sends[x][y][i]
           /\ KeyAt(sends'[x][y], i) = KeyAt(sends[x][y], i)
           /\ i \in 1 .. Len(sends'[x][y])
      /\ \A x, y \in Ranks : \A i \in 1 .. Len(sends'[x][y]) :
           \/ i \in 1 .. Len(sends[x][y])
           \/ x = r /\ y = q /\ i = n + 1
      /\ KeyAt(sends'[r][q], n + 1) = Key(k, side)
  <2>1. ASSUME NEW x \in Ranks, NEW y \in Ranks
        PROVE  /\ \A i \in 1 .. Len(sends[x][y]) :
                    sends'[x][y][i] = sends[x][y][i] /\ i \in 1 .. Len(sends'[x][y])
               /\ \A i \in 1 .. Len(sends'[x][y]) :
                    \/ i \in 1 .. Len(sends[x][y])
                    \/ x = r /\ y = q /\ i = n + 1
    <3>1. CASE x = r /\ y = q
      BY <1>0, <1>4, <3>1
    <3>2. CASE ~(x = r /\ y = q)
      BY <1>4, <3>2
    <3>. QED BY <3>1, <3>2
  <2>2. KeyAt(sends'[r][q], n + 1) = Key(k, side)
    BY <1>4 DEF KeyAt
  <2>3. \A x, y \in Ranks : \A i \in 1 .. Len(sends[x][y]) :
          KeyAt(sends'[x][y], i) = KeyAt(sends[x][y], i)
    BY <2>1 DEF KeyAt
  <2>. QED BY <2>1, <2>2, <2>3
<1>6. QueuesHoldPosted'
  <2>1. ASSUME NEW x \in Ranks, NEW y \in Ranks, NEW i \in 1 .. Len(sends'[x][y])
        PROVE  /\ Posted(x, sends[x][y][i].op, sends[x][y][i].side)'
               /\ Peer(x, sends'[x][y][i].side) = y
    <3>1. CASE i \in 1 .. Len(sends[x][y])
      <4>1. /\ Posted(x, sends[x][y][i].op, sends[x][y][i].side)
            /\ Peer(x, sends[x][y][i].side) = y
        BY <3>1 DEF QueuesOK, QueuesHoldPosted
      <4>2. sends[x][y][i].op \in Ops /\ sends[x][y][i].side \in Sides
        BY <3>1, EntryTypes DEF Sides
      <4>3. sends'[x][y][i] = sends[x][y][i]
        BY <1>5, <3>1
      <4>. QED BY <1>2, <4>1, <4>2, <4>3 DEF Posted
    <3>2. CASE x = r /\ y = q /\ i = n + 1
      <4>1. sends'[x][y][i].op = k /\ sends'[x][y][i].side = side
        BY <1>4, <3>2
      <4>2. stage'[r][k] \in StagesAfter[side]
        BY <1>0, <1>2 DEF Posted
      <4>. QED BY <1>3, <3>2, <4>1, <4>2 DEF Posted
    <3>. QED BY <1>5, <3>1, <3>2
  <2>2. ASSUME NEW x \in Ranks, NEW y \in Ranks, NEW i \in 1 .. Len(recvs'[x][y])
        PROVE  /\ Posted(y, recvs[x][y][i].op, recvs[x][y][i].side)'
               /\ Peer(y, recvs'[x][y][i].side) = x
    <3>1. /\ Posted(y, recvs[x][y][i].op, recvs[x][y][i].side)
          /\ Peer(y, recvs[x][y][i].side) = x
          /\ recvs[x][y][i].op \in Ops /\ recvs[x][y][i].side \in Sides
      BY <1>1, EntryTypes DEF QueuesOK, QueuesHoldPosted, Sides
    <3>. QED BY <1>1, <1>2, <3>1 DEF Posted
  <2>. QED BY <2>1, <2>2 DEF QueuesHoldPosted
<1>7. PostedInQueues'
  <2>1. ASSUME NEW p \in Ranks, NEW j \in Ops, NEW s \in SendSides,
               Posted(p, j, s)'
        PROVE  \E i \in 1 .. Len(sends'[p][Peer(p, s)]) :
                 /\ sends'[p][Peer(p, s)][i].op = j
                 /\ sends'[p][Peer(p, s)][i].side = s
    <3>0. s \in Sides /\ Peer(p, s) \in Ranks
      BY PeerType DEF Sides
    <3>1. CASE Posted(p, j, s)
      <4>1. PICK i \in 1 .. Len(sends[p][Peer(p, s)]) :
              /\ sends[p][Peer(p, s)][i].op = j
              /\ sends[p][Peer(p, s)][i].side = s
        BY <3>1 DEF QueuesOK, PostedInQueues
      <4>2. i \in 1 .. Len(sends'[p][Peer(p, s)])
        BY <1>5, <3>0
      <4>. QED BY <1>5, <3>0, <4>1, <4>2
    <3>2. CASE p = r /\ j = k /\ s = side
      <4>1. n + 1 \in 1 .. Len(sends'[r][q])
        BY <1>0, <1>4
      <4>. QED BY <1>3, <1>4, <3>2, <4>1
    <3>. QED BY <1>2, <2>1, <3>0, <3>1, <3>2
  <2>2. ASSUME NEW p \in Ranks, NEW j \in Ops, NEW s \in RecvSides,
               Posted(p, j, s)'
        PROVE  \E i \in 1 .. Len(recvs'[Peer(p, s)][p]) :
                 /\ recvs'[Peer(p, s)][p][i].op = j
                 /\ recvs'[Peer(p, s)][p][i].side = s
    <3>1. s \in Sides /\ s # side
      BY <1>0 DEF Sides, SendSides, RecvSides
    <3>2. Posted(p, j, s)
      BY <1>2, <2>2, <3>1
    <3>. QED BY <1>1, <3>2 DEF QueuesOK, PostedInQueues
  <2>. QED BY <2>1, <2>2 DEF PostedInQueues
<1>8. \A i \in 1 .. n : KeyAt(sends[r][q], i) < Key(k, side)
  <2>1. ASSUME NEW i \in 1 .. n
        PROVE  KeyAt(sends[r][q], i) < Key(k, side)
    <3> DEFINE j == sends[r][q][i].op
               s == sends[r][q][i].side
    <3>1. j \in Ops /\ s \in SendSides /\ Posted(r, j, s) /\ Peer(r, s) = q
      BY <1>0, EntryTypes DEF QueuesOK, QueuesHoldPosted
    <3> HIDE DEF j, s
    <3>2. SameQueue(r, s, side)
      BY <1>0, <1>3, <3>1 DEF SameQueue
    <3>3. Key(j, s) < Key(k, side)
      BY <1>0, <3>1, <3>2, PostedSmaller
    <3>. QED BY <3>3 DEF KeyAt, j, s
  <2>. QED BY <2>1
<1>9. QueuesIncrease'
  <2>1. ASSUME NEW x \in Ranks, NEW y \in Ranks,
               NEW i \in 1 .. Len(sends'[x][y]), NEW j \in 1 .. Len(sends'[x][y]), i < j
        PROVE  KeyAt(sends'[x][y], i) < KeyAt(sends'[x][y], j)
    <3>1. CASE j \in 1 .. Len(sends[x][y])
      <4>1. i \in 1 .. Len(sends[x][y])
        BY <2>1, <3>1, EntryTypes
      <4>. QED BY <1>5, <2>1, <3>1, <4>1 DEF QueuesOK, QueuesIncrease
    <3>2. CASE x = r /\ y = q /\ j = n + 1
      <4>1. i \in 1 .. n
        BY <1>0, <2>1, <3>2
      <4>. QED BY <1>0, <1>5, <1>8, <3>2, <4>1
    <3>. QED BY <1>5, <3>1, <3>2
  <2>. QED BY <1>1, <2>1 DEF QueuesOK, QueuesIncrease
<1>10. n < Len(recvs[r][q]) => Key(k, side) = KeyAt(recvs[r][q], n + 1)
  <2> SUFFICES ASSUME n < Len(recvs[r][q])
               PROVE  Key(k, side) = KeyAt(recvs[r][q], n + 1)
    OBVIOUS
  <2> DEFINE m == Len(recvs[r][q])
             f == [i \in 1 .. n |-> KeyAt(sends[r][q], i)]
             g == [i \in 1 .. m |-> KeyAt(recvs[r][q], i)]
             j == recvs[r][q][n + 1].op
             t == recvs[r][q][n + 1].side
  <2>1. /\ m \in Nat /\ n + 1 \in 1 .. m
        /\ \A i \in 1 .. n : f[i] \in Int
        /\ \A i \in 1 .. m : g[i] \in Int
    <3>1. /\ m \in Nat
          /\ \A i \in 1 .. n : KeyAt(sends[r][q], i) \in Int
          /\ \A i \in 1 .. m : KeyAt(recvs[r][q], i) \in Int
      BY <1>0, EntryTypes
    <3>. QED BY <1>0, <3>1
  <2>2. /\ \A i, l \in 1 .. m : i < l => g[i] < g[l]
        /\ \A i \in 1 .. n : f[i] < Key(k, side)
    <3>1. \A i, l \in 1 .. m :
            i < l => KeyAt(recvs[r][q], i) < KeyAt(recvs[r][q], l)
      BY <1>0 DEF QueuesOK, QueuesIncrease
    <3>. QED BY <1>8, <3>1
  <2>3. \A i \in 1 .. n : f[i] = g[i]
    <3>1. ASSUME NEW i \in 1 .. n
          PROVE  KeyAt(sends[r][q], i) = KeyAt(recvs[r][q], i) /\ i \in 1 .. m
      BY <1>0, <2>1, EntryTypes DEF QueuesOK, QueuesAgree
    <3>. QED BY <3>1
  <2>4. /\ j \in Ops /\ t \in RecvSides /\ t \in Sides
        /\ Posted(q, j, t) /\ Peer(q, t) = r /\ g[n + 1] = Key(j, t)
    BY <1>0, <2>1, EntryTypes DEF QueuesOK, QueuesHoldPosted, Sides, KeyAt
  <2> HIDE DEF j, t
  <2>5. IsExchange(program[j]) /\ IsExchange(program[k])
    <3>1. stage[q][j] # "none" /\ stage[r][k] # "none"
      BY <1>0, <2>4 DEF Posted, StagesAfter, Sides, SendSides, RecvSides
    <3>. QED BY <1>0, <2>4, <3>1 DEF OrderOK, StartedOK
  <2>6. g[n + 1] < Key(k, side) => \E i \in 1 .. n : f[i] = g[n + 1]
    <3> SUFFICES ASSUME g[n + 1] < Key(k, side)
                 PROVE  \E i \in 1 .. n : f[i] = g[n + 1]
      OBVIOUS
    <3>1. PICK s \in SendSides : Peer(r, s) = q /\ Key(j, s) = Key(j, t)
      BY <1>0, <2>4, Partner DEF Opposite, SendSides, RecvSides
    <3>2. SameQueue(r, s, side) /\ Key(j, s) < Key(k, side)
      BY <1>0, <1>3, <2>4, <3>1 DEF SameQueue
    <3>3. Posted(r, j, s)
      BY <1>0, <2>4, <2>5, <3>2, SmallerPosted
    <3>4. PICK i \in 1 .. n : sends[r][q][i].op = j /\ sends[r][q][i].side = s
      BY <2>4, <3>1, <3>3 DEF QueuesOK, PostedInQueues
    <3>. QED BY <2>4, <3>1, <3>4 DEF KeyAt
  <2>7. Key(k, side) < g[n + 1] => \E i \in 1 .. m : g[i] = Key(k, side)
    <3> SUFFICES ASSUME Key(k, side) < g[n + 1]
                 PROVE  \E i \in 1 .. m : g[i] = Key(k, side)
      OBVIOUS
    <3>1. PICK s \in RecvSides : Peer(q, s) = r /\ Key(k, s) = Key(k, side)
      BY <1>0, <1>3, Partner DEF Opposite, SendSides, RecvSides
    <3>2. SameQueue(q, s, t) /\ Key(k, s) < Key(j, t)
      BY <2>4, <3>1 DEF SameQueue
    <3>3. Posted(q, k, s)
      BY <1>0, <2>4, <2>5, <3>2, SmallerPosted
    <3>4. PICK i \in 1 .. m : recvs[r][q][i].op = k /\ recvs[r][q][i].side = s
      BY <1>0, <3>1, <3>3 DEF QueuesOK, PostedInQueues
    <3>. QED BY <3>1, <3>4 DEF KeyAt
  <2>8. Key(k, side) \in Int /\ n < m
    BY <1>0 DEF Key, Ops
  <2>9. g[n + 1] = KeyAt(recvs[r][q], n + 1)
    BY <2>1
  <2> HIDE DEF f, g, m, n
  <2>10. Key(k, side) = g[n + 1]
    BY <1>0, <2>1, <2>2, <2>3, <2>6, <2>7, <2>8, AppendAgrees
  <2>. QED BY <2>9, <2>10
<1>11. QueuesAgree'
  <2>1. ASSUME NEW x \in Ranks, NEW y \in Ranks,
               NEW i \in 1 .. Len(sends'[x][y]), i \in 1 .. Len(recvs[x][y])
        PROVE  KeyAt(sends'[x][y], i) = KeyAt(recvs[x][y], i)
    <3>1. CASE i \in 1 .. Len(sends[x][y])
      <4>1. /\ KeyAt(sends'[x][y], i) = KeyAt(sends[x][y], i)
            /\ i <= Len(recvs[x][y]) /\ i <= Len(sends[x][y])
        BY <1>5, <2>1, <3>1, EntryTypes
      <4>2. KeyAt(sends[x][y], i) = KeyAt(recvs[x][y], i)
        BY <2>1, <3>1, <4>1 DEF QueuesOK, QueuesAgree
      <4>. QED BY <4>1, <4>2
    <3>2. CASE x = r /\ y = q /\ i = n + 1
      BY <1>0, <1>5, <1>10, <2>1, <3>2, EntryTypes
    <3>. QED BY <1>5, <3>1, <3>2
  <2>2. \A x, y \in Ranks : Len(recvs[x][y]) \in Nat /\ Len(sends'[x][y]) \in Nat
    BY <1>0, <1>4, EntryTypes
  <2>. QED BY <1>1, <2>1, <2>2 DEF QueuesAgree
<1>. QED BY <1>6, <1>7, <1>9, <1>11 DEF QueuesOK

(* A receive is posted.                                                     *)
LEMMA QueuesPostRecv ==
  ASSUME InOrder, TypeOK, PositionsOK, OrderOK, QueuesOK,
         NEW r \in Ranks, NEW k \in Ops, Post(r, k), stage[r][k] \in RecvSides
  PROVE  QueuesOK'
<1> DEFINE side == stage[r][k]
           q == Peer(r, side)
           n == Len(recvs[q][r])
<1>0. /\ side \in RecvSides /\ side \in Sides /\ q \in Ranks /\ n \in Nat
      /\ stage[r][k] = side
  BY PeerType, EntryTypes DEF Sides
<1>1. /\ sends' = sends
      /\ recvs' = [recvs EXCEPT ![q][r] = Append(@, [op |-> k, side |-> side])]
  BY <1>0 DEF Post, SendSides, RecvSides
<1>2. /\ ~Posted(r, k, side)
      /\ \A p \in Ranks, j \in Ops : \A s \in Sides :
           Posted(p, j, s)' <=> Posted(p, j, s) \/ (p = r /\ j = k /\ s = side)
  BY <1>0, PostPosted
<1>3. q = Peer(r, side)
  OBVIOUS
<1> HIDE DEF side, q
<1>4. /\ Len(recvs'[q][r]) = n + 1
      /\ \A i \in 1 .. n : recvs'[q][r][i] = recvs[q][r][i]
      /\ recvs'[q][r][n + 1].op = k /\ recvs'[q][r][n + 1].side = side
      /\ \A x, y \in Ranks : <<x, y>> # <<q, r>> => recvs'[x][y] = recvs[x][y]
  <2>1. recvs'[q][r] = Append(recvs[q][r], [op |-> k, side |-> side])
    BY <1>0, <1>1 DEF TypeOK
  <2>2. \A x, y \in Ranks : <<x, y>> # <<q, r>> => recvs'[x][y] = recvs[x][y]
    BY <1>0, <1>1 DEF TypeOK
  <2>. QED BY <1>0, <2>1, <2>2, EntryTypes
<1>5. /\ \A x, y \in Ranks : \A i \in 1 .. Len(recvs[x][y]) :
           /\ recvs'[x][y][i] = recvs[x][y][i]
           /\ KeyAt(recvs'[x][y], i) = KeyAt(recvs[x][y], i)
           /\ i \in 1 .. Len(recvs'[x][y])
      /\ \A x, y \in Ranks : \A i \in 1 .. Len(recvs'[x][y]) :
           \/ i \in 1 .. Len(recvs[x][y])
           \/ x = q /\ y = r /\ i = n + 1
      /\ KeyAt(recvs'[q][r], n + 1) = Key(k, side)
  <2>1. ASSUME NEW x \in Ranks, NEW y \in Ranks
        PROVE  /\ \A i \in 1 .. Len(recvs[x][y]) :
                    recvs'[x][y][i] = recvs[x][y][i] /\ i \in 1 .. Len(recvs'[x][y])
               /\ \A i \in 1 .. Len(recvs'[x][y]) :
                    \/ i \in 1 .. Len(recvs[x][y])
                    \/ x = q /\ y = r /\ i = n + 1
    <3>1. CASE x = q /\ y = r
      BY <1>0, <1>4, <3>1
    <3>2. CASE ~(x = q /\ y = r)
      BY <1>4, <3>2
    <3>. QED BY <3>1, <3>2
  <2>2. KeyAt(recvs'[q][r], n + 1) = Key(k, side)
    BY <1>4 DEF KeyAt
  <2>3. \A x, y \in Ranks : \A i \in 1 .. Len(recvs[x][y]) :
          KeyAt(recvs'[x][y], i) = KeyAt(recvs[x][y], i)
    BY <2>1 DEF KeyAt
  <2>. QED BY <2>1, <2>2, <2>3
<1>6. QueuesHoldPosted'
  <2>1. ASSUME NEW x \in Ranks, NEW y \in Ranks, NEW i \in 1 .. Len(recvs'[x][y])
        PROVE  /\ Posted(y, recvs[x][y][i].op, recvs[x][y][i].side)'
               /\ Peer(y, recvs'[x][y][i].side) = x
    <3>1. CASE i \in 1 .. Len(recvs[x][y])
      <4>1. /\ Posted(y, recvs[x][y][i].op, recvs[x][y][i].side)
            /\ Peer(y, recvs[x][y][i].side) = x
        BY <3>1 DEF QueuesOK, QueuesHoldPosted
      <4>2. recvs[x][y][i].op \in Ops /\ recvs[x][y][i].side \in Sides
        BY <3>1, EntryTypes DEF Sides
      <4>3. recvs'[x][y][i] = recvs[x][y][i]
        BY <1>5, <3>1
      <4>. QED BY <1>2, <4>1, <4>2, <4>3 DEF Posted
    <3>2. CASE x = q /\ y = r /\ i = n + 1
      <4>1. recvs'[x][y][i].op = k /\ recvs'[x][y][i].side = side
        BY <1>4, <3>2
      <4>2. stage'[r][k] \in StagesAfter[side]
        BY <1>0, <1>2 DEF Posted
      <4>. QED BY <1>3, <3>2, <4>1, <4>2 DEF Posted
    <3>. QED BY <1>5, <3>1, <3>2
  <2>2. ASSUME NEW x \in Ranks, NEW y \in Ranks, NEW i \in 1 .. Len(sends'[x][y])
        PROVE  /\ Posted(x, sends[x][y][i].op, sends[x][y][i].side)'
               /\ Peer(x, sends'[x][y][i].side) = y
    <3>1. /\ Posted(x, sends[x][y][i].op, sends[x][y][i].side)
          /\ Peer(x, sends[x][y][i].side) = y
          /\ sends[x][y][i].op \in Ops /\ sends[x][y][i].side \in Sides
      BY <1>1, EntryTypes DEF QueuesOK, QueuesHoldPosted, Sides
    <3>. QED BY <1>1, <1>2, <3>1 DEF Posted
  <2>. QED BY <2>1, <2>2 DEF QueuesHoldPosted
<1>7. PostedInQueues'
  <2>1. ASSUME NEW p \in Ranks, NEW j \in Ops, NEW s \in RecvSides,
               Posted(p, j, s)'
        PROVE  \E i \in 1 .. Len(recvs'[Peer(p, s)][p]) :
                 /\ recvs'[Peer(p, s)][p][i].op = j
                 /\ recvs'[Peer(p, s)][p][i].side = s
    <3>0. s \in Sides /\ Peer(p, s) \in Ranks
      BY PeerType DEF Sides
    <3>1. CASE Posted(p, j, s)
      <4>1. PICK i \in 1 .. Len(recvs[Peer(p, s)][p]) :
              /\ recvs[Peer(p, s)][p][i].op = j
              /\ recvs[Peer(p, s)][p][i].side = s
        BY <3>1 DEF QueuesOK, PostedInQueues
      <4>2. i \in 1 .. Len(recvs'[Peer(p, s)][p])
        BY <1>5, <3>0
      <4>. QED BY <1>5, <3>0, <4>1, <4>2
    <3>2. CASE p = r /\ j = k /\ s = side
      <4>1. n + 1 \in 1 .. Len(recvs'[q][r])
        BY <1>0, <1>4
      <4>. QED BY <1>3, <1>4, <3>2, <4>1
    <3>. QED BY <1>2, <2>1, <3>0, <3>1, <3>2
  <2>2. ASSUME NEW p \in Ranks, NEW j \in Ops, NEW s \in SendSides,
               Posted(p, j, s)'
        PROVE  \E i \in 1 .. Len(sends'[p][Peer(p, s)]) :
                 /\ sends'[p][Peer(p, s)][i].op = j
                 /\ sends'[p][Peer(p, s)][i].side = s
    <3>1. s \in Sides /\ s # side
      BY <1>0 DEF Sides, SendSides, RecvSides
    <3>2. Posted(p, j, s)
      BY <1>2, <2>2, <3>1
    <3>. QED BY <1>1, <3>2 DEF QueuesOK, PostedInQueues
  <2>. QED BY <2>1, <2>2 DEF PostedInQueues
<1>8. \A i \in 1 .. n : KeyAt(recvs[q][r], i) < Key(k, side)
  <2>1. ASSUME NEW i \in 1 .. n
        PROVE  KeyAt(recvs[q][r], i) < Key(k, side)
    <3> DEFINE j == recvs[q][r][i].op
               s == recvs[q][r][i].side
    <3>1. j \in Ops /\ s \in RecvSides /\ Posted(r, j, s) /\ Peer(r, s) = q
      BY <1>0, EntryTypes DEF QueuesOK, QueuesHoldPosted
    <3> HIDE DEF j, s
    <3>2. SameQueue(r, s, side)
      BY <1>0, <1>3, <3>1 DEF SameQueue
    <3>3. Key(j, s) < Key(k, side)
      BY <1>0, <3>1, <3>2, PostedSmaller
    <3>. QED BY <3>3 DEF KeyAt, j, s
  <2>. QED BY <2>1
<1>9. QueuesIncrease'
  <2>1. ASSUME NEW x \in Ranks, NEW y \in Ranks,
               NEW i \in 1 .. Len(recvs'[x][y]), NEW j \in 1 .. Len(recvs'[x][y]), i < j
        PROVE  KeyAt(recvs'[x][y], i) < KeyAt(recvs'[x][y], j)
    <3>1. CASE j \in 1 .. Len(recvs[x][y])
      <4>1. i \in 1 .. Len(recvs[x][y])
        BY <2>1, <3>1, EntryTypes
      <4>. QED BY <1>5, <2>1, <3>1, <4>1 DEF QueuesOK, QueuesIncrease
    <3>2. CASE x = q /\ y = r /\ j = n + 1
      <4>1. i \in 1 .. n
        BY <1>0, <2>1, <3>2
      <4>. QED BY <1>0, <1>5, <1>8, <3>2, <4>1
    <3>. QED BY <1>5, <3>1, <3>2
  <2>. QED BY <1>1, <2>1 DEF QueuesOK, QueuesIncrease
<1>10. n < Len(sends[q][r]) => Key(k, side) = KeyAt(sends[q][r], n + 1)
  <2> SUFFICES ASSUME n < Len(sends[q][r])
               PROVE  Key(k, side) = KeyAt(sends[q][r], n + 1)
    OBVIOUS
  <2> DEFINE m == Len(sends[q][r])
             f == [i \in 1 .. n |-> KeyAt(recvs[q][r], i)]
             g == [i \in 1 .. m |-> KeyAt(sends[q][r], i)]
             j == sends[q][r][n + 1].op
             t == sends[q][r][n + 1].side
  <2>1. /\ m \in Nat /\ n + 1 \in 1 .. m
        /\ \A i \in 1 .. n : f[i] \in Int
        /\ \A i \in 1 .. m : g[i] \in Int
    <3>1. /\ m \in Nat
          /\ \A i \in 1 .. n : KeyAt(recvs[q][r], i) \in Int
          /\ \A i \in 1 .. m : KeyAt(sends[q][r], i) \in Int
      BY <1>0, EntryTypes
    <3>. QED BY <1>0, <3>1
  <2>2. /\ \A i, l \in 1 .. m : i < l => g[i] < g[l]
        /\ \A i \in 1 .. n : f[i] < Key(k, side)
    <3>1. \A i, l \in 1 .. m :
            i < l => KeyAt(sends[q][r], i) < KeyAt(sends[q][r], l)
      BY <1>0 DEF QueuesOK, QueuesIncrease
    <3>. QED BY <1>8, <3>1
  <2>3. \A i \in 1 .. n : f[i] = g[i]
    <3>1. ASSUME NEW i \in 1 .. n
          PROVE  KeyAt(recvs[q][r], i) = KeyAt(sends[q][r], i) /\ i \in 1 .. m
      BY <1>0, <2>1, EntryTypes DEF QueuesOK, QueuesAgree
    <3>. QED BY <3>1
  <2>4. /\ j \in Ops /\ t \in SendSides /\ t \in Sides
        /\ Posted(q, j, t) /\ Peer(q, t) = r /\ g[n + 1] = Key(j, t)
    <3>1. /\ j \in Ops /\ t \in SendSides
      BY <1>0, <2>1, EntryTypes
    <3>2. Posted(q, j, t) /\ Peer(q, t) = r
      <4>1. \A l \in 1 .. m : /\ Posted(q, sends[q][r][l].op, sends[q][r][l].side)
                              /\ Peer(q, sends[q][r][l].side) = r
        BY <1>0 DEF QueuesOK, QueuesHoldPosted
      <4>. QED BY <2>1, <4>1
    <3>. QED BY <2>1, <3>1, <3>2 DEF Sides, KeyAt
  <2> HIDE DEF j, t
  <2>5. IsExchange(program[j]) /\ IsExchange(program[k])
    <3>1. stage[q][j] # "none" /\ stage[r][k] # "none"
      BY <1>0, <2>4 DEF Posted, StagesAfter, Sides, SendSides, RecvSides
    <3>. QED BY <1>0, <2>4, <3>1 DEF OrderOK, StartedOK
  <2>6. g[n + 1] < Key(k, side) => \E i \in 1 .. n : f[i] = g[n + 1]
    <3> SUFFICES ASSUME g[n + 1] < Key(k, side)
                 PROVE  \E i \in 1 .. n : f[i] = g[n + 1]
      OBVIOUS
    <3>1. PICK s \in RecvSides : Peer(r, s) = q /\ Key(j, s) = Key(j, t)
      BY <1>0, <2>4, Partner DEF Opposite, SendSides, RecvSides
    <3>2. SameQueue(r, s, side) /\ Key(j, s) < Key(k, side)
      BY <1>0, <1>3, <2>4, <3>1 DEF SameQueue
    <3>3. Posted(r, j, s)
      BY <1>0, <2>4, <2>5, <3>2, SmallerPosted
    <3>4. PICK i \in 1 .. n : recvs[q][r][i].op = j /\ recvs[q][r][i].side = s
      BY <2>4, <3>1, <3>3 DEF QueuesOK, PostedInQueues
    <3>. QED BY <2>4, <3>1, <3>4 DEF KeyAt
  <2>7. Key(k, side) < g[n + 1] => \E i \in 1 .. m : g[i] = Key(k, side)
    <3> SUFFICES ASSUME Key(k, side) < g[n + 1]
                 PROVE  \E i \in 1 .. m : g[i] = Key(k, side)
      OBVIOUS
    <3>1. PICK s \in SendSides : Peer(q, s) = r /\ Key(k, s) = Key(k, side)
      BY <1>0, <1>3, Partner DEF Opposite, SendSides, RecvSides
    <3>2. SameQueue(q, s, t) /\ Key(k, s) < Key(j, t)
      BY <2>4, <3>1 DEF SameQueue
    <3>3. Posted(q, k, s)
      BY <1>0, <2>4, <2>5, <3>2, SmallerPosted
    <3>4. PICK i \in 1 .. m : sends[q][r][i].op = k /\ sends[q][r][i].side = s
      BY <1>0, <3>1, <3>3 DEF QueuesOK, PostedInQueues
    <3>. QED BY <3>1, <3>4 DEF KeyAt
  <2>8. Key(k, side) \in Int /\ n < m
    BY <1>0 DEF Key, Ops
  <2>9. g[n + 1] = KeyAt(sends[q][r], n + 1)
    BY <2>1
  <2> HIDE DEF f, g, m, n
  <2>10. Key(k, side) = g[n + 1]
    BY <1>0, <2>1, <2>2, <2>3, <2>6, <2>7, <2>8, AppendAgrees
  <2>. QED BY <2>9, <2>10
<1>11. QueuesAgree'
  <2>1. ASSUME NEW x \in Ranks, NEW y \in Ranks,
               NEW i \in 1 .. Len(recvs'[x][y]), i \in 1 .. Len(sends[x][y])
        PROVE  KeyAt(recvs'[x][y], i) = KeyAt(sends[x][y], i)
    <3>1. CASE i \in 1 .. Len(recvs[x][y])
      <4>1. /\ KeyAt(recvs'[x][y], i) = KeyAt(recvs[x][y], i)
            /\ i <= Len(sends[x][y]) /\ i <= Len(recvs[x][y])
        BY <1>5, <2>1, <3>1, EntryTypes
      <4>2. KeyAt(recvs[x][y], i) = KeyAt(sends[x][y], i)
        BY <2>1, <3>1, <4>1 DEF QueuesOK, QueuesAgree
      <4>. QED BY <4>1, <4>2
    <3>2. CASE x = q /\ y = r /\ i = n + 1
      BY <1>0, <1>5, <1>10, <2>1, <3>2, EntryTypes
    <3>. QED BY <1>5, <3>1, <3>2
  <2>2. \A x, y \in Ranks : Len(sends[x][y]) \in Nat /\ Len(recvs'[x][y]) \in Nat
    BY <1>0, <1>4, EntryTypes
  <2>. QED BY <1>1, <2>1, <2>2 DEF QueuesAgree
<1>. QED BY <1>6, <1>7, <1>9, <1>11 DEF QueuesOK

(* The payload of one message is set.                                      *)
SetData(p, q, i, d) == sends' = [sends EXCEPT ![p][q][i].data = d]

LEMMA EntryChanged ==
  ASSUME TypeOK, NEW p \in Ranks, NEW q \in Ranks,
         NEW i \in 1 .. Len(sends[p][q]), NEW d,
         SetData(p, q, i, d)
  PROVE  /\ \A x, y \in Ranks : Len(sends'[x][y]) = Len(sends[x][y])
         /\ \A x, y \in Ranks : \A j \in 1 .. Len(sends[x][y]) :
              ~(x = p /\ y = q /\ j = i) => sends'[x][y][j] = sends[x][y][j]
         /\ sends'[p][q][i].op = sends[p][q][i].op
         /\ sends'[p][q][i].side = sends[p][q][i].side
         /\ sends'[p][q][i].data = d
<1>1. /\ sends'[p][q] = [sends[p][q] EXCEPT ![i].data = d]
      /\ \A x, y \in Ranks : x # p \/ y # q => sends'[x][y] = sends[x][y]
  BY DEF TypeOK, SetData
<1>2. /\ sends[p][q] \in Seq(SendRequests)
      /\ sends[p][q][i] \in [op : Ops, side : SendSides,
                             data : Payloads \union {NoData}]
  BY EntryTypes DEF SendRequests
<1>3. DOMAIN sends[p][q] = 1 .. Len(sends[p][q])
  BY <1>2
<1>4. /\ sends'[p][q][i] = [sends[p][q][i] EXCEPT !.data = d]
      /\ \A j \in 1 .. Len(sends[p][q]) :
           j # i => sends'[p][q][j] = sends[p][q][j]
  BY <1>1, <1>3
<1>5. /\ sends'[p][q][i].op = sends[p][q][i].op
      /\ sends'[p][q][i].side = sends[p][q][i].side
      /\ sends'[p][q][i].data = d
  BY <1>2, <1>4
<1>6. Len(sends'[p][q]) = Len(sends[p][q])
  BY <1>1, <1>2
<1>7. ASSUME NEW x \in Ranks, NEW y \in Ranks, NEW j \in 1 .. Len(sends[x][y]),
             ~(x = p /\ y = q /\ j = i)
      PROVE  sends'[x][y][j] = sends[x][y][j]
  <2>1. CASE x = p /\ y = q
    BY <1>4, <1>7, <2>1
  <2>2. CASE ~(x = p /\ y = q)
    BY <1>1, <2>2
  <2>. QED BY <2>1, <2>2
<1>8. \A x, y \in Ranks : Len(sends'[x][y]) = Len(sends[x][y])
  BY <1>1, <1>6
<1>. QED BY <1>5, <1>7, <1>8

(* The MPI library changes only the payloads of messages.                  *)
LEMMA EntriesKept ==
  ASSUME TypeOK, NEW p \in Ranks, NEW q \in Ranks, MPIStep(p, q)
  PROVE  /\ \A x, y \in Ranks :
              /\ Len(sends'[x][y]) = Len(sends[x][y])
              /\ \A i \in 1 .. Len(sends[x][y]) :
                   /\ sends'[x][y][i].op = sends[x][y][i].op
                   /\ sends'[x][y][i].side = sends[x][y][i].side
         /\ UNCHANGED <<program, pos, pc, stage, recvs>>
<1>1. UNCHANGED <<program, pos, pc, stage, recvs>>
  BY DEF MPIStep, Buffer, Match
<1>2. \E i \in 1 .. Len(sends[p][q]) : \E d : SetData(p, q, i, d)
  <2>1. CASE Buffer(p, q)
    <3>1. PICK i \in (matched[p][q] + 1) .. Len(sends[p][q]) :
            sends' = [sends EXCEPT ![p][q][i].data = Payload(p, sends[p][q][i])]
      BY <2>1 DEF Buffer
    <3>2. matched[p][q] \in Nat /\ Len(sends[p][q]) \in Nat
      BY EntryTypes DEF TypeOK
    <3>3. i \in 1 .. Len(sends[p][q])
      BY <3>2
    <3>. QED BY <3>1, <3>3 DEF SetData
  <2>2. CASE Match(p, q)
    <3>1. /\ matched[p][q] + 1 <= Len(sends[p][q])
          /\ sends' = [sends EXCEPT ![p][q][matched[p][q] + 1].data = NoData]
      BY <2>2 DEF Match
    <3>2. matched[p][q] \in Nat /\ Len(sends[p][q]) \in Nat
      BY EntryTypes DEF TypeOK
    <3>3. matched[p][q] + 1 \in 1 .. Len(sends[p][q])
      BY <3>1, <3>2
    <3>. QED BY <3>1, <3>3 DEF SetData
  <2>. QED BY <2>1, <2>2 DEF MPIStep
<1>3. PICK i \in 1 .. Len(sends[p][q]) :
       \E d : SetData(p, q, i, d)
  BY <1>2
<1>4. PICK d : SetData(p, q, i, d)
  BY <1>3
<1>5. \A x, y \in Ranks :
        /\ Len(sends'[x][y]) = Len(sends[x][y])
        /\ \A j \in 1 .. Len(sends[x][y]) :
             /\ ~(x = p /\ y = q /\ j = i) => sends'[x][y][j] = sends[x][y][j]
             /\ sends'[x][y][j].op = sends[x][y][j].op
             /\ sends'[x][y][j].side = sends[x][y][j].side
  <2>1. /\ \A x, y \in Ranks : Len(sends'[x][y]) = Len(sends[x][y])
        /\ \A x, y \in Ranks : \A j \in 1 .. Len(sends[x][y]) :
             ~(x = p /\ y = q /\ j = i) => sends'[x][y][j] = sends[x][y][j]
    BY <1>3, <1>4, EntryChanged
  <2>2. /\ sends'[p][q][i].op = sends[p][q][i].op
        /\ sends'[p][q][i].side = sends[p][q][i].side
    BY <1>3, <1>4, EntryChanged
  <2>3. ASSUME NEW x \in Ranks, NEW y \in Ranks,
               NEW j \in 1 .. Len(sends[x][y])
        PROVE  /\ sends'[x][y][j].op = sends[x][y][j].op
               /\ sends'[x][y][j].side = sends[x][y][j].side
    <3>1. CASE x = p /\ y = q /\ j = i
      BY <2>2, <3>1
    <3>2. CASE ~(x = p /\ y = q /\ j = i)
      BY <2>1, <3>2
    <3>. QED BY <3>1, <3>2
  <2>. QED BY <2>1, <2>3
<1>. QED BY <1>1, <1>5

(* Starting an exchange and finishing it issue no call.                    *)
LEMMA StartPosts ==
  ASSUME IndInv, NEW r \in Ranks, StartExchange(r)
  PROVE  \A p \in Ranks, k \in Ops : \A side \in Sides :
           Posted(p, k, side)' <=> Posted(p, k, side)
<1>1. /\ pc[r] = "starting"
      /\ stage' = [stage EXCEPT ![r][pos[r]] = "recvLeft"]
  BY DEF StartExchange
<1>2. stage[r][pos[r]] = "none" /\ stage \in [Ranks -> [Ops -> Stages]]
  BY <1>1 DEF IndInv, PositionsOK, TypeOK
<1>3. \A p \in Ranks, k \in Ops :
        \/ stage'[p][k] = stage[p][k]
        \/ stage[p][k] = "none" /\ stage'[p][k] = "recvLeft"
  BY <1>1, <1>2
<1>. QED BY <1>3 DEF Posted, StagesAfter, Sides, SendSides, RecvSides

LEMMA WaitallPosts ==
  ASSUME TypeOK, NEW r \in Ranks, NEW n \in Ops, Waitall(r, n)
  PROVE  \A p \in Ranks, k \in Ops : \A side \in Sides :
           Posted(p, k, side)' <=> Posted(p, k, side)
<1>1. stage[r][n] = "waitall" /\ stage' = [stage EXCEPT ![r][n] = "done"]
  BY DEF Waitall
<1>2. \A p \in Ranks, k \in Ops :
        \/ stage'[p][k] = stage[p][k]
        \/ stage[p][k] = "waitall" /\ stage'[p][k] = "done"
  BY <1>1 DEF TypeOK
<1>. QED BY <1>2 DEF Posted, StagesAfter, Sides, SendSides, RecvSides

LEMMA QueuesNext ==
  ASSUME InOrder, IndInv, OrderOK, QueuesOK, [Next]_vars
  PROVE  QueuesOK'
<1>0. TypeOK /\ PositionsOK
  BY DEF IndInv
<1>1. ASSUME UNCHANGED <<stage, sends, recvs>>
      PROVE  QueuesOK'
  <2>1. \A p \in Ranks, k \in Ops : \A side \in Sides :
          Posted(p, k, side)' <=> Posted(p, k, side)
    BY <1>1 DEF Posted
  <2>. QED BY <1>0, <1>1, <2>1, QueuesElsewhere
<1>2. ASSUME NEW r \in Ranks, MainStep(r) PROVE QueuesOK'
  <2>1. CASE StartExchange(r)
    <3>1. UNCHANGED <<sends, recvs>>
      BY <2>1 DEF StartExchange
    <3>. QED BY <1>0, <2>1, <3>1, StartPosts, QueuesElsewhere
  <2>2. CASE ~StartExchange(r)
    <3>1. UNCHANGED <<stage, sends, recvs>>
      BY <1>2, <2>2 DEF MainStep, BeginExchange, FinishCall,
           WaitForSynchronization, FinishWait, Release, FinishDestructor
    <3>. QED BY <1>1, <3>1
  <2>. QED BY <2>1, <2>2
<1>3. ASSUME NEW r \in Ranks, NEW k \in Ops, Post(r, k) PROVE QueuesOK'
  <2>1. stage[r][k] \in SendSides \/ stage[r][k] \in RecvSides
    BY <1>3 DEF Post, Sides
  <2>. QED BY <1>0, <1>3, <2>1, QueuesPostSend, QueuesPostRecv
<1>4. ASSUME NEW r \in Ranks, NEW k \in Ops, Waitall(r, k) PROVE QueuesOK'
  <2>1. UNCHANGED <<sends, recvs>>
    BY <1>4 DEF Waitall
  <2>. QED BY <1>0, <1>4, <2>1, WaitallPosts, QueuesElsewhere
<1>5. ASSUME NEW p \in Ranks, NEW q \in Ranks, MPIStep(p, q) PROVE QueuesOK'
  <2>1. /\ \A x, y \in Ranks :
             /\ Len(sends'[x][y]) = Len(sends[x][y])
             /\ \A i \in 1 .. Len(sends[x][y]) :
                  /\ sends'[x][y][i].op = sends[x][y][i].op
                  /\ sends'[x][y][i].side = sends[x][y][i].side
        /\ stage' = stage /\ recvs' = recvs
    BY <1>0, <1>5, EntriesKept
  <2>2. \A r \in Ranks, k \in Ops : \A side \in Sides :
          Posted(r, k, side)' <=> Posted(r, k, side)
    BY <2>1 DEF Posted
  <2>. QED BY <1>0, <2>1, <2>2, QueuesElsewhere
<1>6. CASE UNCHANGED vars
  BY <1>1, <1>6 DEF vars
<1>. QED BY <1>2, <1>3, <1>4, <1>5, <1>6 DEF Next, Terminated

-----------------------------------------------------------------------------
(* Requests.                                                               *)

(* A call of an operation is in one queue, once.                           *)
LEMMA EntriesUnique ==
  ASSUME TypeOK, QueuesOK, NEW x \in Ranks, NEW y \in Ranks, NEW z \in Ranks
  PROVE  /\ \A i \in 1 .. Len(sends[x][y]), j \in 1 .. Len(sends[x][z]) :
              /\ sends[x][y][i].op = sends[x][z][j].op
              /\ sends[x][y][i].side = sends[x][z][j].side
              => y = z /\ i = j
         /\ \A i \in 1 .. Len(recvs[y][x]), j \in 1 .. Len(recvs[z][x]) :
              /\ recvs[y][x][i].op = recvs[z][x][j].op
              /\ recvs[y][x][i].side = recvs[z][x][j].side
              => y = z /\ i = j
<1>1. ASSUME NEW i \in 1 .. Len(sends[x][y]), NEW j \in 1 .. Len(sends[x][z]),
             sends[x][y][i].op = sends[x][z][j].op,
             sends[x][y][i].side = sends[x][z][j].side
      PROVE  y = z /\ i = j
  <2>1. y = z
    BY <1>1 DEF QueuesOK, QueuesHoldPosted
  <2>2. KeyAt(sends[x][y], i) = KeyAt(sends[x][z], j)
    BY <1>1 DEF KeyAt
  <2>3. KeyAt(sends[x][y], i) \in Int /\ KeyAt(sends[x][z], j) \in Int
    BY EntryTypes
  <2>4. ~(i < j) /\ ~(j < i)
    BY <2>1, <2>2, <2>3 DEF QueuesOK, QueuesIncrease
  <2>. QED BY <2>1, <2>4
<1>2. ASSUME NEW i \in 1 .. Len(recvs[y][x]), NEW j \in 1 .. Len(recvs[z][x]),
             recvs[y][x][i].op = recvs[z][x][j].op,
             recvs[y][x][i].side = recvs[z][x][j].side
      PROVE  y = z /\ i = j
  <2>1. y = z
    BY <1>2 DEF QueuesOK, QueuesHoldPosted
  <2>2. KeyAt(recvs[y][x], i) = KeyAt(recvs[z][x], j)
    BY <1>2 DEF KeyAt
  <2>3. KeyAt(recvs[y][x], i) \in Int /\ KeyAt(recvs[z][x], j) \in Int
    BY EntryTypes
  <2>4. ~(i < j) /\ ~(j < i)
    BY <2>1, <2>2, <2>3 DEF QueuesOK, QueuesIncrease
  <2>. QED BY <2>1, <2>4
<1>. QED BY <1>1, <1>2

(* A payload is not "no data".                                             *)
LEMMA PayloadIsData == NoData \notin Payloads
<1>1. 0 \in Window
  BY ConstantsAssumption DEF Window
<1>2. DOMAIN NoData = {}
  BY DEF NoData
<1>. QED BY <1>1, <1>2 DEF Payloads

LEMMA RequestsInit == Init => RequestsOK
<1> SUFFICES ASSUME Init PROVE RequestsOK
  OBVIOUS
<1>1. /\ \A p, q \in Ranks : /\ Len(sends[p][q]) = 0 /\ Len(recvs[p][q]) = 0
                             /\ matched[p][q] = 0
      /\ \A r \in Ranks, k \in Ops : requests[r][k] = {}
  BY DEF Init
<1>. QED BY <1>1 DEF RequestsOK

(* A call is issued.                                                       *)
LEMMA RequestsPost ==
  ASSUME TypeOK, RequestsOK, NEW r \in Ranks, NEW k \in Ops, Post(r, k)
  PROVE  RequestsOK'
<1> DEFINE side == stage[r][k]
           q == Peer(r, side)
<1>0. /\ side \in Sides /\ q \in Ranks
      /\ sends' = sends \/
           sends' = [sends EXCEPT ![r][q] =
                      Append(@, [op |-> k, side |-> side, data |-> NoData])]
      /\ recvs' = recvs \/
           recvs' = [recvs EXCEPT ![q][r] = Append(@, [op |-> k, side |-> side])]
  BY PeerType DEF Post
<1>1. /\ requests'[r][k] = requests[r][k] \union {side}
      /\ \A x \in Ranks, j \in Ops :
           x # r \/ j # k => /\ requests'[x][j] = requests[x][j]
                             /\ stage'[x][j] = stage[x][j]
      /\ stage'[r][k] # "done" /\ matched' = matched
  <2>1. /\ requests' = [requests EXCEPT ![r][k] = @ \union {side}]
        /\ stage' = [stage EXCEPT ![r][k] = NextStage[side]]
        /\ matched' = matched
    BY DEF Post
  <2>2. NextStage[side] # "done"
    BY <1>0 DEF NextStage, Sides, SendSides, RecvSides
  <2>3. /\ requests \in [Ranks -> [Ops -> SUBSET Sides]]
        /\ stage \in [Ranks -> [Ops -> Stages]]
    BY DEF TypeOK
  <2>. QED BY <2>1, <2>2, <2>3
<1>2. \A x, y \in Ranks :
        /\ Len(sends[x][y]) \in Nat /\ Len(recvs[x][y]) \in Nat
        /\ matched[x][y] \in Nat
        /\ \A i \in 1 .. Len(sends[x][y]) : sends[x][y][i].op \in Ops
        /\ \A i \in 1 .. Len(recvs[x][y]) : recvs[x][y][i].op \in Ops
  <2>1. \A x, y \in Ranks : matched[x][y] \in Nat
    BY DEF TypeOK
  <2>. QED BY <2>1, EntryTypes
<1>3. \A x \in Ranks, j \in Ops : requests[x][j] \subseteq requests'[x][j]
  BY <1>1
<1>4. ASSUME NEW x \in Ranks, NEW j \in Ops, stage'[x][j] = "done"
      PROVE  requests'[x][j] = {}
  BY <1>1, <1>4 DEF RequestsOK
<1> HIDE DEF side, q
<1>5. ASSUME NEW x \in Ranks, NEW y \in Ranks
      PROVE  /\ matched[x][y] <= Len(sends'[x][y])
             /\ \A i \in (matched[x][y] + 1) .. Len(sends'[x][y]) :
                  sends'[x][y][i].data = NoData =>
                    sends'[x][y][i].side \in requests'[x][sends'[x][y][i].op]
  <2>1. \/ sends'[x][y] = sends[x][y]
        \/ /\ x = r /\ y = q
           /\ sends'[x][y] = Append(sends[x][y],
                               [op |-> k, side |-> side, data |-> NoData])
    <3>1. sends \in [Ranks -> [Ranks -> Seq(SendRequests)]]
      BY DEF TypeOK
    <3>2. ASSUME x # r \/ y # q PROVE sends'[x][y] = sends[x][y]
      BY SMTT(30), <1>0, <3>1, <3>2
    <3>3. CASE x = r /\ y = q
      BY <1>0, <3>1, <3>3
    <3>. QED BY <3>2, <3>3
  <2>2. /\ matched[x][y] <= Len(sends[x][y])
        /\ \A i \in (matched[x][y] + 1) .. Len(sends[x][y]) :
             sends[x][y][i].data = NoData =>
               sends[x][y][i].side \in requests'[x][sends[x][y][i].op]
    <3>1. ASSUME NEW i \in (matched[x][y] + 1) .. Len(sends[x][y]),
                 sends[x][y][i].data = NoData
          PROVE  sends[x][y][i].side \in requests'[x][sends[x][y][i].op]
      <4>1. sends[x][y][i].side \in requests[x][sends[x][y][i].op]
        BY <3>1 DEF RequestsOK
      <4>2. i \in 1 .. Len(sends[x][y])
        BY <1>2
      <4>. QED BY <1>2, <1>3, <4>1, <4>2
    <3>. QED BY <3>1 DEF RequestsOK
  <2>3. CASE sends'[x][y] = sends[x][y]
    BY <2>2, <2>3
  <2>4. CASE /\ x = r /\ y = q
             /\ sends'[x][y] = Append(sends[x][y],
                                 [op |-> k, side |-> side, data |-> NoData])
    <3> DEFINE n == Len(sends[x][y])
    <3>1. /\ n \in Nat /\ Len(sends'[x][y]) = n + 1
          /\ \A i \in 1 .. n : sends'[x][y][i] = sends[x][y][i]
          /\ sends'[x][y][n + 1].op = k /\ sends'[x][y][n + 1].side = side
      BY <2>4, EntryTypes
    <3>2. matched[x][y] <= Len(sends'[x][y])
      BY <1>2, <2>2, <3>1
    <3>3. ASSUME NEW i \in (matched[x][y] + 1) .. Len(sends'[x][y]),
                 sends'[x][y][i].data = NoData
          PROVE  sends'[x][y][i].side \in requests'[x][sends'[x][y][i].op]
      <4>1. CASE i = n + 1
        BY <1>1, <2>4, <3>1, <4>1
      <4>2. CASE i # n + 1
        <5>1. i \in 1 .. n /\ i \in (matched[x][y] + 1) .. n
          BY <1>2, <3>1, <4>2
        <5>. QED BY <2>2, <3>1, <3>3, <5>1
      <4>. QED BY <4>1, <4>2
    <3>. QED BY <3>2, <3>3
  <2>. QED BY <2>1, <2>3, <2>4
<1>6. ASSUME NEW x \in Ranks, NEW y \in Ranks
      PROVE  /\ matched[x][y] <= Len(recvs'[x][y])
             /\ \A i \in (matched[x][y] + 1) .. Len(recvs'[x][y]) :
                  recvs'[x][y][i].side \in requests'[y][recvs'[x][y][i].op]
  <2>1. \/ recvs'[x][y] = recvs[x][y]
        \/ /\ x = q /\ y = r
           /\ recvs'[x][y] = Append(recvs[x][y], [op |-> k, side |-> side])
    <3>1. recvs \in [Ranks -> [Ranks -> Seq(RecvRequests)]]
      BY DEF TypeOK
    <3>2. ASSUME x # q \/ y # r PROVE recvs'[x][y] = recvs[x][y]
      BY SMTT(30), <1>0, <3>1, <3>2
    <3>3. CASE x = q /\ y = r
      BY <1>0, <3>1, <3>3
    <3>. QED BY <3>2, <3>3
  <2>2. /\ matched[x][y] <= Len(recvs[x][y])
        /\ \A i \in (matched[x][y] + 1) .. Len(recvs[x][y]) :
             recvs[x][y][i].side \in requests'[y][recvs[x][y][i].op]
    <3>1. ASSUME NEW i \in (matched[x][y] + 1) .. Len(recvs[x][y])
          PROVE  recvs[x][y][i].side \in requests'[y][recvs[x][y][i].op]
      <4>1. recvs[x][y][i].side \in requests[y][recvs[x][y][i].op]
        BY <3>1 DEF RequestsOK
      <4>2. i \in 1 .. Len(recvs[x][y])
        BY <1>2
      <4>. QED BY <1>2, <1>3, <4>1, <4>2
    <3>. QED BY <3>1 DEF RequestsOK
  <2>3. CASE recvs'[x][y] = recvs[x][y]
    BY <2>2, <2>3
  <2>4. CASE /\ x = q /\ y = r
             /\ recvs'[x][y] = Append(recvs[x][y], [op |-> k, side |-> side])
    <3> DEFINE n == Len(recvs[x][y])
    <3>1. /\ n \in Nat /\ Len(recvs'[x][y]) = n + 1
          /\ \A i \in 1 .. n : recvs'[x][y][i] = recvs[x][y][i]
          /\ recvs'[x][y][n + 1].op = k /\ recvs'[x][y][n + 1].side = side
      BY <2>4, EntryTypes
    <3>2. matched[x][y] <= Len(recvs'[x][y])
      BY <1>2, <2>2, <3>1
    <3>3. ASSUME NEW i \in (matched[x][y] + 1) .. Len(recvs'[x][y])
          PROVE  recvs'[x][y][i].side \in requests'[y][recvs'[x][y][i].op]
      <4>1. CASE i = n + 1
        BY <1>1, <2>4, <3>1, <4>1
      <4>2. CASE i # n + 1
        <5>1. i \in 1 .. n /\ i \in (matched[x][y] + 1) .. n
          BY <1>2, <3>1, <4>2
        <5>. QED BY <2>2, <3>1, <5>1
      <4>. QED BY <4>1, <4>2
    <3>. QED BY <3>2, <3>3
  <2>. QED BY <2>1, <2>3, <2>4
<1>. QED BY <1>1, <1>4, <1>5, <1>6 DEF RequestsOK

(* A message is copied out of the send buffer.                             *)
LEMMA RequestsBuffer ==
  ASSUME TypeOK, PositionsOK, QueuesOK, RequestsOK,
         NEW p \in Ranks, NEW q \in Ranks, Buffer(p, q)
  PROVE  RequestsOK'
<1>1. PICK i \in (matched[p][q] + 1) .. Len(sends[p][q]) :
        /\ sends' = [sends EXCEPT ![p][q][i].data = Payload(p, sends[p][q][i])]
        /\ requests' = [requests EXCEPT ![p][sends[p][q][i].op] =
                                          @ \ {sends[p][q][i].side}]
        /\ UNCHANGED <<stage, recvs, matched>>
  BY DEF Buffer
<1>2. \A x, y \in Ranks :
        /\ Len(sends[x][y]) \in Nat /\ matched[x][y] \in Nat
        /\ Len(sends'[x][y]) = Len(sends[x][y])
        /\ \A j \in 1 .. Len(sends[x][y]) :
             /\ sends[x][y][j].op \in Ops /\ sends[x][y][j].side \in SendSides
             /\ sends'[x][y][j].op = sends[x][y][j].op
             /\ sends'[x][y][j].side = sends[x][y][j].side
        /\ \A j \in 1 .. Len(recvs[x][y]) :
             recvs[x][y][j].op \in Ops /\ recvs[x][y][j].side \in RecvSides
  <2>1. \A x, y \in Ranks : matched[x][y] \in Nat
    BY DEF TypeOK
  <2>2. MPIStep(p, q)
    BY DEF MPIStep
  <2>3. \A x, y \in Ranks :
          /\ Len(sends'[x][y]) = Len(sends[x][y])
          /\ \A j \in 1 .. Len(sends[x][y]) :
               /\ sends'[x][y][j].op = sends[x][y][j].op
               /\ sends'[x][y][j].side = sends[x][y][j].side
    BY <2>2, EntriesKept
  <2>4. ASSUME NEW x \in Ranks, NEW y \in Ranks
        PROVE  /\ Len(sends[x][y]) \in Nat
               /\ \A j \in 1 .. Len(sends[x][y]) :
                    sends[x][y][j].op \in Ops /\ sends[x][y][j].side \in SendSides
               /\ \A j \in 1 .. Len(recvs[x][y]) :
                    recvs[x][y][j].op \in Ops /\ recvs[x][y][j].side \in RecvSides
    BY EntryTypes
  <2>5. ASSUME NEW x \in Ranks, NEW y \in Ranks
        PROVE  /\ Len(sends[x][y]) \in Nat /\ matched[x][y] \in Nat
               /\ Len(sends'[x][y]) = Len(sends[x][y])
    BY <2>1, <2>3, <2>4
  <2>6. ASSUME NEW x \in Ranks, NEW y \in Ranks, NEW j \in 1 .. Len(sends[x][y])
        PROVE  /\ sends[x][y][j].op \in Ops /\ sends[x][y][j].side \in SendSides
               /\ sends'[x][y][j].op = sends[x][y][j].op
               /\ sends'[x][y][j].side = sends[x][y][j].side
    BY <2>3, <2>4
  <2>7. ASSUME NEW x \in Ranks, NEW y \in Ranks, NEW j \in 1 .. Len(recvs[x][y])
        PROVE  recvs[x][y][j].op \in Ops /\ recvs[x][y][j].side \in RecvSides
    BY <2>4
  <2>. QED BY <2>5, <2>6, <2>7
<1>3. i \in 1 .. Len(sends[p][q])
  BY <1>2
<1>4. \A x, y \in Ranks : \A j \in 1 .. Len(sends[x][y]) :
        sends'[x][y][j].data = NoData =>
          sends[x][y][j].data = NoData /\ ~(x = p /\ y = q /\ j = i)
  <2>1. Payload(p, sends[p][q][i]) # NoData
    BY <1>3, PayloadType, PayloadIsData
  <2>2. /\ sends'[p][q][i].data = Payload(p, sends[p][q][i])
        /\ \A x, y \in Ranks : \A j \in 1 .. Len(sends[x][y]) :
             ~(x = p /\ y = q /\ j = i) => sends'[x][y][j] = sends[x][y][j]
    <3>1. SetData(p, q, i, Payload(p, sends[p][q][i]))
      BY <1>1 DEF SetData
    <3> DEFINE d == Payload(p, sends[p][q][i])
    <3> HIDE DEF d
    <3>2. SetData(p, q, i, d)
      BY <3>1 DEF d
    <3>3. /\ sends'[p][q][i].data = d
          /\ \A x, y \in Ranks : \A j \in 1 .. Len(sends[x][y]) :
               ~(x = p /\ y = q /\ j = i) => sends'[x][y][j] = sends[x][y][j]
      BY <1>3, <3>2, EntryChanged
    <3>. QED BY <3>3 DEF d
  <2>. QED BY <2>1, <2>2
<1>5. \A x \in Ranks, k \in Ops : \A side :
        side \in requests[x][k] =>
          \/ side \in requests'[x][k]
          \/ x = p /\ k = sends[p][q][i].op /\ side = sends[p][q][i].side
  BY <1>1 DEF TypeOK
<1>6. \A x \in Ranks, k \in Ops : requests'[x][k] \subseteq requests[x][k]
  BY <1>1 DEF TypeOK
<1>7. ASSUME NEW x \in Ranks, NEW y \in Ranks,
             NEW j \in (matched[x][y] + 1) .. Len(sends[x][y]),
             sends'[x][y][j].data = NoData
      PROVE  sends[x][y][j].side \in requests'[x][sends[x][y][j].op]
  <2>1. j \in 1 .. Len(sends[x][y])
    BY <1>2
  <2>2. sends[x][y][j].side \in requests[x][sends[x][y][j].op]
    <3>1. sends[x][y][j].data = NoData
      BY <1>4, <1>7, <2>1
    <3>. QED BY <3>1 DEF RequestsOK
  <2>3. ~(/\ x = p /\ sends[x][y][j].op = sends[p][q][i].op
          /\ sends[x][y][j].side = sends[p][q][i].side)
    <3>1. ~(x = p /\ y = q /\ j = i)
      BY <1>4, <1>7, <2>1
    <3>2. \A l \in 1 .. Len(sends[p][y]), z \in 1 .. Len(sends[p][q]) :
            /\ sends[p][y][l].op = sends[p][q][z].op
            /\ sends[p][y][l].side = sends[p][q][z].side
            => y = q /\ l = z
      BY EntriesUnique
    <3>. QED BY <1>3, <2>1, <3>1, <3>2
  <2>4. sends[x][y][j].op \in Ops
    BY <1>2, <2>1
  <2>. QED BY <1>5, <2>2, <2>3, <2>4
<1>8. ASSUME NEW x \in Ranks, NEW y \in Ranks,
             NEW j \in (matched[x][y] + 1) .. Len(recvs[x][y])
      PROVE  recvs[x][y][j].side \in requests'[y][recvs[x][y][j].op]
  <2>1. j \in 1 .. Len(recvs[x][y])
    BY <1>2
  <2>2. recvs[x][y][j].side \in requests[y][recvs[x][y][j].op]
    <3>1. \A l \in (matched[x][y] + 1) .. Len(recvs[x][y]) :
            recvs[x][y][l].side \in requests[y][recvs[x][y][l].op]
      BY DEF RequestsOK
    <3>. QED BY <3>1
  <2>3. recvs[x][y][j].side # sends[p][q][i].side
    <3>1. recvs[x][y][j].side \in RecvSides /\ sends[p][q][i].side \in SendSides
      BY <1>2, <1>3, <2>1
    <3>. QED BY <3>1 DEF SendSides, RecvSides
  <2>4. recvs[x][y][j].op \in Ops
    BY <1>2, <2>1
  <2>. QED BY <1>5, <2>2, <2>3, <2>4
<1>9. \A x \in Ranks, k \in Ops : stage'[x][k] = "done" => requests'[x][k] = {}
  BY <1>1, <1>6 DEF RequestsOK
<1>10. ASSUME NEW x \in Ranks, NEW y \in Ranks,
              NEW j \in (matched[x][y] + 1) .. Len(sends'[x][y]),
              sends'[x][y][j].data = NoData
       PROVE  sends'[x][y][j].side \in requests'[x][sends'[x][y][j].op]
  <2>1. j \in 1 .. Len(sends[x][y])
    BY <1>2
  <2> DEFINE s == sends'[x][y][j]
  <2>2. s.op = sends[x][y][j].op /\ s.side = sends[x][y][j].side
    BY <1>2, <2>1
  <2>3. sends[x][y][j].side \in requests'[x][sends[x][y][j].op]
    <3>1. j \in (matched[x][y] + 1) .. Len(sends[x][y])
      BY <1>2
    <3>. QED BY <1>7, <1>10, <3>1
  <2> HIDE DEF s
  <2>4. s.side \in requests'[x][s.op]
    BY <2>2, <2>3
  <2>. QED BY <2>4 DEF s
<1>11. \A x, y \in Ranks :
         matched[x][y] <= Len(sends'[x][y]) /\ matched[x][y] <= Len(recvs[x][y])
  BY <1>2 DEF RequestsOK
<1>12. matched' = matched /\ recvs' = recvs
  BY <1>1
<1>. QED BY <1>8, <1>9, <1>10, <1>11, <1>12 DEF RequestsOK

(* A message is received: entry i of both queues of the pair.              *)
LEMMA MatchStep ==
  ASSUME TypeOK, NEW p \in Ranks, NEW q \in Ranks, Match(p, q),
         NEW i, i = matched[p][q] + 1
  PROVE  /\ i \in 1 .. Len(sends[p][q]) /\ i \in 1 .. Len(recvs[p][q])
         /\ matched'[p][q] = i
         /\ \A x, y \in Ranks :
              ~(x = p /\ y = q) => matched'[x][y] = matched[x][y]
         /\ \A x, y \in Ranks : \A j \in 1 .. Len(sends[x][y]) :
              ~(x = p /\ y = q /\ j = i) => sends'[x][y][j] = sends[x][y][j]
         /\ sends'[p][q][i].data = NoData
         /\ \A x \in Ranks, k \in Ops : requests'[x][k] =
              {side \in requests[x][k] :
                 /\ ~(/\ x = p /\ k = sends[p][q][i].op
                      /\ side = sends[p][q][i].side)
                 /\ ~(/\ x = q /\ k = recvs[p][q][i].op
                      /\ side = recvs[p][q][i].side)}
         /\ UNCHANGED <<program, pos, pc, stage, recvs>>
<1>1. /\ i <= Len(sends[p][q]) /\ i <= Len(recvs[p][q])
      /\ matched' = [matched EXCEPT ![p][q] = i]
      /\ sends' = [sends EXCEPT ![p][q][i].data = NoData]
      /\ UNCHANGED <<program, pos, pc, stage, recvs>>
  BY DEF Match
<1>2. /\ matched[p][q] \in Nat
      /\ Len(sends[p][q]) \in Nat /\ Len(recvs[p][q]) \in Nat
  BY SMTT(30), EntryTypes DEF TypeOK
<1>3. i \in 1 .. Len(sends[p][q]) /\ i \in 1 .. Len(recvs[p][q])
  BY <1>1, <1>2
<1>4. /\ matched'[p][q] = i
      /\ \A x, y \in Ranks :
           ~(x = p /\ y = q) => matched'[x][y] = matched[x][y]
  BY <1>1 DEF TypeOK
<1>5. /\ sends'[p][q][i].data = NoData
      /\ \A x, y \in Ranks : \A j \in 1 .. Len(sends[x][y]) :
           ~(x = p /\ y = q /\ j = i) => sends'[x][y][j] = sends[x][y][j]
  <2>1. SetData(p, q, i, NoData)
    BY <1>1 DEF SetData
  <2>. QED BY SMTT(30), <1>3, <2>1, EntryChanged
<1>6. requests' = [x \in Ranks |-> [k \in Ops |->
        {side \in requests[x][k] :
           <<x, k, side>> \notin
             {<<p, sends[p][q][i].op, sends[p][q][i].side>>,
              <<q, recvs[p][q][i].op, recvs[p][q][i].side>>}}]]
  BY DEF Match
<1>7. ASSUME NEW x \in Ranks, NEW k \in Ops
      PROVE  requests'[x][k] =
               {side \in requests[x][k] :
                  /\ ~(/\ x = p /\ k = sends[p][q][i].op
                       /\ side = sends[p][q][i].side)
                  /\ ~(/\ x = q /\ k = recvs[p][q][i].op
                       /\ side = recvs[p][q][i].side)}
  BY <1>6
<1>. QED BY <1>1, <1>3, <1>4, <1>5, <1>7

LEMMA RequestsMatch ==
  ASSUME TypeOK, QueuesOK, RequestsOK,
         NEW p \in Ranks, NEW q \in Ranks, Match(p, q)
  PROVE  RequestsOK'
<1> DEFINE i == matched[p][q] + 1
<1>1. /\ i \in 1 .. Len(sends[p][q]) /\ i \in 1 .. Len(recvs[p][q])
      /\ matched'[p][q] = i
      /\ \A x, y \in Ranks :
           ~(x = p /\ y = q) => matched'[x][y] = matched[x][y]
      /\ \A x, y \in Ranks : \A j \in 1 .. Len(sends[x][y]) :
           ~(x = p /\ y = q /\ j = i) => sends'[x][y][j] = sends[x][y][j]
      /\ \A x \in Ranks, k \in Ops : requests'[x][k] =
           {side \in requests[x][k] :
              /\ ~(/\ x = p /\ k = sends[p][q][i].op
                   /\ side = sends[p][q][i].side)
              /\ ~(/\ x = q /\ k = recvs[p][q][i].op
                   /\ side = recvs[p][q][i].side)}
      /\ UNCHANGED <<stage, recvs>>
  BY SMTT(30), MatchStep
<1>2. i = matched[p][q] + 1
  OBVIOUS
<1> HIDE DEF i
<1>3. \A x, y \in Ranks :
        /\ Len(sends'[x][y]) = Len(sends[x][y])
        /\ Len(sends[x][y]) \in Nat /\ Len(recvs[x][y]) \in Nat
        /\ matched[x][y] \in Nat
        /\ matched[x][y] <= Len(sends[x][y])
        /\ matched[x][y] <= Len(recvs[x][y])
        /\ \A j \in 1 .. Len(sends[x][y]) :
             sends[x][y][j].op \in Ops /\ sends[x][y][j].side \in SendSides
        /\ \A j \in 1 .. Len(recvs[x][y]) :
             recvs[x][y][j].op \in Ops /\ recvs[x][y][j].side \in RecvSides
  <2>1. /\ \A x, y \in Ranks : matched[x][y] \in Nat
        /\ MPIStep(p, q)
    BY DEF TypeOK, MPIStep
  <2>2. \A x, y \in Ranks : /\ matched[x][y] <= Len(sends[x][y])
                            /\ matched[x][y] <= Len(recvs[x][y])
    BY DEF RequestsOK
  <2>. QED BY <2>1, <2>2, EntriesKept, EntryTypes
<1>4. ASSUME NEW x \in Ranks, NEW y \in Ranks
      PROVE  /\ matched'[x][y] \in Nat
             /\ matched[x][y] <= matched'[x][y]
             /\ matched'[x][y] <= Len(sends[x][y])
             /\ matched'[x][y] <= Len(recvs[x][y])
  <2>1. /\ matched[x][y] \in Nat
        /\ matched[x][y] <= Len(sends[x][y])
        /\ matched[x][y] <= Len(recvs[x][y])
    BY <1>3
  <2>2. matched'[x][y] = IF x = p /\ y = q THEN i ELSE matched[x][y]
    BY <1>1
  <2>3. x = p /\ y = q => /\ i = matched[x][y] + 1
                         /\ i <= Len(sends[x][y]) /\ i <= Len(recvs[x][y])
    BY <1>1, <1>2
  <2>. QED BY <2>1, <2>2, <2>3
<1>5. ASSUME NEW x \in Ranks, NEW y \in Ranks,
             NEW j \in (matched'[x][y] + 1) .. Len(sends[x][y])
      PROVE  /\ j \in (matched[x][y] + 1) .. Len(sends[x][y])
             /\ j \in 1 .. Len(sends[x][y])
             /\ ~(x = p /\ y = q /\ j = i)
  BY <1>1, <1>3, <1>4
<1>6. ASSUME NEW x \in Ranks, NEW y \in Ranks,
             NEW j \in (matched'[x][y] + 1) .. Len(recvs[x][y])
      PROVE  /\ j \in (matched[x][y] + 1) .. Len(recvs[x][y])
             /\ j \in 1 .. Len(recvs[x][y])
             /\ ~(x = p /\ y = q /\ j = i)
  BY <1>1, <1>3, <1>4
<1>7. sends[p][q][i].side \in SendSides /\ recvs[p][q][i].side \in RecvSides
  BY <1>1, <1>3
<1>8. ASSUME NEW x \in Ranks, NEW y \in Ranks,
             NEW j \in (matched'[x][y] + 1) .. Len(sends[x][y]),
             sends'[x][y][j].data = NoData
      PROVE  sends'[x][y][j].side \in requests'[x][sends'[x][y][j].op]
  <2> DEFINE k == sends[x][y][j].op
             side == sends[x][y][j].side
  <2>1. sends'[x][y][j] = sends[x][y][j] /\ k \in Ops /\ side \in SendSides
    BY <1>1, <1>3, <1>5
  <2>2. side \in requests[x][k]
    <3>1. \A l \in (matched[x][y] + 1) .. Len(sends[x][y]) :
            sends[x][y][l].data = NoData =>
              sends[x][y][l].side \in requests[x][sends[x][y][l].op]
      BY DEF RequestsOK
    <3>. QED BY <1>5, <1>8, <2>1, <3>1
  <2>3. ~(/\ x = p /\ k = sends[p][q][i].op /\ side = sends[p][q][i].side)
    BY <1>1, <1>5, EntriesUnique
  <2>4. side # recvs[p][q][i].side
    BY <1>7, <2>1 DEF SendSides, RecvSides
  <2> HIDE DEF k, side
  <2>5. side \in requests'[x][k]
    BY <1>1, <2>1, <2>2, <2>3, <2>4
  <2>. QED BY <2>1, <2>5 DEF k, side
<1>9. ASSUME NEW x \in Ranks, NEW y \in Ranks,
             NEW j \in (matched'[x][y] + 1) .. Len(recvs[x][y])
      PROVE  recvs[x][y][j].side \in requests'[y][recvs[x][y][j].op]
  <2> DEFINE k == recvs[x][y][j].op
             side == recvs[x][y][j].side
  <2>1. k \in Ops /\ side \in RecvSides
    BY <1>3, <1>6
  <2>2. side \in requests[y][k]
    <3>1. \A l \in (matched[x][y] + 1) .. Len(recvs[x][y]) :
            recvs[x][y][l].side \in requests[y][recvs[x][y][l].op]
      BY DEF RequestsOK
    <3>. QED BY <1>6, <3>1
  <2>3. ~(/\ y = q /\ k = recvs[p][q][i].op /\ side = recvs[p][q][i].side)
    <3>1. CASE y = q
      <4>1. /\ recvs[x][q][j].op = recvs[p][q][i].op
            /\ recvs[x][q][j].side = recvs[p][q][i].side
            => x = p /\ j = i
        <5>1. /\ i \in 1 .. Len(recvs[p][q]) /\ j \in 1 .. Len(recvs[x][q])
              /\ TypeOK /\ QueuesOK
          BY <1>1, <1>6, <3>1
        <5>. QED BY <5>1, EntriesUnique
      <4>. QED BY <1>6, <3>1, <4>1
    <3>. QED BY <3>1
  <2>4. side # sends[p][q][i].side
    BY <1>7, <2>1 DEF SendSides, RecvSides
  <2> HIDE DEF k, side
  <2>5. side \in requests'[y][k]
    BY <1>1, <2>1, <2>2, <2>3, <2>4
  <2>. QED BY <2>5 DEF k, side
<1>10. \A x \in Ranks, k \in Ops : stage'[x][k] = "done" => requests'[x][k] = {}
  <2>1. ASSUME NEW x \in Ranks, NEW k \in Ops, stage'[x][k] = "done"
        PROVE  requests'[x][k] = {}
    <3>1. requests[x][k] = {}
      BY <1>1, <2>1 DEF RequestsOK
    <3>2. requests'[x][k] \subseteq requests[x][k]
      BY <1>1
    <3>. QED BY <3>1, <3>2
  <2>. QED BY ONLY <2>1
<1>11. recvs' = recvs /\ \A x, y \in Ranks : Len(sends'[x][y]) = Len(sends[x][y])
  BY <1>1, <1>3
<1>12. ASSUME NEW x \in Ranks, NEW y \in Ranks
       PROVE  /\ matched'[x][y] <= Len(sends'[x][y])
              /\ matched'[x][y] <= Len(recvs'[x][y])
              /\ \A j \in (matched'[x][y] + 1) .. Len(sends'[x][y]) :
                   sends'[x][y][j].data = NoData =>
                     sends'[x][y][j].side \in requests'[x][sends'[x][y][j].op]
              /\ \A j \in (matched'[x][y] + 1) .. Len(recvs'[x][y]) :
                   recvs'[x][y][j].side \in requests'[y][recvs'[x][y][j].op]
  BY <1>4, <1>8, <1>9, <1>11
<1>. QED BY <1>10, <1>12 DEF RequestsOK

LEMMA RequestsNext ==
  ASSUME IndInv, QueuesOK, RequestsOK, [Next]_vars
  PROVE  RequestsOK'
<1>0. TypeOK /\ PositionsOK
  BY DEF IndInv
<1>1. ASSUME NEW r \in Ranks, MainStep(r) PROVE RequestsOK'
  <2>1. /\ UNCHANGED <<requests, sends, recvs, matched>>
        /\ stage' = stage \/ StartExchange(r)
    BY <1>1 DEF MainStep, BeginExchange, StartExchange, FinishCall,
         WaitForSynchronization, FinishWait, Release, FinishDestructor
  <2>2. \A x \in Ranks, k \in Ops : stage'[x][k] = "done" => stage[x][k] = "done"
    <3>1. StartExchange(r) => stage' = [stage EXCEPT ![r][pos[r]] = "recvLeft"]
      BY DEF StartExchange
    <3>2. ASSUME stage' = [stage EXCEPT ![r][pos[r]] = "recvLeft"],
                 NEW x \in Ranks, NEW k \in Ops
          PROVE  stage'[x][k] = stage[x][k] \/ stage'[x][k] = "recvLeft"
      <4>1. stage \in [Ranks -> [Ops -> Stages]]
        BY <1>0 DEF TypeOK
      <4>2. CASE x = r /\ k = pos[r]
        BY <3>2, <4>1, <4>2
      <4>3. CASE ~(x = r /\ k = pos[r])
        BY <3>2, <4>1, <4>3
      <4>. QED BY <4>2, <4>3
    <3>. QED BY <2>1, <3>1, <3>2
  <2>. QED BY <2>1, <2>2 DEF RequestsOK
<1>2. ASSUME NEW r \in Ranks, NEW k \in Ops, Post(r, k) PROVE RequestsOK'
  BY <1>0, <1>2, RequestsPost
<1>3. ASSUME NEW r \in Ranks, NEW k \in Ops, Waitall(r, k) PROVE RequestsOK'
  <2>1. /\ UNCHANGED <<requests, sends, recvs, matched>>
        /\ stage' = [stage EXCEPT ![r][k] = "done"] /\ requests[r][k] = {}
    BY <1>3 DEF Waitall
  <2>2. \A x \in Ranks, j \in Ops : stage'[x][j] = "done" => requests[x][j] = {}
    BY SMTT(30), <1>0, <2>1 DEF TypeOK, RequestsOK
  <2>. QED BY <2>1, <2>2 DEF RequestsOK
<1>4. ASSUME NEW p \in Ranks, NEW q \in Ranks, MPIStep(p, q) PROVE RequestsOK'
  BY <1>0, <1>4, RequestsBuffer, RequestsMatch DEF MPIStep
<1>5. CASE UNCHANGED vars
  BY <1>5 DEF vars, RequestsOK
<1>. QED BY <1>1, <1>2, <1>3, <1>4, <1>5 DEF Next, Terminated

-----------------------------------------------------------------------------
(* Neighbours.                                                             *)

(* A send and a receive at the same place belong to one operation.         *)
LEMMA MatchedOps ==
  ASSUME TypeOK, QueuesOK, NEW p \in Ranks, NEW q \in Ranks,
         NEW i \in 1 .. Len(sends[p][q]), i \in 1 .. Len(recvs[p][q])
  PROVE  sends[p][q][i].op = recvs[p][q][i].op
<1>1. KeyAt(sends[p][q], i) = KeyAt(recvs[p][q], i)
  BY EntryTypes DEF QueuesOK, QueuesAgree
<1>2. sends[p][q][i].op \in Nat /\ recvs[p][q][i].op \in Nat
  BY SMTT(30), EntryTypes DEF Ops
<1>3. \A m, n \in Nat, a, b \in {0, 1} : 2 * m + a = 2 * n + b => m = n
  OBVIOUS
<1>4. \A k, side : \E a \in {0, 1} : Key(k, side) = 2 * k + a
  BY DEF Key
<1>5. PICK a \in {0, 1} : KeyAt(sends[p][q], i) = 2 * sends[p][q][i].op + a
  BY <1>4 DEF KeyAt
<1>6. PICK b \in {0, 1} : KeyAt(recvs[p][q], i) = 2 * recvs[p][q][i].op + b
  BY <1>4 DEF KeyAt
<1>7. 2 * sends[p][q][i].op + a = 2 * recvs[p][q][i].op + b
  BY <1>1, <1>5, <1>6
<1>. QED BY <1>2, <1>3, <1>7

(* ... and the receive is the one that was posted for the send.            *)
LEMMA MatchedSides ==
  ASSUME TypeOK, QueuesOK, NEW p \in Ranks, NEW q \in Ranks,
         NEW i \in 1 .. Len(sends[p][q]), i \in 1 .. Len(recvs[p][q])
  PROVE  recvs[p][q][i].side = Taker[sends[p][q][i].side]
<1> DEFINE s == sends[p][q][i].side
           t == recvs[p][q][i].side
           k == sends[p][q][i].op
<1>1. /\ s \in {"sendLeft", "sendRight"} /\ t \in {"recvLeft", "recvRight"}
      /\ k \in Nat
  BY SMTT(30), EntryTypes DEF SendSides, RecvSides, Ops
<1>2. Key(k, s) = Key(k, t)
  BY EntryTypes, MatchedOps DEF QueuesOK, QueuesAgree, KeyAt
<1>3. Peer(p, s) = q /\ Peer(q, t) = p
  BY DEF QueuesOK, QueuesHoldPosted
<1>4. NProc \in Nat \ {0} /\ p \in 0 .. (NProc - 1) /\ q \in 0 .. (NProc - 1)
  BY ConstantsAssumption DEF Ranks
<1> HIDE DEF s, t, k
<1>5. ASSUME NProc > 2 PROVE t = Taker[s]
  <2>1. /\ s = "sendLeft" => q = Left(p)
        /\ s = "sendRight" => q = Right(p)
        /\ t = "recvLeft" => p = Left(q)
        /\ t = "recvRight" => p = Right(q)
    BY <1>3 DEF Peer
  <2>2. /\ ~(q = Left(p) /\ p = Left(q))
        /\ ~(q = Right(p) /\ p = Right(q))
    BY <1>4, <1>5 DEF Left, Right
  <2>3. /\ Taker["sendLeft"] = "recvRight"
        /\ Taker["sendRight"] = "recvLeft"
    BY <1>5 DEF Taker
  <2>. QED BY <1>1, <2>1, <2>2, <2>3
<1>6. ASSUME ~(NProc > 2) PROVE t = Taker[s]
  <2>1. s = "sendLeft" <=> t = "recvLeft"
    BY <1>1, <1>2, <1>4, <1>6 DEF Key
  <2>2. /\ Taker["sendLeft"] = "recvLeft"
        /\ Taker["sendRight"] = "recvRight"
    BY <1>6 DEF Taker
  <2>. QED BY <1>1, <2>1, <2>2
<1>7. t = Taker[s]
  BY <1>5, <1>6
<1>. QED BY <1>7 DEF s, t

LEMMA NeighboursInit == Init => NeighboursOK
<1> SUFFICES ASSUME Init PROVE NeighboursOK
  OBVIOUS
<1>1. \A r \in Ranks, k \in Ops : stage[r][k] = "none"
  BY DEF Init
<1>2. \A r \in Ranks, k \in Ops : \A side \in RecvSides : ~Posted(r, k, side)
  BY <1>1 DEF Posted, StagesAfter, RecvSides
<1>. QED BY <1>2 DEF NeighboursOK, Arrived

(* Steps that complete no receive.                                         *)
LEMMA NeighboursElsewhere ==
  ASSUME TypeOK, NeighboursOK,
         \A r \in Ranks : pos[r] <= pos'[r] /\ pos'[r] \in Nat,
         \A r \in Ranks, k \in Ops : \A side \in RecvSides :
           Arrived(r, k, side)' => Arrived(r, k, side)
  PROVE  NeighboursOK'
<1>1. ASSUME NEW r \in Ranks, NEW k \in Ops, NEW side \in RecvSides,
             Arrived(r, k, side)'
      PROVE  k <= pos'[Peer(r, side)]
  <2>1. k <= pos[Peer(r, side)]
    BY <1>1 DEF NeighboursOK
  <2>2. Peer(r, side) \in Ranks
    BY PeerType
  <2>. QED BY SMTT(30), <2>1, <2>2 DEF TypeOK, Ops
<1>. QED BY <1>1 DEF NeighboursOK

(* Steps other than the receipt of a message complete no receive.          *)
LEMMA NothingArrives ==
  ASSUME IndInv, [Next]_vars, \A p, q \in Ranks : ~Match(p, q)
  PROVE  \A x \in Ranks, k \in Ops : \A side \in RecvSides :
           Arrived(x, k, side)' => Arrived(x, k, side)
<1> DEFINE Nothing == \A x \in Ranks, k \in Ops : \A side \in RecvSides :
                        Arrived(x, k, side)' => Arrived(x, k, side)
<1>0. TypeOK
  BY DEF IndInv
<1>1. ASSUME NEW r \in Ranks, MainStep(r) PROVE Nothing
  <2>1. requests' = requests
    BY <1>1 DEF MainStep, BeginExchange, StartExchange, FinishCall,
         WaitForSynchronization, FinishWait, Release, FinishDestructor
  <2>2. \A x \in Ranks, k \in Ops : \A side \in Sides :
          Posted(x, k, side)' <=> Posted(x, k, side)
    <3>1. StartExchange(r) \/ stage' = stage
      BY <1>1 DEF MainStep, BeginExchange, FinishCall,
           WaitForSynchronization, FinishWait, Release, FinishDestructor
    <3>2. CASE stage' = stage
      BY <3>2 DEF Posted
    <3>. QED BY <3>1, <3>2, StartPosts
  <2>. QED BY <2>1, <2>2 DEF Arrived, Sides
<1>2. ASSUME NEW r \in Ranks, NEW k \in Ops, Post(r, k) PROVE Nothing
  <2>1. /\ stage[r][k] \in Sides
        /\ requests' = [requests EXCEPT ![r][k] = @ \union {stage[r][k]}]
    BY <1>2 DEF Post
  <2>2. \A x \in Ranks, j \in Ops : \A side \in Sides :
          Posted(x, j, side)' <=>
            Posted(x, j, side) \/ (x = r /\ j = k /\ side = stage[r][k])
    BY <1>0, <1>2, PostPosted
  <2>3. /\ \A x \in Ranks, j \in Ops : requests[x][j] \subseteq requests'[x][j]
        /\ stage[r][k] \in requests'[r][k]
    BY <1>0, <2>1 DEF TypeOK
  <2>. QED BY <2>2, <2>3 DEF Arrived, Sides
<1>3. ASSUME NEW r \in Ranks, NEW k \in Ops, Waitall(r, k) PROVE Nothing
  <2>1. requests' = requests
    BY <1>3 DEF Waitall
  <2>2. \A x \in Ranks, j \in Ops : \A side \in Sides :
          Posted(x, j, side)' <=> Posted(x, j, side)
    BY <1>0, <1>3, WaitallPosts
  <2>. QED BY <2>1, <2>2 DEF Arrived, Sides
<1>4. ASSUME NEW p \in Ranks, NEW q \in Ranks, Buffer(p, q) PROVE Nothing
  <2>1. PICK i \in (matched[p][q] + 1) .. Len(sends[p][q]) :
          requests' = [requests EXCEPT ![p][sends[p][q][i].op] =
                                         @ \ {sends[p][q][i].side}]
    BY <1>4 DEF Buffer
  <2>2. sends[p][q][i].side \in SendSides
    <3>1. matched[p][q] \in Nat /\ Len(sends[p][q]) \in Nat
      BY <1>0, EntryTypes DEF TypeOK
    <3>2. i \in 1 .. Len(sends[p][q])
      BY <3>1
    <3>. QED BY <1>0, <3>2, EntryTypes
  <2>3. stage' = stage
    BY <1>4 DEF Buffer
  <2>4. \A x \in Ranks, k \in Ops : \A side \in RecvSides :
          side \in requests[x][k] => side \in requests'[x][k]
    BY <1>0, <2>1, <2>2 DEF TypeOK, SendSides, RecvSides
  <2>. QED BY <2>3, <2>4 DEF Arrived, Posted
<1>5. CASE UNCHANGED vars
  BY <1>5 DEF vars, Arrived, Posted
<1>. QED BY <1>1, <1>2, <1>3, <1>4, <1>5 DEF Next, Terminated, MPIStep

(* A received message completes one receive.                               *)
LEMMA MatchArrives ==
  ASSUME TypeOK, NEW p \in Ranks, NEW q \in Ranks, Match(p, q),
         NEW rcv, rcv = recvs[p][q][matched[p][q] + 1],
         NEW x \in Ranks, NEW k \in Ops, NEW side \in RecvSides,
         Arrived(x, k, side)', ~Arrived(x, k, side)
  PROVE  x = q /\ k = rcv.op /\ side = rcv.side
<1> DEFINE i == matched[p][q] + 1
<1>1. /\ i \in 1 .. Len(sends[p][q])
      /\ requests'[x][k] =
           {s \in requests[x][k] :
              /\ ~(/\ x = p /\ k = sends[p][q][i].op
                   /\ s = sends[p][q][i].side)
              /\ ~(x = q /\ k = rcv.op /\ s = rcv.side)}
      /\ stage' = stage
  BY MatchStep
<1>2. sends[p][q][i].side \in SendSides
  BY <1>1, EntryTypes
<1> HIDE DEF i
<1>. QED BY <1>1, <1>2 DEF Arrived, Posted, SendSides, RecvSides

LEMMA NeighboursNext ==
  ASSUME IndInv, QueuesOK, RequestsOK, NeighboursOK, [Next]_vars
  PROVE  NeighboursOK'
<1>0. /\ TypeOK /\ PositionsOK
      /\ \A r \in Ranks : pos[r] \in Nat
  BY DEF IndInv, TypeOK
<1>1. CASE \A p, q \in Ranks : ~Match(p, q)
  <2>1. pos' = pos \/ \E r \in Ranks : pos' = [pos EXCEPT ![r] = @ + 1]
    <3>1. CASE \E r \in Ranks : MainStep(r)
      <4>1. PICK r \in Ranks : MainStep(r)
        BY <3>1
      <4>2. CASE BeginExchange(r) \/ Release(r)
        BY <4>2 DEF BeginExchange, Release
      <4>3. CASE ~(BeginExchange(r) \/ Release(r))
        BY <4>1, <4>3 DEF MainStep, StartExchange, FinishCall,
             WaitForSynchronization, FinishWait, FinishDestructor
      <4>. QED BY <4>2, <4>3
    <3>2. CASE \E r \in Ranks, k \in Ops : Post(r, k) \/ Waitall(r, k)
      BY <3>2 DEF Post, Waitall
    <3>3. CASE \E p, q \in Ranks : MPIStep(p, q)
      BY <1>1, <3>3 DEF MPIStep, Buffer
    <3>4. CASE UNCHANGED vars
      BY <3>4 DEF vars
    <3>. QED BY <3>1, <3>2, <3>3, <3>4 DEF Next, Terminated
  <2>2. \A x \in Ranks : pos[x] <= pos'[x] /\ pos'[x] \in Nat
    <3>1. ASSUME NEW r \in Ranks, pos' = [pos EXCEPT ![r] = @ + 1]
          PROVE  \A x \in Ranks : pos[x] <= pos'[x] /\ pos'[x] \in Nat
      <4>1. /\ pos'[r] = pos[r] + 1
            /\ \A x \in Ranks : x # r => pos'[x] = pos[x]
        BY <1>0, <3>1 DEF TypeOK
      <4>. QED BY <1>0, <4>1
    <3>. QED BY <1>0, <2>1, <3>1
  <2>. QED BY <1>0, <1>1, <2>2, NothingArrives, NeighboursElsewhere
<1>2. ASSUME NEW p \in Ranks, NEW q \in Ranks, Match(p, q) PROVE NeighboursOK'
  <2> DEFINE i == matched[p][q] + 1
             rcv == recvs[p][q][i]
  <2>1. /\ i \in 1 .. Len(sends[p][q]) /\ i \in 1 .. Len(recvs[p][q])
        /\ pos' = pos
    BY <1>0, <1>2, MatchStep
  <2>2. rcv.op <= pos[p] /\ Peer(q, rcv.side) = p
    <3> HIDE DEF i
    <3>1. sends[p][q][i].op <= pos[p]
      BY <1>0, <2>1 DEF PositionsOK
    <3>. QED BY <1>0, <2>1, <3>1, MatchedOps DEF QueuesOK, QueuesHoldPosted
  <2>3. ASSUME NEW x \in Ranks, NEW k \in Ops, NEW side \in RecvSides,
               Arrived(x, k, side)'
        PROVE  k <= pos'[Peer(x, side)]
    <3>1. CASE Arrived(x, k, side)
      BY <2>1, <3>1 DEF NeighboursOK
    <3>2. CASE ~Arrived(x, k, side)
      <4>1. x = q /\ k = rcv.op /\ side = rcv.side
        BY <1>0, <1>2, <2>3, <3>2, MatchArrives
      <4>. QED BY <2>1, <2>2, <4>1
    <3>. QED BY <3>1, <3>2
  <2>. QED BY <2>3 DEF NeighboursOK
<1>. QED BY <1>1, <1>2

-----------------------------------------------------------------------------
(* The messages, together.                                                 *)

LEMMA MessagesInit == Init => MessagesInv
BY IndInvInit, OrderInit, QueuesInit, RequestsInit, NeighboursInit
   DEF MessagesInv

LEMMA MessagesNext ==
  ASSUME InOrder, MessagesInv, [Next]_vars
  PROVE  MessagesInv'
BY IndInvNext, OrderNext, QueuesNext, RequestsNext, NeighboursNext
   DEF MessagesInv

(* In order means: what is said of the constants holds in every state.     *)
LEMMA MessagesAlways ==
  ASSUME InOrder
  PROVE  Spec => []MessagesInv
<1>1. Init => MessagesInv
  BY MessagesInit
<1>2. MessagesInv /\ [Next]_vars => MessagesInv'
  BY MessagesNext
<1>. QED BY <1>1, <1>2, PTL DEF Spec

(* All exchanges use one communicator and one tag.  If the ranks post in   *)
(* the order of the program, still no message is taken by a receive of     *)
(* another operation, nor of the wrong side.                               *)
THEOREM CrossTalk ==
  ASSUME InOrder
  PROVE  Spec => []NoCrossTalk
<1>1. MessagesInv => NoCrossTalk
  <2> SUFFICES ASSUME MessagesInv, NEW p \in Ranks, NEW q \in Ranks,
                      NEW i \in 1 .. matched[p][q]
               PROVE  /\ sends[p][q][i].op = recvs[p][q][i].op
                      /\ recvs[p][q][i].side = Taker[sends[p][q][i].side]
    BY DEF NoCrossTalk
  <2>1. TypeOK /\ QueuesOK /\ RequestsOK
    BY DEF MessagesInv, IndInv
  <2>2. /\ Len(sends[p][q]) \in Nat /\ Len(recvs[p][q]) \in Nat
        /\ matched[p][q] \in Nat
        /\ matched[p][q] <= Len(sends[p][q])
        /\ matched[p][q] <= Len(recvs[p][q])
    BY SMTT(30), <2>1, EntryTypes DEF TypeOK, RequestsOK
  <2>3. i \in 1 .. Len(sends[p][q]) /\ i \in 1 .. Len(recvs[p][q])
    BY <2>2
  <2>. QED BY <2>1, <2>3, MatchedOps, MatchedSides
<1>. QED BY <1>1, MessagesAlways, PTL

(* An exchange is done only after both neighbours have begun the same one. *)
THEOREM Synchronizes ==
  ASSUME InOrder
  PROVE  Spec => []NeighboursReached
<1>1. MessagesInv => NeighboursReached
  <2> SUFFICES ASSUME MessagesInv, NEW r \in Ranks, NEW k \in 1 .. pos[r],
                      stage[r][k] = "done"
               PROVE  pos[Left(r)] >= k /\ pos[Right(r)] >= k
    BY DEF NeighboursReached
  <2>1. TypeOK /\ RequestsOK /\ NeighboursOK
    BY DEF MessagesInv, IndInv
  <2>2. k \in Ops /\ requests[r][k] = {}
    BY <2>1, ConstantsAssumption DEF TypeOK, Ops, RequestsOK
  <2>3. Arrived(r, k, "recvLeft") /\ Arrived(r, k, "recvRight")
    BY <2>2 DEF Arrived, Posted, StagesAfter
  <2>4. k <= pos[Left(r)] /\ k <= pos[Right(r)]
    BY <2>1, <2>2, <2>3 DEF NeighboursOK, RecvSides, Peer
  <2>5. Left(r) \in Ranks /\ Right(r) \in Ranks
    BY PeerType DEF Peer
  <2>. QED BY <2>1, <2>2, <2>4, <2>5 DEF TypeOK, Ops
<1>. QED BY <1>1, MessagesAlways, PTL

(* When the program has ended, every send has been received and every      *)
(* receive has been served.                                                *)
THEOREM NothingLeftOver ==
  ASSUME InOrder
  PROVE  Spec => []NoMessageLeftOver
<1>1. MessagesInv => NoMessageLeftOver
  <2> SUFFICES ASSUME MessagesInv, Finished, NEW p \in Ranks, NEW q \in Ranks
               PROVE  /\ matched[p][q] = Len(sends[p][q])
                      /\ matched[p][q] = Len(recvs[p][q])
    BY DEF NoMessageLeftOver
  <2>1. /\ TypeOK /\ PositionsOK /\ FuturesOK /\ OrderOK /\ QueuesOK
        /\ RequestsOK
        /\ QueuesHoldPosted /\ PostedInQueues /\ QueuesIncrease /\ QueuesAgree
    BY DEF MessagesInv, IndInv, QueuesOK
  <2>2. /\ \A r \in Ranks : pc[r] = "idle" /\ pos[r] = Len(program)
        /\ Len(program) \in Nat
    BY <2>1 DEF Finished, TypeOK
  <2>3. ASSUME NEW r \in Ranks, NEW k \in Ops, k <= Len(program),
               IsExchange(program[k])
        PROVE  stage[r][k] = "done"
    <3>1. k \in 1 .. pos[r] /\ k # 0
      BY <2>2, <2>3 DEF Ops
    <3>2. stage[r][k] # "none"
      BY <2>2, <2>3, <3>1, <2>1 DEF OrderOK, StartedOK
    <3>3. SynchronizerOf(k) \in Synchronizers
      BY <2>1, <3>1, BegunOperation, ConstantsAssumption DEF SynchronizerOf
    <3>4. Active(r, k) => async_op[r][SynchronizerOf(k)] = k
      BY <2>1, <2>2 DEF FuturesOK
    <3>5. Ready(r, SynchronizerOf(k))
      BY <3>3 DEF Finished
    <3>. QED BY <3>1, <3>2, <3>4, <3>5 DEF Ready, Active
  <2>4. ASSUME NEW r \in Ranks, NEW k \in Ops, stage[r][k] # "none"
        PROVE  /\ IsExchange(program[k]) /\ k <= Len(program)
               /\ requests[r][k] = {}
    <3>1. IsExchange(program[k]) /\ k <= Len(program)
      BY <2>1, <2>2, <2>4 DEF PositionsOK, OrderOK, StartedOK
    <3>. QED BY <2>1, <2>3, <3>1 DEF RequestsOK
  <2>5. /\ Len(sends[p][q]) \in Nat /\ Len(recvs[p][q]) \in Nat
        /\ matched[p][q] \in Nat
        /\ matched[p][q] <= Len(sends[p][q])
        /\ matched[p][q] <= Len(recvs[p][q])
    BY SMTT(30), <2>1, EntryTypes DEF TypeOK, RequestsOK
  <2>6. matched[p][q] = Len(recvs[p][q])
    <3> SUFFICES ASSUME matched[p][q] < Len(recvs[p][q])
                 PROVE  FALSE
      BY <2>5
    <3> DEFINE i == matched[p][q] + 1
               rcv == recvs[p][q][i]
    <3>1. i \in 1 .. Len(recvs[p][q]) /\ i \in (matched[p][q] + 1) .. Len(recvs[p][q])
      BY <2>5
    <3>2. rcv.side \in requests[q][rcv.op]
      BY <2>1, <3>1 DEF RequestsOK
    <3>3. rcv.op \in Ops /\ Posted(q, rcv.op, rcv.side) /\ rcv.side \in RecvSides
      BY <2>1, <3>1, EntryTypes DEF QueuesHoldPosted
    <3> HIDE DEF rcv
    <3>4. stage[q][rcv.op] # "none"
      BY <3>3 DEF Posted, StagesAfter, RecvSides
    <3>. QED BY <2>4, <3>2, <3>3, <3>4
  <2>7. matched[p][q] = Len(sends[p][q])
    <3> SUFFICES ASSUME matched[p][q] < Len(sends[p][q])
                 PROVE  FALSE
      BY <2>5
    <3> DEFINE i == matched[p][q] + 1
               k == sends[p][q][i].op
               side == sends[p][q][i].side
    <3>1. i \in 1 .. Len(sends[p][q])
      BY <2>5
    <3>2. /\ k \in Ops /\ side \in SendSides
          /\ Posted(p, k, side) /\ Peer(p, side) = q
          /\ KeyAt(sends[p][q], i) = Key(k, side)
      BY SMTT(30), <2>1, <3>1, EntryTypes DEF QueuesHoldPosted, KeyAt
    <3> HIDE DEF k, side
    <3>3. stage[p][k] # "none"
      BY <3>2 DEF Posted, StagesAfter, SendSides
    <3>4. stage[q][k] = "done"
      BY <2>3, <2>4, <3>2, <3>3
    <3>5. PICK t \in RecvSides : Peer(q, t) = p /\ Key(k, t) = Key(k, side)
      BY <3>2, Partner DEF Opposite, Sides
    <3>6. Posted(q, k, t)
      BY <3>4 DEF Posted, StagesAfter, RecvSides
    <3>7. PICK l \in 1 .. Len(recvs[p][q]) :
            recvs[p][q][l].op = k /\ recvs[p][q][l].side = t
      BY <2>1, <3>2, <3>5, <3>6 DEF PostedInQueues
    <3>8. KeyAt(recvs[p][q], l) = KeyAt(sends[p][q], i)
      BY <3>2, <3>5, <3>7 DEF KeyAt
    <3>9. l \in 1 .. Len(sends[p][q]) /\ l < i
      BY <2>5, <2>6
    <3>10. KeyAt(sends[p][q], l) = KeyAt(recvs[p][q], l)
      BY <2>1, <3>9 DEF QueuesAgree
    <3>11. KeyAt(sends[p][q], l) < KeyAt(sends[p][q], i)
      BY <2>1, <3>1, <3>9 DEF QueuesIncrease
    <3>12. KeyAt(sends[p][q], i) \in Int
      BY <2>1, <3>1, EntryTypes
    <3>. QED BY <3>8, <3>10, <3>11, <3>12
  <2>. QED BY <2>6, <2>7
<1>. QED BY <1>1, MessagesAlways, PTL

-----------------------------------------------------------------------------
(* What the arrays and the messages hold.                                  *)

(* An array is not written while one of its exchanges is active.           *)
QuietOK ==
  \A r \in Ranks, k \in Ops : Active(r, k) =>
    \A j \in (k + 1) .. pos[r] :
      program[j].array = ArrayOf(k) => program[j].kind \notin WriteKinds

(* The local cells are those of the global array.                          *)
LocalOK ==
  \A r \in Ranks, a \in Arrays : \A c \in Cells(r) :
    c < LocalSize(r) =>
      mem[r][a][c] = GlobalValue(program, a, pos[r], LocalBegin(r) + c)

(* The element that a call sends at position w of its buffer, as of its    *)
(* operation.                                                              *)
SentValue(prog, p, k, side, w) ==
  GlobalValue(prog, prog[k].array, k, LocalBegin(p) + (FirstCell(p, side) + w))

(* A message that was copied out of the send buffer holds these elements.  *)
BuffersOK ==
  \A p, q \in Ranks : \A i \in 1 .. Len(sends[p][q]) :
    LET m == sends[p][q][i] IN
    m.data # NoData =>
      \A w \in Window : m.data[w] = SentValue(program, p, m.op, m.side, w)

(* Ghosts of a side at which the last exchange has received.               *)
GhostsOK ==
  \A r \in Ranks, a \in Arrays : \A k \in 1 .. pos[r] : \A side \in RecvSides :
    LastExchange(program, pos[r], a, k) /\ Arrived(r, k, side) =>
      \A w \in Window :
        mem[r][a][FirstCell(r, side) + w]
          = GlobalValue(program, a, k, GhostIndex(r, FirstCell(r, side) + w))

GhostsInv == MessagesInv /\ QuietOK /\ LocalOK /\ BuffersOK /\ GhostsOK

-----------------------------------------------------------------------------
(* The last write.                                                         *)

(* A nonempty set of bounded numbers has a largest element.                *)
LEMMA Largest ==
  ASSUME NEW n \in Nat, NEW W \in SUBSET (0 .. n), W # {}
  PROVE  \E m \in W : \A i \in W : i <= m
<1> DEFINE R == OpToRel(<, Nat)
           T == {j \in Nat : n - j \in W}
<1>1. IsWellFoundedOn(R, Nat)
  BY NatLessThanWellFounded
<1>2. \A i \in W : i \in 0 .. n /\ n - i \in T
  OBVIOUS
<1>3. T # {} /\ T \subseteq Nat
  BY <1>2
<1> HIDE DEF R
<1>4. PICK x \in T : \A y \in T : <<y, x>> \notin R
  <2> HIDE DEF T
  <2>. QED BY <1>1, <1>3, WFMin
<1>5. \A y \in T : ~(y < x)
  BY <1>3, <1>4 DEF R, OpToRel
<1>6. n - x \in W /\ x \in Nat
  OBVIOUS
<1>7. ASSUME NEW i \in W PROVE i <= n - x
  <2>1. ~(n - i < x) /\ i \in Int
    BY <1>2, <1>5
  <2>. QED BY <1>6, <2>1
<1>. QED BY <1>6, <1>7

(* Operation j of the program writes array a.                              *)
Writes(prog, a, j) == prog[j].array = a /\ prog[j].kind \in WriteKinds

(* The last write is the one that no write follows, or 0.                  *)
LEMMA LastWriteFacts ==
  ASSUME NEW prog, NEW a, NEW k \in Nat, NEW j, j = LastWrite(prog, a, k)
  PROVE  /\ j \in 0 .. k
         /\ j # 0 => Writes(prog, a, j)
         /\ \A i \in 1 .. k : Writes(prog, a, i) => i <= j
<1> DEFINE W == {i \in 1 .. k : prog[i].array = a /\ prog[i].kind \in WriteKinds}
<1>1. j = IF W = {} THEN 0 ELSE CHOOSE m \in W : \A i \in W : i <= m
  BY DEF LastWrite
<1>2. \A i \in 1 .. k : Writes(prog, a, i) <=> i \in W
  BY DEF Writes
<1>3. CASE W = {}
  BY <1>1, <1>2, <1>3
<1>4. CASE W # {}
  <2>1. \E m \in W : \A i \in W : i <= m
    <3>1. W \in SUBSET (0 .. k)
      OBVIOUS
    <3> HIDE DEF W
    <3>. QED BY <1>4, <3>1, Largest
  <2>2. j \in W /\ \A i \in W : i <= j
    <3> HIDE DEF W
    <3>. QED BY <1>1, <1>4, <2>1
  <2>. QED BY <1>2, <2>2
<1>. QED BY <1>3, <1>4

LEMMA LastWriteUnique ==
  ASSUME NEW prog, NEW a, NEW k \in Nat, NEW j \in 0 .. k,
         j # 0 => Writes(prog, a, j),
         \A i \in 1 .. k : Writes(prog, a, i) => i <= j
  PROVE  LastWrite(prog, a, k) = j
<1> DEFINE l == LastWrite(prog, a, k)
<1>1. /\ l \in 0 .. k
      /\ l # 0 => Writes(prog, a, l)
      /\ \A i \in 1 .. k : Writes(prog, a, i) => i <= l
  BY LastWriteFacts
<1> HIDE DEF l
<1>2. l <= j
  BY <1>1
<1>3. j <= l
  BY <1>1
<1>4. l = j
  BY <1>1, <1>2, <1>3
<1>. QED BY <1>4 DEF l

(* The value of an element depends only on the operations so far ...       *)
LEMMA GlobalValueStable ==
  ASSUME NEW prog, NEW other, NEW a, NEW k \in Nat, NEW gi,
         \A i \in 1 .. k : other[i] = prog[i]
  PROVE  GlobalValue(other, a, k, gi) = GlobalValue(prog, a, k, gi)
<1> DEFINE j == LastWrite(prog, a, k)
<1>1. /\ j \in 0 .. k
      /\ j # 0 => Writes(prog, a, j)
      /\ \A i \in 1 .. k : Writes(prog, a, i) => i <= j
  BY LastWriteFacts
<1>2. \A i \in 1 .. k : Writes(other, a, i) <=> Writes(prog, a, i)
  BY DEF Writes
<1> HIDE DEF j
<1>3. j # 0 => j \in 1 .. k
  BY <1>1
<1>4. LastWrite(other, a, k) = j
  BY <1>1, <1>2, <1>3, LastWriteUnique
<1>. QED BY <1>3, <1>4 DEF GlobalValue, j

(* ... is what the last operation writes, if it writes the array ...       *)
LEMMA GlobalValueWritten ==
  ASSUME NEW prog, NEW a, NEW k \in Nat \ {0}, NEW gi, Writes(prog, a, k)
  PROVE  GlobalValue(prog, a, k, gi) = Written(prog[k], k, gi)
<1>1. LastWrite(prog, a, k) = k
  BY LastWriteUnique
<1>. QED BY <1>1 DEF GlobalValue

(* ... and does not change while no operation writes the array.            *)
LEMMA GlobalValueKept ==
  ASSUME NEW prog, NEW a, NEW k \in Nat, NEW n \in Nat, k <= n, NEW gi,
         \A i \in (k + 1) .. n : ~Writes(prog, a, i)
  PROVE  GlobalValue(prog, a, n, gi) = GlobalValue(prog, a, k, gi)
<1> DEFINE j == LastWrite(prog, a, k)
<1>1. /\ j \in 0 .. k
      /\ j # 0 => Writes(prog, a, j)
      /\ \A i \in 1 .. k : Writes(prog, a, i) => i <= j
  BY LastWriteFacts
<1> HIDE DEF j
<1>2. \A i \in 1 .. n : Writes(prog, a, i) => i <= j
  <2>1. ASSUME NEW i \in 1 .. n, Writes(prog, a, i)
        PROVE  i <= j
    <3>1. i \in 1 .. k
      BY <2>1
    <3>. QED BY <1>1, <2>1, <3>1
  <2>. QED BY <2>1
<1>3. LastWrite(prog, a, n) = j
  BY <1>1, <1>2, LastWriteUnique
<1>. QED BY <1>3 DEF GlobalValue, j

-----------------------------------------------------------------------------
(* Where a message comes from and goes to.                                 *)

(* The local ranges of the ranks are adjacent and cover the array.         *)
LEMMA RangesAdjacent ==
  ASSUME NEW r \in Ranks
  PROVE  /\ r > 0 => LocalEnd(r - 1) = LocalBegin(r)
         /\ r = 0 => LocalBegin(r) = 0 /\ LocalEnd(NProc - 1) = GlobalSize
         /\ LocalBegin(r) \in Nat /\ LocalEnd(r) \in Nat
<1>1. /\ GlobalSize \in Nat /\ NProc \in Nat \ {0} /\ r \in 0 .. (NProc - 1)
      /\ \A q \in Ranks : q \in 0 .. (NProc - 1) /\ q \in 0 .. NProc /\ q + 1 \in 0 .. NProc
  BY ConstantsAssumption DEF Ranks
<1>2. \A q \in Ranks : /\ LocalBegin(q) = getOffset(GlobalSize, q, NProc)
                       /\ LocalEnd(q) = getOffset(GlobalSize, q + 1, NProc)
                       /\ LocalBegin(q) \in Nat /\ LocalEnd(q) \in Nat
  <2>1. ASSUME NEW q \in Ranks
        PROVE  /\ LocalBegin(q) = getOffset(GlobalSize, q, NProc)
               /\ LocalEnd(q) = getOffset(GlobalSize, q + 1, NProc)
    <3>1. q \in 0 .. (NProc - 1)
      BY <1>1
    <3>2. /\ splitBegin(GlobalSize, q, NProc) = getOffset(GlobalSize, q, NProc)
          /\ splitEnd(GlobalSize, q, NProc) = getOffset(GlobalSize, q + 1, NProc)
      BY <1>1, <3>1, SplitRange
    <3>. QED BY <3>2 DEF LocalBegin, LocalEnd, localRange
  <2>2. \A q \in Ranks : /\ getOffset(GlobalSize, q, NProc) \in Nat
                         /\ getOffset(GlobalSize, q + 1, NProc) \in Nat
    BY <1>1, OffsetInArray
  <2>. QED BY <2>1, <2>2
<1>3. CASE r > 0
  <2>1. r - 1 \in Ranks /\ (r - 1) + 1 = r
    BY <1>1, <1>3 DEF Ranks
  <2>2. LocalEnd(r - 1) = getOffset(GlobalSize, (r - 1) + 1, NProc)
    BY <1>2, <2>1
  <2>. QED BY <1>2, <1>3, <2>1, <2>2
<1>4. CASE r = 0
  <2>1. NProc - 1 \in Ranks /\ (NProc - 1) + 1 = NProc
    BY <1>1 DEF Ranks
  <2>2. /\ getOffset(GlobalSize, 0, NProc) = 0
        /\ getOffset(GlobalSize, NProc, NProc) = GlobalSize
    BY <1>1, OffsetEnds
  <2>3. LocalEnd(NProc - 1) = getOffset(GlobalSize, (NProc - 1) + 1, NProc)
    BY <1>2, <2>1
  <2>. QED BY <1>2, <1>4, <2>1, <2>2, <2>3
<1>. QED BY <1>1, <1>2, <1>3, <1>4

(* With three ranks or more the buffer of a send holds the elements that   *)
(* the ghosts of the matching receive mirror.  (With two, a rank's right   *)
(* neighbour is its left neighbour, and the first send matches the first   *)
(* receive.)                                                               *)
LEMMA SentIsMirrored ==
  ASSUME NProc >= 3, NEW p \in Ranks, NEW q \in Ranks,
         NEW s \in SendSides, Peer(p, s) = q,
         NEW t \in RecvSides, Peer(q, t) = p,
         NEW w \in Window
  PROVE  LocalBegin(p) + (FirstCell(p, s) + w) = GhostIndex(q, FirstCell(q, t) + w)
<1>1. /\ NProc \in Nat /\ Overlaps \in Nat /\ p \in 0 .. (NProc - 1)
      /\ q \in 0 .. (NProc - 1) /\ w \in 0 .. (Overlaps - 1)
  BY ConstantsAssumption DEF Ranks, Window
<1>2. /\ LocalBegin(p) \in Nat /\ LocalEnd(p) \in Nat
      /\ LocalBegin(q) \in Nat /\ LocalEnd(q) \in Nat
  BY RangesAdjacent
<1>3. CASE t = "recvLeft"
  <2>1. p = Left(q) /\ s = "sendRight"
    BY <1>1, <1>3 DEF Peer, Left, Right, SendSides
  <2>2. LocalEnd(p) = IF q > 0 THEN LocalBegin(q) ELSE GlobalSize
    BY <1>1, <2>1, RangesAdjacent DEF Left
  <2>3. LocalBegin(p) + (FirstCell(p, s) + w) = LocalEnd(p) - Overlaps + w
    BY <1>1, <1>2, <2>1 DEF FirstCell, LocalSize
  <2>4. FirstCell(q, t) = LocalSize(q) /\ LocalSize(q) \in Int
    BY <1>2, <1>3 DEF FirstCell, LocalSize
  <2>5. GhostIndex(q, FirstCell(q, t) + w)
          = (IF q > 0 THEN LocalBegin(q) ELSE GlobalSize) - Overlaps + w
    BY <1>1, <1>2, <2>4, ConstantsAssumption DEF GhostIndex
  <2>. QED BY <2>2, <2>3, <2>5
<1>4. CASE t = "recvRight"
  <2>1. p = Right(q) /\ s = "sendLeft"
    BY <1>1, <1>4 DEF Peer, Left, Right, SendSides
  <2>2. LocalBegin(p) = IF q < NProc - 1 THEN LocalEnd(q) ELSE 0
    <3>1. CASE q < NProc - 1
      <4>1. p = q + 1 /\ p > 0 /\ p - 1 = q
        BY <1>1, <2>1, <3>1 DEF Right
      <4>. QED BY <3>1, <4>1, RangesAdjacent
    <3>2. CASE ~(q < NProc - 1)
      BY <2>1, <3>2, RangesAdjacent DEF Right
    <3>. QED BY <3>1, <3>2
  <2>3. LocalBegin(p) + (FirstCell(p, s) + w) = LocalBegin(p) + w
    BY <1>1, <1>2, <2>1 DEF FirstCell
  <2>4. FirstCell(q, t) = LocalSize(q) + Overlaps /\ LocalSize(q) \in Int
    BY <1>2, <1>4 DEF FirstCell, LocalSize
  <2>5. GhostIndex(q, FirstCell(q, t) + w)
          = (IF q < NProc - 1 THEN LocalEnd(q) ELSE 0) + w
    BY <1>1, <1>2, <2>4 DEF GhostIndex
  <2>. QED BY <2>2, <2>3, <2>5
<1>. QED BY <1>3, <1>4 DEF RecvSides

(* Sends take local cells, receives fill ghosts.                           *)
LEMMA BufferPlace ==
  ASSUME NEW r \in Ranks, NEW w \in Window
  PROVE  /\ \A s \in SendSides :
              FirstCell(r, s) + w \in Cells(r) /\ FirstCell(r, s) + w < LocalSize(r)
         /\ \A t \in RecvSides :
              FirstCell(r, t) + w \in GhostCells(r)
<1>1. LocalSize(r) \in Nat /\ Overlaps \in Nat /\ Overlaps <= LocalSize(r)
  BY LocalRange, ConstantsAssumption
<1>2. w \in 0 .. (Overlaps - 1)
  BY DEF Window
<1>. QED BY <1>1, <1>2
         DEF FirstCell, Cells, GhostCells, SendSides, RecvSides

(* Every ghost is filled by one receive.                                   *)
LEMMA GhostPlace ==
  ASSUME NEW r \in Ranks, NEW c \in GhostCells(r)
  PROVE  \E t \in RecvSides : \E w \in Window : c = FirstCell(r, t) + w
<1>1. LocalSize(r) \in Nat /\ Overlaps \in Nat
  BY LocalRange, ConstantsAssumption
<1>2. CASE c < LocalSize(r) + Overlaps
  <2>1. /\ c - LocalSize(r) \in Window
        /\ c = FirstCell(r, "recvLeft") + (c - LocalSize(r))
    BY <1>1, <1>2 DEF GhostCells, Window, FirstCell
  <2>. QED BY <2>1 DEF RecvSides
<1>3. CASE ~(c < LocalSize(r) + Overlaps)
  <2>1. /\ c - (LocalSize(r) + Overlaps) \in Window
        /\ c = FirstCell(r, "recvRight") + (c - (LocalSize(r) + Overlaps))
    BY <1>1, <1>3 DEF GhostCells, Window, FirstCell
  <2>. QED BY <2>1 DEF RecvSides
<1>. QED BY <1>2, <1>3

-----------------------------------------------------------------------------
(* Arrays that are being exchanged are left alone.                         *)

(* What the beginning of an operation does to the arrays.                  *)
LEMMA BeginMemory ==
  ASSUME TypeOK, PositionsOK, NEW r \in Ranks, BeginExchange(r) \/ Release(r),
         NEW n, n = pos[r] + 1
  PROVE  /\ program'[n].array \in Arrays
         /\ \A x \in Ranks, a \in Arrays :
              x # r \/ a # program'[n].array \/ program'[n].kind \notin WriteKinds
                => mem'[x][a] = mem[x][a]
         /\ program'[n].kind \in WriteKinds =>
              /\ ~EagerWrites => Quiet(r, program'[n].array)
              /\ \A c \in Cells(r) : c < LocalSize(r) =>
                   mem'[r][program'[n].array][c]
                     = Written(program'[n], n, LocalBegin(r) + c)
<1>1. CASE BeginExchange(r)
  <2>1. PICK op \in Writers \union Starters :
          /\ NextOp(r, op)
          /\ op \in Writers /\ ~EagerWrites => Quiet(r, op.array)
          /\ mem' = [mem EXCEPT ![r][op.array] = WriteLocal(r, op, pos[r] + 1)]
    BY <1>1 DEF BeginExchange
  <2>2. op \in Operations /\ (op.kind \in WriteKinds => op \in Writers)
    BY OperationKinds
  <2>3. pos[r] < MaxOps
    BY <1>1 DEF BeginExchange
  <2>4. program'[n] = op
    BY <2>1, <2>2, <2>3, NextOpGrows
  <2>5. op.array \in Arrays
    BY DEF Writers, Starters
  <2>6. /\ mem'[r][op.array] = WriteLocal(r, op, n)
        /\ \A x \in Ranks, a \in Arrays :
             x # r \/ a # op.array => mem'[x][a] = mem[x][a]
    <3>1. /\ DOMAIN mem = Ranks
          /\ \A x \in Ranks : DOMAIN mem[x] = Arrays
      BY DEF TypeOK
    <3>. QED BY <2>1, <2>5, <3>1
  <2>7. op.kind \notin WriteKinds => WriteLocal(r, op, n) = mem[r][op.array]
    <3>1. CASE op \in Writers
      BY <3>1 DEF Writers
    <3>2. CASE op \in Starters
      <4>1. op.kind = "synchronizeByteArrayAsync"
        BY <3>2 DEF Starters, StartKinds
      <4>. QED BY <4>1 DEF WriteLocal
    <3>. QED BY <3>1, <3>2
  <2>8. ASSUME op.kind \in WriteKinds, NEW c \in Cells(r), c < LocalSize(r)
        PROVE  WriteLocal(r, op, n)[c] = Written(op, n, LocalBegin(r) + c)
    <3>1. op.kind = "copyFromGlobal" \/ op.kind = "setValue"
      BY <2>8, ConstantsAssumption
    <3>2. CASE op.kind = "copyFromGlobal"
      BY <2>8, <3>2 DEF WriteLocal
    <3>3. CASE op.kind = "setValue"
      BY <2>8, <3>3 DEF WriteLocal, Written
    <3>. QED BY <3>1, <3>2, <3>3
  <2>. QED BY <2>1, <2>2, <2>4, <2>5, <2>6, <2>7, <2>8
<1>2. CASE Release(r)
  <2>1. PICK op \in Releasers : NextOp(r, op)
    BY <1>2 DEF Release
  <2>2. op \in Operations /\ op.kind \notin WriteKinds
    BY OperationKinds
  <2>3. pos[r] < MaxOps /\ mem' = mem
    BY <1>2 DEF Release
  <2>4. program'[n] = op
    BY <2>1, <2>2, <2>3, NextOpGrows
  <2>5. op.array \in Arrays
    BY DEF Releasers
  <2>. QED BY <2>2, <2>3, <2>4, <2>5
<1>. QED BY <1>1, <1>2

LEMMA QuietInit == Init => QuietOK
BY DEF Init, QuietOK, Active

LEMMA QuietNext ==
  ASSUME ~EagerWrites, IndInv, QuietOK, [Next]_vars
  PROVE  QuietOK'
<1>0. /\ TypeOK /\ PositionsOK
      /\ \A r \in Ranks : pos[r] \in Nat
  BY DEF IndInv, TypeOK
<1>1. ASSUME NEW r \in Ranks, BeginExchange(r) \/ Release(r) PROVE QuietOK'
  <2> DEFINE n == pos[r] + 1
  <2>1. /\ n \in Ops
        /\ pos' = [pos EXCEPT ![r] = n]
        /\ \A q \in Ranks : \A k \in 1 .. pos[q] :
             k \in Ops /\ program'[k] = program[k]
        /\ stage' = stage
    BY <1>0, <1>1, BeginOperation
  <2>2. program'[n].kind \in WriteKinds => Quiet(r, program'[n].array)
    BY <1>0, <1>1, BeginMemory
  <2>3. pos'[r] = n /\ \A q \in Ranks : q # r => pos'[q] = pos[q]
    BY <2>1 DEF TypeOK, IndInv
  <2>4. n = pos[r] + 1
    OBVIOUS
  <2> HIDE DEF n
  <2>5. ASSUME NEW q \in Ranks, NEW k \in Ops, Active(q, k)',
               NEW j \in (k + 1) .. pos'[q], program'[j].array = ArrayOf(k)'
        PROVE  program'[j].kind \notin WriteKinds
    <3>1. Active(q, k)
      BY <2>1, <2>5 DEF Active
    <3>2. k <= pos[q] /\ k \in 1 .. pos[q]
      BY <1>0, <3>1 DEF Active, PositionsOK, Ops
    <3>3. ArrayOf(k)' = ArrayOf(k)
      BY <2>1, <3>2 DEF ArrayOf
    <3>4. CASE j \in 1 .. pos[q]
      <4>1. program'[j] = program[j] /\ j \in (k + 1) .. pos[q]
        BY <2>1, <3>4
      <4>. QED BY <2>5, <3>1, <3>3, <4>1 DEF QuietOK
    <3>5. CASE ~(j \in 1 .. pos[q])
      <4>1. q = r /\ j = n
        BY <1>0, <2>3, <2>4, <3>2, <3>5 DEF Ops
      <4>. QED BY <2>2, <2>5, <3>1, <3>2, <3>3, <4>1 DEF Quiet
    <3>. QED BY <3>4, <3>5
  <2>. QED BY <2>5 DEF QuietOK
<1>2. ASSUME NEW r \in Ranks, StartExchange(r) PROVE QuietOK'
  <2>1. /\ stage' = [stage EXCEPT ![r][pos[r]] = "recvLeft"]
        /\ UNCHANGED <<program, pos>>
    BY <1>2 DEF StartExchange
  <2>2. ASSUME NEW q \in Ranks, NEW k \in Ops, Active(q, k)',
               ~(q = r /\ k = pos[r])
        PROVE  Active(q, k)
    BY <1>0, <2>1, <2>2 DEF Active, TypeOK
  <2>3. ASSUME NEW q \in Ranks, NEW k \in Ops, Active(q, k)',
               NEW j \in (k + 1) .. pos[q], program[j].array = ArrayOf(k)
        PROVE  program[j].kind \notin WriteKinds
    <3>1. ~(q = r /\ k = pos[r])
      BY <1>0, <2>3 DEF Ops
    <3>. QED BY <2>2, <2>3, <3>1 DEF QuietOK
  <2>. QED BY <2>1, <2>3 DEF QuietOK, ArrayOf
<1>3. ASSUME UNCHANGED <<program, pos>>,
             \A q \in Ranks, k \in Ops : Active(q, k)' => Active(q, k)
      PROVE  QuietOK'
  BY <1>3 DEF QuietOK, ArrayOf
<1>4. ASSUME NEW r \in Ranks, NEW k \in Ops, Post(r, k) \/ Waitall(r, k)
      PROVE  QuietOK'
  <2>1. /\ Active(r, k) /\ UNCHANGED <<program, pos>>
        /\ \E v : stage' = [stage EXCEPT ![r][k] = v]
    BY <1>4 DEF Post, Waitall, Active, Sides, RecvSides, SendSides
  <2>2. \A q \in Ranks, j \in Ops : Active(q, j)' => Active(q, j)
    BY <1>0, <2>1 DEF Active, TypeOK
  <2>. QED BY <1>3, <2>1, <2>2
<1>5. ASSUME UNCHANGED <<program, pos, stage>> PROVE QuietOK'
  BY <1>3, <1>5 DEF Active
<1>6. ASSUME NEW r \in Ranks, MainStep(r),
             ~(BeginExchange(r) \/ Release(r)), ~StartExchange(r)
      PROVE  QuietOK'
  <2>1. UNCHANGED <<program, pos, stage>>
    BY <1>6 DEF MainStep, FinishCall, WaitForSynchronization, FinishWait,
                FinishDestructor
  <2>. QED BY <1>5, <2>1
<1>7. ASSUME NEW p \in Ranks, NEW q \in Ranks, MPIStep(p, q) PROVE QuietOK'
  BY <1>5, <1>7 DEF MPIStep, Buffer, Match
<1>8. CASE UNCHANGED vars
  BY <1>5, <1>8 DEF vars
<1>. QED BY <1>1, <1>2, <1>4, <1>6, <1>7, <1>8 DEF Next, Terminated

-----------------------------------------------------------------------------
(* The local cells.                                                        *)

(* What a received message does to the arrays: it fills the window of its  *)
(* receive, and nothing else.                                              *)
OnlyWindowFilled(q, a, first, data) ==
  /\ \A x \in Ranks, b \in Arrays :
       x # q \/ b # a => mem'[x][b] = mem[x][b]
  /\ \A w \in Window : mem'[q][a][first + w] = data[w]
  /\ \A c \in Cells(q) :
       (\A w \in Window : c # first + w) => mem'[q][a][c] = mem[q][a][c]

LEMMA MatchMemory ==
  ASSUME TypeOK, PositionsOK, NEW p \in Ranks, NEW q \in Ranks, Match(p, q)
  PROVE  LET i   == matched[p][q] + 1
             rcv == recvs[p][q][i]
         IN /\ ArrayOf(rcv.op) \in Arrays
            /\ OnlyWindowFilled(q, ArrayOf(rcv.op), FirstCell(q, rcv.side),
                                Payload(p, sends[p][q][i]))
<1> DEFINE i == matched[p][q] + 1
           rcv == recvs[p][q][i]
           a == ArrayOf(rcv.op)
<1>1. /\ i \in 1 .. Len(recvs[p][q])
      /\ mem' = [mem EXCEPT ![q][a] =
                  Received(q, a, FirstCell(q, rcv.side), Payload(p, sends[p][q][i]))]
  <2>1. i \in 1 .. Len(recvs[p][q])
    BY MatchStep
  <2>. QED BY <2>1 DEF Match
<1>2. /\ rcv.op \in Ops /\ rcv.op <= pos[q] /\ rcv.side \in RecvSides
  BY <1>1, EntryTypes DEF PositionsOK
<1>3. a \in Arrays
  BY <1>2, BegunOperation
<1>4. /\ mem'[q][a] = Received(q, a, FirstCell(q, rcv.side),
                               Payload(p, sends[p][q][i]))
      /\ \A x \in Ranks, b \in Arrays :
           x # q \/ b # a => mem'[x][b] = mem[x][b]
  <2>1. /\ DOMAIN mem = Ranks
        /\ \A x \in Ranks : DOMAIN mem[x] = Arrays
    BY DEF TypeOK
  <2>. QED BY <1>1, <1>3, <2>1
<1> DEFINE f == FirstCell(q, rcv.side)
           d == Payload(p, sends[p][q][i])
<1>5. f \in Int /\ Overlaps \in Nat /\ Cells(q) \subseteq Int
  BY <1>2, FirstCellInt, ConstantsAssumption DEF Sides, Cells
<1>6. \A w \in Window : f + w \in Cells(q)
  BY <1>2, BufferInCells DEF Sides
<1>7. mem'[q][a] = [c \in Cells(q) |-> IF c \in f .. (f + Overlaps - 1)
                                       THEN d[c - f] ELSE mem[q][a][c]]
  BY <1>4 DEF Received
<1> HIDE DEF f, d
<1>8. ASSUME NEW w \in Window
      PROVE  mem'[q][a][f + w] = d[w]
  <2>1. w \in 0 .. (Overlaps - 1)
    BY DEF Window
  <2>2. f + w \in f .. (f + Overlaps - 1) /\ (f + w) - f = w
    BY <1>5, <2>1
  <2>. QED BY <1>6, <1>7, <2>2
<1>9. ASSUME NEW c \in Cells(q), \A w \in Window : c # f + w
      PROVE  mem'[q][a][c] = mem[q][a][c]
  <2>1. c \notin f .. (f + Overlaps - 1)
    <3> SUFFICES ASSUME c \in f .. (f + Overlaps - 1)
                 PROVE  FALSE
      OBVIOUS
    <3>1. c - f \in Window /\ c = f + (c - f)
      BY <1>5 DEF Window
    <3>. QED BY <1>9, <3>1
  <2>. QED BY <1>7, <2>1
<1>10. OnlyWindowFilled(q, a, f, d)
  BY <1>4, <1>8, <1>9 DEF OnlyWindowFilled
<1>. QED BY <1>3, <1>10 DEF f, d

(* The other steps leave the arrays and the program alone.                 *)
LEMMA MemoryElsewhere ==
  ASSUME [Next]_vars,
         \A r \in Ranks : ~(BeginExchange(r) \/ Release(r)),
         \A p, q \in Ranks : ~Match(p, q)
  PROVE  UNCHANGED <<program, pos, mem>>
<1>1. ASSUME NEW r \in Ranks, MainStep(r)
      PROVE  UNCHANGED <<program, pos, mem>>
  BY <1>1 DEF MainStep, StartExchange, FinishCall, WaitForSynchronization,
              FinishWait, FinishDestructor
<1>2. ASSUME NEW r \in Ranks, NEW k \in Ops, Post(r, k) \/ Waitall(r, k)
      PROVE  UNCHANGED <<program, pos, mem>>
  BY <1>2 DEF Post, Waitall
<1>3. ASSUME NEW p \in Ranks, NEW q \in Ranks, MPIStep(p, q)
      PROVE  UNCHANGED <<program, pos, mem>>
  BY <1>3 DEF MPIStep, Buffer
<1>4. CASE UNCHANGED vars
  BY <1>4 DEF vars
<1>. QED BY <1>1, <1>2, <1>3, <1>4 DEF Next, Terminated

LEMMA InitialValue ==
  ASSUME NEW prog, NEW a, NEW gi
  PROVE  GlobalValue(prog, a, 0, gi) = Initial(a, gi)
<1>1. LastWrite(prog, a, 0) = 0
  BY LastWriteUnique
<1>. QED BY <1>1 DEF GlobalValue

LEMMA LocalInit == Init => LocalOK
<1> SUFFICES ASSUME Init, NEW r \in Ranks, NEW a \in Arrays,
                    NEW c \in Cells(r), c < LocalSize(r)
             PROVE  mem[r][a][c] = GlobalValue(program, a, pos[r], LocalBegin(r) + c)
  BY DEF LocalOK
<1>1. mem[r][a][c] = Initial(a, LocalBegin(r) + c) /\ pos[r] = 0
  BY DEF Init
<1>. QED BY <1>1, InitialValue

LEMMA LocalNext ==
  ASSUME IndInv, LocalOK, [Next]_vars
  PROVE  LocalOK'
<1>0. TypeOK /\ PositionsOK /\ \A r \in Ranks : pos[r] \in Nat
  BY DEF IndInv, TypeOK
<1>1. ASSUME NEW r \in Ranks, BeginExchange(r) \/ Release(r)
      PROVE  LocalOK'
  <2> DEFINE n == pos[r] + 1
  <2>1. /\ n \in Ops /\ n \in Nat \ {0}
        /\ pos' = [pos EXCEPT ![r] = n]
        /\ \A x \in Ranks : \A k \in 1 .. pos[x] : program'[k] = program[k]
    BY <1>0, <1>1, BeginOperation
  <2>2. /\ \A x \in Ranks, a \in Arrays :
             x # r \/ a # program'[n].array \/ program'[n].kind \notin WriteKinds
               => mem'[x][a] = mem[x][a]
        /\ program'[n].kind \in WriteKinds =>
             \A c \in Cells(r) : c < LocalSize(r) =>
               mem'[r][program'[n].array][c]
                 = Written(program'[n], n, LocalBegin(r) + c)
    BY <1>0, <1>1, BeginMemory
  <2>3. /\ pos'[r] = n /\ \A x \in Ranks : x # r => pos'[x] = pos[x]
    BY <1>0, <2>1 DEF TypeOK
  <2>4. n = pos[r] + 1
    OBVIOUS
  <2> HIDE DEF n
  <2>5. ASSUME NEW x \in Ranks, NEW a \in Arrays, NEW c \in Cells(x),
               c < LocalSize(x)
        PROVE  mem'[x][a][c]
                 = GlobalValue(program', a, pos'[x], LocalBegin(x) + c)
    <3> DEFINE gi == LocalBegin(x) + c
    <3>1. mem[x][a][c] = GlobalValue(program, a, pos[x], gi)
      BY <2>5 DEF LocalOK
    <3>2. GlobalValue(program', a, pos[x], gi) = GlobalValue(program, a, pos[x], gi)
      <4> HIDE DEF gi
      <4>. QED BY <1>0, <2>1, GlobalValueStable
    <3>3. CASE x # r
      BY <2>2, <2>3, <3>1, <3>2, <3>3
    <3>4. CASE x = r /\ Writes(program', a, n)
      <4>1. GlobalValue(program', a, n, gi) = Written(program'[n], n, gi)
        <5> HIDE DEF gi
        <5>. QED BY <2>1, <3>4, GlobalValueWritten
      <4>. QED BY <2>2, <2>3, <2>5, <3>4, <4>1 DEF Writes
    <3>5. CASE x = r /\ ~Writes(program', a, n)
      <4>1. mem'[x][a] = mem[x][a]
        BY <2>2, <3>5 DEF Writes
      <4>2. \A i \in (pos[x] + 1) .. n : ~Writes(program', a, i)
        BY <1>0, <2>4, <3>5
      <4>3. GlobalValue(program', a, n, gi) = GlobalValue(program', a, pos[x], gi)
        <5> HIDE DEF gi
        <5>1. pos[x] \in Nat /\ n \in Nat /\ pos[x] <= n
          BY <1>0, <2>4, <3>5
        <5>. QED BY <4>2, <5>1, GlobalValueKept
      <4>. QED BY <2>3, <3>1, <3>2, <3>5, <4>1, <4>3
    <3>. QED BY <3>3, <3>4, <3>5
  <2>. QED BY <2>5 DEF LocalOK
<1>2. ASSUME NEW p \in Ranks, NEW q \in Ranks, Match(p, q)
      PROVE  LocalOK'
  <2> DEFINE i == matched[p][q] + 1
             rcv == recvs[p][q][i]
  <2>1. /\ \A x \in Ranks, b \in Arrays :
             x # q \/ b # ArrayOf(rcv.op) => mem'[x][b] = mem[x][b]
        /\ \A c \in Cells(q) :
             (\A w \in Window : c # FirstCell(q, rcv.side) + w) =>
               mem'[q][ArrayOf(rcv.op)][c] = mem[q][ArrayOf(rcv.op)][c]
    <3>1. OnlyWindowFilled(q, ArrayOf(rcv.op), FirstCell(q, rcv.side),
                           Payload(p, sends[p][q][i]))
      BY <1>0, <1>2, MatchMemory
    <3>. QED BY <3>1 DEF OnlyWindowFilled
  <2>2. UNCHANGED <<program, pos>>
    BY <1>2 DEF Match
  <2>3. rcv.side \in RecvSides
    BY <1>0, <1>2, MatchStep, EntryTypes
  <2>4. \A w \in Window : ~(FirstCell(q, rcv.side) + w < LocalSize(q))
    <3>1. \A w \in Window : FirstCell(q, rcv.side) + w \in GhostCells(q)
      BY <2>3, BufferPlace
    <3>2. LocalSize(q) \in Nat
      BY LocalRange
    <3>. QED BY <3>1, <3>2 DEF GhostCells
  <2> HIDE DEF i, rcv
  <2>5. ASSUME NEW x \in Ranks, NEW a \in Arrays, NEW c \in Cells(x),
               c < LocalSize(x)
        PROVE  mem'[x][a][c] = mem[x][a][c]
    BY <2>1, <2>4, <2>5
  <2>. QED BY <2>2, <2>5 DEF LocalOK
<1>3. CASE UNCHANGED <<program, pos, mem>>
  BY <1>3 DEF LocalOK
<1>. QED BY <1>1, <1>2, <1>3, MemoryElsewhere

(* What a message delivers, if it is still to be received: the elements as *)
(* of its operation, whether it was buffered or still is in the array.     *)
LEMMA PayloadSent ==
  ASSUME IndInv, QueuesOK, RequestsOK, QuietOK, LocalOK, BuffersOK,
         NEW p \in Ranks, NEW q \in Ranks,
         NEW i \in (matched[p][q] + 1) .. Len(sends[p][q]),
         NEW m, m = sends[p][q][i], NEW w \in Window
  PROVE  Payload(p, m)[w] = SentValue(program, p, m.op, m.side, w)
<1>0. TypeOK /\ PositionsOK /\ pos[p] \in Nat /\ matched[p][q] \in Nat
  <2>1. TypeOK /\ PositionsOK
    BY DEF IndInv
  <2>2. matched[p][q] \in Nat
    BY <2>1 DEF TypeOK
  <2>3. pos[p] \in 0 .. MaxOps
    BY <2>1 DEF TypeOK
  <2>. QED BY <2>1, <2>2, <2>3
<1>1. i \in 1 .. Len(sends[p][q])
  BY <1>0, EntryTypes
<1>2. m.op \in Ops /\ m.side \in SendSides /\ m.op <= pos[p]
  BY <1>0, <1>1, EntryTypes DEF PositionsOK
<1>3. CASE m.data # NoData
  BY <1>1, <1>3 DEF Payload, BuffersOK
<1>4. CASE m.data = NoData
  <2> DEFINE k == m.op
             a == ArrayOf(k)
             c == FirstCell(p, m.side) + w
  <2>1. m.side \in requests[p][k]
    BY <1>4 DEF RequestsOK
  <2>2. Posted(p, k, m.side)
    BY <1>1 DEF QueuesOK, QueuesHoldPosted
  <2>3. Active(p, k)
    <3>1. stage[p][k] # "none"
      BY <1>2, <2>2 DEF Posted, StagesAfter, SendSides
    <3>2. stage[p][k] # "done"
      BY <1>2, <2>1 DEF RequestsOK
    <3>. QED BY <3>1, <3>2 DEF Active
  <2>4. a \in Arrays
    BY <1>0, <1>2, BegunOperation
  <2>5. c \in Cells(p) /\ c < LocalSize(p)
    BY <1>2, BufferPlace
  <2>6. mem[p][a][c] = GlobalValue(program, a, pos[p], LocalBegin(p) + c)
    BY <2>4, <2>5 DEF LocalOK
  <2>7. GlobalValue(program, a, pos[p], LocalBegin(p) + c)
          = GlobalValue(program, a, k, LocalBegin(p) + c)
    <3>1. \A j \in (k + 1) .. pos[p] : ~Writes(program, a, j)
      BY <1>2, <2>3 DEF QuietOK, Writes
    <3>2. k \in Nat
      BY <1>2 DEF Ops
    <3> HIDE DEF c, a, k
    <3>. QED BY <1>0, <1>2, <3>1, <3>2, GlobalValueKept DEF k
  <2>8. Payload(p, m)[w] = mem[p][a][c]
    BY <1>4 DEF Payload
  <2>. QED BY <2>6, <2>7, <2>8 DEF SentValue, ArrayOf
<1>. QED BY <1>3, <1>4

-----------------------------------------------------------------------------
(* The send buffers.                                                       *)

LEMMA BuffersInit == Init => BuffersOK
<1> SUFFICES ASSUME Init PROVE BuffersOK
  OBVIOUS
<1>1. \A p, q \in Ranks : Len(sends[p][q]) = 0
  BY DEF Init
<1>. QED BY <1>1 DEF BuffersOK

(* Steps that copy nothing out of a send buffer, and change no operation   *)
(* that has begun.                                                         *)
LEMMA BuffersElsewhere ==
  ASSUME IndInv, BuffersOK,
         \A p \in Ranks : \A k \in 1 .. pos[p] : program'[k] = program[k],
         \A p, q \in Ranks : \A i \in 1 .. Len(sends'[p][q]) :
           \/ sends'[p][q][i].data = NoData
           \/ i \in 1 .. Len(sends[p][q]) /\ sends'[p][q][i] = sends[p][q][i]
  PROVE  BuffersOK'
<1>0. TypeOK /\ PositionsOK
  BY DEF IndInv
<1>1. ASSUME NEW p \in Ranks, NEW k \in Ops, k <= pos[p],
             NEW side, NEW w \in Window
      PROVE  SentValue(program', p, k, side, w) = SentValue(program, p, k, side, w)
  <2>1. pos[p] \in 0 .. MaxOps
    BY <1>0 DEF TypeOK
  <2>2. k \in 1 .. pos[p] /\ k \in Nat
    BY <1>1, <2>1 DEF Ops
  <2>3. \A i \in 1 .. k : program'[i] = program[i]
    BY <2>1, <2>2
  <2> DEFINE a == program[k].array
             gi == LocalBegin(p) + (FirstCell(p, side) + w)
  <2>4. program'[k].array = a
    BY <2>2
  <2>5. GlobalValue(program', a, k, gi) = GlobalValue(program, a, k, gi)
    <3> HIDE DEF a, gi
    <3>. QED BY <2>2, <2>3, GlobalValueStable
  <2>. QED BY <2>4, <2>5 DEF SentValue
<1>2. ASSUME NEW p \in Ranks, NEW q \in Ranks, NEW i \in 1 .. Len(sends'[p][q]),
             sends'[p][q][i].data # NoData, NEW w \in Window
      PROVE  sends'[p][q][i].data[w]
               = SentValue(program', p, sends'[p][q][i].op, sends'[p][q][i].side, w)
  <2>1. i \in 1 .. Len(sends[p][q]) /\ sends'[p][q][i] = sends[p][q][i]
    BY <1>2
  <2> DEFINE m == sends[p][q][i]
             k == m.op
             side == m.side
  <2>2. m.data # NoData
    BY <1>2, <2>1
  <2>3. m.data[w] = SentValue(program, p, k, side, w)
    BY <2>1, <2>2 DEF BuffersOK
  <2>4. k \in Ops /\ k <= pos[p]
    BY <1>0, <2>1, EntryTypes DEF PositionsOK
  <2>5. SentValue(program', p, k, side, w) = SentValue(program, p, k, side, w)
    <3> HIDE DEF k, side
    <3>. QED BY <1>1, <2>4
  <2>. QED BY <2>1, <2>3, <2>5
<1>. QED BY <1>2 DEF BuffersOK

LEMMA BuffersNext ==
  ASSUME IndInv, QueuesOK, RequestsOK, QuietOK, LocalOK, BuffersOK, [Next]_vars
  PROVE  BuffersOK'
<1>0. TypeOK /\ PositionsOK
  BY DEF IndInv
<1>1. ASSUME NEW r \in Ranks, BeginExchange(r) \/ Release(r)
      PROVE  BuffersOK'
  <2>1. /\ \A p \in Ranks : \A k \in 1 .. pos[p] : program'[k] = program[k]
        /\ sends' = sends
    BY <1>0, <1>1, BeginOperation
  <2>. QED BY <2>1, BuffersElsewhere
<1>2. ASSUME UNCHANGED <<program, sends>> PROVE BuffersOK'
  BY <1>2, BuffersElsewhere
<1>3. ASSUME NEW r \in Ranks, MainStep(r), ~(BeginExchange(r) \/ Release(r))
      PROVE  BuffersOK'
  <2>1. UNCHANGED <<program, sends>>
    BY <1>3 DEF MainStep, StartExchange, FinishCall, WaitForSynchronization,
                FinishWait, FinishDestructor
  <2>. QED BY <1>2, <2>1
<1>4. ASSUME NEW r \in Ranks, NEW k \in Ops, Waitall(r, k) PROVE BuffersOK'
  BY <1>2, <1>4 DEF Waitall
<1>5. ASSUME NEW r \in Ranks, NEW k \in Ops, Post(r, k) PROVE BuffersOK'
  <2> DEFINE side == stage[r][k]
             z == Peer(r, side)
             m == [op |-> k, side |-> side, data |-> NoData]
  <2>1. /\ program' = program
        /\ sends' = sends \/ sends' = [sends EXCEPT ![r][z] = Append(@, m)]
    BY <1>5 DEF Post
  <2>2. z \in Ranks /\ m.data = NoData
    BY PeerType
  <2> HIDE DEF z, m
  <2>3. ASSUME NEW p \in Ranks, NEW q \in Ranks, NEW i \in 1 .. Len(sends'[p][q])
        PROVE  \/ sends'[p][q][i].data = NoData
               \/ i \in 1 .. Len(sends[p][q]) /\ sends'[p][q][i] = sends[p][q][i]
    <3>1. sends'[p][q] = sends[p][q] \/ sends'[p][q] = Append(sends[p][q], m)
      <4>1. sends \in [Ranks -> [Ranks -> Seq(SendRequests)]]
        BY <1>0 DEF TypeOK
      <4>2. CASE p = r /\ q = z
        BY <2>1, <2>2, <4>1, <4>2
      <4>3. CASE ~(p = r /\ q = z)
        BY SMTT(30), <2>1, <2>2, <4>1, <4>3
      <4>. QED BY <4>2, <4>3
    <3>2. CASE sends'[p][q] = sends[p][q]
      BY <2>3, <3>2
    <3>3. CASE sends'[p][q] = Append(sends[p][q], m)
      <4>1. /\ Len(sends[p][q]) \in Nat
            /\ sends[p][q] \in Seq(SendRequests)
        BY <1>0, EntryTypes
      <4>2. /\ Len(sends'[p][q]) = Len(sends[p][q]) + 1
            /\ \A j \in 1 .. Len(sends[p][q]) : sends'[p][q][j] = sends[p][q][j]
            /\ sends'[p][q][Len(sends[p][q]) + 1] = m
        BY <3>3, <4>1
      <4>3. i \in 1 .. Len(sends[p][q]) \/ i = Len(sends[p][q]) + 1
        BY <2>3, <4>1, <4>2
      <4>. QED BY <2>2, <4>2, <4>3
    <3>. QED BY <3>1, <3>2, <3>3
  <2>. QED BY <2>1, <2>3, BuffersElsewhere
<1>6. ASSUME NEW p \in Ranks, NEW q \in Ranks, Match(p, q) PROVE BuffersOK'
  <2> DEFINE i == matched[p][q] + 1
  <2>1. /\ program' = program
        /\ sends'[p][q][i].data = NoData
        /\ \A x, y \in Ranks : \A j \in 1 .. Len(sends[x][y]) :
             ~(x = p /\ y = q /\ j = i) => sends'[x][y][j] = sends[x][y][j]
    BY <1>0, <1>6, MatchStep
  <2>2. \A x, y \in Ranks : Len(sends'[x][y]) = Len(sends[x][y])
    <3>1. MPIStep(p, q)
      BY <1>6 DEF MPIStep
    <3>. QED BY <1>0, <3>1, EntriesKept
  <2> HIDE DEF i
  <2>3. \A x, y \in Ranks : \A j \in 1 .. Len(sends'[x][y]) :
          \/ sends'[x][y][j].data = NoData
          \/ j \in 1 .. Len(sends[x][y]) /\ sends'[x][y][j] = sends[x][y][j]
    BY <2>1, <2>2
  <2>. QED BY <2>1, <2>3, BuffersElsewhere
<1>7. ASSUME NEW p \in Ranks, NEW q \in Ranks, Buffer(p, q) PROVE BuffersOK'
  <2>1. PICK i \in (matched[p][q] + 1) .. Len(sends[p][q]) :
          sends' = [sends EXCEPT ![p][q][i].data = Payload(p, sends[p][q][i])]
    BY <1>7 DEF Buffer
  <2>2. i \in 1 .. Len(sends[p][q])
    <3>1. matched[p][q] \in Nat /\ Len(sends[p][q]) \in Nat
      BY <1>0, EntryTypes DEF TypeOK
    <3>. QED BY <3>1
  <2>3. SetData(p, q, i, Payload(p, sends[p][q][i]))
    BY <2>1 DEF SetData
  <2>4. /\ \A x, y \in Ranks : Len(sends'[x][y]) = Len(sends[x][y])
        /\ \A x, y \in Ranks : \A j \in 1 .. Len(sends[x][y]) :
             ~(x = p /\ y = q /\ j = i) => sends'[x][y][j] = sends[x][y][j]
        /\ sends'[p][q][i].op = sends[p][q][i].op
        /\ sends'[p][q][i].side = sends[p][q][i].side
        /\ sends'[p][q][i].data = Payload(p, sends[p][q][i])
    BY SMTT(30), <1>0, <2>2, <2>3, EntryChanged
  <2>5. \A w \in Window : Payload(p, sends[p][q][i])[w]
          = SentValue(program, p, sends[p][q][i].op, sends[p][q][i].side, w)
    BY PayloadSent
  <2>6. program' = program
    BY <1>7 DEF Buffer
  <2>7. ASSUME NEW x \in Ranks, NEW y \in Ranks, NEW j \in 1 .. Len(sends'[x][y]),
               sends'[x][y][j].data # NoData, NEW w \in Window
        PROVE  sends'[x][y][j].data[w]
                 = SentValue(program, x, sends'[x][y][j].op, sends'[x][y][j].side, w)
    <3>1. CASE x = p /\ y = q /\ j = i
      BY <2>4, <2>5, <3>1
    <3>2. CASE ~(x = p /\ y = q /\ j = i)
      <4>1. j \in 1 .. Len(sends[x][y]) /\ sends'[x][y][j] = sends[x][y][j]
        BY <2>4, <3>2
      <4>2. sends[x][y][j].data # NoData
        BY <2>7, <4>1
      <4>. QED BY <4>1, <4>2 DEF BuffersOK
    <3>. QED BY <3>1, <3>2
  <2>. QED BY <2>6, <2>7 DEF BuffersOK
<1>8. CASE UNCHANGED vars
  BY <1>2, <1>8 DEF vars
<1>. QED BY <1>1, <1>3, <1>4, <1>5, <1>6, <1>7, <1>8 DEF Next, Terminated, MPIStep

-----------------------------------------------------------------------------
(* The ghosts.                                                             *)

(* The two receives of an exchange fill different cells.                   *)
LEMMA WindowsApart ==
  ASSUME NEW r \in Ranks, NEW s \in RecvSides, NEW t \in RecvSides, s # t,
         NEW v \in Window, NEW w \in Window
  PROVE  FirstCell(r, s) + v # FirstCell(r, t) + w
<1>1. LocalSize(r) \in Nat /\ Overlaps \in Nat
  BY LocalRange, ConstantsAssumption
<1>2. v \in 0 .. (Overlaps - 1) /\ w \in 0 .. (Overlaps - 1)
  BY DEF Window
<1>. QED BY <1>1, <1>2 DEF FirstCell, RecvSides

LEMMA GhostsInit == Init => GhostsOK
<1> SUFFICES ASSUME Init PROVE GhostsOK
  OBVIOUS
<1>1. \A r \in Ranks : pos[r] = 0
  BY DEF Init
<1>. QED BY <1>1 DEF GhostsOK

(* An operation is begun: an exchange has not received anything yet, and   *)
(* the array of another one's last exchange is not written.                *)
LEMMA GhostsBegin ==
  ASSUME IndInv, GhostsOK, NEW r \in Ranks, BeginExchange(r) \/ Release(r)
  PROVE  GhostsOK'
<1>0. TypeOK /\ PositionsOK /\ \A x \in Ranks : pos[x] \in Nat
  BY DEF IndInv, TypeOK
<1> DEFINE n == pos[r] + 1
<1>1. /\ n \in Ops /\ n \in Nat
      /\ pos' = [pos EXCEPT ![r] = n]
      /\ \A x \in Ranks : \A k \in 1 .. pos[x] :
           k \in Ops /\ program'[k] = program[k]
      /\ UNCHANGED <<stage, requests>>
  BY <1>0, BeginOperation
<1>2. \A x \in Ranks, a \in Arrays :
        x # r \/ a # program'[n].array \/ program'[n].kind \notin WriteKinds
          => mem'[x][a] = mem[x][a]
  BY <1>0, BeginMemory
<1>3. pos'[r] = n /\ \A x \in Ranks : x # r => pos'[x] = pos[x]
  BY <1>0, <1>1 DEF TypeOK
<1>4. n = pos[r] + 1
  OBVIOUS
<1> HIDE DEF n
<1>5. ASSUME NEW x \in Ranks, NEW a \in Arrays, NEW k \in 1 .. pos'[x],
             NEW side \in RecvSides,
             LastExchange(program', pos'[x], a, k), Arrived(x, k, side)',
             NEW w \in Window
      PROVE  mem'[x][a][FirstCell(x, side) + w]
               = GlobalValue(program', a, k, GhostIndex(x, FirstCell(x, side) + w))
  <2>1. k \in 1 .. pos[x]
    <3>1. CASE x # r
      BY <1>3, <3>1
    <3>2. CASE x = r
      <4>1. k = n \/ k \in 1 .. pos[x]
        BY <1>0, <1>3, <1>4, <3>2
      <4>2. k # n
        <5> SUFFICES ASSUME k = n PROVE FALSE
          OBVIOUS
        <5>1. Posted(x, n, side)
          BY <1>1, <1>5 DEF Arrived, Posted
        <5>2. stage[x][n] # "none"
          BY <5>1 DEF Posted, StagesAfter, RecvSides
        <5>. QED BY <1>0, <1>1, <1>4, <3>2, <5>2 DEF PositionsOK
      <4>. QED BY <4>1, <4>2
    <3>. QED BY <3>1, <3>2
  <2>2. Arrived(x, k, side)
    BY <1>1, <1>5, <2>1 DEF Arrived, Posted
  <2>3. pos[x] <= pos'[x] /\ pos'[x] \in Nat
    BY <1>0, <1>1, <1>3, <1>4
  <2>4. LastExchange(program, pos[x], a, k)
    <3>1. program'[k] = program[k]
      BY <1>1, <2>1
    <3>2. \A j \in (k + 1) .. pos[x] :
            j \in (k + 1) .. pos'[x] /\ program'[j] = program[j]
      BY <1>0, <1>1, <2>1, <2>3
    <3>. QED BY <1>5, <2>1, <3>1, <3>2 DEF LastExchange
  <2>5. mem'[x][a] = mem[x][a]
    <3> SUFFICES ASSUME x = r, a = program'[n].array, program'[n].kind \in WriteKinds
                 PROVE  FALSE
      BY <1>2
    <3>1. n \in (k + 1) .. pos'[x]
      BY <1>0, <1>1, <1>3, <1>4, <2>1
    <3>. QED BY <1>5, <3>1 DEF LastExchange, IsExchange
  <2> DEFINE gi == GhostIndex(x, FirstCell(x, side) + w)
  <2>6. mem[x][a][FirstCell(x, side) + w] = GlobalValue(program, a, k, gi)
    BY <2>1, <2>2, <2>4 DEF GhostsOK
  <2>7. GlobalValue(program', a, k, gi) = GlobalValue(program, a, k, gi)
    <3>1. \A i \in 1 .. k : program'[i] = program[i]
      BY <1>0, <1>1, <2>1
    <3>2. k \in Nat
      BY <2>1
    <3> HIDE DEF gi
    <3>. QED BY <3>1, <3>2, GlobalValueStable
  <2>. QED BY <2>5, <2>6, <2>7
<1>. QED BY <1>5 DEF GhostsOK

(* A message is received: its ghosts now mirror the neighbour's boundary,  *)
(* those of other sides and other arrays are as before, and no exchange is *)
(* overtaken by an older one of its array.                                 *)
LEMMA GhostsReceive ==
  ASSUME NProc >= 3, MessagesInv, QuietOK, LocalOK, BuffersOK, GhostsOK,
         NEW p \in Ranks, NEW q \in Ranks, Match(p, q)
  PROVE  GhostsOK'
<1>0. /\ IndInv /\ TypeOK /\ PositionsOK /\ OrderOK /\ QueuesOK /\ RequestsOK
      /\ \A x \in Ranks : pos[x] \in Nat
  <2>1. IndInv /\ TypeOK /\ PositionsOK /\ OrderOK /\ QueuesOK /\ RequestsOK
    BY DEF MessagesInv, IndInv
  <2>2. \A x \in Ranks : pos[x] \in 0 .. MaxOps
    BY <2>1 DEF TypeOK
  <2>. QED BY <2>1, <2>2
<1> DEFINE i == matched[p][q] + 1
           snd == sends[p][q][i]
           rcv == recvs[p][q][i]
           b == ArrayOf(rcv.op)
<1>1. /\ i \in 1 .. Len(sends[p][q]) /\ i \in 1 .. Len(recvs[p][q])
      /\ UNCHANGED <<program, pos, stage>>
  BY <1>0, MatchStep
<1>2. /\ rcv.op \in Ops /\ rcv.op <= pos[q] /\ rcv.side \in RecvSides
      /\ snd.op \in Ops /\ snd.side \in SendSides
      /\ Posted(q, rcv.op, rcv.side)
      /\ Peer(q, rcv.side) = p /\ Peer(p, snd.side) = q
      /\ snd.op = rcv.op
  <2> HIDE DEF i
  <2>1. snd.op = rcv.op
    BY <1>0, <1>1, MatchedOps
  <2>. QED BY <1>0, <1>1, <2>1, EntryTypes
           DEF PositionsOK, QueuesOK, QueuesHoldPosted
<1>3. /\ \A x \in Ranks, a \in Arrays :
           x # q \/ a # b => mem'[x][a] = mem[x][a]
      /\ \A w \in Window :
           mem'[q][b][FirstCell(q, rcv.side) + w] = Payload(p, snd)[w]
      /\ \A c \in Cells(q) :
           (\A w \in Window : c # FirstCell(q, rcv.side) + w) =>
             mem'[q][b][c] = mem[q][b][c]
  <2>1. OnlyWindowFilled(q, b, FirstCell(q, rcv.side), Payload(p, snd))
    BY <1>0, MatchMemory
  <2>. QED BY <2>1 DEF OnlyWindowFilled
<1>4. \A w \in Window :
        Payload(p, snd)[w] = SentValue(program, p, snd.op, snd.side, w)
  <2>1. matched[p][q] \in Nat
    BY <1>0 DEF TypeOK
  <2>2. i \in (matched[p][q] + 1) .. Len(sends[p][q])
    BY <1>1, <2>1
  <2> HIDE DEF i
  <2>. QED BY <1>0, <2>2, PayloadSent
<1>5. rcv.side \in requests[q][rcv.op]
  <2>1. matched[p][q] \in Nat
    BY <1>0 DEF TypeOK
  <2>2. i \in (matched[p][q] + 1) .. Len(recvs[p][q])
    BY <1>1, <2>1
  <2> HIDE DEF i
  <2>. QED BY <1>0, <2>2 DEF RequestsOK
<1>6. stage[q][rcv.op] \notin {"none", "done"}
  <2>1. stage[q][rcv.op] # "none"
    <3>1. rcv.side \in {"recvLeft", "recvRight"}
      BY <1>2 DEF RecvSides
    <3>2. stage[q][rcv.op] \in StagesAfter[rcv.side]
      BY <1>2 DEF Posted
    <3> HIDE DEF i, rcv
    <3>3. StagesAfter["recvLeft"] \union StagesAfter["recvRight"]
            \subseteq {"recvRight", "sendLeft", "sendRight", "waitall", "done"}
      BY DEF StagesAfter
    <3>. QED BY <3>1, <3>2, <3>3
  <2>2. stage[q][rcv.op] # "done"
    <3>1. requests[q][rcv.op] # {} /\ rcv.op \in Ops
      BY <1>2, <1>5
    <3> HIDE DEF i, rcv
    <3>. QED BY <1>0, <3>1 DEF RequestsOK
  <2>. QED BY <2>1, <2>2
<1>7. ASSUME NEW x \in Ranks, NEW k \in Ops, NEW side \in RecvSides,
             Arrived(x, k, side)', ~Arrived(x, k, side)
      PROVE  x = q /\ k = rcv.op /\ side = rcv.side
  BY <1>0, <1>7, MatchArrives
<1> HIDE DEF i, snd, rcv
<1>8. ASSUME NEW x \in Ranks, NEW a \in Arrays, NEW k \in 1 .. pos[x],
             NEW side \in RecvSides,
             LastExchange(program, pos[x], a, k), Arrived(x, k, side)',
             NEW w \in Window
      PROVE  mem'[x][a][FirstCell(x, side) + w]
               = GlobalValue(program, a, k, GhostIndex(x, FirstCell(x, side) + w))
  <2>0. k \in Ops /\ a = ArrayOf(k) /\ IsExchange(program[k])
    <3>1. pos[x] <= MaxOps /\ MaxOps \in Nat
      BY <1>0, ConstantsAssumption DEF TypeOK
    <3>. QED BY <1>0, <1>8, <3>1 DEF LastExchange, ArrayOf, Ops
  <2>1. CASE x = q /\ k = rcv.op /\ side = rcv.side
    <3>1. mem'[x][a][FirstCell(x, side) + w]
            = SentValue(program, p, k, snd.side, w)
      BY <1>2, <1>3, <1>4, <2>0, <2>1
    <3>2. LocalBegin(p) + (FirstCell(p, snd.side) + w)
            = GhostIndex(x, FirstCell(x, side) + w)
      BY <1>2, <2>1, SentIsMirrored
    <3>. QED BY <2>0, <3>1, <3>2 DEF SentValue, ArrayOf
  <2>2. CASE ~(x = q /\ k = rcv.op /\ side = rcv.side)
    <3>1. Arrived(x, k, side)
      BY <1>7, <1>8, <2>0, <2>2
    <3>2. mem[x][a][FirstCell(x, side) + w]
            = GlobalValue(program, a, k, GhostIndex(x, FirstCell(x, side) + w))
      BY <1>8, <3>1 DEF GhostsOK
    <3>3. CASE x # q \/ a # b
      <4>1. mem'[x][a] = mem[x][a]
        BY <1>3, <3>3
      <4>. QED BY <3>2, <4>1
    <3>4. CASE x = q /\ a = b
      <4>1. IsExchange(program[rcv.op])
        BY <1>0, <1>2, <1>6 DEF OrderOK, StartedOK
      <4>2. rcv.op <= k
        <5> SUFFICES ASSUME k < rcv.op PROVE FALSE
          BY <1>2 DEF Ops
        <5>1. rcv.op \in (k + 1) .. pos[x]
          BY <1>0, <1>2, <3>4 DEF Ops
        <5>. QED BY <1>8, <3>4, <4>1, <5>1 DEF LastExchange, ArrayOf
      <4>3. rcv.op = k
        <5> SUFFICES ASSUME rcv.op < k PROVE FALSE
          BY <1>2, <4>2 DEF Ops
        <5>1. rcv.op \in 1 .. (k - 1)
          BY <1>2 DEF Ops
        <5>2. stage[q][k] # "none"
          BY <3>1, <3>4 DEF Arrived, Posted, StagesAfter, RecvSides
        <5>3. SynchronizerOf(rcv.op) = SynchronizerOf(k)
          BY <2>0, <3>4 DEF SynchronizerOf
        <5>4. stage[q][rcv.op] = "done"
          BY <1>0, <3>4, <4>1, <5>1, <5>2, <5>3 DEF OrderOK, SequentialOK
        <5>. QED BY <1>6, <5>4
      <4>4. side # rcv.side
        BY <2>2, <3>4, <4>3
      <4>5. \A v \in Window :
              FirstCell(x, side) + w # FirstCell(q, rcv.side) + v
        BY <1>2, <3>4, <4>4, WindowsApart
      <4>6. FirstCell(x, side) + w \in Cells(q)
        BY <3>4, BufferInCells DEF Sides
      <4>. QED BY <1>3, <3>2, <3>4, <4>5, <4>6
    <3>. QED BY <3>3, <3>4
  <2>. QED BY <2>1, <2>2
<1>. QED BY <1>1, <1>8 DEF GhostsOK

LEMMA GhostsNext ==
  ASSUME NProc >= 3, MessagesInv, QuietOK, LocalOK, BuffersOK, GhostsOK,
         [Next]_vars
  PROVE  GhostsOK'
<1>0. IndInv
  BY DEF MessagesInv
<1>1. ASSUME \A r \in Ranks : ~(BeginExchange(r) \/ Release(r)),
             \A p, q \in Ranks : ~Match(p, q)
      PROVE  GhostsOK'
  <2>1. UNCHANGED <<program, pos, mem>>
    BY <1>1, MemoryElsewhere
  <2>2. \A x \in Ranks, k \in Ops : \A side \in RecvSides :
          Arrived(x, k, side)' => Arrived(x, k, side)
    BY <1>0, <1>1, NothingArrives
  <2>3. \A x \in Ranks : \A k \in 1 .. pos[x] : k \in Ops
    <3>1. \A x \in Ranks : pos[x] \in 0 .. MaxOps
      BY <1>0 DEF IndInv, TypeOK
    <3>. QED BY <3>1, ConstantsAssumption DEF Ops
  <2>4. ASSUME NEW x \in Ranks, NEW a \in Arrays, NEW k \in 1 .. pos[x],
               NEW side \in RecvSides,
               LastExchange(program, pos[x], a, k), Arrived(x, k, side)',
               NEW w \in Window
        PROVE  mem[x][a][FirstCell(x, side) + w]
                 = GlobalValue(program, a, k, GhostIndex(x, FirstCell(x, side) + w))
    BY <2>2, <2>3, <2>4 DEF GhostsOK
  <2>. QED BY <2>1, <2>4 DEF GhostsOK
<1>2. ASSUME NEW r \in Ranks, BeginExchange(r) \/ Release(r)
      PROVE  GhostsOK'
  BY <1>0, <1>2, GhostsBegin
<1>3. ASSUME NEW p \in Ranks, NEW q \in Ranks, Match(p, q)
      PROVE  GhostsOK'
  BY <1>3, GhostsReceive
<1>. QED BY <1>1, <1>2, <1>3

-----------------------------------------------------------------------------
(* The ghost exchange, together.                                           *)

LEMMA GhostsAlways ==
  ASSUME InOrder, NProc >= 3, ~EagerWrites
  PROVE  Spec => []GhostsInv
<1>1. Init => GhostsInv
  BY MessagesInit, QuietInit, LocalInit, BuffersInit, GhostsInit DEF GhostsInv
<1>2. ASSUME GhostsInv, [Next]_vars PROVE GhostsInv'
  <2>1. /\ MessagesInv /\ QuietOK /\ LocalOK /\ BuffersOK /\ GhostsOK
        /\ IndInv /\ QueuesOK /\ RequestsOK
    BY <1>2 DEF GhostsInv, MessagesInv
  <2>2. MessagesInv'
    BY <1>2, <2>1, MessagesNext
  <2>3. QuietOK'
    BY <1>2, <2>1, QuietNext
  <2>4. LocalOK'
    BY <1>2, <2>1, LocalNext
  <2>5. BuffersOK'
    BY <1>2, <2>1, BuffersNext
  <2>6. GhostsOK'
    BY <1>2, <2>1, GhostsNext
  <2>. QED BY <2>2, <2>3, <2>4, <2>5, <2>6 DEF GhostsInv
<1>. QED BY <1>1, <1>2, PTL DEF Spec

(* The ghosts of an array whose last exchange is done, for one cell.       *)
LEMMA GhostsAfterExchange ==
  ASSUME GhostsInv, NEW r \in Ranks, NEW a \in Arrays, NEW k \in 1 .. pos[r],
         LastExchange(program, pos[r], a, k), stage[r][k] = "done",
         NEW c \in GhostCells(r)
  PROVE  mem[r][a][c] = ExpectedGhosts(program, r, a, k)[c]
<1>1. TypeOK /\ RequestsOK /\ GhostsOK
  BY DEF GhostsInv, MessagesInv, IndInv
<1>2. k \in Ops
  BY <1>1, ConstantsAssumption DEF TypeOK, Ops
<1>3. PICK side \in RecvSides, w \in Window : c = FirstCell(r, side) + w
  BY GhostPlace
<1>4. Arrived(r, k, side)
  <2>1. requests[r][k] = {}
    BY <1>1, <1>2 DEF RequestsOK
  <2>2. Posted(r, k, side)
    BY DEF Posted, StagesAfter, RecvSides
  <2>. QED BY <2>1, <2>2 DEF Arrived
<1>5. mem[r][a][c] = GlobalValue(program, a, k, GhostIndex(r, c))
  BY <1>1, <1>3, <1>4 DEF GhostsOK
<1>. QED BY <1>5 DEF ExpectedGhosts

(* When the last exchange of an array is done, its ghosts hold the values  *)
(* that the neighbours' boundary cells had when they began that exchange,  *)
(* with three ranks or more, for programs whose exchanges are posted in    *)
(* order and that do not write an array while it is exchanged.             *)
THEOREM GhostsMatch ==
  ASSUME InOrder, NProc >= 3, ~EagerWrites
  PROVE  Spec => []GhostsMatchNeighbours
<1>1. GhostsInv => GhostsMatchNeighbours
  BY GhostsAfterExchange DEF GhostsMatchNeighbours
<1>. QED BY <1>1, GhostsAlways, PTL

-----------------------------------------------------------------------------
(* Refinement.                                                             *)

(* The last exchange of array a on rank r is not done.                     *)
PendingOn(r, a) ==
  \E k \in 1 .. pos[r] :
    LastExchange(program, pos[r], a, k) /\ stage[r][k] # "done"

(* What the abstract exchange says of constants and programs is the same.  *)
LEMMA AbstractOperators ==
  /\ Abstract!Ranks = Ranks
  /\ Abstract!Writers = Writers /\ Abstract!Starters = Starters
  /\ Abstract!Releasers = Releasers
  /\ \A r : /\ Abstract!GhostCells(r) = GhostCells(r)
            /\ Abstract!Left(r) = Left(r) /\ Abstract!Right(r) = Right(r)
  /\ \A a : Abstract!NeverWritten(a) = NeverWritten(a)
  /\ \A prog, n, a, k :
       Abstract!LastExchange(prog, n, a, k) <=> LastExchange(prog, n, a, k)
  /\ \A prog, r, a, k :
       Abstract!ExpectedGhosts(prog, r, a, k) = ExpectedGhosts(prog, r, a, k)
  /\ Abstract!Pending = Pending
<1>1. Abstract!Ranks = Ranks
  BY DEF Abstract!Ranks, Ranks
<1>2. \A g, k, n : Abstract!splitBegin(g, k, n) = splitBegin(g, k, n)
                /\ Abstract!splitEnd(g, k, n) = splitEnd(g, k, n)
  BY DEF Abstract!splitBegin, splitBegin, Abstract!splitEnd, splitEnd,
         Abstract!getOffset, getOffset, Abstract!MinOf, MinOf
<1>3. \A r : /\ Abstract!LocalBegin(r) = LocalBegin(r)
             /\ Abstract!LocalEnd(r) = LocalEnd(r)
             /\ Abstract!LocalSize(r) = LocalSize(r)
  BY <1>1, <1>2 DEF Abstract!LocalBegin, LocalBegin, Abstract!LocalEnd, LocalEnd,
     Abstract!LocalSize, LocalSize, Abstract!localRange, localRange
<1>4. \A r : /\ Abstract!GhostCells(r) = GhostCells(r)
             /\ Abstract!Left(r) = Left(r) /\ Abstract!Right(r) = Right(r)
             /\ \A c : Abstract!GhostIndex(r, c) = GhostIndex(r, c)
  BY <1>3 DEF Abstract!GhostCells, GhostCells, Abstract!Left, Left,
     Abstract!Right, Right, Abstract!GhostIndex, GhostIndex
<1>5. /\ Abstract!Writers = Writers /\ Abstract!Starters = Starters
      /\ Abstract!Releasers = Releasers
      /\ \A a : Abstract!NeverWritten(a) = NeverWritten(a)
      /\ Abstract!Pending = Pending
  BY DEF Abstract!Writers, Writers, Abstract!Starters, Starters,
         Abstract!StartKinds, StartKinds, Abstract!Releasers, Releasers,
         Abstract!NeverWritten, NeverWritten, Abstract!Pending, Pending
<1>6. \A op : Abstract!IsExchange(op) <=> IsExchange(op)
  BY DEF Abstract!IsExchange, IsExchange, Abstract!StartKinds, StartKinds
<1>7. \A prog, n, a, k :
        Abstract!LastExchange(prog, n, a, k) <=> LastExchange(prog, n, a, k)
  BY <1>6 DEF Abstract!LastExchange, LastExchange
<1>8. \A prog, a, k, gi :
        Abstract!GlobalValue(prog, a, k, gi) = GlobalValue(prog, a, k, gi)
  BY DEF Abstract!GlobalValue, GlobalValue, Abstract!LastWrite, LastWrite,
         Abstract!Initial, Initial, Abstract!Written, Written
<1>9. \A prog, r, a, k :
        Abstract!ExpectedGhosts(prog, r, a, k) = ExpectedGhosts(prog, r, a, k)
  BY <1>4, <1>8 DEF Abstract!ExpectedGhosts, ExpectedGhosts
<1>. QED BY <1>1, <1>4, <1>5, <1>7, <1>9

LEMMA AbstractInit == Init => Abstract!Init
<1> SUFFICES ASSUME Init PROVE Abstract!Init
  OBVIOUS
<1>1. ASSUME NEW r \in Ranks, NEW a \in Arrays
      PROVE  GhostsOf(r, a) = [c \in GhostCells(r) |-> NeverWritten(a)]
  <2>1. 1 .. pos[r] = {}
    BY DEF Init
  <2>2. ASSUME NEW c \in GhostCells(r)
        PROVE  mem[r][a][c] = NeverWritten(a)
    <3>1. LocalSize(r) \in Nat
      BY LocalRange
    <3>2. c \in Cells(r) /\ ~(c < LocalSize(r))
      BY <3>1 DEF GhostCells, Cells
    <3>. QED BY <3>2 DEF Init
  <2>. QED BY <2>1, <2>2 DEF GhostsOf
<1>. QED BY <1>1, AbstractOperators DEF Init, Abstract!Init

(* While an exchange is not done, the last one of its array is not.        *)
LEMMA StillPending ==
  ASSUME IndInv, OrderOK, NEW r \in Ranks, NEW j \in 1 .. pos[r],
         IsExchange(program[j]), stage[r][j] # "done",
         NEW a, a = ArrayOf(j)
  PROVE  PendingOn(r, a)
<1>0. TypeOK /\ PositionsOK /\ pos[r] \in Nat /\ pos[r] <= MaxOps /\ MaxOps \in Nat
  <2>1. TypeOK /\ PositionsOK
    BY DEF IndInv
  <2>2. pos[r] \in 0 .. MaxOps
    BY <2>1 DEF TypeOK
  <2>. QED BY <2>1, <2>2, ConstantsAssumption
<1> DEFINE W == {k \in 1 .. pos[r] : program[k].array = a /\ IsExchange(program[k])}
<1>1. \E k \in W : \A i \in W : i <= k
  <2>1. W \in SUBSET (0 .. pos[r]) /\ j \in W
    BY DEF ArrayOf
  <2> HIDE DEF W
  <2>. QED BY <1>0, <2>1, Largest
<1>2. PICK k \in W : \A i \in W : i <= k
  BY <1>1
<1>3. j \in W /\ j <= k /\ k \in 1 .. pos[r]
  BY <1>2 DEF ArrayOf
<1>4. LastExchange(program, pos[r], a, k)
  <2>1. ASSUME NEW i \in (k + 1) .. pos[r], program[i].array = a,
               IsExchange(program[i])
        PROVE  FALSE
    <3>1. i \in W /\ ~(i <= k)
      BY <1>3, <2>1
    <3>. QED BY <1>2, <3>1
  <2>. QED BY <1>2, <2>1 DEF LastExchange
<1>5. stage[r][k] # "done"
  <2>1. CASE k = j
    BY <2>1
  <2>2. CASE k # j
    <3> SUFFICES ASSUME stage[r][k] = "done" PROVE FALSE
      OBVIOUS
    <3>1. j \in 1 .. (k - 1)
      BY <1>3, <2>2
    <3>2. SynchronizerOf(j) = SynchronizerOf(k)
      BY <1>2 DEF SynchronizerOf, ArrayOf
    <3>3. stage[r][k] # "none"
      OBVIOUS
    <3>. QED BY <1>3, <3>1, <3>2, <3>3 DEF OrderOK, SequentialOK
  <2>. QED BY <2>1, <2>2
<1>. QED BY <1>3, <1>4, <1>5 DEF PendingOn

(* The abstract ghosts of an array are unchanged if it remains pending, or *)
(* if it is no more pending than before and its ghosts are unchanged.      *)
LEMMA GhostsKept ==
  ASSUME NEW r \in Ranks, NEW a \in Arrays,
         \/ PendingOn(r, a) /\ PendingOn(r, a)'
         \/ /\ PendingOn(r, a)' <=> PendingOn(r, a)
            /\ \A c \in GhostCells(r) : mem'[r][a][c] = mem[r][a][c]
  PROVE  GhostsOf(r, a)' = GhostsOf(r, a)
BY DEF GhostsOf, PendingOn

(* Steps that change no array and finish no exchange.                      *)
LEMMA GhostsElsewhere ==
  ASSUME UNCHANGED <<program, pos, mem>>,
         \A x \in Ranks : \A k \in 1 .. pos[x] :
           stage'[x][k] = "done" <=> stage[x][k] = "done"
  PROVE  UNCHANGED Abstract!vars
<1>1. \A r \in Ranks, a \in Arrays : PendingOn(r, a)' <=> PendingOn(r, a)
  BY DEF PendingOn
<1>2. \A r \in Ranks, a \in Arrays : GhostsOf(r, a)' = GhostsOf(r, a)
  BY <1>1, GhostsKept
<1>. QED BY <1>2 DEF Abstract!vars

(* A rank begins an operation: the ghosts of the array of an exchange      *)
(* become pending, all other ghosts are kept.                              *)
LEMMA AbstractBegin ==
  ASSUME IndInv, OrderOK, NEW r \in Ranks, BeginExchange(r) \/ Release(r)
  PROVE  Abstract!Begin(r) \/ Abstract!Release(r)
<1>0. TypeOK /\ PositionsOK /\ \A x \in Ranks : pos[x] \in Nat
  BY DEF IndInv, TypeOK
<1>1. PICK op \in Operations :
        /\ NextOp(r, op)
        /\ op \in Writers \union Starters \/ op \in Releasers
  BY DEF BeginExchange, Release, Operations
<1> DEFINE n == pos[r] + 1
<1>2. /\ n \in Ops /\ n \in Nat
      /\ pos' = [pos EXCEPT ![r] = n]
      /\ \A x \in Ranks : \A k \in 1 .. pos[x] :
           k \in Ops /\ program'[k] = program[k]
      /\ stage' = stage
  BY <1>0, BeginOperation
<1>3. pos[r] < MaxOps
  BY DEF BeginExchange, Release
<1>4. program'[n] = op
  BY <1>0, <1>1, <1>3, NextOpGrows
<1>5. /\ op.array \in Arrays
      /\ \A x \in Ranks, a \in Arrays :
           x # r \/ a # op.array \/ op.kind \notin WriteKinds
             => mem'[x][a] = mem[x][a]
  BY <1>0, <1>4, BeginMemory
<1>6. pos'[r] = n /\ \A x \in Ranks : x # r => pos'[x] = pos[x]
  BY <1>0, <1>2 DEF TypeOK
<1>7. n = pos[r] + 1
  OBVIOUS
<1> HIDE DEF n
<1>8. ASSUME NEW x \in Ranks, NEW a \in Arrays,
             x # r \/ a # op.array \/ ~IsExchange(op)
      PROVE  GhostsOf(x, a)' = GhostsOf(x, a)
  <2>1. mem'[x][a] = mem[x][a]
    BY <1>5, <1>8 DEF IsExchange
  <2>2. ASSUME NEW k \in 1 .. pos[x]
        PROVE  LastExchange(program', pos'[x], a, k)
                 <=> LastExchange(program, pos[x], a, k)
    <3>1. program'[k] = program[k] /\ k \in 1 .. pos'[x]
      BY <1>0, <1>2, <1>6, <1>7, <2>2
    <3>2. \A j \in (k + 1) .. pos[x] :
            j \in (k + 1) .. pos'[x] /\ program'[j] = program[j]
      BY <1>0, <1>2, <1>6, <1>7, <2>2
    <3>3. \A j \in (k + 1) .. pos'[x] :
            j \in (k + 1) .. pos[x] \/ (x = r /\ j = n)
      BY <1>0, <1>2, <1>6, <1>7, <2>2
    <3>. QED BY <1>4, <1>8, <3>1, <3>2, <3>3 DEF LastExchange
  <2>3. ASSUME NEW k \in 1 .. pos'[x], LastExchange(program', pos'[x], a, k)
        PROVE  k \in 1 .. pos[x]
    <3>1. k \in 1 .. pos[x] \/ (x = r /\ k = n)
      BY <1>0, <1>2, <1>6, <1>7
    <3>. QED BY <1>4, <1>8, <2>3, <3>1 DEF LastExchange
  <2>4. \A k \in 1 .. pos[x] : k \in 1 .. pos'[x]
    BY <1>0, <1>2, <1>6, <1>7
  <2>5. PendingOn(x, a)' <=> PendingOn(x, a)
    BY <1>2, <2>2, <2>3, <2>4 DEF PendingOn
  <2>. QED BY <2>1, <2>5, GhostsKept
<1>9. Abstract!NextOp(r, op)
  BY <1>1, <1>2, <1>7 DEF NextOp, Abstract!NextOp
<1>10. CASE op \in Releasers
  <2>1. ~IsExchange(op)
    BY <1>10, OperationKinds
  <2>2. \A x \in Ranks, a \in Arrays : GhostsOf(x, a)' = GhostsOf(x, a)
    BY <1>8, <2>1
  <2>. QED BY <1>9, <1>10, <2>2, AbstractOperators DEF Abstract!Release
<1>11. CASE op \in Writers \union Starters
  <2>1. IsExchange(op)
    BY <1>11, OperationKinds
  <2> DEFINE b == op.array
  <2>2. PendingOn(r, b)'
    <3>1. n \in 1 .. pos'[r] /\ (n + 1) .. pos'[r] = {}
      BY <1>0, <1>2, <1>6, <1>7
    <3>2. LastExchange(program', pos'[r], b, n)
      BY <1>4, <2>1, <3>1 DEF LastExchange
    <3>3. stage'[r][n] # "done"
      BY <1>0, <1>2, <1>7 DEF PositionsOK
    <3>. QED BY <3>1, <3>2, <3>3 DEF PendingOn
  <2>3. GhostsOf(r, b)' = Pending
    BY <2>2 DEF PendingOn, GhostsOf
  <2>4. \A x \in Ranks, a \in Arrays :
          x # r \/ a # b => GhostsOf(x, a)' = GhostsOf(x, a)
    BY <1>8
  <2>5. b \in Arrays
    BY <1>5
  <2> HIDE DEF b
  <2>6. [x \in Ranks |-> [a \in Arrays |-> GhostsOf(x, a)']]
          = [[x \in Ranks |-> [a \in Arrays |-> GhostsOf(x, a)]]
               EXCEPT ![r][b] = Pending]
    BY <2>3, <2>4, <2>5
  <2>. QED BY <1>9, <1>11, <2>6, AbstractOperators DEF Abstract!Begin, b
<1>. QED BY <1>1, <1>10, <1>11

(* A received message changes ghosts of an exchange that is not done only. *)
LEMMA AbstractMatch ==
  ASSUME MessagesInv, NEW p \in Ranks, NEW q \in Ranks, Match(p, q)
  PROVE  UNCHANGED Abstract!vars
<1>0. /\ IndInv /\ TypeOK /\ PositionsOK /\ OrderOK /\ QueuesOK /\ RequestsOK
      /\ \A x \in Ranks : pos[x] \in 0 .. MaxOps
  <2>1. IndInv /\ TypeOK /\ PositionsOK /\ OrderOK /\ QueuesOK /\ RequestsOK
    BY DEF MessagesInv, IndInv
  <2>. QED BY <2>1 DEF TypeOK
<1> DEFINE i == matched[p][q] + 1
           rcv == recvs[p][q][i]
           b == ArrayOf(rcv.op)
<1>1. i \in 1 .. Len(recvs[p][q]) /\ UNCHANGED <<program, pos, stage>>
  BY <1>0, MatchStep
<1>2. \A x \in Ranks, a \in Arrays : x # q \/ a # b => mem'[x][a] = mem[x][a]
  <2>1. OnlyWindowFilled(q, b, FirstCell(q, rcv.side), Payload(p, sends[p][q][i]))
    BY <1>0, MatchMemory
  <2>. QED BY <2>1 DEF OnlyWindowFilled
<1>3. /\ rcv.op \in Ops /\ rcv.op <= pos[q] /\ rcv.side \in RecvSides
      /\ Posted(q, rcv.op, rcv.side)
  BY <1>0, <1>1, EntryTypes DEF PositionsOK, QueuesOK, QueuesHoldPosted
<1>4. rcv.side \in requests[q][rcv.op]
  <2>1. matched[p][q] \in Nat
    BY <1>0 DEF TypeOK
  <2>2. i \in (matched[p][q] + 1) .. Len(recvs[p][q])
    BY <1>1, <2>1
  <2> HIDE DEF i
  <2>. QED BY <1>0, <2>2 DEF RequestsOK
<1>5. requests[q][rcv.op] # {}
  BY <1>4
<1> HIDE DEF i, rcv
<1>6. stage[q][rcv.op] \notin {"none", "done"}
  <2>1. stage[q][rcv.op] # "none"
    <3>1. rcv.side \in {"recvLeft", "recvRight"}
      BY <1>3 DEF RecvSides
    <3>2. stage[q][rcv.op] \in StagesAfter[rcv.side]
      BY <1>3 DEF Posted
    <3>. QED BY <3>1, <3>2 DEF StagesAfter
  <2>2. stage[q][rcv.op] # "done"
    BY <1>0, <1>3, <1>5 DEF RequestsOK
  <2>. QED BY <2>1, <2>2
<1>7. PendingOn(q, b)
  <2>1. IsExchange(program[rcv.op]) /\ rcv.op \in 1 .. pos[q]
    BY <1>0, <1>3, <1>6 DEF OrderOK, StartedOK, Ops
  <2>. QED BY <1>0, <1>6, <2>1, StillPending
<1> HIDE DEF b
<1>8. ASSUME NEW x \in Ranks, NEW a \in Arrays
      PROVE  GhostsOf(x, a)' = GhostsOf(x, a)
  <2>1. PendingOn(x, a)' <=> PendingOn(x, a)
    BY <1>1 DEF PendingOn
  <2>2. CASE x = q /\ a = b
    BY <1>7, <2>1, <2>2, GhostsKept
  <2>3. CASE ~(x = q /\ a = b)
    <3>1. mem'[x][a] = mem[x][a]
      BY <1>2, <2>3
    <3>. QED BY <2>1, <3>1, GhostsKept
  <2>. QED BY <2>2, <2>3
<1>. QED BY <1>1, <1>8 DEF Abstract!vars

(* An exchange is done: if it is the last one of its array, the ghosts take*)
(* the values that the neighbours sent; otherwise they remain pending.     *)
LEMMA AbstractFinish ==
  ASSUME IndInv, OrderOK, GhostsMatchNeighbours', NeighboursReached',
         NEW r \in Ranks, NEW k \in Ops, Waitall(r, k)
  PROVE  (\E a \in Arrays : Abstract!Finish(r, a)) \/ UNCHANGED Abstract!vars
<1>0. TypeOK /\ PositionsOK /\ pos[r] \in Nat
  <2>1. TypeOK /\ PositionsOK
    BY DEF IndInv
  <2>2. pos[r] \in 0 .. MaxOps
    BY <2>1 DEF TypeOK
  <2>. QED BY <2>1, <2>2
<1>1. /\ stage[r][k] = "waitall" /\ stage' = [stage EXCEPT ![r][k] = "done"]
      /\ UNCHANGED <<program, pos, mem>>
  BY DEF Waitall
<1>2. /\ stage'[r][k] = "done"
      /\ \A x \in Ranks, j \in Ops :
           x # r \/ j # k => stage'[x][j] = stage[x][j]
  BY <1>0, <1>1 DEF TypeOK
<1>3. k <= pos[r] /\ IsExchange(program[k]) /\ k \in 1 .. pos[r]
  <2>1. k <= pos[r] /\ IsExchange(program[k])
    BY <1>0, <1>1 DEF PositionsOK, OrderOK, StartedOK
  <2>. QED BY <1>0, <2>1 DEF Ops
<1>4. PICK a \in Arrays : a = ArrayOf(k)
  BY <1>0, <1>3, BegunOperation
<1>5. PendingOn(r, a)
  BY <1>1, <1>3, <1>4, StillPending
<1>6. ASSUME NEW x \in Ranks, NEW c \in Arrays, x # r \/ c # a
      PROVE  GhostsOf(x, c)' = GhostsOf(x, c)
  <2>1. \A j \in 1 .. pos[x] : j \in Ops
    <3>1. pos[x] \in 0 .. MaxOps
      BY <1>0 DEF TypeOK
    <3>. QED BY <3>1, ConstantsAssumption DEF Ops
  <2>2. \A j \in 1 .. pos[x] : LastExchange(program, pos[x], c, j) =>
          stage'[x][j] = stage[x][j]
    BY <1>2, <1>4, <1>6, <2>1 DEF LastExchange, ArrayOf
  <2>3. PendingOn(x, c)' <=> PendingOn(x, c)
    BY <1>1, <2>2 DEF PendingOn
  <2>. QED BY <1>1, <2>3, GhostsKept
<1>7. CASE PendingOn(r, a)'
  <2>1. GhostsOf(r, a)' = GhostsOf(r, a)
    BY <1>5, <1>7, GhostsKept
  <2>2. \A x \in Ranks, c \in Arrays : GhostsOf(x, c)' = GhostsOf(x, c)
    BY <1>6, <2>1
  <2>. QED BY <1>1, <2>2 DEF Abstract!vars
<1>8. CASE ~PendingOn(r, a)'
  <2>1. PICK j \in 1 .. pos[r] :
          LastExchange(program, pos[r], a, j) /\ stage[r][j] # "done"
    BY <1>5 DEF PendingOn
  <2>2. stage'[r][j] = "done"
    BY <1>1, <1>8, <2>1 DEF PendingOn
  <2>3. \A c \in GhostCells(r) :
          mem[r][a][c] = ExpectedGhosts(program, r, a, j)[c]
    BY <1>1, <2>1, <2>2 DEF GhostsMatchNeighbours
  <2>4. pos[Left(r)] >= j /\ pos[Right(r)] >= j
    BY <1>1, <2>2 DEF NeighboursReached
  <2>5. GhostsOf(r, a) = Pending
    BY <1>5 DEF PendingOn, GhostsOf
  <2>6. GhostsOf(r, a)' = ExpectedGhosts(program, r, a, j)
    <3>1. GhostsOf(r, a)' = [c \in GhostCells(r) |-> mem[r][a][c]]
      BY <1>1, <1>8 DEF PendingOn, GhostsOf
    <3>. QED BY <2>3, <3>1 DEF ExpectedGhosts
  <2>7. [x \in Ranks |-> [c \in Arrays |-> GhostsOf(x, c)']]
          = [[x \in Ranks |-> [c \in Arrays |-> GhostsOf(x, c)]]
               EXCEPT ![r][a] = ExpectedGhosts(program, r, a, j)]
    BY <1>6, <2>6
  <2>8. Abstract!Finish(r, a)
    <3>1. [x \in Ranks |-> [c \in Arrays |-> GhostsOf(x, c)]][r][a]
            = Abstract!Pending
      BY <2>5, AbstractOperators
    <3>2. /\ Abstract!LastExchange(program, pos[r], a, j)
          /\ pos[Abstract!Left(r)] >= j /\ pos[Abstract!Right(r)] >= j
      BY <2>1, <2>4, AbstractOperators
    <3>3. [x \in Ranks |-> [c \in Arrays |-> GhostsOf(x, c)']]
            = [[x \in Ranks |-> [c \in Arrays |-> GhostsOf(x, c)]]
                 EXCEPT ![r][a] = Abstract!ExpectedGhosts(program, r, a, j)]
      BY <2>7, AbstractOperators
    <3>. QED BY <1>1, <3>1, <3>2, <3>3, AbstractOperators DEF Abstract!Finish
  <2>. QED BY <2>8
<1>. QED BY <1>7, <1>8

(* Every step is an abstract step or leaves the abstract state as it is.   *)
LEMMA AbstractNext ==
  ASSUME MessagesInv, GhostsMatchNeighbours', NeighboursReached', [Next]_vars
  PROVE  Abstract!Next \/ UNCHANGED Abstract!vars
<1>0. /\ IndInv /\ OrderOK /\ TypeOK /\ PositionsOK
      /\ \A x \in Ranks : \A k \in 1 .. pos[x] : k \in Ops
  <2>1. IndInv /\ OrderOK /\ TypeOK /\ PositionsOK
    BY DEF MessagesInv, IndInv
  <2>2. \A x \in Ranks : pos[x] \in 0 .. MaxOps
    BY <2>1 DEF TypeOK
  <2>. QED BY <2>1, <2>2, ConstantsAssumption DEF Ops
<1>1. ASSUME NEW r \in Ranks, BeginExchange(r) \/ Release(r)
      PROVE  Abstract!Next
  BY <1>0, <1>1, AbstractBegin, AbstractOperators DEF Abstract!Next
<1>2. ASSUME NEW r \in Ranks, StartExchange(r)
      PROVE  UNCHANGED Abstract!vars
  <2>1. /\ stage' = [stage EXCEPT ![r][pos[r]] = "recvLeft"]
        /\ stage[r][pos[r]] = "none"
        /\ UNCHANGED <<program, pos, mem>>
    BY <1>0, <1>2 DEF StartExchange, PositionsOK
  <2>2. \A x \in Ranks, k \in Ops :
          stage'[x][k] = "done" <=> stage[x][k] = "done"
    BY <1>0, <2>1 DEF TypeOK
  <2>. QED BY <1>0, <2>1, <2>2, GhostsElsewhere
<1>3. ASSUME NEW r \in Ranks, MainStep(r),
             ~(BeginExchange(r) \/ Release(r)), ~StartExchange(r)
      PROVE  UNCHANGED Abstract!vars
  <2>1. UNCHANGED <<program, pos, mem, stage>>
    BY <1>3 DEF MainStep, FinishCall, WaitForSynchronization, FinishWait,
                FinishDestructor
  <2>. QED BY <2>1, GhostsElsewhere
<1>4. ASSUME NEW r \in Ranks, NEW k \in Ops, Post(r, k)
      PROVE  UNCHANGED Abstract!vars
  <2>1. /\ stage[r][k] \in Sides
        /\ stage' = [stage EXCEPT ![r][k] = NextStage[stage[r][k]]]
        /\ UNCHANGED <<program, pos, mem>>
    BY <1>4 DEF Post
  <2>2. stage[r][k] # "done" /\ NextStage[stage[r][k]] # "done"
    BY <2>1 DEF NextStage, Sides, SendSides, RecvSides
  <2>3. \A x \in Ranks, j \in Ops :
          stage'[x][j] = "done" <=> stage[x][j] = "done"
    BY <1>0, <2>1, <2>2 DEF TypeOK
  <2>. QED BY <1>0, <2>1, <2>3, GhostsElsewhere
<1>5. ASSUME NEW r \in Ranks, NEW k \in Ops, Waitall(r, k)
      PROVE  Abstract!Next \/ UNCHANGED Abstract!vars
  BY <1>0, <1>5, AbstractFinish, AbstractOperators DEF Abstract!Next
<1>6. ASSUME NEW p \in Ranks, NEW q \in Ranks, MPIStep(p, q)
      PROVE  UNCHANGED Abstract!vars
  <2>1. CASE Match(p, q)
    BY <2>1, AbstractMatch
  <2>2. CASE Buffer(p, q)
    <3>1. UNCHANGED <<program, pos, mem, stage>>
      BY <2>2 DEF Buffer
    <3>. QED BY <3>1, GhostsElsewhere
  <2>. QED BY <1>6, <2>1, <2>2 DEF MPIStep
<1>7. CASE UNCHANGED vars
  <2>1. UNCHANGED <<program, pos, mem, stage>>
    BY <1>7 DEF vars
  <2>. QED BY <2>1, GhostsElsewhere
<1>. QED BY <1>1, <1>2, <1>3, <1>4, <1>5, <1>6, <1>7 DEF Next, Terminated

(* The exchange through threads, futures and MPI implements the abstract   *)
(* neighbour exchange.                                                     *)
THEOREM Refinement ==
  ASSUME InOrder, NProc >= 3, ~EagerWrites
  PROVE  Spec => ImplementsGhostExchange
<1>1. Spec => [](MessagesInv /\ GhostsMatchNeighbours /\ NeighboursReached)
  BY MessagesAlways, GhostsMatch, Synchronizes, PTL
<1>2. Init => Abstract!Init
  BY AbstractInit
<1>3. /\ MessagesInv /\ GhostsMatchNeighbours /\ NeighboursReached
      /\ (MessagesInv /\ GhostsMatchNeighbours /\ NeighboursReached)'
      /\ [Next]_vars
      => [Abstract!Next]_(Abstract!vars)
  BY AbstractNext
<1>. QED BY <1>1, <1>2, <1>3, PTL DEF Spec, ImplementsGhostExchange, Abstract!Spec
=============================================================================
