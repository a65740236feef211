---------------------- MODULE ArraySynchronizer_proofs ----------------------
(***************************************************************************)
(* Proofs about the ghost exchange, for every number of ranks, every array *)
(* size and every program: types, at most one active exchange of each      *)
(* synchronizer, and storage that outlives the exchanges.                  *)
(***************************************************************************)
EXTENDS ArraySynchronizer, TLAPS

-----------------------------------------------------------------------------
(* Facts about the ranges of the ranks.  They hold for all values of their *)
(* parameters; what MCPartitioner enumerates does not matter here.         *)
Ranges == INSTANCE Partitioner_proofs
            WITH MaxSize <- 1, MaxPartitions <- 1, EmptyRanks <- FALSE,
                 size <- 1, partitions <- 1, i <- 0

LEMMA OffsetEnds ==
  ASSUME NEW G \in Nat, NEW P \in Nat \ {0}
  PROVE  getOffset(G, 0, P) = 0 /\ getOffset(G, P, P) = G
  BY Ranges!OffsetEnds DEF Ranges!getOffset, getOffset

LEMMA OffsetMonotone ==
  ASSUME NEW G \in Nat, NEW P \in Nat \ {0}, NEW r \in Nat
  PROVE  /\ getOffset(G, r, P) \in Nat
         /\ getOffset(G, r, P) <= getOffset(G, r + 1, P)
  BY Ranges!OffsetMonotone DEF Ranges!getOffset, getOffset

LEMMA OffsetInArray ==
  ASSUME NEW G \in Nat, NEW P \in Nat \ {0}, NEW r \in 0 .. P
  PROVE  getOffset(G, r, P) \in 0 .. G
  BY Ranges!OffsetInArray DEF Ranges!getOffset, getOffset

LEMMA SplitRange ==
  ASSUME NEW G \in Nat, NEW P \in Nat \ {0}, NEW r \in 0 .. (P - 1)
  PROVE  /\ splitBegin(G, r, P) = getOffset(G, r, P)
         /\ splitEnd(G, r, P) = getOffset(G, r + 1, P)
<1>1. getOffset(G, r, P) \in 0 .. G /\ getOffset(G, r + 1, P) \in 0 .. G
  BY OffsetInArray
<1>. QED BY <1>1 DEF splitBegin, splitEnd, MinOf

-----------------------------------------------------------------------------
(* Facts about the constants.                                              *)

(* The local range of a rank lies within the array, and it is at least as  *)
(* long as the overlaps.                                                   *)
LEMMA LocalRange ==
  ASSUME NEW r \in Ranks
  PROVE  /\ LocalBegin(r) \in Nat
         /\ LocalSize(r) \in Nat
         /\ Overlaps <= LocalSize(r)
         /\ LocalBegin(r) + LocalSize(r) <= GlobalSize
<1>1. r \in Nat /\ GlobalSize \in Nat /\ NProc \in Nat \ {0} /\ Overlaps \in Nat
  BY ConstantsAssumption DEF Ranks
<1>2. /\ getOffset(GlobalSize, r, NProc) \in Nat
      /\ getOffset(GlobalSize, r + 1, NProc) \in Nat
  BY <1>1, OffsetMonotone
<1>3. /\ LocalBegin(r) = splitBegin(GlobalSize, r, NProc)
      /\ LocalEnd(r) = splitEnd(GlobalSize, r, NProc)
  BY DEF LocalBegin, LocalEnd, localRange
<1>4. LocalBegin(r) \in Nat /\ LocalEnd(r) \in Nat /\ LocalEnd(r) <= GlobalSize
  BY <1>1, <1>2, <1>3 DEF splitBegin, splitEnd, MinOf
<1>5. Overlaps <= LocalSize(r)
  BY ConstantsAssumption
<1>. QED BY <1>1, <1>4, <1>5 DEF LocalSize

(* The buffer of each call lies within the local data of the rank.         *)
LEMMA BufferInCells ==
  ASSUME NEW r \in Ranks, NEW side \in Sides, NEW w \in Window
  PROVE  FirstCell(r, side) + w \in Cells(r)
<1>1. LocalSize(r) \in Nat /\ Overlaps \in Nat /\ Overlaps <= LocalSize(r)
  BY LocalRange, ConstantsAssumption
<1>2. CASE side = "recvLeft"
  BY <1>1, <1>2 DEF FirstCell, Cells, Window
<1>3. CASE side = "recvRight"
  BY <1>1, <1>3 DEF FirstCell, Cells, Window
<1>4. CASE side = "sendLeft"
  BY <1>1, <1>4 DEF FirstCell, Cells, Window
<1>5. CASE side = "sendRight"
  BY <1>1, <1>5 DEF FirstCell, Cells, Window
<1>. QED BY <1>2, <1>3, <1>4, <1>5 DEF Sides, RecvSides, SendSides

LEMMA FirstCellInt ==
  ASSUME NEW r \in Ranks, NEW side \in Sides
  PROVE  FirstCell(r, side) \in Int
<1>1. LocalSize(r) \in Nat /\ Overlaps \in Nat
  BY LocalRange, ConstantsAssumption
<1>. QED BY <1>1 DEF FirstCell, Sides, RecvSides, SendSides

(* What an operation writes is a value.                                    *)
LEMMA WrittenType ==
  ASSUME NEW op \in Operations, NEW k \in Ops, NEW gi \in Int,
         op.kind # "setValue" => gi \in 0 .. GlobalSize
  PROVE  Written(op, k, gi) \in Values
<1>1. op.array \in Arrays
  BY DEF Operations, Writers, Starters, Releasers
<1>2. k \in 0 .. MaxOps /\ GlobalSize \in 0 .. GlobalSize
  BY ConstantsAssumption DEF Ops
<1>. QED BY <1>1, <1>2 DEF Written, Values

(* The neighbours of a rank are ranks.                                     *)
LEMMA PeerType ==
  ASSUME NEW r \in Ranks, NEW side
  PROVE  Peer(r, side) \in Ranks
BY ConstantsAssumption DEF Peer, Left, Right, Ranks

-----------------------------------------------------------------------------
(* The inductive invariant.                                                *)

(* No rank is ahead of the program, no exchange and no message ahead of    *)
(* the rank it belongs to, and an operation in progress is the last one.   *)
PositionsOK ==
  /\ \A r \in Ranks : pos[r] <= Len(program)
  /\ \A r \in Ranks :
       pc[r] \in {"starting", "communicating", "destroying"} => pos[r] >= 1
  /\ \A r \in Ranks, k \in Ops : stage[r][k] # "none" => k <= pos[r]
  /\ \A r \in Ranks : pc[r] = "starting" => stage[r][pos[r]] = "none"
  /\ \A p, q \in Ranks :
       /\ \A i \in 1 .. Len(sends[p][q]) : sends[p][q][i].op <= pos[p]
       /\ \A i \in 1 .. Len(recvs[p][q]) : recvs[p][q][i].op <= pos[q]

(* An active exchange is the one its synchronizer's future refers to or the*)
(* one the main thread executes itself, which it does only after the future*)
(* has become ready.                                                       *)
FuturesOK ==
  /\ \A r \in Ranks, k \in Ops :
       Active(r, k) => \/ async_op[r][SynchronizerOf(k)] = k
                       \/ pc[r] = "communicating" /\ k = pos[r]
  /\ \A r \in Ranks :
       pc[r] = "communicating" => Ready(r, SynchronizerOf(pos[r]))

IndInv == TypeOK /\ PositionsOK /\ FuturesOK

(* The storage part, for programs that release arrays only by destructors. *)
StorageOK ==
  /\ \A r \in Ranks : \A k \in 1 .. pos[r] :
       Active(r, k) => alive[r][ArrayOf(k)]
  /\ \A r \in Ranks :
       pc[r] \in {"starting", "communicating"} => alive[r][ArrayOf(pos[r])]
  /\ \A r \in Ranks :
       pc[r] = "destroying" => waits[r] = {SynchronizerOf(pos[r])}

-----------------------------------------------------------------------------
(* Types.                                                                  *)

(* A local write yields local data.                                        *)
LEMMA WriteLocalType ==
  ASSUME TypeOK, NEW r \in Ranks, NEW op \in Writers \union Starters,
         pos[r] < MaxOps
  PROVE  WriteLocal(r, op, pos[r] + 1) \in [Cells(r) -> Values]
<1> DEFINE k == pos[r] + 1
<1>1. k \in Ops /\ op \in Operations /\ op.array \in Arrays
  BY ConstantsAssumption DEF TypeOK, Ops, Operations, Writers, Starters
<1>2. mem[r][op.array] \in [Cells(r) -> Values]
  BY <1>1 DEF TypeOK
<1>3. /\ LocalBegin(r) \in Nat /\ LocalSize(r) \in Nat
      /\ LocalBegin(r) + LocalSize(r) <= GlobalSize
      /\ GlobalSize \in Nat /\ Cells(r) \subseteq Nat
  BY LocalRange, ConstantsAssumption DEF Cells
<1> HIDE DEF k
<1>4. CASE op.kind = "copyFromGlobal"
  <2>1. ASSUME NEW c \in Cells(r), c < LocalSize(r)
        PROVE  Written(op, k, LocalBegin(r) + c) \in Values
    <3>1. LocalBegin(r) + c \in 0 .. GlobalSize
      BY <1>3, <2>1
    <3>. QED BY <1>1, <1>4, <3>1, WrittenType
  <2>2. WriteLocal(r, op, k) = [c \in Cells(r) |->
          IF c < LocalSize(r) THEN Written(op, k, LocalBegin(r) + c)
                              ELSE mem[r][op.array][c]]
    BY <1>4 DEF WriteLocal
  <2>3. \A c \in Cells(r) : mem[r][op.array][c] \in Values
    BY <1>2
  <2>. QED BY <2>1, <2>2, <2>3 DEF k
<1>5. CASE op.kind = "setValue"
  <2>1. \A c \in Cells(r) : Written(op, k, c) \in Values
    BY <1>1, <1>3, <1>5, WrittenType
  <2>. QED BY <1>5, <2>1 DEF WriteLocal, k
<1>6. CASE op.kind \notin {"copyFromGlobal", "setValue"}
  BY <1>2, <1>6 DEF WriteLocal, k
<1>. QED BY <1>4, <1>5, <1>6

(* The payload of a message is one.                                        *)
LEMMA PayloadType ==
  ASSUME TypeOK, PositionsOK, NEW p \in Ranks, NEW q \in Ranks,
         NEW i \in 1 .. Len(sends[p][q])
  PROVE  Payload(p, sends[p][q][i]) \in Payloads
<1> DEFINE m == sends[p][q][i]
<1>1. /\ m.op \in Ops /\ m.side \in SendSides
      /\ m.data \in Payloads \union {NoData}
  <2>1. sends[p][q] \in Seq(SendRequests)
    BY DEF TypeOK
  <2>2. m \in SendRequests
    BY <2>1
  <2>. QED BY <2>2 DEF SendRequests
<1>2. CASE m.data # NoData
  BY <1>1, <1>2 DEF Payload
<1>3. CASE m.data = NoData
  <2>1. m.op \in 1 .. Len(program)
    <3>1. m.op <= pos[p] /\ pos[p] <= Len(program)
      BY DEF PositionsOK
    <3>2. pos[p] \in Int /\ Len(program) \in Nat
      BY DEF TypeOK
    <3>. QED BY <1>1, <3>1, <3>2, ConstantsAssumption DEF Ops
  <2>2. program[m.op] \in Operations
    <3>1. program \in Seq(Operations)
      BY DEF TypeOK
    <3>. QED BY <2>1, <3>1
  <2>3. ArrayOf(m.op) \in Arrays
    BY <2>2 DEF ArrayOf, Operations, Writers, Starters, Releasers
  <2>4. mem[p][ArrayOf(m.op)] \in [Cells(p) -> Values]
    BY <2>3 DEF TypeOK
  <2>5. \A w \in Window : FirstCell(p, m.side) + w \in Cells(p)
    BY <1>1, BufferInCells DEF Sides
  <2>. QED BY <1>3, <2>4, <2>5 DEF Payload, Payloads
<1>. QED BY <1>2, <1>3

(* What a rank receives is local data.                                     *)
LEMMA ReceivedType ==
  ASSUME TypeOK, NEW q \in Ranks, NEW a \in Arrays, NEW side \in Sides,
         NEW d \in Payloads
  PROVE  Received(q, a, FirstCell(q, side), d) \in [Cells(q) -> Values]
<1> DEFINE f == FirstCell(q, side)
<1>1. f \in Int /\ Overlaps \in Nat
  BY FirstCellInt, ConstantsAssumption
<1>2. mem[q][a] \in [Cells(q) -> Values]
  BY DEF TypeOK
<1> HIDE DEF f
<1>3. \A c \in f .. (f + Overlaps - 1) : c - f \in Window
  BY <1>1 DEF Window
<1>4. \A w \in Window : d[w] \in Values
  BY DEF Payloads
<1>5. Received(q, a, f, d) \in [Cells(q) -> Values]
  BY <1>2, <1>3, <1>4 DEF Received
<1>. QED BY <1>5 DEF f

(* The program only grows, and never beyond its bound.                     *)
LEMMA NextOpGrows ==
  ASSUME TypeOK, PositionsOK, NEW r \in Ranks, NEW op \in Operations,
         pos[r] < MaxOps, NextOp(r, op)
  PROVE  /\ program' \in Seq(Operations)
         /\ Len(program') <= MaxOps
         /\ Len(program) <= Len(program')
         /\ pos[r] + 1 <= Len(program')
         /\ program'[pos[r] + 1] = op
         /\ \A k \in 1 .. Len(program) : program'[k] = program[k]
<1>1. /\ program \in Seq(Operations) /\ Len(program) \in Nat
      /\ Len(program) <= MaxOps /\ pos[r] \in Nat
      /\ pos[r] <= Len(program) /\ MaxOps \in Nat
  BY ConstantsAssumption DEF TypeOK, PositionsOK
<1>2. CASE pos[r] < Len(program)
  BY <1>1, <1>2 DEF NextOp
<1>3. CASE ~(pos[r] < Len(program))
  BY SMTT(30), <1>1, <1>3 DEF NextOp
<1>. QED BY <1>2, <1>3

(* The initial state is well typed.                                        *)
LEMMA TypeInit == Init => TypeOK
<1> SUFFICES ASSUME Init PROVE TypeOK
  OBVIOUS
<1>1. program \in Seq(Operations) /\ Len(program) <= MaxOps
  BY ConstantsAssumption DEF Init
<1>2. /\ pos \in [Ranks -> 0 .. MaxOps] /\ pc \in [Ranks -> PcValues]
      /\ waits \in [Ranks -> SUBSET Synchronizers]
      /\ alive \in [Ranks -> [Arrays -> BOOLEAN]]
      /\ async_op \in [Ranks -> [Synchronizers -> 0 .. MaxOps]]
      /\ stage \in [Ranks -> [Ops -> Stages]]
      /\ requests \in [Ranks -> [Ops -> SUBSET Sides]]
      /\ matched \in [Ranks -> [Ranks -> Nat]]
  BY ConstantsAssumption DEF Init, PcValues, Stages
<1>3. DOMAIN mem = Ranks
  BY DEF Init
<1>4. ASSUME NEW r \in Ranks, NEW a \in Arrays, NEW c \in Cells(r)
      PROVE  mem[r][a][c] \in Values
  <2>1. LocalBegin(r) \in Nat /\ LocalSize(r) \in Nat /\ c \in Nat
        /\ LocalBegin(r) + LocalSize(r) <= GlobalSize /\ GlobalSize \in Nat
    BY LocalRange, ConstantsAssumption DEF Cells
  <2>2. 0 \in 0 .. MaxOps /\ GlobalSize \in 0 .. GlobalSize
    BY ConstantsAssumption
  <2>3. mem[r][a][c] = IF c < LocalSize(r) THEN Initial(a, LocalBegin(r) + c)
                                           ELSE NeverWritten(a)
    BY DEF Init
  <2>4. CASE c < LocalSize(r)
    <3>1. LocalBegin(r) + c \in 0 .. GlobalSize
      BY <2>1, <2>4
    <3>. QED BY <2>2, <2>3, <2>4, <3>1 DEF Initial, Values
  <2>5. CASE ~(c < LocalSize(r))
    BY <2>2, <2>3, <2>5 DEF NeverWritten, Values
  <2>. QED BY <2>4, <2>5
<1>5. \A r \in Ranks : mem[r] \in [Arrays -> [Cells(r) -> Values]]
  BY <1>4 DEF Init
<1>6. /\ sends \in [Ranks -> [Ranks -> Seq(SendRequests)]]
      /\ recvs \in [Ranks -> [Ranks -> Seq(RecvRequests)]]
  BY DEF Init
<1>. QED BY <1>1, <1>2, <1>3, <1>5, <1>6 DEF TypeOK

(* A future remains or becomes one of the current operation.               *)
LEMMA FutureType ==
  ASSUME TypeOK, NEW r \in Ranks,
         \/ async_op' = async_op
         \/ async_op' = [async_op EXCEPT ![r][SynchronizerOf(pos[r])] = pos[r]]
  PROVE  async_op' \in [Ranks -> [Synchronizers -> 0 .. MaxOps]]
<1> DEFINE s == SynchronizerOf(pos[r])
<1>1. /\ pos[r] \in 0 .. MaxOps
      /\ async_op \in [Ranks -> [Synchronizers -> 0 .. MaxOps]]
  BY DEF TypeOK
<1>2. \/ async_op' = async_op
      \/ async_op' = [async_op EXCEPT ![r][s] = pos[r]]
  OBVIOUS
<1> HIDE DEF s
<1>. QED BY <1>1, <1>2

(* The actions of the main thread that only move the main thread.          *)
LEMMA TypeMain ==
  ASSUME TypeOK, NEW r \in Ranks,
         \/ StartExchange(r)
         \/ FinishCall(r)
         \/ \E s \in Synchronizers : WaitForSynchronization(r, s)
         \/ FinishWait(r)
         \/ FinishDestructor(r)
  PROVE  TypeOK'
<1>1. CASE StartExchange(r)
  <2>1. async_op' \in [Ranks -> [Synchronizers -> 0 .. MaxOps]]
    BY <1>1, FutureType DEF StartExchange
  <2>2. /\ pc' \in [Ranks -> PcValues]
        /\ waits' \in [Ranks -> SUBSET Synchronizers]
    BY <1>1 DEF TypeOK, StartExchange, PcValues
  <2>3. stage' \in [Ranks -> [Ops -> Stages]]
    BY <1>1 DEF TypeOK, StartExchange, Stages, Sides, RecvSides
  <2>. QED BY <1>1, <2>1, <2>2, <2>3 DEF TypeOK, StartExchange
<1>2. CASE FinishCall(r)
  <2>1. async_op' \in [Ranks -> [Synchronizers -> 0 .. MaxOps]]
    BY <1>2, FutureType DEF FinishCall
  <2>2. pc' \in [Ranks -> PcValues]
    BY <1>2 DEF TypeOK, FinishCall, PcValues
  <2>. QED BY <1>2, <2>1, <2>2 DEF TypeOK, FinishCall
<1>3. ASSUME NEW s \in Synchronizers, WaitForSynchronization(r, s)
      PROVE  TypeOK'
  <2>1. /\ pc' \in [Ranks -> PcValues]
        /\ waits' \in [Ranks -> SUBSET Synchronizers]
    BY <1>3 DEF TypeOK, WaitForSynchronization, PcValues
  <2>. QED BY <1>3, <2>1 DEF TypeOK, WaitForSynchronization
<1>4. CASE FinishWait(r)
  <2>1. /\ pc' \in [Ranks -> PcValues]
        /\ waits' \in [Ranks -> SUBSET Synchronizers]
    BY <1>4 DEF TypeOK, FinishWait, PcValues
  <2>. QED BY <1>4, <2>1 DEF TypeOK, FinishWait
<1>5. CASE FinishDestructor(r)
  <2>1. /\ pc' \in [Ranks -> PcValues]
        /\ waits' \in [Ranks -> SUBSET Synchronizers]
        /\ alive' \in [Ranks -> [Arrays -> BOOLEAN]]
    BY <1>5 DEF TypeOK, FinishDestructor, PcValues
  <2>. QED BY <1>5, <2>1 DEF TypeOK, FinishDestructor
<1>. QED BY <1>1, <1>2, <1>3, <1>4, <1>5

(* The actions that begin an operation.                                    *)
LEMMA TypeBegin ==
  ASSUME TypeOK, PositionsOK, NEW r \in Ranks,
         BeginExchange(r) \/ Release(r)
  PROVE  TypeOK'
<1>1. pos[r] < MaxOps => pos[r] + 1 \in 0 .. MaxOps
  BY ConstantsAssumption DEF TypeOK
<1>2. CASE BeginExchange(r)
  <2>1. pos[r] < MaxOps
    BY <1>2 DEF BeginExchange
  <2>2. PICK op \in Writers \union Starters :
          /\ NextOp(r, op)
          /\ mem' = [mem EXCEPT ![r][op.array] = WriteLocal(r, op, pos[r] + 1)]
          /\ waits' = [waits EXCEPT ![r] = {SyncOf[op.array]}]
    BY <1>2 DEF BeginExchange
  <2>3. op \in Operations /\ op.array \in Arrays
    BY DEF Operations, Writers, Starters
  <2>4. program' \in Seq(Operations) /\ Len(program') <= MaxOps
    BY <2>1, <2>2, <2>3, NextOpGrows
  <2>5. pos' \in [Ranks -> 0 .. MaxOps]
    BY <1>1, <1>2, <2>1 DEF TypeOK, BeginExchange
  <2>6. pc' \in [Ranks -> PcValues]
    BY <1>2 DEF TypeOK, BeginExchange, PcValues
  <2>7. waits' \in [Ranks -> SUBSET Synchronizers]
    BY <2>2, <2>3, ConstantsAssumption DEF TypeOK
  <2>8. /\ DOMAIN mem' = Ranks
        /\ \A q \in Ranks : mem'[q] \in [Arrays -> [Cells(q) -> Values]]
    <3> DEFINE written == WriteLocal(r, op, pos[r] + 1)
    <3>1. written \in [Cells(r) -> Values]
      BY <2>1, WriteLocalType
    <3> HIDE DEF written
    <3>. QED BY <2>2, <2>3, <3>1 DEF TypeOK, written
  <2>. QED BY <1>2, <2>4, <2>5, <2>6, <2>7, <2>8 DEF TypeOK, BeginExchange
<1>3. CASE Release(r)
  <2>1. pos[r] < MaxOps
    BY <1>3 DEF Release
  <2>2. PICK op \in Releasers :
          /\ NextOp(r, op)
          /\ \/ /\ alive' = [alive EXCEPT ![r][op.array] = FALSE]
                /\ UNCHANGED <<pc, waits>>
             \/ /\ pc' = [pc EXCEPT ![r] = "destroying"]
                /\ waits' = [waits EXCEPT ![r] = {SyncOf[op.array]}]
                /\ UNCHANGED alive
    BY <1>3 DEF Release
  <2>3. op \in Operations /\ op.array \in Arrays
    BY DEF Operations, Releasers
  <2>4. program' \in Seq(Operations) /\ Len(program') <= MaxOps
    BY <2>1, <2>2, <2>3, NextOpGrows
  <2>5. pos' \in [Ranks -> 0 .. MaxOps]
    BY <1>1, <1>3, <2>1 DEF TypeOK, Release
  <2>6. pc' \in [Ranks -> PcValues]
    BY <2>2 DEF TypeOK, PcValues
  <2>7. waits' \in [Ranks -> SUBSET Synchronizers]
    <3>1. waits \in [Ranks -> SUBSET Synchronizers]
      BY DEF TypeOK
    <3>2. {SyncOf[op.array]} \in SUBSET Synchronizers
      BY <2>3, ConstantsAssumption
    <3>3. CASE waits' = waits
      BY <3>1, <3>3
    <3>4. CASE waits' = [waits EXCEPT ![r] = {SyncOf[op.array]}]
      BY <3>1, <3>2, <3>4
    <3>. QED BY <2>2, <3>3, <3>4
  <2>8. alive' \in [Ranks -> [Arrays -> BOOLEAN]]
    <3>1. alive \in [Ranks -> [Arrays -> BOOLEAN]]
      BY DEF TypeOK
    <3>2. CASE alive' = alive
      BY <3>1, <3>2
    <3>3. CASE alive' = [alive EXCEPT ![r][op.array] = FALSE]
      BY <3>1, <3>3
    <3>. QED BY <2>2, <3>2, <3>3
  <2>. QED BY <1>3, <2>4, <2>5, <2>6, <2>7, <2>8 DEF TypeOK, Release
<1>. QED BY <1>2, <1>3

(* The actions of the thread that executes an exchange.                    *)
LEMMA TypeExchange ==
  ASSUME TypeOK, NEW r \in Ranks, NEW k \in Ops, Post(r, k) \/ Waitall(r, k)
  PROVE  TypeOK'
<1>1. CASE Post(r, k)
  <2> DEFINE side == stage[r][k]
             q == Peer(r, side)
  <2>1. side \in Sides /\ q \in Ranks
    BY <1>1, PeerType DEF Post
  <2>2. stage' \in [Ranks -> [Ops -> Stages]]
    <3>1. NextStage[side] \in Stages
      BY <2>1 DEF NextStage, Stages, Sides, RecvSides, SendSides
    <3>. QED BY <1>1, <3>1 DEF TypeOK, Post
  <2>3. requests' \in [Ranks -> [Ops -> SUBSET Sides]]
    <3>1. requests \in [Ranks -> [Ops -> SUBSET Sides]]
      BY DEF TypeOK
    <3>2. requests' = [requests EXCEPT ![r][k] = @ \union {side}]
      BY <1>1 DEF Post
    <3> HIDE DEF side
    <3>. QED BY <2>1, <3>1, <3>2
  <2>4. CASE side \in RecvSides
    <3> DEFINE rcv == [op |-> k, side |-> side]
    <3>1. recvs' = [recvs EXCEPT ![q][r] = Append(@, rcv)] /\ sends' = sends
      BY <1>1, <2>4 DEF Post
    <3>2. rcv \in RecvRequests
      BY <2>4 DEF RecvRequests
    <3> HIDE DEF rcv, q
    <3>3. Append(recvs[q][r], rcv) \in Seq(RecvRequests)
      BY <2>1, <3>2 DEF TypeOK
    <3>4. recvs' \in [Ranks -> [Ranks -> Seq(RecvRequests)]]
      BY <2>1, <3>1, <3>3 DEF TypeOK
    <3>. QED BY <1>1, <2>2, <2>3, <3>1, <3>4 DEF TypeOK, Post
  <2>5. CASE side \notin RecvSides
    <3> DEFINE snd == [op |-> k, side |-> side, data |-> NoData]
    <3>1. sends' = [sends EXCEPT ![r][q] = Append(@, snd)] /\ recvs' = recvs
      BY <1>1, <2>5 DEF Post
    <3>2. snd \in SendRequests
      BY <2>1, <2>5 DEF SendRequests, Sides
    <3> HIDE DEF snd, q
    <3>3. Append(sends[r][q], snd) \in Seq(SendRequests)
      BY <2>1, <3>2 DEF TypeOK
    <3>4. sends' \in [Ranks -> [Ranks -> Seq(SendRequests)]]
      BY <2>1, <3>1, <3>3 DEF TypeOK
    <3>. QED BY <1>1, <2>2, <2>3, <3>1, <3>4 DEF TypeOK, Post
  <2>. QED BY <2>4, <2>5
<1>2. CASE Waitall(r, k)
  <2>1. stage' \in [Ranks -> [Ops -> Stages]]
    BY <1>2 DEF TypeOK, Waitall, Stages
  <2>. QED BY <1>2, <2>1 DEF TypeOK, Waitall
<1>. QED BY <1>1, <1>2

(* Completing a request leaves a set of requests of each operation.        *)
LEMMA CompleteType ==
  ASSUME NEW f \in [Ranks -> [Ops -> SUBSET Sides]], NEW r, NEW k, NEW side
  PROVE  [f EXCEPT ![r][k] = @ \ {side}] \in [Ranks -> [Ops -> SUBSET Sides]]
<1>1. \A x \in Ranks, y \in Ops : f[x][y] \in SUBSET Sides
  OBVIOUS
<1>2. \A x \in Ranks, y \in Ops :
        [f EXCEPT ![r][k] = @ \ {side}][x][y] \in SUBSET Sides
  BY <1>1
<1>. QED BY <1>2

(* The steps of the MPI library.                                           *)
LEMMA TypeMPI ==
  ASSUME TypeOK, PositionsOK, NEW p \in Ranks, NEW q \in Ranks, MPIStep(p, q)
  PROVE  TypeOK'
<1>1. CASE Buffer(p, q)
  <2>1. PICK i \in (matched[p][q] + 1) .. Len(sends[p][q]) :
          /\ sends' = [sends EXCEPT ![p][q][i].data = Payload(p, sends[p][q][i])]
          /\ requests' = [requests EXCEPT
               ![p][sends[p][q][i].op] = @ \ {sends[p][q][i].side}]
    BY <1>1 DEF Buffer
  <2> DEFINE d == Payload(p, sends[p][q][i])
             m == sends[p][q][i]
  <2>2. i \in 1 .. Len(sends[p][q])
    BY SMTT(30), <2>1 DEF TypeOK
  <2>3. d \in Payloads
    BY <2>2, PayloadType
  <2>4. m \in SendRequests /\ sends[p][q] \in Seq(SendRequests)
    BY SMTT(30), <2>2 DEF TypeOK
  <2>5. requests' \in [Ranks -> [Ops -> SUBSET Sides]]
    BY <2>1, CompleteType DEF TypeOK
  <2> DEFINE m1 == [m EXCEPT !.data = d]
  <2>6. m1 \in SendRequests
    BY <2>3, <2>4 DEF SendRequests
  <2>7. sends' = [sends EXCEPT ![p][q] = [sends[p][q] EXCEPT ![i] = m1]]
    BY <2>1
  <2> HIDE DEF m1, d, m
  <2>8. [sends[p][q] EXCEPT ![i] = m1] \in Seq(SendRequests)
    BY <2>2, <2>4, <2>6
  <2>9. sends' \in [Ranks -> [Ranks -> Seq(SendRequests)]]
    <3>1. sends \in [Ranks -> [Ranks -> Seq(SendRequests)]]
      BY DEF TypeOK
    <3>. QED BY <2>7, <2>8, <3>1
  <2>. QED BY <1>1, <2>5, <2>9 DEF TypeOK, Buffer
<1>2. CASE Match(p, q)
  <2> DEFINE i == matched[p][q] + 1
             snd == sends[p][q][i]
             rcv == recvs[p][q][i]
             a == ArrayOf(rcv.op)
             d == Payload(p, snd)
  <2>1. i \in 1 .. Len(sends[p][q]) /\ i \in 1 .. Len(recvs[p][q])
    <3>1. matched[p][q] \in Nat
      BY DEF TypeOK
    <3>2. i <= Len(sends[p][q]) /\ i <= Len(recvs[p][q])
      BY <1>2 DEF Match
    <3>3. /\ sends[p][q] \in Seq(SendRequests)
          /\ recvs[p][q] \in Seq(RecvRequests)
      BY DEF TypeOK
    <3>4. Len(sends[p][q]) \in Nat /\ Len(recvs[p][q]) \in Nat
      BY <3>3
    <3>. QED BY <3>1, <3>2, <3>4
  <2>2. d \in Payloads
    BY <2>1, PayloadType
  <2>3. sends[p][q] \in Seq(SendRequests) /\ snd \in SendRequests
    BY SMTT(30), <2>1 DEF TypeOK
  <2>4. rcv.side \in Sides
    <3>1. recvs[p][q] \in Seq(RecvRequests)
      BY DEF TypeOK
    <3>2. rcv \in RecvRequests
      BY <2>1, <3>1
    <3>. QED BY <3>2 DEF RecvRequests, Sides
  <2> DEFINE arrived == Received(q, a, FirstCell(q, rcv.side), d)
  <2>5. a \in Arrays => arrived \in [Cells(q) -> Values]
    BY <2>2, <2>4, ReceivedType
  <2>6. mem' = [mem EXCEPT ![q][a] = arrived]
    BY <1>2 DEF Match
  <2> DEFINE complete == {<<p, snd.op, snd.side>>, <<q, rcv.op, rcv.side>>}
  <2>7. requests' = [r \in Ranks |-> [k \in Ops |->
          {s \in requests[r][k] : <<r, k, s>> \notin complete}]]
    BY <1>2 DEF Match
  <2> HIDE DEF complete
  <2>8. sends' = [sends EXCEPT ![p][q] =
                    [sends[p][q] EXCEPT ![i] = [snd EXCEPT !.data = NoData]]]
    BY <1>2 DEF Match
  <2>9. [snd EXCEPT !.data = NoData] \in SendRequests
    BY <2>3 DEF SendRequests
  <2>10. matched' \in [Ranks -> [Ranks -> Nat]]
    <3>1. matched' = [matched EXCEPT ![p][q] = i]
      BY <1>2 DEF Match
    <3>2. matched \in [Ranks -> [Ranks -> Nat]]
      BY DEF TypeOK
    <3>3. i \in Nat
      BY <3>2
    <3> HIDE DEF i
    <3>. QED BY <3>1, <3>2, <3>3
  <2>11. requests' \in [Ranks -> [Ops -> SUBSET Sides]]
    <3>1. requests \in [Ranks -> [Ops -> SUBSET Sides]]
      BY DEF TypeOK
    <3>2. \A r \in Ranks, k \in Ops :
            requests[r][k] \in SUBSET Sides /\ requests'[r][k] \subseteq requests[r][k]
      BY <2>7, <3>1
    <3>. QED BY <2>7, <3>2
  <2>12. /\ DOMAIN mem' = Ranks
         /\ \A r \in Ranks : mem'[r] \in [Arrays -> [Cells(r) -> Values]]
    <3>1. /\ DOMAIN mem = Ranks
          /\ \A r \in Ranks : mem[r] \in [Arrays -> [Cells(r) -> Values]]
      BY DEF TypeOK
    <3> HIDE DEF arrived, a
    <3>. QED BY <2>5, <2>6, <3>1
  <2>13. sends' \in [Ranks -> [Ranks -> Seq(SendRequests)]]
    <3> DEFINE m1 == [snd EXCEPT !.data = NoData]
    <3> HIDE DEF m1, i
    <3>1. [sends[p][q] EXCEPT ![i] = m1] \in Seq(SendRequests)
      BY <2>1, <2>3, <2>9 DEF m1
    <3>2. sends \in [Ranks -> [Ranks -> Seq(SendRequests)]]
      BY DEF TypeOK
    <3>. QED BY <2>8, <3>1, <3>2 DEF m1
  <2>. QED BY <1>2, <2>10, <2>11, <2>12, <2>13 DEF TypeOK, Match
<1>. QED BY <1>1, <1>2 DEF MPIStep

(* Every step preserves the types.                                         *)
LEMMA TypeNext == TypeOK /\ PositionsOK /\ [Next]_vars => TypeOK'
<1> SUFFICES ASSUME TypeOK, PositionsOK, [Next]_vars PROVE TypeOK'
  OBVIOUS
<1>1. ASSUME NEW r \in Ranks, MainStep(r) PROVE TypeOK'
  BY <1>1, TypeBegin, TypeMain DEF MainStep
<1>2. ASSUME NEW r \in Ranks, NEW k \in Ops, Post(r, k) \/ Waitall(r, k)
      PROVE  TypeOK'
  BY <1>2, TypeExchange
<1>3. ASSUME NEW p \in Ranks, NEW q \in Ranks, MPIStep(p, q) PROVE TypeOK'
  BY <1>3, TypeMPI
<1>4. CASE UNCHANGED vars
  BY <1>4 DEF TypeOK, vars
<1>. QED BY <1>1, <1>2, <1>3, <1>4 DEF Next, Terminated

-----------------------------------------------------------------------------
(* Positions.                                                              *)

(* What the actions that begin an operation do to the positions.           *)
LEMMA BeginAdvances ==
  ASSUME TypeOK, PositionsOK, NEW r \in Ranks, BeginExchange(r) \/ Release(r)
  PROVE  /\ Len(program') \in Nat /\ Len(program) <= Len(program')
         /\ pos[r] + 1 \in Ops /\ pos[r] + 1 <= Len(program')
         /\ pos' = [pos EXCEPT ![r] = @ + 1]
         /\ \A k \in 1 .. Len(program) : program'[k] = program[k]
         /\ pc[r] = "idle"
         /\ pc' = pc \/ \E v \in {"starting", "destroying"} :
                           pc' = [pc EXCEPT ![r] = v]
         /\ UNCHANGED <<async_op, stage, requests, sends, recvs, matched>>
<1>1. pos[r] < MaxOps /\ pos[r] \in Nat
  BY DEF BeginExchange, Release, TypeOK
<1>2. PICK op \in Operations : NextOp(r, op)
  BY DEF BeginExchange, Release, Operations
<1>3. /\ program' \in Seq(Operations)
      /\ Len(program) <= Len(program')
      /\ pos[r] + 1 <= Len(program')
      /\ \A k \in 1 .. Len(program) : program'[k] = program[k]
  BY <1>1, <1>2, NextOpGrows
<1>4. Len(program') \in Nat
  BY <1>3
<1>5. pos[r] + 1 \in Ops
  BY <1>1, ConstantsAssumption DEF Ops
<1>6. /\ pos' = [pos EXCEPT ![r] = @ + 1]
      /\ pc[r] = "idle"
      /\ pc' = pc \/ \E v \in {"starting", "destroying"} :
                        pc' = [pc EXCEPT ![r] = v]
      /\ UNCHANGED <<async_op, stage, requests, sends, recvs, matched>>
  BY DEF BeginExchange, Release
<1>. QED BY <1>3, <1>4, <1>5, <1>6

(* Initially no rank, exchange or message is ahead.                        *)
LEMMA PositionsInit == Init => PositionsOK
BY ConstantsAssumption DEF Init, PositionsOK

(* Every step keeps them behind the program and the ranks.                 *)
LEMMA PositionsNext == TypeOK /\ PositionsOK /\ [Next]_vars => PositionsOK'
<1> SUFFICES ASSUME TypeOK, PositionsOK, [Next]_vars PROVE PositionsOK'
  OBVIOUS
<1>1. /\ Len(program) \in Nat
      /\ \A r \in Ranks : pos[r] \in Nat /\ pos[r] <= Len(program)
      /\ \A p, q \in Ranks :
           /\ sends[p][q] \in Seq(SendRequests)
           /\ recvs[p][q] \in Seq(RecvRequests)
  BY DEF TypeOK, PositionsOK
<1>2. ASSUME NEW r \in Ranks, BeginExchange(r) \/ Release(r)
      PROVE  PositionsOK'
  <2>0. /\ Len(program') \in Nat /\ Len(program) <= Len(program')
        /\ pos[r] + 1 \in Ops /\ pos[r] + 1 <= Len(program')
        /\ pos' = [pos EXCEPT ![r] = @ + 1]
        /\ pc' = pc \/ \E v \in {"starting", "destroying"} :
                          pc' = [pc EXCEPT ![r] = v]
        /\ pc[r] = "idle"
        /\ stage' = stage
        /\ pos \in [Ranks -> 0 .. MaxOps] /\ pc \in [Ranks -> PcValues]
    BY <1>2, BeginAdvances DEF TypeOK
  <2>1. /\ pos'[r] = pos[r] + 1
        /\ \A q \in Ranks : q # r => pos'[q] = pos[q]
        /\ \A q \in Ranks : pos[q] <= pos'[q] /\ pos'[q] \in Nat
        /\ \A q \in Ranks : pos'[q] <= Len(program')
    BY <1>1, <2>0
  <2>2. \A q \in Ranks :
          pc'[q] \in {"starting", "communicating", "destroying"} => pos'[q] >= 1
    <3>1. \A q \in Ranks : q # r => pc'[q] = pc[q]
      BY <2>0
    <3>. QED BY <1>1, <2>1, <3>1 DEF PositionsOK
  <2>3. \A q \in Ranks, k \in Ops : stage'[q][k] # "none" => k <= pos'[q]
    <3>1. \A k \in Ops : k \in Nat
      BY DEF Ops
    <3>. QED BY <1>1, <2>0, <2>1, <3>1 DEF PositionsOK
  <2>4. \A q \in Ranks : pc'[q] = "starting" => stage'[q][pos'[q]] = "none"
    <3>1. stage[r][pos[r] + 1] = "none"
      BY <1>1, <2>0 DEF PositionsOK
    <3>2. \A q \in Ranks : q # r => pc'[q] = pc[q]
      BY <2>0
    <3>. QED BY <2>0, <2>1, <3>1, <3>2 DEF PositionsOK
  <2>5. \A p, q \in Ranks :
          /\ \A i \in 1 .. Len(sends'[p][q]) : sends'[p][q][i].op <= pos'[p]
          /\ \A i \in 1 .. Len(recvs'[p][q]) : recvs'[p][q][i].op <= pos'[q]
    <3>1. /\ sends' = sends
          /\ recvs' = recvs
      BY <1>2, BeginAdvances
    <3>2. ASSUME NEW p \in Ranks, NEW q \in Ranks,
                 NEW i \in 1 .. Len(sends[p][q])
          PROVE  sends[p][q][i].op <= pos'[p]
      <4>1. sends[p][q][i].op \in Nat
        <5>1. sends[p][q][i] \in SendRequests
          BY <1>1
        <5>. QED BY <5>1 DEF SendRequests, Ops
      <4>2. \A l \in 1 .. Len(sends[p][q]) : sends[p][q][l].op <= pos[p]
        BY DEF PositionsOK
      <4>3. pos[p] \in Nat /\ pos'[p] \in Nat /\ pos[p] <= pos'[p]
        BY <1>1, <2>1
      <4>. QED BY <4>1, <4>2, <4>3
    <3>3. ASSUME NEW p \in Ranks, NEW q \in Ranks,
                 NEW i \in 1 .. Len(recvs[p][q])
          PROVE  recvs[p][q][i].op <= pos'[q]
      <4>1. recvs[p][q][i].op \in Nat
        <5>1. recvs[p][q][i] \in RecvRequests
          BY <1>1
        <5>. QED BY <5>1 DEF RecvRequests, Ops
      <4>2. \A l \in 1 .. Len(recvs[p][q]) : recvs[p][q][l].op <= pos[q]
        BY DEF PositionsOK
      <4>3. pos[q] \in Nat /\ pos'[q] \in Nat /\ pos[q] <= pos'[q]
        BY <1>1, <2>1
      <4>. QED BY <4>1, <4>2, <4>3
    <3>. QED BY <3>1, <3>2, <3>3
  <2>. QED BY <2>1, <2>2, <2>3, <2>4, <2>5 DEF PositionsOK
<1>3. ASSUME NEW r \in Ranks, StartExchange(r) PROVE PositionsOK'
  <2>1. /\ pc[r] = "starting" /\ pos[r] >= 1
        /\ \E v \in {"idle", "communicating"} : pc' = [pc EXCEPT ![r] = v]
        /\ stage' = [stage EXCEPT ![r][pos[r]] = "recvLeft"]
        /\ UNCHANGED <<program, pos, sends, recvs>>
    BY <1>3 DEF StartExchange, PositionsOK
  <2>2. stage \in [Ranks -> [Ops -> Stages]] /\ pc \in [Ranks -> PcValues]
    BY DEF TypeOK
  <2>3. /\ \A q \in Ranks : q # r => stage'[q] = stage[q] /\ pc'[q] = pc[q]
        /\ \A k \in Ops : k # pos[r] => stage'[r][k] = stage[r][k]
        /\ pc'[r] # "starting" /\ pc'[r] # "destroying"
    BY <2>1, <2>2
  <2>4. ASSUME NEW q \in Ranks, NEW k \in Ops, stage'[q][k] # "none"
        PROVE  k <= pos[q]
    <3>1. CASE q = r /\ k = pos[r]
      BY <1>1, <3>1
    <3>2. CASE ~(q = r /\ k = pos[r])
      BY <2>3, <2>4, <3>2 DEF PositionsOK
    <3>. QED BY <3>1, <3>2
  <2>5. \A q \in Ranks : pc'[q] = "starting" => stage'[q][pos[q]] = "none"
    BY <2>3 DEF PositionsOK
  <2>6. \A q \in Ranks :
          pc'[q] \in {"starting", "communicating", "destroying"} => pos[q] >= 1
    BY <2>1, <2>3 DEF PositionsOK
  <2>. QED BY <2>1, <2>4, <2>5, <2>6 DEF PositionsOK
<1>4. ASSUME NEW r \in Ranks, FinishCall(r) PROVE PositionsOK'
  BY <1>4 DEF FinishCall, PositionsOK, TypeOK
<1>5. ASSUME NEW r \in Ranks, NEW s \in Synchronizers,
             WaitForSynchronization(r, s)
      PROVE  PositionsOK'
  BY <1>5 DEF WaitForSynchronization, PositionsOK, TypeOK
<1>6. ASSUME NEW r \in Ranks, FinishWait(r) PROVE PositionsOK'
  BY <1>6 DEF FinishWait, PositionsOK, TypeOK
<1>7. ASSUME NEW r \in Ranks, FinishDestructor(r) PROVE PositionsOK'
  BY <1>7 DEF FinishDestructor, PositionsOK, TypeOK
<1>8. ASSUME NEW r \in Ranks, NEW k \in Ops, Post(r, k) PROVE PositionsOK'
  <2> DEFINE side == stage[r][k]
             q == Peer(r, side)
  <2>1. /\ side \in Sides /\ side # "none" /\ q \in Ranks /\ k \in Nat
        /\ stage' = [stage EXCEPT ![r][k] = NextStage[side]]
        /\ UNCHANGED <<program, pos, pc>>
    BY <1>8, PeerType DEF Post, Sides, RecvSides, SendSides, Ops
  <2>2. k <= pos[r]
    BY <2>1 DEF PositionsOK
  <2>0. stage \in [Ranks -> [Ops -> Stages]]
    BY DEF TypeOK
  <2>3. \A p \in Ranks, j \in Ops : stage'[p][j] # "none" => j <= pos[p]
    BY <2>0, <2>1, <2>2 DEF PositionsOK
  <2>4. \A p \in Ranks : pc[p] = "starting" => stage'[p][pos[p]] = "none"
    BY <2>0, <2>1 DEF PositionsOK
  <2>5. CASE side \in RecvSides
    <3> DEFINE rcv == [op |-> k, side |-> side]
    <3>1. recvs' = [recvs EXCEPT ![q][r] = Append(@, rcv)] /\ sends' = sends
      BY <1>8, <2>5 DEF Post
    <3>2. rcv.op = k /\ rcv \in RecvRequests
      BY <2>5 DEF RecvRequests
    <3> HIDE DEF rcv, q
    <3>3. ASSUME NEW x \in Ranks, NEW y \in Ranks,
                 NEW i \in 1 .. Len(recvs'[x][y])
          PROVE  recvs'[x][y][i].op <= pos[y]
      <4>1. CASE x = q /\ y = r
        <5>1. recvs'[x][y] = Append(recvs[x][y], rcv)
          BY <2>1, <3>1, <4>1 DEF TypeOK
        <5>2. /\ i \in 1 .. Len(recvs[x][y]) + 1
              /\ recvs'[x][y][i] = IF i = Len(recvs[x][y]) + 1 THEN rcv
                                    ELSE recvs[x][y][i]
          BY <1>1, <3>2, <5>1
        <5>3. \A l \in 1 .. Len(recvs[x][y]) : recvs[x][y][l].op <= pos[y]
          BY DEF PositionsOK
        <5>4. Len(recvs[x][y]) \in Nat
          BY <1>1
        <5>. QED BY <2>2, <3>2, <4>1, <5>2, <5>3, <5>4
      <4>2. CASE ~(x = q /\ y = r)
        <5>1. recvs'[x][y] = recvs[x][y]
          BY <3>1, <4>2 DEF TypeOK
        <5>. QED BY <5>1 DEF PositionsOK
      <4>. QED BY <4>1, <4>2
    <3>. QED BY <2>1, <2>3, <2>4, <3>1, <3>3 DEF PositionsOK
  <2>6. CASE side \notin RecvSides
    <3> DEFINE snd == [op |-> k, side |-> side, data |-> NoData]
    <3>1. sends' = [sends EXCEPT ![r][q] = Append(@, snd)] /\ recvs' = recvs
      BY <1>8, <2>6 DEF Post
    <3>2. snd.op = k /\ snd \in SendRequests
      BY <2>1, <2>6 DEF SendRequests, Sides
    <3> HIDE DEF snd, q
    <3>3. ASSUME NEW x \in Ranks, NEW y \in Ranks,
                 NEW i \in 1 .. Len(sends'[x][y])
          PROVE  sends'[x][y][i].op <= pos[x]
      <4>1. CASE x = r /\ y = q
        <5>1. sends'[x][y] = Append(sends[x][y], snd)
          BY <2>1, <3>1, <4>1 DEF TypeOK
        <5>2. /\ i \in 1 .. Len(sends[x][y]) + 1
              /\ sends'[x][y][i] = IF i = Len(sends[x][y]) + 1 THEN snd
                                    ELSE sends[x][y][i]
          BY <1>1, <3>2, <5>1
        <5>3. CASE i = Len(sends[x][y]) + 1
          BY <2>2, <3>2, <4>1, <5>2, <5>3
        <5>4. CASE i # Len(sends[x][y]) + 1
          <6>1. i \in 1 .. Len(sends[x][y]) /\ sends'[x][y][i] = sends[x][y][i]
            BY <1>1, <5>2, <5>4
          <6>. QED BY <6>1 DEF PositionsOK
        <5>. QED BY <5>3, <5>4
      <4>2. CASE ~(x = r /\ y = q)
        <5>1. sends'[x][y] = sends[x][y]
          BY <3>1, <4>2 DEF TypeOK
        <5>. QED BY <5>1 DEF PositionsOK
      <4>. QED BY <4>1, <4>2
    <3>. QED BY <2>1, <2>3, <2>4, <3>1, <3>3 DEF PositionsOK
  <2>. QED BY <2>5, <2>6
<1>9. ASSUME NEW r \in Ranks, NEW k \in Ops, Waitall(r, k)
      PROVE  PositionsOK'
  <2>1. /\ stage[r][k] # "none"
        /\ stage' = [stage EXCEPT ![r][k] = "done"]
        /\ UNCHANGED <<program, pos, pc, sends, recvs>>
    BY <1>9 DEF Waitall
  <2>2. \A p \in Ranks, j \in Ops : stage'[p][j] # "none" => j <= pos[p]
    BY <2>1 DEF PositionsOK, TypeOK
  <2>3. \A p \in Ranks : pc[p] = "starting" => stage'[p][pos[p]] = "none"
    BY <2>1 DEF PositionsOK, TypeOK
  <2>. QED BY <2>1, <2>2, <2>3 DEF PositionsOK
<1>10. ASSUME NEW p \in Ranks, NEW q \in Ranks, MPIStep(p, q)
       PROVE  PositionsOK'
  <2>1. PICK i \in 1 .. Len(sends[p][q]), d \in Payloads \union {NoData} :
          sends' = [sends EXCEPT ![p][q] =
                     [sends[p][q] EXCEPT ![i] = [sends[p][q][i] EXCEPT !.data = d]]]
    <3>1. CASE Buffer(p, q)
      <4>1. PICK i \in (matched[p][q] + 1) .. Len(sends[p][q]) :
              sends' = [sends EXCEPT ![p][q][i].data = Payload(p, sends[p][q][i])]
        BY <3>1 DEF Buffer
      <4>2. i \in 1 .. Len(sends[p][q])
        <5>1. matched[p][q] \in Nat /\ Len(sends[p][q]) \in Nat
          BY <1>1 DEF TypeOK
        <5>. QED BY <4>1, <5>1
      <4>. QED BY <4>1, <4>2, PayloadType
    <3>2. CASE Match(p, q)
      <4>1. /\ matched[p][q] + 1 <= Len(sends[p][q])
            /\ sends' = [sends EXCEPT ![p][q][matched[p][q] + 1].data = NoData]
        BY <3>2 DEF Match
      <4>2. matched[p][q] + 1 \in 1 .. Len(sends[p][q])
        BY SMTT(30), <1>1, <4>1 DEF TypeOK
      <4>. QED BY <4>1, <4>2
    <3>. QED BY <1>10, <3>1, <3>2 DEF MPIStep
  <2>2. UNCHANGED <<program, pos, pc, stage, recvs>>
    BY <1>10 DEF MPIStep, Buffer, Match
  <2> DEFINE m1 == [sends[p][q][i] EXCEPT !.data = d]
  <2>3. m1.op = sends[p][q][i].op
    BY <1>1 DEF SendRequests
  <2> HIDE DEF m1
  <2>4. ASSUME NEW x \in Ranks, NEW y \in Ranks,
               NEW j \in 1 .. Len(sends'[x][y])
        PROVE  sends'[x][y][j].op <= pos[x]
    <3>1. CASE x = p /\ y = q
      <4>1. sends'[x][y] = [sends[p][q] EXCEPT ![i] = m1]
        BY <2>1, <3>1 DEF TypeOK, m1
      <4>2. j \in 1 .. Len(sends[p][q]) /\ sends'[x][y][j].op = sends[p][q][j].op
        BY <1>1, <2>3, <4>1
      <4>. QED BY <3>1, <4>2 DEF PositionsOK
    <3>2. CASE ~(x = p /\ y = q)
      <4>1. sends'[x][y] = sends[x][y]
        BY <2>1, <3>2 DEF TypeOK
      <4>. QED BY <4>1 DEF PositionsOK
    <3>. QED BY <3>1, <3>2
  <2>. QED BY <2>2, <2>4 DEF PositionsOK
<1>11. CASE UNCHANGED vars
  BY <1>11 DEF PositionsOK, vars
<1>. QED BY <1>2, <1>3, <1>4, <1>5, <1>6, <1>7, <1>8, <1>9, <1>10, <1>11
         DEF Next, MainStep, Terminated

-----------------------------------------------------------------------------
(* Futures and active exchanges.                                           *)

(* An operation that a rank has begun is one of the program.               *)
LEMMA BegunOperation ==
  ASSUME TypeOK, PositionsOK, NEW r \in Ranks, NEW k \in Ops, k <= pos[r]
  PROVE  /\ k \in 1 .. Len(program)
         /\ ArrayOf(k) \in Arrays
         /\ SynchronizerOf(k) \in Synchronizers
<1>1. /\ pos[r] \in Nat /\ pos[r] <= Len(program) /\ Len(program) \in Nat
      /\ program \in Seq(Operations)
  BY DEF TypeOK, PositionsOK
<1>2. k \in 1 .. Len(program)
  BY <1>1 DEF Ops
<1>3. program[k] \in Operations
  BY <1>1, <1>2
<1>4. ArrayOf(k) \in Arrays
  BY <1>3 DEF ArrayOf, Operations, Writers, Starters, Releasers
<1>. QED BY <1>2, <1>4, ConstantsAssumption DEF SynchronizerOf

(* It keeps its synchronizer while the program grows.                      *)
LEMMA OperationsStable ==
  ASSUME TypeOK, PositionsOK,
         \A k \in 1 .. Len(program) : program'[k] = program[k],
         NEW r \in Ranks, NEW k \in Ops, k <= pos[r]
  PROVE  /\ ArrayOf(k)' = ArrayOf(k)
         /\ SynchronizerOf(k)' = SynchronizerOf(k)
<1>1. program'[k] = program[k]
  BY BegunOperation
<1>. QED BY <1>1 DEF ArrayOf, SynchronizerOf

(* The same for the operation that a busy main thread executes.            *)
LEMMA CurrentOperation ==
  ASSUME TypeOK, PositionsOK, NEW r \in Ranks,
         pc[r] \in {"starting", "communicating", "destroying"}
  PROVE  /\ pos[r] \in Ops
         /\ pos[r] \in 1 .. Len(program)
         /\ ArrayOf(pos[r]) \in Arrays
         /\ SynchronizerOf(pos[r]) \in Synchronizers
<1>1. /\ pos[r] \in 0 .. MaxOps /\ pos[r] <= Len(program) /\ pos[r] >= 1
      /\ program \in Seq(Operations) /\ Len(program) \in Nat /\ MaxOps \in Nat
  BY ConstantsAssumption DEF TypeOK, PositionsOK
<1>2. pos[r] \in Ops /\ pos[r] \in 1 .. Len(program)
  BY <1>1 DEF Ops
<1>3. program[pos[r]] \in Operations
  BY <1>1, <1>2
<1>4. ArrayOf(pos[r]) \in Arrays
  BY <1>3 DEF ArrayOf, Operations, Writers, Starters, Releasers
<1>. QED BY <1>2, <1>4, ConstantsAssumption DEF SynchronizerOf

(* An active exchange is one its rank has begun.                           *)
LEMMA ActiveBegun ==
  ASSUME PositionsOK, NEW r \in Ranks, NEW k \in Ops, Active(r, k)
  PROVE  k <= pos[r]
BY DEF PositionsOK, Active

(* Initially there is no exchange.                                         *)
LEMMA FuturesInit == Init => FuturesOK
BY DEF Init, FuturesOK, Active

(* ... also when exchanges become inactive and the program threads stay.   *)
LEMMA FuturesKept ==
  ASSUME FuturesOK, UNCHANGED <<program, pos, pc, async_op>>,
         \A q \in Ranks, j \in Ops : Active(q, j)' => Active(q, j),
         \A q \in Ranks : \A j : stage[q][j] = "done" => stage'[q][j] = "done"
  PROVE  FuturesOK'
<1>1. ASSUME NEW q \in Ranks, NEW j \in Ops, Active(q, j)'
      PROVE  \/ async_op'[q][SynchronizerOf(j)'] = j
             \/ pc'[q] = "communicating" /\ j = pos'[q]
  <2>1. Active(q, j) /\ SynchronizerOf(j)' = SynchronizerOf(j)
    BY <1>1 DEF SynchronizerOf, ArrayOf
  <2>. QED BY <2>1 DEF FuturesOK
<1>2. ASSUME NEW q \in Ranks, pc'[q] = "communicating"
      PROVE  Ready(q, SynchronizerOf(pos[q]))'
  <2>1. Ready(q, SynchronizerOf(pos[q]))
    BY <1>2 DEF FuturesOK
  <2>2. SynchronizerOf(pos[q])' = SynchronizerOf(pos[q])
    BY DEF SynchronizerOf, ArrayOf
  <2>. QED BY <2>1, <2>2 DEF Ready
<1>. QED BY <1>1, <1>2 DEF FuturesOK

(* Every step keeps active exchanges where the invariant says they are.    *)
LEMMA FuturesNext == IndInv /\ [Next]_vars => FuturesOK'
<1> SUFFICES ASSUME TypeOK, PositionsOK, FuturesOK, [Next]_vars
             PROVE  FuturesOK'
  BY DEF IndInv
<1> USE DEF SynchronizerOf, ArrayOf
<1>0. /\ pc \in [Ranks -> PcValues] /\ pos \in [Ranks -> 0 .. MaxOps]
      /\ stage \in [Ranks -> [Ops -> Stages]]
      /\ async_op \in [Ranks -> [Synchronizers -> 0 .. MaxOps]]
  BY DEF TypeOK
<1>1. ASSUME NEW r \in Ranks, BeginExchange(r) \/ Release(r)
      PROVE  FuturesOK'
  <2>1. /\ \A k \in 1 .. Len(program) : program'[k] = program[k]
        /\ pos' = [pos EXCEPT ![r] = @ + 1]
        /\ pc[r] = "idle"
        /\ pc' = pc \/ \E v \in {"starting", "destroying"} :
                          pc' = [pc EXCEPT ![r] = v]
        /\ stage' = stage /\ async_op' = async_op
    BY <1>1, BeginAdvances
  <2>2. \A q \in Ranks : q # r => pos'[q] = pos[q] /\ pc'[q] = pc[q]
    BY <1>0, <2>1
  <2>3. ASSUME NEW q \in Ranks, NEW k \in Ops, Active(q, k)'
        PROVE  \/ async_op'[q][SynchronizerOf(k)'] = k
               \/ pc'[q] = "communicating" /\ k = pos'[q]
    <3>1. Active(q, k)
      BY <2>1, <2>3 DEF Active
    <3>2. SynchronizerOf(k)' = SynchronizerOf(k)
      BY <2>1, <3>1, ActiveBegun, OperationsStable
    <3>. QED BY <2>1, <2>2, <3>1, <3>2 DEF FuturesOK
  <2>4. ASSUME NEW q \in Ranks, pc'[q] = "communicating"
        PROVE  Ready(q, SynchronizerOf(pos[q]))' /\ pos'[q] = pos[q]
    <3>1. q # r
      BY <1>0, <2>1, <2>4
    <3>2. pc[q] = "communicating" /\ pos'[q] = pos[q]
      BY <2>2, <2>4, <3>1
    <3>3. Ready(q, SynchronizerOf(pos[q]))
      BY <3>2 DEF FuturesOK
    <3>4. SynchronizerOf(pos[q])' = SynchronizerOf(pos[q])
      BY <2>1, <3>2, CurrentOperation
    <3>. QED BY <2>1, <3>2, <3>3, <3>4 DEF Ready
  <2>. QED BY <2>3, <2>4 DEF FuturesOK
<1>2. ASSUME NEW r \in Ranks, StartExchange(r) PROVE FuturesOK'
  <2> DEFINE k == pos[r]
             s == SynchronizerOf(k)
  <2>1. /\ pc[r] = "starting" /\ Ready(r, s)
        /\ stage' = [stage EXCEPT ![r][k] = "recvLeft"]
        /\ \/ /\ async_op' = [async_op EXCEPT ![r][s] = k]
              /\ pc' = [pc EXCEPT ![r] = "idle"]
           \/ /\ pc' = [pc EXCEPT ![r] = "communicating"]
              /\ async_op' = async_op
        /\ program' = program /\ pos' = pos
    BY <1>2 DEF StartExchange
  <2>2. k \in Ops /\ s \in Synchronizers /\ stage[r][k] = "none"
    BY <2>1, CurrentOperation DEF PositionsOK
  <2> HIDE DEF k, s
  <2>3. async_op[r][s] # k
    BY <2>1, <2>2 DEF Ready, Ops
  <2>4. ASSUME NEW j \in Ops, j # k, Active(r, j)
        PROVE  async_op'[r][SynchronizerOf(j)] = j
    <3>1. async_op[r][SynchronizerOf(j)] = j
      BY <2>1, <2>4 DEF FuturesOK
    <3>2. SynchronizerOf(j) # s
      BY <2>1, <2>4, <3>1 DEF Ready, Active, Ops
    <3>3. SynchronizerOf(j) \in Synchronizers
      BY <2>4, ActiveBegun, BegunOperation
    <3>. QED BY <1>0, <2>1, <3>1, <3>2, <3>3
  <2>5. ASSUME NEW q \in Ranks, NEW j \in Ops, Active(q, j)'
        PROVE  \/ async_op'[q][SynchronizerOf(j)'] = j
               \/ pc'[q] = "communicating" /\ j = pos'[q]
    <3>1. CASE q = r /\ j = k
      BY <1>0, <2>1, <2>2, <3>1 DEF k, s
    <3>2. CASE q = r /\ j # k
      BY <1>0, <2>1, <2>4, <2>5, <3>2 DEF Active
    <3>3. CASE q # r
      BY <1>0, <2>1, <2>5, <3>3 DEF Active, FuturesOK
    <3>. QED BY <3>1, <3>2, <3>3
  <2>6. ASSUME NEW q \in Ranks, pc'[q] = "communicating"
        PROVE  Ready(q, SynchronizerOf(pos[q]))'
    <3>1. CASE q = r
      <4>1. async_op' = async_op /\ SynchronizerOf(pos[r])' = s
        BY <1>0, <2>1, <2>6, <3>1 DEF k, s
      <4>2. \A j : j # k => stage'[r][j] = stage[r][j]
        BY <1>0, <2>1
      <4>3. async_op[r][s] # 0 => stage'[r][async_op[r][s]] = "done"
        BY <2>1, <2>3, <4>2 DEF Ready
      <4>4. async_op'[r][s] # 0 => stage'[r][async_op'[r][s]] = "done"
        BY <4>1, <4>3
      <4>5. Ready(r, SynchronizerOf(pos[r]))'
        BY <4>1, <4>4 DEF Ready
      <4>. QED BY <3>1, <4>5
    <3>2. CASE q # r
      <4>1. stage'[q] = stage[q] /\ async_op'[q] = async_op[q] /\ pc'[q] = pc[q]
        BY <1>0, <2>1, <3>2
      <4>2. Ready(q, SynchronizerOf(pos[q]))
        BY <2>6, <4>1 DEF FuturesOK
      <4>. QED BY <2>1, <4>1, <4>2 DEF Ready
    <3>. QED BY <3>1, <3>2
  <2>. QED BY <2>1, <2>5, <2>6 DEF FuturesOK
<1>3. ASSUME NEW r \in Ranks, FinishCall(r) PROVE FuturesOK'
  <2> DEFINE k == pos[r]
             s == SynchronizerOf(k)
  <2>1. /\ pc[r] = "communicating" /\ pc' = [pc EXCEPT ![r] = "idle"]
        /\ \/ async_op' = [async_op EXCEPT ![r][s] = k]
           \/ stage[r][k] = "done" /\ async_op' = async_op
        /\ program' = program /\ pos' = pos /\ stage' = stage
    BY <1>3 DEF FinishCall
  <2>2. k \in Ops /\ s \in Synchronizers /\ Ready(r, s)
    BY <2>1, CurrentOperation DEF FuturesOK
  <2> HIDE DEF k, s
  <2>3. ASSUME NEW j \in Ops, Active(r, j)
        PROVE  async_op'[r][SynchronizerOf(j)] = j
    <3>1. CASE j = k
      BY <1>0, <2>1, <2>2, <2>3, <3>1 DEF Active, k, s
    <3>2. CASE j # k
      <4>1. async_op[r][SynchronizerOf(j)] = j
        BY <2>3, <3>2 DEF FuturesOK, k
      <4>2. SynchronizerOf(j) # s
        BY <2>2, <2>3, <4>1 DEF Ready, Active, Ops
      <4>3. SynchronizerOf(j) \in Synchronizers
        BY <2>3, ActiveBegun, BegunOperation
      <4>. QED BY <1>0, <2>1, <4>1, <4>2, <4>3
    <3>. QED BY <3>1, <3>2
  <2>4. ASSUME NEW q \in Ranks, NEW j \in Ops, Active(q, j)'
        PROVE  \/ async_op'[q][SynchronizerOf(j)'] = j
               \/ pc'[q] = "communicating" /\ j = pos'[q]
    <3>1. CASE q = r
      BY <2>1, <2>3, <2>4, <3>1 DEF Active
    <3>2. CASE q # r
      BY <1>0, <2>1, <2>4, <3>2 DEF Active, FuturesOK
    <3>. QED BY <3>1, <3>2
  <2>5. ASSUME NEW q \in Ranks, pc'[q] = "communicating"
        PROVE  Ready(q, SynchronizerOf(pos[q]))'
    <3>1. pos'[q] = pos[q] /\ stage'[q] = stage[q]
      BY <1>0, <2>1
    <3>2. CASE q = r
      <4>1. pc'[r] = "idle"
        BY <1>0, <2>1
      <4>. QED BY <2>5, <3>2, <4>1
    <3>3. CASE q # r
      <4>1. pc'[q] = pc[q] /\ async_op'[q] = async_op[q]
        BY <1>0, <2>1, <3>3
      <4>2. Ready(q, SynchronizerOf(pos[q]))
        BY <2>5, <4>1 DEF FuturesOK
      <4>. QED BY <2>1, <3>1, <4>1, <4>2 DEF Ready
    <3>. QED BY <3>2, <3>3
  <2>. QED BY <2>1, <2>4, <2>5 DEF FuturesOK
<1>4. ASSUME NEW r \in Ranks,
             \/ \E s \in Synchronizers : WaitForSynchronization(r, s)
             \/ FinishWait(r)
             \/ FinishDestructor(r)
      PROVE  FuturesOK'
  <2>1. /\ pc[r] # "communicating"
        /\ \E v \in {"idle", "waiting"} : pc' = [pc EXCEPT ![r] = v]
        /\ UNCHANGED <<program, pos, async_op, stage>>
    BY <1>4 DEF WaitForSynchronization, FinishWait, FinishDestructor
  <2>. QED BY <1>0, <2>1 DEF FuturesOK, Active, Ready
<1>5. ASSUME NEW r \in Ranks, NEW k \in Ops, Post(r, k) PROVE FuturesOK'
  <2>1. /\ stage[r][k] \in Sides
        /\ stage' = [stage EXCEPT ![r][k] = NextStage[stage[r][k]]]
        /\ UNCHANGED <<program, pos, pc, async_op>>
    BY <1>5 DEF Post
  <2>2. stage[r][k] \notin {"none", "done"}
    BY <2>1 DEF Sides, RecvSides, SendSides
  <2>3. \A q \in Ranks, j \in Ops : Active(q, j)' => Active(q, j)
    BY <1>0, <2>1, <2>2 DEF Active
  <2>4. \A q \in Ranks : \A j : stage[q][j] = "done" => stage'[q][j] = "done"
    BY <1>0, <2>1, <2>2
  <2>. QED BY <2>1, <2>3, <2>4, FuturesKept
<1>6. ASSUME NEW r \in Ranks, NEW k \in Ops, Waitall(r, k) PROVE FuturesOK'
  <2>1. /\ stage[r][k] = "waitall"
        /\ stage' = [stage EXCEPT ![r][k] = "done"]
        /\ UNCHANGED <<program, pos, pc, async_op>>
    BY <1>6 DEF Waitall
  <2>2. \A q \in Ranks, j \in Ops : Active(q, j)' => Active(q, j)
    BY <1>0, <2>1 DEF Active
  <2>3. \A q \in Ranks : \A j : stage[q][j] = "done" => stage'[q][j] = "done"
    BY <1>0, <2>1
  <2>. QED BY <2>1, <2>2, <2>3, FuturesKept
<1>7. ASSUME NEW p \in Ranks, NEW q \in Ranks, MPIStep(p, q)
      PROVE  FuturesOK'
  <2>1. UNCHANGED <<program, pos, pc, async_op, stage>>
    BY <1>7 DEF MPIStep, Buffer, Match
  <2>. QED BY <2>1 DEF FuturesOK, Active, Ready
<1>8. CASE UNCHANGED vars
  BY <1>8 DEF FuturesOK, Active, Ready, vars
<1>. QED BY <1>1, <1>2, <1>3, <1>4, <1>5, <1>6, <1>7, <1>8
         DEF Next, MainStep, Terminated

-----------------------------------------------------------------------------
(* The theorems about every program.                                       *)

LEMMA IndInvInit == Init => IndInv
BY TypeInit, PositionsInit, FuturesInit DEF IndInv

LEMMA IndInvNext == IndInv /\ [Next]_vars => IndInv'
BY TypeNext, PositionsNext, FuturesNext DEF IndInv

LEMMA IndInvAlways == Spec => []IndInv
<1>1. Init => IndInv
  BY IndInvInit
<1>2. IndInv /\ [Next]_vars => IndInv'
  BY IndInvNext
<1>. QED BY <1>1, <1>2, PTL DEF Spec

(* The state of the threads, of the arrays and of the MPI library is well  *)
(* typed: in particular every receive stays within the ghost cells of the  *)
(* array, every send within its local cells.                               *)
THEOREM TypeCorrect == Spec => []TypeOK
<1>1. IndInv => TypeOK
  BY DEF IndInv
<1>. QED BY <1>1, IndInvAlways, PTL

(* ByteArraySynchronizer keeps its promise: two exchanges of one           *)
(* synchronizer never run at the same time on a rank, whatever the policies*)
(* and however many arrays share the synchronizer.                         *)
THEOREM OneActiveExchange == Spec => []AtMostOneActive
<1>1. IndInv => AtMostOneActive
  <2> SUFFICES ASSUME IndInv, NEW r \in Ranks,
                      NEW j \in 1 .. pos[r], NEW k \in 1 .. pos[r],
                      Active(r, j), Active(r, k),
                      SynchronizerOf(j) = SynchronizerOf(k)
               PROVE  j = k
    BY DEF AtMostOneActive
  <2>1. j \in Ops /\ k \in Ops
    BY ConstantsAssumption DEF IndInv, TypeOK, Ops
  <2>2. /\ \/ async_op[r][SynchronizerOf(j)] = j
           \/ pc[r] = "communicating" /\ j = pos[r]
        /\ \/ async_op[r][SynchronizerOf(k)] = k
           \/ pc[r] = "communicating" /\ k = pos[r]
        /\ pc[r] = "communicating" => Ready(r, SynchronizerOf(pos[r]))
    BY <2>1 DEF IndInv, FuturesOK
  <2>3. CASE async_op[r][SynchronizerOf(j)] = j
    BY <2>1, <2>2, <2>3 DEF Ready, Active, Ops
  <2>4. CASE pc[r] = "communicating" /\ j = pos[r]
    BY <2>1, <2>2, <2>4 DEF Ready, Active, Ops
  <2>. QED BY <2>2, <2>3, <2>4
<1>. QED BY <1>1, IndInvAlways, PTL

-----------------------------------------------------------------------------
(* Storage, for programs that release arrays only by their destructors.    *)

LEMMA StorageInit == Init => StorageOK
BY DEF Init, StorageOK

LEMMA StorageNext ==
  ASSUME Releases \subseteq {"destructor"}, IndInv, StorageOK, [Next]_vars
  PROVE  StorageOK'
<1> USE DEF SynchronizerOf, ArrayOf
<1>0. /\ pc \in [Ranks -> PcValues] /\ pos \in [Ranks -> 0 .. MaxOps]
      /\ stage \in [Ranks -> [Ops -> Stages]]
      /\ waits \in [Ranks -> SUBSET Synchronizers]
      /\ alive \in [Ranks -> [Arrays -> BOOLEAN]]
      /\ TypeOK /\ PositionsOK
  BY DEF IndInv, TypeOK
<1>1. \A r \in Ranks : \A k \in 1 .. pos[r] :
        k \in Ops /\ k <= pos[r]
  BY <1>0, ConstantsAssumption DEF Ops
<1>2. ASSUME NEW r \in Ranks, BeginExchange(r) \/ Release(r)
      PROVE  StorageOK'
  <2>1. /\ \A k \in 1 .. Len(program) : program'[k] = program[k]
        /\ pos' = [pos EXCEPT ![r] = @ + 1]
        /\ stage' = stage
    BY <1>0, <1>2, BeginAdvances
  <2>2. PICK op \in Operations :
          /\ NextOp(r, op)
          /\ pos[r] < MaxOps
          /\ alive[r][op.array] /\ alive' = alive
          /\ \/ pc' = [pc EXCEPT ![r] = "starting"]
             \/ pc' = [pc EXCEPT ![r] = "destroying"]
          /\ waits' = [waits EXCEPT ![r] = {SyncOf[op.array]}]
    <3>1. CASE BeginExchange(r)
      BY <3>1 DEF BeginExchange, Operations
    <3>2. CASE Release(r)
      <4>1. PICK op \in Releasers :
              /\ NextOp(r, op)
              /\ alive[r][op.array]
              /\ IF op.kind = "reset"
                 THEN /\ alive' = [alive EXCEPT ![r][op.array] = FALSE]
                      /\ UNCHANGED <<pc, waits>>
                 ELSE /\ pc' = [pc EXCEPT ![r] = "destroying"]
                      /\ waits' = [waits EXCEPT ![r] = {SyncOf[op.array]}]
                      /\ UNCHANGED alive
        BY <3>2 DEF Release
      <4>2. op.kind # "reset" /\ op \in Operations
        BY DEF Releasers, Operations
      <4>3. pos[r] < MaxOps
        BY <3>2 DEF Release
      <4>. QED BY <4>1, <4>2, <4>3
    <3>. QED BY <1>2, <3>1, <3>2
  <2>3. program'[pos[r] + 1] = op
    BY <1>0, <2>2, NextOpGrows
  <2>4. /\ pos'[r] = pos[r] + 1
        /\ \A q \in Ranks : q # r =>
             pos'[q] = pos[q] /\ pc'[q] = pc[q] /\ waits'[q] = waits[q]
        /\ waits'[r] = {SyncOf[op.array]}
    BY <1>0, <2>1, <2>2
  <2>5. ASSUME NEW q \in Ranks, NEW k \in 1 .. pos'[q], Active(q, k)'
        PROVE  alive'[q][ArrayOf(k)']
    <3>1. pos'[q] \in 0 .. MaxOps
      BY <1>0, <2>1, <2>2, ConstantsAssumption
    <3>2. k \in Ops
      BY <3>1, ConstantsAssumption DEF Ops
    <3>3. Active(q, k)
      BY <2>1, <2>5 DEF Active
    <3>4. k \in 1 .. pos[q] /\ k \in 1 .. Len(program)
      BY <1>0, <3>2, <3>3, ActiveBegun, BegunOperation DEF Ops
    <3>5. alive[q][ArrayOf(k)]
      BY <3>3, <3>4 DEF StorageOK
    <3>. QED BY <2>1, <2>2, <3>4, <3>5
  <2>6. ASSUME NEW q \in Ranks, pc'[q] \in {"starting", "communicating"}
        PROVE  alive'[q][ArrayOf(pos[q])']
    <3>1. CASE q = r
      BY <2>2, <2>3, <2>4, <3>1
    <3>2. CASE q # r
      <4>1. pc[q] \in {"starting", "communicating"} /\ pos'[q] = pos[q]
        BY <2>4, <2>6, <3>2
      <4>2. program'[pos[q]] = program[pos[q]]
        BY <1>0, <2>1, <4>1, CurrentOperation
      <4>. QED BY <2>2, <4>1, <4>2 DEF StorageOK
    <3>. QED BY <3>1, <3>2
  <2>7. ASSUME NEW q \in Ranks, pc'[q] = "destroying"
        PROVE  waits'[q] = {SynchronizerOf(pos[q])'}
    <3>1. CASE q = r
      BY <2>3, <2>4, <3>1
    <3>2. CASE q # r
      <4>1. pc[q] = "destroying" /\ pos'[q] = pos[q] /\ waits'[q] = waits[q]
        BY <2>4, <2>7, <3>2
      <4>2. program'[pos[q]] = program[pos[q]]
        BY <1>0, <2>1, <4>1, CurrentOperation
      <4>. QED BY <4>1, <4>2 DEF StorageOK
    <3>. QED BY <3>1, <3>2
  <2>. QED BY <2>5, <2>6, <2>7 DEF StorageOK
<1>3. ASSUME NEW r \in Ranks, StartExchange(r) PROVE StorageOK'
  <2>1. /\ pc[r] = "starting"
        /\ stage' = [stage EXCEPT ![r][pos[r]] = "recvLeft"]
        /\ pc' = [pc EXCEPT ![r] = "idle"] \/ pc' = [pc EXCEPT ![r] = "communicating"]
        /\ waits' = [waits EXCEPT ![r] = {}]
        /\ program' = program /\ pos' = pos /\ alive' = alive
    BY <1>3 DEF StartExchange
  <2>2. alive[r][ArrayOf(pos[r])]
    BY <2>1 DEF StorageOK
  <2>3. \A q \in Ranks, k \in Ops :
          Active(q, k)' => Active(q, k) \/ (q = r /\ k = pos[r])
    BY <1>0, <2>1 DEF Active
  <2>4. \A q \in Ranks : \A k \in 1 .. pos[q] :
          Active(q, k)' => alive[q][ArrayOf(k)]
    BY <1>1, <2>2, <2>3 DEF StorageOK
  <2>5. \A q \in Ranks : q # r => pc'[q] = pc[q] /\ waits'[q] = waits[q]
    BY <1>0, <2>1
  <2>6. pc'[r] # "destroying"
    BY <1>0, <2>1
  <2>. QED BY <2>1, <2>2, <2>4, <2>5, <2>6 DEF StorageOK
<1>4. ASSUME NEW r \in Ranks,
             \/ FinishCall(r)
             \/ \E s \in Synchronizers : WaitForSynchronization(r, s)
             \/ FinishWait(r)
      PROVE  StorageOK'
  <2>1. /\ \E v \in {"idle", "waiting"} : pc' = [pc EXCEPT ![r] = v]
        /\ \A q \in Ranks : q # r => waits'[q] = waits[q]
        /\ program' = program /\ pos' = pos /\ alive' = alive /\ stage' = stage
    BY <1>0, <1>4 DEF FinishCall, WaitForSynchronization, FinishWait
  <2>2. /\ \A q \in Ranks : q # r => pc'[q] = pc[q]
        /\ pc'[r] \in {"idle", "waiting"}
    BY <1>0, <2>1
  <2>. QED BY <2>1, <2>2 DEF StorageOK, Active
<1>5. ASSUME NEW r \in Ranks, FinishDestructor(r) PROVE StorageOK'
  <2> DEFINE a == ArrayOf(pos[r])
             s == SynchronizerOf(pos[r])
  <2>1. /\ pc[r] = "destroying" /\ Ready(r, s)
        /\ alive' = [alive EXCEPT ![r][a] = FALSE]
        /\ pc' = [pc EXCEPT ![r] = "idle"]
        /\ \A q \in Ranks : q # r => waits'[q] = waits[q]
        /\ program' = program /\ pos' = pos /\ stage' = stage
    BY <1>0, <1>5 DEF FinishDestructor, StorageOK
  <2>2. /\ \A q \in Ranks : q # r => pc'[q] = pc[q] /\ alive'[q] = alive[q]
        /\ pc'[r] = "idle"
        /\ \A b \in Arrays : b # a => alive'[r][b] = alive[r][b]
    BY <1>0, <2>1
  <2>3. ASSUME NEW k \in 1 .. pos[r], Active(r, k)
        PROVE  alive'[r][ArrayOf(k)]
    <3>1. ArrayOf(k) \in Arrays
      BY <1>0, <1>1, BegunOperation
    <3>2. async_op[r][SynchronizerOf(k)] = k
      BY <1>1, <2>1, <2>3 DEF IndInv, FuturesOK
    <3>3. SynchronizerOf(k) # s
      BY <1>1, <2>1, <2>3, <3>2 DEF Ready, Active, Ops
    <3>4. ArrayOf(k) # a
      BY <3>3
    <3>. QED BY <2>2, <2>3, <3>1, <3>4 DEF StorageOK
  <2>4. \A q \in Ranks : \A k \in 1 .. pos[q] :
          Active(q, k)' => alive'[q][ArrayOf(k)]
    BY <2>1, <2>2, <2>3 DEF StorageOK, Active
  <2>. QED BY <2>1, <2>2, <2>4 DEF StorageOK
<1>6. ASSUME NEW r \in Ranks, NEW k \in Ops, Post(r, k) \/ Waitall(r, k)
      PROVE  StorageOK'
  <2>1. /\ Active(r, k)
        /\ \E v : stage' = [stage EXCEPT ![r][k] = v]
        /\ UNCHANGED <<program, pos, pc, waits, alive>>
    BY <1>6 DEF Post, Waitall, Active, Sides, RecvSides, SendSides
  <2>2. \A q \in Ranks, j \in Ops : Active(q, j)' => Active(q, j)
    BY <1>0, <2>1 DEF Active
  <2>. QED BY <1>1, <2>1, <2>2 DEF StorageOK
<1>7. ASSUME NEW p \in Ranks, NEW q \in Ranks, MPIStep(p, q)
      PROVE  StorageOK'
  BY <1>7 DEF MPIStep, Buffer, Match, StorageOK, Active
<1>8. CASE UNCHANGED vars
  BY <1>8 DEF StorageOK, Active, vars
<1>9. [Next]_vars
  OBVIOUS
<1>. QED BY <1>2, <1>3, <1>4, <1>5, <1>6, <1>7, <1>8, <1>9
         DEF Next, MainStep, Terminated

(* If arrays are released only by destructors, which wait for the pending  *)
(* operation of the synchronizer, no exchange ever runs on storage that has*)
(* been deallocated.                                                       *)
THEOREM StorageOutlives ==
  ASSUME Releases \subseteq {"destructor"}
  PROVE  Spec => []StorageOutlivesExchange
<1>1. Init => IndInv /\ StorageOK
  BY IndInvInit, StorageInit
<1>2. IndInv /\ StorageOK /\ [Next]_vars => (IndInv /\ StorageOK)'
  BY IndInvNext, StorageNext
<1>3. IndInv /\ StorageOK => StorageOutlivesExchange
  BY DEF StorageOK, StorageOutlivesExchange
<1>. QED BY <1>1, <1>2, <1>3, PTL DEF Spec
=============================================================================
