----------------------- MODULE ChunkedTransfer_proofs -----------------------
(***************************************************************************)
(* Proofs about chunked transfers, for every size of the buffer, of the    *)
(* elements and of the transfer.                                           *)
(***************************************************************************)
EXTENDS ChunkedTransfer, TLAPS

-----------------------------------------------------------------------------
(* Buffers.                                                                *)

(* A quotient does not grow with the divisor. *)
LEMMA DivAntitone ==
  ASSUME NEW n \in Nat, NEW a \in Nat \ {0}, NEW b \in Nat \ {0}, a <= b
  PROVE  n \div a \in Nat /\ n \div b \in Nat /\ n \div b <= n \div a
<1> DEFINE p == n \div a
           q == n \div b
<1>1. p \in Nat /\ n < a * (p + 1)
  OBVIOUS
<1>2. q \in Nat /\ b * q <= n
  OBVIOUS
<1> HIDE DEF p, q
<1>3. a * q <= b * q
  BY <1>2
<1>4. a * q < a * (p + 1)
  BY <1>1, <1>2, <1>3
<1>5. q < p + 1
  BY <1>1, <1>2, <1>4
<1>. QED BY <1>1, <1>2, <1>5 DEF p, q

(* An element fits in the buffer, and so does every chunk: no chunk is     *)
(* empty.  A buffer of larger elements holds no more of them.              *)
LEMMA BufferSizes ==
  ASSUME NEW a \in Nat \ {0}, NEW b \in Nat \ {0}, a <= b,
         b <= TransferBufferSize, elements \in Nat \ {0}
  PROVE  /\ BufferSize(a) \in 1 .. elements
         /\ BufferSize(b) \in 1 .. elements
         /\ BufferSize(b) <= BufferSize(a)
<1> DEFINE n == TransferBufferSize
<1>0. n \in Nat
  BY ConstantsAssumption
<1>1. n \div a \in Nat /\ n \div b \in Nat /\ n \div b <= n \div a
  BY <1>0, DivAntitone
<1>2. n \div b >= 1
  <2> DEFINE q == n \div b
  <2>1. q \in Nat /\ n < b * (q + 1)
    BY <1>0
  <2> HIDE DEF q
  <2>2. q # 0
    BY <2>1, <1>0
  <2>. QED BY <2>1, <2>2 DEF q
<1>. QED BY <1>1, <1>2 DEF BufferSize, MinOf

-----------------------------------------------------------------------------
(* The loops.                                                              *)

(* The counter and the file of a loop that advances both alike: what has   *)
(* been counted has been moved.                                            *)
MovedSoFar ==
  ~HostCast =>
    /\ offset = filePos /\ offset <= elements
    /\ \A j \in 0 .. (offset - 1) : destination[j] = j

(* A conversion in host memory counts twice; it is complete after its      *)
(* first chunk if that is all of it.                                       *)
ConvertedSoFar ==
  HostCast =>
    /\ filePos <= offset
    /\ elements <= cast_buffer_size =>
         \/ offset = 0 /\ filePos = 0
         \/ Done /\ Complete

IndInv == TypeOK /\ MovedSoFar /\ ConvertedSoFar /\ WithinSizedBuffers

LEMMA Buffers ==
  ASSUME TypeOK
  PROVE  /\ host_buffer_size \in 1 .. elements
         /\ cast_buffer_size \in 1 .. elements
         /\ memorySize <= fileSize => cast_buffer_size <= host_buffer_size
         /\ fileSize <= memorySize => host_buffer_size <= cast_buffer_size
<1>1. /\ memorySize \in Nat \ {0} /\ memorySize <= TransferBufferSize
      /\ fileSize \in Nat \ {0} /\ fileSize <= TransferBufferSize
      /\ elements \in Nat \ {0}
  BY ConstantsAssumption DEF TypeOK
<1>2. CASE memorySize <= fileSize
  BY <1>1, <1>2, BufferSizes DEF host_buffer_size, cast_buffer_size
<1>3. CASE fileSize <= memorySize
  BY <1>1, <1>3, BufferSizes DEF host_buffer_size, cast_buffer_size
<1>. QED BY <1>1, <1>2, <1>3

(* Moving a chunk that lies within source and destination.                 *)
LEMMA MoveType ==
  ASSUME TypeOK, NEW src \in Nat, NEW dst \in Nat, NEW n \in Nat,
         src + n <= elements, Move(src, dst, n)
  PROVE  /\ destination' \in [Positions -> Positions \union {Untouched}]
         /\ \A j \in Positions :
              destination'[j] = IF j \in dst .. (dst + n - 1)
                                THEN src + (j - dst) ELSE destination[j]
<1>1. elements \in Nat /\ elements <= MaxElements /\ MaxElements \in Nat
  BY ConstantsAssumption DEF TypeOK
<1>2. ASSUME NEW j \in Positions, j \in dst .. (dst + n - 1)
      PROVE  src + (j - dst) \in Positions
  BY <1>1, <1>2 DEF Positions
<1>3. ASSUME NEW j \in Positions
      PROVE  destination[j] \in Positions \union {Untouched}
  BY DEF TypeOK
<1>. QED BY <1>2, <1>3 DEF Move

LEMMA InitIndInv == Init => IndInv
<1> SUFFICES ASSUME Init PROVE IndInv
  OBVIOUS
<1>1. TypeOK
  BY ConstantsAssumption DEF Init, TypeOK, Positions
<1>2. MovedSoFar /\ ConvertedSoFar
  BY <1>1 DEF Init, MovedSoFar, ConvertedSoFar
<1>3. WithinSizedBuffers
  BY <1>1, Buffers DEF Init, WithinSizedBuffers, WithinBuffers
<1>. QED BY <1>1, <1>2, <1>3 DEF IndInv

(* The loops with one counter. *)
LEMMA ChunkIndInv ==
  ASSUME IndInv, ~HostCast, NEW n \in 1 .. elements, ChunkOf(MinOf(elements - offset, n)),
         kind \in {"loadCuda", "saveCuda"} => n <= host_buffer_size,
         kind = "loadCudaCast" => n <= cast_buffer_size,
         kind = "saveCudaCast" => n <= host_buffer_size
  PROVE  IndInv'
<1> DEFINE t == MinOf(elements - offset, n)
<1>0. /\ TypeOK /\ MovedSoFar
      /\ elements \in Nat \ {0} /\ elements <= MaxElements /\ MaxElements \in Nat
      /\ offset \in Nat /\ offset = filePos /\ offset < elements
  BY ConstantsAssumption DEF IndInv, TypeOK, MovedSoFar, ChunkOf
<1>1. t \in 1 .. n /\ t <= elements - offset
  BY <1>0 DEF MinOf
<1> HIDE DEF t
<1>2. /\ Move(offset, offset, t)
      /\ offset' = offset + t /\ filePos' = filePos + t /\ lastTransfer' = t
      /\ UNCHANGED parameters
  BY DEF ChunkOf, t
<1>3. /\ destination' \in [Positions -> Positions \union {Untouched}]
      /\ \A j \in Positions :
           destination'[j] = IF j \in offset .. (offset + t - 1)
                             THEN offset + (j - offset) ELSE destination[j]
  BY <1>0, <1>1, <1>2, MoveType
<1>4. TypeOK'
  BY <1>0, <1>1, <1>2, <1>3 DEF TypeOK, parameters
<1>5. ~HostCast' /\ kind' = kind /\ elements' = elements
      /\ memorySize' = memorySize /\ fileSize' = fileSize
  BY <1>2 DEF HostCast, parameters
<1>6. MovedSoFar'
  <2>1. ASSUME NEW j \in 0 .. (offset' - 1) PROVE destination'[j] = j
    <3>1. j \in Positions
      BY <1>0, <1>1, <1>2 DEF Positions
    <3>2. CASE j \in 0 .. (offset - 1)
      BY <3>1, <3>2, <1>0, <1>1, <1>3 DEF MovedSoFar
    <3>3. CASE j \in offset .. (offset + t - 1)
      BY <3>1, <3>3, <1>0, <1>3
    <3>. QED BY <3>2, <3>3, <1>0, <1>1, <1>2
  <2>. QED BY <2>1, <1>0, <1>1, <1>2, <1>5 DEF MovedSoFar
<1>7. ConvertedSoFar'
  BY <1>5 DEF ConvertedSoFar
<1>8. WithinSizedBuffers'
  <2>1. /\ host_buffer_size' = host_buffer_size
        /\ cast_buffer_size' = cast_buffer_size
    BY <1>5 DEF host_buffer_size, cast_buffer_size, BufferSize, MinOf
  <2>2. /\ host_buffer_size \in 1 .. elements
        /\ cast_buffer_size \in 1 .. elements
        /\ memorySize <= fileSize => cast_buffer_size <= host_buffer_size
        /\ fileSize <= memorySize => host_buffer_size <= cast_buffer_size
    BY <1>0, Buffers
  <2>. QED BY <1>0, <1>1, <1>2, <1>5, <2>1, <2>2
           DEF WithinSizedBuffers, WithinBuffers, HostCast
<1>. QED BY <1>4, <1>6, <1>7, <1>8 DEF IndInv

(* The conversions in host memory. *)
LEMMA CastIndInv ==
  ASSUME IndInv, LoadCastChunk \/ SaveCastChunk
  PROVE  IndInv'
<1> DEFINE t == MinOf(elements - offset, cast_buffer_size)
<1>0. /\ TypeOK /\ ConvertedSoFar /\ HostCast
      /\ elements \in Nat \ {0} /\ elements <= MaxElements /\ MaxElements \in Nat
      /\ offset \in Nat /\ filePos \in Nat /\ filePos <= offset
      /\ offset < elements /\ cast_buffer_size \in 1 .. elements
  BY ConstantsAssumption, Buffers
     DEF IndInv, TypeOK, ConvertedSoFar, HostCast, LoadCastChunk, SaveCastChunk
<1>1. t \in 1 .. cast_buffer_size /\ t <= elements - offset
  BY <1>0 DEF MinOf
<1> HIDE DEF t
<1>2. /\ Move(filePos, offset, t) \/ Move(offset, filePos, t)
      /\ offset' = offset + t + t /\ filePos' = filePos + t /\ lastTransfer' = t
      /\ UNCHANGED parameters
  BY DEF LoadCastChunk, SaveCastChunk, t
<1>3. /\ kind' = kind /\ elements' = elements
      /\ memorySize' = memorySize /\ fileSize' = fileSize
      /\ cast_buffer_size' = cast_buffer_size /\ HostCast'
  BY <1>0, <1>2 DEF HostCast, parameters, cast_buffer_size, BufferSize, MinOf
<1>4. destination' \in [Positions -> Positions \union {Untouched}]
  BY <1>0, <1>1, <1>2, MoveType
<1>5. TypeOK'
  BY <1>0, <1>1, <1>2, <1>3, <1>4 DEF TypeOK
<1>6. ASSUME elements <= cast_buffer_size PROVE (Done /\ Complete)'
  <2>1. offset = 0 /\ filePos = 0
    BY <1>0, <1>6 DEF ConvertedSoFar, Done
  <2>2. t = elements
    BY <1>0, <1>6, <2>1 DEF t, MinOf
  <2>3. Move(0, 0, elements)
    BY <1>2, <2>1, <2>2
  <2>4. ASSUME NEW j \in 0 .. (elements - 1) PROVE destination'[j] = j
    <3>1. j \in Positions
      BY <1>0 DEF Positions
    <3>2. j \in 0 .. (0 + elements - 1) /\ 0 + (j - 0) = j
      BY <1>0
    <3>. QED BY <3>1, <3>2, <1>0, <2>3, MoveType
  <2>. QED BY <2>1, <2>2, <2>4, <1>0, <1>2, <1>3 DEF Done, Complete
<1>7. ConvertedSoFar'
  BY <1>0, <1>1, <1>2, <1>3, <1>6 DEF ConvertedSoFar
<1>8. MovedSoFar'
  BY <1>3 DEF MovedSoFar
<1>9. WithinSizedBuffers'
  BY <1>0, <1>1, <1>2, <1>3 DEF WithinSizedBuffers, WithinBuffers, HostCast
<1>. QED BY <1>5, <1>7, <1>8, <1>9 DEF IndInv

LEMMA NextIndInv == IndInv /\ [Next]_vars => IndInv'
<1> SUFFICES ASSUME IndInv, [Next]_vars PROVE IndInv'
  OBVIOUS
<1>0. /\ host_buffer_size \in 1 .. elements
      /\ cast_buffer_size \in 1 .. elements
  BY Buffers DEF IndInv
<1>1. CASE LoadCastChunk \/ SaveCastChunk
  BY <1>1, CastIndInv
<1>2. CASE CudaChunk
  BY <1>0, <1>2, ChunkIndInv DEF CudaChunk, HostCast
<1>3. CASE LoadCudaCastChunk
  BY <1>0, <1>3, ChunkIndInv DEF LoadCudaCastChunk, HostCast
<1>4. CASE SaveCudaCastChunk
  BY <1>0, <1>4, ChunkIndInv DEF SaveCudaCastChunk, HostCast
<1>5. CASE CopyChunk
  BY <1>0, <1>5, ChunkIndInv DEF CopyChunk, HostCast
<1>6. CASE UNCHANGED vars
  BY <1>6 DEF IndInv, TypeOK, MovedSoFar, ConvertedSoFar, WithinSizedBuffers,
     WithinBuffers, HostCast, Done, Complete, host_buffer_size,
     cast_buffer_size, BufferSize, MinOf, vars
<1>. QED BY <1>1, <1>2, <1>3, <1>4, <1>5, <1>6 DEF Next, Terminated

LEMMA IndInvAlways == Spec => []IndInv
BY InitIndInv, NextIndInv, PTL DEF Spec

-----------------------------------------------------------------------------
(* A transfer to or from a device returns with every element at its place, *)
(* and so does a conversion in host memory that fits in one buffer         *)
(* (File::load_impl, File::save_impl, MultiDeviceMemoryOperations::copy).  *)
THEOREM TransfersComplete == Spec => []TransferComplete
<1>1. ASSUME IndInv PROVE TransferComplete
  <2>1. elements \in Nat \ {0} /\ offset \in Nat
    BY <1>1 DEF IndInv, TypeOK
  <2>2. CASE HostCast
    BY <1>1, <2>1, <2>2
       DEF IndInv, ConvertedSoFar, TransferComplete, Done
  <2>3. CASE ~HostCast
    BY <1>1, <2>1, <2>3
       DEF IndInv, MovedSoFar, TransferComplete, Done, Complete
  <2>. QED BY <2>2, <2>3
<1>. QED BY <1>1, IndInvAlways, PTL

(* No chunk exceeds a buffer that it goes through, where the larger one of *)
(* the two elements determines the length of the chunks (the same loops).  *)
THEOREM ChunksFit == Spec => []WithinSizedBuffers
<1>1. IndInv => WithinSizedBuffers
  BY DEF IndInv
<1>. QED BY <1>1, IndInvAlways, PTL
=============================================================================
