-------------------------- MODULE ChunkedTransfer --------------------------
(***************************************************************************)
(* Transfers through a buffer of limited size: File::load and File::save   *)
(* with conversion or to a CUDA device, and the copies between host and    *)
(* device of MultiDeviceMemoryOperations with conversion.  Each is a loop  *)
(* that moves one chunk per iteration; one step of the model is one        *)
(* iteration.  Only the position of an element in the source is told apart *)
(* in the destination.                                                     *)
(***************************************************************************)
EXTENDS Integers

CONSTANTS
  Kinds,              (* the transfers under test                          *)
  TransferBufferSize, (* Cuda::getTransferBufferSize(), in bytes           *)
  MemorySizes,        (* sizeof of the element types in memory             *)
  FileSizes,          (* sizeof of the element types in the file (or of    *)
                      (* the other memory)                                 *)
  MaxElements         (* bound on the number of elements                   *)

AllKinds == {"loadCast", "saveCast", "loadCuda", "saveCuda", "loadCudaCast",
             "saveCudaCast", "copyToHost", "copyToDevice"}

ASSUME ConstantsAssumption ==
  /\ Kinds \subseteq AllKinds
  /\ MaxElements \in Nat
  /\ MemorySizes \subseteq Nat \ {0}
  /\ FileSizes \subseteq Nat \ {0}
  /\ TransferBufferSize \in Nat
  /\ \A s \in MemorySizes \union FileSizes : s <= TransferBufferSize

Untouched == -1

VARIABLES
  kind,          (* the transfer                                           *)
  elements,      (* its number of elements                                 *)
  memorySize,    (* sizeof of the element in memory                        *)
  fileSize,      (* sizeof of the element in the file                      *)
  offset,        (* readElements, writtenElements or i of the loop         *)
  filePos,       (* elements read from or written to the file              *)
  destination,   (* destination[j]: position of its value in the source    *)
  lastTransfer   (* elements moved by the last iteration                   *)

vars == <<kind, elements, memorySize, fileSize, offset, filePos, destination,
          lastTransfer>>
parameters == <<kind, elements, memorySize, fileSize>>

Positions == 0 .. (MaxElements - 1)

TypeOK ==
  /\ kind \in Kinds
  /\ elements \in 1 .. MaxElements
  /\ memorySize \in MemorySizes
  /\ fileSize \in FileSizes
  /\ offset \in 0 .. (2 * elements)
  /\ filePos \in 0 .. elements
  /\ destination \in [Positions -> Positions \union {Untouched}]
  /\ lastTransfer \in 0 .. elements

MinOf(a, b) == IF a <= b THEN a ELSE b

(* The buffers hold at most the elements of the transfer.                  *)
BufferSize(size) == MinOf(TransferBufferSize \div size, elements)
host_buffer_size == BufferSize(memorySize)
cast_buffer_size == BufferSize(fileSize)

(* A transfer of no elements returns at once and is left out.              *)
Init ==
  /\ kind \in Kinds
  /\ elements \in 1 .. MaxElements
  /\ memorySize \in MemorySizes
  /\ fileSize \in FileSizes
  /\ offset = 0
  /\ filePos = 0
  /\ destination = [j \in Positions |-> Untouched]
  /\ lastTransfer = 0

(* n elements of the source from position src on are moved to position dst.*)
Move(src, dst, n) ==
  destination' = [j \in Positions |-> IF j \in dst .. (dst + n - 1)
                                      THEN src + (j - dst)
                                      ELSE destination[j]]

-----------------------------------------------------------------------------
(* One iteration of the loops of load_impl and save_impl with conversion   *)
(* for host allocators: the inner loop advances the counter for every      *)
(* element, and the end of the iteration advances it again.                *)
LoadCastChunk ==
  LET transfer == MinOf(elements - offset, cast_buffer_size) IN
  /\ kind = "loadCast"
  /\ offset < elements
  /\ Move(filePos, offset, transfer)
  /\ filePos' = filePos + transfer
  /\ offset' = offset + transfer + transfer
  /\ lastTransfer' = transfer
  /\ UNCHANGED parameters

(* Faulty: the inner loop stops one element early.                         *)
SaveCastChunk_OffByOne ==
  LET transfer == MinOf(elements - offset, cast_buffer_size) IN
  /\ kind = "saveCast"
  /\ offset < elements
  /\ Move(offset, filePos, transfer - 1)
  /\ filePos' = filePos + transfer
  /\ offset' = offset + transfer + transfer
  /\ lastTransfer' = transfer
  /\ UNCHANGED parameters

SaveCastChunk ==
  LET transfer == MinOf(elements - offset, cast_buffer_size) IN
  /\ kind = "saveCast"
  /\ offset < elements
  /\ Move(offset, filePos, transfer)
  /\ filePos' = filePos + transfer
  /\ offset' = offset + transfer + transfer
  /\ lastTransfer' = transfer
  /\ UNCHANGED parameters

(* What the iterations of the other loops have in common.                  *)
ChunkOf(transfer) ==
  /\ offset < elements
  /\ Move(offset, offset, transfer)
  /\ filePos' = filePos + transfer
  /\ offset' = offset + transfer
  /\ lastTransfer' = transfer
  /\ UNCHANGED parameters

(* load_impl and save_impl for Allocators::Cuda without conversion.        *)
CudaChunk ==
  /\ kind \in {"loadCuda", "saveCuda"}
  /\ ChunkOf(MinOf(elements - offset, host_buffer_size))

(* Faulty: everything that is left is moved at once.                       *)
LoadCudaCastChunk_Unbounded ==
  /\ kind = "loadCudaCast"
  /\ ChunkOf(elements - offset)

(* The same with conversion: load_impl sizes its chunks by the buffer of   *)
(* file elements, save_impl by the buffer of memory elements, and both use *)
(* both buffers.                                                           *)
LoadCudaCastChunk ==
  /\ kind = "loadCudaCast"
  /\ ChunkOf(MinOf(elements - offset, cast_buffer_size))

SaveCudaCastChunk ==
  /\ kind = "saveCudaCast"
  /\ ChunkOf(MinOf(elements - offset, host_buffer_size))

(* MultiDeviceMemoryOperations::copy from or to a CUDA device.             *)
CopyChunk ==
  /\ kind \in {"copyToHost", "copyToDevice"}
  /\ ChunkOf(MinOf(elements - offset, host_buffer_size))

Done == offset >= elements

Terminated == Done /\ UNCHANGED vars

Next ==
  \/ LoadCastChunk
  \/ SaveCastChunk
  \/ CudaChunk
  \/ LoadCudaCastChunk
  \/ SaveCudaCastChunk
  \/ CopyChunk
  \/ Terminated

Spec == Init /\ [][Next]_vars

-----------------------------------------------------------------------------
(* Correctness.                                                            *)

(* The transfers that go through the loops with conversion in host memory. *)
HostCast == kind \in {"loadCast", "saveCast"}

(* Every element of the source is at its place in the destination, and the *)
(* file has moved by exactly that many.                                    *)
Complete ==
  /\ \A j \in 0 .. (elements - 1) : destination[j] = j
  /\ filePos = elements

(* A transfer returns when it is complete: any transfer to or from a device*)
(* whatever its length, and a conversion in host memory if it fits in one  *)
(* buffer.                                                                 *)
TransferComplete ==
  Done /\ (HostCast => elements <= cast_buffer_size) => Complete

(* The same for a conversion in host memory of any length, "on-the-fly     *)
(* conversion takes place during the data loading".                        *)
ConversionComplete == Done /\ HostCast => Complete

(* No iteration uses more elements than the buffers it goes through hold.  *)
WithinBuffers ==
  /\ kind \in {"loadCuda", "saveCuda", "loadCudaCast", "saveCudaCast"} =>
       lastTransfer <= host_buffer_size
  /\ kind \in {"loadCast", "saveCast", "loadCudaCast", "saveCudaCast"} =>
       lastTransfer <= cast_buffer_size

(* The same where the element that sizes the chunks is the larger one: the *)
(* one in the file for loads, the one in memory for saves.                 *)
WithinSizedBuffers ==
  (/\ kind = "loadCudaCast" => memorySize <= fileSize
   /\ kind = "saveCudaCast" => fileSize <= memorySize) => WithinBuffers
=============================================================================
