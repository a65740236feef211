\* All transfers: buffers of 12 bytes hold 12, 6 or 3 elements, a transfer takes
\* up to four chunks.
SPECIFICATION Spec
CONSTANTS
  Kinds = {"loadCast", "saveCast", "loadCuda", "saveCuda", "loadCudaCast",
           "saveCudaCast", "copyToHost", "copyToDevice"}
  TransferBufferSize = 12
  MemorySizes = {2, 4}
  FileSizes = {1, 2, 4}
  MaxElements = 11
INVARIANTS
  TransferComplete
  WithinSizedBuffers
