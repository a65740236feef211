SPECIFICATION Spec
CONSTANTS
  Kinds = {"loadCudaCast", "saveCudaCast"}
  TransferBufferSize = 8
  MemorySizes = {1, 4}
  FileSizes = {2}
  MaxElements = 6
INVARIANTS
  WithinBuffers
