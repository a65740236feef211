SPECIFICATION Spec
CONSTANTS
  Kinds = {"loadCast", "saveCast"}
  TransferBufferSize = 6
  MemorySizes = {2}
  FileSizes = {2}
  MaxElements = 7
INVARIANTS
  ConversionComplete
