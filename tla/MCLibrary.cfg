SPECIFICATION MCSpec
CONSTANTS
  PAGE_SIZE = 4096
  SMALLEST_BIN_LOG = 2
  NUM_BINS = 11
  HDR = 16
  BIG_HDR = 48
  WIDTH = 15
  WORD_BYTES = 4
  BITS = 6
  TMP = 10
  Formats <- AllFormats
  Arguments <- SomeArguments
  StringAt <- SomeStrings
  Sections <- SectionTables
  STRTAB <- Strtab
  SYMTAB <- Symtab
INVARIANTS NewPageHoldsRequest GrowHoldsRequest
INVARIANTS ScanEndsAtTerminator FieldsAsAsked TablesFound
CHECK_DEADLOCK FALSE
