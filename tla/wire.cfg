SPECIFICATION Spec
CONSTANTS
  I64Max = 99
  Numeral <- MCNumeral
  Fractions = {"1.5"}
  Elements = {":1"}
  Upper <- MCUpper
  Names <- MCNames
  Words <- MCWords
  MaxWords = 5
  Pipelines <- MCPipelines
  MinPipeline = 40
  BatchThreshold = 1
  MaxBuffer = 80
INVARIANTS ChunkingInvisible  ParsersAgree
CHECK_DEADLOCK FALSE
