SPECIFICATION FrontSpec
CONSTANTS
  Letters <- LettersDef
  Rules <- ParseFunctions
  Exponents <- ExponentsDef
  ReadAsZero <- ReadAsZeroDef
  Programs <- ProgramsDef
INVARIANTS RoundTrip NothingDropped
PROPERTY ReadingEnds
CHECK_DEADLOCK FALSE
