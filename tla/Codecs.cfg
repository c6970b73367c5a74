\* Every code point of one, two and three bytes, and the first of four; texts of up to
\* three characters of one, three and four bytes; three documents of each type.
SPECIFICATION Spec
CONSTANTS
  Final = 70000
  Char <- MCChar
  Bytes <- MCBytes
  Inputs <- MCInputs
  Archive <- MCArchive
INVARIANTS CodesReadBack CensoredAreFound SentencesShowText DocumentIsWhole
\* The walk and the rewriting end.
CHECK_DEADLOCK FALSE
