\* The page with one builder at a time, an image update and a regex update beside it;
\* a document with two contents that can be read and one that cannot; three log entries.
SPECIFICATION DeskSpec
CONSTANTS
  a = a
  b = b
  b1 = b1
  i1 = i1
  g = g
  d1 = d1
  e1 = e1
  e2 = e2
  e3 = e3
  NoOne = NoOne
  NoEntry = NoEntry
  Builder = {b1}
  ImageBuilder = {i1}
  RegexBuilder = {g}
  Word = {a, b}
  Doc = {d1}
  Version = {"v1", "v2", "v3"}
  Gone = "gone"
  Broken = {"v3"}
  Found <- MCFound
  Type = {"NONE", "KEY"}
  MAX_LABELS = 2
  Entry = {e1, e2, e3}
SYMMETRY Words
INVARIANTS DeskTypeOK ShownIsInForce SavedUnlessModified FlagsComeBack SentIsOfTheDocument LoggedIsWritten
PROPERTIES LabelsKept
\* When the first build fails, the program waits for ever.
CHECK_DEADLOCK FALSE
