\* A text and a document beside each other, rebuilds at any time, fair threads.
SPECIFICATION FairSpec
CONSTANTS
  t = t
  d = d
  w1 = w1
  b1 = b1
  NoOne = NoOne
  NoTask = NoTask
  Builder = {b1}
  ImageBuilder = {}
  RegexBuilder = {}
  Text = {t}
  Doc = {d}
  Spans = 1
  Pictures = 1
  Worker = {w1}
  BURST = 1
  Forbidden <- SomeForbidden
INVARIANTS AwakeForWork TasksOnce NothingSlips
PROPERTIES Serves TasksTaken JobsEnd
\* A terminated process takes no step.
CHECK_DEADLOCK FALSE
