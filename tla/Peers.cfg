\* Two ports, so that an answer can name a port that is gone.  A text with wide
\* characters, one without, a file; two addresses for sockets.
SPECIFICATION PeersSpec
CONSTANTS
  text = text
  ascii = ascii
  file = file
  s1 = s1
  s2 = s2
  p1 = p1
  p2 = p2
  Port = {p1, p2}
  Nowhere = Nowhere
  MAX_FLIGHT = 3
  Message = {text, ascii, file}
  File = {file}
  Wide = {text}
  Size <- TwoEach
  Address = {s1, s2}
INVARIANTS PeersInv ShownWhole
PROPERTIES FoundIsRecent ClientFinds GuardFound ReceivedIsHandled
\* A process that has ended takes no step.
CHECK_DEADLOCK FALSE
