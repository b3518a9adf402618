\* Chunks with room for six bytes of text and padding.
CONSTANTS
  EchoHosts <- MCHosts
  Everyone = 99
  Requests <- MCRequests
  Edits <- MCEdits
  Datagrams <- MCDatagrams
  Segments <- MCSegments
  Symbol = {"a", "b", "0", "?"}
  BufferSize = 48
  Stale = "?"
  Mms <- MCMms
SPECIFICATION Spec
INVARIANTS AnswerTaken SumsRight ChangeArrives OnlyFullPanics MssClamped
PROPERTIES FallsSilent
CHECK_DEADLOCK FALSE
