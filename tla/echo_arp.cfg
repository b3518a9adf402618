\* The target of an ARP reply is not the asker; as in rewrites otherwise.
CONSTANTS
  EchoHosts <- MCHosts
  Everyone = 99
  Requests <- MCRequests
  Edits <- MCEdits
  Datagrams <- MCDatagrams
  Segments <- MCSegments
  Symbol = {"a", "b", "0", "?"}
  BufferSize = 48
  Stale = "?"
  Mms <- MCMms
SPECIFICATION Spec
INVARIANT ArpAddressed
CHECK_DEADLOCK FALSE
