\* A GET after a POST.
CONSTANTS
  NPos <- MCNPos
  Lit <- MCLit
  Stored <- MCStored
  Requests <- MCRequests
  Cuts <- MCCuts
  BufferSize <- MCBufferSize
  Junk <- MCJunk
SPECIFICATION Spec
INVARIANTS ResponseDataAreOwn
\* The process may have ended.
CHECK_DEADLOCK FALSE
