\* Every sequence of whole and partial requests.
CONSTANTS
  NPos <- MCNPos
  Lit <- MCLit
  Stored <- MCStored
  Requests <- MCRequests
  Cuts <- MCCuts
  BufferSize <- MCBufferSize
  Junk <- MCJunk
SPECIFICATION FairSpec
INVARIANTS
  TypeOK StopsAtTheEnd ParsedAsWritten WholeRequestSurvived PostAnswered
  PagesReadable PrintsInBounds
PROPERTIES EveryMessageFinished RoundsAdvance
\* The process may have ended.
CHECK_DEADLOCK FALSE
