SPECIFICATION Spec
CONSTANTS
  Unset = Unset
  Queries <- MCQueries
  Maxima <- MCMaxima
  Requests <- MCRequests
  Texts <- MCTexts
  Programs <- MCPrograms
  Captures <- MCCaptures
  Outputs <- MCOutputs
  Sends <- MCSends
  MaxTableDepth = 1
  Fetches <- MCFetches
  MaxQuery = 5
  MaxText = 4
INVARIANT EscapesUndone
INVARIANT TablesExact
INVARIANT BatchFaithful
INVARIANT HeadersExact
INVARIANT OutputWhole
INVARIANT ClientHonest
CHECK_DEADLOCK FALSE
