CONSTANTS
  Keys <- MCKeys
  Values <- MCValues
  MaxIndex = 10
  Calls <- MCCalls
  Types <- MCTypes
  Strconv <- MCStrconv
  Assignments <- MCAssignments
  Float64 <- MCFloat64
  Int64 <- MCInt64
  Runes <- MCRunes
  Compiled <- MCCompiled
  Matches <- MCMatches
  Formatted <- MCFormatted
  Requests <- MCRequests
SPECIFICATION FacadeSpec
INVARIANTS PathIsTheStack ErrorsKeepTheirPaths PathsLeadHome FaultsAreReported AssignsTheValue OptionsAreObeyed VerdictIsTheMeaning PatternsAreChecked
PROPERTY Terminates
CHECK_DEADLOCK FALSE
