SPECIFICATION FairSpec
CONSTANTS
  Documents <- MCDocuments
  MaxFormFields = 1
  MaxSubmissions = 1
CHECK_DEADLOCK FALSE
INVARIANTS CleanReturnMeansReclaimed NoRecorderOutlivesBrowser ResultIsFinished SubmissionsAccounted
PROPERTIES CancelReturns NothingLeftBehind
