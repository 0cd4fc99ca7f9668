SPECIFICATION InboxSpec
CONSTANTS
  s1 = s1
  InboxIds <- OneSubmission
  Reviews <- MCReviews
  MaxReceipts = 0
  MaxEdits = 1
  MaxLoads = 2
  MaxForeign = 0
INVARIANT SavedReviewIsShown
CHECK_DEADLOCK FALSE
