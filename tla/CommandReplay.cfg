SPECIFICATION FairCommandSpec
CONSTANTS
  assign = assign  review = review  Commands = {assign, review}  Based = {review}
  MaxAttempts = 4  MaxLosses = 2  MaxForeign = 1  MaxCrashes = 1  MaxEnds = 1  Overlapping = FALSE
INVARIANTS AppliedOnceInOrder AnswersAreTrue
PROPERTIES NothingSentAfterSession EverySubmissionSettles
CHECK_DEADLOCK FALSE
