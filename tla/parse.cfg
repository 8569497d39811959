SPECIFICATION Spec
CONSTANTS
    Ids <- SomeIds
    Bodies <- SomeBodies
    MaxAnswers = 2
    ScanLimit = 3
CHECK_DEADLOCK FALSE
INVARIANTS AnswersUnderstood NoAnswerWaits ErrorNeedsEmptyAnswer
