SPECIFICATION ConSpec
CONSTANTS
    MaxAnswers = 1
    MaxReplies = 2
    MaxPasses = 2
    MaxLosses = 1
PROPERTY AnswersTakenOnce
CHECK_DEADLOCK FALSE
