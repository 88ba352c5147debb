SPECIFICATION Spec
CONSTANTS
    AnswerLists <- MCAnswerLists
    Junk <- MCJunk
    MaxElements = 6
    IntMax = 13
INVARIANT
    ParsingErrorsThrown
