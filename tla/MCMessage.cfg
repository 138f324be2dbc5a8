\* Messages with at most two odd fields, written in three ways, and some
\* 38000 other buffers; numbers of 4 bits, nesting up to 2.
CONSTANTS
    UINT32_MAX = 15
    INT32_MAX = 7
    Texts <- MCTexts
    Keys <- MCKeys
    NULL = NULL
    NestingLimit = 2
    NumberSize = 4
    Name <- MCName
    Messages <- MCMessages
    Renderings <- MCRenderings
    OddSources <- MCOddSources
    None = None
CHECK_DEADLOCK FALSE
SPECIFICATION MessageSpec
INVARIANTS TypeOK ValidIffWellFormed RowFaithful ParserCorrect Understood
