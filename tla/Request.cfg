\* Words of 5 bits, a cache of one entry; the sites of MCRequest.  Requests end.
CONSTANTS
    Requests = {"r1", "r2", "r3"}
    Scenarios <- MCScenarios
    CacheSize = 1
    Word = Word
    WordBits = 5
    Struct <- MCStruct
SPECIFICATION FairSpec
INVARIANTS TypeOK CacheServesAnswers HitsAreSuccesses PanicsAnswered CrossOriginAnswers
INVARIANTS LoggedIsSent LinesSayWhatWasLogged ParsedAsWritten
PROPERTIES RequestsEnd
CHECK_DEADLOCK FALSE
