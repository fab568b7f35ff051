SPECIFICATION FairSpec
CONSTANTS
    NoText = NoText
    NoFile = NoFile
    MaxFiles = 2
    Paths <- MCPaths
    Characters <- MCCharacters
    Slacks <- MCSlacks
    Letters <- MCLetters
    Digits <- MCDigits
    Keywords <- MCKeywords
    MaxTokString = 4
    LinkerNames = {"svm_image_v1", "elf"}
    MaxLinkers = 2
    Absent = Absent
    Null = Null
INVARIANTS TypeOK ResourcesAccounted LexerHasItsText TypesBeforeTokens
PROPERTIES TrueMeansRead RunReturns
