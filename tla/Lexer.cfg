CONSTANTS
    Characters <- MCCharacters
    Texts <- MCTexts
    Slacks <- AnySlack
    Letters <- MCLetters
    Digits <- MCDigits
    Keywords <- MCKeywords
    MaxTokString = 4
SPECIFICATION FairSpec
INVARIANTS TypeOK TextIsUnix LineIsCounted MaximalMunch ShortTextStaysInside InputErrorIsInText
           LiteralIsItsText
PROPERTIES OnlyBlanksBetween LfTextsEnd
