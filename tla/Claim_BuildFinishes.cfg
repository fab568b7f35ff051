CONSTANTS
    Characters <- MCCharacters
    Texts <- ShortTexts
    Slacks <- NULs
    Letters <- MCLetters
    Digits <- MCDigits
    Keywords <- MCKeywords
    MaxTokString = 8
SPECIFICATION FairSpec
PROPERTIES BuildFinishes
