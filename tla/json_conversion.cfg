SPECIFICATION JsonSpec
CONSTANTS
  IntHalf = 4
  Strings <- MCStrings
  NotUtf8 <- MCNotUtf8
  Cut <- MCCut
  Undefined = {0, 16}
  Values <- MCValues
  Texts <- MCTexts
INVARIANTS JsonTypeOK CacheFollows
PROPERTIES ExactTextComesBack ExactValueComesBack
