SPECIFICATION FairFetchSpec
CONSTANTS
  r1 = r1
  r2 = r2
  r3 = r3
  r4 = r4
  w1 = w1
  w2 = w2
  w3 = w3
  Rows = {r1, r2, r3, r4}
  Linked = {r1, r2}
  Titled = {r1, r3, r4}
  WordsOf <- RowWords
  WordOrder <- SortedWords
  Groups <- WordGroups
  Asked <- AskedFor
  Catalogs <- Lists
  PageSize = 1
  TermLimit = 2
  Retries = 1
  MaxChanges = 1
  MaxFetches = 2
  Setups <- AllSetups
  ServerPage = 2
INVARIANTS
  RemoteAnswersAreWhole
  LinksAreUnique
PROPERTY FetchesEnd
CHECK_DEADLOCK FALSE
