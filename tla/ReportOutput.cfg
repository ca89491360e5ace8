CONSTANTS
  Hosts = {1, 2, 3}
  Named = {1, 2}
  Workers = {w1, w2}
  NoHost = NoHost
  NoName = NoName
  Lists <- MCLists
  Formats = {"text", "json", "xml"}
SPECIFICATION FairSpec
INVARIANTS OutputExact LossAnnounced NamesExact
PROPERTIES OutputEnds
