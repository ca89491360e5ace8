CONSTANTS
  Hosts = {h1, h2, h3}
  Named = {h1, h2}
  Workers = {w1, w2}
  NoHost = NoHost
  NoName = NoName
SPECIFICATION FairSpec
PROPERTIES ResultsSurvive
