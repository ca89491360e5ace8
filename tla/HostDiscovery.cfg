\* More hosts than workers, and more than one port per host.
CONSTANTS
  Hosts = {h1, h2, h3}
  Workers = {w1, w2}
  NPorts = 2
  NoHost = NoHost
SPECIFICATION FairDiscovery
INVARIANTS DiscoveryExact NobodyLeftBehind
PROPERTIES DiscoveryEnds
