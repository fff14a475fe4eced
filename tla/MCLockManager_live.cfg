CONSTANTS
  Sessions = {s1, s2}
  Killers = {s1, s2}
  Nobody = Nobody
  Clustered = Clustered
  NoBound = NoBound
  Values <- MCValues
  Indexes = {Clustered}
  Requests <- AllStatements
SPECIFICATION FairSpec
PROPERTIES EveryRequestEnds
