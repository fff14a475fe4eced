CONSTANTS
  s1 = s1
  s2 = s2
  a = a
  Sessions = {s1, s2}
  Names = {a}
  Clustered = Clustered
  Indexes = {Clustered, a}
  NoBound = NoBound
  NoRow = NoRow
  Values <- MCValues
  Keys <- MCRanks
  Vals <- MCRanks
  MaxIndexId = 2
  MaxEpoch = 2
  Clients <- MCClients
SPECIFICATION Spec
INVARIANTS RTypeOK EntriesMatchRows InsertsNeverDuplicate
PROPERTIES SoleWriter
