CONSTANTS
  Sessions = {s1, s2, s3}
  Killers = {s1, s2, s3}
  Nobody = Nobody
  Clustered = Clustered
  NoBound = NoBound
  Values <- MCValues
  Indexes = {Clustered}
  Requests <- Statements
SPECIFICATION Spec
INVARIANTS TypeOK MutualExclusion NoGhostWaiters WaitForMapIsAcyclic
PROPERTIES NoOvertaking ImplementsLockTable
SYMMETRY Symmetry
