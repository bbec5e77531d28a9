SPECIFICATION Spec
CONSTANTS
  Absent = Absent
  i1 = i1
  s1 = s1
  n1 = n1
  n2 = n2
  Contents <- Files
  Changes <- OneChange
  Scopes <- FullOrOne
  Exports <- OneExport
  OldFiles <- OneOldFile
  StateIds = {i1}
  Names = {n1, n2}
  Sessions = {s1}
  MaxStates = 1
  MaxPreviews = 1
  MaxImports = 1
  MaxEdits = 2
  MaxTokens = 3
INVARIANTS
  TransactionsAreConsistent
PROPERTIES
  CommitLoadsItsSource
  NothingUnconfirmed
SYMMETRY AnyName
