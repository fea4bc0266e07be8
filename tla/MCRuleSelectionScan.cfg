CONSTANTS
  Rules = {"a", "b", "c"}
  Profiles = {"p", "q"}
  Archs = {"x86_64", "aarch64"}
  Default = "x86_64"
  Versions = {"old", "new"}
  DefaultVersion = "new"
  Spellings <- MCSpellings
  Canonical <- MCCanonical
  Rank <- MCRank
  Contents <- MCContents
  UserFiles <- MCUserFiles
  Commands <- MCCommands
SPECIFICATION Spec
INVARIANTS
  ScanIsSelection
