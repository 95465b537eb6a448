SPECIFICATION Spec

CONSTANTS
  c1 = c1
  c2 = c2
  c3 = c3
  Contents <- AllContents
  Named = {c2}
  Package = {"mod", "extra", "MOD"}
  Info = {"METADATA", "INSTALLER", "RECORD"}
  Metadata = "METADATA"
  Record = "RECORD"
  Spellings <- AllSpellings
  Paths <- AllPaths
  Place <- Leading
  Expected = {"script"}
  Absent = Absent
  Odd = Odd
  NoClaim = NoClaim
  BadClaim = BadClaim
  NoName = NoName
  NoSums = NoSums
  NoCode = NoCode
  Builds <- AllBuilds
  Required <- ModulePath
  RequiredSource <- ModuleRelative
  Root = "src"
  Split <- AllSplit
  Folded <- AllFolded
  Portable <- AllPortable
  Canonical <- AllCanonical
  Kinds = {"file", "directory", "link", "special"}
  MaxEntries = 4
  MaxEntry = 3
  MaxTotal = 5
  Installs <- AllInstalls
  Scans <- AllScans
  Damaged = Damaged
  NoInstall = NoInstall
  Nothing = Nothing
  Torn = Torn
  MaxInterruptions = 2
  MaxRestarts = 1

INVARIANT PublishedIsSound
 
