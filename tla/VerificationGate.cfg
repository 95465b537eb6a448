SPECIFICATION Spec
CONSTANTS
  manPath = manPath
  schPath = schPath
  layPath = layPath
  pexPath = pexPath
  drcPath = drcPath
  lvsPath = lvsPath
  logPath = logPath
  manFile = manFile
  schFile = schFile
  layFile = layFile
  pexFile = pexFile
  drcFile = drcFile
  lvsFile = lvsFile
  logFile = logFile
  idSch = idSch
  idLay = idLay
  idPex = idPex
  idExtra = idExtra
  idDrc = idDrc
  idLvs = idLvs
  idLog = idLog
  result1 = result1
  result2 = result2
  waiver1 = waiver1
  waiver2 = waiver2
  Gone = Gone
  ManifestPath = manPath
  Ids <- MCIds
  Keys = {result1, result2}
  Paths <- MCPaths
  Files <- MCFiles
  Texts <- MCTexts
  Bundles <- MCBundles
  Changing <- ChangingManifests
  Days = {0, 1, 2}
  MaxArtifactBytes = 2
  MaxReportBytes = 2
  MaxTotalBytes = 7
  MaxFindings = 7
  MaxEdits = 1
INVARIANTS EvidenceIsConsistent AllowedExactlyWhenComplete WaiversAreExact LaterIsNoMilder NoFileTwice
CHECK_DEADLOCK FALSE
