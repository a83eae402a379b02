SPECIFICATION Spec
CONSTANTS
  Clients = {c1, c2}
  Requests <- MCRequests
  InitialTexts <- MCTexts
  HandEdits <- MCEdits
  MaxInflight = 1
  MaxLate = 1
  Piece <- MCPiece
  Breaks <- MCBreaks
  Comments <- MCComments
  Uploads <- MCUploads
  Sources <- MCSources
  Squeeze <- MCSqueeze
SYMMETRY Symmetry
INVARIANTS
  DiskMatchesMemory
  UpdateKeepsTheRest
  PanicNeedsUnreadablePort
  JarIsConfiguredVersion
  ReadBack
  InjectedConfigFits
  FilledPageNeverPanics
CHECK_DEADLOCK FALSE
