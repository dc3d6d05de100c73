SPECIFICATION Spec
CONSTANTS
  Generated = {}
  Handlers = {h1, h2}
  BuildInputs <- MCBuildInputs
  ReportInputs <- MCReportInputs
  AgencyInputs <- MCAgencyInputs
  TaskIds <- MCTaskIds
  Seeds <- MCSeeds
  Sources <- MCSources
  Writable <- MCWritable
  Precedes <- MCPrecedes
  LedgerNames = {named, stamped}
  MaxOps = 1
  MaxDeletes = 3
  MaxCalls = 2
  MaxOutside = 1
  h1 = h1
  h2 = h2
  named = named
  stamped = stamped
INVARIANTS TypeOK GraphCurrent LedgerCovers HotIsRouted DriftNotPurgeable SurfacesAgree
PROPERTY PassIsTraceable
SYMMETRY MCSymmetry
CHECK_DEADLOCK FALSE
