\* The whole pass on formulas of up to ten nodes.
SPECIFICATION PassSpec
CONSTANTS
  Formulas <- PassFormulas
INVARIANTS
  FormulaPreserved
  FrontierSuffices
  RootsFixedTrue
  RollbackComplete
  ChildrenCover
  ProbeKeepsModels
