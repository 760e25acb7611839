\* Nodes of one to three bits.
SPECIFICATION Spec
CONSTANT
  MaxWidth = 3
INVARIANTS
  TypeOK
  WitnessKept
  FixedAgrees
  DriftBounded
  EmptyNoticed
PROPERTIES
  ChangesReported
VIEW
  View
