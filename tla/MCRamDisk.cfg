\* A disk of two sectors and requests on two CPUs.
CONSTANTS
  Cpus = {c1, c2}
  NSECTORS = 2
  SECTOR_SIZE = 2
  Shapes <- MCShapes
  Values = {"a", "b"}
SPECIFICATION Spec
INVARIANT TransferredWhole
PROPERTY RefinesSectors
