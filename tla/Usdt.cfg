SPECIFICATION Spec
CONSTANTS
  Links = {l1, l2}
  Names = {"u1", "u2"}
  Args = {"a", "b"}
  BadArgs = {}
  Binaries <- MCBinaries
  Kernels <- MCKernels
  MaxSpecs = 3
SYMMETRY Symm
INVARIANTS
  FiresWithItsSpec
  IdsConserved
