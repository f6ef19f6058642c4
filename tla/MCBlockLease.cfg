\* Two owners, three blocks, up to three batches.
CONSTANTS
  ra = ra
  rb = rb
  Owners = {ra, rb}
  b1 = b1
  b2 = b2
  b3 = b3
  Blocks = {b1, b2, b3}
  Steps = {1, 2, 3}
SYMMETRY MCSymmetry
SPECIFICATION Spec
INVARIANTS
  NoUseAfterFree
  IInv
