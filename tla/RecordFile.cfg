SPECIFICATION Spec
CONSTANTS
  Workers = {w1, w2}
  Flags = {Marked, Replied}
  Marked = Marked
  Initial = 2
  MaxCalls = 3
SYMMETRY MCSymmetry
INVARIANTS IndexKeepsPosts FlagsKept OneRewriter LocksReleased
