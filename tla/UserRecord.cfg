SPECIFICATION RecordSpec
CONSTANTS
  Windows = {w1, w2}
  Others = {o1, o2}
  Perms = {post}
  Options = {color}
  InitPosts = 1
  MaxOps = 4
SYMMETRY MCSymmetry
INVARIANTS
  OnlyStaleSavesUndo
  PasswordSticks
