CONSTANTS
  Main = main
  Others = {p, q}
  Early = {}
  MaxPosts = 2
SPECIFICATION LiveSpec
INVARIANT TypeOK
INVARIANT SavedOnce
PROPERTY EachThreadInOrder
PROPERTY Delivered
CHECK_DEADLOCK FALSE
