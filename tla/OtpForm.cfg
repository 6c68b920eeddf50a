SPECIFICATION Spec
CONSTANTS
  Chars = {a}
  Empty = Empty
  Lengths = {1, 2}
  MaxDeferred = 1
  Lifetimes = {0, 3}
  Intervals = {1}
  MaxExpiries = 2
  Second = 2
INVARIANTS
  SubmittedIsShown
  SlotsFollowLength
  ExpiredOnce
PROPERTIES
  SettersCompose
  NoStaleCall
  NeverForgotten
