SPECIFICATION Spec
CONSTANTS
  d = d
  f = f
  g = g
  None = None
  Items = {d, f, g}
  Folders = {d}
  RemotePlaces = {"far"}
  Home <- MCHome
INVARIANTS SavedWhenToldUnlessContinued
PROPERTIES OnlyWhatWasAskedUnlessInherited EveryOperationEndsUnlessContinued
\* A window whose activities never come to zero takes no more requests.
CHECK_DEADLOCK FALSE
