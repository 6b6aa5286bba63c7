SPECIFICATION Spec
CONSTANTS
  N = 3
  PlainNames = {a, b}
  HiddenNames = {h}
  DotsNames = {dd}
  FileNames = {b}
  FrameLimit = 4
INVARIANTS ListedUnderItsOwnPath
