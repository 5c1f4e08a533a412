SPECIFICATION Spec
CONSTANTS
  Hosted <- MCHosted
  MainBodies <- MCMainBodies
  MainLocals = 2
  ZeroLow = {}
INVARIANTS FramesHoldSource SeesArguments CallsNest
