SPECIFICATION Spec
CONSTANTS
  main = main
  byval = byval
  byref = byref
  method = method
  override = override
  Function = {main, method, override}
  Method = {method, override}
  Virtual = {method, override}
  Params <- MCParams
  Locals <- MCLocals
  Overrides <- MCOverrides
  ElementKinds = {"val"}
  StaticKinds = {"val"}
  Main = main
  MaxOperands = 3
  MaxFrames = 3
  MaxLeak = 1
CHECK_DEADLOCK FALSE
INVARIANTS SlotsRegistered FramesDisjoint
