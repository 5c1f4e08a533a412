SPECIFICATION Spec
CONSTANTS
  Package = {"A", "B", "C"}
  core = "core"
  Declares <- MCDeclares
  Imports <- MCImports
  Lower <- MCLower
  MaxUses <- MCMaxUses
  MaxBuilds = 5
INVARIANTS UsesLink
