SPECIFICATION Spec
CONSTANT Packages <- MCPackages
INVARIANTS RoundTrip IdentityMeansComplete SymbolsKeepDeclarations
