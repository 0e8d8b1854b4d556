SPECIFICATION FairSpec
CONSTANTS
  Calls = {c1, c2}
  Namespaces = {n1, n2}
  NoNamespace = none
  MaxEvictions = 1
  MaxLag = 2
INVARIANT TypeOK
PROPERTIES DeleteReturnsAfterTermination AttachSucceeds DetachSucceeds
