SPECIFICATION Spec
CONSTANT MaxCount = 4
INVARIANTS
  TypeOK
  ExpectationConsistent
  HeartbeatsConserved
  ProtectsOnlyOnShortage
