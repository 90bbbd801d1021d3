\* Chains of references; see MCUris.
SPECIFICATION Spec
CONSTANTS
  Atom <- Atoms
  Given <- AnyReference
  Key <- SubKeys
  MaxPath = 2
  MaxPointer = 2
INVARIANTS DesignatesMeant ReadsBack EqualMeansSameKeys EscapedKeysLeadToThemselves
