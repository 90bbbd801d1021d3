\* References to a host and to its documents.
SPECIFICATION Spec
CONSTANTS
  Atom <- Atoms
  Given <- HostOnly
  Key <- SubKeys
  MaxPath = 2
  MaxPointer = 2
INVARIANT DesignatesMeant
