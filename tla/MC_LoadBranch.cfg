CONSTANTS
  R0 = R0
  x1 = x1
  x2 = x2
  l1 = l1
  b1 = b1
  b2 = b2
  b3 = b3
  NoPC = NoPC
  NoTrigger = NoTrigger
  AddrMod = 2
  LGT_SIZE = 2
  LdConfThreshold = 0
  MaxConf = 2
  MaxRetired = 6
  DOC_SIZE = 1
  Tags = {0}

SPECIFICATION Spec
SYMMETRY Sym

INVARIANT DocTypeOK
INVARIANT LdbpTypeOK
INVARIANT LGTKeysUnique
INVARIANT LGTNeverLearnsClass7or9
PROPERTY PrefetchStrideObserved
