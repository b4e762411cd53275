CONSTANTS
  CONFIG_ESESC = TRUE

SPECIFICATION Spec

INVARIANT PrivilegeNeverEscalates
