CONSTANTS
  DOC_SIZE = 2
  Tags = {0, 1, 2}

SPECIFICATION Spec

INVARIANT DocRemembersTag
