SPECIFICATION Spec
CONSTANTS
  FieldsPerFlush = 2
  Scripts <- MCScripts
  Arguments <- MCArguments
  Malformed <- MCMalformed
  Compiled <- MCCompiled
  Means <- MCMeans
INVARIANTS SameMeaning UpvaluesAreShared CodeIsWellFormed
CHECK_DEADLOCK FALSE
