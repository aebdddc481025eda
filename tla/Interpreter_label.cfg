SPECIFICATION Spec
CONSTANTS
  FieldsPerFlush = 2
  Scripts <- MCLabels
  Arguments <- MCArguments
  Malformed <- MCMalformed
  Compiled <- MCCompiled
  Means <- MCMeans
INVARIANT SameMeaning
CHECK_DEADLOCK FALSE
