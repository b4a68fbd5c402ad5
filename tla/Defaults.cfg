SPECIFICATION Spec
CONSTANT Fields <- MCFields
INVARIANTS
  DefaultsKeepMeaning
  DefaultsCompile
CHECK_DEADLOCK FALSE
