SPECIFICATION Spec
INVARIANT
  GivenBackIsFresh
