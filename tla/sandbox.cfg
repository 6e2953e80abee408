SPECIFICATION Spec
CONSTANT None = None
INVARIANTS NoChildLeft OutcomeIsTrue
PROPERTY CallEnds
CHECK_DEADLOCK FALSE
