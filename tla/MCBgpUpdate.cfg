SPECIFICATION Spec
CONSTANT Updates <- MCUpdates
INVARIANTS WellFormedIsAccepted NothingInvented
PROPERTIES MovesOn ParsingEnds
CHECK_DEADLOCK FALSE
