\* a - on(x) b (one-to-one) and a and|or|unless ignoring(y) b.
SPECIFICATION Spec
PROPERTY JoinQueriesRefinement
CHECK_DEADLOCK FALSE
