CONSTANT Member = {1, 2, 3, 4}
SPECIFICATION Spec
INVARIANTS MergeIsJoin EventsAreTheDifference
