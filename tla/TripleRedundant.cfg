CONSTANT Values = {0, 1}
SPECIFICATION VoteSpec
INVARIANT MismatchFails
