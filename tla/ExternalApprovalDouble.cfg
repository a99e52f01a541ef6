SPECIFICATION FairSpec
CONSTANT Resolvers = {r1, r2}
INVARIANT DoubleResolutionRejected
