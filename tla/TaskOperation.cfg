SPECIFICATION Spec
INVARIANTS StoppedIsQuiet
PROPERTIES CallerReturns KeepsPromise
