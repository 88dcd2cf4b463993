SPECIFICATION Spec
CONSTANTS
    Functions <- MCFunctions
    Facts <- MCFacts
INVARIANTS RunsDefined VerdictExact
PROPERTIES Decides
