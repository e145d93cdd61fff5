SPECIFICATION Spec
CONSTANT Papers <- AllPapers
INVARIANT DetectedBlocksAreShown
CHECK_DEADLOCK FALSE
