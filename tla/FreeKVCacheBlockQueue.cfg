CONSTANT NumBlocks = 5
SPECIFICATION Spec
INVARIANT ListConsistent
PROPERTY RefinesFreeBlockQueue
