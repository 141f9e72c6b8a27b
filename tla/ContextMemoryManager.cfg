\* Chunks of three bytes: a region that ends within a chunk, one that spans
\* several, and more chunks released by one pop than the free list may hold.
CONSTANTS
  Chunk = {c1, c2, c3, c4, c5}
  chunkSizeBytes = 3
  maxFreeChunks = 2
  MaxRegions = 3
  MaxData = 5
SPECIFICATION Spec
SYMMETRY Symmetry
INVARIANTS
  AllocationsDisjoint
  ChunksInOnePlace
