\* Heads that fit, end between two chunks, are longer than the kernel's buffer,
\* and are too long; bodies that come with the head or are cut; replies that are
\* read and that are too long; ids that are plain and that are not.
SPECIFICATION FairSpec
CONSTANTS
  Chunk = 3
  Limit = 6
  Buffer = 5
  Heads = {2, 4, 6, 8}
  Bodies = {0, 1, 13}
  Replies = {2, 8, 13}
INVARIANTS TypeOK BufferBounded
PROPERTIES RpcSpec CallReturns
