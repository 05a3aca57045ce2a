---------------------------- MODULE VolumeLayout ----------------------------
(***************************************************************************)
(* Where the bits of the block map and the inodes are on the device.       *)
(***************************************************************************)
EXTENDS Volume

CONSTANTS BitsPerBlock,    \* bits of a device block
          HeaderBits,      \* bits of bitset_magic and count
          INodesPerBlock   \* inodes of a device block

CeilDiv(n, d) == (n + d - 1) \div d

\* getBlocksInBlockMap counts the bits, and not the header before them.
CodeMapBlocks == CeilDiv(BlockCount, BitsPerBlock)

CodeMapBlockOf == [b \in 0 .. BlockCount - 1 |-> (HeaderBits + b) \div BitsPerBlock]

CodeInodeBlocks == CeilDiv(InodeCount, INodesPerBlock)

CodeInodeBlockOf == [i \in 0 .. InodeCount - 1 |-> i \div INodesPerBlock]
=============================================================================
