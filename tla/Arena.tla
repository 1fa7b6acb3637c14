-------------------------------- MODULE Arena --------------------------------
(***************************************************************************)
(* ArenaAllocator (arena_allocator.cpp): bump allocation in a chain of     *)
(* blocks; BumpAllocator (bump_allocator.cpp) is the chain of one block    *)
(* that never grows.  Addresses are relative to a base that malloc aligned *)
(* to MallocAlign only, so that larger alignments need padding.            *)
(***************************************************************************)
EXTENDS Naturals, Sequences, FiniteSetsExt

CONSTANTS BlockSize,       \* block_size_
          MaxBytes,        \* max_bytes_
          Sizes, Aligns,   \* what users ask for
          MallocAlign,     \* alignment of malloc
          Kinds            \* subset of {"arena", "bump"}: which allocator

ArenaAssumption ==
  /\ BlockSize \in Nat \ {0} /\ MaxBytes \in Nat /\ Sizes \subseteq Nat
  /\ Aligns \subseteq {2 ^ k : k \in 0 .. 6} /\ MallocAlign \in {2 ^ k : k \in 0 .. 6}
  /\ Kinds \subseteq {"arena", "bump"}

VARIABLES kind,
          blocks,          \* blocks_: base, cursor and end addresses
          total_allocated, live  \* live: what users hold

vars == <<kind, blocks, total_allocated, live>>

\* make_block: malloc may return any address aligned to MallocAlign.
Bases == {a \in 0 .. Max(Aligns) - 1 : a % MallocAlign = 0}
Block(base, size) == [base |-> base, cursor |-> base, end |-> base + size]

Init ==
  /\ \E base \in Bases : blocks = <<Block(base, BlockSize)>>
  /\ total_allocated = BlockSize /\ live = {} /\ kind \in Kinds

\* (addr + align - 1) & ~(align - 1)
AlignUp(addr, align) == ((addr + align - 1) \div align) * align

\* Cut `size' bytes at the cursor of the last block of `chain'.
Cut(chain, size, align) ==
  LET n == Len(chain)
      at == AlignUp(chain[n].cursor, align)
  IN /\ blocks' = [chain EXCEPT ![n].cursor = at + size]
     /\ live' = live \cup {[block |-> n, at |-> at, size |-> size, align |-> align]}

Fits(block, size, align) == AlignUp(block.cursor, align) + size <= block.end

Needed(size, align) == size + align - 1

\* allocate: in the current block, or in a new one within max_bytes_, or not at all.
Allocate(size, align) ==
  /\ size > 0
  /\ \/ /\ Fits(blocks[Len(blocks)], size, align)
        /\ Cut(blocks, size, align) /\ UNCHANGED total_allocated
     \/ /\ ~Fits(blocks[Len(blocks)], size, align) /\ kind = "arena"
        /\ LET newSize == Max({BlockSize, Needed(size, align)})
           IN /\ total_allocated + newSize <= MaxBytes
              /\ total_allocated' = total_allocated + newSize
              /\ \E base \in Bases : Cut(Append(blocks, Block(base, newSize)), size, align)
  /\ UNCHANGED kind

\* reset keeps the first block; what users held is gone.
Reset ==
  /\ blocks' = <<[blocks[1] EXCEPT !.cursor = blocks[1].base]>>
  /\ total_allocated' = blocks[1].end - blocks[1].base /\ live' = {}
  /\ UNCHANGED kind

used_bytes == MapThenSumSet(LAMBDA i : blocks[i].cursor - blocks[i].base, 1 .. Len(blocks))

\* rebind_memory, of an empty allocator, allocates the first block anew.
RebindMemory ==
  /\ used_bytes = 0
  /\ \E base \in Bases : blocks' = <<Block(base, BlockSize)>>
  /\ total_allocated' = BlockSize /\ UNCHANGED <<kind, live>>

Next == Reset \/ RebindMemory \/ \E s \in Sizes, a \in Aligns : Allocate(s, a)
Spec == Init /\ [][Next]_vars

-----------------------------------------------------------------------------
\* Allocations are aligned, inside their block and disjoint, whatever address malloc
\* returned and however sizes and alignments are mixed, and the bytes taken from the
\* system stay within max_bytes.
ArenaSound ==
  /\ \A x \in live :
       /\ x.at % x.align = 0
       /\ blocks[x.block].base <= x.at /\ x.at + x.size <= blocks[x.block].cursor
       /\ blocks[x.block].cursor <= blocks[x.block].end
  /\ \A x, y \in live :
       x # y /\ x.block = y.block => x.at + x.size <= y.at \/ y.at + y.size <= x.at
  /\ total_allocated = MapThenSumSet(LAMBDA i : blocks[i].end - blocks[i].base, 1 .. Len(blocks))
  /\ used_bytes <= total_allocated
  /\ BlockSize <= MaxBytes => total_allocated <= MaxBytes
=============================================================================
