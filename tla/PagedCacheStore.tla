--------------------------- MODULE PagedCacheStore ---------------------------
(***************************************************************************)
(* The paged key/value cache: two buffers addressed by (block index,       *)
(* offset in the block).  The writes are the calls self.k_cache(...) and   *)
(* self.v_cache(...) of HPUAttentionImpl.forward, the block copy is        *)
(* HPUAttentionBackend.copy_blocks.  The buffers are allocated zeroed, so  *)
(* a slot never written holds the zero key KZero and the value 0.          *)
(***************************************************************************)
EXTENDS Naturals

CONSTANTS
  Blocks,     \* physical block indices of the cache
  BlockSize,  \* tokens per block
  Keys,       \* key vectors (model values)
  Vals,       \* value vectors (small naturals)
  KZero       \* the all-zero key vector

ASSUME KZero \in Keys /\ 0 \in Vals /\ BlockSize \in Nat \ {0}

VARIABLES kcache, vcache

Offsets == 0 .. BlockSize - 1
Slots   == Blocks \X Offsets

CacheTypeOK ==
  /\ kcache \in [Blocks -> [Offsets -> Keys]]
  /\ vcache \in [Blocks -> [Offsets -> Vals]]

CacheInit ==
  /\ kcache = [b \in Blocks |-> [o \in Offsets |-> KZero]]
  /\ vcache = [b \in Blocks |-> [o \in Offsets |-> 0]]

(* insert_or_update_cache with block_offsets: token t of the call goes  *)
(* to slot (idx[t], off[t]).  The slots of one call are distinct          *)
(* (spec.md 4.1), so the order of the tokens does not matter.            *)
WriteSlots(cache, idx, off, x) ==
  [b \in Blocks |-> [o \in Offsets |->
     IF \E t \in DOMAIN idx : idx[t] = b /\ off[t] = o
     THEN x[CHOOSE t \in DOMAIN idx : idx[t] = b /\ off[t] = o]
     ELSE cache[b][o]]]

(* insert_or_update_cache without offsets (the prompt path, where key has *)
(* been unflattened to block_indices.size(0) blocks): row j, block_size   *)
(* tokens, replaces block idx[j].                                         *)
WriteBlocks(cache, idx, rows) ==
  [b \in Blocks |->
     IF \E j \in DOMAIN idx : idx[j] = b
     THEN rows[CHOOSE j \in DOMAIN idx : idx[j] = b]
     ELSE cache[b]]

(* copy_blocks(kv_caches, src_to_dsts) on one buffer. *)
CopyBlocks(cache, srcToDst) ==
  [b \in Blocks |->
     IF \E s \in DOMAIN srcToDst : srcToDst[s] = b
     THEN cache[CHOOSE s \in DOMAIN srcToDst : srcToDst[s] = b]
     ELSE cache[b]]
=============================================================================
