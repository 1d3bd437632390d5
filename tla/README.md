# A TLA+ development for nbtrfs

`nbtrfs` is a small file system in C over FUSE: an image file is memory-mapped,
its blocks go through a write-back cache, pages and inodes are allocated from
bitmaps, and names are found through one B-tree per directory. This directory
models the parts of it whose correctness is hardest to see from the code, checks
them with TLC on small instances and proves the main results with TLAPS for all
sizes.

- [The system](#the-system)
- [The modules](#the-modules)
- [The runs](#the-runs)
- [What the checks found](#what-the-checks-found)
- [The proofs](#the-proofs)
- [What is not modelled](#what-is-not-modelled)
- [The plan](#the-plan)

## The system

How it runs: `mkfs.nbtrfs` is the same code compiled with `CACHE_DISABLED`; it
formats an image of zeros and works on the mapping directly. `fuse` is mounted
with `-s` (see the makefiles): one thread, so every file-system call runs to its
end before the next one starts. There is no journal and nothing but the unmount
(`nbtrfs_destroy`) writes the cache back. `cache_fsync` is in the cache's
interface but no FUSE operation calls it yet.

| Component | State | Operations | What makes it correct |
|---|---|---|---|
| LRU list, global dirty list (`lru.c`, `gdl.c`) | circular doubly-linked lists with a size, one node per slot in use (LRU), one per `write_block` (GDL) | push; pop through a pointer *cell*, which is cleared | links agree both ways, one cycle, size right; the pop must not damage the list when the cell is one of its own links |
| free list, index, per-inode dirty lists (`fl.c`, `pci.c`, `dl.c`) | a stack of slots; block to slot; inode to list of blocks | push/pop, insert/lookup/delete, insert/remove | the four structures agree with the entry array after every call |
| block cache (`cache.c`) | the entry array and all of the above | `get_block`, `write_block`, `cache_fsync`, `cache_sync`, `alloc_cache`, `free_cache` | reads return the last write; no dirty page is lost by the unmount; a block is only ever overwritten on disk by its own content |
| disk image (`disk.c`) | the mapping | block copies, open, close | copies whole blocks |
| page allocator, format (`disk.c`, `bitmap.c`, `superblock.c`, `mkfs.c`) | block bitmap over several blocks, `free_blocks`, layout numbers | `alloc_page`, `free_page`, `disk_format` | no page in two hands, none lost, the count is the count |
| B-tree index (`btr.c`) | nodes in pages: keys, children, parent | create, search, insert (with split), delete | finds exactly what is in it; its pages are exactly those in use |
| inode table (`inode.c`) | inode bitmap, table blocks | allocate, free, read, write | no inode in two hands, none with old contents, nothing lost by an unmount |
| file contents (`fuse.c`, `inode.c`) | size, direct and indirect block pointers of an inode, the pages they name | `nbtrfs_read`, `nbtrfs_write`, get/set block | a read returns what was written; a page has one owner |
| directories (`directory.c`) | entry blocks, the entry count in the first of them | add, remove, list | entries, count, index and link counts agree |
| path lookup (`hash.c`, `string.c`) | none | `item_search` | finds the inode and B-tree of a path |
| FUSE operations (`fuse.c`) | none of their own | the file-system calls | each call does all of its parts or none |

How they interact. Everything above the cache holds raw pointers into cache
pages (`get_block` returns `page_data`) and changes them in place, then mostly
calls `write_block` with that same pointer as the buffer; some changes are never
followed by a `write_block`. `write_block` puts a page on two dirty lists: the
global one and, for a page whose header says data, the list of the inode *the
caller names*, which need not be the inode the entry was loaded for. The cache
writes back by slot. The allocator, the B-tree and the inode table all read and
write their blocks through the cache; a B-tree leaf's page is freed by
`btree_delete`; directories drive the B-tree and the inode table; the FUSE calls
drive the directories.

What is hard here. There is no concurrency inside the mount, so the hard
behaviours are sequences: a list through dozens of pushes and pops, four
structures kept in step by straight-line code, arrays shifted by separate loops,
a node at its limit, a cache at its limit (16384 blocks or more, which no test
image has), a bitmap larger than one block (the tests' image is 2 MB and needs
one), a second format, two records of the same names (entry blocks and index)
that each call must change together. Then failure: a full disk halfway through an
operation, and a kill at any moment, with the unmount's write-back loop as the one place
where the order on disk is decided. `PROJECT.json` lists the hazards, each at its
line, with the properties that cover it.

## The modules

| Module | Models | Notes |
|---|---|---|
| `Ring` | `lru_push`/`lru_pop` and `gdl_push`/`gdl_pop`, which are the same code | Operators on one record. Pointers are nodes or `NULL`; the set of allocated nodes is explicit. There is one pop per kind of cell the callers pass: a cell outside the list (`Unlink`), the head's `prev` link (`PopAtTailLink`), the list's head pointer (`PopAtHead`). |
| `RingList` | the lives of the two lists, driven by the calls of `cache.c` | `LruSpec`: insert, touch, evict, the loop of `free_cache`. `GdlSpec`: push per write, removal by `gdl_pos`, removal of the tail. |
| `ListSpec` | what the two lists promise: a sequence, newest first | `RingList` implements it (`RingIsAList`), with the walk along `next` as refinement mapping. |
| `BlockCache` | one mount's cache and the image | Extends `Ring` for the LRU list. See below. |
| `SyncOrder` | `BlockCache` with a history of the order of first writes | Says in which order the unmount writes blocks; `InodeTable` rests on it. |
| `DurableBlocks` | what the cache promises | `BlockCache` implements it (`IsDurable`). |
| `BlockAlloc` | `alloc_page`, `free_page`, layout arithmetic, `disk_format` | The bitmap is kept per bitmap block, so that the block/bit arithmetic is modelled. |
| `BTree` | one directory's index | The root word by word, because the code runs over the ends of its arrays. |
| `InodeTable` | inode bitmap and table, in the cache and on disk | See below. |
| `FileData` | contents of files, block pointers, and the pages they share with B-tree leaves | See below. |
| `Directory` | entry blocks, indexes, reference counts and the calls on names | See below. |
| `NameSpace` | what the calls on names promise: a tree of names | `Directory` implements it (`IsANameSpace`) until a file gets a second name. |
| `RingProofs`, `RingListProofs`, `BlockCacheProofs`, `BlockAllocProofs`, `BTreeProofs`, `InodeTableProofs`, `FileDataProofs`, `DirectoryProofs` | theorems | `BlockCacheProofs` also holds those of `SyncOrder`, `BTreeProofs` that of `MCBTree`. |
| `MC*` | instances for TLC | They say what the bounds are for; the configurations give the constants. `MCRingList` and `MCBTree` add a history variable each: which list is followed, and the most entries a directory has had. `MCSyncOrder` adds a variable that never changes, the inodes of the instance, and so checks two instances in one run. |

How they fit. Every module above the cache keeps its own blocks and uses of the
cache only what is established below it: a page announced by `write_block` is as it is
now after the unmount, a page changed without that may or may not be (`DurableBlocks`),
announced blocks are written in the order of their first announcement (`SyncOrder`).
`FileData` uses the allocator's promise that `alloc_page` returns the lowest free page
(`BlockAlloc`), `Directory` the index's that up to `MAX_KEYS` names are found exactly
(`BTree`) and the table's that numbers rise and never come back (`InodeTable`, theorem
`TableNumbersOnlySpent`).

Definitions named `X_Something` beside a definition `X`, introduced with "A slip",
are wrong variants of `X`: plausible coding errors that the runs must notice.
They are not part of any specification.

### BlockCache and the code

One action is one call, because the mount has one thread; the write-back loops
are split so that a kill can fall between two blocks.

| Code | Action |
|---|---|
| `get_block`, resident, with more than one entry | `Hit` (with one entry nothing changes) |
| `get_block`, miss, free slot | `Miss` |
| `get_block`, miss, no free slot | `Evict`: the victim reaches the disk if dirty, the push faults, the process is gone |
| `write_block` | `WriteHit`, `WriteMiss`; `WriteFaults` when `dl_find_block` runs off the list; with a full cache it starts with `Evict` |
| a change through the pointer `get_block` returned | `Poke` |
| `cache_fsync` | `StartFsync`, one `FsyncStep` per block, `FsyncEnd` (`dl_delete`) |
| `nbtrfs_destroy` | `StartSync`, one `SyncStep` per dirty-list node, `SyncEnd` (`free_cache`) |
| the process dies; the image is mounted again | `Kill`; `Remount` |

State: `cache` is the entry array (`gpos` says whether `gdl_pos` is set; it then
points to the newest node of the slot, which is the first in the list), `pci` and
`dl` are the maps their hash tables implement, `free` and `gdl` are sequences
(`RingIsAList` shows that the ring of `gdl.c` is one), `lru` is kept link by link,
because the eviction's fault is in its links. `wild` is the uninitialised `next` of
the first node of a per-inode list: when the node is made, the model chooses
whether it happens to be null. Page contents are a small set, told apart by
whether the header says data.

### BTree and the code

`word` lays `keys`, `children` and `parent` of the root out in one row of words, so that
the write of `keys[MAX_KEYS]` (which is `children[0]`) and of `children[MAX_KEYS + 1]`
(which is `parent`) do what the C program's layout makes them do. An insertion before the
end of a full root always leaves a key where a child was (`Corrupt`; proved as
`SplitCorrupts`). The next call on the directory takes that key for a page
number and reads the image at 4096 times a hash; `FollowsKey` ends the process there,
which is what an address outside the mapping does. That the product wraps around to an
address inside it is not modelled. So what is claimed of the index (`SingleLevel`,
`NoPhantom`, `KeysMatch`) is claimed until `num_keys` passes `MAX_KEYS`, which is when this has
happened (`Alive`). `entries` is a history variable: what was inserted and
not deleted. Keys are assumed different from page numbers, which is true of the
hashes with overwhelming likelihood and of the instances by construction.

### BlockAlloc and the code

`disk_format` is a sequence of steps, one per call of `alloc_page`, and may start again
on an image in use; it calls `alloc_page` for the layout and for the root, and last
writes back its early copy of the superblock (`Seal`). `owned` is a history variable:
the pages handed out and not freed. Callers free only pages they own, which is how
`btree_delete` uses `free_page`. `Word` stands for 2^64.

### InodeTable and the code

`bm` and `slot` are bitmap and table as the cache has them, `disk` the same on the image,
`queue` the blocks announced by `write_block` since the mount. There are more bits than
slots (4092 and 110 on the makefiles' image), which the layout arithmetic of the module
reproduces. An allocation takes the first clear bit and, if its number has no slot,
fails with the bit set in place and not announced (`AllocateFails`); otherwise it sets
everything in the slot but size and block pointers. `inode_free` computes a bit that
lies before the bitmap block (`FreeBit`), so that its own bits stay; what is changed
in the place it hits instead is outside the model. A slot is its reference count and
whether anything else was stored in it. `inode_write` stores what its callers have made of
the inode (`Updated`): contents, or in `nbtrfs_link` one reference more. No caller lowers the
count; `inode_free` is called for an inode with one reference. `Unmount` is the whole
write-back and the next mount; `Kill` ends the process after any number of its blocks,
before it, or in an eviction, which has written one block.

### FileData and the code

A page is a header and a row of words; a word of a data page is a cell of the file, a
word of an indirect block is a page number. The widths are scaled (12 direct blocks to
one, 4092 bytes to two words) and the code's limits with them: `MaxIndex` is the last
index `inode_get_block` answers for, with `MaxIndex - Direct < Usable`. `nbtrfs_write` is modelled
from the point where it has its inode (`fuse.c:359`): before it lie the lookup, a `mknod` for
a name that is not there, `-EISDIR` for a directory and a failing `inode_read`, none of which
happens to a file the kernel has looked up. It goes over
the pages by a recursive function whose step is `WriteTurn`, one turn of its loop; the turn takes the page from
`inode_get_block` or a new one, stores it by `inode_set_block`, and announces the data page
only. `NewLeaf` and `FreeLeaf` are what directories do with the same allocator. A leaf's
page goes back with its contents, the first word of which is its own number; that
matters when it becomes an indirect block, which is not cleared: such a file is
`stale`, and what its reads return is not claimed. A word that is no page number and
gets followed (`Wild`) ends the model. `written` is a history variable: what `write` has
reported. A kill before the unmount takes the image back to the state the mount found,
which the model has been in; a kill inside the unmount is `InodeTable`'s subject.

### Directory and the code

A path is a sequence of names. `item_search` is a recursive function of how much of it has
been walked; the variable
`overlap`, chosen once, says what this build's `snprintf` does when its target is one of
its arguments: keep the path so far, or lose it (then nothing below the root's own
names is found). On a file `btree_search` looks at the file's own leaf, so that the walk stays
there for a component equal to the file's name: `a/a` is found where `a` is a file. The
kernel asks for names in directories only, which `Found` adds. A directory's inode holds its entry slots, `PerBlock` to a block, and the
entry count of its first block. `Spot` is the slot `directory_add_entry` settles on,
`Dropped` what `directory_remove_entry` does at one match; the `break` that leaves only the
inner loop, the count that is stored back as it was, and the test `0 == count` that takes a
later block for the first are in `directory_remove_entry` and `Listed`. A first block is not
cleared, so that its count is any of `StaleCount`. `mknodFails` is the full disk.
`rename` is a link and an unlink in one step: it is one call of one thread, and a kill
between them is a kill within a mount, whose work is lost as a whole until the unmount.
`did` is a history variable: which kinds of call have given a file a second name.

## The runs

`FileData`, `BlockCache` and `InodeTable` take between one and two minutes, `Directory`
about one, the others half a minute or less. The five that fail as expected are explained
in the next section.

| Run | Instance | Shows |
|---|---|---|
| `RingList` | 5 nodes, 4 in use, either list | soundness, order, and that only the eviction can fault |
| `RingListEviction` | same | fails as expected |
| `BlockCache` | 2 slots, 3 blocks, 3 dirty-list nodes; 1 inode and 2 contents, or 2 inodes and data pages only | the books of the cache, the per-inode lists with blocks written under either inode, the order and the termination of the write-back, and that the cache implements `DurableBlocks` |
| `BlockAlloc` | 16 blocks, 6 bits per bitmap block, 4 inodes per block, 32 for 2^64 | no page in two hands, none lost, across bitmap blocks, formats and a full image |
| `BTree` | `MAX_KEYS` 4, 6 entries, 5 hashes, 7 pages | exact up to `MAX_KEYS` entries (`SmallIsExact`); past it, until the arrays are run over, still one level, no dangling child, no phantom name, and keys in step with the children (`KeysMatch`) |
| `BTreeLost` | 5 entries, 8 pages | fails as expected |
| `InodeTable` | 16 blocks, 3 bits per bitmap block, 2 inodes per table block: 6 numbers, 4 with a slot; counts up to 2 | no inode in two hands, none with old contents, a failure only when all numbers are spent, nothing lost by an unmount |
| `InodeTableFreed` | same | fails as expected |
| `FileData` | 2 files, 3 pages, 2 words per page, 1 direct block, writes of 1 to 3 of 6 cells | reads return what was written or fail; a page has one owner; none leaks below the indirect block |
| `Directory` | 3 names in the root and 1 beneath the first, 3 inode numbers, 2 entries to a block, at most 2 references | names, entries, counts and the promise of a tree of names |
| `DirectoryLists`, `DirectoryReaddir` | same | fail as expected |

What the less obvious properties say. `FreshIsZero` is what makes `inode_allocate` right
although it clears nothing: whatever bit is clear, its slot is blank. It is claimed until
a kill tears a write-back (`torn`): a table block can then be on disk without the bitmap
block that goes with it, because blocks are written in the order of their first
announcement, and the code has no recovery. `ReadNeverLies` allows a read to fail or to stop
early, which holes and lost indirect entries make it do, and forbids it any other
answer; `DirectReadsBack` then says when it must succeed. `EntriesAreLive` holds of all
sequences of calls: an active entry's inode is in use, and it has at least as many
references as entries. `FoundIsLive`, `ListedIsFound` and `FoundIsListed` say how long index and
entries stay in step: until a rename replaces a name or moves a directory, for the
first two; until a file gets a second name, for the last.

Why the bounds are enough. *Rings*: the cases of the code are one node (the size test),
two nodes (a node's links meet), the head, the tail and a node between them; four nodes
have all of them, and a fifth gives a node to reuse. *Cache*: two slots is the smallest
cache the proofs admit and the first with a non-trivial LRU list; three blocks make it
run full, two inodes let a block be on two lists; three dirty-list nodes let one slot
have several nodes and a second slot come between them. Two inodes together with two
contents are left to the proofs (`Within` in `MCSyncOrder`): a page that is not data is
on no inode's list. The safety results do not rest on these bounds: they are proved for
all. *Allocator*: three bitmap blocks, the last one only partly used; six layout pages
and ten more. Also proved for all sizes. *B-tree*: four is the smallest even `MAX_KEYS`
for which the split's halves both hold something on either side of the middle key, and
the value the comment of `config.h` gives; every position of an insertion or deletion
occurs with it, and six entries go two past it; also proved for all sizes. *Inode
table*: two bitmap blocks and two table blocks, numbers on either side of both
boundaries, two numbers without a slot, and a second reference; what is lost of a
write-back is lost once (`Kill`), after which `FreshIsZero` is no longer claimed; also
proved for all sizes. *File contents*: a write begins and ends at either word of a page,
covers one page or two, starts in the direct block, at its end or past it; two entries
of the indirect block, so that there is a first and a later one; three pages, so that
the disk runs full in the middle of a write and a page passes from a leaf to a file, to
an indirect block, and back; also proved for all sizes. *Directories*: two entries to a
block and three names make a second block; a name can be removed in the first and in the
second, its slot reused, the first block emptied while the second is not; one nested
name gives directories with contents, moved, replaced, and removed; it is the same as
its directory's, so that lookup finds it on a file too. A stale count of 3 is more than
a block has entries. Also proved for all sizes, but for the refinement. The bounds are
named: `MaxNodes` (the real one is the number of slots), `MaxGdl`, `MaxEntries`,
`MaxWrite`, `MaxCell`, `LastInode`, `MaxRefs`, and two blocks to a directory
(`HasRoom`).

Deadlock is checked except where the system really stops: after `free_cache` or a
fault (`MCRingList`), in `BTree`, whose directory is full at the bound, or dead, and in
`Directory`, where all inode numbers are spent and all names removed.

Fairness. Only `BlockCache` assumes any: weak fairness of the steps inside
`cache_fsync` and inside `cache_sync`. The loops do nothing but memory copies and list
operations in the only thread, so the thread runs on until it returns or is killed;
nothing is assumed about callers, who need never call anything, nor about kills.
`CallsReturn` is the one liveness property.

## What the checks found

Each of these is a run that TLC refutes; `PROJECT.json` ("findings") has the lines.

1. **The first eviction kills the process** (`RingListEviction`). `lru_pop` is passed
   `&cache->lru->prev` and clears that link after repairing it; the push that follows
   dereferences it. Proved for every cache size: `EveryEvictionDies`.
2. **The entry after the 250th of a directory is lost** though `btree_insert` returns 0
   (`BTreeLost`).
3. **The number of a freed inode stays taken** (`InodeTableFreed`), against the comment at
   `inode.c:122`: the bit that is cleared lies before the bitmap. Proved for every size of the
   image: `TableNumbersOnlySpent`.
4. **A renamed file's old name is still found** and no longer listed (`DirectoryLists`): the
   link raised the reference count, the unlink neither lowers it nor deletes the leaf.
5. **Nested paths are found only if an overlapping `snprintf` happens to work**
   (`DirectoryReaddir`). `hash.c:63` passes `curr_path` as target and as argument. Where that
   loses what was there, a name in a directory other than the root can be made, is
   listed, and is not found, and the assertion of `readdir` fails.

The models show more that no run is spent on:

- `free_cache` frees one node of the LRU list and leaks the others (`PopAtHead` clears the
  head the next iteration starts from).
- A search of a per-inode dirty list for a second block follows the first node's
  uninitialised `next` link (`WriteFaults`; `dl.c:22-25` sets no link, `dl.c:69-82` walks by it).
- `free_blocks` is the number of all blocks after a format (`Seal`), and a freed page lowers
  it further (`free_page`).
- A second format of an image keeps the bits of the first one's pages (`StartFormat`).
- An insertion before the end of a full root puts a key among its children
  (`InsertSplit`): the root that was split is a copy, the root itself is still full, and the
  shift runs one element over `keys` into `children`, or the last round of
  `btree_update_parent_keys` does. Proved for every `MAX_KEYS`: `SplitCorrupts`.
- A full disk is a NULL dereference in `btree_insert` and in `btree_split_root`
  (`InsertFaults`, `SplitFaults`).
- `btree_split_root` splits a copy of the root, and the two pages it takes stay in use
  with nothing pointing to them (`InsertSplit`, `inner`).
- With its inode number a removed file's data pages do not come back: nothing frees them (no action of `FileData` takes a page from a file). The 2 MB
  image holds 109 files over its life, removed ones included.
- A file keeps one page beyond the direct blocks: later entries of the indirect block are
  not stored (`inode_set_block`), `write` reports success, and the page with the
  first entry is never announced to the cache (`Announced`).
- A directory whose first block has lost all its entries lists nothing (`Listed`).
- A directory that is renamed gets a new, empty index; what was in it is listed and not
  found.
- A kill in the unmount can leave an inode in the table without its bit in the bitmap,
  so that the number is given out again with the old size and blocks (what `torn` exempts).

Everything else the runs ask holds. In particular, as long as the cache does not run
full, no written block is lost by an unmount; as long as a directory has at most
`MAX_KEYS` entries its index is exact; and a file without holes in its direct blocks reads
back as written.

## The proofs

All theorems are about the specifications the runs check, for every value of the
constants that the named assumptions allow: `NullIsNoNode`, `NodesAreEnough` (a list
bound of two or more and enough nodes), `BlockCacheConstants` (two slots or more;
slots are `0 .. CacheSize - 1`; null is none of the values), `BlockAllocConstants` (sizes
are positive, the number of blocks fits in a word), `BTreeConstants` (hashes and page
numbers are positive and distinct, there are finitely many hashes, `MAX_KEYS` is even and
at least four), `InodeConstants` (sizes are positive and every number with a bit lies on a
block of the image), `FileDataConstants` (see `FileData`), `DirectoryConstants` (paths are nonempty
sequences of names and closed under `Front`, the name of an unused slot is none of the
names, sizes are positive).

**Rings** (`RingProofs`). `PushSound` and `UnlinkSound`: a push, and a pop through a cell
outside the list, take a sound ring to a sound ring. Sound means that links agree in
both directions, the size is the number of nodes, and no proper subset of the nodes is
closed under `next`; the last is how "one cycle" is said without recursion. The proofs
take a set closed under the new links and build from it a set closed under the old
ones. `EvictionFaults`: a pop through the head's `prev` link leaves a list on which a push
faults.

**The lists** (`RingListProofs`). The invariant `ListInv` is the type, soundness and
the bound on the size while running, and, inside `free_cache`, that the head is either
null already or the list is still sound. It yields
`LruTypeOK`, `LruRingSound`, `LruOnlyEvictionDies`, `GdlRingSound`, `GdlNeverDies`, and the
converse `EveryEvictionDies`.

**The cache** (`BlockCacheProofs`). `SlotAccounting`, `DirtyQueued` and `ListedResident` are
not inductive alone. The invariant `CacheInv` adds that an entry on the ring is full
(its page and inode are set, which the write-back needs to keep the disk's type) and
that inside `cache_fsync` the inode at work has a list. `CacheStep` has one lemma per
action; the parts an action leaves alone are dealt with once. From it:
`CacheTypeOK`, `CacheSlotAccounting`, `CacheDirtyQueued`, `CacheListedResident`,
and the refinement `CacheIsDurable`: the initial states map to
initial states of `DurableBlocks`, and every step maps to a step or a stutter, with the
view of a block read from its slot if it is resident and from the disk if not, and the
blocks owed being those with a dirty slot. `SyncEnd` is the step that needs the
invariant most: the list is empty, so by `DirtyQueued` nothing is dirty, so nothing is
owed; what remains different between view and disk are pages changed in place without
a `write_block`, which the store does not promise.

**The allocator** (`BlockAllocProofs`). `AllocInv` describes the pages in every stage of a
format. Its core is that block and bit of a page number are a bijection onto the bitmap
(`BitInBitmap`, `BitIsOnePage`), for any number of bits per block, so that setting one
page's bit touches no other page's. From it `AllocTypeOK`, `AllocPagesHeld`,
`AllocNoPageLost`.

**The inode table** (`InodeTableProofs`). `FreshIsZero` speaks of the cache and is not
inductive: an unmount or a kill replaces the cache by the disk. `TableInv` adds `OnDisk`, a
block that has not been announced is the same in the cache and on disk, and
`DiskIsFresh`, the property for the disk. The bits need care: a failed allocation sets one
in place without announcing it, so `OnDisk` compares only bits of numbers with a slot.
`FreeMisses` is the arithmetic of `inode_free`: there are at least two blocks before the
inode bitmap, so that the bit it computes is negative whatever the image's size.
`RestartView` says what a restart makes of each number according to which of its two
blocks was written. `TableFailsOnlyWhenSpent` needs no invariant, but that numbers without
a slot come after all that have one (`DivisionMonotone`). The others:
`TableTypeOK`, `TableFreshIsZero`, `TableNumbersOnlySpent`, `TableUnmountKeeps`.

**The per-inode lists and the write-back's order** (`BlockCacheProofs`). `CacheListKeepsDirty` is
an action property: under `CacheInv`, `KeepsDirtyStep` goes through the actions that change
a list. A write only adds to one; an `FsyncStep` and a `SyncStep` take off the block they have
just cleaned and no other (`CacheInv` says that slot, block and index belong together, so
that it is the same block); the list that `FsyncEnd` deletes is empty. `CacheSyncsInOrder` needs
more than the property, because a block written again gets a second node, nearer to the
head. `OrderInv` adds `AllDirty`: while the file system is in use and `cache_fsync` has not
run, all that was recorded and all that is queued is dirty, so that a newly recorded block
has no node yet. And it adds `Fifo`: if of two recorded blocks the earlier one is dirty,
behind every node of the later one, towards the tail, lies one of the earlier. `SyncStep`
takes the tail's node; by `Fifo` no recorded block before its own is dirty.

**The index** (`BTreeProofs`). `IndexInv` says that either a child pointer is already a key
(`Corrupt`) and `num_keys` has passed `MAX_KEYS`, or `TreeInv` holds, which sees the children of the root as a row: each place holds a
different leaf in use, the keys of the leaves rise along it, the root's keys are theirs,
behind the row everything is null, and the directory holds a key as often as there are
leaves of it in use. That a leaf in use has a place is not part of it (`Cover` says so):
an insertion at the end of a full root loses one. `NonfullWords`, `SplitWords` and `RemovedWords` are
about the shifting loops: what each word of the root is afterwards, with keys and
children in one address space. In a node with room the loops' bounds do not let one
shift reach into the other array; in a full one they do, and `SplitCorrupts` shows that it
always ends the same way: the last key lands on `children[0]` and stays, or, if the new leaf
belongs there, `btree_update_parent_keys`, which goes one element too far, puts a key over
it. So no full root ever takes an insertion before its end and remains a tree, and the
exemption in the properties (`Alive`) covers those states and no others (`NotOverrunIsATree`).
`ChildPos` and `SearchedIsRemoved` say that the place found by the loops is the right one, in
the second case that `btree_remove_key` finds by the root's keys the child that `btree_search`
found by the leaves'. `InsertRow`, `AtEndKeepsTree` and `DeleteRow` put them together. From
`IndexIsATree`: `IndexTypeOK`, `IndexSingleLevel`, `IndexNoPhantom`, `IndexKeysMatch`. The type's bound on the
entries and `IndexSmallIsExact` need to know what `Entries`, a sum over all hashes, is: the
number of leaves in use (`EntriesAreLeaves`). The sum is a recursive function over sets of
hashes; it exists because counting leaves satisfies its equation (`TallyExists`) and is unique
by the least number of hashes for which it could differ (`TallyIsUnique`). `SmallInv` then
says that as long as the most entries the directory has had are at most `MAX_KEYS`, `Cover`
holds: only `InsertAtEnd` breaks it, on a full root all of whose leaves have places, and that
makes `MAX_KEYS + 1` leaves in use.

**The contents of files** (`FileDataProofs`). The block pointers of an inode, those in its
indirect block included, and the number of the indirect block are *places* (`Place`, `At`).
`FileInv` has these parts. `Apart`: a page lies at one place; the exception is a file
whose indirect block began as a leaf and may therefore name itself. `Spare`: what a
page no file uses can hold. `Numbers`: an indirect block that began clean holds page
numbers. `OnDisk` and `CleanOnDisk`: what the unmount finds of a page that is not announced, which
is its present contents except for indirect blocks, of which the disk has zeros or a
leaf. `Cells`: a page at place `i` of a file holds what was written to the file there.
`Covered` and `Spent`: what was written below the indirect block has a page, and if something
was written past it without one, then the disk was full, so that every page free since has been
a leaf and a later indirect block is a `stale` one. `NoneLost`: before any write got past
the direct blocks every page in use has a place or is a leaf. A turn of `nbtrfs_write`'s loop has one of
five outcomes (`TurnOutcome`): it stops, writes over the page that is there, takes a page for a
direct block, takes one for the indirect block with that block there or made on the
way, or takes a page and loses it. Each keeps `LoopInv`, the invariant for the file in the
middle of a write (`TurnKeeps`), and `WriteLoopInv` carries it over the turns: the loop is a
recursive function, which exists because a function satisfying its equation can be given
(`WriteLoopExists`), and the first turn after which `LoopInv` failed would contradict
`TurnKeeps`. This is induction over the turns, by the least counterexample. `FileTypeOK`, `FilePagesApart`,
`FileNoPageLeaks` follow from `FileInvariant`. `nbtrfs_read` is treated the same way: `ReadInv` says that
the row it has put together is that of the cells written, as far as it has come.
`FileReadNeverLies` follows from `Cells`, `FileDirectReadsBack` from `Covered` and `Cells` together.

**Names** (`DirectoryProofs`). Every call is put together from three changes, and the lemmas
are about those: an inode more (`IsAllocated`), an entry more (`CanAdd`), an entry less
(`CanDrop`; `directory_remove_entry` drops none, one or two, `RemovedIs`). Walks exist and are
unique by the least length at which they could differ (`WalkedStep`); in a directory a walk
goes down (`WalkedDown`), at a file it may also stay (`WalkedEither`). There are four
invariants, each resting on those before it.

- `BaseInv` holds always and is about entries and counts: a count covers the active entries
  that name its inode, counted as a set of pairs of a directory and a slot (`RefsCover`).
  That alone is not kept by a removal, which frees an inode with one reference and leaves
  inactive entries with its number behind. `SlotOK` adds what makes it work: a count of one
  stands for the one entry the number was made with, which is active and does not lie in the
  directory it names, because a link or a rename raises the count to two and nothing lowers
  it again but to zero. So the entry dropped last is the one that is there, and a directory
  does not free itself. From it `DirectoryTypeOK` and `DirectoryEntriesAreLive`.
- `AgreeInv` is about index and entries, until a rename replaces a name or moves a directory.
  It speaks of the trees a walk may look at: all of them, or the root's alone where the
  walked path is lost (`Looked`). A name has at most one leaf and a directory one tree
  (`LeavesSingle`, `TreesApart`); a leaf in a directory that is there leads to an inode of its
  kind (`LeavesLive`) and, if that has one reference, is the leaf of its entry
  (`LeavesOwn`); an active entry has a leaf that leads where it does, and its name to
  itself (`EntriesIndexed`, `EntriesApart`). `LeavesOwn` is what makes a removal right: the
  leaf it deletes, that of the name, is the one that led to the freed inode. Trees of removed
  directories stay and are exempt by `IsLive`; a name found through one would be a walk
  through a removed directory, which `SearchStands` excludes. `NoLeaf` says that a name the
  kernel did not find has no leaf, so that `mknod` and `link` give it its first; `RenamedAgree`
  that the link in a rename leaves the old name where the unlink looks for it. What the
  kernel finds lies in a directory that the walk looks at (`ParentIs`). From it
  `DirectoryFoundIsLive` and `DirectoryListedIsFound`.
- `CountInv` holds always: a directory's entry count covers its active entries. It makes
  `directory_add_entry` safe: `SpotIsFree`, the slot it settles on because as many active ones
  came before it as the count says is not active itself.
- `EnteredInv` holds until a link or a rename: no inode has a second reference, and each leaf
  has its entry. A removal takes the leaf with the entry, because the count was one; an
  addition takes no other name's slot, by `SpotIsFree`. `DirectoryFoundIsListed` follows from
  it and `CountInv`: the leaf that a found name has gives an entry, and `directory_list` does not
  stop before it.

Only model-checked: `RingIsAList` (the walk along the ring is a recursive function over
the ring; `RingSound` is proved of the links instead); `CallsReturn` (liveness); and
`IsANameSpace`, the refinement of `NameSpace` by `Directory`, whose parts about one state are
`DirectoryFoundIsLive` and its companions. Liveness and `ENABLED` are out of the provers' reach;
induction over data is too in the form of the library's theorems, and is done by least
counterexample where it is done.

## What is not modelled

- A kill in the middle of one block's `memcpy`, which could tear a block.
- The kernel's own write-back of the mapping: a block that was copied into the mapping
  counts as on disk. After a kill of the process it is; after a power loss it need not be.
- What a torn write-back does to directories, indexes and files: `InodeTable` follows it for
  bitmap and table only. There is no code that would notice or repair it.
- The chains of the hash tables in `pci.c` and `dl.c`: they are maps here. `dl_index`, which
  `dl_pop` uses in place of the `next` link, is not kept: a list is only popped to its end
  by `cache_fsync`, which runs on lists that nothing has been removed from.
- `free_cache` on the dirty list: it is empty by then, as `SyncEnd` requires.
- After a fault (a NULL or wild dereference) the process is dead; that the C standard
  allows more is not modelled. Where `inode_free` clears a bit outside its block, the
  place it hits is not modelled either.
- B-tree code for inner nodes: not reached while the root has no parent and leaves for its
  children, which `SingleLevel` checks until the arrays have been run over. After that the
  model ends with the first call (`FollowsKey`).
- Modes, owners and times, so that `chmod` and `utimens` are no actions of `Directory`: they are
  `inode_write` in `InodeTable`. `truncate`, `open` and `ioctl` do nothing in the code.
- Names as strings: 255 characters, where the terminating NUL falls into the active
  flag; two names with one hash; a name that is the tail of another (in a second block
  read two bytes off, a name is seen without its first two characters). Directories of
  three blocks and more.
- Old contents of a page that show as active entries in a directory's new block; the
  count they show as is modelled.
- What the kernel and libfuse guarantee before a call (a name exists or does not, its
  parent is a directory) is the guard of the action, marked external in `PROJECT.json`.
- `bitmap_print`, `btree_print`, `print_pair`, logging and secure wiping.

## The plan

Done: all components whose state the code keeps, as listed above. What is left, in this
order:

1. `IsANameSpace` step by step: that a call changes what is found in one place only.
   `EnterKeepsSteps` and `DropLeaves` say what it does to the leaves.
2. `RingIsAList` by least counterexample along the walk.
3. The directory over the cache, with its blocks in the order of the write-back, to say
   what a torn unmount leaves of names.
