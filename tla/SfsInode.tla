------------------------------ MODULE SfsInode ------------------------------
(***************************************************************************)
(* Inodes: their reference and open counts (src/lab8/kern/fs/vfs/inode.c), *)
(* the cache of inodes of the simple file system and how files grow and    *)
(* shrink on the disk (src/lab8/kern/fs/sfs/sfs_inode.c).                  *)
(*                                                                         *)
(* An operator takes the file system f as it is before a call and returns  *)
(* it as it is after: handlers compose them in the order of their calls.   *)
(* Contents are left out; sizes and positions count bytes, blocks have B   *)
(* of them, and which block a file got is left out.  A call of the file    *)
(* system is one step: the kernel does not switch in it.                   *)
(***************************************************************************)
EXTENDS Integers, FiniteSets, FiniteSetsExt

CONSTANTS
  Root,      \* the root directory
  File,      \* the files in it
  Gone,      \* stands for an inode that is not in memory
  B,         \* SFS_BLKSIZE
  NDIRECT,   \* SFS_NDIRECT
  MaxSize    \* SFS_MAX_FILE_SIZE (a model bound)

ASSUME SfsAssumption ==
  /\ Root \notin File /\ IsFiniteSet(File)
  /\ B \in Nat \ {0} /\ NDIRECT \in Nat /\ MaxSize \in Nat

Node == File \cup {Root}

\* f.mem[n] is the inode of n in memory, f.disk[n] the one on the disk, f.entries[n]
\* the indices that have a block in its indirect block, which is written at once,
\* f.unused the number of free blocks, f.saved the one that the super block and the
\* free map on the disk tell; f.ok is false after a failed assertion.
DiskInode == [size : 0..MaxSize, blocks : Nat, indirect : BOOLEAN]
Inode     == [din : DiskInode, ref : Nat \ {0}, open : Nat, dirty : BOOLEAN]

ASSUME GoneAssumption == Gone \notin Inode

FileSystem ==
  [mem : [Node -> Inode \cup {Gone}], disk : [Node -> DiskInode],
   entries : [Node -> SUBSET (NDIRECT..MaxSize - 1)],
   unused : Nat, saved : Nat, ok : BOOLEAN]

\* The inode of n as the system sees it.
Din(f, n) == IF f.mem[n] = Gone THEN f.disk[n] ELSE f.mem[n].din

-----------------------------------------------------------------------------
(***************************************************************************)
(* References.                                                             *)
(***************************************************************************)
RefInc(f, n)  == [f EXCEPT !.mem[n].ref = @ + 1]
OpenInc(f, n) == [f EXCEPT !.mem[n].open = @ + 1]

\* sfs_load_inode
Load(f, n) ==
  IF f.mem[n] # Gone THEN RefInc(f, n)
  ELSE [f EXCEPT !.mem[n] =
          [din |-> f.disk[n], ref |-> 1, open |-> 0, dirty |-> FALSE]]

\* sfs_fsync
Fsync(f, n) ==
  IF f.mem[n].dirty
  THEN [f EXCEPT !.mem[n].dirty = FALSE, !.disk[n] = f.mem[n].din]
  ELSE f

\* inode_ref_dec and sfs_reclaim; no file is unlinked, so nlinks is not 0.
RefDec(f, n) ==
  IF f.mem[n].ref = 1
  THEN [Fsync(f, n) EXCEPT !.mem[n] = Gone]
  ELSE [f EXCEPT !.mem[n].ref = @ - 1]

\* inode_open_dec and sfs_close
OpenDec(f, n) ==
  LET g == [f EXCEPT !.mem[n].open = @ - 1]
  IN  IF g.mem[n].open = 0 THEN Fsync(g, n) ELSE g

vfs_close(f, n) == RefDec(OpenDec(f, n), n)

-----------------------------------------------------------------------------
(***************************************************************************)
(* The file system as a whole (src/lab8/kern/fs/sfs/sfs_fs.c).             *)
(***************************************************************************)
\* Mutant: the inodes that are still in memory are not written.
InodesNotSynced(f) == [f EXCEPT !.saved = f.unused]

\* sfs_sync: all inodes in inode_list, the super block and the free map.
SyncAll(f, S) == FoldSet(LAMBDA n, g : Fsync(g, n), f, S)

sfs_sync(f) ==
  [SyncAll(f, {n \in Node : f.mem[n] # Gone}) EXCEPT !.saved = f.unused]

\* What of f is left when the machine is off.
OnDisk(f) == [f EXCEPT !.mem = [n \in Node |-> Gone]]

\* sfs_do_mount counts the bits of the free map on the disk.
sfs_do_mount(f) == [f EXCEPT !.unused = f.saved]

-----------------------------------------------------------------------------
(***************************************************************************)
(* Size.                                                                   *)
(***************************************************************************)
Blocks(len) == (len + B - 1) \div B

\* The first g blocks after the last one of the file: those in the indirect block, and
\* those that must be taken from the free ones; a call that failed may have left a
\* block in the indirect block beyond the end of the file.
Added(d, g)     == d.blocks..d.blocks + g - 1
Lacking(f, n, g) == Added(f.mem[n].din, g) \ f.entries[n]

\* The first block that is not direct takes the indirect block as well, which is
\* never given back.
NewIndirect(d, g) == ~d.indirect /\ d.blocks + g > NDIRECT

\* sfs_bmap_get_nolock
Cost(f, n, g) ==
  Cardinality(Lacking(f, n, g)) + IF NewIndirect(f.mem[n].din, g) THEN 1 ELSE 0

\* sfs_bmap_load_nolock, called for k blocks more: it fails when the disk is full.
Loaded(f, n, k) ==
  CHOOSE g \in 0..k :
    /\ Cost(f, n, g) <= f.unused
    /\ g < k => Cost(f, n, g + 1) > f.unused

\* The inode is marked dirty for a direct block and for the indirect one, but not for
\* a block entered in the indirect one.
Extended(f, n, g) ==
  LET d == f.mem[n].din
  IN  [f EXCEPT
        !.mem[n].din.blocks = @ + g,
        !.mem[n].din.indirect = @ \/ NewIndirect(d, g),
        !.mem[n].dirty = @ \/ (g > 0 /\ d.blocks < NDIRECT) \/ NewIndirect(d, g),
        !.entries[n] = @ \cup {i \in Added(d, g) : i >= NDIRECT},
        !.unused = @ - Cost(f, n, g)]

Sized(f, n, size) ==
  [f EXCEPT !.mem[n].din.size = size, !.mem[n].dirty = TRUE]

\* sfs_truncfile(n, len), when the file needs more blocks, and when it needs no more.
Enlarged(f, n, len) ==
  LET k == Blocks(len) - f.mem[n].din.blocks
      g == Extended(f, n, Loaded(f, n, k))
  IN  IF Loaded(f, n, k) = k THEN Sized(g, n, len) ELSE g

\* Mutant: blocks are freed, but their entries in the indirect block are not set to 0.
EntriesKept(f, n, len) ==
  LET d == f.mem[n].din
      k == d.blocks - Blocks(len)
  IN  Sized([f EXCEPT !.mem[n].din.blocks = @ - k, !.unused = @ + k], n, len)

\* sfs_bmap_truncate_nolock
Reduced(f, n, len) ==
  LET d == f.mem[n].din
      k == d.blocks - Blocks(len)
  IN  Sized([f EXCEPT !.mem[n].din.blocks = @ - k,
                      !.entries[n] = @ \ (d.blocks - k..d.blocks - 1),
                      !.unused = @ + k], n, len)

\* It asserts that a file of the right size has the right number of blocks.
Truncate(f, n, len) ==
  LET d == f.mem[n].din
  IN  CASE d.size = len /\ Blocks(len) = d.blocks -> f
        [] d.size = len /\ Blocks(len) # d.blocks -> [f EXCEPT !.ok = FALSE]
        [] d.size # len /\ Blocks(len) > d.blocks -> Enlarged(f, n, len)
        [] d.size # len /\ Blocks(len) <= d.blocks -> Reduced(f, n, len)

-----------------------------------------------------------------------------
(***************************************************************************)
(* sfs_io_nolock between the positions pos < end, to write or to read.     *)
(***************************************************************************)
Least(a, b)    == IF a < b THEN a ELSE b
Greatest(a, b) == IF a < b THEN b ELSE a

WriteEnd(pos, len)      == Least(pos + len, MaxSize)
ReadEnd(f, n, pos, len) == Greatest(pos, Least(pos + len, f.mem[n].din.size))

\* The blocks it adds, and where it comes to.
IoBlocks(f, n, end) ==
  Loaded(f, n, Greatest(0, Blocks(end) - f.mem[n].din.blocks))

Reached(f, n, pos, end) ==
  Greatest(pos, Least(end, (f.mem[n].din.blocks + IoBlocks(f, n, end)) * B))

\* Blocks are added one after the other: it asserts (sfs_inode.c:356) that the first
\* one is not beyond the next one of the file.  A write that comes nowhere, too,
\* enlarges the file to its position.
Io(f, n, pos, end) ==
  LET g  == Extended(f, n, IoBlocks(f, n, end))
      to == Reached(f, n, pos, end)
  IN  CASE pos \div B > f.mem[n].din.blocks -> [f EXCEPT !.ok = FALSE]
        [] pos \div B <= f.mem[n].din.blocks ->
             IF to > f.mem[n].din.size THEN Sized(g, n, to) ELSE g
=============================================================================
