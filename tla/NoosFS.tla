------------------------------- MODULE NoosFS -------------------------------
(***************************************************************************)
(* NO_OSFS (fs/noosfs.c) as its callers use it: SaveFile, DeleteFile and   *)
(* FormatDisk (noc/vm.c), and the checkpoints of the interaction log and   *)
(* the corpus (noc/interact.c, noc/corpus.c), with power loss and reboot.  *)
(*                                                                         *)
(* Only the shell calls the file system, so operations do not overlap.  A  *)
(* step is one disk write with the changes in RAM that come before it;     *)
(* power can fail between any two steps.  Sector writes are atomic and do  *)
(* not fail.  The allocation bitmap fits in one block.                     *)
(*                                                                         *)
(* Contents: a cluster holds the bytes of the file it was last written for *)
(* (named by the file), directory entries, or neither.                     *)
(***************************************************************************)
EXTENDS Naturals, Sequences, FiniteSets

CONSTANTS
  Names,       \* file names
  NClusters,   \* sb.block_count; cluster 0 is never allocated
  NInodes,     \* sb.inode_count; inode 0 is the root directory
  DirEntries,  \* DIRENT_PER_BLOCK: the directory never gets a second block
  Sizes,       \* file sizes in blocks, at most FS_MAX_BLOCKS
  OffAt,       \* the steps at which the power may go off ("idle": reboots)
  MaxCrashes   \* bound on the power losses

Clusters == 1..(NClusters - 1)
Inodes   == 1..(NInodes - 1)
Nobody   == "nobody"

Steps == {"off", "format", "table", "sb1", "sb0", "mount", "selftest", "idle",
          "unlink", "unentry", "create", "dirblock", "entry", "write", "sync"}

ASSUME NoosFSConstants ==
  /\ NClusters \in Nat /\ NInodes \in Nat \ {0} /\ DirEntries \in Nat
  /\ Sizes \subseteq Nat /\ MaxCrashes \in Nat
  /\ Names \intersect {"dir", Nobody} = {}
  /\ OffAt \subseteq Steps \ {"off"}

VARIABLES
  \* the disk
  sbs,       \* valid superblock copies, a subset of {0, 1}
  dbm,       \* the allocation bitmap
  root,      \* blocks[0] of the root inode, 0 while its size is 0
  dir,       \* the entries in that cluster: the inode of each name, or 0
  inode,     \* the blocks of each inode, in order
  data,      \* what each cluster holds
  \* memory
  mounted, cbm, ibm,
  \* the operation in progress: its step, kind and file, the size asked for,
  \* the inode found or made, the blocks in its in-memory copy and how many
  \* of them are written
  pc, kind, name, want, ino, blocks, written,
  \* history
  saved,     \* what was last saved under each name, see Unknown
  trusted,   \* every operation so far started from bitmaps that cover the disk
  failed,    \* some operation since the last format ended in an error
  crashes

disk == <<sbs, dbm, root, dir, inode, data>>
ram  == <<mounted, cbm, ibm>>
op   == <<kind, name, want, ino, blocks, written>>
hist == <<saved, trusted, failed, crashes>>
fsVars == <<sbs, dbm, root, dir, inode, data, mounted, cbm, ibm, pc, kind, name,
          want, ino, blocks, written, saved, trusted, failed, crashes>>

\* saved[n]: <<size>> of file n, Absent if there is none, Unknown while an
\* operation on n is in progress and after one that failed or was cut off.
Absent  == <<>>
Unknown == <<0, 0>>

FSTypeOK ==
  /\ sbs \subseteq {0, 1}
  /\ dbm \subseteq Clusters /\ cbm \subseteq Clusters
  /\ root \in Clusters \union {0}
  /\ dir \in [Names -> Inodes \union {0}]
  /\ inode \in [Inodes -> Seq(Clusters)]
  /\ data \in [Clusters -> Names \union {"dir", Nobody}]
  /\ mounted \in BOOLEAN
  /\ ibm \subseteq Inodes
  /\ pc \in Steps
  /\ kind \in {"boot", "save", "rewrite", "delete", "format"}
  /\ name \in Names
  /\ want \in Sizes \union {0}
  /\ ino \in Inodes \union {0}
  /\ blocks \in Seq(Clusters)
  /\ written \in 0..want
  /\ saved \in [Names -> {Absent, Unknown} \union {<<w>> : w \in Sizes}]
  /\ trusted \in BOOLEAN /\ failed \in BOOLEAN
  /\ crashes \in 0..MaxCrashes

-----------------------------------------------------------------------------
Elems(s) == {s[i] : i \in DOMAIN s}

\* fs_lookup: the inode of name n, 0 if there is none.  A directory block that
\* was overwritten with file data shows no names.
fs_lookup(n) == IF root # 0 /\ data[root] = "dir" THEN dir[n] ELSE 0

Entries == {n \in Names : dir[n] # 0}
Linked  == {fs_lookup(n) : n \in Names} \ {0}

\* The clusters that the directory and the files in it occupy.
Refs == ({root} \ {0}) \union UNION {Elems(inode[i]) : i \in Linked}

BitmapsCover == Refs \subseteq cbm /\ Linked \subseteq ibm

\* fs_alloc_cluster and fs_alloc_inode: the first free one.
FreeClusters == Clusters \ cbm
NewCluster == CHOOSE c \in FreeClusters : \A d \in FreeClusters : c <= d
FreeInodes == Inodes \ ibm
\* Mutant of NewInode: the bitmap is not consulted.
NewInode_Unchecked == CHOOSE i \in Inodes : \A j \in Inodes : i <= j
NewInode == CHOOSE i \in FreeInodes : \A j \in FreeInodes : i <= j

\* The locals of an operation go out of scope.
Drop ==
  /\ want' = 0 /\ ino' = 0 /\ blocks' = <<>> /\ written' = 0
  /\ UNCHANGED <<kind, name>>

\* The operation returns an error; what it did so far stays.
Fail ==
  /\ pc' = "idle"
  /\ Drop
  /\ failed' = TRUE
  /\ UNCHANGED <<disk, ram, saved, trusted, crashes>>

\* fs_write_file finds no cluster.  corp_write_seq ignores that and writes the
\* bitmap back all the same.
FailWrite ==
  /\ pc' = "idle"
  /\ Drop
  /\ failed' = TRUE
  /\ dbm' \in {dbm} \union (IF kind = "rewrite" THEN {cbm} ELSE {})
  /\ UNCHANGED <<sbs, root, dir, inode, data, ram, saved, trusted, crashes>>

-----------------------------------------------------------------------------
(* The callers.  b_SaveFile unlinks an existing file and creates it again;
   il_save, corp_write and the corpus counter rewrite it in place. *)

Begin(k, n, w) ==
  /\ pc = "idle" /\ mounted
  /\ kind' = k /\ name' = n /\ want' = w
  /\ ino' = fs_lookup(n)
  /\ written' = 0
  /\ saved' = [saved EXCEPT ![n] = Unknown]
  /\ trusted' = (trusted /\ BitmapsCover)
  /\ UNCHANGED <<disk, mounted, ibm, failed, crashes>>

SaveFile(n, w) ==
  /\ Begin("save", n, w)
  /\ pc' = IF fs_lookup(n) = 0 THEN "create" ELSE "unlink"
  /\ blocks' = <<>>
  /\ UNCHANGED cbm

DeleteFile(n) ==
  /\ fs_lookup(n) # 0
  /\ Begin("delete", n, 0)
  /\ pc' = "unlink"
  /\ blocks' = <<>>
  /\ UNCHANGED cbm

\* Mutant of Rewrite: the clusters past the end are freed but stay in the inode.
Rewrite_KeepsTail(n, w) ==
  /\ Begin("rewrite", n, w)
  /\ \/ /\ fs_lookup(n) = 0
        /\ pc' = "create"
        /\ blocks' = <<>>
        /\ UNCHANGED cbm
     \/ /\ fs_lookup(n) # 0
        /\ pc' = "write"
        /\ LET old == inode[fs_lookup(n)] IN
             /\ blocks' = old
             /\ cbm' = cbm \ {old[i] : i \in (w + 1)..Len(old)}

\* fs_write_file starts by freeing, in memory, the clusters past the new end.
Rewrite(n, w) ==
  /\ Begin("rewrite", n, w)
  /\ \/ /\ fs_lookup(n) = 0
        /\ pc' = "create"
        /\ blocks' = <<>>
        /\ UNCHANGED cbm
     \/ /\ fs_lookup(n) # 0
        /\ pc' = "write"
        /\ LET old == inode[fs_lookup(n)] IN
             /\ blocks' = SubSeq(old, 1, IF w < Len(old) THEN w ELSE Len(old))
             /\ cbm' = cbm \ {old[i] : i \in (w + 1)..Len(old)}

(* fs_unlink *)
\* Mutant of UnlinkInode: the clusters are not freed.
UnlinkInode_Leaks ==
  /\ pc = "unlink"
  /\ inode' = [inode EXCEPT ![ino] = <<>>]
  /\ ibm' = ibm \ {ino}
  /\ pc' = "unentry"
  /\ UNCHANGED <<sbs, dbm, root, dir, data, mounted, cbm, op, hist>>

UnlinkInode ==
  /\ pc = "unlink"
  /\ cbm' = cbm \ Elems(inode[ino])
  /\ inode' = [inode EXCEPT ![ino] = <<>>]
  /\ ibm' = ibm \ {ino}
  /\ pc' = "unentry"
  /\ UNCHANGED <<sbs, dbm, root, dir, data, mounted, op, hist>>

UnlinkEntry ==
  /\ pc = "unentry"
  /\ dir' = [dir EXCEPT ![name] = 0]
  /\ pc' = IF kind = "delete" THEN "sync" ELSE "create"
  /\ UNCHANGED <<sbs, dbm, root, inode, data, ram, op, hist>>

(* fs_create: the inode, the first directory block, the entry *)
CreateInode ==
  /\ pc = "create"
  /\ \/ FreeInodes = {} /\ Fail
     \/ /\ FreeInodes # {}
        /\ ino' = NewInode
        /\ ibm' = ibm \union {NewInode}
        /\ inode' = [inode EXCEPT ![NewInode] = <<>>]
        /\ pc' = IF root = 0 THEN "dirblock" ELSE "entry"
        /\ UNCHANGED <<sbs, dbm, root, dir, data, mounted, cbm, kind, name,
                       want, blocks, written, hist>>

\* root_ensure_block.  The write of the empty block and that of the root
\* inode are one step: nothing refers to the block in between.
RootBlock ==
  /\ pc = "dirblock"
  /\ \/ FreeClusters = {} /\ Fail
     \/ /\ FreeClusters # {}
        /\ cbm' = cbm \union {NewCluster}
        /\ data' = [data EXCEPT ![NewCluster] = "dir"]
        /\ dir' = [n \in Names |-> 0]
        /\ root' = NewCluster
        /\ pc' = "entry"
        /\ UNCHANGED <<sbs, dbm, inode, mounted, ibm, op, hist>>

\* dir_add_entry takes the first entry whose inode field is 0.  In a block
\* overwritten by file data that depends on the bytes (a short file leaves
\* zeroes); one overwritten by the self-test has none.
AddEntry ==
  /\ pc = "entry"
  /\ \/ /\ data[root] = "dir" => Cardinality(Entries) >= DirEntries
        /\ Fail
     \/ /\ data[root] = "dir" /\ Cardinality(Entries) < DirEntries
        /\ dir' = [dir EXCEPT ![name] = ino]
        /\ pc' = "write"
        /\ UNCHANGED <<sbs, dbm, root, inode, data, ram, op, hist>>
     \/ /\ data[root] \in Names
        /\ data' = [data EXCEPT ![root] = "dir"]
        /\ dir' = [n \in Names |-> IF n = name THEN ino ELSE 0]
        /\ pc' = "write"
        /\ UNCHANGED <<sbs, dbm, root, inode, ram, op, hist>>

(* fs_write_file: the next block, then the inode *)
WriteBlock ==
  /\ pc = "write"
  /\ written < want
  /\ \/ /\ written < Len(blocks)
        /\ data' = [data EXCEPT ![blocks[written + 1]] = name]
        /\ written' = written + 1
        /\ UNCHANGED <<pc, sbs, dbm, root, dir, inode, ram, kind, name, want,
                       ino, blocks, hist>>
     \/ written = Len(blocks) /\ FreeClusters = {} /\ FailWrite
     \/ /\ written = Len(blocks) /\ FreeClusters # {}
        /\ cbm' = cbm \union {NewCluster}
        /\ blocks' = Append(blocks, NewCluster)
        /\ data' = [data EXCEPT ![NewCluster] = name]
        /\ written' = written + 1
        /\ UNCHANGED <<pc, sbs, dbm, root, dir, inode, mounted, ibm, kind,
                       name, want, ino, hist>>

WriteInode ==
  /\ pc = "write"
  /\ written = want
  /\ inode' = [inode EXCEPT ![ino] = blocks]
  /\ pc' = "sync"
  /\ UNCHANGED <<sbs, dbm, root, dir, data, ram, op, hist>>

\* fs_sync_bitmap, and the operation reports success.
Sync ==
  /\ pc = "sync"
  /\ dbm' = cbm
  /\ saved' = [saved EXCEPT ![name] = IF kind = "delete" THEN Absent ELSE <<want>>]
  /\ pc' = "idle"
  /\ Drop
  /\ UNCHANGED <<sbs, root, dir, inode, data, ram, trusted, failed, crashes>>

-----------------------------------------------------------------------------
(* fs_init, fs_format, fs_mount, power loss *)

FormatDisk ==
  /\ pc = "idle"
  /\ mounted
  /\ pc' = "format"
  /\ kind' = "format"
  /\ saved' = [n \in Names |-> Unknown]
  /\ UNCHANGED <<disk, ram, name, want, ino, blocks, written, trusted, failed,
                 crashes>>

Boot ==
  /\ pc = "off"
  /\ kind' = "boot"
  /\ pc' = IF sbs = {} THEN "format" ELSE "mount"
  /\ UNCHANGED <<disk, ram, name, want, ino, blocks, written, hist>>

FormatBitmap ==
  /\ pc = "format"
  /\ dbm' = {}
  /\ pc' = "table"
  /\ UNCHANGED <<sbs, root, dir, inode, data, ram, op, hist>>

\* The inode table, root inode included, is zeroed: no files any more.
FormatInodes ==
  /\ pc = "table"
  /\ inode' = [i \in Inodes |-> <<>>]
  /\ root' = 0
  /\ saved' = [n \in Names |-> Absent]
  /\ trusted' = TRUE /\ failed' = FALSE
  /\ pc' = "sb1"
  /\ UNCHANGED <<sbs, dbm, dir, data, ram, op, crashes>>

\* sb_write_all: the secondary copy first.
FormatSb ==
  /\ \/ pc = "sb1" /\ sbs' = sbs \union {1} /\ pc' = "sb0"
     \/ pc = "sb0" /\ sbs' = sbs \union {0} /\ pc' = "mount"
  /\ UNCHANGED <<dbm, root, dir, inode, data, ram, op, hist>>

\* The inode bitmap is not on the disk: it starts with the root alone.
fs_mount ==
  /\ pc = "mount"
  /\ cbm' = dbm
  /\ ibm' = {}
  /\ mounted' = TRUE
  /\ pc' = IF kind = "boot" THEN "selftest" ELSE "idle"
  /\ UNCHANGED <<disk, op, hist>>

\* kmain's fs_selftest: allocate a cluster, overwrite it, free it again, and
\* write back the bitmap, which is as it was mounted.
fs_selftest ==
  /\ pc = "selftest"
  /\ data' = IF FreeClusters = {} THEN data ELSE [data EXCEPT ![NewCluster] = Nobody]
  /\ pc' = "idle"
  /\ UNCHANGED <<sbs, dbm, root, dir, inode, ram, op, hist>>

PowerLoss ==
  /\ pc \in OffAt
  /\ crashes < MaxCrashes
  /\ crashes' = crashes + 1
  /\ pc' = "off"
  /\ mounted' = FALSE /\ cbm' = {} /\ ibm' = {}
  /\ Drop
  /\ UNCHANGED <<disk, saved, trusted, failed>>

-----------------------------------------------------------------------------
FSInit ==
  /\ sbs = {} /\ dbm = {} /\ root = 0
  /\ dir = [n \in Names |-> 0]
  /\ inode = [i \in Inodes |-> <<>>]
  /\ data = [c \in Clusters |-> Nobody]
  /\ mounted = FALSE /\ cbm = {} /\ ibm = {}
  /\ pc = "off" /\ kind = "format" /\ name \in Names
  /\ want = 0 /\ ino = 0 /\ blocks = <<>> /\ written = 0
  /\ saved = [n \in Names |-> Absent]
  /\ trusted = TRUE /\ failed = FALSE /\ crashes = 0

FSNext ==
  \/ \E n \in Names, w \in Sizes : SaveFile(n, w)
  \/ \E n \in Names, w \in Sizes : Rewrite(n, w)
  \/ \E n \in Names : DeleteFile(n)
  \/ UnlinkInode \/ UnlinkEntry
  \/ CreateInode \/ RootBlock \/ AddEntry
  \/ WriteBlock \/ WriteInode \/ Sync
  \/ FormatDisk \/ Boot \/ FormatBitmap \/ FormatInodes \/ FormatSb
  \/ fs_mount \/ fs_selftest \/ PowerLoss

FSSpec == FSInit /\ [][FSNext]_fsVars

-----------------------------------------------------------------------------
(* Properties *)

\* File n reads back as it was last saved.
ReadsBack(n) ==
  /\ saved[n] = Absent => fs_lookup(n) = 0
  /\ saved[n] \notin {Absent, Unknown} =>
       /\ fs_lookup(n) # 0
       /\ <<Len(inode[fs_lookup(n)])>> = saved[n]
       /\ \A c \in Elems(inode[fs_lookup(n)]) : data[c] = n

\* Saved files read back, and deleted ones are gone, at every moment: an
\* operation on one file, whether it succeeds, fails or is cut off by power
\* loss, harms no other, a mount shows what was saved and the boot-time
\* self-test overwrites none of it.  This is claimed
\* until an operation starts from bitmaps that do not cover the disk.
FilesReadBack == trusted => \A n \in Names : ReadsBack(n)

\* No cluster belongs to two files, or to a file and the directory, and no
\* two names share an inode.
NoSharing ==
  trusted =>
    /\ \A m, n \in Names :
         m # n /\ fs_lookup(m) # 0 /\ fs_lookup(n) # 0 =>
           /\ fs_lookup(m) # fs_lookup(n)
           /\ Elems(inode[fs_lookup(m)]) \intersect Elems(inode[fs_lookup(n)]) = {}
    /\ \A i \in Linked : root \notin Elems(inode[i])

\* Between operations of the first power cycle the bitmaps in memory mark
\* every cluster and inode in use, also after operations that failed, and as
\* long as none failed they mark nothing else: successful saves, rewrites and
\* deletions leak no cluster and no inode.
BitmapsExact ==
  /\ FSTypeOK
  /\ crashes = 0 /\ mounted /\ pc = "idle" =>
       /\ BitmapsCover
       /\ ~failed => cbm = Refs /\ ibm = Linked

-----------------------------------------------------------------------------
(* What the documents say and the code does not do; refuted by a run *)

\* docs/M4-FILESYSTEM.md:3: the file system lets the system "retain data
\* across reboots": a saved file reads back, however often the system boots.
Persistence == \A n \in Names : ReadsBack(n)
=============================================================================
