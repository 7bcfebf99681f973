------------------------------- MODULE Files -------------------------------
(***************************************************************************)
(* Open files: the descriptor tables of the processes (src/lab8/kern/fs/   *)
(* file.c, src/lab8/kern/fs/fs.c), what vfs_open and vfs_close             *)
(* (src/lab8/kern/fs/vfs/vfsfile.c) make of them, and what do_fork,        *)
(* do_execve and do_exit (src/lab8/kern/process/proc.c) do to them.        *)
(*                                                                         *)
(* A process runs a system call to its end; the steps of a behaviour are   *)
(* the calls of several processes, one after the other in any order.       *)
(* Within a call a struct file passes through FD_INIT and FD_CLOSED;       *)
(* between calls it is FD_NONE or FD_OPENED, with open_count 1.            *)
(***************************************************************************)
EXTENDS SfsInode

CONSTANTS
  Proc,      \* process slots
  Table,     \* places for a files_struct
  None,      \* no process, table or file
  NFD,       \* FILES_STRUCT_NENTRY
  STD,       \* the descriptors that files_closeall skips
  Flags,     \* Flags[n]: the sets of flags that n is opened with
  Capacity,  \* the blocks that files may use
  Seeks,     \* the positions that are sought (a model bound)
  MaxLen,    \* the longest read or write (a model bound)
  MaxLost    \* calls of open with O_CREAT | O_EXCL (a model bound)

FD == 0..NFD - 1

\* A struct file that is open; None stands for one that is not.
OpenFile == [node : Node, pos : Nat, readable : BOOLEAN, writable : BOOLEAN]

ASSUME FilesAssumption ==
  /\ NFD \in Nat /\ STD \in 0..NFD - 1
  /\ Seeks \subseteq 0..MaxSize - 1
  /\ \A fl \in Flags[Root] : fl = {}
  /\ Capacity \in Nat /\ MaxLen \in Nat /\ MaxLost \in Nat
  /\ IsFiniteSet(Table) /\ None \notin Proc \cup Table \cup OpenFile
  /\ None \notin [FD -> OpenFile \cup {None}]

VARIABLES
  fs,       \* the file system: inodes, disk, free blocks
  filesp,   \* proc->filesp
  fds,      \* fd_array of each table in memory
  lost      \* history: references to an inode that vfs_open forgot

vars == <<fs, filesp, fds, lost>>

Live(p)   == filesp[p] # None
Opened(t) == {fd \in FD : fds[t][fd] # None}

\* A descriptor fd of a live process p that is open on a file.
Uses(p, fd) == fs.ok /\ Live(p) /\ fd \in Opened(filesp[p])
FileOf(p, fd) == fds[filesp[p]][fd]
OnFile(p, fd) == Uses(p, fd) /\ FileOf(p, fd).node \in File

SetFile(p, fd, file) == fds' = [fds EXCEPT ![filesp[p]][fd] = file]

\* files_create
FreeTables == {t \in Table : fds[t] = None}

\* fd_array_alloc(NO_FD)
FirstFree(t) == CHOOSE fd \in FD \ Opened(t) : \A e \in FD \ Opened(t) : fd <= e

\* Mutant: the copy is not counted as open.
RefOnly(f, n) == RefInc(f, n)

\* fd_array_dup
Shared(f, n) == OpenInc(RefInc(f, n), n)

\* fd_array_close, and fd_array_dup, of each of the descriptors S of an fd_array.
CloseAll(f, array, S) == FoldSet(LAMBDA fd, g : vfs_close(g, array[fd].node), f, S)
DupAll(f, array, S)   == FoldSet(LAMBDA fd, g : Shared(g, array[fd].node), f, S)

-----------------------------------------------------------------------------
(***************************************************************************)
(* file_open and vfs_open.  The file exists, and there is a free           *)
(* descriptor; O_TRUNC needs a file that can be written.                   *)
(***************************************************************************)
Writes(fl) == fl \cap {"O_WRONLY", "O_RDWR"} # {}

CanOpen(p, n, fl) ==
  /\ fs.ok /\ Live(p) /\ Opened(filesp[p]) # FD
  /\ "O_TRUNC" \in fl => Writes(fl)

\* O_CREAT, too, empties the file.
AfterOpen(n, fl) ==
  LET f == OpenInc(Load(fs, n), n)
  IN  IF fl \cap {"O_TRUNC", "O_CREAT"} # {} THEN Truncate(f, n, 0) ELSE f

Open(p, n, fl) ==
  /\ CanOpen(p, n, fl)
  /\ ~ {"O_CREAT", "O_EXCL"} \subseteq fl
  /\ fs' = AfterOpen(n, fl)
  /\ SetFile(p, FirstFree(filesp[p]),
       [node |-> n,
        pos |-> IF "O_APPEND" \in fl THEN fs'.mem[n].din.size ELSE 0,
        readable |-> "O_WRONLY" \notin fl,
        writable |-> Writes(fl)])
  /\ UNCHANGED <<filesp, lost>>

\* vfs_open fails with E_EXISTS and keeps the reference that vfs_lookup took.
OpenExcl(p, n, fl) ==
  /\ CanOpen(p, n, fl)
  /\ {"O_CREAT", "O_EXCL"} \subseteq fl
  /\ lost[n] < MaxLost
  /\ fs' = Load(fs, n)
  /\ lost' = [lost EXCEPT ![n] = @ + 1]
  /\ UNCHANGED <<filesp, fds>>

-----------------------------------------------------------------------------
file_close(p, fd) ==
  /\ Uses(p, fd)
  /\ fs' = vfs_close(fs, FileOf(p, fd).node)
  /\ SetFile(p, fd, None)
  /\ UNCHANGED <<filesp, lost>>

file_read(p, fd, len) ==
  /\ OnFile(p, fd) /\ FileOf(p, fd).readable
  /\ LET file == FileOf(p, fd)
         end  == ReadEnd(fs, file.node, file.pos, len)
     IN  /\ file.pos < end
         /\ fs' = Io(fs, file.node, file.pos, end)
         /\ SetFile(p, fd, [file EXCEPT !.pos = Reached(fs, file.node, @, end)])
  /\ UNCHANGED <<filesp, lost>>

file_write(p, fd, len) ==
  /\ OnFile(p, fd) /\ FileOf(p, fd).writable
  /\ LET file == FileOf(p, fd)
         end  == WriteEnd(file.pos, len)
     IN  /\ file.pos < end
         /\ fs' = Io(fs, file.node, file.pos, end)
         /\ SetFile(p, fd, [file EXCEPT !.pos = Reached(fs, file.node, @, end)])
  /\ UNCHANGED <<filesp, lost>>

\* A seek beyond the end enlarges the file, whether or not it can be written; where
\* there is no room the position stays.
file_seek(p, fd, pos) ==
  /\ OnFile(p, fd)
  /\ LET file == FileOf(p, fd)
         n == file.node
     IN  /\ fs' = IF pos > fs.mem[n].din.size THEN Truncate(fs, n, pos) ELSE fs
         /\ SetFile(p, fd, IF pos > fs'.mem[n].din.size THEN file
                           ELSE [file EXCEPT !.pos = pos])
  /\ UNCHANGED <<filesp, lost>>

file_fsync(p, fd) ==
  /\ Uses(p, fd)
  /\ fs' = Fsync(fs, FileOf(p, fd).node)
  /\ UNCHANGED <<filesp, fds, lost>>

file_dup(p, fd1, fd2) ==
  /\ Uses(p, fd1) /\ fd2 \notin Opened(filesp[p])
  /\ fs' = Shared(fs, FileOf(p, fd1).node)
  /\ SetFile(p, fd2, FileOf(p, fd1))
  /\ UNCHANGED <<filesp, lost>>

-----------------------------------------------------------------------------
\* copy_files and dup_files; the working directory is the root.
Fork(p, q, t) ==
  /\ fs.ok /\ Live(p) /\ ~Live(q) /\ t \in FreeTables
  /\ filesp' = [filesp EXCEPT ![q] = t]
  /\ fds' = [fds EXCEPT ![t] = fds[filesp[p]]]
  /\ fs' = DupAll(RefInc(fs, Root), fds[filesp[p]], Opened(filesp[p]))
  /\ UNCHANGED lost

\* do_exit: put_files and files_destroy.
Exit(p) ==
  /\ fs.ok /\ Live(p)
  /\ LET t == filesp[p]
     IN  /\ fs' = CloseAll(RefDec(fs, Root), fds[t], Opened(t))
         /\ fds' = [fds EXCEPT ![t] = None]
  /\ filesp' = [filesp EXCEPT ![p] = None]
  /\ UNCHANGED lost

\* do_execve: files_closeall; the program is then opened, read and closed.
Kept(t) == [fd \in FD |-> IF fd < STD THEN fds[t][fd] ELSE None]

Exec(p, n) ==
  /\ fs.ok /\ Live(p)
  /\ LET t == filesp[p]
         f == CloseAll(fs, fds[t], {fd \in Opened(t) : fd >= STD})
     IN  /\ fs' = vfs_close(OpenInc(Load(f, n), n), n)
         /\ fds' = [fds EXCEPT ![t] = Kept(t)]
  /\ UNCHANGED <<filesp, lost>>

\* load_icode fails, leaves the program open, and do_exit finds no mm: put_files is
\* not called, and the table stays in memory.
ExecFails(p, n) ==
  /\ fs.ok /\ Live(p)
  /\ LET t == filesp[p]
         f == CloseAll(fs, fds[t], {fd \in Opened(t) : fd >= STD})
         fd == CHOOSE fd \in FD : /\ Kept(t)[fd] = None
                                  /\ \A e \in FD : e < fd => Kept(t)[e] # None
     IN  /\ fs' = OpenInc(Load(f, n), n)
         /\ fds' = [fds EXCEPT ![t] = [Kept(t) EXCEPT ![fd] =
              [node |-> n, pos |-> 0, readable |-> TRUE, writable |-> FALSE]]]
  /\ filesp' = [filesp EXCEPT ![p] = None]
  /\ UNCHANGED lost

-----------------------------------------------------------------------------
\* The machine runs: bootfs refers to the root.
On == fs.mem[Root] # Gone

\* fs_init and user_main: the first process p has no file open; bootfs, its parent
\* initproc and it refer to the root.
Booted(f) == RefInc(RefInc(Load(sfs_do_mount(f), Root), Root), Root)

FilesOf(p, t) == [q \in Proc |-> IF q = p THEN t ELSE None]
files_create(t) == [s \in Table |-> IF s = t THEN [fd \in FD |-> None] ELSE None]

Boot(p, t) ==
  /\ ~On
  /\ fs' = Booted(fs)
  /\ filesp' = FilesOf(p, t) /\ fds' = files_create(t)
  /\ UNCHANGED lost

\* init_main, when the last process is gone: fs_cleanup(); the machine stops.
Shutdown ==
  /\ fs.ok /\ On
  /\ \A p \in Proc : ~Live(p)
  /\ fs' = OnDisk(sfs_sync(fs))
  /\ fds' = [t \in Table |-> None]
  /\ lost' = [n \in Node |-> 0]
  /\ UNCHANGED filesp

EmptyInode == [size |-> 0, blocks |-> 0, indirect |-> FALSE]

EmptyDisk ==
  [mem |-> [n \in Node |-> Gone], disk |-> [n \in Node |-> EmptyInode],
   entries |-> [n \in Node |-> {}], unused |-> Capacity, saved |-> Capacity, ok |-> TRUE]

Init ==
  /\ fs = Booted(EmptyDisk)
  /\ \E p \in Proc, t \in Table : filesp = FilesOf(p, t) /\ fds = files_create(t)
  /\ lost = [n \in Node |-> 0]

Calls(p) ==
  \/ \E n \in Node : \E fl \in Flags[n] : Open(p, n, fl) \/ OpenExcl(p, n, fl)
  \/ \E fd \in FD : file_close(p, fd) \/ file_fsync(p, fd)
  \/ \E fd \in FD, len \in 1..MaxLen : file_read(p, fd, len) \/ file_write(p, fd, len)
  \/ \E fd \in FD, pos \in Seeks : file_seek(p, fd, pos)
  \/ \E fd1, fd2 \in FD : file_dup(p, fd1, fd2)
  \/ \E q \in Proc, t \in Table : Fork(p, q, t)
  \/ Exit(p)
  \/ \E n \in File : Exec(p, n) \/ ExecFails(p, n)

Next ==
  \/ \E p \in Proc : Calls(p) \/ \E t \in Table : Boot(p, t)
  \/ Shutdown

Spec == Init /\ [][Next]_vars

-----------------------------------------------------------------------------
(***************************************************************************)
(* Properties.                                                             *)
(***************************************************************************)
\* The descriptors, of the tables in memory, that are open on n.
OpenOn(n) ==
  UNION {{<<t, fd>> : fd \in {e \in Opened(t) : fds[t][e].node = n}} :
         t \in Table \ FreeTables}

\* The references that are not descriptors: working directories, bootfs and
\* initproc's table, and the ones that were lost.
OtherRefs(n) ==
  lost[n] + IF n = Root /\ On THEN 2 + Cardinality(Table \ FreeTables) ELSE 0

\* The counts of an inode (inode.c:50-102) are exactly its descriptors and
\* references, whatever order processes fork, dup, close, exec and die in; and an
\* inode is in memory exactly while there is one.
CountsExact ==
  \A n \in Node :
    LET opens == Cardinality(OpenOn(n))
    IN  IF fs.mem[n] = Gone THEN opens = 0 /\ OtherRefs(n) = 0
        ELSE /\ fs.mem[n].open = opens
             /\ fs.mem[n].ref = opens + OtherRefs(n)

\* Every block is free, or belongs to one inode (sfs_inode.c:89-109): none is lost and
\* none is given away twice, although blocks are taken and given back at other times
\* than inodes are written, and a call may fail half way because the disk is full.  No
\* count goes below zero.
Claimed(n) ==
  LET d == Din(fs, n)
  IN  Least(d.blocks, NDIRECT) + Cardinality(fs.entries[n]) + (IF d.indirect THEN 1 ELSE 0)

SpaceExact == fs \in FileSystem /\ fs.unused + MapThenSumSet(Claimed, Node) = Capacity

\* The size of a file, on the disk or in memory, changes only while somebody has it
\* open: closing the last descriptor, dropping the inode and loading it again later
\* lose nothing that was written (sfs_close, sfs_reclaim: sfs_inode.c:539-542, 856-894).
SavedWhenClosed ==
  [][\A n \in Node :
       Din(fs, n)'.size # Din(fs, n).size
         => fs'.mem[n] # Gone /\ fs'.mem[n].open > 0]_vars

\* No assertion of sfs_inode.c fails (violated: see run files_assertions).
AssertionsHold == fs.ok

\* "Called when inode is no longer in use" (sfs_inode.c:854): the inode of a file is
\* in memory only while a living process has it open (violated: see run files_leak).
InodesReclaimed ==
  \A n \in File : fs.mem[n] # Gone =>
    \E p \in Proc : Live(p) /\ \E fd \in Opened(filesp[p]) : FileOf(p, fd).node = n
=============================================================================
