--------------------------- MODULE AddressSpaces ---------------------------
(***************************************************************************)
(* The memory of processes: areas and page faults                          *)
(* (src/lab8/kern/mm/vmm.c), page tables (src/lab8/kern/mm/pmm.c), what    *)
(* do_fork, do_execve and do_exit (src/lab8/kern/process/proc.c) do with   *)
(* them, and swapping (src/lab8/kern/mm/swap.c, swap_fifo.c), over the     *)
(* frames of module Pmm.                                                   *)
(*                                                                         *)
(* Swapping works for one address space, check_mm_struct, and only while   *)
(* check_swap runs at boot, with a few frames: afterwards alloc_page calls *)
(* swap_out(NULL) when there is no frame, and the kernel faults.  The      *)
(* model begins with that check, for any accesses; then come processes.    *)
(*                                                                         *)
(* A call runs to its end before another process runs.  As in SfsInode, an *)
(* operator takes the memory M and returns it as it is after; once M.ok is *)
(* false the kernel has stopped.                                           *)
(***************************************************************************)
EXTENDS Pmm

CONSTANTS
  Proc, initproc,  \* process slots, and the one of initproc
  check,           \* stands for check_mm_struct
  None, Swapped,   \* no address space, no entry; an entry for a page on the disk
  NPTE,            \* NPTEENTRY: pages of a page table
  NPDE,            \* NPDEENTRY: page tables of a level 0 directory
  NPages,          \* pages of an address space
  KSTACKPAGE,
  CHECK_VALID_VIR_PAGE_NUM, CHECK_VALID_PHY_PAGE_NUM,
  Images,          \* programs: the segments of each, as areas
  Stack,           \* the area of the user stack
  STACKPAGES,      \* how many of its pages load_icode sets up
  Value,           \* what a program stores in a page
  Written,         \* the pages it stores in (a model bound)
  File,            \* what a page of a program holds at first
  Unset,           \* what a frame holds that was used for something else
  HeapPages,       \* pages of the kernel heap at boot
  MaxHeap          \* at most so many (a model bound)

Space == Proc \cup {check}
Page  == 0..NPages - 1

ASSUME MemoryAssumption ==
  /\ check \notin Proc /\ initproc \in Proc
  /\ NPTE \in Nat \ {0} /\ NPDE \in Nat \ {0} /\ NPages \in Nat \ {0}
  /\ KSTACKPAGE \in Nat \ {0} /\ STACKPAGES \in Nat /\ HeapPages \in Nat /\ MaxHeap \in Nat
  /\ CHECK_VALID_VIR_PAGE_NUM \in 1..NPTE - 1 /\ CHECK_VALID_VIR_PAGE_NUM < NPages
  /\ CHECK_VALID_PHY_PAGE_NUM \in 1..CHECK_VALID_VIR_PAGE_NUM

\* There is memory for the boot and for check_swap, which asserts it (swap.c).
ASSUME BootAssumption ==
  HeapPages + KSTACKPAGE + 2 + CHECK_VALID_PHY_PAGE_NUM <= NFrames

VARIABLES
  M,        \* the memory
  proc      \* proc->state: "none", "runs", "zombie"

vars == <<M, proc>>

\* M.pmm is the allocator, M.content what each frame holds, M.swap the swap slot of each
\* page (a slot belongs to an address, swap.c:106), M.pra_list the pages of check that
\* may be swapped out, M.kstack[p] the first frame of a kernel stack, M.kernel the
\* frames of the kernel heap, M.store the free list put aside by check_swap, M.check_rp
\* the frames it uses.  M.mm[s] is an address space:
\*   areas   mmap_list, with the area's first page and the one after its last
\*   pgdir   its page directory; pd0[d], pt[t] the lower ones; each a frame or None
\*   pte[p]  a frame, Swapped or None
Dir(t) == t \div NPDE
Tab(p) == p \div NPTE
Dirs   == 0..Dir(Tab(NPages - 1))
Tabs   == 0..Tab(NPages - 1)

AddressSpace ==
  [areas: Seq(Nat \X Nat), pgdir: Frame \cup {None}, pd0: [Dirs -> Frame \cup {None}],
   pt: [Tabs -> Frame \cup {None}], pte: [Page -> Frame \cup {None, Swapped}]]

\* None and Swapped are nothing else.
ASSUME NoneAssumption ==
  /\ None \notin Frame /\ Swapped \notin Frame /\ None # Swapped
  /\ None \notin AddressSpace /\ None \notin Allocator

mm_create ==
  [areas |-> <<>>, pgdir |-> None, pd0 |-> [d \in Dirs |-> None],
   pt |-> [t \in Tabs |-> None], pte |-> [p \in Page |-> None]]

PagesOf(area) == area[1]..area[2] - 1

\* Programs, and their stacks, have their areas in the memory of users, and the stack has
\* one page table (memlayout.h, vmm.c: mm_map).
Area == {area \in Page \X (1..NPages) : area[1] < area[2]}

ASSUME AreaAssumption ==
  /\ \A img \in Images : img \in Seq(Area)
  /\ Stack \in Area /\ STACKPAGES <= Stack[2] - Stack[1] /\ Tab(Stack[1]) = Tab(Stack[2] - 1)

\* Op for each member of a sequence, as long as nothing goes wrong.
ForEach(m, seq, Op(_, _)) ==
  LET after[i \in 0..Len(seq)] ==
        IF i = 0 THEN m
        ELSE LET n == after[i - 1] IN IF n.ok THEN Op(n, seq[i]) ELSE n
  IN  after[Len(seq)]

Numbers(a, b) == [i \in 1..b - a + 1 |-> a + i - 1]
PagesIn(area) == Numbers(area[1], area[2] - 1)

-----------------------------------------------------------------------------
(***************************************************************************)
(* Frames.                                                                 *)
(***************************************************************************)
WithFrames(m, f) == [m EXCEPT !.pmm = f, !.ok = f.ok]

free_pages(m, a, n) ==
  WithFrames(
    [m EXCEPT !.content = [b \in Frame |-> IF b \in a..a + n - 1 THEN Unset ELSE @[b]]],
    Freed(m.pmm, a, n))

\* Mutant: the page is not written to its swap slot.
NotWritten(m, p) == m

swapfs_write(m, p) == [m EXCEPT !.swap[p] = m.content[m.mm[check].pte[p]]]

\* _fifo_swap_out_victim and the rest of swap_out: the page that came first.
swap_out(m) ==
  LET p == m.pra_list[1]
  IN  free_pages([swapfs_write(m, p) EXCEPT !.mm[check].pte[p] = Swapped,
                                            !.pra_list = Tail(@)],
                 m.mm[check].pte[p], 1)

\* alloc_page, and what Use makes of the page.  While there is none, swap_out takes one
\* from check_mm_struct; without a check_mm_struct it stops the kernel.
Ready(m) == IF m.pmm.nr_free = 0 /\ m.mm[check] # None THEN swap_out(m) ELSE m

alloc_page(m, Use(_, _)) ==
  LET With(r, a) == IF a \in Frame THEN Use([r EXCEPT !.pmm = Taken(@, a, 1)], a)
                    ELSE [r EXCEPT !.ok = FALSE]
  IN  Then(Ready(m), LAMBDA r : With(r, Found(r.pmm, 1)))

-----------------------------------------------------------------------------
(***************************************************************************)
(* Page tables.                                                            *)
(***************************************************************************)
WithDir(m, s, d) ==
  IF m.mm[s].pd0[d] # None THEN m
  ELSE alloc_page(m, LAMBDA r, a : [r EXCEPT !.mm[s].pd0[d] = a])

WithTable(m, s, t) ==
  IF ~m.ok \/ m.mm[s].pt[t] # None THEN m
  ELSE alloc_page(m, LAMBDA r, a : [r EXCEPT !.mm[s].pt[t] = a])

\* get_pte(p), create = 1
get_pte(m, s, p) == WithTable(WithDir(m, s, Dir(Tab(p))), s, Tab(p))

\* page_insert of frame a with content v; nothing is mapped at p.
page_insert(m, s, p, a, v) ==
  Then(get_pte(m, s, p),
       LAMBDA r : [r EXCEPT !.mm[s].pte[p] = a, !.content[a] = v])

\* swap_map_swappable, when there is a check_mm_struct.
Swappable(m, s, p) == IF m.ok /\ s = check THEN [m EXCEPT !.pra_list = Append(@, p)] ELSE m

pgdir_alloc_page(m, s, p, v) ==
  alloc_page(m, LAMBDA r, a : Swappable(page_insert(r, s, p, a, v), s, p))

\* page_remove_pte
page_remove(m, s, p) ==
  IF m.mm[s].pte[p] \notin Frame THEN m
  ELSE free_pages([m EXCEPT !.mm[s].pte[p] = None], m.mm[s].pte[p], 1)

unmap_range(m, s, area) ==
  ForEach(m, PagesIn(area), LAMBDA r, p : page_remove(r, s, p))

\* The tables of directory d that exit_range visits.
Visited(area, d) ==
  {t \in Tabs : Dir(t) = d /\ Tab(area[1]) <= t /\ t * NPTE < area[2]}

\* Two areas in one directory that do not share their page tables.
Spread(areas) ==
  \E i, j \in 1..Len(areas) : \E d \in Dirs :
    /\ Visited(areas[i], d) # {} /\ Visited(areas[j], d) # {}
    /\ Visited(areas[i], d) # Visited(areas[j], d)

Empty(m, s, t) == \A p \in Page : Tab(p) = t => m.mm[s].pte[p] \notin Frame


\* A directory goes when all tables visited were there: the others in it are lost with
\* it, if there are any.
DirFreed(m, s, area, d) ==
  free_pages([m EXCEPT !.mm[s].pd0[d] = None,
                       !.mm[s].pt = [t \in Tabs |-> IF Dir(t) = d THEN None ELSE @[t]]],
             m.mm[s].pd0[d], 1)

exit_table(m, s, area, d, t) ==
  IF t \in Visited(area, d) /\ m.mm[s].pt[t] # None /\ Empty(m, s, t)
  THEN free_pages([m EXCEPT !.mm[s].pt[t] = None], m.mm[s].pt[t], 1)
  ELSE m

exit_dir(m, s, area, d) ==
  Then(ForEach(m, Numbers(0, Tab(NPages - 1)), LAMBDA r, t : exit_table(r, s, area, d, t)),
       LAMBDA r : IF \A t \in Visited(area, d) : m.mm[s].pt[t] # None
                  THEN DirFreed(r, s, area, d) ELSE r)

exit_range(m, s, area) ==
  ForEach(m, Numbers(Dir(Tab(area[1])), Dir(Tab(area[2] - 1))), LAMBDA r, d :
    IF r.mm[s].pd0[d] = None THEN r ELSE exit_dir(r, s, area, d))

-----------------------------------------------------------------------------
(***************************************************************************)
(* Address spaces.                                                         *)
(***************************************************************************)
\* insert_vma_struct: in the order of their start.  It asserts that areas do not overlap.
insert_vma_struct(m, s, area) ==
  LET l == m.mm[s].areas
      i == CHOOSE i \in 0..Len(l) : /\ \A j \in 1..i : l[j][1] <= area[1]
                                    /\ i < Len(l) => l[i + 1][1] > area[1]
  IN  IF /\ i > 0 => l[i][2] <= area[1]
         /\ i < Len(l) => area[2] <= l[i + 1][1]
      THEN [m EXCEPT !.mm[s].areas = InsertAt(l, i + 1, area)]
      ELSE [m EXCEPT !.ok = FALSE]

\* find_vma
InArea(m, s, p) == \E i \in 1..Len(m.mm[s].areas) : p \in PagesOf(m.mm[s].areas[i])

setup_pgdir(m, s) ==
  alloc_page(m, LAMBDA r, a : [r EXCEPT !.mm[s] = [mm_create EXCEPT !.pgdir = a]])

\* exit_mmap, put_pgdir, mm_destroy
Discard(m, s) ==
  LET l == m.mm[s].areas
  IN  IF m.mm[s] = None THEN m
      ELSE Then(ForEach(ForEach(m, l, LAMBDA n, area : unmap_range(n, s, area)),
                        l, LAMBDA n, area : exit_range(n, s, area)),
                LAMBDA r : free_pages([r EXCEPT !.mm[s] = None], m.mm[s].pgdir, 1))

\* Mutant: the child gets the frame of its parent.
PageShared(m, from, to, p) ==
  page_insert(m, to, p, m.mm[from].pte[p], m.content[m.mm[from].pte[p]])

PageCopied(m, from, to, p) ==
  Then(get_pte(m, to, p), LAMBDA r :
    alloc_page(r, LAMBDA n, a : page_insert(n, to, p, a, n.content[n.mm[from].pte[p]])))

copy_range(m, from, to, area) ==
  ForEach(m, PagesIn(area), LAMBDA r, p :
    IF r.mm[from].pte[p] \in Frame THEN PageCopied(r, from, to, p) ELSE r)

\* The areas are copied from the last to the first.
dup_mmap(m, from, to) ==
  ForEach(m, Reverse(m.mm[from].areas), LAMBDA r, area :
    Then(insert_vma_struct(r, to, area), LAMBDA n : copy_range(n, from, to, area)))

-----------------------------------------------------------------------------
\* do_pgfault: a page that has never been there, or one that is on the disk.
do_pgfault(m, s, p) ==
  Then(get_pte(m, s, p), LAMBDA r :
    CASE r.mm[s].pte[p] = None -> pgdir_alloc_page(r, s, p, Unset)
      [] r.mm[s].pte[p] = Swapped ->
           alloc_page(r, LAMBDA n, a :
             Swappable(page_insert(n, s, p, a, n.swap[p]), s, p)))

\* load_icode of a program: mm_map refuses a segment that begins in another one.
LoadPages(m, s, pages, v) ==
  ForEach(m, pages, LAMBDA r, p : pgdir_alloc_page(r, s, p, v))

Refused(img) ==
  \E i \in 1..Len(img) : \E j \in 1..i - 1 : img[i][1] \in PagesOf(img[j])

Segment(m, s, area) ==
  Then(insert_vma_struct(m, s, area),
       LAMBDA r : LoadPages(r, s, PagesIn(area), File))

\* The segments up to the one refused.
Accepted(img) ==
  SubSeq(img, 1, CHOOSE n \in 0..Len(img) :
                   /\ ~Refused(SubSeq(img, 1, n))
                   /\ n < Len(img) => Refused(SubSeq(img, 1, n + 1)))

\* tools/user.ld links programs so that all segments are in one page table, and the stack
\* is in another gigabyte.  exit_range relies on it: see DirFreed.
ASSUME LinkerAssumption == \A img \in Images : ~Spread(Append(Accepted(img), Stack))

Loaded(m, s, img) ==
  ForEach(m, Accepted(img), LAMBDA r, area : Segment(r, s, area))

WithStack(m, s) ==
  Then(insert_vma_struct(m, s, Stack),
       LAMBDA r : LoadPages(r, s, [i \in 1..STACKPAGES |-> Stack[2] - i], Unset))

load_icode(m, s, img) ==
  Then(Then(setup_pgdir(m, s), LAMBDA r : Loaded(r, s, img)),
       LAMBDA n : IF Refused(img) THEN Discard(n, s) ELSE WithStack(n, s))

-----------------------------------------------------------------------------
(***************************************************************************)
(* check_swap.                                                             *)
(***************************************************************************)
Checking == M.mm[check] # None

\* The frames of a boot: the heap has some, initproc a kernel stack, the rest are free.
Booted ==
  LET start == HeapPages + KSTACKPAGE
  IN  [pmm     |-> [list_add(default_init, free_list, start) EXCEPT
                      !.property[start] = NFrames - start, !.flags = {start},
                      !.nr_free = NFrames - start],
       content |-> [a \in Frame |-> Unset], swap |-> [p \in Page |-> Unset],
       pra_list |-> <<>>, kernel |-> 0..HeapPages - 1,
       kstack |-> [p \in Proc |-> IF p = initproc THEN HeapPages ELSE None],
       mm |-> [s \in Space |-> None], store |-> None, check_rp |-> <<>>, ok |-> TRUE]

\* One of the frames for the check.
TakeFrame(m, i) == alloc_page(m, LAMBDA r, a : [r EXCEPT !.check_rp = Append(@, a)])

\* The free list is put aside and an empty one takes its place.
list_init(f) ==
  [f EXCEPT !.next[free_list] = free_list, !.prev[free_list] = free_list, !.nr_free = 0]

\* check_swap up to the accesses: an area, its page table, and the frames it may use.
CheckBegun ==
  LET area == <<1, 1 + CHECK_VALID_VIR_PAGE_NUM>>
      m == get_pte([Booted EXCEPT !.mm[check] = [mm_create EXCEPT !.areas = <<area>>]],
                   check, 1)
  IN  Then(ForEach(m, Numbers(1, CHECK_VALID_PHY_PAGE_NUM), TakeFrame), LAMBDA r :
           ForEach([r EXCEPT !.store = r.pmm, !.pmm = list_init(@)], r.check_rp,
                   LAMBDA n, a : free_pages(n, a, 1)))

\* check_swap after the accesses, which have left no frame unused.
check_swap_end ==
  LET pmm == [M.store EXCEPT !.flags = M.pmm.flags]
      mm  == M.mm[check]
      m   == [M EXCEPT !.pmm = pmm, !.store = None, !.check_rp = <<>>, !.pra_list = <<>>,
                       !.swap = [p \in Page |-> Unset], !.mm[check] = None]
  IN  ForEach(m, M.check_rp \o <<mm.pt[0], mm.pd0[0]>>, LAMBDA n, a : free_pages(n, a, 1))

EndCheck ==
  /\ Checking /\ M.pmm.nr_free = 0
  /\ M' = check_swap_end
  /\ UNCHANGED proc

-----------------------------------------------------------------------------
(***************************************************************************)
(* What programs do.                                                       *)
(***************************************************************************)
Maps(s, p) == M.mm[s] # None /\ InArea(M, s, p)

PageFault(s, p) ==
  /\ Maps(s, p) /\ M.mm[s].pte[p] \notin Frame
  /\ M' = do_pgfault(M, s, p)
  /\ UNCHANGED proc

\* A program stores v in a page that is there.
Store(s, p, v) ==
  /\ Maps(s, p) /\ M.mm[s].pte[p] \in Frame
  /\ M' = [M EXCEPT !.content[M.mm[s].pte[p]] = v]
  /\ UNCHANGED proc

\* A kernel thread has no memory to copy.
copy_mm(m, p, q) ==
  IF m.mm[p] = None THEN m
  ELSE Then(setup_pgdir(m, q), LAMBDA r : dup_mmap(r, p, q))

\* do_fork by p.  Without frames for a kernel
\* stack nothing happens; any other page that is missing stops the kernel.
Fork(p, q) ==
  /\ ~Checking
  /\ proc[p] = "runs" /\ proc[q] = "none"
  /\ LET a == Found(M.pmm, KSTACKPAGE)
     IN  /\ a # free_list
         /\ M' = IF a = Lost THEN [M EXCEPT !.ok = FALSE]
                 ELSE copy_mm([M EXCEPT !.pmm = Taken(@, a, KSTACKPAGE),
                                        !.kstack[q] = a], p, q)
  /\ proc' = [proc EXCEPT ![q] = IF M'.ok THEN "runs" ELSE @]

\* do_execve, when the file can be opened.  A program that cannot be loaded exits.
Exec(p, img) ==
  /\ ~Checking
  /\ proc[p] = "runs" /\ p # initproc
  /\ M' = Then(Discard(M, p), LAMBDA m : load_icode(m, p, img))
  /\ proc' = [proc EXCEPT ![p] = IF Refused(img) THEN "zombie" ELSE @]

\* do_exit: the memory goes.
Exit(p) ==
  /\ ~Checking
  /\ proc[p] = "runs" /\ p # initproc
  /\ M' = Discard(M, p)
  /\ proc' = [proc EXCEPT ![p] = "zombie"]

\* do_wait: the kernel stack goes.
Wait(p) ==
  /\ ~Checking
  /\ proc[p] = "zombie"
  /\ M' = [free_pages(M, M.kstack[p], KSTACKPAGE) EXCEPT !.kstack[p] = None]
  /\ proc' = [proc EXCEPT ![p] = "none"]

\* kmalloc takes another page, which it never gives back.
slob_new_page ==
  /\ ~Checking
  /\ Cardinality(M.kernel) < MaxHeap
  /\ M' = alloc_page(M, LAMBDA r, a : [r EXCEPT !.kernel = @ \cup {a}])
  /\ UNCHANGED proc

Init ==
  /\ M = CheckBegun
  /\ proc = [p \in Proc |-> IF p = initproc THEN "runs" ELSE "none"]

Step ==
  \/ EndCheck
  \/ \E s \in Space, p \in Page : PageFault(s, p)
  \/ \E s \in Space, p \in Written, v \in Value : Store(s, p, v)
  \/ \E p, q \in Proc : Fork(p, q)
  \/ \E p \in Proc, img \in Images : Exec(p, img)
  \/ \E p \in Proc : Exit(p) \/ Wait(p)
  \/ slob_new_page

Next == M.ok /\ Step

\* Bound: processes run until a block has gone behind all others, as when the last frame
\* comes back.  That breaks the free list (Pmm!PlacedLast): the links of the block lead
\* to itself, and a later alloc_pages hands out frames that are in use.
Bounded == Checking \/ ~M.pmm.tail

Spec == Init /\ [][Bounded /\ Next]_vars

-----------------------------------------------------------------------------
Lists == {M.pmm, M.store} \ {None}

\* All that refers to a frame: <<which frame, what>>.
Entries ==
  LET mapped == {s \in Space : M.mm[s] # None}
  IN       {<<M.mm[s].pgdir, s, "pgdir">> : s \in mapped}
      \cup {<<M.mm[s].pd0[d], s, "pd0", d>> : s \in mapped, d \in Dirs}
      \cup {<<M.mm[s].pt[t], s, "pt", t>> : s \in mapped, t \in Tabs}
      \cup {<<M.mm[s].pte[p], s, "pte", p>> : s \in mapped, p \in Page}

References ==
  (UNION {{<<a, f.nr_free>> : a \in FreeFrames(f)} : f \in Lists})
    \cup {<<a, "heap">> : a \in M.kernel}
    \cup {<<M.kstack[p] + i, p>> : p \in {p \in Proc : M.kstack[p] # None},
                                  i \in 0..KSTACKPAGE - 1}
    \cup {e \in Entries : e[1] \in Frame}

\* A frame has one owner at most: no page, table, stack or piece of the heap lies over
\* another one, whatever fork, exec, exit, wait and swapping do (proc.c, vmm.c, pmm.c,
\* swap.c).
OneOwner ==
  M.ok /\ Bounded => Cardinality(References) = Cardinality({r[1] : r \in References})


Ascending(f) == LET w == Walk(f) IN \A i \in 1..Len(w) - 1 : w[i] < w[i + 1]
Apart(f)     == \A a, b \in Blocks(f) : a < b => a + f.property[a] < b
Sized(f)     == f.flags = Blocks(f) /\ f.nr_free = Cardinality(FreeFrames(f))

\* The free list is in the order of addresses, its blocks do not overlap, no two of them
\* are neighbours, and nr_free is how many frames are in them (default_pmm.c).
FreeListExact ==
  M.ok /\ ~Checking /\ Bounded =>
    Ascending(M.pmm) /\ Mirrored(M.pmm) /\ Apart(M.pmm) /\ Sized(M.pmm)

\* What a page of an address space holds, wherever it is.
Holds(s, p) ==
  CASE M.mm[s].pte[p] \in Frame     -> M.content[M.mm[s].pte[p]]
    [] M.mm[s].pte[p] = Swapped   -> M.swap[p]
    [] M.mm[s].pte[p] = None      -> Unset

\* Each program has a memory of its own that keeps what it stores, through page faults,
\* swapping, fork, exec and exit: the kernel implements module VirtualMemory.
Memory == INSTANCE VirtualMemory WITH
  memory <- [s \in Space |-> IF M.mm[s] = None \/ ~M.ok THEN None
                             ELSE [p \in Page |-> Holds(s, p)]]

ImplementsMemory == Memory!Spec
=============================================================================
