--------------------------- MODULE VirtualMemory ---------------------------
(***************************************************************************)
(* What virtual memory promises to programs: each has a memory of its own, *)
(* which keeps what the program writes.  Programs do not see where a page  *)
(* is, when it gets a frame, or whether it is on the disk in between.      *)
(***************************************************************************)
CONSTANTS
  Space,   \* address spaces
  Page,    \* pages of an address space
  Value,   \* what a program may store
  File,    \* what a page of a program holds at first
  Unset,   \* a page that nothing has been written to: it may hold anything
  None     \* no memory

VARIABLE memory   \* memory[s][p]

Init == memory \in [Space -> {None, [p \in Page |-> Unset]}]

\* A program stores v.
Store(s, p, v) ==
  /\ memory[s] # None
  /\ memory' = [memory EXCEPT ![s][p] = v]

\* fork: the child has what its parent has.
Copy(s, t) ==
  /\ memory[s] # None /\ memory[t] = None
  /\ memory' = [memory EXCEPT ![t] = memory[s]]

\* exec gives a program a new memory, with nothing in it that another one has stored; exit
\* takes it away.
Replace(s) ==
  /\ memory'[s] \in {None} \cup [Page -> {Unset, File}]
  /\ memory' = [memory EXCEPT ![s] = memory'[s]]

\* Without a page to give, the kernel stops.
Stop == memory' = [s \in Space |-> None]

Next ==
  \/ \E s \in Space, p \in Page, v \in Value : Store(s, p, v)
  \/ \E s, t \in Space : Copy(s, t)
  \/ \E s \in Space : Replace(s)
  \/ Stop

Spec == Init /\ [][Next]_memory
=============================================================================
