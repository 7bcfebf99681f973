-------------------------------- MODULE Pmm --------------------------------
(***************************************************************************)
(* Page frames: the first-fit free list of src/lab8/kern/mm/default_pmm.c, *)
(* a doubly linked list (src/lab8/libs/list.h) of blocks in the order of   *)
(* their addresses.                                                        *)
(*                                                                         *)
(* An operator takes the allocator f as it is before a call and returns it *)
(* as it is after.  Nothing is assumed of the links: a walk over the list  *)
(* goes where they lead, and f.ok is false when it never comes back to the *)
(* head or an assertion fails.                                             *)
(***************************************************************************)
EXTENDS Integers, FiniteSets, Sequences, SequencesExt

CONSTANT NFrames   \* npage: how many frames there are

ASSUME PmmAssumption == NFrames \in Nat \ {0}

Frame == 0..NFrames - 1
free_list == -1   \* &free_list, the head of the list; as a result: NULL
Link == Frame \cup {free_list}
Lost == -2        \* a walk that does not end

\* f.next and f.prev are the links, f.property the sizes of blocks, f.flags the frames
\* with PG_property, f.nr_free the number of free frames.  f.tail is a history: a block
\* has been put behind all others, which breaks the links (see Placed).
Allocator ==
  [next: [Link -> Link], prev: [Link -> Link], property: [Frame -> Nat],
   flags: SUBSET Frame, nr_free: Int, ok: BOOLEAN, tail: BOOLEAN]

default_init ==
  [next     |-> [e \in Link |-> free_list],
   prev     |-> [e \in Link |-> free_list],
   property |-> [a \in Frame |-> 0],
   flags    |-> {},
   nr_free  |-> 0,
   ok       |-> TRUE,
   tail     |-> FALSE]

-----------------------------------------------------------------------------
(***************************************************************************)
(* list.h                                                                  *)
(***************************************************************************)
Between(f, e, prev, next) ==
  [f EXCEPT !.prev[next] = e, !.next[prev] = e, !.next[e] = next, !.prev[e] = prev]

list_empty(f) == f.next[free_list] = free_list

list_add(f, at, e)        == Between(f, e, at, f.next[at])
list_add_before(f, at, e) == Between(f, e, f.prev[at], at)

\* Nobody reads what is left in an element once it is out of the list; the model forgets
\* it, as long as the links agree.
Forgotten(f, e) ==
  IF f.tail THEN f
  ELSE [f EXCEPT !.next[e] = free_list, !.prev[e] = free_list, !.property[e] = 0]

list_del(f, e) ==
  Forgotten([f EXCEPT !.next[f.prev[e]] = f.next[e], !.prev[f.next[e]] = f.prev[e]], e)

\* The elements that a loop over list_next comes to: more than NFrames if it does not end.
Walk(f) ==
  LET from[x \in Link \X (0..NFrames + 1)] ==
        IF x[1] = free_list \/ x[2] = 0 THEN <<>>
        ELSE <<x[1]>> \o from[<<f.next[x[1]], x[2] - 1>>]
  IN  from[<<f.next[free_list], NFrames + 1>>]

\* The first block of the list that is in S; free_list if there is none.
First(f, S) ==
  LET w == Walk(f)
      i == SelectInSeq(w, LAMBDA a : a \in S)
  IN  IF i # 0 THEN w[i] ELSE IF Len(w) > NFrames THEN Lost ELSE free_list

\* What the list says: which frames are free; whether both links of every block agree.
Blocks(f)     == Range(Walk(f))
FreeFrames(f) == UNION {a..a + f.property[a] - 1 : a \in Blocks(f)}
Mirrored(f)   == /\ Len(Walk(f)) <= NFrames
                 /\ \A e \in Blocks(f) \cup {free_list} : f.prev[f.next[e]] = e

-----------------------------------------------------------------------------
\* The block that default_alloc_pages(n) takes frames from.
Found(f, n) ==
  IF n > f.nr_free THEN free_list ELSE First(f, {a \in Frame : f.property[a] >= n})

\* The block is unlinked, and what is left of it takes its place.
Split(f, a, n) ==
  IF f.property[a] = n THEN list_del(f, a)
  ELSE list_add([list_del(f, a) EXCEPT !.property[a + n] = f.property[a] - n,
                                       !.flags = @ \cup {a + n}],
                f.prev[a], a + n)

\* default_alloc_pages(n), when a block a has been found.
Taken(f, a, n) == [Split(f, a, n) EXCEPT !.nr_free = @ - n, !.flags = @ \ {a}]

\* Behind the last block: the loop of default_free_pages does not stop when it has put
\* the block there, finds that the block itself is the last one now, and adds it behind
\* itself.
PlacedLast(f, a) ==
  list_add(list_add([f EXCEPT !.tail = TRUE], Last(Walk(f)), a), a, a)

\* Where the loop ends: before the first block with a higher address.
PlacedAt(f, a, later) ==
  CASE later \in Frame   -> list_add_before(f, later, a)
    [] later = free_list -> PlacedLast(f, a)
    [] later = Lost      -> [f EXCEPT !.ok = FALSE]

\* default_free_pages, first part: the block goes into the list.
Placed(f, a) ==
  IF list_empty(f) THEN list_add(f, free_list, a)
  ELSE PlacedAt(f, a, First(f, {b \in Frame : a < b}))

\* Second part: the block joins the one before it and the one after it, when they are
\* neighbours.
Join(f, a, b) ==
  list_del([f EXCEPT !.property[a] = @ + f.property[b], !.flags = @ \ {b}], b)

IsBefore(f, a, b) == a # free_list /\ b # free_list /\ a + f.property[a] = b

JoinedNext(f, a) == IF IsBefore(f, a, f.next[a]) THEN Join(f, a, f.next[a]) ELSE f

\* Mutant: a block does not join the one before it.
JoinedAfter(f, a) == JoinedNext(f, a)

Joined(f, a) ==
  IF IsBefore(f, f.prev[a], a)
  THEN JoinedNext(Join(f, f.prev[a], a), f.prev[a])
  ELSE JoinedNext(f, a)

\* Op, unless f has gone wrong.
Then(f, Op(_)) == IF f.ok THEN Op(f) ELSE f

\* default_free_pages(a, n).  It asserts that no frame is the first of a free block.
Freed(f, a, n) ==
  IF f.flags \cap (a..a + n - 1) # {} THEN [f EXCEPT !.ok = FALSE]
  ELSE Then(Placed([f EXCEPT !.property[a] = n, !.flags = @ \cup {a},
                             !.nr_free = @ + n], a),
            LAMBDA g : Joined(g, a))
=============================================================================
