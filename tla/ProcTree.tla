------------------------------ MODULE ProcTree ------------------------------
(***************************************************************************)
(* How the process tree is kept (src/lab8/kern/process/proc.c): a parent   *)
(* points to its youngest child (cptr), a child to its older (optr) and    *)
(* its younger sibling (yptr).  do_wait and do_exit find the children of a *)
(* process only in this way, where module Process has their set.           *)
(*                                                                         *)
(* Steps are those of Process; each does to the links what its handler     *)
(* does: do_fork, do_exit and the found label of do_wait.                  *)
(***************************************************************************)
EXTENDS Process

VARIABLES cptr, yptr, optr

links == <<cptr, yptr, optr>>

\* set_links of n, a new child of p.
set_links(n, p) ==
  /\ optr' = [optr EXCEPT ![n] = cptr[p]]
  /\ yptr' = [q \in Proc |-> IF q = n THEN Nobody ELSE IF q = cptr[p] THEN n ELSE yptr[q]]
  /\ cptr' = [cptr EXCEPT ![p] = n]

\* Mutant: the younger sibling still points to z.
YoungerKept(z) == optr

YoungerPasses(z) == [q \in Proc |-> IF q = yptr[z] THEN optr[z] ELSE optr[q]]

\* remove_links of z, which is then freed.
remove_links(z) ==
  /\ yptr' = [q \in Proc |-> IF q = optr[z] THEN yptr[z]
                             ELSE IF q = z THEN Nobody ELSE yptr[q]]
  /\ optr' = [YoungerPasses(z) EXCEPT ![z] = Nobody]
  /\ cptr' = IF yptr[z] = Nobody THEN [cptr EXCEPT ![parent[z]] = optr[z]] ELSE cptr

\* One turn of the loop in do_exit(p): the youngest child left becomes the youngest
\* child of initproc.
Handed(l, p) ==
  LET c == l.cptr[p]
      i == l.cptr[Init1]
  IN  [cptr |-> [l.cptr EXCEPT ![p] = l.optr[c], ![Init1] = c],
       optr |-> [l.optr EXCEPT ![c] = i],
       yptr |-> [q \in Proc |-> IF q = c THEN Nobody ELSE IF q = i THEN c ELSE l.yptr[q]]]

\* The loop: it ends when p has no child left.
HandedOver(p) ==
  LET after[n \in 0..Cardinality(Proc)] ==
        IF n = 0 THEN [cptr |-> cptr, optr |-> optr, yptr |-> yptr]
        ELSE IF after[n - 1].cptr[p] = Nobody THEN after[n - 1]
        ELSE Handed(after[n - 1], p)
  IN  after[Cardinality(Proc)]

FollowsOlder(S) == \A q \in S : optr[q] \in S \cup {Nobody}

\* The members of a list of siblings, from p on: p, its older sibling, and so on.
Older(p) ==
  {q \in Proc : \A S \in SUBSET Proc :
                  p \in S \cup {Nobody} /\ FollowsOlder(S) => q \in S}

\* do_wait(0) takes the first zombie it comes to.
FirstZombie(z) ==
  /\ z \in Older(cptr[current])
  /\ \A y \in Zombies : y \in Older(cptr[current]) => y \in Older(z)

AnyWait == current = Init1 \/ (pc[current] = "wait" /\ waitPid[current] = AnyChild)

-----------------------------------------------------------------------------
Forked(n) == state[n] = "UNUSED" /\ state'[n] # "UNUSED"
Exited(p) == state[p] # "ZOMBIE" /\ state'[p] = "ZOMBIE"
Reaped(z) == state[z] = "ZOMBIE" /\ state'[z] = "UNUSED"

LinksKept == UNCHANGED links /\ \A p \in Proc : ~Forked(p) /\ ~Exited(p) /\ ~Reaped(p)

TreeInit ==
  /\ Init
  /\ cptr = [p \in Proc |-> IF p = Idle THEN Init1 ELSE Nobody]
  /\ yptr = [p \in Proc |-> Nobody]
  /\ optr = [p \in Proc |-> Nobody]

TreeNext ==
  /\ Next
  /\ \/ \E n \in Proc : Forked(n) /\ set_links(n, current)
     \/ \E p \in Proc : /\ Exited(p)
                        /\ cptr' = HandedOver(p).cptr
                        /\ optr' = HandedOver(p).optr
                        /\ yptr' = HandedOver(p).yptr
     \/ \E z \in Proc : /\ Reaped(z) /\ remove_links(z)
                        /\ AnyWait => FirstZombie(z)
     \/ LinksKept

TreeSpec == TreeInit /\ [][TreeNext]_<<vars, links>>

-----------------------------------------------------------------------------
\* The links are the tree: from cptr along optr one meets each child once and nobody
\* else, yptr leads back, and who has no child or is not linked points to nobody
\* (proc.c:171-197, 584-600).
TreeExact ==
  \A p \in Proc :
    /\ Older(cptr[p]) = Children(p)
    /\ cptr[p] # Nobody => yptr[cptr[p]] = Nobody
    /\ optr[p] # Nobody => yptr[optr[p]] = p /\ parent[optr[p]] = parent[p]
    /\ yptr[p] # Nobody => optr[yptr[p]] = p
=============================================================================
