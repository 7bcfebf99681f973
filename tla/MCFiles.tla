------------------------------ MODULE MCFiles ------------------------------
(* Instances of Files for TLC: processes and tables are interchangeable. *)
EXTENDS Files, TLC

\* How programs open files: to append, as the shell does for >, and to create; and
\* a directory, to read it.
MCFlags ==
  [n \in Node |->
     IF n = Root THEN {{}}
     ELSE {{"O_RDWR", "O_APPEND"}, {"O_RDWR", "O_TRUNC", "O_CREAT"},
           {"O_WRONLY", "O_CREAT", "O_EXCL"}}]

FilesSymmetry == Permutations(Proc) \cup Permutations(Table)
=============================================================================
