------------------------------- MODULE Stdin -------------------------------
(***************************************************************************)
(* The keyboard's way to a process: the console buffer                     *)
(* (src/lab8/kern/driver/console.c), the ring of stdin and its sleeping    *)
(* readers (src/lab8/kern/fs/devs/dev_stdin.c, src/lab8/kern/sync/wait.c). *)
(*                                                                         *)
(* A key is the number of its stroke, so that order and loss can be told.  *)
(* The two rings overflow differently: a full console buffer looks empty   *)
(* again, a full stdin ring gives up its oldest key for the newest.        *)
(*                                                                         *)
(* A reader keeps the CPU until it has what it asked for or goes to sleep; *)
(* keys come with the clock interrupt.  The module has no specification of *)
(* its own: ClockInterrupt composes it with the timers and with kills.     *)
(***************************************************************************)
EXTENDS Integers, Sequences, SequencesExt

CONSTANTS
  Reader,
  STDIN_BUFSIZE,
  CONSBUFSIZE

ASSUME StdinAssumption == STDIN_BUFSIZE \in Nat \ {0} /\ CONSBUFSIZE \in Nat \ {0}

VARIABLES
  cons,           \* the console buffer: buf, rpos, wpos
  stdin_buffer,   \* the ring of stdin
  p_rpos, p_wpos, \* how many keys have been read from it and written to it
  wait_queue,     \* the readers linked in it, first in first out
  wakeup_flags,   \* wait->wakeup_flags of a reader
  call,           \* len and ret of the dev_stdin_read a reader is in (len 0: none)
  typed,          \* history: the keys typed so far are 1..typed
  got,            \* history: the keys read, in order
  overrun         \* history: a buffer has been full when a key came

console == <<cons, typed>>
svars   == <<cons, stdin_buffer, p_rpos, p_wpos, wait_queue, wakeup_flags, call, typed,
             got, overrun>>

NoKey  == 0
NoCall == [len |-> 0, ret |-> 0]

Reading(r) == call[r].len # 0
Queued     == {wait_queue[i] : i \in 1..Len(wait_queue)}

stdin_device_init ==
  /\ cons = [buf |-> [i \in 0..(CONSBUFSIZE - 1) |-> NoKey], rpos |-> 0, wpos |-> 0]
  /\ stdin_buffer = [i \in 0..(STDIN_BUFSIZE - 1) |-> NoKey]
  /\ p_rpos = 0 /\ p_wpos = 0
  /\ wait_queue = <<>>
  /\ wakeup_flags = [r \in Reader |-> "WT_INTERRUPTED"]
  /\ call = [r \in Reader |-> NoCall]
  /\ typed = 0 /\ got = <<>> /\ overrun = FALSE

-----------------------------------------------------------------------------
\* The keys in the console buffer and in the ring, oldest first.
InConsole ==
  LET n == (cons.wpos - cons.rpos) % CONSBUFSIZE
  IN  [i \in 1..n |-> cons.buf[(cons.rpos + i - 1) % CONSBUFSIZE]]

InRing == [i \in 1..(p_wpos - p_rpos) |-> stdin_buffer[(p_rpos + i - 1) % STDIN_BUFSIZE]]

\* cons_intr: the next n keys go to the console buffer, wherever that leaves wpos.
Filled(n) ==
  [cons EXCEPT
     !.buf  = [i \in DOMAIN @ |->
                 LET new == {k \in 1..n : (cons.wpos + k - 1) % CONSBUFSIZE = i}
                 IN  IF new = {} THEN @[i]
                     ELSE typed + CHOOSE k \in new : \A j \in new : j <= k],
     !.wpos = (@ + n) % CONSBUFSIZE]

\* The key that cons_getc() hands out of buffer c, and what it leaves.
NextKey(c)   == IF c.rpos = c.wpos THEN NoKey ELSE c.buf[c.rpos]
KeyTaken(c)  == IF c.rpos = c.wpos THEN c
                ELSE [c EXCEPT !.rpos = (@ + 1) % CONSBUFSIZE]

\* Mutants: only the first reader is woken; a key does not change the flags.
OnlyFirst == IF wait_queue = <<>> THEN 0 ELSE 1
FlagsKept == wakeup_flags

\* wakeup_queue(wait_queue, WT_KBD, 1): its loop takes readers off the front of the
\* queue until none is left.
WokenFromFront == Len(wait_queue)

Woken == {wait_queue[i] : i \in 1..WokenFromFront}

FlagsOfKey == [r \in Reader |-> IF r \in Woken THEN "WT_KBD" ELSE wakeup_flags[r]]

\* Mutant: p_wpos goes on when the ring is full.
WposAhead == p_wpos + 1

\* A key that finds the ring full replaces the oldest one: p_wpos stays.
NextWpos == IF p_wpos - p_rpos < STDIN_BUFSIZE THEN p_wpos + 1 ELSE p_wpos

\* dev_stdin_write(c): the readers in Woken become runnable.
dev_stdin_write(c) ==
  IF c = NoKey
  THEN UNCHANGED <<stdin_buffer, p_wpos, wait_queue, wakeup_flags>>
  ELSE /\ stdin_buffer' = [stdin_buffer EXCEPT ![p_wpos % STDIN_BUFSIZE] = c]
       /\ p_wpos' = NextWpos
       /\ wakeup_flags' = FlagsOfKey
       /\ wait_queue' = SubSeq(wait_queue, WokenFromFront + 1, Len(wait_queue))

\* dev_stdin_write(cons_getc()) when n keys have been typed since the last time.
keyboard(n) ==
  LET c == NextKey(Filled(n))
  IN  /\ typed' = typed + n
      /\ cons' = KeyTaken(Filled(n))
      /\ dev_stdin_write(c)
      /\ overrun' = \/ overrun
                    \/ Len(InConsole) + n >= CONSBUFSIZE
                    \/ c # NoKey /\ p_wpos - p_rpos >= STDIN_BUFSIZE
      /\ UNCHANGED <<p_rpos, call, got>>

KeyComes(n) == NextKey(Filled(n)) # NoKey

-----------------------------------------------------------------------------
\* How many keys the loop of dev_stdin_read takes before it has to sleep.
Taken(r, ret, len) ==
  LET left == p_wpos - p_rpos
  IN  IF left < len - ret THEN left ELSE len - ret

\* wait_current_set, with wait_queue_add: last in the queue.
wait_current_set(r) ==
  /\ wait_queue' = Append(wait_queue, r)
  /\ wakeup_flags' = [wakeup_flags EXCEPT ![r] = "WT_INTERRUPTED"]

wait_current_del(r) ==
  IF r \in Queued
  THEN RemoveAt(wait_queue, CHOOSE i \in 1..Len(wait_queue) : wait_queue[i] = r)
  ELSE wait_queue

\* The loop of dev_stdin_read from ret keys on, until it has len or sleeps.
ReadOn(r, ret, len) ==
  LET n == Taken(r, ret, len)
  IN  /\ p_rpos' = p_rpos + n
      /\ got' = got \o SubSeq(InRing, 1, n)
      /\ \/ /\ ret + n = len
            /\ call' = [call EXCEPT ![r] = NoCall]
         \/ /\ ret + n < len
            /\ call' = [call EXCEPT ![r] = [len |-> len, ret |-> ret + n]]
      /\ UNCHANGED <<stdin_buffer, p_wpos, console, overrun>>

\* dev_stdin_read(len) up to its end or its first schedule().
dev_stdin_read(r, len) ==
  /\ ~Reading(r)
  /\ ReadOn(r, 0, len)
  /\ IF call'[r] = NoCall THEN UNCHANGED <<wait_queue, wakeup_flags>>
     ELSE wait_current_set(r)

\* dev_stdin_read goes on after schedule(): it tries again if a key was the last
\* to wake it, else it returns what it has.  (The wait_t is on its stack: its flags
\* are forgotten at the end.)
resume_read(r) ==
  /\ Reading(r)
  /\ \/ /\ wakeup_flags[r] = "WT_KBD"
        /\ ReadOn(r, call[r].ret, call[r].len)
        /\ IF call'[r] = NoCall
           THEN /\ wakeup_flags' = [wakeup_flags EXCEPT ![r] = "WT_INTERRUPTED"]
                /\ UNCHANGED wait_queue
           ELSE wait_current_set(r)
     \/ /\ wakeup_flags[r] # "WT_KBD"
        /\ wait_queue' = wait_current_del(r)
        /\ call' = [call EXCEPT ![r] = NoCall]
        /\ UNCHANGED <<stdin_buffer, p_rpos, p_wpos, wakeup_flags, console, got, overrun>>
=============================================================================
