------------------------------ MODULE RWMutex ------------------------------
(***************************************************************************)
(* The reader/writer lock of Go's sync package, as src/progress_dashboard.go *)
(* uses it (external).  Lock announces its writer first; from then on, and *)
(* until its Unlock, a reader that arrives waits, even one that holds a    *)
(* read lock already.  Unlock lets in every reader that waits before the   *)
(* next writer can announce itself.                                        *)
(***************************************************************************)
EXTENDS Integers

CONSTANTS
  Procs,   \* goroutines
  Nobody   \* no writer

Locks == [reads : [Procs -> Nat], writer : Procs \cup {Nobody}, waiting : SUBSET Procs]

Unlocked == [reads |-> [p \in Procs |-> 0], writer |-> Nobody, waiting |-> {}]

RLock(l, p) ==
  IF l.writer = Nobody THEN [l EXCEPT !.reads[p] = @ + 1]
  ELSE [l EXCEPT !.waiting = @ \cup {p}]

(* p has got the read lock it asked for.                                   *)
Runs(l, p) == p \notin l.waiting

RUnlock(l, p, times) == [l EXCEPT !.reads[p] = @ - times]

CanAnnounce(l) == l.writer = Nobody

Announce(l, p) == [l EXCEPT !.writer = p]

(* The announced writer has the lock when the readers before it are gone.  *)
Owns(l, p) == l.writer = p /\ \A q \in Procs : l.reads[q] = 0

Unlock(l) ==
  [reads   |-> [q \in Procs |-> IF q \in l.waiting THEN l.reads[q] + 1 ELSE l.reads[q]],
   writer  |-> Nobody,
   waiting |-> {}]

=============================================================================
