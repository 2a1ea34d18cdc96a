---------------------------- MODULE StreamHandoff ----------------------------
(***************************************************************************)
(* What a listener promises about the streams of its protocol tag, without *)
(* locks, counters, the host's handler table or the idle check: a bounded  *)
(* backlog per listener that hands every offered stream to at most one     *)
(* waiting call, in order, or refuses it for a reason.                     *)
(***************************************************************************)
EXTENDS Naturals, Sequences

CONSTANTS Listeners, Streams, Callers, Capacity, None

VARIABLES
  fate,     \* what has become of each stream
  at,       \* the listener each stream was offered to
  backlog,  \* streams waiting at each listener, oldest first
  waiting,  \* the listener each caller waits for, or None
  shut      \* listeners that have been shut

vars == <<fate, at, backlog, waiting, shut>>

Fates == {"none", "offered", "waiting", "delivered", "refused"}

Init ==
  /\ fate = [s \in Streams |-> "none"]
  /\ at = [s \in Streams |-> None]
  /\ backlog = [l \in Listeners |-> <<>>]
  /\ waiting = [c \in Callers |-> None]
  /\ shut = {}

Become(s, f) == fate' = [fate EXCEPT ![s] = f]

Offer(s) ==
  /\ fate[s] = "none"
  /\ \/ at' = at /\ Become(s, "refused")
     \/ \E l \in Listeners : at' = [at EXCEPT ![s] = l] /\ Become(s, "offered")
  /\ UNCHANGED <<backlog, waiting, shut>>

Enqueue(s) ==
  /\ fate[s] = "offered"
  /\ Len(backlog[at[s]]) < Capacity
  /\ backlog' = [backlog EXCEPT ![at[s]] = Append(@, s)]
  /\ Become(s, "waiting")
  /\ UNCHANGED <<at, waiting, shut>>

(* A stream is refused only by a listener that is full or shut.            *)
Refuse(s) ==
  /\ fate[s] = "offered"
  /\ at[s] \in shut \/ Len(backlog[at[s]]) >= Capacity
  /\ Become(s, "refused")
  /\ UNCHANGED <<at, backlog, waiting, shut>>

(* Nobody starts to wait for a listener that is shut.                      *)
Call(c, l) ==
  /\ waiting[c] = None
  /\ l \notin shut
  /\ waiting' = [waiting EXCEPT ![c] = l]
  /\ UNCHANGED <<fate, at, backlog, shut>>

(* A call gets the oldest stream of the backlog ...                        *)
Deliver(c) ==
  LET l == waiting[c] IN
  /\ l # None
  /\ backlog[l] # <<>>
  /\ backlog' = [backlog EXCEPT ![l] = Tail(@)]
  /\ Become(Head(backlog[l]), "delivered")
  /\ waiting' = [waiting EXCEPT ![c] = None]
  /\ UNCHANGED <<at, shut>>

(* ... or, when nothing is ahead of it, a stream just being offered.       *)
HandOver(s, c) ==
  /\ fate[s] = "offered"
  /\ waiting[c] = at[s]
  /\ backlog[at[s]] = <<>>
  /\ Become(s, "delivered")
  /\ waiting' = [waiting EXCEPT ![c] = None]
  /\ UNCHANGED <<at, backlog, shut>>

Cancel(c) ==
  /\ waiting[c] \in shut
  /\ waiting' = [waiting EXCEPT ![c] = None]
  /\ UNCHANGED <<fate, at, backlog, shut>>

Shut(l) ==
  /\ shut' = shut \cup {l}
  /\ UNCHANGED <<fate, at, backlog, waiting>>

Next ==
  \/ \E s \in Streams : Offer(s) \/ Enqueue(s) \/ Refuse(s)
  \/ \E s \in Streams, c \in Callers : HandOver(s, c)
  \/ \E c \in Callers : Deliver(c) \/ Cancel(c)
  \/ \E c \in Callers, l \in Listeners : Call(c, l)
  \/ \E l \in Listeners : Shut(l)

Spec == Init /\ [][Next]_vars
=============================================================================
