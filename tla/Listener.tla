------------------------------ MODULE Listener ------------------------------
(***************************************************************************)
(* The listeners that one libp2p host serves under one protocol tag        *)
(* (src/listener.go).  The host calls the registered handler in a          *)
(* goroutine per incoming stream; the handler offers the stream to the     *)
(* listener's channel, Accept takes it out, Close shuts the listener, and  *)
(* a goroutine per listener closes it when its statistics stop moving.     *)
(* Every interleaving of those goroutines is a behaviour of Spec.          *)
(***************************************************************************)
EXTENDS Naturals, Sequences, FiniteSets

CONSTANTS
  Listeners,  \* listeners ListenWithOptions may create for the tag
  Streams,    \* incoming libp2p streams
  Callers,    \* goroutines that call Accept
  Capacity,   \* options.bufferSize, the capacity of streamCh
  IdleTicks,  \* options.idleTimeout in ticks of the 10 s ticker; 0: no timeout
  None        \* no listener, no stream

ASSUME CapacityAssumption == Capacity \in Nat
ASSUME IdleTicksAssumption == IdleTicks \in Nat
ASSUME NoneAssumption == None \notin Listeners \cup Streams
ASSUME StreamsAssumption == IsFiniteSet(Streams)

VARIABLES
  handler,   \* the listener whose handler the host has registered, or None
  opened,    \* listeners that exist
  closed,    \* listeners with l.closed set
  done,      \* listeners with l.ctx cancelled
  closing,   \* step of the Close that holds l.closedMu for writing
  queue,     \* l.streamCh
  accepted,  \* l.stats.accepted
  dropped,   \* l.stats.dropped
  stream,    \* where each stream is
  owner,     \* the listener whose handler received the stream
  call,      \* each caller's Accept
  idle       \* each listener's idle-check goroutine

hostVars  == <<handler, opened>>
closeVars == <<closed, done, closing>>
statsVars == <<accepted, dropped>>
vars == <<handler, opened, closed, done, closing, queue, accepted, dropped,
          stream, owner, call, idle>>

CloseSteps == {"free", "cancel", "remove"}

StreamStates == {"incoming",   \* not yet seen by the host
                 "refused",    \* the host has no handler for the tag
                 "handling",   \* the handler is at its select
                 "queued",     \* in streamCh
                 "taken",      \* received by Accept, not yet counted
                 "accepted",   \* counted and returned by Accept
                 "resetting",  \* reset because ctx is done, not yet counted
                 "overflow",   \* counted as dropped, not yet reset
                 "dropped"}    \* counted as dropped and reset

CallStates  == {"idle", "select", "count"}
CallRecord  == [pc : CallStates, on : Listeners \cup {None},
                got : Streams \cup {None}]
NotCalling  == [pc |-> "idle", on |-> None, got |-> None]

IdleStates == {"off", "watch", "close", "inClose"}
IdleRecord == [pc : IdleStates, accepted : Nat, dropped : Nat, age : 0..IdleTicks]

Init ==
  /\ handler = None
  /\ opened = {} /\ closed = {} /\ done = {}
  /\ closing = [l \in Listeners |-> "free"]
  /\ queue = [l \in Listeners |-> <<>>]
  /\ accepted = [l \in Listeners |-> 0]
  /\ dropped = [l \in Listeners |-> 0]
  /\ stream = [s \in Streams |-> "incoming"]
  /\ owner = [s \in Streams |-> None]
  /\ call = [c \in Callers |-> NotCalling]
  /\ idle = [l \in Listeners |->
               [pc |-> "off", accepted |-> 0, dropped |-> 0, age |-> 0]]

-----------------------------------------------------------------------------
(* Faulty variants of definitions below, one per property: what TLC must   *)
(* reject if the code had the bug.  Next uses none of them.                *)

(* A stream already in the channel is reset when the listener closes.      *)
HandlerReject_Queued(s) ==
  /\ stream[s] \in {"handling", "queued"}
  /\ owner[s] \in done
  /\ stream' = [stream EXCEPT ![s] = "resetting"]
  /\ UNCHANGED <<hostVars, closeVars, queue, statsVars, owner, call, idle>>

(* The rejected stream is counted on the tag's current listener.           *)
HandlerCountReject_Current(s) ==
  /\ stream[s] = "resetting" /\ handler # None
  /\ stream' = [stream EXCEPT ![s] = "dropped"]
  /\ dropped' = [dropped EXCEPT ![handler] = @ + 1]
  /\ UNCHANGED <<hostVars, closeVars, queue, accepted, owner, call, idle>>

(* The default case forgets to reset the stream.                           *)
HandlerReset_Forgotten(s) == stream[s] = "overflow" /\ UNCHANGED vars

(* Accept does not look at l.closed.                                       *)
AcceptCheck_Unchecked(c, l) ==
  /\ call[c].pc = "idle"
  /\ l \in opened
  /\ call' = [call EXCEPT ![c].pc = "select", ![c].on = l]
  /\ UNCHANGED <<hostVars, closeVars, queue, statsVars, stream, owner, idle>>

(* Close forgets l.cancel().                                               *)
CloseCancel_Forgotten(l) ==
  /\ closing[l] = "cancel"
  /\ closing' = [closing EXCEPT ![l] = "remove"]
  /\ UNCHANGED <<hostVars, closed, done, queue, statsVars, stream, owner, call, idle>>

(* Close unlocks without RemoveStreamHandler.                              *)
CloseRemove_Forgotten(l) ==
  /\ closing[l] = "remove"
  /\ closing' = [closing EXCEPT ![l] = "free"]
  /\ idle' = [idle EXCEPT ![l].pc = IF @ = "inClose" THEN "off" ELSE @]
  /\ UNCHANGED <<hostVars, closed, done, queue, statsVars, stream, owner, call>>

(* Unchanged statistics count as activity.                                 *)
StatsGrew_Always(l) == accepted[l] >= idle[l].accepted

(* A tick too many before the idle check gives up.                         *)
IdleWait_OffByOne(l) ==
  /\ idle[l].pc = "watch"
  /\ idle[l].age <= IdleTicks
  /\ idle' = [idle EXCEPT ![l].age = @ + 1]
  /\ UNCHANGED <<hostVars, closeVars, queue, statsVars, stream, owner, call>>

-----------------------------------------------------------------------------
(* ListenWithOptions: the new handler replaces the one the host had.       *)

Listen(l) ==
  /\ l \notin opened
  /\ opened' = opened \cup {l}
  /\ handler' = l
  /\ idle' = [idle EXCEPT ![l].pc = IF IdleTicks > 0 THEN "watch" ELSE "off"]
  /\ UNCHANGED <<closeVars, queue, statsVars, stream, owner, call>>

-----------------------------------------------------------------------------
(* The stream handler.                                                     *)

(* The host routes a new stream to the registered handler, if any.         *)
Arrive(s) ==
  /\ stream[s] = "incoming"
  /\ stream' = [stream EXCEPT ![s] = IF handler = None THEN "refused"
                                                      ELSE "handling"]
  /\ owner' = [owner EXCEPT ![s] = handler]
  /\ UNCHANGED <<hostVars, closeVars, queue, statsVars, call, idle>>

HasRoom(l) == Len(queue[l]) < Capacity

(* case l.streamCh <- s: enabled by room in the buffer, also when done.    *)
HandlerQueue(s) ==
  LET l == owner[s] IN
  /\ stream[s] = "handling"
  /\ HasRoom(l)
  /\ queue' = [queue EXCEPT ![l] = Append(@, s)]
  /\ stream' = [stream EXCEPT ![s] = "queued"]
  /\ UNCHANGED <<hostVars, closeVars, statsVars, owner, call, idle>>

(* The same case with an Accept parked on the empty channel: the only way  *)
(* into an unbuffered one.                                                 *)
HandlerHandOff(s, c) ==
  LET l == owner[s] IN
  /\ stream[s] = "handling"
  /\ queue[l] = <<>>
  /\ call[c].pc = "select" /\ call[c].on = l
  /\ stream' = [stream EXCEPT ![s] = "taken"]
  /\ call' = [call EXCEPT ![c].pc = "count", ![c].got = s]
  /\ UNCHANGED <<hostVars, closeVars, queue, statsVars, owner, idle>>

(* case <-ctx.Done(): reset first, count afterwards.                       *)
HandlerReject(s) ==
  /\ stream[s] = "handling"
  /\ owner[s] \in done
  /\ stream' = [stream EXCEPT ![s] = "resetting"]
  /\ UNCHANGED <<hostVars, closeVars, queue, statsVars, owner, call, idle>>

HandlerCountReject(s) ==
  /\ stream[s] = "resetting"
  /\ stream' = [stream EXCEPT ![s] = "dropped"]
  /\ dropped' = [dropped EXCEPT ![owner[s]] = @ + 1]
  /\ UNCHANGED <<hostVars, closeVars, queue, accepted, owner, call, idle>>

(* default: neither case is ready; count first, reset afterwards.          *)
HandlerOverflow(s) ==
  LET l == owner[s] IN
  /\ stream[s] = "handling"
  /\ ~HasRoom(l) /\ l \notin done
  /\ stream' = [stream EXCEPT ![s] = "overflow"]
  /\ dropped' = [dropped EXCEPT ![l] = @ + 1]
  /\ UNCHANGED <<hostVars, closeVars, queue, accepted, owner, call, idle>>

HandlerReset(s) ==
  /\ stream[s] = "overflow"
  /\ stream' = [stream EXCEPT ![s] = "dropped"]
  /\ UNCHANGED <<hostVars, closeVars, queue, statsVars, owner, call, idle>>

HandlerStep(s) ==
  \/ HandlerQueue(s)
  \/ \E c \in Callers : HandlerHandOff(s, c)
  \/ HandlerReject(s)
  \/ HandlerCountReject(s)
  \/ HandlerOverflow(s)
  \/ HandlerReset(s)

-----------------------------------------------------------------------------
(* Accept.                                                                 *)

(* The read-locked look at l.closed; the lock is released before select.   *)
(* A call that finds it set returns net.ErrClosed and changes nothing.     *)
AcceptCheck(c, l) ==
  /\ call[c].pc = "idle"
  /\ l \in opened
  /\ closing[l] = "free" /\ l \notin closed
  /\ call' = [call EXCEPT ![c].pc = "select", ![c].on = l]
  /\ UNCHANGED <<hostVars, closeVars, queue, statsVars, stream, owner, idle>>

(* case s := <-l.streamCh: taken even when ctx is done as well.            *)
AcceptTake(c) ==
  LET l == call[c].on IN
  /\ call[c].pc = "select"
  /\ queue[l] # <<>>
  /\ queue' = [queue EXCEPT ![l] = Tail(@)]
  /\ stream' = [stream EXCEPT ![Head(queue[l])] = "taken"]
  /\ call' = [call EXCEPT ![c].pc = "count", ![c].got = Head(queue[l])]
  /\ UNCHANGED <<hostVars, closeVars, statsVars, owner, idle>>

AcceptCount(c) ==
  LET s == call[c].got IN
  /\ call[c].pc = "count"
  /\ accepted' = [accepted EXCEPT ![call[c].on] = @ + 1]
  /\ stream' = [stream EXCEPT ![s] = "accepted"]
  /\ call' = [call EXCEPT ![c] = NotCalling]
  /\ UNCHANGED <<hostVars, closeVars, queue, dropped, owner, idle>>

(* case <-l.ctx.Done(): return l.ctx.Err().                                *)
AcceptCancel(c) ==
  /\ call[c].pc = "select"
  /\ call[c].on \in done
  /\ call' = [call EXCEPT ![c] = NotCalling]
  /\ UNCHANGED <<hostVars, closeVars, queue, statsVars, stream, owner, idle>>

AcceptStep(c) == AcceptTake(c) \/ AcceptCount(c) \/ AcceptCancel(c)

-----------------------------------------------------------------------------
(* Close, called by the application or by the idle-check goroutine.        *)

(* Under closedMu: l.closed = true, then l.cancel(), then                  *)
(* RemoveStreamHandler, which removes whatever handler the tag has.        *)
CloseBegin(l) ==
  /\ closing[l] = "free"
  /\ l \in opened \ closed
  /\ closed' = closed \cup {l}
  /\ closing' = [closing EXCEPT ![l] = "cancel"]
  /\ UNCHANGED <<hostVars, done, queue, statsVars, stream, owner, call>>

AppClose(l) == CloseBegin(l) /\ UNCHANGED idle

CloseCancel(l) ==
  /\ closing[l] = "cancel"
  /\ done' = done \cup {l}
  /\ closing' = [closing EXCEPT ![l] = "remove"]
  /\ UNCHANGED <<hostVars, closed, queue, statsVars, stream, owner, call, idle>>

CloseRemove(l) ==
  /\ closing[l] = "remove"
  /\ handler' = None
  /\ closing' = [closing EXCEPT ![l] = "free"]
  /\ idle' = [idle EXCEPT ![l].pc = IF @ = "inClose" THEN "off" ELSE @]
  /\ UNCHANGED <<opened, closed, done, queue, statsVars, stream, owner, call>>

CloseStep(l) == CloseCancel(l) \/ CloseRemove(l)

-----------------------------------------------------------------------------
(* The idle-check goroutine.                                               *)

StatsGrew(l) == \/ accepted[l] > idle[l].accepted
                \/ dropped[l] > idle[l].dropped

IdleActive(l) ==
  /\ idle[l].pc = "watch"
  /\ StatsGrew(l)
  /\ idle' = [idle EXCEPT ![l] = [pc |-> "watch", accepted |-> accepted[l],
                                  dropped |-> dropped[l], age |-> 0]]
  /\ UNCHANGED <<hostVars, closeVars, queue, statsVars, stream, owner, call>>

IdleWait(l) ==
  /\ idle[l].pc = "watch"
  /\ ~StatsGrew(l)
  /\ idle[l].age + 1 <= IdleTicks
  /\ idle' = [idle EXCEPT ![l].age = @ + 1]
  /\ UNCHANGED <<hostVars, closeVars, queue, statsVars, stream, owner, call>>

(* At exactly IdleTicks the two clock readings may fall on either side.    *)
IdleExpire(l) ==
  /\ idle[l].pc = "watch"
  /\ ~StatsGrew(l)
  /\ idle[l].age + 1 >= IdleTicks
  /\ idle' = [idle EXCEPT ![l].pc = "close"]
  /\ UNCHANGED <<hostVars, closeVars, queue, statsVars, stream, owner, call>>

IdleClose(l) ==
  /\ idle[l].pc = "close"
  /\ CloseBegin(l)
  /\ idle' = [idle EXCEPT ![l].pc = "inClose"]

(* Close finds l.closed set, or the watcher sees ctx.Done.                 *)
IdleExit(l) ==
  /\ \/ idle[l].pc = "close" /\ closing[l] = "free" /\ l \in closed
     \/ idle[l].pc = "watch" /\ l \in done
  /\ idle' = [idle EXCEPT ![l].pc = "off"]
  /\ UNCHANGED <<hostVars, closeVars, queue, statsVars, stream, owner, call>>

IdleStep(l) == \/ IdleActive(l) \/ IdleWait(l) \/ IdleExpire(l)
               \/ IdleClose(l) \/ IdleExit(l)

-----------------------------------------------------------------------------

Next ==
  \/ \E l \in Listeners : Listen(l) \/ AppClose(l) \/ CloseStep(l) \/ IdleStep(l)
  \/ \E s \in Streams : Arrive(s) \/ HandlerStep(s)
  \/ \E c \in Callers : AcceptStep(c) \/ \E l \in Listeners : AcceptCheck(c, l)

(* The Go scheduler runs every goroutine that can run, and the ticker      *)
(* fires; nobody owes the program a stream, a call to Accept or a Close.   *)
Fairness ==
  /\ \A s \in Streams : WF_vars(HandlerStep(s))
  /\ \A c \in Callers : WF_vars(AcceptStep(c))
  /\ \A l \in Listeners : WF_vars(CloseStep(l)) /\ WF_vars(IdleStep(l))

Spec     == Init /\ [][Next]_vars
FairSpec == Spec /\ Fairness

-----------------------------------------------------------------------------
(* Properties.                                                             *)

(* The variables stay within their types: only a listener that exists has   *)
(* the tag, is closed or cancelled, and no goroutine is in a state the code *)
(* does not have.                                                           *)
TypeOK ==
  /\ handler \in opened \cup {None}
  /\ opened \in SUBSET Listeners /\ closed \in SUBSET opened
  /\ done \in SUBSET closed
  /\ closing \in [Listeners -> CloseSteps]
  /\ queue \in [Listeners -> Seq(Streams)]
  /\ accepted \in [Listeners -> Nat] /\ dropped \in [Listeners -> Nat]
  /\ stream \in [Streams -> StreamStates]
  /\ owner \in [Streams -> Listeners \cup {None}]
  /\ call \in [Callers -> CallRecord]
  /\ idle \in [Listeners -> IdleRecord]

(* A stream the handler queued is in exactly one place of exactly its own  *)
(* listener's channel, and the channel holds nothing else: no interleaving *)
(* of handlers, Accepts and Closes loses or doubles a stream.              *)
QueuePlacement ==
  /\ \A s \in Streams : stream[s] = "queued" =>
       \E i \in 1..Len(queue[owner[s]]) : queue[owner[s]][i] = s
  /\ \A l \in Listeners : \A i, j \in 1..Len(queue[l]) :
       /\ stream[queue[l][i]] = "queued" /\ owner[queue[l][i]] = l
       /\ queue[l][i] = queue[l][j] => i = j

(* Two Accepts never return the same stream, and a stream taken from the   *)
(* channel is held by an Accept of the listener it was offered to.         *)
HandOffExclusive ==
  /\ \A c \in Callers : call[c].pc = "count" =>
       /\ call[c].got \in Streams
       /\ stream[call[c].got] = "taken" /\ owner[call[c].got] = call[c].on
  /\ \A c, d \in Callers :
       (call[c].pc = "count" /\ call[d].pc = "count"
          /\ call[c].got = call[d].got) => c = d
  /\ \A s \in Streams : stream[s] = "taken" =>
       \E c \in Callers : call[c].pc = "count" /\ call[c].got = s

AcceptedStreams(l) == {s \in Streams : owner[s] = l /\ stream[s] = "accepted"}
DroppedStreams(l)  == {s \in Streams : owner[s] = l
                                        /\ stream[s] \in {"overflow", "dropped"}}

(* Stats() is exact: whatever the interleaving, accepted and dropped count *)
(* each stream once, on the listener that handled it.                      *)
StatsExact ==
  \A l \in Listeners : /\ accepted[l] = Cardinality(AcceptedStreams(l))
                        /\ dropped[l] = Cardinality(DroppedStreams(l))

(* When Close has returned, whoever called it, the context is cancelled    *)
(* and the host no longer routes streams to this listener.                 *)
CloseComplete ==
  \A l \in closed : closing[l] = "free" => l \in done /\ handler # l

(* A listener implements the bounded hand-off of StreamHandoff.            *)
FateOf(state) ==
  CASE state = "incoming" -> "none"
    [] state = "handling" -> "offered"
    [] state = "queued" -> "waiting"
    [] state \in {"taken", "accepted"} -> "delivered"
    [] state \in {"refused", "resetting", "overflow", "dropped"} -> "refused"

fates   == [s \in Streams |-> FateOf(stream[s])]
waiters == [c \in Callers |-> IF call[c].pc = "select" THEN call[c].on ELSE None]

Handoff == INSTANCE StreamHandoff WITH
  fate <- fates, at <- owner, backlog <- queue, waiting <- waiters, shut <- done

(* Every stream's fate is decided once, by a full or shut listener or by a *)
(* call that began before the Close, in order of arrival in the backlog.   *)
HandoffSpec == Handoff!Spec

(* The stream handler never blocks: every stream the host hands over is    *)
(* queued, delivered or reset, whether or not anybody calls Accept.        *)
HandlerTerminates ==
  \A s \in Streams : stream[s] \in {"handling", "resetting", "overflow"} ~>
                        stream[s] \in {"queued", "taken", "accepted", "dropped"}

(* Close wakes every Accept that is blocked on the listener.               *)
CloseUnblocksAccept ==
  \A c \in Callers, l \in Listeners :
    (call[c].on = l /\ call[c].pc # "idle" /\ l \in closed) ~>
      call[c].pc = "idle"

(* With an idle timeout, a listener whose streams stop coming closes and   *)
(* gives up its tag without anybody calling Close.                         *)
IdleListenerCloses ==
  \A l \in Listeners : (l \in opened) ~> (l \in done /\ closing[l] = "free")

=============================================================================
