------------------------------ MODULE ResetConn ------------------------------
(***************************************************************************)
(* A dialled connection with reset recovery (resetAwareConn, src/conn.go): *)
(* when Read or Write finds its stream reset, it opens another one to the  *)
(* same peer and repeats the call on that.  One goroutine reads and one    *)
(* writes frames, a header and its data in a Write each; both may recover  *)
(* at once, and no lock guards the embedded Conn.                          *)
(*                                                                         *)
(* Streams are libp2p's and modelled from their use.  A Write puts a whole *)
(* part on its stream; a reset takes the last parts away again, and a part *)
(* it cuts short with them.  What Read returns is not told.                *)
(***************************************************************************)
EXTENDS Naturals, Sequences

CONSTANTS
  MaxRetry,    \* resetMaxRetry
  MaxFrames,   \* bound: frames the writer sends
  MaxStreams,  \* bound: streams NewStream grants, the dialled one included;
               \* from then on it fails
  MaxResets    \* bound: resets

ASSUME BoundsAssumption ==
  MaxRetry \in Nat /\ MaxFrames \in Nat /\ MaxStreams \in Nat \ {0} /\ MaxResets \in Nat

Calls   == {"Read", "Write"}
Streams == 1..MaxStreams

VARIABLES
  conn,     \* the stream that r.Conn wraps
  opened,   \* streams opened so far
  stream,   \* what has become of each stream
  carried,  \* the parts the peer gets from each stream
  call,     \* the Read and the Write in progress
  part,     \* the part the next Write is about
  closed,   \* the application called Close
  resets    \* history: resets so far

streamVars == <<opened, stream, carried>>
vars == <<conn, streamVars, call, part, closed, resets>>

(* Part 2k - 1 is the header of frame k, part 2k its data.                 *)
Parts == 1..2 * MaxFrames
IsHeader(p) == p % 2 = 1

StreamStates == {"none", "open", "reset", "closed"}
Steps == {"idle",
          "try",     \* in the first Read or Write, on a stream
          "sleep",   \* reconnecting, some attempts made
          "dialed",  \* NewStream has returned
          "again",   \* r.Conn is assigned
          "retry"}   \* in the repeated Read or Write
NoCall == [pc |-> "idle", on |-> 1, attempts |-> 0]

Init ==
  /\ conn = 1 /\ opened = 1
  /\ stream = [s \in Streams |-> IF s = 1 THEN "open" ELSE "none"]
  /\ carried = [s \in Streams |-> <<>>]
  /\ call = [c \in Calls |-> NoCall]
  /\ part = 1
  /\ closed = FALSE
  /\ resets = 0

-----------------------------------------------------------------------------
(* Faulty variants, one per property: TLC must reject them.                *)

(* A Write may be repeated although it has succeeded.                      *)
AfterWrite_Repeats(c) == IF c = "Write" THEN {part, part + 1} ELSE {part}

(* Giving up a frame skips the header of the next one, too.                *)
NextFrame_Skips(p) == p + 2

(* Attempts are not counted.                                               *)
Attempt_Uncounted(c) == call[c].attempts

-----------------------------------------------------------------------------

Begin(c) ==
  /\ call[c].pc = "idle"
  /\ c = "Write" => part \in Parts
  /\ call' = [call EXCEPT ![c] = [pc |-> "try", on |-> conn, attempts |-> 0]]
  /\ UNCHANGED <<conn, streamVars, part, closed, resets>>

InIO(c) == call[c].pc \in {"try", "retry"}

(* A call that failed gives its frame up.                                  *)
NextFrame(p) == IF IsHeader(p) THEN p + 2 ELSE p + 1

Return(c) == call' = [call EXCEPT ![c] = NoCall]
Fail(c) == /\ Return(c)
           /\ part' = IF c = "Write" THEN NextFrame(part) ELSE part

(* What the writer goes on with after a Write of its part.                 *)
AfterWrite(c) == IF c = "Write" THEN {part + 1} ELSE {part}

Succeed(c) ==
  /\ InIO(c) /\ stream[call[c].on] = "open"
  /\ part' \in AfterWrite(c)
  /\ carried' = IF c = "Write" THEN [carried EXCEPT ![call[c].on] = Append(@, part)]
                               ELSE carried
  /\ Return(c)
  /\ UNCHANGED <<conn, opened, stream, closed, resets>>

(* Timeouts and the end of file (for Read; nothing sets a write deadline), *)
(* and the graceful ends of a stream closed on this side, return without a *)
(* retry.                                                                  *)
ReturnError(c) ==
  /\ InIO(c)
  /\ \/ stream[call[c].on] = "closed"
     \/ stream[call[c].on] = "open" /\ c = "Read"
  /\ Fail(c)
  /\ UNCHANGED <<conn, streamVars, closed, resets>>

(* A reset is worth a retry, and so is any error of a closed stream that   *)
(* is a net.Error but no timeout: which one it is, is the stream's.        *)
FindReset(c) ==
  /\ InIO(c) /\ stream[call[c].on] \in {"reset", "closed"}
  /\ IF call[c].pc = "try" /\ MaxRetry > 0
       THEN call' = [call EXCEPT ![c].pc = "sleep"] /\ UNCHANGED part
       ELSE Fail(c)
  /\ UNCHANGED <<conn, streamVars, closed, resets>>

-----------------------------------------------------------------------------
(* The retry loop, after each time.Sleep.                                  *)

Attempt(c) == call[c].attempts + 1

Dial(c) ==
  /\ call[c].pc = "sleep" /\ opened < MaxStreams
  /\ opened' = opened + 1
  /\ stream' = [stream EXCEPT ![opened + 1] = "open"]
  /\ call' = [call EXCEPT ![c].pc = "dialed", ![c].on = opened + 1]
  /\ UNCHANGED <<conn, carried, part, closed, resets>>

(* NewStream fails; after the last attempt the first error is returned.    *)
DialFails(c) ==
  /\ call[c].pc = "sleep"
  /\ IF Attempt(c) < MaxRetry
       THEN call' = [call EXCEPT ![c].attempts = Attempt(c)] /\ UNCHANGED part
       ELSE Fail(c)
  /\ UNCHANGED <<conn, streamVars, closed, resets>>

(* r.Conn = newConn: the stream it wrapped is left as it is.               *)
Assign(c) ==
  /\ call[c].pc = "dialed"
  /\ conn' = call[c].on
  /\ call' = [call EXCEPT ![c].pc = "again"]
  /\ UNCHANGED <<streamVars, part, closed, resets>>

(* return r.Conn.Read(b) or Write(b): whatever r.Conn is by now.           *)
Repeat(c) ==
  /\ call[c].pc = "again"
  /\ call' = [call EXCEPT ![c].pc = "retry", ![c].on = conn]
  /\ UNCHANGED <<conn, streamVars, part, closed, resets>>

CallStep(c) ==
  \/ Succeed(c) \/ ReturnError(c) \/ FindReset(c)
  \/ Dial(c) \/ DialFails(c) \/ Assign(c) \/ Repeat(c)

-----------------------------------------------------------------------------

(* Close is promoted from the embedded Conn.                               *)
Close ==
  /\ closed' = TRUE
  /\ stream' = [stream EXCEPT ![conn] = IF @ = "open" THEN "closed" ELSE @]
  /\ UNCHANGED <<conn, opened, carried, call, part, resets>>

(* The peer or the network resets a stream; the last parts are lost.       *)
Reset(s) ==
  /\ resets < MaxResets
  /\ stream[s] = "open"
  /\ resets' = resets + 1
  /\ stream' = [stream EXCEPT ![s] = "reset"]
  /\ \E n \in 0..Len(carried[s]) : carried' = [carried EXCEPT ![s] = SubSeq(@, 1, n)]
  /\ UNCHANGED <<conn, opened, call, part, closed>>

Next ==
  \/ \E c \in Calls : Begin(c) \/ CallStep(c)
  \/ Close
  \/ \E s \in Streams : Reset(s)

Spec == Init /\ [][Next]_vars

(* What the call owes by itself.  Neither a Read nor a Write of an open    *)
(* stream need ever return: the peer may send nothing, and the flow        *)
(* control of the stream may hold the Write, which has no deadline.        *)
Progress(c) ==
  \/ stream[call[c].on] # "open" /\ ReturnError(c)
  \/ FindReset(c) \/ Dial(c) \/ DialFails(c) \/ Assign(c) \/ Repeat(c)

FairSpec == Spec /\ \A c \in Calls : WF_vars(Progress(c))

-----------------------------------------------------------------------------
(* Properties.                                                             *)

(* The variables stay within their types; exactly the first opened streams *)
(* exist.                                                                  *)
TypeOK ==
  /\ conn \in 1..opened
  /\ opened \in Streams
  /\ stream \in [Streams -> StreamStates]
  /\ \A s \in Streams : stream[s] = "none" <=> s > opened
  /\ carried \in [Streams -> Seq(Parts)]
  /\ call \in [Calls -> [pc : Steps, on : 1..opened, attempts : 0..MaxRetry]]
  /\ part \in 1..2 * MaxFrames + 1
  /\ closed \in BOOLEAN
  /\ resets \in 0..MaxResets

(* Whatever reconnects, and whichever of the two calls does: on every      *)
(* stream the peer finds each data part right behind its header, except    *)
(* that the first part of a stream may be data whose header went to an     *)
(* earlier stream.  A reconnect never tears a frame later on.              *)
TornAtStartOnly ==
  \A s \in Streams : \A i \in 2..Len(carried[s]) :
    ~IsHeader(carried[s][i]) => carried[s][i - 1] = carried[s][i] - 1

(* Although Writes are repeated on other streams, no part reaches the peer *)
(* twice, and each stream carries its parts in the order of the Writes.    *)
PartsOnce ==
  \A s, t \in Streams : \A i \in 1..Len(carried[s]), j \in 1..Len(carried[t]) :
    /\ carried[s][i] = carried[t][j] => s = t /\ i = j
    /\ s = t /\ i < j => carried[s][i] < carried[t][j]

(* A Read or Write whose stream was reset or closed under it either returns *)
(* its error or, after at most resetMaxRetry attempts, repeats the call on  *)
(* a stream; and when that one is reset or closed as well, it returns: no   *)
(* call reconnects for ever.  Of calls on an open stream nothing is said.   *)
RecoveryEnds ==
  \A c \in Calls :
    /\ call[c].pc = "try" /\ stream[call[c].on] # "open"
         ~> call[c].pc \in {"idle", "retry"}
    /\ call[c].pc = "retry" /\ stream[call[c].on] # "open" ~> call[c].pc = "idle"

=============================================================================
