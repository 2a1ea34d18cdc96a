# PointSub: TLA+ models and proofs

PointSub (`src/`, Go) puts point-to-point messages on libp2p streams: listeners
and dialled connections that look like `net.Listener` and `net.Conn`, frames and
a message transporter on top of them, a progress tracker, and a layer of
buffers, monitors and statistics. This directory holds TLA+ models of its
concurrent core, the TLC configurations that check them, and theorems about them
that TLAPS proves. `PROJECT.json` maps every definition to the lines it models.

Every source path below is relative to `src/`.

## 1. Inventory

How the parts call each other:

    application
      |  Listen / Accept / Close          Dial / Read / Write / Close
      v                                   v
    listener.go  <--- libp2p host --->  conn.go (resetAwareConn)
      |                                   |      largemsg.go, timeout.go (wrappers)
      +---------------+-------------------+
                      v net.Conn
    message_transporter.go --- frame_processor*.go     (frames on the byte stream)
      |          |         \-- error_handler.go        (classifies errors)
      |          +-- buffers, memory_manager.go        (sizes, accounting)
      v notifications
    progress_tracker.go --> progress_dashboard.go, console_progress.go
    message_processor.go, message_sizer.go, strategy_selector.go   (beside the transporter)
    error_monitor.go                                    (fed by the application)

| Component | State it keeps | Operations | What is hard | What makes it correct |
|---|---|---|---|---|
| listener (`listener.go`) | `streamCh`, `closed`, `ctx`, two counters, the host's handler for the tag | ListenWithOptions, the handler per stream, Accept, Close, Stats, idle check | handler, Accepts, Close and idle check race; two listeners share one handler table | no stream lost, doubled or handed out twice; exact counters; a Close that is complete; nobody blocks for ever |
| reconnecting connection (`conn.go`) | `r.Conn` | Dial, Read, Write, Close | a Read and a Write that reconnect at once without a lock; a reset between two Writes of a frame; Close during the retry loop | frames torn at most at the start of a stream, nothing sent twice, bounded number of streams and attempts |
| message transporter (`message_transporter.go`) | locals of the running calls, the tracker's record | Send, Receive, SendStream, ReceiveStream, Close | reader and writer errors in mid-stream, timeouts and retries, end of file with or after data, two goroutines in Send on one connection | what is received is a whole stream, in order; the tracker is settled when a call returns |
| frame processor (`frame_processor.go`, `frame_processor_impl.go`) | none (the advanced one: compression, recovery, counters) | EncodeHeader, DecodeHeader, ReadFrame, ReadFrameWithFlags, WriteFrame | two header forms told apart by one bit, deadlines inside a frame, data replaced by its compressed form | decode inverts encode; a reader in step reads what was written; each call counted once |
| progress tracker (`progress_tracker.go`) | a table of transfer records, callbacks | StartTracking, UpdateProgress, UpdateStatus, Pause, Resume, Stop, MarkFailed, UpdateTotalSize, cleaner | long sequences of legal calls, records reused between runs, notifications in goroutines | the status table is respected, completion once per run, throttled notifications |
| error monitor (`error_monitor.go`) | `errorBuffer`, history, statistics, `running` | Start, Stop, RecordError, filing, alerts, trend, ResetStatistics | check-then-act on `running`, a closed channel, an RWMutex taken twice | RecordError never blocks, ordered history, totals that agree |
| error handler (`error_handler.go`) | strategy tables, callbacks | HandleError, IsConnectionClosed, convertError, IsRecoverable | precedence of error classes; tables without a lock | each error gets one class and the strategy for it |
| memory manager (`memory_manager.go`) | allocated and peak bytes, pressure level, emergency block, `running`, `stopCh` | Start, Stop, RecordAllocation, RecordRelease, pressure check | a lock taken twice at the limit; restart with a closed channel; level read, computed and stored apart | accounting never negative; emergency block released under pressure |
| progress dashboard (`progress_dashboard.go`) | trackers, groups, totals | AddTracker, RemoveTracker, groups, Pause/Resume/CancelGroup, GetStats | nested read locks with writers in between; totals counted on replacement | totals agree with the table; group operations end |
| console progress (`console_progress.go`) | a drawing per transfer | the tracker's callbacks | events in any order, percentages above 100 | never draws a negative width |
| message processor (`message_processor.go`) | message pool, cached raw bytes | Encode, Decode, Validate, Read, Write, Process, Release | four-bit fields, stale caches, double release | decode inverts encode |
| message sizer, strategy selector (`message_sizer.go`, `strategy_selector.go`) | strategies by size, a selection cache | SelectStrategy, RegisterStrategy, Send/Receive per strategy | a cache that outlives registrations; limits compared with the wrong quantity | the chosen strategy covers the size; Receive accepts what Send sends |
| large message connection, timeout wrapper (`largemsg.go`, `timeout.go`) | buffered reader and writer, deadlines | Read, Write, SetDeadline, Close | sticky write error; timers that clear later deadlines | a deadline set is the deadline in force |
| buffers (`adaptive_buffer.go`, `advanced_buffer.go`, `buffer_factory.go`, `buffer_constants.go`) | pools, allocated bytes, pressure | get, release, adjust, reset | release after reset, slices beyond a short buffer | accounting equals what is out |
| helpers (`utils.go`, `addr.go`, `gostream.go`, `log.go`, `connection_manager.go`) | none (a random source) | | | |

`PROJECT.json` lists the same components with their status, and under `hazards`
each place where this code is hard to test, with the properties that cover it or
the reason why none does.

## 2. Plan

The order of work was the order of importance: what moves data between two peers
first, what watches over it next, what chooses parameters last.

1. `Listener` with the abstract `StreamHandoff`; `Listener_proofs`.
2. `TransferRecord` and `ProgressTracker`; `ProgressTracker_proofs`.
3. `StreamTransfer`, which composes the transporter's two ends with two transfer
   records, a connection and the `ErrorHandler`; the abstract `StreamPipe`;
   `StreamTransfer_proofs`.
4. `ResetConn`: two racing calls that reconnect, below the frames;
   `ResetConn_proofs`.
5. `ErrorMonitor`; `ErrorMonitor_proofs`.
6. `MemoryManager`, whose specification has names of its own (`MemorySpec`,
   `MemoryTypeOK`) so that one module of proofs can extend it next to another one.
7. `FrameHeader` (pure operators on bytes) and `FrameLink`, single messages of
   several writers as bytes on a connection; `FrameLink_proofs` about both.
8. `Dashboard` on Go's reader/writer lock (`RWMutex`); `Dashboard_proofs`.
9. `MessageSizer` (pure operators) and `StrategySelector` with its cache;
   `Resources_proofs` about these and `MemoryManager`.

All of this exists. What could follow: `StreamTransfer` over the bytes of
`FrameLink` instead of whole frames.

## 3. The modules

### Listener, StreamHandoff

`Listener` models all listeners one host has for one protocol tag. `handler` is
the host's handler table for the tag, `queue` is `streamCh`, `done` the cancelled
contexts, `closing` the step of the Close that holds `closedMu`. A stream's state
tells where the handler or an Accept has it; `owner` is the listener whose
handler was called.

| Code | Actions |
|---|---|
| ListenWithOptions | `Listen`, which replaces the host's handler |
| the handler's select (253-269) | `HandlerQueue`, `HandlerHandOff` (a parked Accept), `HandlerReject` + `HandlerCountReject` (ctx done), `HandlerOverflow` + `HandlerReset` (default) |
| Accept | `AcceptCheck` (read lock released before the select), `AcceptTake`, `AcceptCancel`, `AcceptCount` |
| Close | `CloseBegin`, `CloseCancel`, `CloseRemove`, all under the write lock |
| idle check | `IdleActive`, `IdleWait`, `IdleExpire`, `IdleClose`, `IdleExit` |

A Go select with several ready cases picks any of them, so those are separate
disjuncts without priorities; `default` is taken only when no other case is
ready. Left out: which wrapper the accepted connection gets, error values.

`StreamHandoff` is what a listener promises: offered streams wait in a bounded
backlog, go to one waiting call each, oldest first, or are refused by a full or
shut listener, and no call starts to wait at a shut one. `HandoffSpec` is the
refinement; `FateOf` and `waiters` are the mapping.

### TransferRecord, ProgressTracker

`TransferRecord` has a record of the tracker and what each operation makes of it;
`StreamTransfer` uses it, too. `ProgressTracker` is the table under its mutex, one
action per operation (the mutex is held throughout each, so each is one step), the
history cleaner, and `Deliver`, which runs the goroutine of any status
notification in flight. Progress and completion notifications are counted in
`progressed` and `completed`. Times are left out: whether a speed sample is due is
an argument of the action.

### StreamTransfer, StreamPipe

SendStream and ReceiveStream on the two ends of a connection, one call at a time
on each end, called again after success or failure. `wire` is what the connection
holds; `WriteFrame` blocks when `Window` frames are in flight. The reader of a
SendStream has `size` chunks and gives the end of file with its last chunk or
after it; its total is known and exact, or estimated. A frame is written in one step
and read in one, unless a deadline passes in the middle of it: what was read is lost
(`LeavesOff`), `rest` pieces of the frame stay on the wire, and the next read, of the
ReceiveStream that is called again, takes what it finds there for a header
(`ReadsAstray`). It may then return any frame (`Junk`), none that is complete
(`ReceiveNothing`) or an error (`garbled`), and stop behind any frame or inside one
(`Skips`). Which of these the bytes call for is left open; `FrameLink` has the bytes. A
call that read so is `astray`. A reset loses any number of the last frames in flight; a
`Close` of the sending end lets those in flight arrive, and then the end of file.
Every error a call returns goes through `HandleError` of `ErrorHandler`: the class
of the error and the handler's table of strategies decide whether it comes back as
it is, as a RetryableError or not at all. The table is the constant `Strategies`;
the runs use the default one. `MCStreamTransfer` has TLC compute the verdict of the
default handler on every class of error (`NothingSwallowed`).

`StreamPipe` says what the pair is for: streams arrive whole, in order, once.
The transporter implements it when nothing fails and no stream is empty
(`PipeSpec`); with faults, `WholeStream` is what remains, for the calls that never
read on in the middle of a frame.

### ResetConn

`resetAwareConn` with one goroutine in Read and one in Write. A call goes through
`try` (first attempt on the stream `r.Conn` had when the call began), `sleep`,
`dialed`, `again` (r.Conn assigned) and `retry` (second attempt, on whatever
`r.Conn` is by then). Each read and each write of the unprotected field is a step
of its own. The field is an interface value whose dynamic type never changes, so a
race can only yield the old or the new stream, which the interleaving covers.
The writer sends frames by `WriteFrame` of the default frame processor, a header
part and a data part; a part that fails gives its frame up. `carried` is what the
peer gets from each stream. The error of a stream that was reset, or that this side
closed, may look like a reset (`FindReset`; a `net.Error` that is no timeout does) or
not (`ReturnError`). Left out: the contents Read returns, write deadlines
(this path sets none), empty frames, and the large message wrapper.

### ErrorMonitor

One RecordError per error, any number of calls of Start and Stop. The atomic
`running` is loaded and stored in separate steps, as in the code; the channel, its
closing, and the panic of a send on or a close of a closed channel (`crashed`) are
modelled. A processing goroutine receives an error (`ProcessTake`) and loads `running`
(`ProcessLoad`) in two steps, between which a Stop may come. `checkAlerts` keeps its read lock while `triggerAlert` asks for the write
lock of the same mutex: a processor that finds an alert due stays in `alert`, and
`MutexFree` is false from then on. There is no action that leaves `alert` because
the code has none. Whether the error rate or the closeness of the last errors
calls for an alert depends on the clock and is a choice; the number of critical
errors is computed. Left out: listeners (they run in goroutines of their own and
change nothing here) and SetAlertConfig (thresholds are constants).

### MemoryManager

The ledger of `RecordAllocation` and `RecordRelease`, Start and Stop with their
compare-and-swap, and the goroutine of each Start: it reads the level
(`ReadLevel`), detects a new one (`Detect`, a choice: the runtime decides), stores it
(`WriteLevel`) and frees or refills the emergency memory (`HandleFree`,
`HandleOther`, `Refill`), each with the lock taken anew. A RecordAllocation over the
limit sets `locked`: it waits for the lock it holds, and no action that needs the
lock is enabled from then on. A second Start reuses the closed `stopCh`, so two
monitors may overlap and a second Stop panics (`crashed`). `balance` and `lowest` are
history for `LedgerExact`, `interfered` for `EmergencyFollowsLevel`. Left out:
listeners, garbage collection, and the buffer resets of a cleanup.

### FrameHeader, FrameLink

`FrameHeader` has the two forms of a header as sequences of bytes, `EncodeHeader` and
`DecodeHeader`, and how a reader tells the forms apart.

`FrameLink` puts several goroutines in Send and one reader on one direction of a
connection. The connection is the stream of all bytes ever written, in pieces: a
header is kept byte by byte, data as one payload whose bytes are equal. What a
`ReadFull` returns is an interval of the stream, so a reader that lost its place
reads headers out of data, as the code would. Each `Write` is a step, so the header
and data of two writers interleave; a deadline may cut a read after none
or as many of its bytes as there are, and a write of the advanced processor after none
or half of them. `proc` is the pair of
processors, default or advanced, of the two ends. `frames` and `results` are
history. Compression is a fixed table of the payloads that shrink; the checksum is a
table, too. `ReadFrame` of the default processor (used by Receive) sets no
deadline, `ReadFrameWithFlags` (used by ReceiveStream) sets one, the advanced
processor always does.

`InStep` is about the reads that begin in step: as long as the frames read so far
were not interleaved, cut or misread, the n-th read returns the n-th message, whole
and with the size it had. What comes after is not promised, because the code has no
way to find the next header.

### Dashboard, RWMutex

`RWMutex` is the lock of Go's sync package: a writer announces itself, and from
then on every reader that arrives waits, one that holds a read lock included.
`Dashboard` has the dashboard's maps, lists and counts behind that lock and several
goroutines in its calls. A call is a sequence of steps on the lock; what happens
while the lock is held is one step, since nobody sees the state meanwhile.
`GetStats` gives its read lock back for the write lock and takes it again;
PauseGroup, ResumeGroup and CancelGroup take a second read lock inside the first
(`GetGroupTransfers`), then look each member up and ask its tracker outside the
lock. The transfers go on changing status in their trackers (`MoveOn`), which obeys
the table of `TransferRecord`. Left out: bytes, speeds and times, on which no
operation decides.

### MessageSizer, StrategySelector

`MessageSizer` is the choice of a strategy and its parameters by size.
`StrategySelector` has the registered strategies and scorers, the cache and the
counters; `SelectBestStrategy` is `Hit`, `SelectBySize` or `SelectByScore`. The
scorers' arithmetic is in Go's integers, division and modulus included; weights and
scores of the application's scorers are any integers, and when the weights add up to 0,
`EvaluateStrategy` only asks whether the strategy is for the size. The key of the cache
puts the number of KB through `string(rune(n))`: a rune is that number modulo 2^32
(`RuneSpan`), so that 4 TiB has the key of less than 1 KB, and runes that are no
character share one key. A selection made by score adds its entry (`Entries`) and,
above `CacheSize` entries, runs `CleanupCache` in the same call; `now` is the clock, which
goes on in `TimePasses`. Each selection remembers the size it was made for, which the
code does not and only `CachedFits` looks at. The selector's calls are under one lock,
so each is one step.

## 4. The runs

Bounds are constants of the configuration or guards named in the module
(`MaxRuns`, `MaxPending`, `MaxSends`, `MaxReceives`, `MaxFrames`, `MaxStreams`,
`MaxResets`, `ResetFrom`, `MaxReports`, `MaxReads`, `MaxCalls`, `MaxMoves`, `MaxRest`,
`MaxTime`). `CHECK_DEADLOCK FALSE` is set where the system may really come to a stop: all
calls of the bounded application made, all streams decided, or the program crashed.

| Run | Instance | Shows |
|---|---|---|
| `listener_safety` | 2 listeners, 2 streams, 2 Accepts, capacity 1, idle timeout of 1 tick | `QueuePlacement`, `StatsExact`, `CloseComplete`, `HandoffSpec`: the second stream overflows or is handed over, two Accepts compete, Close and idle close race with all of them and the listeners take the tag from each other |
| `listener_live` | 1 listener, fair | `HandlerTerminates`, `CloseUnblocksAccept`, `IdleListenerCloses` |
| `tracker_safety` | 1 transfer, 2 runs, 5 byte counts, 2 notifications in flight | `CompletesOnce`, `ProgressThrottled`, `StatusGraph` for totals in all three notification tiers |
| `stream_faults` | 2 sends, 3 receives, sizes 0 and 2, window 2, estimate 1, 1 piece of a frame left by a deadline, fair | `WholeStream`, `TrackerSettled` under every fault, deadlines inside a frame and a Close included, and `ReceiveReturns` |
| `stream_pipe` | no faults, fair | `PipeSpec`, `TransfersEnd` through a window smaller than the stream |
| `reset_safety` | 2 frames, 2 resets, 2 attempts, 4 streams, fair | `TornAtStartOnly`, `PartsOnce`, `RecoveryEnds` |
| `monitor_safety` | 3 errors, 2 Starts, 1 Stop, buffer and history of 2, 1 reset of the statistics after all three were counted, fair | `HistoryIsRecent`, `StatisticsCovered`, `ProcessorsEnd` |
| `memory_safety` | 2 Starts, 2 Stops, 3 reports of 1 or 3 bytes, limit 4 | `LedgerExact`, `EmergencyFollowsLevel` |
| `frame_safety` | 2 writers, 2 messages of 0, 1040, 65536 or 65600 bytes, 2 reads, 6 pairs of processors, fair | `InStep`, `CallsCounted`, `FrameReadEnds` |
| `dashboard_safety` | 2 goroutines, 2 IDs, 2 trackers, 1 group, 1 callback, 5 calls, 1 status change, fair | `RegistryConsistent`, `StatsAddUp`, `CallsReturn` |
| `selector_safety` | 15 requests, 7 strategies, 2 scorers, 4 calls, cache limit 2, 1 tick of the clock | `CacheLedger`, `CachedFits` |

Each run also checks the `TypeOK` of its module, but for `listener_live`, `stream_pipe`
and the run of the finding.

Why these bounds are enough for the interesting cases: with two streams and one
slot the channel is empty, full and overflowing; two listeners are what one
handler table can confuse; two runs of a transfer show what a record keeps from
the first; a stream of two chunks exceeds the estimate and, with the empty last frame,
the window, and two sends with three receives allow a failure, a retry out of step and
a call that is in step again; two resets let both calls recover twice, and with four
streams NewStream fails for good in the end; two frames let one be torn and the next
one not; two Starts give two goroutines on one channel, and three errors overflow both
the buffer and the history of two; the statistics are reset late (`ResetFrom`) because
an early reset only makes `StatisticsCovered` say less; three reports cross the limit, and a release may come before its allocation. The four sizes of
messages give a compact header, compressed and not, a standard header, and a
standard header that is taken for a compact one; two messages and two reads are
what one cut or mixed frame needs to show in the next. On the dashboard one goroutine
adds and the other one reads, removes and runs the group operations: five calls
bring a writer between any two of the reader's locks, and the second tracker takes
the place of the first under one ID. Four calls of the selector are a request, two
registrations and a request that the cache answers, or a registration and three
requests, the last of which cleans up a cache above its limit; one of the sizes wraps
around to the key of the smallest, and one scorer makes the weights add up to zero. What the bounds hide of
the safety properties is covered by the theorems, which hold for every value of the
constants. In `listener_safety` listeners, streams and callers, and in
`memory_safety` Starts and Stops, are interchangeable (`Symmetry`); these runs
check no liveness.

### Findings

One run, `monitor_alert`, must end with a violation; `PROJECT.json` quotes the
comment it contradicts. The first alert that is due locks the error monitor up:
`checkAlerts` holds the read lock when `triggerAlert` asks for the write lock of the
same mutex.

The models also have the following behaviour of the code, which no run singles out
and the properties are worded around.

- The Close of an old listener, or its idle timeout, removes the handler of a new
  listener for the same tag (`CloseRemove`). A stream may be queued after Close and
  is then neither accepted nor reset (`HandlerQueue` with the context done).
- Notifications arrive in any order, so a callback can be left with an old status
  (`Deliver`).
- A stream aborted by its reader and the next one on the same connection are
  received as one: `WholeStream` asks only that the end of what was received is the
  whole last stream. A ReceiveStream that asked for a retry between two frames of a
  stream finds a protocol error when retried, and so does the receiver of an empty
  stream. One that asked for it when a deadline fired inside a frame reads on in the
  middle of that frame: it may return any error, or succeed with bytes that are no
  stream (`ReadsAstray`), although all data is to be written in order
  (`message_transporter.go:405-408`).
- With a handler that ignores errors of severity error (`SetDefaultStrategy`), a
  failed SendStream or ReceiveStream returns no error at all (`HandleError`).
- A standard header whose size has bit 0x40 in its lowest byte is taken for a compact
  one (`Misread`, theorem `ToldApart`): the reader of a
  frame of such a size loses its place for good. Two goroutines in Send mix their frames.
- A reset between header and data of a frame sends the data alone on the new stream
  (`TornAtStartOnly` says that this is all). A call that is reconnecting opens a
  stream after Close, and so does one whose stream is closed under it, when the error
  looks like a reset (`FindReset`); the recovery of one call abandons a working stream of
  the other (`Assign`).
- An allocation over the limit blocks the memory manager for ever (`locked`). After
  Stop and Start the error monitor's channel stays closed, and a RecordError that
  races with Stop panics (`ReportSend`, `crashed`).
- A writer that arrives between the two read locks of a group operation blocks both
  (`NestedReadDeadlock`). A tracker added again under its ID is counted twice in
  the total.
- The size score of a strategy without an upper bound grows with the distance below
  its range (`SizeScoreOutside`). What the cache answers may come from before a
  strategy was registered; a selection made by size alone then lacks the parameters of
  its requirements for good (`CachedFits` holds it to what it would have been at that
  time). Sizes of 4 TiB and more share keys with small ones (`Rune`).
- The comments on the cache promise that selections expire
  (`strategy_selector.go:127`, `317`, `386`). The cleanup compares the time of the last
  selection, which the call that runs it has just set, instead of that of each entry:
  nothing ever goes (`CleanupCache`). This is not run as a counterexample of its own:
  `CacheLedger`, checked and proved, says that every computed selection is still there.

## 5. Fairness

Fairness is only what the Go runtime gives: a goroutine that can run is run at
last (weak fairness of its next step), and a ticker ticks. Nobody is obliged to
call Accept, Close, RecordError or to send a stream.

- `Listener`: handler, Accept, Close and idle check each, per goroutine. Weak
  fairness of a whole select is enough since the properties do not ask which case
  is picked.
- `StreamTransfer`: a call that began goes on until it returns. `ReceiveReturns`
  rests on the read deadline of `ReadFrameWithFlags`, modelled as a step that is
  enabled in every read; that of a SendStream blocked in WriteFrame has no
  counterpart in the code and none here.
- `ResetConn`: a call that recovers goes on, and one whose stream was reset or closed is
  told so (`Progress`). Neither a Read nor a Write of an open stream has to return: the
  peer may send nothing, or the stream's flow control may hold the Write up, and this
  path sets no deadline. `RecoveryEnds` is about streams that are not open, for that
  reason.
- `FrameLink`: the reading call goes on when its bytes are there. `FrameReadEnds` asks
  no more: a read of a frame that is complete in the stream ends.
- `Dashboard`: a goroutine in a call goes on with it; only the lock holds it up, and
  the lock is as fair as Go's: `Unlock` lets in all waiting readers before the next
  writer announces itself. `CallsReturn` excepts the nested read lock.
- `MemoryManager`, `StrategySelector`: none; their properties are safety properties.
- `ErrorMonitor`: the processing goroutine of each Start, and nothing else.
  `ProcessorsEnd` begins when the channel is closed, and excepts a monitor locked up by
  an alert and a crashed program.

## 6. What is proved

TLAPS proves the following for every value of the constants; the assumptions are
those named in the modules (`StreamsAssumption`: finitely many streams;
capacities, sizes and bounds are natural numbers; `None` is none of the values;
`PayloadAssumption`: gzip loses nothing and a checksum is a word of 32 bits;
`CustomAssumption`: a range of which the score does not divide by zero;
`ScorersAssumption`: weights and fixed scores are integers; `RuneAssumption`: every
character is a rune; `CacheAssumption`: limit and age of the cache are natural numbers).
Four theorems have a hypothesis of their own, named below.

`Listener_proofs`. The invariant `IInv` joins the properties with what they need:
`CloseInv` says for each step of Close what is already visible (without it
`CloseComplete` is not inductive: nothing would tie `done` and `handler` to the
step), `OwnerInv` that streams and calls in progress are on listeners that exist,
`QueueBound` that no channel exceeds its capacity. One lemma per conjunct has one
step per action.

- `TypeCorrect`, `StreamsConserved` (`QueuePlacement`, `QueueBound`,
  `HandOffExclusive`), `ClosesCompletely` (`CloseComplete`).
- `StatsAreExact` (`StatsExact`): each action adds one stream to at most one of the
  counted sets and moves the counter with it; cardinalities by the library's
  theorems on finite sets.
- `ImplementsHandoff` (`HandoffSpec`): every step of the listener is a step of
  `StreamHandoff` or changes nothing of it. Closing maps to `Shut` at the step that
  cancels the context, the idle check and the counters to stuttering.

`ProgressTracker_proofs`. `IInv` adds to `CompletesOnce` and `CompletionFlagTrue`
the fact `Throttled`, which says that a run without a completion has notified
less than 100 percent and so leaves room for the one notification that the
completion may add. Lemmas say what each operation makes of a record, so that
the record type stays closed in the steps.

- `TypeCorrect`, `CompletionCorrect` (`CompletesOnce`, `CompletionFlagTrue`),
  `NotificationsThrottled` (`ProgressThrottled`), `StatusesFollowGraph`
  (`StatusGraph`).

`StreamTransfer_proofs`. `TypeInv` joins the types with what ties the locals of a
call to its entry in the history (`SenderInv`, `ReceiverInv`).

- `TypeCorrect`.
- `TrackerIsSettled` (`TrackerSettled`), from `SenderTracked` and `ReceiverTracked`: a
  transfer has left its first status exactly when its first chunk has moved, which is
  what lets the completion at the end of a call take effect.
- `StreamsWhole` (`WholeStream`), from `StreamInv`. `WireInv` says that a frame in flight
  is a part or the end of its call's stream and which frame may come after which one,
  `OrderInv` that whatever was delivered comes before what is in flight, `HeldInv` that a
  ReceiveStream under way holds a stream from its first part on, and that the next
  frame goes on with it or begins another one. A reset cuts the wire anywhere,
  which is why `WireInv` speaks of neighbours and `HeldInv` of the first frame only. All of
  this is about calls in step (`InStep`): a call that has read on in the middle of a frame
  leaves the set and never comes back, and what frames it skips only makes the wire
  shorter. So the theorem says nothing of such a call, and of the others that the end of
  what they wrote is the last stream whole, after beginnings of streams that failed.
- `ImplementsPipe` (`PipeSpec`), from `PipeInv`: while nothing fails, calls succeed in turn
  on both ends and the frames in flight are a chain from where the receiver is to
  where the sender is (`ChainInv`), and none of them is half read. `Mapped` gives the abstract streams as functions of
  the two positions; the step that ends a call extends them by one.

The second and third assume `NothingIgnored`: the handler's table ignores neither
warnings nor errors, as the default one. With a table that does, a call that failed
returns no error, and both are false. The fourth assumes `NothingFails`: no faults
and no empty stream, the case in which the pair keeps the promise of the pipe.

`ErrorMonitor_proofs`. `CountsInv` says that each error the channel took is counted
once at most: it waits, is held by a goroutine, before its load of `running` or after,
or was filed. `QueueInv` says that what
waits is the end of what was taken, `LaunchInv` that a Start launches its goroutine
when it is done. `HistoryInv` is about a lone goroutine: the record it files is the
one before those that wait. Two goroutines file in any order, and nothing like it
holds of them.

- `TypeCorrect`, `StatisticsAreCovered` (`StatisticsCovered`), `HistoryStaysRecent`
  (`HistoryIsRecent`).

`ResetConn_proofs`. `TornAtStartOnly` is not inductive: it needs to know that a
stream which can still take data ends with the header of that data or is empty
(`FollowsInv`). That in turn rests on `FreshInv`, that a dialled stream is known to
its call alone and empty until it is assigned, and on `OvertakenInv`, that what
takes the place of the stream under a Write in progress is empty. `PartsOnce` needs
`BelowInv`: only earlier parts were written.

- `TypeCorrect`, `TornOnlyAtStart` (`TornAtStartOnly`), `NoPartTwice` (`PartsOnce`).

`FrameLink_proofs`. Its first part is arithmetic on bytes: four bytes give back the
word of 32 bits put into them, and the fields of a header are found again in the
concatenation. The words are bounded by their highest byte, which keeps the numbers
small.

- `CompactRoundTrip`, `StandardRoundTrip`: decoding inverts encoding for all sizes,
  checksums and flags of 32 bits. `ToldApart`: the form of a header is recognised
  unless the size is one that `Misread` names.
- `CallsAreCounted` (`CallsCounted`). The reader's bytes play no part in the counters.
  `ProcFits` says that an advanced processor refuses no frame for its size (its
  constructor sets no limit), `SendInv` ties the counters to the calls begun less those
  under way, `RecvInv` to the calls that returned.
- `TypeCorrect`, from `LinkInv`. Its `WritingInv` says that the pieces tile the stream
  (`Tiling`: in order, without a hole), that each frame is placed in it (`Placed`) and
  what each writer still owes (`Pending`); `ReadingInv` that a reader is where its step
  says and that each result begins where the one before ended.
- `StaysInStep` (`InStep`). This is no invariant that a step keeps: it says of every
  state with `LinkInv` that the i-th result is the i-th message if those before were
  delivered, and goes from call to call by the well-ordering of the numbers
  (`NumberByNumber`). It assumes `SizesFit`, that the size of every payload is a
  number of 32 bits: WriteFrame writes `uint32(size)`, and a longer one would lose its
  upper bits.

`Dashboard_proofs`. `CallsInv` says what a goroutine claims on the lock at each step,
held or waited for, and who the writer is; it bounds the read locks by two and makes
sure that a release has something to release. `RegistryInv` joins the types of the
maps with `RegistryConsistent` and the part of `StatsAddUp` about the totals. The counts
add up because the five classes of statuses partition what `GetStatus` returns, so the
cardinalities do.

- `TypeCorrect`, `RegistryIsConsistent` (`RegistryConsistent`), `StatsAreConsistent`
  (`StatsAddUp`).

`Resources_proofs`, the selector. `CacheLedger` is inductive with the types of the
counters and a finite cache; the step that adds an entry uses that its key is new, and
that a cleanup, which runs after `lastSelectionAt` was set to `now`, finds no entry too
old. For `CachedFits` the invariant says of each entry that it fits some request with its
key and its size; that it then fits all of them rests on the key: one that joins two
sizes whose numbers of KB are runes of their own (`InSpan`) joins only sizes between the
same thresholds (`SameRune`, the character that stands for no character included), and
these get the same parameters. `TypeOK` needs that every score is an integer. Each
scorer gives one (`ScoreType`), negative divisors of the size score included; the sums
are integers since the library's fold over a set is the sum that `Sums` defines, which
exists for every finite set (`SumsExist`, `SumsType`); and the mean is one because it is
taken only when the weights do not add up to zero. The best strategy is a registered one
because the first of the highest scores exists (`FirstHighest`).

- `CacheLedgerHolds` (`CacheLedger`), `CachedSelectionsFit` (`CachedFits`),
  `SelectorTypeCorrect` (`TypeOK`).

`Resources_proofs`, the memory manager. `LedgerExact` is inductive with the types. For
`EmergencyFollowsLevel` the invariant says of a monitor in each step how what it
remembers of the level relates to the stored one (`MonitorFits`): until it has
stored a new level the block fits the stored level, then still the old one. It
needs `MonitorsInv`, that a Start not yet called has launched nothing.

- `MemoryTypeCorrect` (`MemoryTypeOK`), `LedgerIsExact` (`LedgerExact`),
  `EmergencyCorrect` (`EmergencyFollowsLevel`).

Every invariant and every action property that a passing run checks is stated by one
of these theorems, and so are the two refinements. `HandOffExclusive` and
`CompletionFlagTrue` are conjuncts of invariants that are proved and have no run of their
own. Only model-checked for good: liveness (`HandlerTerminates`, `CloseUnblocksAccept`,
`IdleListenerCloses`, `TransfersEnd`, `ReceiveReturns`, `FrameReadEnds`, `RecoveryEnds`,
`ProcessorsEnd`, `CallsReturn`), since liveness under fairness and `ENABLED` are
beyond the prover; the finding of `monitor_alert`, which is a counterexample; and
`NothingSwallowed`, which TLC computes for the default handler. The library's induction theorems take an operator as a
parameter, which the provers cannot instantiate; where a proof needs induction over
numbers, it goes through a set of numbers and the least one outside of it.

## 7. What is not modelled

- `console_progress.go`: draws what the tracker notifies and decides nothing.
- `message_processor.go`: a codec and a message pool that no other part of the package
  uses.
- `largemsg.go`, `timeout.go`: wrappers of a `net.Conn` whose behaviour is that of bufio
  and of the connection's deadlines, outside the repository.
- `adaptive_buffer.go`, `advanced_buffer.go`, `buffer_factory.go`: pools of byte slices.
  The transporter is given a buffer and never calls it; reuse and pressure depend on
  sync.Pool and the garbage collector.
- Of modelled components: the Send and Receive of the sizer's strategies, its
  RegisterStrategy and EstimateSize, which nothing else in the package calls; the
  handler's callbacks and IsRecoverable; the listeners of the monitor and the
  memory manager; Dial and its options.
- Everywhere: formatting and drawing, logging, wall-clock times (timeouts and rates
  are choices), the contents of messages beyond a byte, the example program. Of
  libp2p only what the code uses is modelled: a handler table, streams that open,
  carry data and are reset.

## 8. Running

In this directory, with the TLA+ tools and TLAPS at hand:

    tlc -workers 2 -config Listener_safety.cfg MCListener.tla
    tlapm Listener_proofs.tla

The run's module and configuration are in `PROJECT.json`.
