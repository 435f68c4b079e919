# LogBridge: specification, model checking and proofs

LogBridge reads a growing log file on one machine (the *client*, `src/src/main.cpp`),
keeps every line in a write-ahead log until a *server* (`src/src/ServerMain.cpp`)
has acknowledged it, and sends it over TCP. The server prints each message,
remembers per client the highest ID it has confirmed, and skips what it has
already confirmed. The promise (`src/README.md:208`) is "sent at least once, with
durable deduplication at the server". This directory holds TLA+ models of that
system, TLC configurations that check them on small instances, and TLAPS proofs.

Paths below are those of the repository under `src/`.

## 1. Inventory

| Component | State | Operations | Correct when |
|---|---|---|---|
| Client program `src/main.cpp` | `running`, the reader's position, messages of the round, queue, what the consumer still has to send | producer and consumer thread (`sendMessages`, `deliverWithRetry`, `waitForRetry`), start, stop, join | no line lost, repeats only after a fault, stops when told, never half alive |
| Write-ahead log `WriteAheadLog.cpp` | `pending_`, `pending.wal` | `append`, `confirm`, `load`, `rewriteLocked` | what was appended and not confirmed survives any crash; its own file is never refused |
| Client state `ClientState.cpp` | identity, next ID, checkpoint; `client.state` | constructor, `nextMessageId`, `updateFileCheckpoint`, `persist` | an ID never names two messages; the checkpoint never passes an unsafe line |
| Bounded queue `BoundedBlockingQueue.h` | elements, `closed_`, two condition variables | `push`, `pop`, `popBatch`, `close` | nothing lost or doubled, no lost wakeup, `close` releases all |
| TCP client `TcpClient.cpp` | socket | connect, `sendLogBatchAndWaitAck`, `receiveAck` | an ACK is taken only for the batch it answers |
| Server program `ServerMain.cpp` | the batch at hand, `latestProcessed` | accept loop, batch loop, signal thread | acknowledged implies printed and durable |
| Deduplication store `DedupStore.cpp` | `confirmed_`, `dedup.state` | `highestConfirmed`, `confirm`, `load`, `persist` | a watermark once returned never falls, memory or disk |
| TCP server `TcpServer.cpp` | listening and client descriptor | listen, `acceptClient`, `receiveLogBatch`, `sendAck`, `stop` | a retried batch meets a server that can still serve it; descriptors are neither leaked nor closed twice; a stop is clean and always completes |
| Durable files `Persistence.cpp` | temporary file, target file | `appendDurably`, `writeAtomically`, `readFile` | an append is nothing, a part, or all; a replacement is old or new; what has returned survives a power failure |
| File tail reader `FileTailReader.cpp` | descriptor, device and inode, offset, partial line | `readNewLines`, `openCurrentFile`, `readFromOpenFile`, `committedOffset` | every complete line once, whole and in order; the checkpoint never ahead of what is stored |
| Wire protocol `Protocol.cpp` | none | `serialize*`, `deserialize*`, `parseFrameHeader`, size limits | what is written can be read back; what is accepted is a frame that encodes it; no batch the client makes is refused |
| Socket I/O `SocketIO.cpp` | none | `sendAll`, `receiveExact`, `receiveFrame` | whole frames in order, or an error |
| Shutdown signal `ShutdownSignal.cpp` | signal mask | constructor, `waitFor`, destructor | a signal reaches the waiting thread |

**Interactions.** In the client process the producer appends to the WAL, then moves
the checkpoint, then pushes to the queue; the consumer pops a batch, sends it,
waits for its ACK and confirms the WAL. The WAL is shared by the two threads
(under its mutex), `running` is an atomic flag all threads test, and `main` closes
the queue and joins. Client and server share nothing but TCP connections. The
server is single-threaded and leaves new connections in the kernel's backlog;
a client that gives up a connection leaves its frame in that backlog, and the
server meets it later.

**What is hard.** Any of four durable writes (WAL append, WAL rewrite, state,
watermark) may fail with the file unchanged or already changed; each process may
die between any two steps; a timeout races the server's answer, and the retry
overtakes the abandoned connection; an ID is computed from two files that can
disagree; every shutdown path has to release a thread blocked elsewhere. The log
file belongs to other programs, which rename, replace and truncate it between any
two system calls of the reader. The server's sockets are closed by one thread while
another uses them. A power failure keeps what was synced, and perhaps more. The
`hazards` of `PROJECT.json` list these at their lines.

## 2. Modules

| Module | Models | State |
|---|---|---|
| `LogMessage` | `LogMessage.h` | the message record, ID range |
| `WriteAheadLog` | `WriteAheadLog.cpp` | `pending`, `walFile`, `walTail` |
| `ClientState` | `ClientState.cpp` | `state`, `stateFile`, `usedIds` |
| `Transport` | `TcpClient.cpp`, `TcpServer.cpp`, the kernel between them | `listening`, `conns`, `sock`, `inbox` |
| `ClientMain` | `main.cpp`; extends the three above | `proc`, `running`, `ppc`, `cur`, `readPos`, `messages`, `queue`, `closed`, `cpc`, `sending` |
| `DedupStore` | `DedupStore.cpp` | `dedup`, `dedupFile` |
| `ServerMain` | `ServerMain.cpp`; extends `DedupStore`, `Transport` | `spc`, `stopping`, `rx`, `pos`, `latest`, `output`, `reprinted` |
| `LogBridge` | one client, one server, faults; extends both programs | `left`, the faults that may still happen |
| `LogBridgeInv` | the inductive invariant of `LogBridge`, in layers | |
| `ReliableLog` | abstract specification that `LogBridge` implements | `held`, `delivered`, `upto` |
| `DedupStoreSpec` | `DedupStore` alone, with any caller | `promised` (history) |
| `BoundedBlockingQueue` | `BoundedBlockingQueue.h`, per critical section | queue, waiting sets, program counters, histories |
| `FileTailReader` | `FileTailReader.cpp`, one step per system call | the files as bytes, `offset`, `pending`, `switchOnNext`, ... |
| `TailProducer` | the producer's loop around the reader, WAL and checkpoint as far as they outlive the process, and the programs that own the log; extends `FileTailReader` | `stored`, `ckpt`, the writer |
| `Persistence` | `Persistence.cpp`, one step per system call, used as the WAL uses it, with power failures | file, what of it is on disk, what the directory may still name, the temporary file |
| `Protocol` | `Protocol.cpp`: encoding and decoding as operators | |
| `WalFormat` | the bytes of `pending.wal`: append, confirm, load and repair; extends `Protocol` | the file, the frame being written, `pending_` |
| `FrameTransfer` | `SocketIO.cpp`: frames over a stream of bytes; extends `Protocol` | the side that sends, its frame, the stream, the receiver's buffer |
| `BatchSizing` | the size checks of `serializeLogBatch`, and their theorem; extends `Protocol` | `count`, `seen`, `payloadSize`, `outcome` |
| `WireExchange` | the messages as bytes from the log over the connection to the server, and the ACK back; extends the three above | the batch, what the server decoded, the ACK to apply |
| `TcpServer` | `TcpServer.cpp`, `ShutdownSignal.cpp` and the two threads of `ServerMain.cpp`, one step per atomic operation or system call | the atomics, the descriptor table, both threads |
| `MC*` | TLC instances: the symmetry sets | |
| `*Proofs` | lemmas and theorems; `LogBridgeProofs` extends `LogBridgeTypeProofs` | |

### Correspondence with the code

*Producer.* `ppc` runs `read` (readNewLines), `alloc` (nextMessageId), `append`
(wal.append) for each line, then `checkpoint`, `push` for each message, and back.
Every call that can throw has a second action that ends in `ProducerThrows`, the
thread's `catch`: `running` becomes false, the round is dropped, then the queue is
closed. `PushRefused` is the early `return` of a refused push.

*Consumer.* `loop`, `pop`, `fill` (the timed part of popBatch), `deliver`, `send`,
`await`, `confirm`, `backoff`. All failures of a delivery, a failing `wal.confirm`
included, go through `DeliveryThrows`: drop the connection, wait, retry the same
batch. At start the recovered messages go directly to `deliver`, before the queue
is looked at, as in the consumer thread.

*Process.* `StartWal` and `StartState` are the two constructors that write files.
`Crash` loses everything but the files, and may leave a part of a record in the
WAL when it hits an append. `LoseState` removes `client.state`, for which the
constructor of `ClientState` has recovery code. A write that fails during start-up
ends the program; its outcomes are those of `Crash` just before or just after the
step, so it has no action of its own.

*Server.* One action for accept, receive, each message of the batch, the watermark,
the ACK, and each way a connection ends. `ServerStopSignal` is the signal thread's
`running = false; stop()`, and may come between any two of these.

*Durable files.* `appendDurably` that throws or is killed leaves nothing, a part
(`walTail = "torn"`), or all of the record. `writeAtomically` that throws leaves the old
file, or the new one when only the directory sync failed. The memory then follows
the code: `ClientState` and `DedupStore` keep the old value, `WriteAheadLog::confirm` has already
dropped the messages.

*Queue.* `BoundedBlockingQueue` models one hold of the mutex per step and the
notification after it as another; `ClientMain` uses the queue's sequential
behaviour, which is what the queue's own runs and theorems justify. A `popBatch` whose
deadline has passed calls `wait_until` once more, which returns at once but lets go of
the mutex; `TakeBatch` therefore also takes what came in then.

*Tail reader.* One `readNewLines` is `ReadNewLines` (the switch, or `stat` of the
path), `ReadFstat` and `ReadPread`; between them the writer may write a byte, and
files may be renamed, created and truncated. The text of a line is two bytes and
its newline a third, so a text can be half written and half read, and a line cut in
the middle of its text or before its newline. `StoreLine` is
`wal.append`, `Checkpoint` is `updateFileCheckpoint(committedOffset(), ...)`. Device and
inode are one number. `Init` also starts from a `client.state` of the legacy format,
which has an offset and no identity; `ForgetCheckpoint` is a start with another log
path, or a lost file.

*Durable files, call by call.* `Persistence` has `file` as processes see it, `synced`
as the part that certainly is on disk, and `old` as the contents an unsynced
directory entry may still lead to. A process that is killed keeps the first, a power
failure picks any content in `AfterPower`. `directory` is the data directory, which
`ensureParentDirectory` creates when it is missing (`EnsureDirectory`); nothing syncs the
directory above it, so a power failure may take a directory that this program created
(`"new"`) away with everything in it. One that was there before, or that has come back
from a power failure, is taken to be on disk. A `confirm` that throws has already emptied
the memory; `again` says that `deliverWithRetry` will repeat it, and the repeated one
(`ConfirmAgain`) finds nothing to remove and returns without a rewrite
(`WriteAheadLog.cpp:37-39`). `undone` are the records for which that is so.
Assumed: a failing fsync does not forget data for good, and a crashed file system leaves
no garbage behind the end of a file.

*Frames.* A byte has `Base` values (4 in the run) and every field its width in
bytes, so that fields overflow at `Base^w`. A decoder that throws returns `Throw`.
`WireExchange` follows a message from `wal.append` through `serializeLogBatch`, a
stream that send and recv cut into pieces, and `deserializeLogBatch`, to the ACK and
`wal.confirm`; a process may die inside a frame of the file or of the stream. A
damaged frame is decoded only by the property `AcceptedIsCanonical`, which compares
decoding with encoding: what is accepted must be what the encoder makes of the value.

*Descriptors.* In `TcpServer` the lowest free number is reused, a blocked call waits
on the object and not on the number, and only `shutdown` wakes it. A client may be
silent for ever, and one in `Deaf` lets the ACK block. Main opens descriptors in two
places, accept and the file of the deduplication store; the signal thread opens none,
which is why a number that main holds across a `stop()` can be closed but cannot name
something else.

Two abstractions deserve a reason. In the delivery model (`ClientMain`) a log line is
its number, the checkpoint a line count, and a read returns some of the lines not
yet read, in order; `TailProducer` shows that the reader does that (`NoLineMissed`,
`LinesWhole`, `RepeatsOnlyAfterCrash`) and where it does not (section 6).
`Unconfirmed` keeps the suffix behind the confirmed ID where the code runs
`remove_if`; `Inv` has that IDs increase along `pending_`, and
`LogBridgeTypeProofs!UnconfirmedFacts` proves that the suffix is then exactly what the
filter keeps. `WalFormat` has the filter itself.

The names that begin a comment "Mutant of X" are variants of an operation with a
plausible mistake in it. They are used by no specification; replacing X by its
mutant must make TLC report the property that `PROJECT.json` pairs it with, which
shows that the property can fail.

## 3. Runs

Faults are drawn from budgets per kind (`MaxClientFaults`, `MaxServerFaults`,
`MaxNetFaults`, `MaxStops`), written C/S/N/T. A fault can strike at any step.

| Run | Instance | Shows |
|---|---|---|
| `delivery` | 2 lines, batches of 2, queue of 2, 1/1/1/1; 1.4 million states | `NoLineLost`, `DedupNeverSwallows`, `AckMatchesBatch`, `AckedIsDurable`, `NoReprint`, `LinesPrintedOnce`, `RunningMeansWorking`, types, and `Inv`, the inductive invariant of the proofs |
| `recovery` | 2/1/0/0; 1.9 million states | `RestartNeverRefused`, `IdNeverReused` when one fault hits the recovery from another; the refinement `ImplementsReliableLog` |
| `at_least_once` | 1/1/0/0, fair | `AtLeastOnce` |
| `shutdown` | 1/0/0/1, line 2 oversized, IDs run out, fair client only | `ShutdownCompletes` though the server may hang or stay down |
| `oversized_line` | line 1 oversized, no faults, fair | violation of `AtLeastOnce`, see section 6 |
| `queue` | 2 producers, a popBatch and a pop thread, capacity 2, maxItems 2, fair; 57,000 states | `NothingLostOrDoubled`, `BatchBounded`, `ConsumerNotStranded`, `ProducerNotStranded`, `CloseReleasesAll`, `EverythingReturned` |
| `watermarks` | 2 clients, IDs to 4 | `PromiseKept`, `WatermarkMonotone` |
| `tail` | 2 lines, 3 files, 1 truncation, the client ends or forgets its checkpoint twice; orderly and hostile environments; fair; 670,000 states | `NoLineMissed`, `EveryLineStored` (orderly), `LinesWhole`, `CheckpointBehindStored`, `RepeatsOnlyAfterCrash` (any) |
| `rotation` | 2 lines, 2 files, writers that keep the old file | violation of `DrainedBeforeSwitch`, see section 6 |
| `power_failure` | 4 records, 4 faults (failing calls, kills, power failures), with and without a data directory at first; 600,000 states | `PromisedSurvives`, `DroppedStaysDropped`, `AlwaysLoadable` |
| `wire` | the 2 largest IDs in the log, 1 more appended, a socket buffer of 2 bytes, 1 fault; 77,000 states | `DecodedAsAppended`, `AcceptedIsCanonical`, `TornTailRecovered`, `EndTellsTheTruth`, `BatchNeverRefused`, `TransferEnds` |
| `server_stop` | 2 clients, one of them deaf, a signal at any time; 55,000 states | `OneOwner`, `StopIsClean`, `StopCompletes`, `WaitingServed` |

A module's `TypeOK` documents what its variables hold. That of `LogBridge` is checked
and proved, those of the queue and of the watermark table (`QTypeOK`, `DTypeOK`) are
proved.

**Why these bounds.** Two lines are enough for a batch of two, a batch split in two,
a message appended while another is confirmed, and a reader between two messages.
The range of IDs (`MaxUint64` 3 to 6) ends within reach, so the end of the range is
visited as well; the largest values let every fault of the budget cost an ID and
still leave one for each line. A backlog of 1 holds one waiting connection next to
the one being served, which is a retry that overtakes an abandoned frame; a third
attempt finds it full. Timeouts are not counted by a budget: `AckTimesOut` can
happen whenever the client waits. Two client identities allow for one loss of the
identity. The queue is as large as a batch; the code has 100 and 10. In the run `queue`
there is a thread that calls pop, and a batch fits into the queue; so the run cannot show
how a producer and a half-filled popBatch sleep side by side in a queue smaller than a
batch. That case is the subject of the theorem `NoProducerStranded` and its assumption.

Three files are a rotation, and a second one while the reader is still in the first
file; two lines are one behind the other in a file, or in two files with a third before,
between or behind them; two ends of the process are one that hits the recovery from
another. Four faults let a power failure follow a kill
that follows a failing call, with one to spare. Four values of a byte keep the
real widths of the fields and let 8 bytes be counted by TLC. The messages of `wire`
have the last IDs before 8 bytes overflow, a negative time stamp, and empty and full
strings; two bytes at a time cut every field and every border between header and
payload. Descriptors run from 3 to 6: the listener, a client, a file, and one that
only a leak would need.

**What the environment may do.** Each behaviour of `tail` belongs to one of the
`Environments`. In the orderly one the owner of the log rotates as logrotate does:
rename, create, and the writer changes over when the new file is there; and the
client is not ended while a rotated file holds lines it has not stored. In the
other, `"lag"` lets a writer keep the old file and `"down"` lets the client end at any
moment of a rotation. Three things never happen, because the reader has no way to see
them: a file is rotated away before the reader has opened it; a truncated file grows past
the reader's old offset before the reader looks again; and a file is rotated while
`client.state` still has an offset without identity (the legacy format), which
`openCurrentFile` (`FileTailReader.cpp:102-105`) would apply to the new file, skipping
its beginning. The guards of `MoveAway` and `MayWrite` exclude them.

**Symmetry.** Client identities are interchangeable (no identity is named by a
definition), which `delivery` uses. Temporal properties are checked without symmetry.

**Deadlock** is not checked where resting is right: a client without new lines and a
server without connections rest, and so does a queue whose threads are done.
Progress is stated by the liveness properties instead. `watermarks`, `tail`,
`rotation` and `power_failure` do check deadlock.

**Fairness.** `ClientFairSpec` assumes that each client thread that can step does,
and that the program is started again after it has ended. `FairSpec` adds that the
server is scheduled and restarted, and that from some time on it answers before
`AckTimeout` (3 s) expires: a server that is always slower is retried forever, by design.
Nothing is assumed of faults, of stop signals, of new log lines, of `close`, or of
spurious wakeups. In the queue deadlines pass, since they are clocks.
In `tail` the producer polls, a client that ended is started again, and a
rotation that has renamed the file creates the new one; nothing is asked of writers.
In `wire` a recv, and a send to somebody who has gone, are sure to return; a client
that waits in `popBatch` is in neither, and does not notice that the server has gone before
its next batch (`Busy`). In `server_stop` the two threads run; clients may be silent for
ever, accept may fail, and signals need not come. `WaitingServed`
therefore has the departure of every client as its premise: the code has no
time limit on a receive, and a healthy idle client stays connected, so nothing in
the repository justifies it as fairness.

`ShutdownCompletes` needs no assumption on the server: the 3 s socket timeout is
what ends a wait for a hung server, and its mutant (no timeout) hangs the client.

## 4. The abstract specification

`ReliableLog` knows three things about lines: which are `held` on the client's disk,
which are `delivered`, and the position reading resumes from. A line is held before
it is delivered, is let go only when delivered or when it will be read again, and
the position passes only covered lines. `ImplementsReliableLog` maps `held` to the
lines in `pending.wal`, `delivered` to the printed ones and `upto` to the checkpoint in
`client.state`. TLC checks the refinement and `Refinement` proves it;
`NothingForgottenAlways` proves what it buys: behind the resume position no line is
ever forgotten.

## 5. Proofs

All theorems hold for every value of the constants that satisfies the named
assumptions: any number of lines, IDs, client identities, any batch size, queue
capacity, backlog (each at least one), any fault budgets, any set of oversized
lines, and for the queue any sets of threads.

* **`LogBridgeTypeProofs!TypeInvariance`, `TypeCorrect`**. `TypeOK` is not inductive:
  `ProcessMessage` reads `rx[pos + 1]`, `SendAck` the first connection,
  `NewMessage` uses `nextId - 1` as an ID. The strengthening is `ClientShape` and
  `ServerShape`, which tie the locals of each thread to its control point
  (a consumer at `confirm` has a batch; a server at `process` has a message left,
  unless `stop()` took the connections). The proof has a lemma for each group of
  actions (`ProducerType`, `ConsumerSteps`, `MainSteps`, `ServerSteps`), one step per
  action below it, and frame lemmas for the side that does not move. That no ID
  and no watermark reaches `MaxUint64` is part of the result.
* **`LogBridgeProofs!RunningMeansWorkingAlways`**: while `running` holds, neither
  thread has ended and the queue is open. The strengthening `Fresh` says that a
  process that is not up has no flag left over from an earlier run.
* **The delivery system**: `LogBridgeProofs` proves every
  safety property that `delivery` and `recovery` check, and the refinement. None of them is
  inductive; `Inv` (`LogBridgeInv`) is, and is proved in layers, each from those before it:
  - `ConnInv` (`ConnInvariance`): between send and ACK the batch is in one place of
    the one open connection. From it `AckMatchesBatchAlways`: an ACK left over from an
    abandoned connection cannot be read on the next one.
  - `OrderInv` (`OrderInvariance`): IDs increase along the WAL, the queue and every
    frame, all of one identity, and stay below the ID that either file gives after a
    restart. This is where `client.state` and `pending.wal` may disagree by one write.
    From it `RestartNeverRefusedAlways`.
  - `PrintInv` (`PrintInvariance`): a frame, and what the consumer has still to send,
    leave no unprinted message of the WAL out below their last ID, so a watermark never
    passes a message that was not printed. From it `DedupNeverSwallowsAlways` and
    `AckedIsDurableAlways`.
  - `SafeInv` (`SafeInvariance`): what is on its way is still kept or printed, and the
    lines before the checkpoint, in the file and in memory, and those the producer has
    passed are covered. From it `NoLineLostAlways` and `IdNeverReusedAlways`.
  - `OnceInv` (`OnceInvariance`): as long as no server fault has happened what is printed is
    below the watermark or in the part of the batch that is done, and as long as no client
    fault has happened a line has one message. From it `NoReprintAlways`, and
    `LinesPrintedOnceAlways` under two more hypotheses, `Oversized = {}` and
    `MaxLine < MaxUint64`: the producer stops at an oversized line, and when IDs run out,
    between storing the lines of a round and moving the checkpoint, so the next start
    reads them again under new IDs (the `shutdown` run has both).

  The proofs first split steps by what they touch (`NextMoves`, `ClientFileSteps`: a step
  of the client either leaves its files alone or is one of a dozen named actions), then
  have a lemma for each layer and side. Proving `LinesSafe` showed that it needed
  `state.fileOffset <= cur`, which TLC then confirmed. `InvAlways` puts the layers
  together.
* **`LogBridgeProofs!Refinement`** (`Spec => ImplementsReliableLog`, all of it safety). A step
  that leaves `pending.wal` and the output alone is `MoveTo` or a stutter, because the
  checkpoint of the next state is covered (`NoLineLost` primed); an append is `Hold`; a
  compaction is `LetGo`, since `ConfirmedIsPrinted`; a print is `Deliver`, since what is
  printed is in the WAL or was printed before.
  `NothingForgottenAlways` is about the abstract side alone: whatever `ReliableLog` allows, no
  line behind the resume position is forgotten.
* **`DedupStoreProofs`**: `PromiseKeptAlways` and `WatermarkNeverFalls`. The
  argument is that the file never falls below the table. A persist that threw after
  its rename leaves the file ahead, and a later confirm of another client may write
  the older value back; that is harmless because the higher one was never returned.
* **`BoundedBlockingQueueProofs`**: all safety properties of the queue.
  `NothingLostOrDoubledAlways` has the strengthening `Ledger`: elements are numbered by
  their producer, so none is accepted twice; the queue is the newest part of what was
  accepted; two consumers hold different elements. The wakeups are counting arguments.
  That somebody is awake is not preserved, because a thread may take one element and
  leave another; `EnoughAwake` says that while a consumer waits there are at least as many
  producers about to notify and consumers awake as elements (`NoConsumerStranded`), and
  `EnoughRoom` the same of free places, pops about to notify and producers awake
  (`NoProducerStrandedByPop`, for queues with a thread that calls pop).
  `NoProducerStranded` is the client's case, where only popBatch consumes: it assumes
  that a batch fits into the queue. With a queue smaller than a batch the property is
  false: popBatch notifies producers only when it returns, so both sides sleep
  until its deadline. The two counting theorems assume finitely many threads.
* **`TcpServerProofs`**: `OneOwnerAlways`, `StopIsCleanAlways` and `ServerTypeCorrect`, for
  any number of clients, frames and descriptors (at least 3, 4 and 5). `OneOwner` counts
  owners; its inductive form `Own` says which object each owner has and that no two share a
  number. It holds because (`NoClientHeld`) from the exchange in `acceptClient` to the
  store `clientFd_` is empty, so the store overwrites nothing that would be leaked, and
  (`Places`) the signal thread starts when the server is complete. A number that main has
  loaded may be closed under its hands before the call, but only main opens descriptors, so
  it names nothing then, never another object (`Kinds`). `StopIsClean` needs `StopMarked`:
  while main serves, the listening socket is taken away or shut down only after
  `stopped_` was set. One lemma per kind of step (move, take, shutdown, close, open, load,
  call), one case per action on top of them.
* **`PersistenceProofs`**: `PromisedSurvivesAlways`, `DroppedStaysDroppedAlways` and
  `EveryLoadSucceeds`, for any number of records and faults. The invariant, `Inv` there,
  states the three properties of every content the disk may still have (`DiskInv`, with
  `Good` for "halves in order and in pairs", which a prefix inherits), that memory is in
  order and has everything that is promised and nothing that was dropped (`MemInv`), that
  a record is appended behind complete ones only (`TailInv`: after an append has thrown
  there is no other in that process, and load repairs), what appendDurably has written so
  far (`AppendInv`) and that writeAtomically's temporary file grows to the bytes of the
  memory (`RewriteInv`). Nothing is promised, and nothing counts as dropped, before the
  directory is synced; then only one content is left (`OnlyFile`). Each of the first two
  theorems has an exception, which is the code's and is stated in the property: the whole
  data directory may be missing when this program has created it, and a record comes back
  when the rewrite of the confirm that removed it has failed. The invariant therefore
  speaks of the contents that the entry in the data directory may name (`Entry`), and of
  `dropped \ undone` (`Gone`); that the repeated confirm adds nothing to the latter is
  `ConfirmAgainSafe`.
* **`BatchSizing!BatchNeverRefusedAlways`**: no batch of records that the WAL has
  accepted is refused for its size or count, for all limits with
  `SendBatchSize <= MaxBatchMessageCount` and a payload limit that has room for
  `SendBatchSize` of the largest records (`LimitsAgree`). `CodeLimitsAgree` is that
  assumption with the numbers of the code (10 of at most 100 messages, and
  4 + 10 * 1,052,828 bytes against 16,777,216); TLC evaluates both. The strengthening
  `SizeInv` bounds `payloadSize` by the prefix and the records seen so far. It matters
  because a refused batch would be retried for ever.

* **`TailProducerProofs`**: all safety properties of the tail reader, for any number of
  lines, files, truncations and process ends, in any set of environments. Every one of
  them starts from what a `pread` returns: in the bytes of a file the two bytes of a text
  and a newline take turns, the bytes held back and those just read continue the file
  from the committed offset, and of such a run of bytes `LineEnds` is 3, 6, ..., so that
  `CompleteLines` and `Unfinished` are known (`LinesOfAlternating`,
  `UnfinishedOfAlternating`; that there are n multiples of three up to 3n is a bijection
  and needs no induction). There are four inductive invariants:
  - `IInv` (`TailInvariant`) holds in every environment. The reader is `InStep` (its
    offset is in the file, what it holds back is what it read after the last newline, and
    every line before that is stored or about to be) or `Shrunk` (the file was truncated
    and is too short, which the next `fstat` sees); the checkpoint is the one or the other
    in the file at the path. The committed offset is a multiple of three unless an
    unfinished line was just flushed and a switch follows. From it `TailTypes` and
    `TailCheckpointBehindStored`.
  - `Drained` adds what an orderly environment gives: files that neither the path
    names nor the reader has open are stored; a read of a replaced file sees its end; a reader
    about to switch is at that end. From it `TailNoLineMissed` and
    `TailDrainedBeforeSwitch`, the property of the run `rotation` without the writer that keeps
    the old file.
  - `CutInv` says where a line that is returned or stored may be cut (`CutOK`): at the end
    of a file that is not at the path any more, and in an orderly environment only where the
    writer has left it. It needs `Drained`, and `ReplacedInStep`: the `pread` of a
    replaced file is not `Shrunk`, because only the file at the path is truncated. From
    it `TailLinesWhole`.
  - `Ordered` is for `TailRepeatsOnlyAfterCrash`, which counts and is far from inductive:
    lines returned, bytes held back and text not read yet are in the order they were
    written, and lie beyond the last line stored unless a step back is already paid for
    (`MayStepBack`); and so is what a restart from the checkpoint would read, except between
    storing and checkpointing, where the end of the process pays.

  TLC checked the four on small instances first.

**Model-checked only.** Liveness and fairness (`AtLeastOnce`, `ShutdownCompletes`,
`CloseReleasesAll`, `EverythingReturned`, `EveryLineStored`, `StopCompletes`,
`WaitingServed`, `TransferEnds`) are out of the prover's reach. So is what the encoders and
decoders of `Protocol` compute: integers are cut into bytes with powers and remainders of
`Base`, and the provers know nothing of `^`; batches and logs are folds and recursive
functions over their records, whose results need induction. On it rest
`DecodedAsAppended`, `AcceptedIsCanonical`, `TornTailRecovered`, and also
`EndTellsTheTruth`: that a receiver throws only inside a frame means that it never
misreads the length of a complete one. `DrainedBeforeSwitch` is false in general (section 6).

## 6. What the checks found

The system keeps its promise under every fault in the models, with these exceptions.

*An oversized line* (run `oversized_line`). A line above `MaxContentLength` (1 MiB) is refused by
`serializeLogMessage` inside `wal.append`; the producer's handler stops the client;
the checkpoint is still before the line. Each restart ends at the same line, after
using up an ID, and the lines after it are never sent, while `src/README.md:208` promises
"至少发送一次" without a limit on lines. Lines read in the same round before the
oversized one are stored and sent again, under new IDs, by every attempt. The run has
few IDs, so its counterexample ends with the IDs used up; with the code's 64 bits
the restarts go on in the same way.

*A writer that keeps the old file* (run `rotation`). The reader takes the rest of
the old file in the round that sees the rotation and closes it at the beginning of
the next, 100 ms later, without reading it again. A line written in between, by a
program that has not reopened its log yet, is lost, while
`src/tests/FileTailReaderTest.cpp:94` says "rotation must drain the old file before
switching". The test writes its last line before the round that sees the rotation.
The same writer may be in the middle of a line: the reader then returns the first half as
a line (`FileTailReader.cpp:42-45`), and the rest, written later, is lost. `LinesWhole`
says that this is the only place where a line is cut; in an orderly environment the half is
all that the writer has written.

*A rotation around a stop* (no run of its own). The client is stopped cleanly after
the file was renamed and before it has read the end of it, or the file is rotated while
the client is down. The next start sees another inode at the path, begins at
offset 0 of the new file, and nobody reads the rest of the old one. The checkpoint
names one file, so this is a limit of its design and no promise is broken by it;
`tail` includes such behaviours (`"down"`) and shows what still holds in them.

*A data directory made on the first start* (no run of its own). `ensureParentDirectory`
creates it, and its entry in the directory above is never synced, while
`src/include/Persistence.h:15` says of `appendDurably` "返回前保证数据已交给磁盘". Until that
entry reaches the disk by itself, a power failure may take the directory and all appended
messages away. `PromisedSurvives` has it as its one exception; a directory that was
there before the first start is not concerned.

*A confirm that threw* (no run of its own). `confirm` empties the memory and then rewrites
the file. When the rewrite fails, the batch is sent again, and its confirm finds nothing to
remove and returns; the file still has the messages. A restart sends them once more,
and the server's watermark swallows them (`NoReprint`, in `delivery`, has this
path). The next confirm that removes something removes them as well.

Some facts worth knowing that are not defects. Repeats in the printed log come only
from a client fault (a line read again under a new ID) or from a server fault
between printing and the watermark (`NoReprint`, `LinesPrintedOnce`), which the
repository's README concedes; a stop in the middle of a batch never causes one.
The re-check of `stopped_` behind `clientFd_.store` is not what makes a stop complete,
since `running` is false by then; `shutdown` before `close` is: without it a blocked
recv sleeps on (the mutant of `StopCompletes`). An accept that fails by itself, for want
of descriptors for instance, ends the whole server. A kill after the rename of
`dedup.state` or `client.state` and a power failure before the next sync bring back the
older version, which nobody has been told about yet.

## 7. Not modelled

Every safety property that a run checks is proved, but for the four that depend on
the byte codec (end of section 5).

Left out: metrics and console output (no property depends on them), the
command line, name resolution and the (blocking) connect of `TcpClient` beyond its
outcome, the text formats of `client.state` and `dedup.state` (written and read whole,
by `writeAtomically`), the benchmark program, `receiveLogMessage` and `sendLogMessage`
(no program calls them; their frames are in `Protocol`), carriage returns, read errors of the
log file other than a missing one (they end the client as a crash does), inode
numbers that are reused, garbage that a file system leaves after a power failure.
