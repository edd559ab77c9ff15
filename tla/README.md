# highperf-server in TLA+

A TLA+ development of the C++ server under `src/`: a multi-reactor TCP server
(`server/src/net`), an HTTP layer on top of it (`server/src/http`), and an
asynchronous logger (`asynclog`). TLC checks small instances; TLAPS proves every
safety invariant and action property of the passing runs, and two refinements,
for every value of the constants that the modules' assumptions allow.

Contents: 1 the system, 2 the modules, 3 how the model corresponds to the code,
4 the runs, 5 fairness, 6 the proofs, 7 disagreements with the repository's own
words, 8 what is not modelled, 9 what remains.

## 1. The system

| component | state | operations | talks to |
|---|---|---|---|
| `Channel` | `event_`, `received_event_`, `event_fresh_flag_`, tie, callbacks | enable/disable, `update_channel`, `register_channel`, `unregister_channel`, `handle_event` | its `EventLoop` (`epoll_ctl`), its owner (callbacks) |
| `EventLoop`, `EventTrigger` | epoll, the batch in `events_`, `task_queue_`, eventfd, `quit_` | `loop`, `queue_in_loop`, `run_in_loop_thread`, `add_task`, `wake_up`, `do_pending_tasks`, destructor | every other thread, through the task queue |
| `TCPConnection` | descriptor, output queue, `pending_output_bytes_`, `is_blocking_`, `close_wait_`, `enable_state_`, `version_` | `init_channel`, `read_channel_buffer`, `send`, `shutdown`, `force_close`, `apply_backpressure`, `update_expired_time` | its channel, the timer, the HTTP layer, the server (close_notify) |
| `Timer` | queue of (time, packet) | `add_timer`, `handle_timer`, `stop` | connections, by weak pointers |
| `TCPServer`, `Acceptor` | `conn_manager_`, loops, timers, `robin_idx_` | `channel_dispatch`, `channel_remove`, `start`, destructor | main loop, worker loops |
| `OutputChunk` | written and pending bytes, iovec | `append`, `writeToSocket` | the socket |
| `Buffer`, `HttpParser` | read and write positions; the parse state | append, compact; `fsm_excute` | the read callback |
| `HttpContext`, `HttpServer` | `request_id_`, `next_written_chunk_id_`, `respond_chunks_` | `ParseInput`, `save_respond_chunk` | parser, thread pool, connection |
| `ThreadPool` | queue, semaphore, `running_state_` | `add_task`, worker, destructor | HTTP handlers |
| `HttpRouter` | static table | `get_response` | files (mmap) |
| `LogBuffer`, `LogFlusher`, `Logger` | pool of blocks, flushing queue, `buffer_enable_`, condition variable | `push`, `wait_for_flush_or_timeout`, `get_flushing_buffer`, `recycle_buffer`, `stop` | every thread; one flusher thread |
| `LogFile` | descriptor, `file_size_`, `current_date_`, `write_count_` | `write_log`, `roll_if_need`, `reset_file_fd`, `writev_all` | the flusher, the disk, the clock |
| `KVService`, RPC | a map; stubs | commented out of `server/CMakeLists.txt`, do not compile | |

A connection belongs to one worker loop. Its loop thread runs every method of
it; the pool answers requests and posts the answers to the loop as tasks; the
main loop owns the map that keeps the connection alive. What is hard here:

- edge-triggered epoll: a wake-up that is not used is lost unless something
  re-arms it, while backpressure and the delayed close switch EPOLLIN and
  EPOLLOUT on and off from several places;
- answers come back from the pool in any order and must leave in request order;
- closing has six causes (half-close, `Connection: close`, oversized read,
  write error, unexpected or error event, idle timer) that can overlap with
  queued output and with one another;
- lifetime: a raw `Channel*` in epoll and in the batch, weak pointers in the
  timer and the pool, shared pointers in tasks, and the owner on another thread;
- a request arrives in pieces of any size; the parser leaves off anywhere and
  the buffer under it is compacted, grown and shrunk between two calls;
- a post is two steps, a push and a write of an eventfd (or of a semaphore), and
  its reader is two more; a wake-up may fall between any of them;
- the destructors stop loops, acceptor and pool one after another while
  connections still notify one loop and workers still post to another;
- the logger is a bounded buffer with many producers, a consumer on a timed
  wait, blocks that circulate, and a stop that must flush;
- events of one batch are handled one after another, so that the later ones
  describe a state that the earlier ones have changed.

What makes each part correct: what the parser dispatches depends on the bytes
and not on the reads they came in; a path never names a file outside the root;
a response reaches the peer whole however the writes are cut; whatever is posted
to a loop is run, and every job has a permit; no loop is used after its end by
those who should know; the channel and epoll agree on the interest set;
the byte counter agrees with the queue; answers are in order, complete and
unique; a graceful close loses no queued answer; no wake-up is lost; a closed
connection is forgotten, and one that epoll can still report has not been; the
log hands every record it accepted to the file, in order, and its file is the
size, the age and the place it believes.
`PROJECT.json` lists these hazards one by one, at their lines.

## 2. The modules

Around one connection:

| module | what it is |
|---|---|
| `Channel` | operators on the interest set and the epoll entry, over a connection record |
| `TCPConnection` | one operator per method of `TCPConnection`, over the same record |
| `HttpPipeline` | the state machine: loop thread, pool, main loop, peer, timer, around one connection |
| `OrderedResponder` | the abstract specification: answers in order, only to what was asked, none after the close |
| `TCPConnectionProofs` | what each method preserves, and what it does to the ready list |
| `HttpPipelineProofs` | the inductive invariant and the theorems; on top of it no lost wake-up, the delayed close and the refinement |

From bytes to bytes:

| module | what it is |
|---|---|
| `Buffer` | operators on the read buffer: its cells and two positions |
| `HttpParser` | the state machine of `fsm_excute` under `ParseInput`, over a stream cut anywhere |
| `HttpRouter` | operators from a request to the set of its responses, and the path stack |
| `OutputChunk` | operators on a response being written, its iovecs included |
| `HttpExchange` | the three together: requests in, responses out |
| `HttpParserProofs` | the buffer keeps its bytes, and the parser stands where the consumed bytes say |
| `HttpExchangeProofs` | the theorems about the parser, the paths, the writes and the close |
| `SequenceLemmas` | induction over 0 .. N, flattened sequences, minima and maxima; used by the proofs |

The threads around many connections:

| module | what it is |
|---|---|
| `EventLoop` | the loops as mailboxes: post, eventfd, swap, tasks, `quit_`, destruction |
| `ThreadPool` | queue, semaphore, workers, destructor |
| `Server` | acceptor, dispatch, connections as seen from outside, removal, destruction, on both |
| `ServerProofs` | its inductive invariant and the theorems |

The logger:

| module | what it is |
|---|---|
| `AsyncLog` | the state machine of `LogBuffer` and `LogFlusher`: producers, flusher, stop |
| `FifoLog` | the abstract specification: records go to the file in push order, all of them before stop returns |
| `LogFile` | the state machine of `LogFile` against a disk and a clock |
| `AsyncLogProofs` | the inductive invariant of `AsyncLog`, and that it implements `FifoLog` |
| `LogFileProofs` | the inductive invariant of `LogFile` |

`MCHttpPipeline`, `MCHttpExchange`, `MCServer`, `MCAsyncLog` and `MCLogFile` are
the instances TLC checks.

`TCPConnection` EXTENDS `Channel`, `HttpPipeline` EXTENDS `TCPConnection` and
INSTANCEs `OrderedResponder` as `Promise`; `AsyncLog` INSTANCEs `FifoLog` the
same way. `HttpParser` EXTENDS `Buffer`, `HttpExchange` EXTENDS it, `HttpRouter`
and `OutputChunk`; `Server` EXTENDS `EventLoop` and `ThreadPool`.

The state machines meet at interfaces that each describes from its side.
`HttpPipeline` has one connection in full, with whole requests and responses of
some size, and a post in one step. `HttpExchange` says what the requests and
responses are made of. `Server` makes a post in two steps, has any number of
loops, workers and connections, and keeps of a connection whether it is open.
`AsyncLog` and `LogFile` meet at `write_log`: the first records the blocks it is
called with, the second what becomes of a block of any size.

Definitions introduced as mutations (`ShutdownAtOnce`, `DrainAny`, ...) are
plausible bugs in the operator that follows them. No action uses them; they
show that each checked property fails when the code is wrong in that way.

## 3. Model and code

### The connection (`HttpPipeline`)

One connection is modelled. Connections share the threads, and descriptor
numbers. Through the threads the others delay this connection's loop or reorder
its batch, which the interleavings already contain. Through the numbers they can
take its epoll entry away: `force_close` sets `fd_` to -1 but leaves the number
in the `Channel` (TCPConnection.cpp:109), so a second `force_close` of a connection
that is closed and still alive deletes the entry of whatever open connection of
the same loop was given that number (EventLoop.cpp:126). A second close comes from a
`keep_alive = false` answer that runs on a closed connection (HttpContext.cpp:124),
or from an event of its own batch (Channel.cpp:188). `StaleUnregister` is what this
connection sees of it: at any step of its loop at which it runs no code of its own
its entry may be gone. `lost` remembers that, and `Modified` is what
`update_channel` then does: the MOD fails, and the close callback shuts the
connection down.

**The loop thread** is `pc`. `EpollWait` takes the ready items (the eventfd when
tasks wait, the timer when a packet is due, the connection when its entry is on
the ready list) in any order into `batch`. `HandleTrigger`, `HandleTimer` and
`DeliverEvent` are the three kinds of `handle_event`; `OnWrite`,
`ReadAll`/`ReadTooLarge`/`ReadNothing` and `OnHup` are the callbacks in the
order of `handle_event_selfguard`; each is a step of its own, so the peer, the
pool and the main loop act between them. A callback that closes the connection
clears `received`, which ends the later ones, as `clear_event` does.

**Tasks**: `HandleTrigger` swaps the queue, then each task runs: `InitChannel`
for the dispatch task (with both outcomes of `EPOLL_CTL_ADD`), and
`TaskBegin`, `DrainOne`..., `TaskEnd` for `save_respond_chunk`'s task.

**Epoll**: `mask` is what the last ADD or MOD told the kernel, `edge` is whether
the entry is on the ready list. A wake-up sets `edge` when it brings an event
the mask asks for (EPOLLERR always); ADD and MOD poll the socket and set it at
once; `epoll_wait` clears it. This is the only assumption about the kernel the
no-lost-wake-up invariants rest on.

**Output**: chunks are offsets in one output stream. `written` is what the
kernel took, `drained` what the peer acknowledged; the kernel takes bytes until
`SockBuf` are unacknowledged. A chunk is popped when the whole of it is taken.
`pending` is kept separately, as the code keeps it.

**Requests** are whole: the peer sends requests of a kind (`keep`, `close`,
`bad`, `big`); `big` makes the readv that reaches it exceed the read limit.
Which of several unread requests one readv returns is left open.

**Lifetime**: `Alive` is the reference count: the manager's entry, the queued or
swapped-out tasks, and the tie during an event. `DeliverToDestroyed` is the
step in which the loop touches a destroyed channel; the real outcome is
undefined, the model continues as if the tie did not lock, and `BatchedIsAlive`
reports that the step is reached.

### The parser and the buffer (`HttpParser`, `Buffer`)

**Bytes** are delimiters (space, colon, CR, LF), words, or the last letter of a
header name: wherever the code looks at one byte, so does the model. The last
letter is a byte of its own because the loop that lowers a name leaves it out
(HttpParser.cpp:180). For an empty name that loop is given an end before its begin
and runs on through memory: `ParseHeaderUndefined` stops the model there.

**Numbers**: `Numbers` says which words `std::stoul` reads a number from, and which
number: "3", "12abc" or "-1", which is the largest `size_t`. `SizeMod` is the number of
`size_t`'s. `read_pos_ + content_length` wraps as it does in the code (`BodyEnd`); if
it has wrapped, the body seems to be there, the `std::string` of that length throws
`std::length_error`, and no one on the loop's thread catches it (`BodyAborts`; `pc` is
then "aborted").

**The buffer** has the vector's cells, and positions from 0 as the code counts
them. `Receive` is one readv with `update_write_pos`: into the free cells, the
rest into the caller's extra buffer, then compaction or growth. `UpdateReadPos`
is the move of `read_pos_` with the reset and the shrinking it ends in. Nothing
in the code keeps `read_pos_` below `write_pos_` or below the vector's end;
`ReceiveUndefined` is the readv whose copy would then be of a range that ends
before it begins, and stops the model, since the real outcome is undefined.

**The state machine** has an action per handler and outcome; `packet` is
`current_state_` and `content_buffer_`, `out` what `ParseInput` has dispatched.
`script`, `seen`, `taken` and `cut` are histories: what the client meant, what
the parser was last shown, how far it has moved, and whether it was once run
without the whole body of a request: in the middle of one, which is the case of
`half_body`, or after a head that announces more than the client has.

### Requests and responses (`HttpRouter`, `OutputChunk`, `HttpExchange`)

A response is a record of its status, type, announced length, `Connection`
header, body, and whether the body is mapped. open, fstat and mmap may fail on any
file. A URL stands for a set of paths, given as their parts: in the instance
`/any.png` is every path of up to three parts out of "", ".", "..", a directory and a
file, so that the walk of `validate_static_path` is checked on all of them
against a definition that counts the ups and downs of every prefix.

`OutputChunk` has the string with its written position, and the head and the
file with an iovec each. The head is two lines, so that a write can end inside
it, between head and file, and inside the file. `HttpExchange` lets the kernel
take any part of what it is offered. Parser, router and chunk share nothing but
their inputs, so each response is made and written before the parser goes on;
what happens when they overlap is the subject of `HttpPipeline`.

### Loops, pool and server (`EventLoop`, `ThreadPool`, `Server`)

**A post** is `Post` (the push under the mutex) and `WakeUp` (the write of the
eventfd); `owes` holds the threads in between. **The loop** is `lpc`: it looks at
`quit_` (`CheckQuit`), waits (`EpollWait`), reads the eventfd (`HandleTrigger`),
swaps the queue (`SwapTasks`), runs the tasks one by one. A destroyed loop is
"gone"; `late` records who posts to it, and the model continues with the outcome
in which the freed memory still reads as the closed trigger.

**The pool**: `PushJob` and `PostJob` are the halves of `add_task`; a worker
checks `running_state_`, waits for a permit, locks the queue, takes a job or
finds none. The destructor's `sem_post`s are one step each.

**The server**: `PeerConnect` fills the backlog and sets the edge; `HandleAccept`
and the accept loop follow `accept_connection` with its errors; a connection
goes round robin to a sub loop, is opened there by its task, may have any event
while it is open (one request per read), is closed by its loop, which posts the
removal to the main loop. `Held` is the reference count that a worker's weak
pointer locks against. `Destroys` is the end of `main`: stop the acceptor and
wait for its task, destroy the sub loops, the main loop, the members, and then
the pool, which the `HttpServer` owns and which was built before the server.

### The logger (`AsyncLog`, `LogFile`)

**The log buffer**: one action per section under `log_buffer_mutex_`. A block is
the sequence of its records, so `write_pos_` is its length; records are numbered
by the push that accepted them. `pc` is the flusher: it tests the predicate
(`WaitPasses`, `Sleep`), wakes by notification or by the clock (`WakeUp`,
`TimeOut`), then `Take`, `WriteLog`, `Recycle` until the flushing queue is
empty. `Wakes` is the code after `wait_for`. A spurious wake-up that finds
nothing to do only goes back to sleep and is left out. `push` on a stopped log
or an empty pool returns an error and changes nothing.

**The log file**: `write_log` is two steps, `WriteLog` (the roll) and
`WriteSucceeds` or `WriteFails` (what writev_all did), so that the clock and a
removal of the file come between. `Resets` is `reset_file_fd`: two readings of
the clock, an open and an fstat that may fail. The disk keeps the inodes; a name
is a second. `FILE_MAX_SIZE` is more than one block, as in the code.

### Simplifications

Each is chosen so that it does not hide a behaviour the
properties can see: `PeerDrain` frees the whole send buffer at once (a partial
acknowledgement only delays the same writes); a push to the task queue and the
eventfd write are one step (the reader drains the eventfd before it swaps, so
the only extra behaviour is an empty swap; `Server` has the two steps apart); a close with unread input, which
makes the kernel send RST, is not told to the peer; a MOD fails only where the
entry is missing, after a failed ADD or after another connection's stale DEL; the
connection timer is enabled, as `server/src/app` sets it.

## 4. The runs

| run | what it shows |
|---|---|
| `pipeline_safety` | three requests of every kind in any completion order: accounting, interest, backpressure, no lost wake-up, lifetime, answers in order, the delayed close, and refinement of `OrderedResponder` |
| `pipeline_live` | answers, reclamation and output flow, under fairness |
| `log_buffer` | order, nothing lost, no missed wake-up, refinement of `FifoLog`, and liveness, with the pool running out |
| `log_file` | size accounting, roll by size, date and removal, under failing opens and writes |
| `exchange` | whatever the reads: the buffer keeps the stream, the same requests are dispatched, nothing after a malformed one; paths stay inside the root; responses arrive whole and announce the close |
| `server` | no lost wake-up between push and eventfd, no connection stranded in the backlog, nothing accepted after the stop, and who may post to a destroyed loop, with the destructor starting at any moment |
| `server_live` | a permit for every job; every post is run and the destructors return, under fairness |
| `spurious_close`, `early_close`, `dead_event`, `half_body`, `refused_stays_open` | the disagreements of section 7 |

Bounds. In `pipeline_safety` responses of size 3 do not fit a `SockBuf` of 2, so that
each needs a partial write. `BlockLine` = 6 (low line 3) is reached exactly by
two queued responses; the one that is left when the first is written lies on the low
line and must not release the throttle yet. `MaxSend` = 3 gives every order of
three completions. The smaller instances of the pipeline (liveness and the
violations) have `BlockLine` = 3 and two requests, in which one response throttles.
`MaxReqs` bounds only the repeated 400s of a stuck parser. Nothing else is bounded:
the state spaces are finite and TLC exhausts them (3,239,716 states for
`pipeline_safety`, 111,962 for `pipeline_live`). Every action fires.

`exchange` has five clients: a plain request and one for any path, a POST with a
body that looks like a line end and a request that asks for the close, a request
with three headers followed by a malformed one, one of HTTP/1.0 followed by one with
an empty header name, and a POST that announces a length of -1. The vector starts
with 6 cells and is huge from 14: most requests have more than 6 bytes, so the buffer
is compacted, grown and shrunk, and a read of up to `MaxRead` = 6 bytes ends at every
place of the stream (1,009,142 states). `SizeMod` = 64 is more than any stream
has bytes, which is all the code's 2^64 means here.

`server` has two sub loops, so that round robin matters and one loop can be gone
while another runs; two connections, so that one is accepted while the other is
removed; one request and one worker (1.2 million states). `server_live` has one
sub loop, one connection, one request, and two workers, so that a permit can go
to either.

`log_buffer` has three blocks of two records and eight records: the pool runs
out (a block being written, two queued), every block is recycled, and a timeout
or the stop can find the front block empty, half full or missing. `log_file` has
days of two seconds, a limit of four bytes, blocks of one and three, and a check
every two blocks; `MaxTime` = 2 crosses one midnight, `MaxCalls` = 4 lets a
removed file collect one block more than the bound allows, were it not noticed
(5.1 million states). These two bounds, `MaxLogs`, `MaxConns` and the requests of
a script only cut the behaviours off.

`CHECK_DEADLOCK FALSE`: a connection that is closed and forgotten has nothing
left to do, and so have a stream that has ended, a server that has been
destroyed, a stopped log and a log file that gets no more blocks.

## 5. Fairness

`FairSpec` asks for weak fairness of the loop thread, of the main loop's erase
and of each pool job: they are threads that run forever and wait for nothing
but their own queues. The peer and the clock get none: a peer may never read,
never send and never close, and the properties say what holds all the same
(`OutputFlows` ends in `Space = 0`, or in an entry that was lost).

In `Server` every loop thread, every worker and, once it has begun to destroy the
server, the owner are fair. A loop that waits is asked to go on only when its
eventfd or the listening socket has something. No peer has to connect or to
send, and `main` need never end.

In `AsyncLog` the flusher thread is fair and its sleep ends (three seconds), and
a join returns when the thread has ended. Nobody has to log or to stop.

## 6. The proofs

`TCPConnectionProofs` works on a record. `Sane` says the queue's offsets grow
strictly and `pending` is their difference; `Settled` says, of an open
connection, that epoll's mask is the event set unless the entry is lost (`Synced`),
EPOLLOUT is wanted exactly when output is left and the flag of backpressure fits the
counter. `Watched` and `Tuned` are what is left of it inside `send`, before the
flags and before the MOD. Each method is
shown to preserve both and to `Follow` its argument (same queue, never reopened).

`HttpPipelineProofs` adds what the loop relies on without checking it:

- `InitOnce`: the dispatch task is first, alone, and runs once;
- `NoTraffic`: a connection that was never opened, or whose registration
  failed, has no request, no job and no event. Without it `send` could run on a
  connection that `init_channel` has enabled after closing it;
- `Held`: the manager holds the connection until it is closed;
- `Requested`, `Draining`: ids in flight belong to requests; the swapped-out
  queue is there while it is drained.

`IInv` is their conjunction with `TypeOK`, `Sane`, `Settled` and `InOrder`. It is
established by `Init`, preserved by every action (one lemma each), and implies
`TypeOK`, `InOrder`, `PendingAccounts`, `InterestSync`, `BackpressureSound` and
`RegisteredIsAlive`, for every `SockBuf`, `BlockLine`, set of kinds, set of
sizes and bound. The assumptions are those of the modules: `SockBuf` positive,
`BlockLine` at least 2 (so that the low line is positive), sizes positive (a
response has a status line).

The second half of the module adds `WInv`: `NoLostRead`, `NoLostWrite` and `ResetIsDry`
(the kernel drops what it had received when the peer resets). The third is
needed because the read callback gives up on a connection that was reset, which
would otherwise strand input. `TCPConnectionProofs` shows of each method that it
`Tunes` the ready list (a MOD that begins to want an event polls the socket) and
that it `KeepsWakeups`, so each action is argued by what it consumes: a readv
that does not drain the socket, a batch item taken off, a write that leaves
room. `GracefulCloseFlushed` rests on `ClosesWell`: a method that closes without a
reason to abort finds the queue empty. For `ConnectionKeepsPromise` each step is
mapped: one that accepts requests to an `Ask`, one that lets the socket take
answers to an `Answer`, a close to either with `open` cleared, all others to
stutters; what is on the wire is always exactly 1 up to some id.

`AsyncLogProofs` proves that `AsyncLog` implements `FifoLog`, for every number
and size of blocks. "In order and none lost" is a `Chain`: what was handed over,
the block being written, each block of the flushing queue and the block being
filled each continue the one before, without a gap, up to the last record
accepted. `Closing` says the flusher ends only after it has swapped the last
block. `NothingIsLost` turns the `Chain` into `NothingLost`: the first n blocks of the
flushing queue, flattened, are the records up to the end of the n-th, by
induction on n. With `PoolIntact` (a block that comes to the front of the pool is empty)
and `NoMissedWakeup` they are inductive; `WriteLog` then hands over exactly the
next records and `Join` finds none left. `TypeCorrect` follows from the same
invariant.

`LogFileProofs` proves all five invariants of `LogFile`. What they need besides
each other: `BlockFits` (the block between the roll and its write still fits, or
the file is one that was opened again), `LinkedIsClean` (only a removed file has
stray blocks) and `StrayCounted` (a removed file has been in use for no longer
than `write_count_` tells). Assumed: a positive limit, period and day, and blocks
smaller than the limit.

`ServerProofs` works for any number of sub loops, workers, connections and
requests. `Wakeups` strengthens `WakeupPending` to the places of the loop where a
wake-up may be on its way: in the batch, on the eventfd, or owed by a thread.
`Posters` says where a thread is while it owes one: the main loop in the accept
loop, a sub loop at work and only to the main loop, the owner in its
destructor and only to the loop it destroys. With `Order`, the destructor's
sequence, this is why only the pool can be late. Assumed: at least one sub
loop, a finite set of workers, and distinct names of the threads.
`AcceptorStaysQuiet` is an action property from the same invariant.

`HttpParserProofs` is about the parser under every client of `ClientAssumption`, every
cut of its bytes and every buffer size.
It has four layers:

- the buffer: `Shifted` and `Appended` say of compaction, growth, shrinking and
  resets that the unread cells stay what they were, followed by what was received;
- the stream: the unread cells are the next bytes of the stream, up to the case
  of letters (`Tracks`, which is `StreamKept`) or exactly (`Copies`, which is lost
  only where a header line that proved malformed has been lowered in place);
- the client: where each request, header and body lies in the stream, and
  where in those bytes the first separator of each kind is;
- the handlers: in each state, what a search finds and what is therefore stored.

`Base` (types, `StreamKept`, the stream is the script's) and `InStep` are
inductive. `InStep` says that, unless a body was cut, there is an i such that the
requests before i have been dispatched with their meaning and the parser is in
request i at the place, in the state and with the content that the bytes
consumed determine, or is stuck in it for good; and that it has not left off before
the last request it could complete. It also says that without a cut body the
undefined `readv` is never reached, that the parser runs off the buffer only at an
empty header name, with exactly the requests before that one dispatched, and that it
never aborts: a length that wraps is longer than any body, so the first run that
could see it counts as a cut. It is far stronger than
`FragmentsDoNotMatter` and `NothingAfterMalformed`, which only count and compare
dispatches and say nothing of the parser between them.

`HttpExchangeProofs` takes these over (a step of the exchange is one of the parser or
none) and adds `Exchanged`: each answer is one that the router gives its
request, all but the last are with the peer whole, and the last one's bytes are
split at w, the first w with the peer, the rest still the chunk's. For a mapped file
`Left` gives the two iovecs from w, the head's length, the file's and how much of
them was skipped: a write that takes a bytes moves the first and then the
second past exactly those. `WholeAnswers` and `ClosingIsTold` follow from it.

`PathsAreResolved` compares the walk of `validate_static_path`, a fold that keeps a
stack, with `Resolved` and `StaysInside`, which count. The fold is unfolded to
the function it is, and by induction over the prefixes the stack after n parts
holds, in order, the names whose height stays positive from them up to n
(`Tracked`), or some prefix has fallen below the root and so has every longer
one's result. The names are then counted off by their ranks. `ValidPathIs` states
the outcome: for a path of any length the walk returns `Resolved`, and refuses
exactly the paths that leave the root.

What these assume of the constants: `ParserAssumption` (the delimiters and the
literals of the code are bytes, numbers are `size_t`'s), `BufferAssumption` (the vector has a cell, and
is smaller than huge), `RouterAssumption` (paths and files are sequences of
strings), `ExchangeAssumption` (each URL has its paths), and `ClientAssumption`,
which is about the peer: it sends requests made of words, header names end in
a lower-case letter if they are not empty (the code does not lower the last one,
section 7), a well-formed request's body is no longer than its head says (what
follows it is another request), two number words do not touch (they would be one),
and a stream has fewer than 2^64 bytes. Clients that do otherwise are outside these
theorems. Malformed requests, empty header names and lengths that announce too much,
up to those that wrap, are inside, and the theorems say what becomes of them: a
request with an empty name is where the code's behaviour ceases to be defined, so
nothing is claimed of what follows, and neither is anything after a body that was not
there when the parser was run.

Induction over data is used in one form, the lemma `Induction` of
`SequenceLemmas`: a set that has 0 and, below N, the successor of each of its
members has everything up to N. What a fold or a flattened sequence computes is
stated as membership of such a set; nothing is taken from the library's induction
theorems, whose operator parameters the provers cannot instantiate.

Only model-checked: liveness (`EveryRequestAnswered`, `ClosedIsReclaimed`,
`OutputFlows`, `EveryLogHanded`, `StopReturns`, `PostedIsRun`,
`DestructorReturns`), since it needs fairness and ENABLED, which the provers do
not handle. `NoSpuriousClose`, `CloseAfterResponse`, `BatchedIsAlive`,
`BodySurvivesCut` and `BadRequestCloses` do not hold.

## 7. Disagreements with the repository's words

- `spurious_close`: `handle_event_selfguard` treats an event outside `event_` as
  an error (Channel.cpp:188). Tasks of the same batch change `event_` after
  `epoll_wait` returned: a response that crosses the high line removes EPOLLIN,
  a flush that completes removes EPOLLOUT. A healthy connection is cut.
- `early_close`: `save_respond_chunk` shuts down when a `Connection: close`
  answer is ready, not when it is written (HttpContext.cpp:124). If the pool
  finishes it first, the connection closes before any answer.
- `dead_event`: `loop` uses a batched `Channel*` whose connection was destroyed
  earlier in the batch (EventLoop.cpp:66).
- `half_body`: `http_parse_request_body` steps over the empty line each time it
  is entered, before it knows that the body is complete (HttpParser.cpp:209).
  A body that arrives in two reads loses two bytes for every read but the
  last. `FragmentsDoNotMatter` and the properties after it say what holds when
  no read ends inside a body.
- `refused_stays_open`: the fault sender says that a 400 closes the connection
  (HttpRouter.cpp:136) and announces it, but the shutdown looks at the request: for a
  path that is refused (HttpRouter.cpp:233) the connection stays open if the request
  kept it alive. `CloseAnnounced` says the converse holds.

Behaviours no text of the repository settles, which the models show:

- a second `force_close` deletes from epoll the open connection that has been given
  the descriptor number since (`StaleUnregister`). Its peer is not heard any more and
  left-over output is written only when another answer is queued, until the idle
  timer closes it, or a failed MOD with nothing queued. `InterestSync` says that an
  entry is lost in no other way, and every property of the pipeline is checked with it;
- an empty header name runs `key_to_lower` off the buffer (`ParseHeaderUndefined`,
  HttpParser.cpp:179); of other names the last letter is never lowered;
- a `Content-Length` near 2^64, "-1" for one, ends the program with an uncaught
  `std::length_error` if the sum wraps to a position already received (`BodyAborts`,
  HttpParser.cpp:222);
- the step over the empty line can move `read_pos_` past the vector's end, and the
  next readv is then undefined (`ReceiveUndefined`);
- the pool may post to loops that are already destroyed, since `TCPServer` is
  destroyed before the `HttpServer` that owns the pool (`LatePostsAreThePools`);
- a log file rolled in the second it is named after is opened again and grows past
  `FILE_MAX_SIZE` (`LimitKept` says this is the only way), and one that could not be
  opened is never opened again, while `push` goes on returning OK;
- an accept error strands the rest of the backlog until another peer connects
  (`NoStrandedBacklog` says that nothing else does).

## 8. Not modelled

- `KVService` and the RPC files: they are commented out of
  `src/server/CMakeLists.txt`, do not compile as they stand, and half of the RPC
  handlers are empty. There is no program to be faithful to.
- The client tool and the test scripts: they drive the server from outside. Their
  expectations are the other side of section 7.
- `main`: arguments, signals and the wait for them. The order in which it
  destroys the server is in `Server`.
- The timer's queue: a packet whose version is old is dropped and changes nothing
  in the connection, so only the current one is modelled. That stale packets
  pile up until they expire is a matter of memory.
- `LogFile::writev_all`: what it achieves is modelled, not its iovecs.
- Ids are unbounded. `channel_remove` takes an `int`, so that after 2^31
  connections the erase would miss; no instance TLC could run gets there.
- What the program does after its behaviour has become undefined
  (`ReceiveUndefined`, `ParseHeaderUndefined`): the model stops there.
- The text of log lines, creating and binding the sockets, and errors of `epoll_wait`, `eventfd` and
  `timerfd`.

## 9. What remains

In this order:

1. `LogFile::writev_all` as `OutputChunk` is done: the iovecs of a partial write,
   against what `LogFile` says it achieves.
2. The timer: its queue by expiry, `stop` against a running `handle_timer`.
3. The refinement between `Server`'s mailbox and the one-step post of
   `HttpPipeline`, which is argued in section 3 and not checked.
4. What exactly a cut body makes of the requests after it: the theorems stop at
   the cut, and only the counterexample of `half_body` shows one outcome.
