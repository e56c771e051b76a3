# A verification project for the Afina cache server and its companions

The repository holds a memcached-like cache server, `src/sysprog/afina`, a set
of course works (`src/sysprog/1` to `4`), and the examples and
materials of the lectures. The server is the system of the repository; the
programs that contain an algorithm or a protocol of their own are treated after
it. Paths below are relative to `src/sysprog/afina/`
unless they start with `src/`.

## 1. Inventory

| component | state | operations | interacts with |
|---|---|---|---|
| Storage (`src/storage/SimpleLRU.{h,cpp}`, `include/afina/Storage.h`) | doubly linked list of nodes that own their successor, `_lru_head`, `_lru_tail`, `_lru_index`, unsigned `_current_size` | Put, PutIfAbsent, Set, Delete, Get, destructor | called by the commands |
| `ThreadSafeSimplLRU` (`src/storage/ThreadSafeSimpleLRU.h`) | the same and a mutex | the same, each under the mutex | called by the commands of several worker threads |
| Commands (`src/execute/*.cpp`) | key(s) of the command | Set, Add, Append, Replace, Get, Stats: one or two calls of the storage and an answer | built by the parser, executed by the connection loops |
| Protocol parser (`src/protocol/Parser.{h,cpp}`) | state of an automaton, name, keys, flags, exptime, bytes | Parse (a chunk of bytes), Build, Reset | fed by the connection loops |
| Connection loop (the same in all servers) | read buffer, command under construction, bytes of its argument still missing | read, parse, collect the argument, execute, answer | socket, parser, commands |
| Server `st_blocking` | `running`, one client socket | Start, Stop, Join, OnRun | one thread serves one client after another |
| Server `mt_blocking` | `running`, `_workers` (map from socket to thread), mutex, condition variable, limit of 7 workers | Start, Stop, Join, OnRun (acceptor), OnProcess (worker) | threads share `_workers`; sockets are reused by the system |
| Server `st_nonblocking` | epoll set, `_connections` map | Start, Stop, Join, OnRun, OnNewConnection; Connection Start/DoRead/DoWrite/OnClose/OnError | one epoll thread, Stop from the main thread |
| Server `mt_nonblocking` | shared epoll set with EPOLLONESHOT, `_connections`, workers, acceptors, event descriptor | the same, Worker OnRun | several workers serve one epoll set |
| Application (`src/main.cpp`) | options, storage and server, semaphore, `stop_reason`, installed handlers | options, Configure, Start, wait for a signal, Stop, the signal handler `on_term` | owns storage and server, drives the logging service |
| Coroutine engine (`include/afina/coroutine/Engine.h`, `src/coroutine/Engine.cpp`) | list of alive contexts, copies of stacks | start, run, yield, sched, Store, Restore | not used by the server |
| Logging (`src/logging/ServiceImpl.{h,cpp}`, `include/afina/logging/Config.h`) | configuration, sinks, loggers in the registry of spdlog | Start, select, create, reopen_all, Stop | used by the application and the servers |
| Course work 1 (`src/sysprog/1/hw_sort.cpp`) | a task with an explicit stack per file, `curT` | quicksort of every file by a coroutine, merge | - |
| Course work 2 (`src/sysprog/2`) | tokens, commands, descriptors, child processes | parse a line, run a command or a pipeline, wait | - |
| Lecture servers (`src/sysprog/lecture_examples/9_aio/4_` to `7_`) | array of clients, registrations | accept, interact, remove a client | clients of `4_client.c` |
| Epoll materials (`materials/05-non-blocking-network/code`) | registrations, an `EchoEvent` per connection | accept, read, write, close | clients |
| Readers-writer lock (`materials/09-advanced-synchronization/code/shared_mutex*`) | `state_` (a bit and a count), two gates | lock, try_lock, unlock, lock_shared, try_lock_shared, unlock_shared; increment, reset, get of the demo | threads of the demo |

The behaviours that are hard here: pointers moved by swaps and a byte counter that
wraps (storage); two calls of a locked storage that are not atomic together (Append,
Replace); workers, acceptor, Stop and Join interleaved, with descriptors that the
system reuses as soon as they are closed (servers); ownership of connections shared
between a map and raw pointers in the epoll set (non-blocking servers); a request
cut into chunks at any byte (connection loop); a signal that arrives between the
test of `stop_reason` and the wait (application); a graph of shared sinks that is
walked while the queue grows (logging); a stack that is copied over the frames of
the function that copies it (engine); descriptors of pipes that the next `pipe` gets
again, and children that block on a pipe nobody reads or closes (shell); readiness
that was true when the system call returned (lecture servers); edges and partial
writes (epoll materials); waits on a gate whose notification is sent to one sleeper
only (readers-writer lock). Every such place is listed with its line under `hazards`
in `PROJECT.json`, with the properties that watch it.

What makes each component correct: the storage keeps its list, back pointers and
index in agreement, evicts the oldest entry, and loses no memory; the commands tell
the client the truth about the storage although other threads use it; the connection
loop executes exactly what the client sent; a server never mixes up or leaks
connections, answers every command, and ends after Stop, as far as its clients let
it; the coroutine engine gives a coroutine its own stack back, where its copy does
not destroy the frames that make it; a handled signal ends the process; a name gets
the logger configured nearest to it and a file in use is reopened once; the sort
sorts; the shell starts the commands of a line, connects those of a pipeline and
comes back to its prompt; bytes and requests of a client are not lost, repeated or
reordered; a writer is alone and a thread that asks for the lock gets it.

## 2. Modules

| module | models | uses |
|---|---|---|
| `LRUCache` | what a `Storage` with LRU eviction promises: a map, times of use, eviction of the oldest | - |
| `SimpleLRU` | `SimpleLRU` at pointer level | `LRUCache` (refinement mapping `L`: `AbsStore`, `AbsUsed`, `AbsJob`, `AbsUp`) |
| `SimpleLRUProofs` | theorems about `SimpleLRU` | `SimpleLRU` |
| `Commands` | the commands of `src/execute` over a locked storage, several threads | - |
| `CommandsProofs` | theorems about `Commands` | `Commands` |
| `Parser` | `Parse`, `Build`, `Reset` of the protocol parser as operators | - |
| `STBlocking` | the `st_blocking` server and the connection loop, byte by byte | `Parser` |
| `MTBlocking` | the threads of the `mt_blocking` server | - |
| `MTBlockingProofs` | theorems about `MTBlocking` | `MTBlocking` |
| `MTNonblocking` | threads, connections and epoll registrations of `mt_nonblocking` | - |
| `MTNonblockingProofs` | theorems about `MTNonblocking` | `MTNonblocking` |
| `STNonblocking` | the same for `st_nonblocking` | - |
| `STNonblockingProofs` | theorems about `STNonblocking` | `STNonblocking` |
| `Engine` | the coroutine engine | - |
| `Logging` | the logging service: Start, select, create, reopen_all | - |
| `ServicesProofs` | theorems about `Engine` and `Logging`, each on its own | `Engine`, `Logging` |
| `Application` | `main.cpp` with signals, the services it drives | `Logging` |
| `HwSort` | course work 1 | - |
| `Shell` | course work 2: parser and processes | - |
| `CourseWorkProofs` | theorems about `HwSort` and `Shell`, each on its own | `HwSort`, `Shell` |
| `LectureServers` | the select, poll, kqueue and epoll servers and their client | - |
| `EpollServers` | `epoll-example.c` and `echo.c` | - |
| `SharedMutex` | the readers-writer lock and the counter of its demo | - |
| `MaterialsProofs` | theorems about `SharedMutex` and `EpollServers`, each on its own | `SharedMutex`, `EpollServers` |
| `MCSimpleLRU`, `MCMTBlocking`, `MCMTNonblocking` | instances for TLC: sizes of entries, symmetry (`STNonblocking` needs none) | the module they are named after |
| `MCApplication` | one part per behaviour: process, logging, stream of a client, commands of threads, engine | `Application`, `STBlocking`, `Commands`, `Engine` |
| `MCPrograms` | one stand-alone program per behaviour | `HwSort`, `Shell`, `LectureServers`, `EpollServers`, `SharedMutex` |

A definition whose name ends in `_Mutant` (or `_Twice`, `_Kept`, where there are
two of them) is not part of any specification. It is the definition behind it
with a plausible mistake, and shows that the property it is listed with in
`PROJECT.json` can fail.

### How state and actions correspond to the code

**SimpleLRU.** `live` is the set of allocated nodes; `key`, `val`, `next` and `prev`
are their members; `head`, `tail`, `index` and `cur` are `_lru_head`, `_lru_tail`,
`_lru_index` and `_current_size` (modulo `Word`, the 2^w of `size_t`). The
unique_ptr swaps of `_remove_node` and `_move_to_fresh_data` are written as their
net effect on the pointers. `Put`, `PutIfAbsent`, `Set`, `Get` and `Delete` are one
step up to an eviction loop; a round of a loop (`InsertEvict`, `UpdateEvict`), the
end of the operation (`InsertLink`, `UpdateStore`) and a round of the destructor
(`DestroyPop`) are steps of their own, during which nothing else can happen because
the class is sequential. `pc = "segv"` and `pc = "uaf"` are the three places where
the code leaves defined behaviour: a write through a null `_lru_head` when the only
node is removed (`SimpleLRU.cpp:132`); a write through the null `tmp->next` whenever
a middle node is removed, because the swap two lines before took the successor out
of it (`SimpleLRU.cpp:141-143`); a write to the updated node after its eviction
(`SimpleLRU.cpp:115`). Strings are values with a size. `stamp` and `clock` are
history: when a node was last used.

**Commands.** Each method of `ThreadSafeSimplLRU` is one step because it holds
the mutex for its whole body; `Append` and `Replace` make two such steps, `Get`
one per key. A value is the sequence of the data blocks that it was made of.
Any entries may be evicted by a store: which ones is `SimpleLRU`'s business.
`observed` is history: the values each key had since a command began.

**Parser, STBlocking.** A stream is a sequence of symbols: words for names, keys
and bytes of data, single digits, blanks, CR and LF. `Parse` is a recursive
function over the chunk, one `...Char` operator per state of the automaton.
`Width` is the width of the integers that the digits are collected in. `Read`
returns any piece of the stream up to the size of the buffer; `ParseCommand`,
`ResumeArgument`, `FillArgument` and `Execute` are the three parts of a round of
the loop that all four servers share. `phase` is where the main thread is, `asked`
what the client sent. `Meant` is what the client means by a command: the
argument of a put is its data alone (`Parser.h:86-88`). `AsServed` is what the server
makes of it: the CR LF stays in the argument, and a number wider than `Width`
may wrap.

**MTBlocking.** A critical section is one step, since nothing blocks inside it.
`Accept` returns any descriptor that is not open, a closed one at once. The
chunk is abstracted to what its rounds do: use it up, throw, or run a command.
The call of `shutdown` on a registered descriptor only matters to a reader that
would otherwise wait; `read` can end at any time anyway (timeout of 5 seconds).
The blocking `send` is a place of its own (`wpc = "send"`): it has no timeout, and
Stop shuts down reading only, so `SendReturns` may never happen. `terminated` is why
`std::terminate` was called: a thread object that finds its key taken
("clash"), a thread that cannot be constructed ("no_thread"), an exception that is
not a `runtime_error` in a worker ("exception"), or a joinable worker left in
`_workers` when the server is destroyed after Join ("destructor").

**MTNonblocking, STNonblocking.** A `Connection` object is named by its client,
its memory is `heap`; `connections` is the map of unique_ptrs; `reg` is what
epoll knows about it (`EPOLLONESHOT` disarms in `mt_nonblocking`). Input is
counted in commands and output in answers; a `send` may be partial. Every system
call is a step. `fault` records the first undefined behaviour or
`std::terminate` and ends the behaviour: nothing is claimed of what follows.
An answer that is still in `_results` when its Connection is deleted is lost
(`got` counts what the client received): a client that has shut down its side of
the stream raises `EPOLLRDHUP`, which closes its Connection although it may still
read.
Descriptors are handed out by the rule of the system, the lowest that is free.

**Engine.** The stack is modelled by whose frames are on it, the value of one local
variable, and its depth, counted from `start`; `saved` is the copy of it that `Store`
makes, with the depth it reaches to (`low`). The test in `Restore` that should move
its frame out of the way (`Engine.cpp:50`) compares with `StackBottom` and never holds
on a stack that grows downwards. So `Restore` gives the coroutine its stack, or, if the
copy reaches at least as deep as the stack it is called on, overwrites its own frame
and that of `memcpy`, which may crash. `CallOrReturn` changes the depth. `Start`,
`Run`, `Yield`, `Sched`, and `Finish` (what `run` does behind the call of the
coroutine's function) are the operations; `Return` and `IdleYield` are what
`start` does after control came back to it.

**Logging, Application.** A dotted name is the sequence of its parts, a pattern
a sequence of characters; `registry` stands for the loggers of spdlog, with the
sinks they write to. A call that loops (`reopen_all` over its deque, `create`
over the pattern) takes a step per round; `select` is one step. `main` is where
the main thread is; a signal may be delivered at every step, on the main thread
(then a `sem_wait` is interrupted) or on another. Of the server main only sees
Start, Stop and Join; a thread of `st_block` or `mt_block` does not end while a
client holds it (`busy`): one that goes on talking to `st_block`, or one that does
not read what a blocking `send` of either has for it.

**HwSort.** `task` is `struct task` of every file, with its explicit stack; one
step of a task is one test of a loop with what follows it, because the
coroutines share nothing but `curT` and the flags. `heap` records the arrays
that are allocated and freed; `sortPc = "fault"` is a write behind the stack.

**Shell.** Characters are classes; `ReadChar` is a round of the loop of
`parse_line`, `EndOfLine` its end with the split into commands. The lexer is kept
character by character because `PlainLineWorks` depends on it: `parse_line` counts
commands by the bars it sees in the line and fills them in by its tokens, so quotes,
spaces and bars decide whether the two agree. `EndOfLine` writes to an array of no
bytes (`parser.cpp:102`), so `shPc` may also become "overrun" there. `fdTable` is
what the descriptors of the shell refer to; pipe, dup2, close and fork work on
it as the system does, with the lowest free descriptor. A child just ends, reads its
input to the end, or writes more than a pipe holds (`does`): the second ends
when nobody can write what it reads, the third when somebody reads what it writes.

**LectureServers, EpollServers.** The program is a variable fixed in the initial
state (`api`, `prog`), and the actions are those the programs share or that one
of them has. `ready` and `events` are what the system call reported, which may be
out of date when it is used. Numbers and bytes are abstracted to who is owed an
answer, and to their position in what the client sent. A write of
`epoll-example.c` to standard output may be short, since its result is compared
with -1 only; 0 in `output` stands for a byte that was dropped, and `short` names
the connections this happened to. `stale` names the connections of `echo.c` that had a
chunk read with an `offset` left from an earlier one.

**SharedMutex.** `state_` is its bit (`entered`) and its count (`readers`). What
a thread does with `mut_` held is one step; `pos` tells where it is between
them. `notify_one` wakes any one sleeper, `notify_all` every one, and any wait
may end by itself (`Spurious`), which no liveness property relies on.
`value_++` is a read and a write.

## 3. Runs

| run | cfg | what it shows |
|---|---|---|
| `lru_pointers` | `SimpleLRU.cfg` | entries of different sizes, one of them too large, and all operations: list, back pointers and index agree in every state, also inside the loops (`ChainInv`, `ListInv`); the structure implements `LRUCache`, with its three crashes (`RefinesLRUCache`); every operation ends although the count has drifted or wrapped (`OperationsEnd`) |
| `lru_uniform` | `SimpleLRUUniform.cfg` | entries of one size and no Delete (no command of the server calls it): the byte count is exact, the limit is kept and nothing crashes (`UniformSound`), nothing is evicted early (`EvictsOnlyWhenFull`; with one size the difference that an update adds is 0, so an update with a difference that wraps is met in `lru_pointers` only) |
| `lru_capacity` | `SimpleLRUCapacity.cfg` | violation: with entries of different sizes the limit is exceeded (`Capacity`) |
| `mtb_threads` | `MTBlocking.cfg` | the registry of workers is exact (`RegistryExact`), descriptors have one owner (`FdOwnership`), one command at most after Stop (`LateOnce`), at most one worker outlives Join (`JoinLeavesOne`); threads interleaved call `std::terminate` only by a descriptor reused between `close` and the erase of its entry, or by destroying the server with that one worker (`TerminateExplained`); Join returns and all connections get closed if no client stays in `send` (`StopsCleanly`) |
| `mtn_workers` | `MTNonblocking.cfg` | one handler per connection without a lock (`OneHandler`); EPOLLOUT armed exactly when needed, no answer of a living Connection lost or repeated, and answers destroyed with a Connection for the reasons of `DropsExplained` only (`AnswersSafe`); memory misused only after reuse of a descriptor (`FaultNeedsReuse`); two acceptors, so that two of them can be between `accept4` and the map at once |
| `mtn_stop` | `MTNonblockingStop.cfg` | with failing epoll calls and Stop at any time: every Connection has an owner (`NothingLeaks`), all threads end (`StopEnds`), clients that stay are answered (`Answered`) |
| `stn_loop` | `STNonblocking.cfg` | memory is used right until Stop or a failed `EPOLL_CTL_MOD` and nothing is freed twice (`NoFault`); answers as in `mtn_workers` (`AnswersSafe`), and they arrive (`Answered`); the thread ends after Stop (`StopEnds`) |
| `app` | `Application.cfg` | process: every command line, signals at any time and to any thread; a handled signal ends the process (`SignalEnds`). Logging: over configurations with shared, missing and invalid parts a name gets the nearest logger with its pattern (`LoggerAsAsked`), and each file in use is reopened exactly once (`ReopenExact`). Stream: however it is cut, exactly the commands sent are executed, in order and up to `AsServed` (`ExecutesWhatWasSent`), as soon as they are complete, and only bad ones are refused (`CaughtUp`). Commands: the items of a get are values of the time of the command (`GetSound`); an acknowledged block disappears only when an append writes back a value that changed since it was read (`AppendLostByRaceOnly`). Engine: the list is complete and doubly linked (`ListExact`), a coroutine that goes on finds its own local variables, and a switch crashes only towards a stack that is at least as deep (`OwnStack`) |
| `data_block` | `DataBlock.cfg` | violation: an ordinary put is not executed with the data that it was sent with (`ExecutesAsMeant`) |
| `programs` | `Programs.cfg` | sort: `SortSafe`, that is, the segments on the stack hold everything that is out of order (`PendingSegments`), every array is sorted when the merge begins (`ArraysSorted`), none is freed too early, twice or never (`ArraysOwned`); and the output is sorted (`SortsAll`); shell: `ShellSafe`, that is, a plain line is split into the commands that were counted (`PlainLineWorks`) and no child of a line is left behind it, whichever forks failed (`NoneLeft`); the prompt comes back unless a child of a pipeline blocks on its pipe (`PromptReturns`); lecture servers: `RequestAnswered`; epoll materials: `OutputFaithful`, `AllPutOut`; readers-writer lock: `SharedMutexSafe`, `DemoEnds` |
| `pipeline` | `Pipeline.cfg` | violation: the second command of a pipeline does not read what the first writes (`PipelineConnected`) |
| `echo_offset` | `EchoOffset.cfg` | violation: `echo.c` does not send back what it has read after a partial write (`EchoFaithful`) |

### Bounds, and why they are enough

- Storage: three keys and nodes are the least with a head, a middle and a tail;
  `MaxSize = 4` with entries of 1 and 2 bytes (or all of 2) makes loops of no, one
  and several rounds; one value does not fit with any key; `Word = 8` is little more
  than `MaxSize`, so the count wraps. `MaxClock` (5 to 7) bounds the calls, not the
  loops: an operation that has begun can always go on, so `OperationsEnd` is not cut
  by the bound.
- Commands: two threads with two commands each show every overlap of two
  commands; two keys allow a get of two keys and an eviction by the other key.
- Parser and loop: two clients with two commands, chunks of one to four symbols,
  streams that end anywhere; the data of a set looks like the end of a block,
  another is empty, and one number wraps around the 5 bits of `Width` to a larger
  one. `data_block` needs one client with one put.
- `mt_blocking`: three connections, three descriptors and a limit of two: a
  third client is refused, a descriptor can be reused while another one is
  served, two workers can be left when Join is called.
- Non-blocking servers: two clients, one of which may leave, reset or send bad
  input; `mtn_workers` has two workers, two acceptors and two descriptors so that
  a connection can be contended; `mtn_stop` has one descriptor so that it is always reused.
- Engine: three coroutines, so that a head, a middle or a tail can finish, and a
  stack of depth up to three: the restored stack is then less deep, as deep or deeper.
  The theorems have no such bounds.
- Application and logging: two signals (the second finds the handler running or
  done), all command lines, four configurations, patterns of up to four
  characters, which is the shortest length with a complete directive and one
  that is cut off at the end.
- Sort: one file of five numbers, two of up to three, three of up to two, and
  four files; empty files and files of one number, where the stack is too short,
  are among them. Shell: every input of up to three characters, of up to four of
  the commonest, and pipelines of up to three commands after each other with
  eight descriptors, so that they run out; every fork may fail, and a child may be
  of each of the three kinds.
- Lecture servers: two clients with two numbers each, so that a client leaves in
  front of another one. Epoll materials: buffers of two bytes and a client that
  sends three, so that a read leaves something, a write can be partial twice, and a
  chunk follows a partial write.
- Readers-writer lock: three threads, a reader limit of two (2^31 - 1 in the
  code) and four calls: the limit is reached, and writers meet readers and
  writers behind both gates. The theorem has no such bounds.

Symmetry is used only in runs that check no temporal property. Deadlock is not
checked: all systems here may stop (a stopped server, a destroyed cache, a
crash), and that they do not stop early is what the liveness properties say.

### Fairness

Weak fairness is given to the steps of a thread that wait for nobody: a thread that
can run does. For the workers of `mt_blocking` this includes `read`, which returns
after its timeout of five seconds at the latest, and not `send`, which returns when
the client reads: `StopsCleanly` has as its hypothesis that no worker is in `send`
for ever. `epoll_wait` returns while something is ready. The steps of Stop and Join
are fair once Stop was called. Nothing forces a client to connect, send or leave,
Stop to be called, a system call to fail, or a condition variable to wake up
spuriously. In `SimpleLRU` the rounds of the loops are fair, the calls are not. Main
and the threads of the server are fair in `Application`, signals and clients are
not; `SignalEnds` supposes that from some time on no client holds a thread of a
blocking server, by talking to `st_block` or by not reading from either. The sort is
one process and runs; in the shell so do the shell and the children that can end:
those that neither read what somebody could write nor fill a pipe that nobody reads.
The lecture servers have strong fairness for each descriptor of the event that
`kevent` or `epoll_wait` with room for one event returns: a descriptor that is ready
again and again is reported some time, as the kernels rotate their ready lists. The
epoll materials need weak fairness of their loop only. A thread of the
readers-writer lock is scheduled and gets `mut_`, which nobody holds for long.

## 4. Findings

Four runs expect a violation; each states what a document, a comment or a test of
the repository says.

- `lru_capacity`: `_remove_node` subtracts the size of the tail, whichever node it
  removes (`SimpleLRU.cpp:125`), so `_current_size` drifts and more than `_max_size`
  bytes are held, against `SimpleLRU.h:79-80`.
- `data_block`: the CR LF behind a data block becomes part of the value
  (`st_blocking/ServerImpl.cpp:189`, and the same line of the other servers), while
  `Parser.h:86-87` does not count it and `itest/network_test.pl:90` expects
  `VALUE foo 0 6` for the six bytes `foobar`.
- `pipeline`: main keeps the end for writing of a pipe as the input of the next
  command (`src/sysprog/2/main.cpp:93`) and closes it; `pipe` returns the same number
  again, and each command reads the pipe it writes to itself. `task.txt:18-20` and
  `:40` ask for a pipeline.
- `echo_offset`: `echo.c` never resets `offset`, so after a partial write the next
  chunk is sent from the wrong place, against its comment (`echo.c:46-47`).

More defects are part of what a passing property says: acknowledged data can
be lost because Get and Put of an append are not atomic together
(`Append.cpp:17`, `AppendLostByRaceOnly` says that this is the only way); a
worker of `mt_blocking` closes its descriptor before it erases its entry
(`mt_blocking/ServerImpl.cpp:247`), so that a new connection can meet the old
entry and terminate the process, and the worker that can slip past Join terminates it
when the server is destroyed (`TerminateExplained`); the non-blocking servers throw
answers away with the Connection of a client that has shut down its side and still
reads, as the one of `itest/network_test.pl:58-67` does (`DropsExplained`).

Other behaviour that the models contain and that a reader of the properties
should know. It is part of the actions, and it is the reason for the conditions
in the properties named:

- Deleting the only entry of `SimpleLRU` writes through a null pointer
  (`SimpleLRU.cpp:132`), deleting one that is neither the oldest nor the newest does
  too (`SimpleLRU.cpp:143`), and an update that evicts its own node writes to freed
  memory (`SimpleLRU.cpp:115`). `RefinesLRUCache` allows `Fail` in these three
  situations, and `UniformSound` excludes them for entries of one size and no Delete.
- `std::thread`'s constructor may throw in the acceptor of `mt_blocking`
  (`ServerImpl.cpp:153`), and a worker catches `runtime_error` only (`:242`): both end
  in `std::terminate`, about which `TerminateExplained` says nothing else.
- A client that does not read keeps its worker of `mt_blocking` in `send` and with it
  Join (the hypothesis of `StopsCleanly`, and of `SignalEnds`).
- Join of `mt_blocking` can return with one worker left, started by the acceptor
  after the last test of `_workers` (`JoinLeavesOne`).
- Stop of both non-blocking servers frees connections that other threads may be
  using (`NoFault`, `FaultNeedsReuse`, and the liveness properties, say nothing
  after a fault).
- Workers of `mt_nonblocking` delete a connection and leave its entry in
  `_connections`; the next connection with that descriptor is deleted on
  insertion while workers serve it (`FaultNeedsReuse`).
- When `EPOLL_CTL_MOD` fails `st_nonblocking` uses the connection it has just
  erased (`st_nonblocking/ServerImpl.cpp:189-191`, `NoFault`).
- An acceptor of `mt_nonblocking` that sees the listening socket and the stop
  event together accepts after Stop. `EPOLLRDHUP` closes a connection although
  commands were not read (`Answered` is about clients that stay). A failed send
  counts as everything sent, since the result is unsigned
  (`mt_nonblocking/Connection.cpp:123`).
- `Set`, `Append` and `Replace` answer STORED for data the storage refused.
- A block of zero bytes leaves its CR LF in the stream, where it is taken for a
  command (`EmptyPut` in `ExecutesWhatWasSent` and `CaughtUp`), the digits of the
  expiration time are added up, and the overflow test of a number misses
  sums that wrap around to a larger one (`AsServed`).
- The loop of `st_blocking` does not look at `running` while it serves a client
  (the hypothesis of `SignalEnds`).
- `create` of the logging service writes the key of an MDC variable where its
  value belongs and doubles the brace of `%X{`; a pattern that ends in `%` or `%X`
  takes the iterator over the end (`ServiceImpl.cpp:225`, `PatternKept`).
- The sort writes behind its stack for a file of fewer than two numbers
  (`hw_sort.cpp:245`, `SortsAll`).
- A command of a pipeline that reads its input to the end, or that writes more than
  its pipe holds, blocks the shell (`PromptReturns`). Descriptors of pipes are left
  open, a line that starts with a bar makes main use a command that is not there
  (the condition of `PlainLineWorks`), and every token is written behind an array of
  no bytes (`parser.cpp:102`, "overrun").
- The select and poll servers never close the socket of a client that left, the
  poll server tries to read its listening socket, and the kqueue and epoll
  servers end when a client resets its connection (`RequestAnswered`).
- A short write of `epoll-example.c` to standard output drops the rest of the chunk
  (`epoll-example.c:203-207`, `short` in `OutputFaithful`).
- Restoring a coroutine whose stack is at least as deep as the one `Restore` runs on
  overwrites the frames of `Restore` and `memcpy` (`Engine.cpp:50-56`, the last
  conjunct of `OwnStack`).
- A reader that leaves wakes one thread, and only when the count was used up: if
  two threads more than the limit want to read, one is left asleep
  (`shared_mutex.cpp:66`; the last disjunct of `SleepersWoken`).
- A coroutine that finishes while others are alive leads to a write through the
  null `cur_routine` (`Engine.cpp:71`), which the test Printer of
  `test/coroutine/EngineTest.cpp:70` does not expect; `IdleYield` is that step.

## 5. Proofs

TLAPS checks the proofs for every value of the constants that satisfies the
assumption of the module (`LRUAssumption`, `MTBAssumption`, `MTNAssumption`,
`STNAssumption`, `CommandsAssumption`, `EngineAssumption`, `LogAssumption`,
`EpAssumption`, `SMAssumption`, `ShellAssumption`): numbers are naturals, null
values are not nodes, events, connections, threads or sinks, a name has a part,
`_max_size` fits a word, the buffer of a read is not empty, a process may open five
descriptors, and the sets of keys, descriptors and threads are finite where
cardinalities are used. TLC evaluates all of them. Every inductive invariant below
was checked by TLC on the instance of its run before it was proved.

| theorem | property | module |
|---|---|---|
| `ChainCorrect`, `ListCorrect`, `NoLeakCorrect` | `ChainInv`, `ListInv`, `NoLeak` | `SimpleLRUProofs` |
| `Refinement` | `RefinesLRUCache` | `SimpleLRUProofs` |
| `UniformCorrect`, `EvictionCorrect` | `UniformSound`, `EvictsOnlyWhenFull` | `SimpleLRUProofs` |
| `GetSoundHolds`, `AppendLostByRaceOnlyHolds` | `GetSound`, `AppendLostByRaceOnly` | `CommandsProofs` |
| `RegistryCorrect`, `FdOwnershipCorrect`, `LimitCorrect`, `LateCorrect`, `TerminateCorrect`, `JoinCorrect` | `RegistryExact`, `FdOwnership`, `ConnectionLimit`, `LateOnce`, `TerminateExplained`, `JoinLeavesOne` | `MTBlockingProofs` |
| `OneHandlerHolds`, `AnswersSafeHolds`, `NothingLeaksHolds`, `FaultNeedsReuseHolds` | `OneHandler`, `AnswersSafe`, `NothingLeaks`, `FaultNeedsReuse` | `MTNonblockingProofs` |
| `AnswersSafeHolds`, `NoFaultHolds` | `AnswersSafe`, `NoFault` | `STNonblockingProofs` |
| `StackCorrect`, `ListCorrect` | `OwnStack`, `ListExact` | `ServicesProofs` |
| `LoggerAsAskedHolds`, `ReopenExactHolds` | `LoggerAsAsked`, `ReopenExact` | `ServicesProofs` |
| `SharedMutexCorrect` | `SharedMutexSafe` | `MaterialsProofs` |
| `OutputFaithfulHolds` | `OutputFaithful` | `MaterialsProofs` |
| `SortSafeHolds` (of `PendingSegmentsHolds`, `ArraysSortedHolds`, `ArraysOwnedHolds`) | `SortSafe` | `CourseWorkProofs` |
| `OnlyShortFilesFaultHolds` | `OnlyShortFilesFault` (the fault case of `SortsAll`, at its step) | `CourseWorkProofs` |
| `ShellSafeHolds` (of `PlainLineWorksHolds`, `NoneLeftHolds`) | `ShellSafe` | `CourseWorkProofs` |

**SimpleLRUProofs**. The list is described without recursion: every live node has a
stamp of its last use, and `next` is the immediate successor in the order of the
stamps (`NextIsSuccessor`, `StampsDistinct`, `HeadIsOldest`). So the list has no
cycle and no lost node without any induction over its length. The inductive
invariant `IInv` adds `OpInv`, which says what an operation in its loop has
found out about its key and node; without it an insertion could find its key
taken. `RemoveKeepsList`, `MoveKeepsList` and `InsertKeepsList` show that the
three ways to change the list keep its shape, for the positions from which a node
can be removed without a crash; the actions rest on them.

`Refinement` maps the initial state and every step: a call is the call of the
abstract map, a round of an eviction loop evicts the key with the oldest use
(because the head is the oldest node and the index finds exactly the listed nodes),
a crash is `Fail` in one of its three situations (a node that is neither the head
nor the tail is neither the oldest nor the newest entry), and the rounds of the
destructor change nothing that can be seen (`IndexCleared`). `UniformCorrect` is
about the specification of what the servers call (`ServerSpec`, without Delete). Its
invariant `UniformInv` says that `_current_size` is the number of nodes times their
size: `_remove_node` subtracts the size of the tail, which is then the right one.
That nothing crashes needs that two entries fit (`TwoFit`, the hypothesis of the
theorem); with room for one, an insertion evicts the only entry and writes through
the null `_lru_head`. `EvictionCorrect` needs no such hypothesis.

**CommandsProofs**. What a command has observed of a key (`observed`) contains what is
stored now, as long as the command runs, and what an append has read
(`SeenInv`). A key of a get that was looked up is in the answer or was absent
(`KeysInv`). An append that loses a block has then observed two values, the one
it read and the one that it overwrites.

**MTBlockingProofs**. `RegistryExact` and `FdOwnership` need each other:
that a leaving worker erases its own entry rests on the registration of a new
thread only under a free key, and that nobody closes another's descriptor rests
on `accept` returning closed ones only. `LateOnce` needs two facts more: the flag
is down whenever Stop has returned, and a worker that ran a late command is not
at the start of another round (`FlagInv`, `LateInv`). The limit rests on
cardinalities of finite sets from the library. `JoinLeavesOne` (`JoinInv`): Join
waits for an empty map after the listening socket was shut down, so only a
connection that the acceptor has in its hand can still become a worker. That is
also the one that `TerminateExplained` finds when the server is destroyed.

**MTNonblockingProofs**. `IInv` says where a Connection may be: fresh (an acceptor
has it and epoll does not know it), armed, or in the hands of one worker
(`FreshInv`, `HandInv`, `ArmedInv`); only that worker changes `_results`, `_event`
and the registration (`OutInv`). So EPOLLONESHOT alone gives `OneHandler`.
`AnswersSafe` is about the Connections that exist, and `DropsExplained` about those
that were deleted with answers in them: a second invariant on top of `IInv` (`DInv`)
says that a worker deletes a Connection for one of the reasons only, and that no
later action takes the reason away. For the faults it matters that a living
Connection has its descriptor for itself (`FdInv`) and that an entry of the map is
under the descriptor of its Connection, dead or alive (`MapInv`). The attempt to
prove `FaultNeedsReuse` for any number of acceptors showed that its first form held
for one acceptor only: with two, a Connection can be registered, served and deleted
by a worker before its acceptor inserts it, while the entry of an older one is in
its place. The property names this case now, and its run has two acceptors.

**STNonblockingProofs**. The map owns exactly the living connections
(`RegistryExact`), so `accept4` never returns a number that is taken in it. The
kernel knows the interest of a connection or, while it is handled, the one from
before (`WatchInv`), which makes the test "only if it has changed" right. Answers
that go with a connection are treated as for `mt_nonblocking`. That
nothing is freed twice holds after Stop as well.

**ServicesProofs**, about the engine. `DoublyLinked`, `ListComplete` and `OwnStack`
are inductive together with the type invariant and facts about what is blank: nobody
is current outside of a coroutine, nothing exists before start, and a context that
does not exist has no links and no work. That the list is complete is stated without
following it: a set of contexts that holds the head and is closed under `next` holds
all of them. `LinkKeepsList` and `LinkKeepsComplete` cover the creation of a
context, `FinishInv` the removal of the head, a middle or the last one (a closed set
without the predecessor of the removed context would have been closed before, and
was then everything).

**ServicesProofs**, about the logging service (`LogSpec`): any configuration with
finitely many loggers, any appenders (missing ones and unknown types too), any
patterns. The loop of `select` is a recursive function; `SelectIs` shows that it
is the longest part of the name that is registered (`Nearest`), which satisfies
the equation of the loop (`NearestRound`), and that nothing else does: the
shortest part at which two solutions differ would not be one (`Least`, from
the well-foundedness theorems of the library). For `create`, `Creating` says that the
text so far is the pattern up to the iterator, and that an iterator behind the end
has left a directive open; `ExpandFacts` is one round, over the cases of what
follows a percent sign. For `reopen_all`, `Walking` says that the sinks of all
loggers, and those behind a visited dist_sink, were visited or wait, that
everything met is in use, and that the visited files are the reopened ones. So
when the deque is empty what was visited is closed, and no argument about the length
of the walk is needed (`ReopenEndsStep`).

**MaterialsProofs**, about the readers-writer lock. The property is not
inductive; `SmInv` adds what `state_` means (`StateExact`: the bit is set exactly
while one thread is between entering and unlocking, the count is the number of
threads that read, and it is 0 under a writer) and that an increment under way
has read the value that is still there (`CounterExact`). The hard case is a
reader that leaves: it wakes one thread, so a second sleeper behind `gate1_` has
to be one thread too many, which `TwoTooMany` derives from cardinalities.

**MaterialsProofs**, about the two epoll programs. `OutputFaithful` speaks of the
bytes that wait in the record of a connection while it is registered for
writing. `EpInv` ties the events of one `epoll_wait` to the epoll set while they
are handled one after another: there is one event for a descriptor, and the
descriptor is still registered for what the event says (`EventsInv`), because
a connection that is accepted in between had no event (`WaitingInv`). So a
read finds nothing in transit, and with `offset = 0` what it puts into `data` is
what the next writes send. `WriteParts` is the algebra of a partial write. For
`epoll-example.c`, `Placed` says that every byte is in its place or was dropped by a
short write, which a read and write of any length keeps (`Dropped`).

**CourseWorkProofs**, about the sort: any number of files (main requires one) with
any numbers. `PendingSegments` is not inductive, because it forgets the order of
the segments on the stack and what the partition loop has done. `Progress`
says of every loaded task:

- its segments ascend, and the n-th begins at 2(n - 1) or later (`Ascending`);
  the one that is partitioned is behind all others (`Behind`). Hence they are
  disjoint, and the two sides of a pivot fit into a stack of N entries;
- up to `i` the numbers are at most the pivot, from there to `j` they exceed it
  (`Parted`), so that the pivot separates the sides (`PivotSplits`);
- two numbers in the wrong order are in one segment (`WrongOnlyInside`). This
  survives the swaps of the partition because they only permute numbers within
  the segment, and a number outside is in order with all of them (`InsideKeeps`);
- the array is a permutation of the file (`Rearranged`), by the composition of
  the permutation so far with the swap: no induction is needed.

`SortState` adds how the coroutines are interleaved: the tasks below `i` of main
are the loaded ones, each with a live array of its own, and main is in its loop
only for a task that has not started, which is why the stale `i` behind `setjmp`
does no harm. `ArraysOwned` needs the merge too: `MergeInv` knows nothing
of the numbers any more but of the memory that each array has one owner, which
freeing, moving and allocating keep. `SortInv` and `MemoryInv` were
checked on the inputs of the run `programs` before they were proved.

**CourseWorkProofs**, about the shell: any input, any lines one after another, any
number of descriptors from five on. `Words` says that on a plain line the counted bars
are the tokens that are a bar, with the one that is being read; `SplitFacts` counts the
commands. That the children of a line are gone when the next one is read needs the number
of `wait`s against the number of forks (`KidsInv`): the children that are left are
at most the rounds of the loop that are left.

Only model-checked:

- all liveness (`OperationsEnd`, `StopsCleanly`, `StopEnds`, `Answered`,
  `SignalEnds`, `SortsAll`, `PromptReturns`, `RequestAnswered`, `AllPutOut`,
  `DemoEnds`): it needs fairness, hence ENABLED, which the provers cannot treat;
- `ExecutesWhatWasSent` and `CaughtUp` (parser and connection loop): they
  compare two folds over the bytes of a chunk. An operator that takes an operator
  as its argument is beyond the provers, as are the induction theorems of the
  library. What can be proved of a recursion is its closed form, if
  there is one that is not recursive itself, as for `select` above; a parser has
  none;
- what the merge of the sort computes (a part of `SortsAll`): `Merged` is
  recursive over two arrays;
- `Capacity`, `ExecutesAsMeant`, `PipelineConnected` and `EchoFaithful`, which are
  violated.

## 6. Not modelled

- Allocator, userfs, thread pool: stubs without bodies. `Executor.h`: declared,
  not implemented, not used. `src/fc/flatCombine.cpp`: a draft that is in no build
  file and does not compile (missing statements, undeclared names), so it has no
  behaviour to model.
- The command Delete: declared only. `get_cmd` and `parse_cmd` of the shell: never
  called. `timed_lock` and the timed constructors of `shared_lock`: not defined, or
  calls of functions that are not.
- The remaining lecture examples and materials: each shows one system call (a
  fork, a signal, a mapping, a semaphore) and keeps no state over several steps.
- `src/bd/cache_obliv.cpp` is an empty file. Third-party libraries: spdlog, cxxopts
  and epoll are modelled where the code uses them.
- Output formats, log messages, time keeping; of the addresses of stacks only their
  order.

## 7. Plan

Done, in this order: storage (abstract, detailed, proofs), `mt_blocking` and its
proofs, commands, `mt_nonblocking`, parser with `st_blocking`, `st_nonblocking`,
the engine and its proofs, application with logging, the stand-alone programs,
the readers-writer lock and its proofs, then
the proofs for the commands, the two non-blocking servers and the epoll
materials, with the refinement of `LRUCache`, and the proofs for the sort, the logging
service and the shell.

Left: what takes induction over data (section 5) stays with TLC until the
installed provers can instantiate the induction theorems of the library.
