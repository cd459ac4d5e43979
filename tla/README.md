# Specifications of the Linux-Programing repository

The repository is a course in Linux system programming: thirteen directories of
exercise programs, one per topic, and `final-assignment`, a sensor gateway in
two processes and three threads that uses most of what the exercises teach. The
gateway is the program with a design of its own and is modelled in most detail; of the
exercises, those are modelled in which several processes, threads, handlers or messages
meet; of the third-party code, the parts that keep state of their own: the event loop
of hostap and cJSON's item trees and their text.

`PROJECT.json` lists every component, run, definition-to-source mapping, hazard
and theorem. This file explains them.

## 1. Inventory

### The gateway (`src/final-assignment`)

| Part | State | Operations | Interacts with |
|---|---|---|---|
| `shared/os_list.c` | doubly linked list, `cur_size`, `max_size`, `mutex`, `cnt_mutex`, `data_available` | `list_create`, `list_push`, `list_get_data_first_node`, `list_get_data_last_node`, `list_remove_first_node`, `list_clean_nodes`, `list_destroy` | all three threads |
| `connection_mgr` (`main-server.c:133`) | `buf`, descriptor sets | select, accept, recv, push of `buf`, close | clients over TCP, the list |
| `data_mgr` (`main-server.c:209`) | `msg`, `old_msg`, `parsed`, the rings `val` with `check`; the global `cnt` | get, compare, count, remove, parse, average, write to the pipe | the list, `buf` (by address), the pipe |
| `storage_mgr` (`main-server.c:298`) | `msg`, `old_msg`, `parsed`, `fdb`; the global `cnt` | get, compare, count, remove, parse, insert | the list, `buf`, SQLite |
| the process pair (`main-server.c:61`) | pipe ends, `gateway.log`, SIGCHLD handler | fork, close, read/log loop, `write_to_pipe`, `prevent_zombie` | kernel pipe and signals |
| `fdb/fdb.c` | `.template.db`, `sensor.db`, cached statements | create, open, insert | SQLite, file system |
| `shared/os_gen.c`, `os_msg.c`, `os_json.c` | `senIDs` | sort, search, avg, `msg_parse`, `read_room` | the managers |
| `shared/os_debug.c` | `debug.log`, `logging_mutex` | `minfo`, `merror`, ... | everyone, and the signal handler |
| `cJSON/cJSON.c` | heap items linked to neighbours and first child, with names and texts; the print buffer | parse, create, add, reference, detach, replace, delete, print | `msg_parse`, `read_room`, `getMsg` |
| `client.c` | a socket | connect, send every two seconds | `connection_mgr` |

What is hard about it:

* **One buffer, many nodes.** `list_push` stores the address of `connection_mgr`'s
  only receive buffer. Every node points there, `recv` overwrites it while managers
  compare, copy and parse, and a manager notices a message by its text having
  changed since it last looked.
* **Counting readers.** A node is removed when the global `cnt` reaches 2. The two
  managers do not take turns: one may count twice.
* **Waiting inside a lock.** A manager waits for `data_available` while holding
  `cnt_mutex`, and `list_get_data_first_node` reads the node after unlocking
  `list->mutex`.
* **Ends of processes.** The log child must see the end of the pipe exactly when the
  gateway is gone; the gateway's writes must not block for ever when the child is.
* **Texts without an end.** Clients send no 0 behind a message, `recv` returns any part
  of it, and nobody terminates `buf`, which is not initialised: what is compared, copied
  and parsed goes on into older messages.
* **State left over.** `msg_parse` succeeds without writing its result when a message
  has no `sensorID`, so a reading can be stored twice.
* **Crash and restart.** The database is made by copying a template; a crash or a failed
  statement leaves files that the next start finds and trusts.
* **Numbers that change owners.** Descriptors below `fd_max` are opened and closed by
  other threads while `connection_mgr` scans, and `recv` returns any part of what waits.

What makes each part correct: the list is a bounded FIFO for its callers in every
interleaving and wakes its waiters; the threads keep the list's protocol and the
count, never remove from an empty list nor take the node that wakes the other manager
away, and both reach the newest message; the select
loop watches exactly its own sockets and blocks nowhere else; a record is one message;
averages are those of the last five readings; stored records survive restarts and an
open database has its table; the log has every line that could be written to it once and
in order; both processes end properly.

### The exercises

| Part | State | What is hard |
|---|---|---|
| `01-general-knowledge/wpa_ctrl`: `main.cpp`, `wpa.cpp`, `wpa_ctrl.c` | the networks of a running wpa_supplicant and its file | a reply that is late is read as the answer to the next request; the numbers of networks change under the program |
| the same directory: `eloop.c` | socket tables, timeouts in order of time, noted signals | handlers change the tables the loop is going through; signals come at any place; one timeout per round |
| `04-thread`, `BTVN/04-thread` | a counter, a mutex, a condition variable | three ways of waiting for the same event |
| `06-socket`, `BTVN/06-socket`: the stream chat | a TCP stream each way, whose turn it is | reads that return parts, clients that leave |
| `07-pipes-FIFOs/related_pipe` | a pipe with an end left open | the end of the pipe never comes |
| `07-pipes-FIFOs/named_pipe` | a FIFO opened anew for every message | one side may still have it open from the round before |
| `09-semaphore/producer-consumer` | three semaphores, a buffer | the order of the waits, a full and an empty buffer |
| `09-semaphore/.../named-semaphore` | a semaphore that outlives everybody | several creators, time-outs, a holder that dies |
| `10-message-queues/client-server` | a request queue, a queue per client, a child per request | full queues, merged signals, any process killed |
| `11-kernel-module-basic/05-fops-ioctl` | five resources of a driver | unwinding after a failure, loading again |

The file server is correct when a client that is told END has the whole file, no child
stays a zombie and no client waits for ever; the others when nobody waits for ever, what
is counted agrees with what there is, and what one run leaves does not hinder the next.

The other exercises (`02-linux-file-system`, `03-process`, `05-signal`,
`08-shared-memory`, the single-purpose programs of `04` to `11`, `BTVN`) demonstrate one
call each. `sqlite3.h` and `test/list.h` are third-party headers.

## 2. Plan

Done: the list, the gateway's threads, parsing and averaging, the log pipe, the database,
the select loop, the file server, the logger, the condition variable programs, the
semaphores, the pipe and the FIFO, the stream chat, the kernel module's init and exit, the
Wi-Fi configuration, the event loop and cJSON; and proofs of every invariant but the one
about the text of JSON items, and of the three refinements (section 5).

What would come next, in this order:

1. `CJson`: `cJSON_Duplicate`, and `read_room` as a second caller that parses, both with
   `ItemsHaveOneOwner` extended to them; `JsonText`: `cJSON_Minify`.
2. `MergeSort` of `os_gen.c` against a reference definition. No program calls it.

## 3. Modules

```
OsList ------- list memory and the bodies of the critical sections
  |-- ListThreads ---- any producers and readers on one list
  |     `-- implements BoundedFifo
  `-- Gateway -------- the three threads of main-server.c
        `-- implements ListThreads
SensorWindow --------- data_mgr's parsing and averaging
  `-- implements RunningAverage
ConnectionMgr -------- the select loop: descriptors, TCP streams
LogPipe -------------- the two processes, the pipe and gateway.log
Fdb ------------------ the template, sensor.db and its records, over restarts
CJson ---------------- JSON items: the caller's functions, the parser
JsonText ------------- the text of JSON items: printing, reading strings
  `-- MCFdb ---------- SensorWindow, Fdb, CJson or JsonText, one at a time
FileServer ----------- the message queue file server and its clients
Logger, CondVar, ProducerConsumer, NamedSemaphore, RelatedPipe, NamedPipe,
DeviceModule, SocketChat ---- a program each
  `-- MCPrograms ----- one of these nine, chosen at the start
Eloop ---------------- hostap's event loop
WifiConfig ----------- the Wi-Fi configuration program and wpa_supplicant
  `-- MCWpaCtrl ------ one of the two, chosen at the start
OsListProofs, ListThreadsProofs, GatewayProofs, LogPipeProofs,
ConnectionMgrProofs -- theorems about the module of that name
DataProofs ----------- theorems about SensorWindow, Fdb and CJson
ProgramsProofs ------- theorems about the programs of MCPrograms
WpaCtrlProofs -------- theorems about Eloop and WifiConfig
```

The programs that `MCFdb`, `MCPrograms` and `MCWpaCtrl` choose from share no state in the
code. Each module has its own `Spec` (`FdbSpec` for `Fdb` and `JsonSpec` for `CJson`, whose
theorems share a module with those of `SensorWindow`); the composite only runs the chosen one and
leaves the variables of the others at their first value.

**OsList** keeps the list's memory as in C: `first_node`, `last_node`, `cur_size`, the
fields of every node and the set `live` of allocated nodes. `push` and `remove_first`
are the bodies under `list->mutex` with their return codes; a failing `calloc` is a
choice. `Chain` walks the `next` pointers; `WellFormed` says that some enumeration of
exactly the allocated nodes is linked both ways between `first_node` and `last_node`,
as long as `cur_size` says, within `max_size`.

**ListThreads** runs these bodies in threads. Taking `list->mutex` is one step and the
body with the release another, because nothing else reads the list in between, with
one exception that has its own step: `Deref`, the read of `first->data` after the
mutex is released. `pthread_cond_wait` releases the mutex and joins `waiting` in one
step, returns after a broadcast or spuriously, and takes the mutex again. Readers
keep the gateway's convention of holding `cnt_mutex` around a get and the remove that
may follow. Threads may return, and then `list_destroy` runs.

**BoundedFifo** is what `os_list.h` promises: push appends or is refused, get returns
the oldest (or newest) item, remove takes the oldest, clean empties.

**Gateway** is `main-server.c` statement by statement where threads can meet. The
buffer is an array of `BufLen` cells, each with the part of a text that fell into it, a 0
(`Zero`), or what was in the stack before (`NoText`, one value for whatever it is): at first
any mixture of the last two. `recv`, `strcmp`, `strcpy` and the parser touch
one cell per step, so a manager can see the head of one message and the tail of
another. A `recv` fills any number of cells in `Parts` and writes no 0 behind them, as the
clients send none; the comparison, the copy and the parser end at the first 0, in what
was received before, or at the end of the buffer: the memory behind it is taken to begin
with a 0. What is left of a message for the next `recv` is another text to the managers, one
of `Texts`. `connection_mgr`'s loop is reduced to the receipt of a message because its
other paths touch nothing shared. `sen_lock` is only ever taken for reading and is left out. Its refinement
mapping into `ListThreads` groups labels (`Stage`).

**SensorWindow** takes a message as what `msg_parse` distinguishes (object or not,
`sensorID`, `timestamp` present, `temp`) and models the msg_t it leaves behind, the
ring with its index cell, the `check` flag and the level of the average. `search` is the
code's binary search with the range its caller gives it, 0 to 5 for an array of five:
`senIDs` is a constant, the ascending table that `read_room` makes of `room.json`, and
`behind` is what happens to lie in the cell after it. Averages are exact where the code uses
doubles. Using an msg_t that was never written, or a row of `val` that does not exist,
is undefined in C: the model stops there (`undefined`).

**RunningAverage** keeps the last `WindowLen` readings of each sensor as a sequence.

**LogPipe** has the open pipe ends of each process as a set, the lines in the pipe, and
the file. A line is written and read as `OS_MSG_SIZE` bytes, which is less than
`PIPE_BUF`. The child's `write` to the log may fail or be short: `bytes` is a `size_t`
(`main-server.c:88`), so -1 is not noticed, and neither is a part; the loop goes on. Such a
line is in `failed`, and in the file cut or not at all; if the log cannot be opened, every
line is. The parent may end at any place, from the creation of the pipe on, and the
child may be killed at any place.

**ConnectionMgr** is the loop that `Gateway` reduces to a receipt. A round is `Select`
(copy `master`, keep the readable numbers) and one `Scan` step per number up to `fd_max`:
accept, `recv` of any part of what waits, close on 0 or on an error. A descriptor is the
lowest free number, as in POSIX, so a close in the scan can hand the number to
`OtherThreads`, who open and close files at any time. `Client` knocks, sends, closes and
breaks connections. `accept` may fail, and the process exits as the code does when
`bind` or `select` fails. `main-server.c:186` reads `bytes = recv(...) <= 0`, which
assigns the comparison and not the count; `bytes` is 1 whenever it is looked at, so the
branch is right and only the number in the debug line is wrong.

**Fdb** takes a file as the number of its blocks; only a complete one has the table, and
SQLite opens any of them without looking. `storage_mgr` opens, and on failure creates
(template through SQLite if it is missing, then a copy block by block) and opens again;
`Insert` is `fdb_data_insert`. Faults are switches, so that a run can ask which of them
matter: a failing open, statement, read, write, close, step, and a crash between any two
steps. `refused` and `spoiled` only record what has gone wrong, for the properties.

**FileServer** has the server (`ServerStart` to `ServerRemove`), its `grimReaper` handler
with one pending SIGCHLD for any number of dead children, a child per client and the
clients. A DATA message is the block it carries; queues are bounded, an END message has
no text and always fits. A read that fails, a fork that fails, and the death of a client,
a child or the server are faults. System V queues outlive their owners: a killed client's
queue keeps a child in `msgsnd`, a killed server's queue makes the next server fail its
`msgget`, whose result is not tested.

**Logger** is `_log` step by step, called by two threads and, at any place of either, by
`prevent_zombie`, the handler of SIGCHLD, which runs on top of the interrupted thread.
Because `flags.initialized` is never set, every call runs `pthread_mutex_init` on a mutex
that may be held; the mutex is therefore modelled as glibc's lock word (0, 1, 2) and the
set of its sleepers. The mutex protects nothing after that, and the lines stay whole only
because each is one appending write. `fopen` may fail, and then `_log` drops the line without a word
(`os_debug.c:63`), and so may the write; `failed` has those lines, at most `MaxFailed`, and
`LinesAreKept` is about the others: a line is missing or cut only if its own call failed.
`stat` of a log that is there is taken to succeed. A thread whose wake-up was wiped out by an
initialisation sleeps on: `HandlerWaitsForOthers` says that the handler at least does not
wait for the thread below it, and the exclusion that the mutex seems to promise is not
claimed.

**CondVar** has the three programs as variants of one module. `con_var.c` compares
`counter` with a value that its thread has stepped past (the loop leaves it at 6), so its
main never ends; the liveness property `MainEnds` is about the other two.

**ProducerConsumer** and **NamedSemaphore** have a semaphore as its value, and a wait as a
guard. In `ProducerConsumer` the two processes die with the terminal and not otherwise;
in `NamedSemaphore` a process may be killed anywhere, and one that dies with the semaphore
leaves it at 0 (`lost`), after which all others time out: that is what the code does, since
`sem_unlink` is given an address in place of the name.

**RelatedPipe** keeps the child's write end open, as the code does (the `close` is
commented out): the child never meets the end of the pipe, against the comment in
`related_pipe/main.c`. **NamedPipe** has the opens of both sides as rendezvous; the
producer may enter several messages while the consumer still has the FIFO open, and the
consumer then prints only the first of them. `PrintsInOrder` says that what is printed is
in the order of entry, and a repetition is the last one again.

**DeviceModule** is `hello_world_init` with its labels and `hello_world_exit`, over several
loads, each resource with the load that took it. `hello.c` leaves the cdev when `kmalloc`
fails and gives back three device numbers where it took one, so the region stays after
every exit; `CanBeLoadedAgain` is about the other resources.

**SocketChat** cuts a message of `BUFF_SIZE` bytes into pieces, of which the first holds
what was typed, and lets a read return any number of them up to a message. The server
serves one client at a time. A killed client, or a partial read around an `exit`, makes the
server leave with it (`rough` records that one of them happened); `ExitIsOrderly` is about
the runs without. `stream_server.c:94` does not pass the port through `htons`: the client
is taken to be given the port that results.

**WifiConfig** takes a network as the run that added it and the runs whose ssid and psk it
has. wpa_supplicant starts with any networks whose numbers are at most `MaxNumber`, with gaps
too, and with any number of them in its file; while the runs are made nobody else configures
it. Requests and replies go through datagram queues; a reply may come after the
program has given up, in which case the next request reads it. `SetsItsOwnNetwork` needs
three things that the program does not see to, all of which the model also goes without:
timely replies, since a late one is taken for the next request's; a file that can be
written; and networks that were numbered 0, 1, ... up to `NETWORK_ID_MAX` at most when the
first run began (`roomy`). `wpa.cpp:257-265` takes the number `NETWORK_ID_MAX` after it has
removed network 0 and reconfigured; with a gap, or with one network more, that number is
another's network or none, and the program sets it.

**Eloop** has the tables, the timeouts in their order, noted and pending signals, and the
place in the loop. Handlers are the program's and may register and unregister sockets and
timeouts, cancel one timeout or all, shorten or lengthen one, and terminate the loop, up
to `MaxCalls` times; a signal may come at every place until `eloop_destroy`. The alarm that
the first interrupt sets may outlive it: an interrupt that comes in the middle of a pass over
the signals (`eloop.c:1003-1008`), before its own place in it, is handled in that pass, but only
the next pass clears the alarm. It may go off after `eloop_run` has returned, too, since
nothing there takes it back. `AlarmGuardsInterrupt` therefore says that an interrupt that is
noted has an alarm, and that the flag and the alarm agree, and not that the alarm ends with
the interrupt. An entry of a socket table carries
who registered it since `select` was prepared, which is how `NotCalledForAnother` tells a
stale report. A writer registered by a reader's handler for the same number is dispatched
on the old report (the flags are per table); the property leaves that out.

**CJson** has the heap as a function from addresses to items, with `next`, `prev` and
`child` as in C, and the number of the blocks that hold names and texts. Any allocation may
fail. What hangs below an item (`Below`, `Children`) is the least set that has where the
links start and is closed under them (`Reach`), which for lists that end is what the loops
and recursions over `next` and `child` visit. `Build` is a caller that follows `cJSON.h`: it
gives an item away once, does not put an item below itself, and does not change or delete
what a reference shows. `Parsing` is `msg_parse` (`HandleMessage`) over `cJSON_Parse`: the
recursion is a stack of frames, each with the list it has built so far, and the text is made
up as it is read, so that it may break off or go wrong anywhere. What nobody holds any more
(`Lose`) goes to `lost`: it stays allocated, its address and its names and texts are never
given out again, and no pointer leads to it. `cJSON_AddItemToObject` and
`cJSON_AddItemReferenceToObject` lose the item when the name cannot be allocated
(`cJSON.c:1926-1930`, `1946-1949`), and `msg_parse` loses the tree of every message that it
refuses (`shared/os_msg.c:66-99`), although `DESCRIPTION.md:30` calls the memory leak fixed:
the run `message_leak` shows it. `EveryItemHasOneOwner` is about the items that are not lost.
For a message whose
timestamp or temperature has the wrong type it also deletes that child with the children
after it while the root, lost anyway, still links to them; `read_room` does the same
(`os_msg.c:51-54`) and then deletes the root, for a `room.json` of the wrong shape only.

**JsonText** is what `CJson` leaves out: bytes. A print is a job (an item, formatted or not,
with which of the three functions and into how large a block); `print_value`'s recursion is
a stack of frames, and each `ensure` with the bytes written after it is a step, which
enlarges the block, fails, or stays inside it. `offset`, `strlen` in `update_offset` and the
places of the final 0 are as in C, and `outside` remembers a write past a block or a text
without an end. `parse_string` reads a string one character or escape at a time into the
block whose size it has counted, a given one or one that has just been printed. Against
that stand `Text`, the text of an item by its definition, and `CodePoints`, which decodes
UTF-8. `TextsArePrintedAndRead` says that what is printed is the item's text and stays in
its block, that five bytes more than the text suffice for `cJSON_PrintPreallocated`
(`cJSON.h:167`), and that a string is read as it was meant or printed. Four characters after
`\u` that are not digits count as 0, so such a string is accepted. Numbers are given as
`sprintf` renders them.

## 4. Runs

| Run | Instance | What it shows |
|---|---|---|
| `list_threads` | 2 producers, 2 readers, capacity 2, heap of 3, 2 values | `WellFormed`, `NoUseAfterFree`, refinement of `BoundedFifo`, and `IsServed`: no wake-up is lost |
| `gateway` | capacity 2, heap of 3, 2 texts, 2 cells of which a recv fills 1 or 2 | `CountMatchesList`, `NodeUntilBothHaveIt`, refinement of `ListThreads` (`FollowsProtocol`) |
| `gateway_progress` | capacity 2, heap of 2, 2 texts, 1 cell | `PushReturns`, `BothCatchUp` |
| `connection_mgr` | 4 descriptors, 2 unread bytes, 1 client waiting | `MasterIsMine`, `NeverBlocks`, `EveryoneIsHeard` |
| `fdb` | 5 rooms of which 2 send, 1 unknown sensor, 3 temperatures, window of 2; template of 3 blocks, 3 records, every fault; 4 items, 2 names and texts, nesting of 2; 20 items printed, first block of 6, `INT_MAX` 32, preallocated up to 48 | `OnlyRoomsAreHeard`, refinement of `RunningAverage` (`ImplementsAverage`); `RecordsSurvive`, `OpenedHasTable`; `EveryItemHasOneOwner`; `TextsArePrintedAndRead` |
| `log_pipe` | 4 lines, room for 2, any write to the log failing or short | `LogIsWhole`, `ChildFollows`, `WriteReturns`, `ChildIsReaped` |
| `programs` | see below | the nine programs of `MCPrograms` |
| `wpa_ctrl` | 1 socket in 2 tables, 1 timeout, SIGHUP and SIGINT, time up to 1, 3 calls, 2 signals; network numbers up to 2 at first and a limit of 1, 3 runs, queues of 2 | `NotCalledForAnother`, `TimeoutsInOrder`, `AlarmGuardsInterrupt`, `TimeoutsGoOff`, `InterruptIsHandled`; `SetsItsOwnNetwork` |
| `gateway_torn_record` | 2 texts, 2 cells | a record made of two messages (violation) |
| `stale_reading` | window of 5 | a reading the message did not carry (violation) |
| `fdb_create_zero` | a failing schema only | `fdb_create_sensor_db` returns 0 for a database without its table (violation) |
| `message_leak` | 3 items | items of a refused message that stay allocated (violation) |

In `programs`: the file server has 2 clients, files of up to 2 blocks, queues of 1 block
and 1 request and every fault but a failing read (`EndMeansComplete`, `ClientIsAnswered`);
the logger 2 threads of 2 lines, of which 1 may fail to be written (`LinesAreKept`, `HandlerWaitsForOthers`); the counters
count to 5; the buffer has its 10 slots (`BufferIsKept`); 2 processes start the named
semaphore's program 4 times in all (`OneHolder`); the pipe carries its 3 messages, the FIFO 4
(`PrintsInOrder`); the module is loaded 3 times (`CanBeLoadedAgain`); 2 clients chat in
messages of 2 pieces and type 2 of them before the exit (`NeverBothWait`,
`ExitIsOrderly`). `EveryChildIsReaped` is about both programs with children, and
`EverythingGoesOn` has what must happen in the counters, the buffer, the pipe and the chat.

Properties that are conjunctions: `CountMatchesList` is that a manager that removes finds a
node and that `cnt` does not step over 2; `LogIsWhole` that no line is lost or mixed and
that a child that ended by itself has logged everything, the lines whose own write to the
log failed apart; `RecordsSurvive`, `NeverBlocks`,
`NoUseAfterFree` and `BufferIsKept`, `OneHolder` of `MCPrograms` include the type invariant
of their module.

Bounds. Capacity 2 meets the empty, one-node, middle and full cases of the list, and
the heap has a node more than the capacity so that `list_full` and not the heap stops
a push. Two texts are enough because managers only compare for equality with the last
text; two cells are the least that can be torn, or half received. `gateway_progress` has one
cell, where texts are not torn: two cells and two nodes are too many states for liveness.
A window of 2 has a first and a last cell and wraps, `stale_reading` has the 5 of the code, and
the proof any length; the temperatures average to values on both sides of both
thresholds and below zero. Four lines through a pipe of two make it full and empty.
Four descriptors let the listener, two clients and a file come in any order
of numbers, and let the process run out of them; two bytes let `recv` take a part. Three
blocks are a first, a middle and a last one for a copy and for a crash in it. A file of
two blocks does not fit a queue of one, and two clients fill a request queue of one. Two
loads show what the first one left, and a third that it goes on. With a limit of 1 for
network numbers the third run meets it; numbers up to 2 at first have a gap or one network
too many. One line that fails shows whether it takes another's with it. A message of two pieces is the least that can come in
parts. Three calls of the event loop's functions are a registration and a change or a
cancel from a handler, with one more registration; two signals are the interrupt and
another. Four items are a root, a nested list, a child in it and a child beside it, and
make the heap full as well. The printed items have every type, every class of character,
empty and nested lists, and an item that cannot be printed; with a first block of 6 and 32
for `INT_MAX` a block grows once, several times, to the limit, or not enough; 48 bytes are
more than the longest text and five. The strings that are read have the code points where
UTF-8 changes its length, both ends of the surrogates, and what is refused.
Nothing is cut off in `ListThreads`, `Gateway`, `SensorWindow` and `ConnectionMgr`: their
state spaces are finite as they are, with the socket buffers of `ConnectionMgr` small, and
so are those of `CondVar`, `ProducerConsumer` and `CJson`, whose heap is its bound.
`MaxLines` bounds `LogPipe` and `Logger`, `MaxFailed` the failing lines of `Logger`, `MaxRecords` `Fdb`, `MaxStarts` `NamedSemaphore`,
`MESSAGES` and `MaxMessages` the pipe and the FIFO, `MaxLoads` `DeviceModule`, `MaxTyped`
`SocketChat`, `MaxTime`, `MaxCalls` and `MaxSignals` `Eloop`, `MaxRuns`, `MaxNumber` and `QueueLen`
`WifiConfig`, and in `FileServer` each client asks once. In `fdb` the addresses of JSON items
are symmetric: they are only compared, and the run has no liveness property.

`CHECK_DEADLOCK FALSE` is set where the system stops by itself: `ListThreads` after
`list_destroy`, `LogPipe` when both processes are gone, `SensorWindow` after undefined
behaviour (in `stale_reading`; in `fdb` that state has a step to itself), `ConnectionMgr` when the process has exited, and in `MCPrograms` and `MCWpaCtrl`
when the chosen program has come to its end or a bound is used up. `Gateway`, `Fdb`,
`CJson` and `JsonText` run for ever and are checked for deadlock.

Fairness. Threads and processes that can run do run (weak fairness). Taking a mutex
is strongly fair: a thread that finds it free again and again gets it in the end,
which glibc's mutexes do not guarantee in theory but the scheduler gives in practice;
the managers spin on both mutexes when there is nothing new, and under weak fairness
alone the spinning reader could keep everyone else out. A thread is at one label at a
time, so strong fairness is stated once per thread over all its steps. The select loop
(`connection_mgr`), the server, each child and
each waiting client are weakly fair, and a pending signal is delivered. Faults, crashes
and kills are outside every fairness condition: they may happen and need not. Clients
need not send, callers need not call, the gateway need not be started again, and no
process is obliged to end. In the composites the conditions are stated for the chosen
program. The two threads of `CondVar` take one mutex and are strongly fair for the same
reason as above; the semaphores' processes, the pipe's, the chat server and the event loop,
with its clock and its alarm, are weakly fair. The chat's users need not type, so only the
server's part is fair.

### Disagreements between code and documents

* `DESCRIPTION.md:29` lists "Write wrong data to pipe if multi client send data to
  server." as fixed. Run `gateway_torn_record` finds a record whose first part is from
  one message and second from the next: `recv` into the shared `buf` while a manager is
  in `msg_parse`.
* `headers/os_msg.h:30` says `msg_parse` returns "a struct contain all information of
  message". Run `stale_reading` sends a reading and then an object without `sensorID`:
  `msg_parse` returns 0 and `data_mgr` stores the first reading again.
* `fdb/fdb.h:36` promises "0 if success otherwise -1". Run `fdb_create_zero`: a statement
  of the schema fails and leaves an empty `.template.db`; the next start finds the file,
  skips the schema, copies it and returns 0 (`fdb.c:98`).
* `DESCRIPTION.md:30` lists "Fixed memory leak." as done. Run `message_leak`: `msg_parse`
  returns from a message that is no object, has no room's `sensorID` or lacks a timestamp or
  a temperature without deleting its tree (`os_msg.c:66-99`).

Further remarks that are in the models, but of which no document says otherwise or which
no run isolates:

* `server.c:120`: a `read` that fails ends the same loop as the end of the file, and END
  follows a part of the file. The fault `"read"` of `FileServer` has it; the run excludes it.
* `related_pipe/main.c`: the child never sees the end of the pipe that the comment at the
  parent's `close` announces.
* `04-thread/conditional-var/con_var.c`: main never ends.
* `os_debug.c`: `logging_mutex` is initialised in every call and excludes nobody.
* `05-fops-ioctl/hello.c`: the region, and after a failing `kmalloc` the cdev, stay.
* `BTVN/06-socket/ipv4-stream/stream_server.c`: the server ends with a client that is killed.
* `wpa.cpp`: a late reply is taken for the number of a new network; and with a gap in the
  numbers, or one beyond `NETWORK_ID_MAX`, before the first run, another's network is set.
* `eloop.c:1003-1008`: an alarm that stays after its interrupt was handled ends a program
  that has left the loop.
* `main-server.c:186`: a manager parses what was in `buf` behind the part of a message that
  a `recv` brought.
* `main-server.c:88`, `os_debug.c:63`: a line that cannot be written is dropped or cut.

## 5. Proofs

Every theorem is about `Spec` (or the composite's `MCSpec`) and every value of the
constants that the named assumptions admit; none assumes the bounds of a run. The
library's induction rules take an operator as a parameter, which the installed provers
cannot instantiate. Induction over numbers is done on a set in its place: `<` on the
naturals is well-founded, so the least number outside the set would have no reason to be
outside (`LeastElement` of `OsListProofs`, `Induction` of `WpaCtrlProofs` and `DataProofs`).

`OsListProofs` proves about the list's memory, for any set of nodes, any data and any
capacity, that `push` and `remove_first` keep `ListTypeOK` and `WellFormed`, that a
non-empty list's `first_node` and `last_node` are allocated, that the walk `Chain` is the
chain `WellFormed` asserts (`ChainIsUnique`, by the least position where two would
differ), and what the two bodies make of it: a node at its end (`AppendedChain`), or the
rest without its first (`UnlinkedChain`).

`ListThreadsProofs` proves, for any sets of producers and readers, `TypeCorrect`,
`ListStaysWellFormed`, `ReadsLiveNodes` and `ListIsFifo`. The first two are not enough for
the third: a node could be freed between the unlock and the read. The inductive invariant
`IInv` adds that a reader is inside the protocol only as the holder of `cnt_mutex`, that
the node it has picked (label `deref`) is in the list, and that a list that is being
removed from is only touched by that holder. `ListIsFifo` is the refinement of
`BoundedFifo`: with the two lemmas about the chain, the queue that the mapping reads off
the memory grows by the pushed item, loses its oldest, or stays, one lemma per operation.
It assumes only that the null pointer is not a node or a thread, that producers and
readers are different threads, and that the capacity is a natural number
(`OsListAssumption`, `ListThreadsAssumption`).

`DataProofs` is about what becomes of a reading, in `data_mgr` and in the database.

* `RoomsAreHeard`, for any ascending table of rooms, any messages and whatever lies behind
  the table. The invariant is inductive with the types; the work is in the binary search,
  a recursive function of a range. It exists because both halves of a range are smaller and
  still in the array (`SearchExists`); a range that has the position of an identifier is
  halved into one that still has it, and the cell behind the table is looked at only when
  nothing else is left (`RoomIsFound`); and what it finds is a room or lies behind the
  table (`FoundIsThere`).
* `RingsComputeTheAverage`, for any length of the rows and any temperatures: the refinement
  of `RunningAverage`. A full row is the sequence of the last readings cut in two, the
  older part last in the row (`Latest`). `LatestNext` shows, position by position, that overwriting the
  cell at the index and moving the index on is appending to that sequence and dropping its
  first; `TotalJoins`, an induction over two sequences in a row, that both orders have
  the same sum (`TotalOfRow`).
* `FdbTypes`, `StoredRecordsSurvive` and `OpenDatabasesHaveTables`, for any size of the
  schema, any number of records and any set of faults. `RecordsSurvive` alone is not inductive:
  that creating a database loses nothing follows from the database being absent, so `DbInv`
  ties `sensor` to the step of the creation (`Making`), an empty or absent file to no
  records, a handle to the label `run`, and says which files may be incomplete at which
  step as long as nothing is `spoiled`. Flags are split from the rest, so that Zenon gets
  the Booleans and the SMT solver the numbers.
* `ItemsHaveOneOwner`, for any number of addresses, names and kinds and any nesting limit:
  `EveryItemHasOneOwner` holds in every state of `JsonSpec`. It assumes only that the null
  pointer is not an address and that there are finitely many addresses (`JsonAssumption`).
  It is about the items that are not `lost`, and a step that loses a tree leaves the others a
  forest. The property is not inductive: an owned item might have a successor, which an insertion
  would overwrite, and the item of an open bracket a child, which closing it would. The
  inductive invariant is `JsonInv`, which is `CallerInv` outside a parse and `ParserInv` in one.

  `Forest(to, R)` says that everything is reached from the roots `R`, that no root has a
  predecessor and that no item has two; that there is no cycle follows (`NoCycle`).
  A forest changes in four ways, and each has a lemma: it gets a root (`ForestWithRoot`), a root
  becomes the successor of an item of another tree (`ForestWithLink`), a link is taken out and
  its target becomes a root (`ForestWithoutLink`), or a root goes with its tree
  (`ForestWithoutRoot`). `Neat` adds that `prev` is the inverse of `next`. Each of cJSON's
  functions is a sequence of such changes: adding at the end of a list, which exists because
  a finite list without a cycle ends (`LastChildEnds`), detaching, inserting, replacing, which
  is detaching one item and inserting another in its place, and deleting.

  For the caller (`Trees`, `Alone`) the roots are what it owns, each without a neighbour,
  and the names and texts are those of the items that are there (`CountedWithout`: what
  `cJSON_Delete` subtracts is what it frees). For the parser (`Built`) the roots
  are the item it will return and the list of every open array or object, in different
  trees; `FrameOK` says that a frame's item is the last of the list around it and has no
  child yet, and that its own list ends at `current_item`. That is why closing a bracket, which
  hangs the list into that item, and giving up, which deletes one list after the other,
  both leave a forest. `InvGivesOwners` counts the holders of an item in such a forest.

`ConnectionMgrProofs` proves, for any number of descriptors, bytes and clients,
`ConnectionMgrTypes`, `MasterStaysMine` and `BlocksOnlyInSelect`. `IInv` adds what `pc`
says of the listener (`Phase`) and that every number of `read_fds` that the scan has yet
to reach is in `master` and readable (`Ready`); it is inductive because a step of the scan
closes only the number it is at, and because a new descriptor (`LowestIsFree`) is never
one in use.

`GatewayProofs` proves, for any texts, buffer length, split of the messages, heap and
capacity, `CounterAgreesWithList`, `NodeStaysForBoth` and `GatewayFollowsProtocol`. That a manager that removes finds a
node rests on `cnt_mutex`, which it has held since it saw the node, and on the other
manager being outside: `IInv` is the type, `WellFormed` and `Locks`, which says that
a manager at the places of the count holds `cnt_mutex` (`CntHeld`), that `cnt` is 0 or 1
except where it is being tested (`CountIsLow`) and that the list has a node at the places
after a get (`HasNode`). The third theorem is the
refinement: initial states map to initial states, and every step of the gateway is a step
of `ListThreads` under the mapping or leaves it alone, one lemma per action. With it,
what `ListThreadsProofs` shows of any users of the list holds of the gateway, that it is a
FIFO included. `NodeStaysForBoth` is that the list does not run empty, while `connection_mgr` waits for
the next message, before both managers have the text pushed last. It is hard because `cnt`
counts neither managers nor messages: one manager may count twice, and a manager that was
copying when `recv` overwrote the text counts for a text it does not have and will count
again. The invariant `NodeInv` keeps an account. Each manager owes what it still has to
count (`Due`): nothing if its copy is the text in the buffer, one if not, two in the middle
of a copy that is no longer clean, and two more while it removes the node it has counted
for. What is counted and owed is at most two for each node (`Enough`). A push adds a node
for two counts, and that is enough because only the holder of `cnt_mutex` can owe more than one
(`AtMostTwoNodes`); a `recv` suspends the account; each step of a manager leaves it or
lowers it, which needs that the comparison and the copy stop where the text does
(`WalksText`) and start with its first cell (`StartsAtFirst`).

`LogPipeProofs` proves `LogStaysWhole` for any number of lines and any room in the pipe.
`Inv` adds to the type where each process can be for what is open (`Places`) and that the
lines written, those whose own write failed apart, are those in the file, in the child's
hands and in the pipe, in this order (`Contents`), as long as the child lives.

`ProgramsProofs` is about the small programs, each with an inductive invariant of its own
that a step of `MCPrograms` keeps because it is a step of that program or leaves its
variables alone.

* `BufferStaysKept`, for any `BUFFER_SIZE` but 0: `BufCounts` counts, for both semaphores,
  where the slots and the items are that its value does not show, and `BufExclusion` says
  who is between the wait and the post of `mutex`.
* `SemaphoreHasOneHolder`, for any processes and starts: while one has the semaphore its
  value is 0, and nobody waits for or opens a semaphore that is not there (`SemValue`).
* `ModuleLoadsAgain`, for any number of loads: `DevInv` says at which labels a class, a
  device and the memory can be there, and that they are of this load.
* `FifoPrintsInOrder`, for any number of messages: `FifoInv` has what is in the FIFO at or after
  the buffer and what was printed at or before it, and that an unwritten buffer has a writer
  or a message before the next read (`BeforeTheFirst`).
* `LogLosesNoLine` and `HandlerDoesNotWaitForItsThread`, for any threads and lines. For the
  first it is enough that every open of the file that is there is for appending
  (`AllAppend`): the mutex has no part in it. A line that fails is in `failed` from the step
on that would have written it, so it takes no other with it. For the second `HandlerInv` says that once
  the handler has initialised, and so freed, the mutex, it is held by a thread that ran since.
* `ChatNeverBothWait` and `ChatExitIsOrderly`, for any clients, messages and cuts: `ChatInv`
  adds that one connection at most is open and that a client waiting since before its
  `accept` has a message on the way; `TurnInv` says, as long as nothing `rough` has
  happened, whose turn it is and which whole message is on the way.
* `EndsAreComplete`, for any clients, file sizes, queues and deaths: `FileInv` follows the
  blocks of a client's file from the child's position through the queue to the client
  (`Flow`), and a request from the server's queue to one child (`Asks`). It assumes that `read` does not fail
  (`ReadsSucceed`), as the run does: with the fault the property is false (section 4).

`WpaCtrlProofs` has the event loop and the configuration program.

* `AlarmGuards`, for any signals at any place: the property is nearly inductive, and
  `AlarmInv` adds that the two steps that clear alarm and flag come before the pass over the
  signals, which begins at the first.
* `EarliestTimeoutFirst`, for any timeouts registered and cancelled by handlers:
  `TimeoutInv` is that the list is in order, and that `until` is the first entry's time or
  earlier. `CancelledInOrder` and `InsertInOrder` are the two operations on the list; the
  first is an induction over the fold that removes the cancelled ones (`RemovedInOrder`).
* `SocketsNotMistaken`, for any sockets: `SocketInv` says which entries of each table were
  registered since `select`, at which step of the dispatch. It needs the tables of
  `EloopAssumption`, readers, writers and exceptions, to be three different ones.
* `OwnNetworkIsSet`, for any options, runs, `NETWORK_ID_MAX` and `MaxNumber`, under the three
  conditions of the property. That the network
  selected is the run's own is true at the end of five requests, each of which
  may have the reply of another. `WifiInv` says that while replies come in time there is one
  request or reply exactly while the program waits, and that it is the first step's of its script (`OneAtATime`);
  that the script has its steps in the order of `config_wifi` and `scan_results` (`Ordered`);
  and what each step that is next finds or has done at wpa_supplicant (`Ready`,
  `Executed`): after ADD_NETWORK the last network is the new one, before RECONFIGURE it is
  the last of `NETWORK_ID_MAX + 1` in the file, and so on; all this as long as the networks were `roomy`
  at first. Whatever the numbers are, every place of a saved file has one of the networks
  (`NthTyped`). `WifiAssumption` has the options of `main`, and numbers for the limits. `FlattenSeq`, which puts them together, is a recursive function; its existence
  is proved (`FlattenExists`), and then that what it gives is `Ordered`.

Only model-checked, and why:

* `TextsArePrintedAndRead`: the text an item should have, and what its bytes decode to, are
  recursive over items and strings of any depth and length; that the printer's loops compute
  the same is an induction over data, and its `RECURSIVE` operators cannot be expanded.
* All liveness (`IsServed`, `PushReturns`, `BothCatchUp`, `EveryoneIsHeard`, `ChildFollows`,
  `WriteReturns`, `ChildIsReaped`, `EveryChildIsReaped`, `ClientIsAnswered`,
  `EverythingGoesOn`, `TimeoutsGoOff`, `InterruptIsHandled`), which needs `ENABLED`.
* `WifiConfig` with late replies or networks that were not `roomy`, where the code does
  configure another network; and what happens after an alarm has outlived its interrupt.

## 6. Not modelled

* **Most of the lines.** 269 files are counted, and more than a third of their lines is
  `sqlite3.h`, declarations and their documentation. Of cJSON.c the models have the
  trees, the parser's control, printing and strings; the conversion of numbers, `Minify`,
  `Compare` and the array constructors transform one caller's data and keep no state, and
  nothing here calls the last three. Of hostap, `common.c`,
  `os_unix.c`, `wpa_debug.c` and the headers are string, memory, clock and print helpers and
  frame layouts; the `poll`, `epoll` and `kqueue` backends of `eloop.c` are not compiled.
* **Straight-line programs.** The exercises on files, processes, signals, shared memory and
  message queue attributes, and the build examples, do one thing after another, or wait for
  ever after it. A model of one would repeat its statements.
* **Shared memory.** Writer and reader map the same region with no synchronisation; the
  code promises nothing that a property could state.
* **Data.** Formatting, time stamps, debug lines, the reading of `room.json` (its five
  ascending identifiers are taken as given, `SensorWindowAssumption`), the numbers in a message but for the
  temperature's average. `wpa.cpp:106-108` prints a command into `cmd[64]`, which a long psk
  or ssid does not fit; the texts of `WifiConfig` have no length.
* **Code nobody calls.** The merge sort of `os_gen.c`, the two queries of `fdb.c` and
  `fdb_destroy`, `list_display`.
