# TLA+ models of cpp-examples

This directory holds TLA+ models of the programs in this repository, the TLC
configurations that check them on small instances, and theorems about them with
proofs that TLAPS checks.

The repository is a collection of independent examples: containers, threads with
a socket, asynchronous input, parsers, a small data service, an extension module
generated by Cython. Each example is therefore a component with a module of its
own, and few of them interact. What they share is a way of going wrong: an
interleaving of threads, a destructor that waits, a file that outlives the process,
an index that wraps around, a call that fails between two others.

## The parts of the system

| Part | Source | State | Hard behaviour | Module |
|---|---|---|---|---|
| lock-free queue | `cjunk/practice/circularqueue.cc` | two counters, slots, two semaphores | threads interleave at every access; counters are reduced by compare-exchange and wrap around | `CircularQueue`, `CircularQueueSPSC` |
| generated fifo | `cjunk/ringBuffer.h` | head, tail, array | C remainder of a negative number; full against empty | `DeclareFifo` |
| C queue | `cjunk/practice/queue.h` | 16 bit indices, array, sizes | unsigned subtraction after a wrap-around; capacity and element size change | `Queue` |
| video stream | `cjunk/practice/networkframeStream.cpp` 28-132 | five flags, two buffers, two threads | unsynchronised flags, blocking read, destructor, lost peer | `VideoStream` |
| ffmpeg stream | same file, 308-486 | reader with two threads, writer with none | failed connections, spinning loops, teardown order | `FFmpegStream` |
| asynchronous stdin | `cjunk/practice/asyncStdin.cc` | queue, flag, task | check then act, uninitialised variable, order of destruction | `StandardInput` |
| asyncio | `cjunk/practice/asyncio.cc` | flag, task, terminal mode | a task that may be deferred, a read that blocks | `AsyncIo` |
| UDP server | `cjunk/practice/UDPServer2.cc` | socket, flag, thread | a destructor that joins a thread blocked in `recvfrom`; lost datagrams | `SocketThread` |
| sendFile | `cjunk/practice/sendFile.cc` | open descriptors and their owners | copies of an owner, every call may fail, numbers reused by the kernel | `SendFile` |
| particle filter | `cjunk/practice/geoParticleFilter.cc` | futures, particles | tasks that fail, futures used twice | `ParticleFilter` |
| chainable promise | `cjunk/practice/chainablePromise.cc` | functor and children | children are copied; what is chained to a copy | `ChainablePromise` |
| data service | `cjunk/practice/test_tornadoService.py` | a SQLite file, a script | crashes, restarts, several instances | `DataService` |
| JSON parser | `middleware/src/nonworking_json.cpp` | position in the text | end of the text, separators, escapes, numbers out of range | `JsonParser`, `JsonSerializer` |
| best gain | `cjunk/practice/financialAnalysis.cc` | loop variables | the invariant of the loop | `MaxProfit` |
| Cython functions | `cjunk/cython/simple.cpp` | references held, exception set | every call may fail, and each failure has its own cleanup | `CythonFrames` |
| Cython import | same file | static variables and a static type | failed imports that are retried, two names, two interpreters | `ModuleImport` |
| Cython caches | same file | sorted array of code objects; cached globals | bisection, growth, references; values kept without a reference | `CodeCache`, `DictCache` |
| Cython helpers | same file | none | widths of integers, binding of arguments | `CythonHelpers` |

`BoundedFifo` is the abstract specification of a first-in first-out queue that the
first two are shown to implement. `ClearingFifo` is that of a queue which starts
again empty when it would be full; it is what `queue.h` implements.

## How the modules are read

A module has the component's state as variables under the names of the source,
and one action for each step that another thread, process or the environment can
fall between. A name with a comment that begins "Slip" is not part of the
specification: it is a definition with a plausible mistake in it, kept to show
that some property notices that mistake.

Data is abstracted to what the properties distinguish: bytes of the video stream
and datagrams are counted, weights of particles are the number of updates behind
them, JSON texts are sequences of symbols, Python objects are the references to
them. `PROJECT.json` maps each definition to its lines.

### CircularQueue

Each thread has a program counter; `push` is `Push`, `AcquireFull`, `ClaimHead`,
`WriteSlot`, `ReleaseEmpty`, and `pop` goes on after `ReleaseFull` with a load and a
compare-exchange on each counter. A `try_push` that fails changes nothing and is a
stuttering step. `UIntMod` is the range of the unsigned counters, 2^32 in the code
and a small multiple of `N` in the runs, so that wrap-around happens.

`pop` ends with `m_sem_full.post()`. `std::counting_semaphore` has no such member,
so the line does not compile. `PostPermits` gives both readings: 0 drops the call, 1
takes it for a second release.

`CircularQueueSPSC` restricts this to one producer and one consumer and gives the
refinement mapping to `BoundedFifo`. `SinglePair` says so, and that `N` divides
`UIntMod`; it is assumed in the run and a hypothesis of the two theorems. That is
needed: with N = 10, as in `test_queue`, a counter that got to 2^32 would jump to
another slot. The compare-exchanges normally keep the counters small, but one that
loses its race leaves its counter as it is.

### DeclareFifo and Queue

One action each for `push` and `pop` of the generated fifo, whichever caller makes
them, since it has no synchronisation and is for one thread. `Rem` is the remainder
of C.

`Queue` has an action for each function of `queue.h` that changes the queue and an
operator for each that only answers. Indices are modulo `Width`, 2^16 in the code.
`enqueue` computes the space from the sum of the indices, which makes it at least 1:
it always stores, and the element that fills the array leaves `begin = end`, an
empty queue. The number of bytes to allocate is computed in 16 bits as well and
may wrap around; `allocated` is what `malloc` gave. A copy to or from a place
beyond it (the whole old array into a smaller one, or one element of a queue whose
array is too short) is undefined; the model then stops. The offset of an element is an
`int`, so a queue of 2^31 bytes or more is left out, and so is one of capacity 0, by
which every operation would divide.

`setCapacity` refuses a queue whose `end - begin`, in 16 bits, exceeds the new
capacity. A queue whose elements wrap around is refused only if that number is large
enough: once the old and the new capacity add up to more than 2^16 it may not be.
The elements then stay where they are, and the places that were added lie among
them. That is the action `Stretch` of `ClearingFifo`, which says when it may happen
and what the queue holds after it.

### VideoStream and FFmpegStream

The owner's thread, the two loops and the peer interleave. The flags are plain
bools that one thread writes while another reads them, which the language leaves
undefined; the models contain the outcomes a compiler produces. In a build that
reads the flags again at every turn they are merely seen late. In an optimised
build a turn that calls nothing may become a loop that never reads them again;
the variable `optimised` says which build it is.

In `VideoStream` the peer may be silent for ever, so a destructor that waits for a
thread blocked in `read` may wait for ever: no property says otherwise. `write`
while `write_loop` uses the same streambuf leaves any number of bytes in it. The owner
may call `stop` and keep the stream; a loop that then ends reports nothing, which is
why `CloseIsNoticed` leaves a stopped stream out.

### StandardInput, AsyncIo and SocketThread

Each has `main`, a task or thread, and an environment that types or sends, or does
not. In `StandardInput` the critical sections are single actions because nothing
waits inside them, and the uninitialised `c` is any value where `fread` stores
nothing. Once the end of the input has been read the characters main prints are no
longer recorded, since they are garbage without limit.

`std::async` in `asyncio.cc` has no policy, so `io` may be deferred to the call of
`wait`; then it finds `running` already false. `raw` and `normal` are declared
nowhere and stand for what changes the terminal's mode.

In `SocketThread` every datagram may be lost, the "hello" of the test included;
`socket`, `bind` and `recvfrom` may fail, which ends the process.

### SendFile

`main`, one step per constructor and destructor. `Release` is the `close` of a
destructor: of a descriptor that is not open it ends the process. The vectors take
copies of temporaries, so each file is closed as soon as it is stored.

### ParticleFilter

`run_pf` and one task per future. An update fails if an observation names a
landmark that is not in the map. An exception unwinds `run_pf`, whose futures wait
for their tasks, or ends the program at once, since nothing catches it and the
language allows both.

### ChainablePromise

A promise is a value, its functor and its children; `then` stores one copy of the
child and returns another. `values` numbers the values there have been: a copy of a
promise is the same number, and `then` gives the variable it is called on a new one. A
call is the recursive function `Run`. The history `log` records which variable got what,
and `Attached` and `Paths` say from it alone, without the promises, what a call has to
run.

### DataService

Each instance runs the script of `instance()`. A client call passes through four
layers unchanged and is one or two transactions; SQLite (external) serialises
transactions and undoes an unfinished one. Instances crash at any point and start
again on the same file. That a statement times out on a locked file is not
modelled.

### JsonParser

The parse functions are operators from a text and a position to a position and a
value; position 0 is an exception. `IsJson` is an independent definition of the
language, by how a text splits into parts. The state machine only enumerates
texts. A literal is one symbol and the value of a double is dropped. Which texts of
numbers `stoll` and `stod` refuse because they are out of range is the constant
`OutOfRange`, and such texts count as no numbers.

`IsJson(s, TRUE)` is JSON in full. The parser differs from it in five ways, and
`AcceptsJson` names each. It refuses two kinds of JSON: a string with an escape `\uXXXX`
(`UsesUnicode`; the source has a TODO there) and a number without an exponent at the
very end of the text (`EndsInNumber`). It accepts three things that are not JSON: numbers
with leading zeros or empty runs of digits, control characters in strings as they are,
and the vertical tab and the form feed, which `std::isspace` takes for blanks.
`IsJson(s, FALSE)` is JSON with these three and without `\uXXXX`. In the alphabet "newline"
stands for the line breaks and the tab, which are blanks of JSON and control characters at
once, "vtab" for the two blanks that are none of JSON's, and "control" for every other control
character. Bytes beyond ASCII have no symbol: for `std::isspace` they depend on
the locale, and JSON has them only in strings.

The parse functions call one another. `Parser(s)` is one recursive function from the
place where an array's or an object's items begin to what the loop reads from there,
and every other function takes it as an argument; `Grammar(s)` is built in the same way.
`JsonSerializer` has `serialize_json`, which recurses over values.

### MaxProfit

The loop, one action per turn. Prices are not negative, so no difference of two
exceeds the largest int.

### The generated module

`simple.cpp` is almost half of the repository's lines. It is modelled for CPython 3.6 and
3.7, multi-phase initialisation and versioned dictionaries, in five modules that
share no state.

- `CythonFrames`: a C function is a sequence of instructions on its local variables:
  take and give up references, call something that may fail, branch on what the
  caller passed, go to a label. Every path is executed. A call of another function of
  the file keeps the contract the module checks for that function.
- `CodeCache`: `__Pyx_AddTraceback`, with the bisection as steps, the array that grows,
  and the count of references of each code object. Any allocation may fail.
- `DictCache`: a lookup of a global name, against dictionaries that are changed and
  replaced between lookups. A lookup in the dictionary may fail, since comparing keys
  may raise. The cache is filled before the error is looked at, so a failed lookup is
  remembered as a name that is not there: until the dictionary changes, the next lookups
  go to the builtins. `failed` records where this may be.
- `ModuleImport`: `create` and the steps of `exec`, each of which may fail, and what
  importlib does around them: it finds that a name is missing, calls `create`, enters the
  module into `sys.modules` and calls `exec`. These are separate actions, since importlib is
  Python code and threads change between them; they also change while `exec` prints. Within
  an interpreter importlib imports one name once at a time. So two imports may both be past
  `create` with a module each, of which the second to get to `exec` is refused. A failed import
  is retried under either name. That threads may also change while `exec` warns of another
  version is left out.
- `CythonHelpers`: the conversions of Python ints, the binding of arguments, the
  matching of exceptions and the comparison of versions as operators, each with a
  definition of what it should give. The widths of the types are constants; the run
  has them scaled down, in several builds that keep the order of the real ones.

## What the runs check

| Run | Instance | Shows |
|---|---|---|
| `cq_spsc` | 1 producer, 1 consumer, 4 slots, counters modulo 8 | refinement of `BoundedFifo`, no racing access, a waiting push returns |
| `cq_mpmc` | 2 + 2 threads, 2 slots, counters modulo 4 | permits are conserved, the capacity is respected |
| `cq_mpsc_race` | 2 producers, 1 consumer, 2 slots | the race on a slot that the semaphores do not prevent once there are two producers; two consumers race with a producer in the same way |
| `cq_post` | 2 threads, `PostPermits` = 1 | the queue overfills |
| `sequential` | an array of 4 and two values; capacities 1, 2, 3, 5 and 7 in 3 bits; up to 4 prices of 4 values; up to 4 promises | the fifo implements `BoundedFifo` with capacity 3; `queue.h` implements `ClearingFifo` and answers accordingly; the result of `maxProfit`; a promise runs what was attached to it |
| `streams` | buffers of 2 bytes, 2 bytes in flight; the whole ffmpeg stream | threads joined before the members go, when a destructor aborts and when it returns, sockets closed, when a close is noticed |
| `tasks` | 3 particles, up to 2 iterations; up to 3 bytes of 3 kinds; up to 3 datagrams; 2 files | no racing updates and current weights; no byte lost, one late read; the thread's socket outlives it; the terminal is put back; nothing is ever sent; which waits end |
| `particle_filter_updates` | 2 particles, up to 2 iterations | the second iteration throws |
| `data_service` | 2 instances, 3 starts | which row can be missing, which start serves, ids not reused |
| `json` | all texts of up to 5 or 6 symbols after each seed | which JSON is refused and what is accepted beyond it; writes what it can read |
| `json_toplevel` | texts of 5 symbols | a plain number is refused |
| `cython` | every function; 4 lines, growth by 2; 2 dictionaries; 2 interpreters, 2 names, 3 module objects; bounded arguments | references balance and failures are exceptions on every path; the cache stays sorted and exact; lookups that do not follow a failed one are current; what failed and aliased imports leave behind; the helpers compute what they should |

`MCSequential`, `MCStreams`, `MCTasks` and `MCCython` hold several components each.
These share no state, so a behaviour is one of a single component, chosen in the
initial state: the components are checked together without multiplying their
states.

Four runs are expected to end in a violation: there the code does something other
than a comment or a test of the repository says. `PROJECT.json` quotes the line in
each case. One more such comment has no run: `inputCharTask` is to read stdin "non
blocking" (`asyncStdin.cc:26`), but `DestructorReturns` of `StandardInput` needs its
condition that a byte or the end of the input is there, since the destructor waits
for a task that may be blocked in `fread`.

Some passing properties state what the code does and its author can hardly have
meant: `NothingIsSent` (every descriptor is closed before it is used),
`ImplementsClearingFifo` (the element that fills the queue empties it),
`RunsWhatWasAttached` (what is chained to the result of `then` does not run),
`LateFailureIsFinal` (an import that failed late never succeeds again). No text of
the repository says otherwise, so they are not findings.

### Bounds

- The lock-free queue has twice as many counter values as slots, so each counter
  wraps around while the queue is anything from empty to full. More items than two
  add nothing: order is visible with two.
- `queue.h` has capacities on both sides of half of `Width`, so both the wrap-around of
  the ring and that of the unsigned subtraction happen, and a queue that wraps around is
  given a larger capacity both where that is refused (3 to 5) and where it is let through (5
  to 7). With element sizes up to 3 the number of bytes wraps around both to less and to no
  less than the old array has.
- Two bytes per buffer give empty, partly filled and full, and two bytes in flight
  let a read fill a buffer in one step or in two.
- Three bytes of input allow one printed, one queued and one in the task's hands;
  three datagrams one before, one during and one after the destructor began.
- Three starts are a complete run, a run that crashed anywhere, and one after
  both; two instances give every interleaving of two scripts.
- Two iterations of the particle filter are the first and one that finds the
  futures of another before it.
- Four promises give a chain of three below a variable, and copies made before and
  after a child got its own children.
- Six symbols after `{"":null` reach a second member of an object. Five after `"\u0` reach a
  whole `\uXXXX` with the closing quote and an escape that is a digit short.
- Growth by 2 with 4 code objects is a first allocation, a second one, and an
  insertion at the front, in the middle and at the end of a full array.
- Three module objects are a failed import, a retry, and one that interrupts it.

### Fairness

- `CircularQueue`: a thread that can take its next step takes it, and consumers
  keep calling `pop`. Nobody has to push.
- `VideoStream`, `FFmpegStream`, `StandardInput`, `AsyncIo`, `SocketThread`,
  `ParticleFilter`: the operating system runs each thread that can run, and a
  destructor that began goes on. The peer, the network and the user owe the program
  nothing, and no call has to fail.
- The other modules have safety properties only.

## What is proved

| Theorem | Module | Statement |
|---|---|---|
| `TypeCorrect` | `CircularQueueProofs` | `TypeOK` holds for any threads, items and `N` |
| `PermitsTheorem`, `CapacityTheorem`, `NobodyStuckTheorem` | `CircularQueueProofs` | permits are conserved, at most `N` items are queued, and the threads never all wait while a push does, if `post` adds no permit |
| `NoSlotRaceTheorem`, `SPSCRefines` | `CircularQueueProofs` | with one producer and one consumer no slot is stored to and loaded from at once, and the queue implements `BoundedFifo` of capacity `N` |
| `TypeCorrect`, `Refinement` | `SequentialProofs` | head and tail index the array; the fifo implements `BoundedFifo` of capacity `N - 1` |
| `Invariance`, `QueueRefines`, `AnswersTheorem` | `SequentialProofs` | the indices stay inside the array; until a copy leaves what was allocated `queue.h` implements `ClearingFifo` and its answers agree with what it holds |
| `LoopTheorem`, `ReturnsBestTheorem` | `SequentialProofs` | the loop's invariant; the result is the best gain |
| `OnlyRow1IsMissing`, `SpoiledNeverServes`, `IdsTheorem` | `StoreProofs` | the three properties of the run, for any number of instances and starts |
| `TornDownTheorem`, `AbortsTheorem` | `LifecycleProofs` | both streams are taken down in order, and only a constructor that gave up makes a destructor abort, for any buffer sizes and any traffic |
| `NothingLostTheorem`, `OneLateReadTheorem` | `TasksProofs` | every byte of stdin is printed or queued once and in order; one late read at most; for any bytes and any number of them |
| `SocketTheorem` | `TasksProofs` | the UDP thread uses its socket only while it is open, for any number of datagrams |
| `ModeTheorem` | `TasksProofs` | `asyncio` completes only with the terminal in its normal mode: the safety half of `MainCompletes` |
| `NothingIsSentTheorem` | `TasksProofs` | `sendFile` exits before it sends, for any number of files |
| `TasksApartTheorem`, `WeightsTheorem`, `OneIterationTheorem` | `TasksProofs` | updates never race, weights are current, and a second iteration is never completed, for any number of particles and iterations |
| `CacheStaysSorted`, `BisectionIsRight`, `ReferencesAreExact` | `StoreProofs` | the cache of code objects, for any lines and growth |
| `LookupsAreCurrent` | `StoreProofs` | a lookup gives what the dictionary holds, or skips it after a failed one, for any dictionaries and versions |
| `ImportTheorem`, `LateFailureTheorem`, `OneInterpreterTheorem` | `LifecycleProofs` | the three properties of the import, for any interpreters and any number of imports |
| `HelpersTheorem` | `HelperProofs` | the helpers give the right answers, for any widths, ints of any length, any hierarchy of classes |
| `PromiseTheorem` | `PromiseProofs` | a call of a promise runs what was attached to that variable and nothing else, each functor after its parent and with its result, for any number of promises and calls of `then` |
| `JsonTheorem` | `JsonProofs` | `AcceptsJson`: all of JSON but for `\uXXXX` and a number at the very end is accepted, and beyond it only the three things above, for texts of any length and depth |

The assumptions are the named `ASSUME`s of the modules: finitely many threads, at
least one slot, a counter range larger than `N`; for `Queue` capacities from 1 on
that the integers hold, of fewer than 2^31 bytes (as `2 * c * s < Width * Width`); prices between 0 and the largest int; for the input, that
the end is told apart from every byte, as `eof()` does; for the import, that 0, which
stands for the -1 of "no interpreter yet", is the id of none; for the helpers, that a
digit of a Python int has fewer bits than `int` and `Py_ssize_t`, and `long` no fewer than
`int`; for the parser, that the end of the text is no symbol. The bounds of the runs
(`MaxPromises`, `MaxStarts`, `MaxCodes`, `MaxVersion`, `MaxTyped`, `MaxDatagrams`, `MaxDigits`, `MaxClass`,
the growth of a family of texts) are constants of the
theorems like any others, so these hold whatever the bound.

The theorems about the streams and about the tasks are about the compositions `MCStreams`
and `MCTasks`, whose properties the runs check: the invariant has one part for each program, under the
condition that the behaviour is one of that program.

The arguments:

- *Permits.* A step either moves a thread into or out of the set `Holders` and
  changes one semaphore by one, or touches neither. Finiteness of the set of
  threads gives the cardinality of `Holders` after each step.
- *Nobody stuck.* If neither semaphore has a permit then all `N` are with threads that
  are past their acquire, where nothing waits. If `m_sem_empty` has one, a consumer is
  either in `pop` already or can enter it.
- *No race on a slot.* `NoSlotRace` is not inductive: it needs to know which slots
  the counters point to. `Aligned` says that `m_head - m_tail` equals the number of
  claimed slots modulo `N`, and that a thread in a slot is one behind its counter.
  The compare-exchanges and the wrap-around change a counter by a multiple of `N`,
  so they preserve it. If producer and consumer shared a slot, the number of slots
  between them would be a multiple of `N`; permits being conserved, it lies
  strictly between 0 and `N`.
- *Lock-free queue as a fifo.* By `Aligned` the slot the producer stores to is the one
  behind the last stored item, and by the permits there are fewer than `N` of these,
  so it is none of theirs: the store appends. The load takes the first and moves
  `FirstSlot` on by one. Every other step leaves the mapped sequence as it is, the
  compare-exchange on the tail because it keeps the remainder.
- *Generated fifo.* With `TypeOK`, `size` is `head - tail` or that plus `N`. Each push
  then appends to, and each pop removes the first of, the sequence the mapping reads
  off the array, and a refused call is a stuttering step.
- *C queue.* `QueueInv` says that the indices lie inside the array and `isFull` is
  never set; it is needed because the space `enqueue` computes is only known to be
  positive for such indices. A capacity that passes the test of the size and whose
  bytes do not overrun is no smaller than the old one. A queue in one piece then simply
  grows. One that wraps around has `end - begin` plus `Width` for its size, which is above
  `Width` minus the old capacity: the test lets it through only if the two capacities exceed
  `Width`, and what it then holds is computed piece by piece (`SetCapacityStretches`).
- *Best gain.* The invariant says that `min_price` is the least price so far and
  `max_profit` the best gain so far. A turn of the loop adds pairs that end at the
  new day, of which the one that starts at the least price is the best.
- *Streams.* `VideoInv` and `FFmpegInv` say where the owner can be while each loop still
  runs: a loop exists only if the constructor connected, and the destructor's place
  behind a join implies that this loop has ended. They say nothing of the flags while the
  loops run, which is why the result does not depend on how late a build sees a flag.
- *Standard input.* `InputInv` says that what was printed, what is queued and the byte the
  task holds make up what was read, once the bytes that count as "no character" are
  dropped. `Visible` does the dropping, a recursive function on sequences; that it
  distributes over appending is proved from its defining equation, whose solution exists
  and is unique because there is no least index at which two candidates differ.
- *UDP, asyncio, sendFile.* `UdpInv`, `AsyncInv` and `SendInv` tie the place of `main` to
  that of the thread or task: the socket is closed only behind the join, the mode is
  changed only by the task and put back before it ends, and the first `FileDescriptor` is
  made for a file that the temporary `File` has closed.
- *Particle filter.* `FuturesInv` says which futures exist and which of them `get` has
  emptied: one per particle and pass over the particles begun, those of the first pass
  before those of the second. `UpdatesInv` counts the updates of each particle from the
  tasks that are done. Since `futures` is never cleared, the first `get` of a second
  collection finds an empty future and throws.
- *Data service.* `ServiceInv` adds that all ids up to `sequence` but 1 have a row,
  that an instance past its third line has seen three ids given out, that row 1
  stays gone once it is, and that an instance which started after that is not past
  line 4. So a read that finds nothing was of row 1, and a spoiled start never gets
  to `serve`.
- *Code objects.* `LoopInv` says what the bisection has narrowed the line down to:
  everything before `start` is smaller, `end` is not, and when they meet `mid` is that
  entry or the one before. `CallInv` says that only a line that is not cached is
  inserted, which keeps the array strictly sorted.
- *Global names.* A version names one state of one dictionary, and the cached value is
  the value in the dictionary that has the cached version, if one still has it, or
  nothing, if that version is the one at which a lookup last failed.
- *Import.* `exec` is a list of 23 steps, and `ImportInv` says for each static variable
  which values it has at which step: `StaticsInv` for `__pyx_m` and `__pyx_d`, `TypeInv` for
  the entries of the type that `__Pyx_setup_reduce` moves and the history of failures,
  `EntriesInv` for `sys.modules`, `HomeInv` that only the first interpreter has entries or
  modules to execute. Other imports get to `exec` only where threads change: when no `exec`
  runs, or while one prints. By `StaticsInv` `__pyx_m` is set while it prints, so the other call
  returns at once, if it is for the same module, or is refused, if its `create` was earlier;
  no second one begins. While `exec` warns of another version `__pyx_m` is not set yet, and
  nothing is said of what may happen there.
- *Helpers.* Digits of `shift` bits each make a number below 2^(`shift` * count), so the
  unrolled cases, which a build takes only where that many bits fit, never leave the C
  type; the general case is CPython's own conversion and a check of the result. Powers of
  two, the number the digits make and the ancestors of a class are recursive functions:
  each is shown to exist and to satisfy its equation by induction, and the induction is one
  over a set of numbers, since the prover has none over predicates. That a class is found
  among the bases if and only if it is an ancestor follows by induction over its number.
- *Promises.* A value's children have smaller numbers, so the recursion of `Run` ends and
  has one solution; likewise `Attached`, whose entries refer to earlier calls of `then`.
  `Holds` says of every variable that the paths a call of its value takes are those the
  history gives. One more value leaves the paths from the others as they are, and one more
  entry of the history leaves what the earlier ones attached; `then` adds the same paths
  on both sides to the variable it is called on, and to no other, which is where it
  matters that a copy is not changed later.
- *JSON.* Both `Parser` and `Grammar` are shown to satisfy their equations (what they say
  at a place depends only on places further on, or on shorter parts). Each parse function
  then has two lemmas. *Sound*: where it returns, what lies between is of the grammar, for
  arrays and objects by induction over the distance to the end of the text. *Complete*: if
  a part of the text is of the grammar and what follows it cannot belong to it, it is read
  to its end exactly; by induction over the length of the part. The first kind are about the
  looser grammar, the second about JSON in full, where no string has a `\uXXXX`: then its
  strings and blanks are among those of the looser one. What may follow is the heart of
  it: a number has to be followed by something other than a digit, a point or an exponent,
  which a comma, a bracket or a blank is, and the end of the text is not, because
  `parse_number` peeks there.

Only model-checked:

- Liveness (`PushReturns`, the destructors, `CloseIsNoticed`, `FilterEnds`,
  `DatagramReleasesDestructor`, `MainCompletes`), which the prover does not support.
- `RoundTrip`: `serialize_json` recurses over nested values. The prover cannot use recursive
  operators, and there is no set of all nested values for a recursive function to be
  defined on.
- `RefsBalanced` and `FailsIffException`: `CythonFrames` has no constants, so the run goes
  through every path of every function and a theorem would add nothing.

## Not modelled

What is left has no behaviour that a model could explore faithfully.

- *Does not compile, and what is missing decides what it does*: the three websocket
  servers (how long a session lives is in declarations that are not there),
  `actorReturningVoid.cc`, `functional.cc`, `antColonyOptimization.cc`, `fromsimd.cpp`,
  the EGL test, `uartfifo.c` (a fragment that starts inside a function),
  `UDPSocketServer.cc` (uses a member that is not declared). `X264FrameDecoder` is
  compiled only with `USE_X264` and passes a null pointer in its first call.
- *Floating-point numerics*: Kalman filters, perceptron, neural network, motor control,
  FFT, and in `geoParticleFilter.cc` the noise, `normalize` and `resample`.
- *One call, or a straight line of calls into a library*: software radio, Poco example,
  serial dump, `quicServer.cpp`, stream buffers that convert a character at a time, the
  RAII example, `container_source`, `SmallString` and the JSON nodes, whose values have
  no state beyond a call.
- *Not called*: `runAsync` of the promise; `kbhit`, `getche` and `getline` of
  `asyncio.cc`; `Client` of `sendFile.cc` and everything behind its `sendmsg`, which is
  shown not to be reached.
- *In `simple.cpp`*: the tables of strings, types and methods, which are data, and the
  branches of macros for other versions of the interpreter.
- *Tests, benchmarks, build tooling, stubs*: read for what they say of the code.

Two behaviours of modelled code are left open. Which bytes `VideoStream` sends when
`write` fills the buffer that is being sent from: bytes are counted there, not named.
And whether an index of `resample` runs past the end of the weights when their sum
rounds below 1.
