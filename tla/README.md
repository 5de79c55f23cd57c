# stutils in TLA+

A verification development for the C library in this repository: TLA+ modules
translated from its code, configurations that check them with TLC on small
instances, and proofs, checked by TLAPS, of what matters most for every
instance. Paths below are relative to the repository, as in `src/src/st_dict.c`.

**Where to start.** `BlockCache.tla` is the core: a reference-counted cache of
blocks that several threads share. Its abstract specification is
`BlockAlloc.tla`, the invariant that carries the proofs is in
`BlockCacheInv.tla`, the proofs are in `BlockCacheProofs.tla`.

## 1. Inventory: the parts of the library

The library is a set of small parts, each a `.c` and a `.h`. Most keep their
state in an object that the caller creates and passes to every call, and are not
locked: *the caller* serialises the calls. Three are different: the block cache
and the semaphore carry a mutex of their own, and the memory statistics and the
log carry one for the whole process. Calls go downwards only: everything
allocates through `st_mem.c`; the alphabet is built on the dictionary, the
options on the configuration; heap, dictionary and alphabet call back into the
program.

| part (`src/src/`) | state | operations | what is hard | what makes it correct |
|---|---|---|---|---|
| block cache `st_block_cache.c` | table of pools, reference counts, list of free ids, mutex | create, destroy, clear, size, capacity, fetch, return, read | threads; growth whose four allocations fail one by one; unlocked readers; ids returned twice | a count is the number of holders; the free list is what nobody holds; blocks in use do not move or overlap; the mutex is given back on every path |
| semaphore `st_semaphore.c` | value, mutex, condition, `inited` | init, destroy, wait, post, getvalue | lost, stolen and spurious wake-ups; an init that fails half way | no wake-up is lost; it counts; every wait ends once there are posts enough |
| memory statistics `st_mem.c` | size in use, peak, allocations and frees, mutex | malloc, calloc, realloc, free, their aligned forms, usage on and off | update after the fact under concurrency; failed and null reallocations | the statistics are those of the blocks there are |
| aligned memory `st_mem.c` | a header of three words before each block | malloc, calloc, realloc, free, size, alignment | a `realloc` that answers a less aligned address: the contents must be moved over a header | what was written is there, at an aligned address |
| block pool `st_block_pool.c` | next fresh index, list of freed ones | create, destroy, alloc, free, get, clear | double frees, the list at its limit | an index handed out is nobody else's |
| queue `st_queue.c` | ring, start, end | create, enqueue, dequeue, empty, size, clear | indices that are unsigned and start at -1 | it is a bounded FIFO; its size is right |
| stack `st_stack.c` | array, top | create, push, pop, top, topn, size, empty, clear | a depth of zero in unsigned arithmetic | it is a bounded LIFO |
| heap `st_heap.c` | array, size, the caller's back-pointers | create, insert, extract, fix up, fix down, clear | the back-pointers through every move; stale ones after a clear | an extract gives a least object; back-pointers are exact |
| dictionary `st_dict.c` | table of buckets, pool of chained nodes, list of buckets to clear | create, add, seek, update, traverse, clear, dup, save, load | chains left behind a clear; a callback that refuses in the middle; a failed growth; what a load resets | it is a finite map, and its count, traversal and list agree with it |
| alphabet `st_alphabet.c` | labels, index in both directions | create, add, get label, get index, dup, save, load (text, binary) | colliding signatures; labels too long for the table; the reload of the text form | label and index are inverse to each other, also after a reload |
| configuration `st_conf.c` | sections and parameters in growing arrays | load, get with and without default, merge, sort, check unused, destroy | pointers into arrays that move; files that load files | lookup finds the last value set, else the default |
| options `st_opt.c` | registry of options, two configurations: command line and file | register, parse, get, check, usage, print | precedence of file and command line, for seven types | the program runs with what the command line, else the file, else the default says |
| log `st_log.c` | two streams, level, mutex of the process | open, write, close | a line is several writes; five places that lock or unlock | lines of several threads stay whole |
| integer arrays `st_int.c`, `st_utils.c` | none (segments: an array) | parse, insert, search, union of segments | boundaries of touching, nested and wrapping segments | the union covers the same integers, disjointly; what is parsed is what was written |
| variable-length integers `st_varint.c` | none | encode, decode, to buffer and stream | the end of the buffer | decode inverts encode |
| bits `st_bit.c` | none | set, get | units that do not divide a byte | a set changes one value and no other |
| streams and children `st_io.c`, `st_popen.c` | unlocked list of children | fopen, fclose, count lines, popen, pclose | a child that inherits another's pipe | a close waits for its own child, and comes back |
| lines `st_io.c` | the buffer of the caller | fgets | a buffer that fills and is doubled | each line once and whole |
| network `st_net.c` | the budget of time of the caller | connect, listen, read, write | the budget over several reads; the late last byte | an answer says what is in the buffer |
| strings, random numbers, hashing, macros | none | pure functions | none for a model checker | tests |

## 2. The modules, and how they stand to the code

| part | abstract | detailed | instances and properties for TLC | proofs |
|---|---|---|---|---|
| block cache | `BlockAlloc` | `BlockCache`; `BlockCacheSize` adds the unlocked reader; `BlockCacheInv` the invariant | `MCBlockCache`, `MCBlockCacheSize` | `BlockCacheProofs` |
| semaphore | `CountingSemaphore` | `Semaphore`; `SemLifecycle` for init and destroy | `MCSemaphore`, `MCObjects` | `SemaphoreProofs`, `ObjectsProofs` |
| memory | (properties over the blocks) | `MemUsage` the statistics, `AlignedMem` the blocks | `MCServices` | `ServicesProofs`, over `Remainders` |
| block pool | `BlockAlloc` again | `BlockPool` | `MCObjects` | `ObjectsProofs` |
| queue | `BoundedFifo` | `Queue` | `MCObjects` | `ObjectsProofs`, over `Remainders` |
| stack | `BoundedLifo` | `Stack` | `MCObjects` | `ObjectsProofs`, over `Remainders` |
| heap | `PriorityQueue` | `Heap` | `MCObjects` | `HeapProofs` |
| dictionary | `Dictionary` | `Dict` | `MCDict` | `DictProofs` |
| configuration | `Configuration` | `Conf` the functions, `ConfLoader` the loader over them | `MCConf` | `ConfProofs` |
| options | (the texts that were given) | `Opt`, built of the functions of `Conf` | `MCConf` | `ConfProofs` |
| alphabet | (the labels that were given) | `Alphabet` | `MCServices` | `ServicesProofs` |
| segments, sorted arrays | (the integers covered) | `Segments` | `MCServices` | `ServicesProofs`, over `Remainders` |
| parsers of integers | (the text that was read) | `IntParser` | `MCServices` | |
| bits, varint | (the values that were set) | `Bits`, `Varint` | `MCServices` | |
| streams, lines | (the children; the file) | `Streams`, `LineReader` | `MCServices` | `ServicesProofs` |
| network | (the bytes of the connection) | `Net` | `MCServices` | `ServicesProofs` |
| log | (the pieces of each line) | `Log` | `MCServices` | `ServicesProofs` |

Conventions throughout. A C function is an action or an operator of the same
name where TLA+ allows it, an early return is a disjunct, and the guards are the
code's. A function of a part that nobody shares is one step; one that runs
under a mutex, or whose loop has an invariant worth stating, is one step per
lock, allocation or iteration. Assumptions on constants are named, in the module
that declares them. Definitions whose names extend that of another
(`RefusedPastEnd` beside `Refused`) are mutated forms of it: a plausible slip of the
same code, which the listed property must catch. They are used nowhere else.
Modules that a run puts side by side and that are proved about carry their part in
their names (`HeapInit`, `StackNext`, `g_lock`, `linePtr`), so that `MCObjects`, `MCConf` and
`MCServices` can extend them and TLC checks the very definitions the theorems state.

* **Block cache.** `data`, `refCounts` and `freeBlocks` are functions on the
  indices that are allocated, so a reallocation changes a domain and a failed
  one leaves the function with no domain at all: in the C code it is
  `p = realloc(p, n)`. Outside the domain is memory that is not the program's,
  and touching it is `Fault`, which ends the process. Every `malloc` and
  `realloc` of the growth (`st_bcache_get_free_block`) is a step of its own.
  Memory the code has allocated but not written is any value (`GrowRefs`). The
  callers are *handles*: variables that hold one reference each. Their
  discipline is explicit: `Pinning` (a handle whose id is being shared is not
  given back before that fetch ends; nothing in the code could protect a caller
  from that) and `DoubleReturn` (whether someone returns ids nobody holds).
* **Unlocked size.** `BlockCacheSize` adds a thread in `st_block_cache_size`,
  which reads two fields without the mutex. The two reads are steps and come in
  either order, as C leaves it, with any steps of fetches, returns and a growth
  between them. Two history variables keep how many blocks were in use and how
  many pools there were during the call.
* **Semaphore.** One step per pthread call. `pthread_cond_wait` releases and
  blocks in one step; a signal wakes any one waiter, which takes the mutex
  again in competition with newcomers; a waiter may wake without a signal.
  `SemLifecycle` lets the two pthread inits fail, over memory that the caller
  has cleared or not.
* **Memory statistics.** What a call does with the C library comes first, the
  statistics after it, read and written in two steps under the mutex.
  Two calls miscount, and the code is modelled as it is: a failed
  `st_aligned_realloc` counts the size asked for, and one of a null pointer is
  counted by the allocation it calls and again by itself. The history variables
  `drift` and `exact` say by how much, and whether at all.
  The collection is switched on and off only while the program has no block.
* **Aligned memory.** Words of an address range whose start is what `malloc` or
  `realloc` answers, of any alignment; the three fields of the header are words too,
  so that an overlap destroys them.
* **Queue and stack.** Unsigned arithmetic modulo `Word` and `StackWord`.
* **Heap.** The loops of `st_heap_fixup` and `st_heap_fixdown` are one step an
  iteration, so that what holds in the middle of a repair can be said. The
  caller's change of a key, with the repair from the back-pointer it reads, is
  modelled (`Rekey`); after a clear that back-pointer may be stale.
* **Dictionary.** A key stands for its two signatures; what distinguishes keys is
  the bucket they hash to and whether one of the signatures is zero. A pool
  lost by a failed `realloc` is made of `Lost` nodes, to read one is a fault. A
  clear stops at any callback that refuses. A load leaves the dictionary with
  the simple hash function and without a list of buckets to clear.
* **Configuration.** The functions of `st_conf.c` are operators from a
  configuration to the next one, with what the allocations answer as an argument.
  An array that `realloc` moves gets a new generation, and a pointer is a
  generation with an index: the loader's pointers to sections go stale that
  way, and the new parameter that fills its array is written to the old one.
  `ConfLoader` runs the loader over them one line a step, with a stack of open files,
  and the getters between loads. A text is what the getters can tell apart: a
  number, `true`, `false`, a word, empty.
* **Options.** `Opt` keeps two configurations of `Conf`, as the program does, reads
  the arguments one a step and asks the file's first, the command line's after. `atoi`,
  `sscanf` and the widths of the types are modelled (`IntWord`, `LongWord`). An argument
  without a value is an error unless all of it is `help`, in any case (`AsksHelp`). What the module
  claims of them (`CommandLineWins`, `ArgumentsLeft`) is said of the arguments and the file alone:
  `LastText` finds the last setting of an option, `Means` says what a getter's type makes of it.
* **Alphabet.** A label is a value; the program's signature of it, the part of
  it that fits the table and what reads back from its line are three functions. The
  dictionary beneath it is the set of its nodes with the equality in use, since `Dict` has
  been checked to be a map. An empty alphabet is loaded too: its dictionary has one bucket, and
  `st_malloc(0)` is taken to answer an address.
* **Segments, parsers.** A step hands one segment to the union: a call with several does what
  as many calls with one do, up to the first that is refused. The searching loops of the C code
  become "the first that" (`FirstOf`), and a segment that reaches over the end of the ring
  is a second insertion from 0 on. The parsers take one character a step and
  keep the locals of the code.
* **Bits, varint.** Shifts and masks as arithmetic of powers of two; the byte has 5
  bits and a group 2 for TLC, so that units cross bytes in every way.
* **Streams.** A child that is forked holds the parent's ends of all pipes that it has not closed:
  those of the list it closes. A command that reads its input ends when
  nobody else holds its pipe, which is the guard of `st_pclose`.
* **Lines.** One character a step, with the pointer and the counted-down room of
  the code.
* **Network.** What a system call answers and how long it takes is chosen. A `read`
  that fails is treated by the code as one of 2^64 - 1 bytes, and the model follows.
* **Log.** A line is one step for each piece that is written apart; the lock is taken and
  given back where `g_mt` says so at that moment. Open and close take no lock.

## 3. The runs

Passing runs fire every disjunct of their next-state relations between them.

| run | instance | states | question |
|---|---|---|---|
| `cache` | 2 threads, 3 handles, pools of 2, at most 4 blocks, each allocation may fail | 852,000 | Are counts, free list and memory those of the handles at every step of every interleaving; does the cache implement `BlockAlloc`; is memory touched outside the tables only after a failed allocation; is the mutex always given back; is `IInv` an invariant? |
| `cache_size` | 1 thread, 3 handles, pools of 2, at most 4 blocks, double returns, a thread in `size` | 2,240,000 | Is every double return refused without effect; is the size a number of blocks in use during the call, off only by the pools a growth added meanwhile? |
| `semaphore` | 3 waiters, 2 posters, 2 calls each, value 2, a spurious wake-up | 63,600 | Is a wake-up lost; does it count; does every wait end? |
| `objects` | queue of 4 (a ring of 5), stack of 3, pool of 3, `Word` 16; heap of 4 slots, 5 objects of which one has no back-pointer, 2 keys; one semaphore | 313,000 | Are ring, array, heap and pool what they promise; are the back-pointers exact in mid-repair; is nothing destroyed that is not live? |
| `dict` | 3 keys in 2 buckets, 2 values, pool growing by 1 to 4 nodes | 29,000 | Is it a map with an exact count, traversal and list to clear, across clears, saves and loads? |
| `dict_failing` | as `dict` with 1 value; reallocations fail, callbacks refuse | 27,600 | What still holds when things fail? |
| `conf` | loader: 3 lines of 2 texts, 3 sections, files that load files (depth 2), arrays that grow by 1 section and 2 parameters, failing allocations. Options: 3 arguments, 2 lines of a file, 2 gets of 3 types, `int` of 2 bits and `long` of 4 | 286,000 | Is the configuration a map from options to texts; is every array written within its room; does the command line win; is what is printed what the program runs with? |
| `services` | 12 parts, below | 1,180,000 | Does each keep what it was given? |

The parts of `services`: alphabets of up to 2 labels out of 8, with equal, empty and truncated
signatures and 6 text files; unions of segments of every length in a ring of 6, with room for 2 (`Word` 8); texts of 6
characters; 4 bytes of 5 bits in units of 3, 4, 5, 6 and 9; two integers of 5 bits in groups of
2 and buffers of 0 to 3 bytes; alignments 1 to 8 at three addresses; 2 streams and 3 children; files of up to
9 characters read with a buffer that grows from 1, 2, 3 or 4; reads of up to 3 bytes under a
budget of 5 with calls that take 0, 2 or 3; 2 threads that log at levels of every kind while the log is
opened and closed; and the statistics with 2 threads, 2 blocks, `Word` 16, drift up to 4.

The other four show a disagreement of the code with a sentence of the repository:

| run | what TLC finds | the sentence |
|---|---|---|
| `cache_nullread` | after a failed growth of the pool table, `st_block_cache_read` of a block in use dereferences NULL | `src/src/st_block_cache.h:142` "@return pointer to the fetched block, NULL if any error." |
| `dict_halfzero` | a key with one zero signature is accepted, and trips an assertion once it is chained | `src/src/st_dict.c:540`, the assertion |
| `dict_refusedclear` | a clear whose callback refuses leaves its list as it was; the next clear trips an assertion | `src/src/st_dict.c:573`, the assertion |
| `conf_lastparam` | a parameter that fills its array while `realloc` moves it is written to the old one, and is not found though the call succeeded | `src/src/tests/st-conf-test.c:217` "item[%d] not match" |

**Met while modelling**, and described rather than shown, as no sentence of the
repository speaks about it.

* Cache and containers: a size read while the cache grows can be a number of blocks never in
  use (`SizeOffByGrowthOnly` says it is then off by whole pools, no more than were added); `st_queue_size` is wrong when the items wrap around a ring
whose length does not divide 2^32 (`SizeExactButForWrap` says exactly by how much,
with a ring of 5 and a `Word` of 16); a queue whose ring has 2^32 - 1 slots would test for
full wrongly (`QueueAssumption` rules it out); and a failed `st_sem_init` in memory that was not
cleared leaves `inited` to chance.
* Configuration: the file stays open when a parameter cannot be added
  (`st_conf.c:393`); the loader's pointer to an outer section is stale once the array
  has moved (359); a `destroy` after the array of sections was lost reads NULL (885);
  every get with a default notes the default again; `st_conf_get_long` reads an `int` (724), and the
  unsigned getters ignore what `sscanf` answers (665, 784), so that a word leaves the caller's variable as it was.
* Options: a second `st_opt_parse` forgets the first file; a text that is empty is
  printed as `--key=` and not read back.
* Alphabet: `st_alphabet_get_label` accepts the index one past the end; a bad
  line of a text file leaks the labels before it; a loaded alphabet compares with the
  default equality, so that a label it has never had can be answered with the index of one
  with the same signature, and has no room for more.
* Parsers and segments: a weight of two digits before the point keeps the last one, one that
  begins with the point gets the default; a segment longer than the ring ends past it.
* Memory: a realignment of a block that shrinks or lowers its alignment
  moves words past the end of the new block.
* Streams: `st_count_lines` leaves the child of a command unwaited and on the list; a FIFO
  that no `st_popen` opened is left open by `st_fclose`. `st_fgets` with a buffer of one
  byte answers an empty line at the end of the file, and loses the line it has read when it cannot grow.
* Network: sockets leak when `st_connect` fails late; a budget that reaches zero means none
  to the next call.
* Log: opening and closing take no lock, and `g_mt` is read again where a line ends.
* Varint: the test of the highest bit relies on `char` being signed; a buffer without
  room is written to all the same (as one with room for a byte); decoding reads on without an end in the buffer.

**Why these bounds are enough.** Each is the least at which the interesting
case occurs with something left over. Cache: two threads meet at an empty free
list, one grows, a third handle shares or returns meanwhile; with pools of 2 the
second pool's ids, slots and list entries are all different from each other's,
so off-by-one and off-by-a-pool slips show (each property has a mutant of the
code that violates it). `MaxBlocks` is the point at which every allocation
fails, a behaviour the code has anyway. Semaphore: a newcomer overtakes one of
two that sleep, while two posters post. Queue: a ring length that does not divide
`Word`, several times around. Heap: an object with one child and with two, a
path of two swaps. Dictionary: a bucket with a chain and one without, growth of
the pool from either; four pool nodes allow a fill, a clear and a second
fill behind the old links. `MaxNodes`, `MaxCalls`, `MaxSpurious`, `MaxBlocks` and
`MaxDrift` are the only bounds in guards; all are constants.

**Views, deadlock.** `Objects.cfg`, the `Dict*.cfg`, the `Conf*.cfg` and `Services.cfg` use a `VIEW` that
leaves out what no guard and no update reads: slots of the heap past its size, its `index`
when no loop runs, the answer of the last dictionary or configuration call, the words of an aligned block that
nobody has written, and in a run of several parts the variables of those the behaviour is not about. Two states with
the same view have the same futures up to the view, the invariants read only
what is in it, and step properties are evaluated on every transition TLC generates.
`CHECK_DEADLOCK FALSE` is where a behaviour really ends: a fault ends the
process (cache, failing dictionaries, configuration), a configuration and its options have been read as far
as the bounds go (`conf`), a text was read to its end, a union was refused a segment or `st_fgets` had no memory (`services`), and a semaphore half initialised in memory that was
not cleared can be neither destroyed nor initialised again (`objects`).

**Fairness.** `cache`: weak fairness of each thread *inside the critical section*
(`Critical(t)`), none for lock or calls: nothing there waits for another thread,
so the scheduler alone keeps it going. `semaphore`: weak fairness of each
thread that is in a call, and of the posters' calls: `EveryWaitEnds` asks what
happens when there are as many units as waits (value 2 and 4 posts for 6
waits). Weak fairness of a lock is enough only because calls are bounded;
POSIX promises no order among threads that wait for a mutex, and the property
claims none. `InitValue` 2 makes some waits pass at once.

## 4. What is proved

`tlapm` checks every proof from nothing, for every value of the constants that
satisfies the assumptions of the modules. The parts of `MCObjects` are proved about in
`ObjectsProofs` and `HeapProofs`, those of `MCServices` in `ServicesProofs`; what they
share about remainders is in `Remainders`.

**Block cache** (`BlockCacheProofs`; assumptions: finitely many handles,
`Count` positive, `MaxBlocks` at least `Count`).

* `TypeCorrect`, `MutexHeld`: for *any* callers, double returns and failing
  allocations included. `TypeOK` says in particular that no reference count is negative.
* `InductiveInvariant`: `IInv` holds of every behaviour, with
  `Disciplined` as its hypothesis: callers keep a handle while it is shared (`Pinning`), and
  return ids that nobody holds only if the program has one thread (with several, the id may be
  handed out again between the mistake and the mutex, and no code could tell). From it follow
  `RefsAreConserved`, `FreeListIsExact`, `HeldSlotsAreDisjoint`,
  `NoFaultWithoutFailure`, `DoubleReturnsAreRefused` and, as a refinement,
  `CacheImplementsAlloc`.
* `SizeIsOffByGrowthOnly`: the unlocked size, up to the first failed allocation. `SizeInv` says what
  the two reads have seen: a count of pools and a length of the free list that were there during the
  call. `InUseIs` says that the blocks in use are at every step those of the filled pools less the
  free list (`FreeOK` and `FreeLen` of `IInv`), so that the two numbers give a count of blocks in use
  but for the pools between the two reads.

None of the properties is inductive as it stands. `RefsConserved` speaks of the
counts; that a `return` leaves them right needs that the caller's handle
still names the block (`CallOK`), which holds because no other call uses that handle
(`HandlesOwned`); that an id without a handle is refused needs that nobody has taken it since
the call began, which `CallOK` says too. `FreeListExact` speaks of the moments the mutex is free; in the
critical section of a growth the counts, the list and the pools have
different lengths, and `RefsLen` and `FreeLen` say which at each control
point. `IInv` is the conjunction of these and of the types, the mutex and the bound, with
`TablesOK` required until an allocation has failed. Initiation, one step per
action (the growth in four), then consecution; the step lemmas for adding and
dropping a holder (`AddHolder`, `DropHolder`, `UnheldFinite`) carry the
arithmetic of cardinalities. TLC checks `IInv` itself in the run `cache`.

**Semaphore** (`SemaphoreProofs`; assumptions: finitely many threads).
`SemaphoreTypeCorrect` (the value never goes below zero if it starts at zero or
above), `WakeupsAreNotLost` and `SemaphoreImplementsCounting`. `NoLostWakeup`
together with the types is inductive because `Awake` counts the signaller as well
as the signalled: a unit added by a post is covered by the post itself until its
signal, by the waiter it woke after that. The life of the object is in `ObjectsProofs`
(`SemaphoresDieOnce`): `LifeInv` says that what claims to be initialised, over memory that was
cleared or whose condition variable was made, has both parts live.

**Queue** (`ObjectsProofs`; assumption: the ring and one more fit the width of the
integers). `QueueTypeCorrect`, `QueueSizeExactButForWrap` and `QueueImplementsFifo`.
The inductive invariant is `IndexOK`: the types, and a start of zero while
the end is `(unsigned)-1`. The arithmetic is that of remainders: `SmallRemainder` and
`RemainderShift` (in `Remainders`) follow from the uniqueness of the remainder,
`RingPlusIndex` and `RingPlusStart` reduce the code's unsigned sums to the next index of
the ring, and `ItemsAppend` and `ItemsTail` say what that does to the items in order.

**Stack** (`ObjectsProofs`; assumption: the capacity fits the width of the integers).
`StackTypeCorrect`, whose types are inductive as they stand, and `StackImplementsLifo`.
The step that needs an argument is the look at a depth: `DepthTest` says that the
unsigned comparison of `st_stack_topn`, in which a depth of zero becomes the largest number,
accepts exactly the depths from one to the height.

**Heap** (`HeapProofs`; assumptions: a positive capacity, objects and keys are naturals).
`HeapTypeCorrect`, `HeapIsSound` and `HeapIsPriorityQueue`. Order between calls is
not inductive, since a repair is one step an iteration: `HeapOrdered` says what holds in
the middle of one (order everywhere but at `index`, and what is above `index` not after
what is below it), and `HeapInv` adds that the used part holds objects (`Filled`) and that a
loop runs within it (`Running`). A changed key is repaired from the back-pointer, so
`RekeyKeeps` rests on `BackPointersExact`, and order and back-pointers are proved together.
That the root is a least object (`RootIsLeast`) takes the first position of a key less than
the root's, by the well-foundedness of the naturals: what is above it would be an earlier one.
For the refinement, `SwapCarries` shows with a bijection of positions that a swap changes the
number of copies of no object, and `CopiesFit` that the abstract queue has room for another
copy when the array has.

**Block pool** (`ObjectsProofs`; assumptions: finitely many handles, a positive capacity).
`PoolTypeCorrect` for any callers: whatever is freed how often, the list stays within its
array. For callers that free what they hold, once (`~misused`): `PoolFreeListIsExact`
and `PoolIsAllocator`, from `PoolInv`, which adds that no two handles hold the same block
(`HandlesApart`). `LegalFreeFits` is the pigeonhole: a full list would hold every
block that was handed out, and the one that is freed is not among them.

**Log** (`ServicesProofs`; assumption: the mark of the free lock is no thread). `LogLinesAreWhole`,
for any number of threads and any levels. `LogInv` speaks of logs that are not `disturbed`
(written without the lock, or opened or closed during a line): a thread in a line has the
lock, and the lock is had by a thread in a line (`OneWriter`); a half-written line belongs to
a thread between two of its pieces, in its stream (`HalfLines`); and streams in use are open
(`StreamsOpen`). `PieceKeeps` is the heart: a piece then finds no other line half there.

`ArraysTypesCorrect` puts the types of queue, stack, heap and pool together as the run
`objects` composes them.

**Dictionary** (`DictProofs`; assumptions: positive sizes, keys hash to buckets).
`DictImplementsMap`, `CountIsExact`, `TraversalIsComplete`, `ClearListIsExact` and
`NothingGoesWrong`, for any keys, hash function and number of buckets, through growth, clears,
saves and loads. The hypothesis `Sound` names what the failing runs show to be needed: no reallocation fails, a
dictionary with a list to clear has no callback that refuses and no key with one empty
signature, and it was created with the hash function that a load goes on with. The invariant
`DictInv` is about the pool and not about the walks: each used node leads to the newest older node of
its bucket (`LinksInPlace`), a bucket to the newest of all (`HeadsInPlace`), an emptied one
nowhere or to a node that was emptied with it. What a walk meets is then derived: the walk is a
recursive function, so its values are found with the least place at which a claim fails
(`LeastOf`), and `ChainOfMine` says that the chain of a bucket is the nodes that hash to it, each once.

`FoundKeysAreCounted` has no such hypothesis: reallocations fail, callbacks refuse, assertions fail, a
load hashes another way. `DictInv` is then false, since an emptied bucket may still lead to nodes that
are in use. What is left (`LooseInv`) is that every link leads down the pool (`Formed`), that the nodes a
bucket leads to form a set closed under the links, without a key twice (`Bucket`), and that there are no
more nodes in use than are counted (`UsedCounted`). The seek stops at an empty first node, so what it
finds is among these. A file that was saved satisfies the same, and a load takes it over.

**Configuration** (`ConfProofs`; assumptions: positive steps of growth, folding of keys is
idempotent, the markers are no texts). `ConfStaysInBounds` and `ConfImplementsMap`, for files that
load files to any depth, any capacities, arrays that stay or move and any failing allocation. `ConfInv`
says that sections have distinct names, no key twice and room for one more parameter and default
(`Sound`), that each open file stands in the section its `[name]` lines put it in, and that the pointers of open
files are live until the array of sections moves under one of them (`FrameLive`). For the
refinement, `FoundIs` and `MapOf` turn "the first place at which" into the map, and each
operation gets a lemma about the map it leaves (`SameMap`, `MarkedMap`, `AddedMap`,
`CheckedMap`). The exceptions are part of `ImplementsConfiguration` itself: the step that writes a
parameter to the array that was moved (the finding of `conf_lastparam`), and steps that
end with an allocation failed or a stale pointer used.

**Options** (`ConfProofs`; assumptions: as for the configuration, and that arguments, lines of
the file and plugins are formed as `OptAssumption` says, with texts whose numbers are natural and
words of at least one value). `CommandLineAlwaysWins` and `ArgumentsAreLeft`, for any command line,
any file, every getter and any number of calls. `CommandLineWins` speaks of the last answer only;
`OptInv` says where parsing stands: of the first `n` arguments (`Reached`), those that are plain are
left, in front of the arguments to come, and the command line's configuration has, for every
spelling of every option, the last text they give it (`Reflects`). After parsing the same holds of
everything before `--`, and of the file. Each function of `Conf` that `Opt` calls gets a lemma about the
texts of a configuration (`AddToIs`, `GetIs`, `DefIs`, `OptionAsked`), drawn from the map of
`MapOf`; `FirstMeans` and `OverMeans` show that asking the file with the default and then the command line
with the file's answer is what `Effective` says, type by type. The code's loops over the file, the
plugins and the arguments are recursive functions. They are defined by `CHOOSE`, so that such a function
exists at all has to be shown: `RecursionExists` takes the largest initial part on which one does,
and `RecursionKeeps` carries a condition along it, both by the well-foundedness of the naturals.
The exception, `optLost`, is that of `conf_lastparam`: a setting written to an array that was moved.

**Memory statistics** (`ServicesProofs`; assumptions: finitely many threads and blocks, positive
sizes). `UsageIsAccounted`. `UsageInv` says that the size in use is the sum of what has
been counted of each block, modulo the word, plus what is known to be miscounted; that what a
thread has read under the mutex is still so when it writes (`ReadIsFresh`); and that no two calls
work on one block. The sum over the blocks is taken as the cardinality of a set of units
(`Total`), which needs no fold and no induction: `TotalUpdate` says what one block more or less does to it.

**Aligned blocks** (`ServicesProofs`; assumption: alignments are positive). `BlocksKeepContent`, for any
addresses that `malloc` and `realloc` answer. `AlignedInv` says that a block lies within its memory at
an aligned address, its header before it and what was written in it; `OffsetIs` is the
arithmetic of the padding, `ReallocMoves` that the words arrive when the offset changes.

**Alphabet** (`ServicesProofs`; assumptions: what is kept of a label that is too long has another
signature, and the lines of text files). `LabelsAreFound`: `AlphabetInv` tells an alphabet filled
by calls from one that was loaded, as they compare labels differently.

**Children, connections** (`ServicesProofs`). `ChildrenAreWaited`: `StreamsInv` says that the first
node of an address in the list is that of the stream open there, which is what `st_pclose` finds, and that
no child inherits a pipe. `ReadsAreExact` (assumption: times are integers): `NetInv` says that the buffer is
what was taken of the connection as long as no read failed, and that the budget is what the time spent left of it.

**Lines** (`ServicesProofs`; assumption: a buffer the library allocates has more than one byte).
`LinesAreWhole`, for files and lines of any length: `ReaderInv` says that the buffer followed by the rest of the
file is the file as it was when the call began, and that the room counted down is the room left.

**Segments** (`ServicesProofs`; assumption: no segment is longer than the ring, and the ring fits a
`size_t`). `UnionsAreExact`: `InsertIs` says which segments an insertion leaves and which
points they cover, `UniteIs` and `AroundIs` take it around the end of the ring, `SizeSum` is the sum of
`size_t` that wraps and then names no segment.

**Only model-checked.**

* Liveness under fairness: `CriticalSectionEnds`, `EveryWaitEnds`. Out of the prover's reach.
* `CodesKeepValues`: bits and groups are powers of two, and the provers know nothing of `^` with a
  variable exponent, nor can its laws be derived without an induction over it.
* `ParsedAsWritten`: the number that a text of digits stands for is a fold over the text, with
  powers of ten.
* `PrintedParsesBack`: what is printed is selected, sorted and flattened, by recursive operators of the
  library (`SelectSeq`, `FoldLeft`, `FlattenSeq`), of which nothing can be said for every length.

`TypeCorrect`, `SemaphoreTypeCorrect`, `QueueTypeCorrect`, `StackTypeCorrect`,
`PoolTypeCorrect` and `HeapTypeCorrect` prove type invariants that no run repeats alone.

## 5. Plan

Done: every part that keeps a state, and the algorithms of bits, segments, parsers and
variable-length integers; proofs for every part but the parsers of integers and the codes of bits and
integers. What could follow, in this order:

1. `Alphabet` over `Dict` itself in place of the set of nodes, with a dictionary whose
   hash function and equality are the caller's.
2. A loader whose files are a fixed set of texts, with longer files and a second level of
   loaded files.
3. The printed command line as a recursive function like `Load`, which would bring
   `PrintedParsesBack` within reach of `RecursionExists`.

Light parts share runs as `MCObjects`, `MCConf` and `MCServices` do: a variable says which object a
behaviour is about, so that they are checked side by side and not in a product.

## 6. What is not modelled, and why

* Contents of blocks, of items and of files: no operation depends on them.
* Failures of `pthread_mutex_lock` and its kin on initialised objects.
* `st_dict_dup` (its copy equals the original), a load whose read fails in the middle, and a load
  that replaces a hash function of the caller's (hazard of `st_dict.c:497`).
* Switching the statistics on or off while blocks are outstanding: the headers of one
  mode are unreadable to the other, and the repository's test does not do it either. The wrappers of
  the debug build, which only log.
* Two unlocked calls of the cache (`clear`, `destroy`) during locked ones: no
  behaviour of the code is defined then.
* Strings, floating-point distributions, hashing of characters, `qsort` and the shuffle: data, not control. How
  `st_conf.c` takes a line apart is a choice among the kinds of line.
* `st_connect`, `st_listen`, `st_fsize`, `st_readline`: sequences of system calls without a state of
  the library. `st_conf_show`, `st_conf_help` and the help text of the options only print.
* Several threads in `st_popen`, and in opening and closing the log while lines are
  written: the list has no lock and the streams have none there, so that nothing is promised.
