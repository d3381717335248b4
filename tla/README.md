# Verification of cutl

TLA+ models of cutl, the TLC configurations that check them on small instances,
and proofs, checked by TLAPS, of what holds for every instance. The models are
written from the sources (`src/**/*.c` and their headers); file names below are
relative to the root of the repository.

Modelled are the allocators (fixed-size, stack, arena and block) and the
defaults that threads share, the two text streams, integer formatting, string
splitting, and the iterators. Section 5 says what is left out.

## 1. The library: parts, state and operations

cutl is a C library without threads or callbacks of its own: a call runs to its
end before the next begins (the exception is the allocator defaults, part 6).
What makes it hard is data that lives in the very memory it describes, pointers
that callers keep for longer than they may, and calls that fail half way. The
order of calls is the caller's: any sequence of legal calls must work.

| # | Part | State | Operations | Talks to |
|---|------|-------|------------|----------|
| 1 | Fixed-size allocator, `fixed_size_allocator.c` | a table of entries (offset, size, free or used) at the head of the buffer; the count of entries and of free ones | create, allocate, deallocate, reallocate, real block size, defragment | 5 |
| 2 | Stack allocator, `stack_allocator.c` | the top; in `data[]`, an info with size and state in front of each block and behind it | create, allocate, deallocate, reallocate, reset, get top, restore top | 5 |
| 3 | Arena allocator, `arena_allocator.c` | a list of chunks from an underlying allocator; per chunk the bytes used and a list of free blocks linked through their memory | create, allocate, deallocate, reallocate, clear, release, destroy | 5, and any allocator through 6 |
| 4 | Block allocator, `block_allocator.c` | one bit per block of equal size, in front of the blocks | create, allocate, deallocate, reallocate | 5 |
| 5 | Rounding, guards, block states, `allocator_internal.h` | none; guard bytes on both sides of each allocation | round, block, usable size, user offset, set and check guards | |
| 6 | Allocator interface and defaults, `allocators.c` | the global and the per-thread default allocator | set, get default, alloc, realloc, dealloc, alloc group | 1 to 4, 7 |
| 7 | OS allocator, `os_allocator.c` | a mapping info in front of each block, the page size | allocate, deallocate, reallocate | mmap, VirtualAlloc |
| 8 | String stream, `string_stream.c` | a buffer and a position | write a string, a number, a custom piece, a format; reset | 10, 11 |
| 9 | Output stream, `output_stream.c` | a buffer, a position and a `FILE *` | the same, and flush | stdio, 10, 11 |
| 10 | Strings, `strings.c` | none | compare, search, trim, split, advance, shrink | cutf |
| 11 | Formatting, `format.c` | none | the length of a number's text, and the text | 10 |
| 12 | Iterators, `iterators/*.c` | the current combination, permutation or index | next, advance, recede, counts, index of a value | |
| 13 | Error messages, `error.c` | none | the name and message of a code | |

What makes each part correct, and where it is hard:

- **Fixed-size.** The table describes the memory behind it exactly: no overlap,
  no gap, nothing lost. Every new entry takes 24 bytes from the first free
  block, so handing out memory moves entries of blocks that others hold. It is
  hard when no block fits, when the entry cannot be paid for, when a call fails
  after it freed something, and in the two passes of defragmentation.
- **Stack.** A block that is given back below the top waits until what is above
  it has gone; then the walk down from the top goes by infos behind blocks,
  some of them from blocks that no longer exist. It is hard when tops are kept
  across calls, and when blocks are resized on the top.
- **Arena.** The free list is ordered and covers what is free; chunks grow only
  when nothing fits; a failing underlying allocator changes nothing; pointers
  are looked up by a header in front of them that may be stale.
- **Block.** The layout is computed such that header, bits and blocks fit; a bit
  is set exactly while a caller holds the block.
- **Interface.** What is handed out is aligned, inside, and disjoint from what
  is held; a call changes only the allocation it is about; a reallocation keeps
  contents. This is one contract for parts 1 to 4.
- **Defaults.** A thread must not see a half-set default, and memory must go
  back to where it came from.
- **OS.** The size noted is the size mapped; what is mapped is unmapped once.
- **Streams.** The bytes in the buffer, or in the file, are those written, in
  order and once, also after short writes and failed flushes.
- **Strings, formatting, iterators.** Agreement with a mathematical definition;
  the length announced is the length written.

## 2. Modules

| Module | Models |
|--------|--------|
| `AllocatorLayout` | rounding, block, usable size and user offset (part 5), with sizes that wrap around at `SizeLimit` |
| `AllocatorContract` | abstract: what every allocator owes its callers |
| `FixedSizeTable` | the table of part 1 as a value, and the operators that search and change it |
| `BlockArrayDefragment` | one turn of the loops of `memory_block_array_defragment`, and their run to the end |
| `FixedSizeAllocator` | part 1 as a state machine, with its callers |
| `DefragmentLoop` | until the last loop nothing is lost or kept twice; what is kept is left sorted; the loops end; of three blocks or fewer nothing is lost or kept twice, but for what is `MergedTwice` | up to 5 blocks of size 0 or 1 at 6 places, apart, in any order, the leftmost last and alone in being empty, if it is: neighbours, gaps, swaps, merges of several, and arrays that the last loop spoils |
| `StackAllocator`, `ArenaAllocator`, `BlockAllocator` | parts 2, 3 and 4 as state machines, with their callers |
| `DefaultAllocators` | the defaults of part 6, with threads that set and use them |
| `TextLog` | abstract: what a stream owes those who write to it |
| `FormatStreams` | what parts 8 and 9 share: values, and the loop over a list of them |
| `StringStream`, `OutputStream` | parts 8 and 9 |
| `IntegerFormat` | `format8_integer` and `format8_integer_length` of part 11 |
| `StringSplit` | `string8_split`, `string8_has_substring` and `string8_advance` of part 10 |
| `Text` | the two streams, integer formatting and splitting side by side: they share no state, and each behaviour follows one of them |
| `Selections`, `Combinations`, `Permutations`, `MultidimIndex` | part 12 |
| `MC*` | what TLC needs beside the constants: sets of values and pointers, a view; `MCIterators` puts the iterators side by side, as `Text` does its parts, and `MCTextAndIterators` both |
| `*_proofs` | theorems about the module of that name; `FixedSizeAllocator_proofs` has those about `FixedSizeTable` as well, `TextAndIndex_proofs` those about the parts of `Text`, about `Text` itself and about `MultidimIndex`, and `AllocatorLayout_proofs` the lemmas all allocators share: rounding and multiples, least elements, sums over finite sets |

`FixedSizeAllocator` is built from `FixedSizeTable`, which uses
`BlockArrayDefragment`; all use `AllocatorLayout`. Each
of the four instantiates `AllocatorContract` with its own `live` and `ret`.
`KeepsContract` is that instance's `Spec`; that of the fixed-size allocator
allows one more step (`ReallocatesKeptBack`, section 3), and so does that of the
block allocator (`AnswersSkewed`). The streams extend
`FormatStreams` and instantiate `TextLog`: the text of the string stream is what
stands before its position, that of the output stream is the file followed by
the buffer.

### How state and actions correspond to the code

In the allocators an address is an offset into the allocator's memory. Next to
the variables of the code there are those of its callers and of the last call:

- `live` is what callers hold, pointer to size asked for; `damaged` are those
  whose guards were written over (the action `Overrun`, which stands for a
  caller's mistake the guards exist for).
- `ret` is the last call: its name, argument, result code, result, and the
  bytes it copied. The status `UNDEFINED` says that the call ran into behaviour
  C leaves undefined, such as reading behind the table; it is the last step of
  a behaviour, as nothing can be said after it.

*Fixed-size.* `this.blocks` is the table and `this.free_blocks` the number of
free entries; the used ones are `UsedIndices`, as in
`fixed_size_allocator_get_all_blocks`. An operation has an action, and
reallocate one for each way through it: reject, same size, shrink, grow in
place, move. `AllocateBlock` is `fixed_size_allocator_allocate_block` with its
retry after defragmentation. That retry is reached from `AllocateBlock` when
the search's sentinel equals the free count, which is when no block is used.

*Stack.* `info` holds, by offset, the infos that can still be read in `data[]`.
An info in memory that is handed out later is gone, as a caller may write
there; one that is left by a popped block remains, and a pointer given back
twice finds it (`Inspect`). `returned` are a few pointers given back, which may
be given back again; with `GiveBackLate` also after other blocks were laid out.
`marks` are the tops callers keep, with what they held then. `Fits` is the comparison that allocation makes and growth in place
does not.

*Arena.* `this` is the list of chunks, each with its headers by address and its
free list. `HandOut`, `Carve` and `FreeListInsert` are the functions of those
names. The underlying allocator is external: it gives a chunk or refuses.
`returned` remembers a few pointers that callers gave back, so that they can
give them back again.

*Block.* `bits` is the set of bits that are set. `Creatable` and `BlockCount`
are the computation in create. The search by `IsAvailable` goes by groups and
then bits. `Skewed` are pointers into blocks that are held: deallocate finds
them by a remainder, reallocate does not look. `Strangers` are pointers of other
memory.

*Defaults.* `isSet` and `global` are `GLOBAL_ALLOCATOR_SET` and
`GLOBAL_ALLOCATOR`, `own` the thread-local default. Setting the global one marks
it (`BeginSetGlobal`) and then copies its fields one by one, in either order
(`CopyField`); a call gets a pointer (`GetDefault`), reads the function and the
state through it (`ReadField`) and calls (`Call`). Each thread holds at most one
block, which remembers the allocator it came from. `mixed`, `disturbed` and
`changed` record what happened to a default meanwhile: the properties are about
calls to which nothing did.

*String stream.* `buffer` and `pos`, as in the code, with the bytes past the
position still there. A write is an action; a call of format is begun by
`Format`, takes a value per `FormatValue`, and ends with `FormatReturns`; `call`
is what is left of it. A number or custom value may fit the buffer but not what
remains of it (`Overflows`): the writers compare with the whole buffer, an
assertion alone stops them, and so the position moves past the end of the buffer
and the call answers `UNDEFINED`. A number's text may have `Skipped` bytes,
those that `format8_integer` leaves unwritten: they are counted by the position,
and the buffer keeps what stood there (`Copied`).

*Output stream.* `pending` is the buffer up to the position. Bytes are numbered
as callers give them, so that order, loss and repetition can be told. An
operation has a set of outcomes (`WriteU8`, `WriteCstr`, `PlaceFormatted`,
`Flushed`), one for each way the file may fail in the middle of it. `promised`
are the bytes that writes took on: those of successful writes, without any of a
`string8_t` that does not fit, of which the code drops a part (see
`OutputLoses`). A byte that a number skips counts as given, as its place in the
buffer is written to the file with the others.

*Integer format.* `FormatInteger` compares the length, then signs, digits,
separators and leading zeros are written a unit at a time. `room` is what is
left of the output.

*Split.* A section per step, until the last.

*Iterators.* An operation is an action; `steps` counts how often a combination
or permutation was advanced. Counts are products modulo `CountLimit`, as in the
code. `cells` is the array `dims_and_offsets`; dimensions are added one by one
(`InitDim`), which moves the offsets.

### Modelling decisions

- A call is one action where nothing else can run in between: in parts 1 to 4
  and 8 to 12. Where a call hands control to its caller's functions or works
  value by value (format, split, formatting), it is several. The threads of part
  6 interleave between any two accesses to what they share.
- The defaults' accesses are assumed to be seen in the order in which a thread
  makes them, the fields of a struct in any. They are a data race in C; what a
  weaker memory or a compiler may do beyond that is left out.
- `CUTL_ASSERT` is modelled as compiled out, as in a release build; what the
  assertions say is a property instead. Guard bytes are a constant, so that
  builds with and without guards are covered (`build_options.rst`).
- Contents are not modelled byte by byte: a reallocation's contents are kept if
  the bytes it copies suffice for both sizes and stay inside the old block.
- Sizes have a width (`SizeLimit`), far smaller than `size_t`: wraparound
  happens at the same places, at smaller numbers.
- A number written to a stream is a text of some length: what it looks like does
  not matter to a stream. Only custom values fail, since the streams give the
  formatters of numbers just the space they asked for.
- `fwrite` may take any number of bytes and then fails; `fflush` may fail after
  all were taken. Bytes that `fwrite` took count as in the file.
- Printing, the debug dumps, and the magic numbers' values are left out.

## 3. Runs

`tlc -config <run>.cfg <module>`, with the modules in `PROJECT.json`. Between
the calls callers make there is no order: every run lets them call anything, at
any time, with any pointer or value of a small set.

| Run | Shows | Bounds |
|-----|-------|--------|
| `FixedSizeServe` | the table always describes the memory (`Validated`, without a gap: `NoGaps`), callers keep what they hold (`HeldBlocks`), overrun blocks are not handed out again (`DamagedKeptBack`), moves copy enough, a buffer given back entirely is as new (`StartsOver`); the contract, but for pointers whose block was kept back | 272 bytes, guards of 16, sizes 16 and 48: several blocks, splitting, handing out whole, paying, stealing from the neighbour; every aligned address as a pointer |
| `DefragmentLoop` | until the last loop nothing is lost or kept twice; what is kept is left sorted; the loops end; three blocks or fewer come out exact, but for what `MergedTwice` | up to 5 blocks of size 0 or 1 at 6 places, apart, in any order, the leftmost last and alone in being empty, if it is: neighbours, gaps, swaps, merges of several, and arrays that the last loop spoils |
| `StackServe` | the infos can be walked down; the top is tight; moves copy enough; the contract | aligned to 8, 176 bytes (two of the smallest blocks and one they move to), sizes 8, 16 and 32, one kept top, one pointer given back, which may be given back again until a block is laid out (later it can deceive: `StackGivenBackTwice`); 241,315 states |
| `ArenaServe` | free lists sane, blocks disjoint, used bytes exact, moves copy enough; the contract | 2 chunks of 64 bytes or more, sizes from 0 to one that wraps around, one pointer given back |
| `BlockServe` | bits and blocks agree; a free block is found; the contract, but for pointers into a block that are reallocated | 48 bytes, two bits to a group, so that the last group is only partly used; sizes 0, 1, a block's, and one too large; pointers of blocks, into blocks and of other memory for every call |
| `TextAndIterators` | a string stream is a log of what was written with success (`StringKeepsLog`); an output stream keeps what it promised through short writes and failed flushes, and in order while none fails; integers fill the length announced for them; splits are exact; each combination and each permutation is visited once and in order, indices and combinations are each other's inverses, and moving in many dimensions is adding and subtracting in one. The parts share no state: one run follows each of them in turn | buffers of 4 and 3 bytes; texts from none to longer than the buffer, one with a byte skipped; a file that fails once at most, 7 bytes given; base 4 with digits of several lengths, ten numbers, separators at distances 0 to 3, up to 6 digits; all strings of up to 6 of two bytes, delimiters that overlap themselves, arrays of up to 3; combinations of up to 6 elements and 3 of 7, permutations of up to 4 and 3 of 5; up to 3 dimensions of up to 3, steps of up to 5 |
| `Defaults` | what a thread calls is one allocator, and a block goes back where it came from, unless a default is changed meanwhile | two threads, two allocators beside malloc; two threads that set at once, and one that sets while the other reads, are the cases there are |

Why the bounds are enough: each was chosen as the smallest at which every
action and every alternative in it fires and at which each property's faulty
variant is found. Those variants stand in the modules next to what they vary,
marked "Faulty"; each is a plausible slip in the code (a check left out, a size
without its guards, an exchange forgotten), and makes its property fail. Some
constants bound the environment alone: `MaxMarks` and `MaxReturned` say how many
kept tops and old pointers callers remember, `MaxChunks` how many chunks the
underlying allocator has, `MaxGiven` and `MaxFailures` how many bytes the output
stream is given and how often its file fails, `MaxSections` the room in arrays
of sections, `MaxStep` how far an index moves at once. `CountLimit` is where
counts of selections wrap around: at 65536 none of the run's does, and at 256
TLC finds `CombinationsRanked` violated, because the products wrap around before
they are divided. `KeepStale` says whether callers keep a top after
blocks moved across it, `GiveBackLate` whether they give back again what other
blocks may stand over by now. `StateBeforeNext` (a VIEW) leaves `ret` out of what
tells states apart, save for whether it is `UNDEFINED`; properties of states do
not read it otherwise, and properties of steps are checked on every step.
Threads and allocators are symmetric in `Defaults`, which has no liveness.

Deadlock is not checked. cutl waits for nobody, and there are states where a
behaviour does end: after undefined behaviour, when a loop, an iterator or a
split is done, and when a model's callers have used up their bounds.

Fairness is assumed once: weak fairness of `Turn` in `DefragmentLoop`, where the
process is a loop in one thread that only has to be run. The other parts promise
nothing that takes more than one call: nothing waits, retries by itself, or is
put off to later, so nothing else needs any. (A failed flush is retried by the
caller, or not at all.)

### What the code does not do

Five runs each check one statement that a comment, a header or an assertion
makes about the code, and show how the code departs from it:

| Run | Statement | What happens |
|-----|-----------|--------------|
| `FixedSizeNoFit` | an allocation that does not fit is considered failed | the sentinel of the search and the test for failure differ as soon as a block is used: the entry behind the table is used |
| `StackGrow` | the stack has a size | a block grown on the top is not compared with it |
| `ArenaMerge` | touching free blocks are merged | they never are |
| `OutputLoses` | a string is written to the stream | of a `string8_t` that does not fit the rest of the buffer, the part copied there is lost by the flush |
| `StringOverflows` | no more is asked for than remains of the string stream's buffer (the assertion in `string_stream_get_output_string`) | a number or custom value is compared with the whole buffer, and written past its end |

Six more configurations are kept beside the runs. TLC finds their property
violated, too:

| Configuration | Statement | What happens |
|---------------|-----------|--------------|
| `FixedSizeShrink.cfg` | an allocation right after giving back a block of its size cannot fail (`FailedReallocateKeeps`) | it can, if the first free block cannot pay for the entry; the caller's block is lost |
| `FixedSizeDefragment.cfg` | blocks never overlap (`Validated`) | the last pass of defragmentation uses the entry behind the last one kept |
| `StackStaleTop.cfg` | restoring a top releases what was allocated since (`HeldBelowTop`) | it also cuts a block that grew since |
| `StackGivenBackTwice.cfg` | a pointer given back twice is told from one in use (`WalkDown`), the instance of `StackServe` with `GiveBackLate` | not always: after a reset, infos left by earlier blocks stand just where a later block has room, and together with one of its own look like a block in use, which is popped a second time |
| `IntegerMismatch.cfg` | an integer is as long as announced (`IntegerOutputMatches`, the assertion at the end of `format8_integer`) | it misses separators when the digits end where one is due and zeros follow |
| `ArenaWrap.cfg` | requests whose bookkeeping would wrap around are rejected (`RequestsDefined`) | the chunk's size still wraps |

The passing runs of the allocators hold *until* such a step: after `UNDEFINED`
nothing is said, `StackInside` is not among the properties of `StackServe`, nor
merging among those of `ArenaServe`, nor `StringInside` among those of
`TextAndIterators`. `FixedSizeServe` leaves out the call to
defragment (`ServeSpec`), which the interface `cutl_allocator_t` does not have.
In `TextAndIterators`, `IntegerFillsOutput` makes an exception for numbers that
`MissesSeparators` describes: when the digits end just where a separator would
be due, none is written between the leading zeros, and the output is shorter
than announced (`IntegerOutputMatches` does not hold). A stream counts the bytes
that are missing all the same, and its text has there what stood in the buffer
before: `TextLog` promises nothing about `Skipped` bytes. A format call drops the results of writing
strings, and succeeds although one did not fit; the log counts writes, not
calls of format.

The fixed-size allocator keeps `AllocatorContract` but for one kind of call. A
reallocation that moves a block whose guards were written over cannot free the
old one, which deallocate refuses, and so the old block is kept back. Its caller
has a new pointer then; but reallocate looks for a used block and not at its
guards, and takes the old pointer again. `ReallocatesKeptBack` says what happens:
the call fails and changes nothing that is held, or hands out memory that nobody
holds, as an allocation would. In a build without guards no block is kept back.

The block allocator keeps it but for a pointer into the middle of a block that is
held. Deallocate compares the pointer with the block's own; reallocate does not,
hands it back if the size asked for is no larger than a block, and answers
success. Nothing else happens (`AnswersSkewed`): no block changes hands.

An array of two or three free blocks comes out of defragmentation exact, unless
the leftmost is empty, touches its right neighbour, and that one touches no
other. The scan merges the two, and the last loop, which begins with the entry
behind the kept ones, merges them once more: the neighbour's memory is lost
(`MergedTwice`; with two such blocks all that was free).

## 4. Proofs

`tlapm <module>_proofs.tla` checks them. The assumptions are those named in the
modules: `LayoutAssumption` (alignment and guards), `TableAssumption` and
`CallerAssumption` (fixed-size), `StackAssumption` (stack), `ArenaAssumption`
(arena), `BlockAssumption` (block), `StringStreamAssumption`, `OutputStreamAssumption`,
`IntegerFormatAssumption`, `StringSplitAssumption`, `MultidimAssumption`,
`DefaultAssumption` and `DefragmentAssumption`.
Those of the allocators say that sizes are
natural numbers and every request fits below `SizeLimit` with its rounding and
guards, that is, no size wraps around; where sizes do wrap is left to TLC (the
arena is the exception: it rejects what would wrap, and its theorems are about
every request). The fixed-size allocator's memory, and everywhere guards and
headers, are multiples of the alignment, as create rounds the size down and
guards and headers are made of whole units. Those
of the streams say what a value is, and that the output stream has a buffer;
that of formatting, that the base is two or more and lengths are natural
numbers; that of splitting, that no delimiter is empty; that of the index, that
there is a dimension and that none has size zero, which the code divides by. No
other bound is assumed: any buffer, any number of blocks, threads, values and
failures, any integer in any base, any string, any number of dimensions.

**Fixed-size** (`ServeTypeOK`, `ServeStartsOver`, and what `ServeValidated` says
of the table but for `NoGaps`). The
inductive invariant says that until something undefined happened the table is
`Sound`: entries are typed; used ones stand before free ones; the last entry is
the free block right behind the table, where the table ends; all others lie
between it and the end of the buffer; no two share a byte; and without used
blocks there is but one entry, the one create makes. `Validated` alone is not
inductive: when a block is handed out, the table grows into the first free
block, and whether it grows into somebody's memory depends on *which* block
that is and where it starts; when a block is given back the last clause says
what the count of used blocks means for the rest. There is a lemma per operator (`SplitSound`, `WholeSound`, `ReleaseSound`, `StealSound`,
`AllocateBlockSound`, ...): given a sound table and what the code checked, the
result is sound (they stand in `FixedSizeAllocator_proofs`). An allocation has an intermediate state in which the entry is
paid for and not yet there; `SoundFor(t, entries)` is soundness with the table
counted as if it were. The state machine then has one lemma per action.

**What callers hold** (`ServeHeldBlocks`, `ServeValidated`,
`ServeDamagedKeptBack`, `ServeKeepsContents`, `ServeKeepsContract`). A second invariant, `HeldInv`, stands on the first: the
table is `Tight` (every entry but the last begins and ends at a multiple of the
alignment, and every entry ends where another begins or where the memory ends),
and `HeldIn` says that the used entries are exactly the blocks callers hold and
those kept back as damaged, each held one with room for what was asked for. The
last entry is the exception, as it begins where the table of entries ends.
Alignment of all blocks is needed for that of the pointers; that every entry is
*followed* gives `NoGaps`, as blocks that share no byte cannot begin at the same
place twice. The lemmas per operator carry a frame (`Frees`, `ClearOf`): which used entries stay as they are, and
that a block handed out is apart from them. A block that moves is copied before
the old one is freed, so what is copied is what the caller had, up to the new
size (`MovesOnly` names the two steps that move). With both invariants every
step is one of `AllocatorContract` or `ReallocatesKeptBack`: the block handed
out is a used entry afterwards and was none before, so by `HeldIn` it shares no
byte with what is held and lies aligned inside the memory (`AllocateFresh`); a
call that fails leaves `live` alone; and one whose pointer nobody holds can
succeed only if the pointer's block was kept back.

**Stack** (`StackTypeOK`, `StackWalkDown`, `StackTopTight`,
`StackHeldBelowTop`, `StackReallocateKeepsContents`, `StackKeepsContract`). The
theorems assume `LegalCallers`: callers give back again what they gave back only
until a block is laid out, and keep no top that a block has moved across. Without
either half they are false: `StackGivenBackTwice` and `StackStaleTop` show it. A
pointer that may be given back again has an info that still says it is free
(`Gone`), so that it is refused. The invariant says
that until something undefined happened there is a set of starts that is a
`Chain` from the bottom of `data[]` to the top: each start is that of a block
both of whose infos can be read and agree, each but the lowest is where another
block ends, and no two share a byte. The blocks in use are those held (`Serves`); each top a caller
keeps lies between two blocks, and what was held then is what is held below it
now (`Marked`); and the last block is in use unless a caller keeps the top
(`Tight`). `info` may hold any number of other records, left behind by blocks
that are gone: the chain says which ones count. A call does one or two of three
things to a chain, each a lemma: a block is put on it (`PushStacked`), marked
free (`FreeStacked`), or it is cut off between two blocks (`CutStacked`, which
serves the loop that pops, growth in place, and restoring a top). The two walks,
`Pop` and `Starts`, are recursive functions over natural numbers: that they
exist and where they end on a chain (`PopChain`, `StartsChain`) is proved by
induction over sets of natural numbers (`NatSets`). Growth in place may write
past the end of `data[]`; the invariant then keeps the types alone. A top
restored that *is* kept is the harder half of `TopTight`, and why `Marked`
needs tops to be block boundaries: restoring them is a cut like any other.

**Arena** (`ArenaTypeOK`, `ArenaFreeListSane`, `ArenaBlocksApart`,
`ArenaUsedExact`, `ArenaReallocateKeepsContents`, `ArenaKeepsContract`). The
invariant is about all three of the list of chunks, the free lists and what
callers hold (`Serves`): chunks are apart (`Laid`); each free list is sorted and
holds blocks below the chunk's mark whose headers say they are free (`Listed`);
the headers of held blocks say they are used and leave room for what was asked
for (`Held`); free blocks and held ones share no byte (`Apart`); and the counts
of bytes are sums over blocks and chunks (`Counted`). None is inductive without the others: a block carved
off the list is apart from held ones only because the list's blocks were, and
inserting by address keeps a list sorted only because what is inserted was not
on it. Callers may give back twice: no pointer given back and not handed out
again has a header that says it is used (`NoneInUse`), wherever the blocks there
are carved and split meanwhile, so that it is refused. Sums over
finite sets are folds; what adding or removing an element does to one is proved
by induction over finite sets (`SubsetInduction`).

**Block** (`LayoutIsSound`, `BlockTypeOK`, `BlockHeldBlocks`, `BlockFreeIsFound`,
`BlockKeepsContract`). That the layout fits is arithmetic about rounded
quotients: the counters for fewer blocks are no larger (`CounterBytesMonotone`),
so one block given up for the counters is enough. Multiples and quotients have
lemmas, as the solvers do not find them. The invariant is types and
`HeldBlocks`. With it every step is a step of `AllocatorContract` under the
mapping of `live` and `ret` to themselves: the block handed out had its bit
clear, so it is none of those held (`BlocksApart`), is aligned (`PointerType`),
and lies inside (`BlockInside`); the pointer a caller gives back leads to its
own bit (`IndexOfPointer`), and one into a block is told from it (`SkewedFound`),
which is what deallocate goes by; in reallocate it is the exception
`AnswersSkewed`. `LayoutIsSound` assumes, as `BlockAssumption` does, that the
block size create computes is not zero: for size 0 without guards it divides by
zero. That a free block is found is counting: pointers and
set bits correspond one to one (`HeldCount`), so one of the blocks has a clear
bit, and the groups searched cover all of them (`SearchCoversBlocks`); the
search takes the lowest clear bit that it passes (`LowestOf`), and no bit behind
the blocks' is in its way.

**String stream** (`StringTypeCorrect`, `StringKeepsItsLog`). The invariant is
types, and that the list of a format call under way ends with `FMT_END`, so that
what the loop takes from it is a value a caller gave. Every step then is one of
`TextLog`, with the text before the position as its `text`: copying to the
position appends, but where a byte is skipped; a failed custom value moves the
position back to where it was, whatever bytes it left behind; and setting the
position takes a first part. A write that overflows the buffer is the last step
of a behaviour: the theorems speak of what comes before, and say that no other
call moves the position out of the buffer.

**Output stream** (`OutputTypeCorrect`, `OutputKeepsAllPromised`,
`OutputStaysInOrder`, `OutputFlushDeliversAll`). One lemma per operator says
what *every* outcome of it does (`Sound`): it keeps all that was in the file and
in the buffer, holds what the write promises unless it failed, and, unless the
file failed, appends an end of what was given, the whole of it but for the
`string8_t` that does not fit. The three invariants follow from these three, for
any state: loss, order and delivery are not argued again per writer. A format
call needs the same list invariant as in the string stream. `OutputFlushDelivers`
(after a flush that succeeded, the file has every byte promised) is in no run's
configuration; TLC agrees with it in the model of `Text`.

**Integer format** (`FormatFillsOutput`). The output is written backwards, from
the end of the space that `format8_integer_length` asks for. The invariant,
`IntegerInv`, says of every step that the room left is what is still to come:
the sign, then the digits of what is left of the value, the zeros in front of
them, and the separators of all groups less those of the groups already ended,
each counted as the length function counts. The code, however, counts down to
the next separator; `counter` must be the place of the digit in its group
(`InGroup`), and passing from one group to the next is a fact about quotients
and remainders (`GroupsEnded`). The loop over digits ends without looking for a
separator, the loop over zeros compares first and writes then, and where one
hands over to the other the last group may have ended unnoticed: from there on
the invariant is the alternative `MissesSeparators` in `ZerosInv`, with the
counter past the distance for good. That this is the *only* way to come short is
what the theorem adds to the run. `DigitsOf` is a recursive function on the
natural numbers; that it exists is proved by induction over sets of them.

**Split** (`SplitIsExact`). The invariant, `SplitInv`, has two halves. `Kept`:
the sections put out, joined by delimiters, are the text up to what remains, and
no section holds a delimiter. `Greedy`: as many delimiters as were found can be
chosen in the text so that no two overlap, all of them before what remains; and
no such choice has more that begin there. A step finds the first occurrence in
what remains, so any other choice has at most one more that begins before its
end: two would overlap. At the last section no occurrence is left, and so what
was found is the most there are (`MostDelimiters`). The lemmas about positions
in what is left of a string (`Advanced`) are its own; those about joined
sequences are the library's.

**Text** (`TextTypeCorrect`, `TextCorrect`). What the run `TextAndIterators` checks of
`Text` in every state is proved of the same specification: each behaviour follows one part, and
the other parts stay in states of which their invariants hold.

**Multi-dimensional index** (`MultidimTypeCorrect`, `MultidimMovesRight`). The
invariant, `MultidimInv`, says that the dimensions given so far are those asked
for; that the offsets lie within them once all were given, and are zero before;
and that those of the copy do. Only the last offset may be at its dimension's
size; with all others at their last, that is the end, and no other offsets count
as much (`EndIsLast`), as none but zeros count nothing (`StartIsZero`). What offsets count is added up
dimension by dimension (`IsValue`), each with the size of all dimensions behind
it as its weight (`IsWeight`); that the three recursive functions of the code's
loops, the flat index, the total size and the stride, are this sum and these
weights is proved by induction over sets of natural numbers (`ValueOf`,
`SizeWeight`, `StrideWeight`). Advancing a dimension carries into those in front
of it what does not fit, receding borrows from them: what each dimension is left
with, and what it passes on, together count what came in, so that the sum grows
by the step times the stride (`CarryAdds`; receding is the same equation with
the two states exchanged), unless the foremost dimension overflows, which is to
say that the sum would reach the total size (`CarryLeaves`), or fall below zero
(`BorrowLeaves`). The code then goes to the end, or to the start.

**Defaults** (`DefaultsTypeOK`, `DefaultsCallWhole`, `DefaultsGiveBack`). The
invariant follows a copy of the global allocator from its first field to its
last, and a call from its pointer to its last field. Unless two copies were
mixed there is one copier at most and what it has copied is of its source; so
when nobody copies, the global allocator is whole, and a call during which
nobody copied has read all its fields from one allocator. A block whose thread's
default was not changed since is of the current default, and so is the call that
gives it back.

**Layout** (`BlockServesRequest`). Wherever an aligned block of the size computed
starts, the pointer is aligned, the request lies between the guards, and the
block behind it is aligned again, for every request that does not wrap around,
if the guards are whole units of the alignment. That the size suffices is a
lemma (`BlockHoldsRequest`), which three allocators use.

**Defragmentation** (`DefragmentTypeOK`, `DefragmentKeepsMemory`,
`DefragmentSorts`, `DefragmentSmallArraysExact`). The theorems assume that
offsets and sizes are natural numbers (`DefragmentAssumption`) and what the
allocator hands over (`Init`): blocks apart, the last of which is the leftmost
and alone in being empty, if one is. The invariant `Runs` says, loop by loop, which
entries count (`Unmerged`, and `Moving` while the kept ones move to the front),
that they cover what was passed and lie apart (`Exact`), and how far they are
sorted (`Falling`); in the scan also that the entry in place lies behind the end
of all those compared with it. What is kept is sorted *by blocks* only because
a block that holds memory and starts no lower than another one apart from it
starts where that has ended (`HigherIsBehind`); so emptiness must be ruled out
for every entry but the last, and the last must stay where it is, which it does
as the leftmost (`FirstBlockLast`). It follows that the scan never finds an
empty entry in place: the code's branch for one is never taken from such arrays.
A swap (`ExchangeSorting`), a merge (`SwallowSorting`) and a move to the front
(`MoveCompacting`) each have a lemma about arrays; a lemma per loop then follows
the local variables. About the last loop the invariant speaks of arrays of up to
three blocks, none of them empty: two entries at most are kept then, the entry behind them starts no
lower than the last of them and so is never taken for its neighbour, and one
merge at most is left. With more blocks memory is kept twice, which
`FixedSizeDefragment` shows.

Checked by TLC alone: the fixed-size allocator's `Spec`, which callers may
defragment (the theorems are about `ServeSpec`, and those above about one
defragmentation), and `BlockArrayDefragment!Run`, which is a recursive operator;
the stack with pointers given back twice late, or stale tops; and combinations and
permutations (with them the types of `MCIterators`, but for those of the index,
which `MultidimTypeCorrect` has).
Their order, number and indices are properties of recursive definitions for
every input, an induction over data, and they do not hold for every value of the
constants, since counts wrap around at `CountLimit`.
Termination (`Terminates`) is a liveness property, which TLAPS does not prove.

## 5. Not modelled

- *OS allocator.* It keeps a mapping info in front of each block and calls
  `mmap` or `VirtualAlloc`. What it does wrong (a block that grows is copied and
  its old mapping kept; deallocation unmaps no bytes) would show only against a
  model of the kernel's page map, which would be most of the model.
- *`cutl_alloc_group`.* One allocation and a division of it; it keeps no state.
- *Floats and exponential notation* (`format8_float`, `format8_exponential`).
  Their lengths depend on C's floating point, rounding included.
- *The other string operations.* Comparison, searches from the end, prefixes and
  suffixes: pure functions of a line or two. Trimming depends on cutf, a
  submodule whose sources are not in the repository.
- *Error messages.* A table.
- *Within the modelled parts:* the create functions on memory too small for their
  own header (sizes wrap around there); pointers kept across `clear`; giving back
  twice to the block allocator; guard patterns byte by byte; an output stream
  without a buffer and a split by an empty delimiter, neither of which ends;
  permutations of no elements; dimensions of no size.

Those that are a hazard are in `PROJECT.json` under "hazards", with their lines.

## 6. Plan

1. *Done.* The fixed-size allocator with its table and defragmentation, and the
   proofs about the table.
2. *Done.* `AllocatorContract`, then the stack, arena and block allocators as
   implementations of it; the proofs about the block allocator.
3. *Done.* `TextLog`, then the string stream as an implementation of it, and the
   output stream, which is one but for what `OutputLoses` shows; proofs of both.
4. *Done.* `DefaultAllocators`, with proofs.
5. *Done.* The iterators, integer formatting and splitting.
6. *Done.* The proofs of `HeldBlocks`, `NoGaps`, `DamagedKeptBack` and
   `ReallocateKeepsContents` of the fixed-size allocator; of all properties of
   the arena and of the stack, their contracts included; and of
   defragmentation; of the fixed-size allocator's contract, of integer
   formatting, of splitting, of what `Text` composes, and of the
   multi-dimensional index.
7. Searches from the end, prefixes and suffixes, against definitions by
   quantifiers, if they ever carry more than they do now.
