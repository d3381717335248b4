--------------------------- MODULE StackAllocator ---------------------------
(***************************************************************************)
(* The stack allocator (stack_allocator.c) and the code that uses it.      *)
(*                                                                         *)
(* Blocks are stacked up in data[]; each carries its size and state twice, *)
(* in front of its memory and behind it:                                   *)
(*                                                                         *)
(*   | info | front guard | usable memory ... | rear guard | info |        *)
(*                        ^ the pointer the caller gets                    *)
(*                                                                         *)
(* A block that is given back below the top is only marked free; it is     *)
(* popped when everything above it has gone, by walking down from the top  *)
(* over the infos behind the blocks.                                       *)
(*                                                                         *)
(* What stands in data[] is modelled by `info', the infos that can still   *)
(* be read, by their offset: one that lies in memory handed out later is   *)
(* as good as overwritten.  Running into undefined behaviour is the last   *)
(* step of a behaviour.                                                    *)
(***************************************************************************)
EXTENDS AllocatorLayout, Integers, FiniteSets

CONSTANTS
  Capacity,    \* size: the bytes of data[]
  InfoSize,    \* STACK_BLOCK_INFO_SIZE
  Sizes,       \* the sizes callers ask for
  MaxMarks,    \* how many tops callers keep at a time (bounds the model)
  MaxReturned, \* how many pointers they remember giving back (likewise)
  KeepStale,   \* whether callers keep a top that blocks have moved across
  GiveBackLate \* whether they give back again what others may stand over now

ASSUME StackAssumption ==
  /\ Capacity \in Nat
  /\ InfoSize \in Nat \ {0} /\ InfoSize % Alignment = 0
  /\ GuardBytes % Alignment = 0
  /\ Sizes \subseteq Nat \ {0}
  /\ \A size \in Sizes :
       size + 2 * InfoSize + Alignment - 1 + GuardTotal < SizeLimit
  /\ MaxMarks \in Nat /\ MaxReturned \in Nat
  /\ KeepStale \in BOOLEAN /\ GiveBackLate \in BOOLEAN

VARIABLES
  top,         \* the bytes in use
  info,        \* offset -> [size, state], the infos that can be read
  live,        \* the allocations callers hold: pointer -> size asked for
  returned,    \* pointers given back one by one that may be given back again
  damaged,     \* pointers of allocations whose guards were overwritten
  marks,       \* the tops callers keep -> what they held then, and still do
  ret          \* the last call, its result code, result, and bytes copied

vars == << top, info, live, returned, damaged, marks, ret >>

Undefined == "UNDEFINED"
Null == 0

Answer(op, arg, status, result, bytes) ==
  [op |-> op, arg |-> arg, status |-> status, result |-> result,
   bytes |-> bytes]

Init ==
  /\ top = 0
  /\ info = << >>
  /\ live = << >>
  /\ returned = {}
  /\ damaged = {}
  /\ marks = << >>
  /\ ret = Answer("create", Null, "SUCCESS", Null, 0)

-----------------------------------------------------------------------------

Defined == ret.status # Undefined

\* Where the block of a pointer starts, and the pointer of a block.
Head(p) == p - UserOffset - InfoSize
PointerTo(start) == start + InfoSize + UserOffset

Only(f, S) == [x \in DOMAIN f \cap S |-> f[x]]
Without(allocs, p) == [q \in DOMAIN allocs \ {p} |-> allocs[q]]
With(allocs, p, size) ==
  [q \in DOMAIN allocs \cup {p} |-> IF q = p THEN size ELSE allocs[q]]

Smaller(a, b) == IF a < b THEN a ELSE b

\* The infos after those of a block were written at both of its ends; what
\* lies between is the caller's.
Bracket(infos, start, size, state) ==
  LET kept == {o \in DOMAIN infos : o < start \/ o >= start + size}
      ends == {start, start + size - InfoSize}
  IN [o \in kept \cup ends |->
        IF o \in ends THEN [size |-> size, state |-> state] ELSE infos[o]]

\* Faulty: only the info in front of the block is changed.
RestateHead(infos, start, state) ==
  [infos EXCEPT ![start].state = state]

\* The infos after both of a block's were given another state.
Restate(infos, start, state) ==
  LET ends == {start, start + infos[start].size - InfoSize}
  IN [o \in DOMAIN infos |->
        IF o \in ends THEN [size |-> infos[o].size, state |-> state]
                      ELSE infos[o]]

\* The tops callers keep when the stack has been as low as t.
KeptMarks(t) == IF KeepStale THEN marks ELSE Only(marks, 0 .. t)

\* The pointers callers may give back once more after p was given back ...
Remember(kept, p) ==
  IF Cardinality(kept) < MaxReturned THEN kept \cup {p} ELSE kept

\* ... and those they still may when a block has been laid out since.
StillReturned == IF GiveBackLate THEN returned ELSE {}

\* A pointer given back is held by nobody.
Forget(p, kept) == [m \in DOMAIN kept |-> kept[m] \ {p}]

Fail(op, p, status) ==
  /\ ret' = Answer(op, p, status, Null, 0)
  /\ UNCHANGED << top, info, live, returned, damaged, marks >>

-----------------------------------------------------------------------------
(***************************************************************************)
(* Allocation                                                              *)
(***************************************************************************)

\* The size of the block for a request.
Total(size) == BlockSize(size + 2 * InfoSize)

\* Faulty: the infos are left out of account.
FitsUsable(total) == top + total - 2 * InfoSize <= Capacity

Fits(total) == top + total <= Capacity

\* cutl_allocator_stack_allocate
AllocateOutOfMemory(size) ==
  /\ Defined
  /\ ~Fits(Total(size))
  /\ Fail("allocate", Null, "OUT_OF_MEMORY")

Allocate(size) ==
  LET p == PointerTo(top)
  IN /\ Defined
     /\ Fits(Total(size))
     /\ top' = top + Total(size)
     /\ info' = Bracket(info, top, Total(size), "USED")
     /\ live' = With(live, p, size)
     /\ returned' = StillReturned \ {p}
     /\ ret' = Answer("allocate", Null, "SUCCESS", p, 0)
     /\ UNCHANGED << damaged, marks >>

-----------------------------------------------------------------------------
(***************************************************************************)
(* Deallocation                                                            *)
(***************************************************************************)

\* Faulty: a free block is not told from one in use.
InspectSizes(infos, start, intact) ==
  LET tail == start + infos[start].size - InfoSize
  IN IF start \notin DOMAIN infos THEN Undefined
     ELSE IF ~intact THEN "CORRUPTED_POINTER"
     ELSE IF tail \notin DOMAIN infos THEN Undefined
     ELSE IF infos[tail].size = infos[start].size THEN "SUCCESS"
     ELSE "CORRUPTED_POINTER"

\* stack_memory_info_blocks: whether the block that starts at `start' looks
\* like one in use, with its guards intact or not.
Inspect(infos, start, intact) ==
  LET tail == start + infos[start].size - InfoSize
  IN IF start \notin DOMAIN infos THEN Undefined
     ELSE IF ~intact THEN "CORRUPTED_POINTER"
     ELSE IF infos[start].state = "FREE" THEN "DOUBLE_DEALLOCATION"
     ELSE IF tail \notin DOMAIN infos THEN Undefined
     ELSE IF infos[tail] = infos[start] THEN "SUCCESS"
     ELSE IF infos[tail].state = "FREE" THEN "DOUBLE_DEALLOCATION"
     ELSE "CORRUPTED_POINTER"

\* Faulty: only the block at the top is popped.
PopOne(infos, start) == [top |-> start, status |-> "SUCCESS"]

\* The loop that pops free blocks.  The block that starts at `start' has been
\* popped; the one below is found by the info that ends there.
Pop(infos, start) ==
  LET popped[t \in 0 .. Capacity] ==
        LET below == t - infos[t - InfoSize].size
        IN IF t = 0 THEN [top |-> t, status |-> "SUCCESS"]
           ELSE IF t - InfoSize \notin DOMAIN infos
             THEN [top |-> t, status |-> Undefined]
           ELSE IF below \notin DOMAIN infos
             THEN [top |-> t, status |-> Undefined]
           ELSE IF infos[below] # infos[t - InfoSize]
             THEN [top |-> t, status |-> "CORRUPTED_POINTER"]
           ELSE IF infos[below].state = "USED"
             THEN [top |-> t, status |-> "SUCCESS"]
           ELSE popped[below]
  IN popped[start]

\* What cutl_allocator_stack_deallocate makes of the infos and the top, and
\* what it answers.
GiveBack(infos, t, start, intact) ==
  LET status == Inspect(infos, start, intact)
      freed  == Restate(infos, start, "FREE")
      popped == Pop(freed, start)
  IN IF status # "SUCCESS"
       THEN [info |-> infos, top |-> t, status |-> status]
     ELSE IF start + infos[start].size # t
       THEN [info |-> freed, top |-> t, status |-> "SUCCESS"]
     ELSE [info |-> freed, top |-> popped.top, status |-> popped.status]

\* A pointer outside of data[].
DeallocateForeign(p) ==
  /\ Defined
  /\ p < 0 \/ p >= Capacity
  /\ Fail("deallocate", p, "MISMATCHED_ALLOCATOR")

\* Both infos of a block are still there.
Readable(infos, start) ==
  /\ start \in DOMAIN infos
  /\ start + infos[start].size - InfoSize \in DOMAIN infos

\* An info has been written over a guard of the block that seems to start at
\* `start'.
GuardsLost(start) ==
  LET front == start + InfoSize
      rear  == start + info[start].size - InfoSize - GuardBytes
  IN /\ GuardBytes > 0
     /\ \E o \in DOMAIN info, g \in {front, rear} :
          o < g + GuardBytes /\ g < o + InfoSize

\* Whether the guards of a block can be found intact, or not.  Where other
\* blocks were laid over it they may be anything else.
Guarded(p, intact) ==
  /\ GuardBytes = 0 => intact
  /\ Head(p) \in DOMAIN info /\ GuardsLost(Head(p)) => ~intact
  /\ p \in DOMAIN live /\ Readable(info, Head(p)) => intact = (p \notin damaged)

\* A pointer that was handed out.
Deallocate(p, intact) ==
  LET out == GiveBack(info, top, Head(p), intact)
  IN /\ Defined
     /\ p \in DOMAIN live \cup returned
     /\ Guarded(p, intact)
     /\ ret' = Answer("deallocate", p, out.status, Null, 0)
     /\ top' = out.top
     /\ info' = out.info
     /\ IF out.status = "SUCCESS"
        THEN /\ live' = Without(live, p)
             /\ returned' = Remember(returned, p)
             /\ marks' = Forget(p, KeptMarks(out.top))
        ELSE UNCHANGED << live, returned, marks >>
     /\ UNCHANGED damaged

-----------------------------------------------------------------------------
(***************************************************************************)
(* cutl_allocator_stack_reallocate, one action per way through it          *)
(***************************************************************************)

OldSize(p) == info[Head(p)].size

\* The size of the block the call needs.
Adjusted(size) == BlockSize(size) + 2 * InfoSize

ReallocateForeign(p) ==
  /\ Defined
  /\ p < 0 \/ p >= Capacity
  /\ Fail("reallocate", p, "MISMATCHED_ALLOCATOR")

ReallocateReject(p, intact) ==
  LET status == Inspect(info, Head(p), intact)
  IN /\ Defined
     /\ p \in DOMAIN live \cup returned
     /\ Guarded(p, intact)
     /\ status # "SUCCESS"
     /\ Fail("reallocate", p, status)

Found(p) ==
  /\ Defined
  /\ p \in DOMAIN live \cup returned
  /\ \E intact \in BOOLEAN : /\ Guarded(p, intact)
                             /\ Inspect(info, Head(p), intact) = "SUCCESS"

OnTop(p) == top = Head(p) + OldSize(p)

\* The block is large enough as it is.
ReallocateSame(p, size) ==
  /\ Found(p)
  /\ Adjusted(size) <= OldSize(p)
  /\ live' = With(live, p, size)
  /\ ret' = Answer("reallocate", p, "SUCCESS", p, 0)
  /\ UNCHANGED << top, info, returned, damaged, marks >>

\* The block at the top grows without looking for the end of data[]: its new
\* rear info and guard may be written behind it.
ReallocateInPlace(p, size) ==
  /\ Found(p)
  /\ Adjusted(size) > OldSize(p)
  /\ OnTop(p)
  /\ top' = Head(p) + Adjusted(size)
  /\ IF top' > Capacity
     THEN /\ ret' = Answer("reallocate", p, Undefined, Null, 0)
          /\ UNCHANGED << info, live, returned, marks >>
     ELSE /\ info' = Bracket(info, Head(p), Adjusted(size), "USED")
          /\ live' = With(live, p, size)
          /\ returned' = StillReturned
          /\ marks' = KeptMarks(Head(p))
          /\ ret' = Answer("reallocate", p, "SUCCESS", p, 0)
  /\ UNCHANGED damaged

\* Faulty: as many bytes as the new block is asked for.
CopyRequested(p, size) == size

\* What memcpy is told to copy.
CopiedBytes(p, size) ==
  Smaller(UsableSize(OldSize(p) - 2 * InfoSize), size)

\* A new block on top: the old one is given back after its contents were
\* copied, and whatever that call answers is ignored.
ReallocateMove(p, size) ==
  LET q     == PointerTo(top)
      above == Bracket(info, top, Total(size), "USED")
  IN /\ Found(p)
     /\ Adjusted(size) > OldSize(p)
     /\ ~OnTop(p)
     /\ IF ~Fits(Total(size))
        THEN Fail("reallocate", p, "OUT_OF_MEMORY")
        ELSE \E intact \in BOOLEAN :
               LET out == GiveBack(above, top + Total(size), Head(p), intact)
               IN /\ Readable(above, Head(p)) => intact
                  /\ top' = out.top
                  /\ info' = out.info
                  /\ live' = With(Without(live, p), q, size)
                  /\ returned' = Remember(StillReturned, p) \ {q}
                  /\ marks' = Forget(p, marks)
                  /\ ret' = Answer("reallocate", p,
                                   IF out.status = Undefined
                                   THEN Undefined ELSE "SUCCESS",
                                   q, CopiedBytes(p, size))
                  /\ UNCHANGED damaged

Reallocate(p, size) ==
  \/ ReallocateSame(p, size)
  \/ ReallocateInPlace(p, size)
  \/ ReallocateMove(p, size)

-----------------------------------------------------------------------------
(***************************************************************************)
(* Releasing many allocations, and the code around the allocator           *)
(***************************************************************************)

\* cutl_allocator_stack_reset
Reset ==
  /\ Defined
  /\ top' = 0
  /\ live' = << >>
  /\ returned' = {}
  /\ damaged' = {}
  /\ marks' = [m \in DOMAIN KeptMarks(0) |-> {}]
  /\ ret' = Answer("reset", Null, "SUCCESS", Null, 0)
  /\ UNCHANGED info

\* cutl_allocator_stack_get_top, by a caller that keeps the answer.
GetTop ==
  /\ Defined
  /\ Cardinality(DOMAIN marks \cup {top}) <= MaxMarks
  /\ marks' = With(marks, top, DOMAIN live)
  /\ ret' = Answer("get_top", Null, "SUCCESS", top, 0)
  /\ UNCHANGED << top, info, live, returned, damaged >>

\* What restore_top makes of the top: it is only ever lowered.
LowerTop(m) == IF top > m THEN m ELSE top

\* cutl_allocator_stack_restore_top, to a top that get_top has answered: all
\* allocations made since are released, the caller keeps the others.
RestoreTop(m) ==
  /\ Defined
  /\ m \in DOMAIN marks
  /\ top' = LowerTop(m)
  /\ live' = Only(live, marks[m])
  /\ returned' = returned \cap marks[m]
  /\ damaged' = damaged \cap marks[m]
  /\ marks' = [k \in DOMAIN KeptMarks(LowerTop(m)) |-> marks[k] \cap marks[m]]
  /\ ret' = Answer("restore_top", Null, "SUCCESS", m, 0)
  /\ UNCHANGED info

\* A caller writes past the end of its allocation, into the guard.
Overrun(p) ==
  /\ Defined
  /\ GuardBytes > 0
  /\ p \in DOMAIN live \ damaged
  /\ damaged' = damaged \cup {p}
  /\ ret' = Answer("write", p, "SUCCESS", Null, 0)
  /\ UNCHANGED << top, info, live, returned, marks >>

Next ==
  \/ \E size \in Sizes : AllocateOutOfMemory(size) \/ Allocate(size)
  \/ \E p \in {Capacity} : DeallocateForeign(p) \/ ReallocateForeign(p)
  \/ \E p \in DOMAIN live \cup returned :
       \/ \E intact \in BOOLEAN : \/ Deallocate(p, intact)
                                  \/ ReallocateReject(p, intact)
       \/ \E size \in Sizes : Reallocate(p, size)
       \/ Overrun(p)
  \/ Reset
  \/ GetTop
  \/ \E m \in DOMAIN marks : RestoreTop(m)

Spec == Init /\ [][Next]_vars

-----------------------------------------------------------------------------
(***************************************************************************)
(* Properties                                                              *)
(***************************************************************************)

Statuses == {"SUCCESS", "OUT_OF_MEMORY", "MISMATCHED_ALLOCATOR",
             "CORRUPTED_POINTER", "DOUBLE_DEALLOCATION", Undefined}

Operations == {"create", "allocate", "deallocate", "reallocate", "reset",
               "get_top", "restore_top", "write"}

\* Every variable has its type; the top never leaves data[], the infos lie
\* in it, and guards are only watched for allocations that callers hold.
TypeOK ==
  /\ top \in Nat
  /\ Defined => top <= Capacity
  /\ DOMAIN info \subseteq 0 .. Capacity - InfoSize
  /\ \A o \in DOMAIN info : info[o] \in [size : 1 .. Capacity,
                                         state : {"FREE", "USED"}]
  /\ DOMAIN live \subseteq 0 .. Capacity
  /\ \A p \in DOMAIN live : live[p] \in Sizes
  /\ returned \subseteq (0 .. Capacity) \ DOMAIN live
  /\ damaged \subseteq DOMAIN live
  /\ \A m \in DOMAIN marks : m \in Nat /\ marks[m] \subseteq 0 .. Capacity
  /\ ret \in [op : Operations, arg : Nat, status : Statuses,
              result : Nat, bytes : Nat]

Broken == -1

\* Where the blocks below the top start, going down from info to info.
Starts ==
  LET below[t \in 0 .. Capacity] ==
        LET start == t - info[t - InfoSize].size
        IN IF t = 0 THEN {}
           ELSE IF t - InfoSize \notin DOMAIN info THEN {Broken}
           ELSE IF start \notin DOMAIN info THEN {Broken}
           ELSE IF info[start] # info[t - InfoSize] THEN {Broken}
           ELSE {start} \cup below[start]
  IN below[top]

\* The stack can be walked from the top down to the bottom of data[], over
\* infos that agree at both ends of every block, and the blocks in use that
\* are met are those callers hold, each large enough for what was asked for.
WalkDown ==
  Defined =>
    /\ Broken \notin Starts
    /\ DOMAIN live = {PointerTo(s) : s \in {s \in Starts :
                                              info[s].state = "USED"}}
    /\ \A p \in DOMAIN live : UsableSize(OldSize(p) - 2 * InfoSize) >= live[p]

\* No free memory is kept at the top: when a deallocation reaches the blocks
\* freed before, all of them are popped; only a top that a caller restored, or
\* still keeps, may leave a free block there.
TopTight ==
  Defined =>
    \/ top = 0
    \/ top \in DOMAIN marks
    \/ info[top - InfoSize].state = "USED"

\* stack_allocator.h: restoring a top releases the allocations made since the
\* call that answered it, and so none made before: what callers hold, with
\* the guard and the info behind it, lies below the top, out of the way of the
\* next allocation.
HeldBelowTop ==
  Defined =>
    \A p \in DOMAIN live : p + live[p] + GuardBytes + InfoSize <= top

\* A reallocation that moves a block copies all the caller wrote and still
\* has room for, and reads no byte behind the old block.
ReallocateKeepsContents ==
  [][ /\ ret'.op = "reallocate" /\ ret'.status = "SUCCESS"
      /\ ret'.result # ret'.arg
      => /\ ret'.bytes >= Smaller(live[ret'.arg], live'[ret'.result])
         /\ ret'.bytes <= UsableSize(OldSize(ret'.arg) - 2 * InfoSize) ]_vars

\* The stack allocator does what every allocator promises.
Contract == INSTANCE AllocatorContract WITH MemorySize <- Capacity
KeepsContract == Contract!Spec

\* "size: Total size of the stack" (stack_allocator.c): allocations beyond it
\* are refused, so the top never exceeds it.
StackInside == top <= Capacity
=============================================================================
