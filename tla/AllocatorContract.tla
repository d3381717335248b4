-------------------------- MODULE AllocatorContract --------------------------
(***************************************************************************)
(* What every allocator of cutl promises the code that calls it through    *)
(* cutl_allocator_t (allocators.h), whatever its bookkeeping: what it      *)
(* hands out is aligned, lies in its memory, and shares no byte with what  *)
(* callers still hold; and a call changes no allocation but the one it is  *)
(* about.                                                                  *)
(*                                                                         *)
(* The allocators of this project each implement this specification: it is *)
(* an action property of their runs.                                       *)
(***************************************************************************)
EXTENDS Integers

CONSTANTS
  Alignment,   \* what addresses are aligned to
  MemorySize   \* the bytes the allocator hands out of

VARIABLES
  live,        \* the allocations callers hold: pointer -> size asked for
  ret          \* the last call: its name `op' and pointer `arg', its
               \* `status', and the pointer it returned, `result'

Init == live = << >>

-----------------------------------------------------------------------------

Succeeded == ret'.status = "SUCCESS"

Without(allocs, p) == [q \in DOMAIN allocs \ {p} |-> allocs[q]]

\* Memory of the given size at p is free for the callers that hold `held'.
IsFree(p, size, held) ==
  /\ p % Alignment = 0
  /\ p >= 0
  /\ p + size <= MemorySize
  /\ \A q \in DOMAIN held : p + size <= q \/ q + held[q] <= p

\* The pointer returned is added to what was held.
Granted(held) ==
  /\ DOMAIN live' = DOMAIN held \cup {ret'.result}
  /\ \A q \in DOMAIN held \ {ret'.result} : live'[q] = held[q]
  /\ IsFree(ret'.result, live'[ret'.result], held)

Allocate ==
  /\ ret'.op = "allocate"
  /\ IF Succeeded THEN Granted(live) ELSE UNCHANGED live

\* Only what is held is ever given back: no pointer is released twice.
Deallocate ==
  /\ ret'.op = "deallocate"
  /\ IF Succeeded
     THEN ret'.arg \in DOMAIN live /\ live' = Without(live, ret'.arg)
     ELSE UNCHANGED live

\* A reallocation that fails may have lost the caller its allocation: see
\* FailedReallocateKeeps of FixedSizeAllocator.
Reallocate ==
  /\ ret'.op = "reallocate"
  /\ IF Succeeded
     THEN ret'.arg \in DOMAIN live /\ Granted(Without(live, ret'.arg))
     ELSE UNCHANGED live \/ live' = Without(live, ret'.arg)

\* Calls that release many allocations at once.
ManyOps == {"reset", "restore_top", "clear", "release", "destroy"}

ReleaseMany ==
  /\ ret'.op \in ManyOps
  /\ DOMAIN live' \subseteq DOMAIN live
  /\ \A q \in DOMAIN live' : live'[q] = live[q]

\* Every other call.
Observe ==
  /\ ret'.op \notin {"allocate", "deallocate", "reallocate"} \cup ManyOps
  /\ UNCHANGED live

\* Behaviour that C leaves undefined promises nothing.
Fails == ret'.status = "UNDEFINED"

Next ==
  \/ Allocate \/ Deallocate \/ Reallocate \/ ReleaseMany \/ Observe
  \/ Fails

Spec == Init /\ [][Next]_<< live, ret >>
=============================================================================
