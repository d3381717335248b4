-------------------------- MODULE DefaultAllocators --------------------------
(***************************************************************************)
(* The default allocators (allocators.c): one for all threads, one of its  *)
(* own for each thread that sets it, and malloc when there is neither.     *)
(*                                                                         *)
(* Nothing synchronises the threads.  The global allocator is a struct     *)
(* that is copied field by field, in an order that C leaves open, after it *)
(* is marked as set; who asks for the default gets a pointer to the        *)
(* struct, and reads its fields when calling it.                           *)
(*                                                                         *)
(* Each thread holds at most one block, which remembers the allocator it   *)
(* came from: the function and the state that allocated it.                *)
(***************************************************************************)
EXTENDS Integers

CONSTANTS
  Threads,
  Allocators,   \* those that are set as defaults
  Std,          \* CUTL_STD_ALLOCATOR
  None          \* no allocator: a field that was never written, and an unset
                \* default

ASSUME DefaultAssumption ==
  /\ Std \notin Allocators
  /\ None \notin Allocators \cup {Std}

\* The fields of cutl_allocator_t, of which any of the functions stands for
\* all.
Fields == {"function", "state"}

Whole(a) == [f \in Fields |-> a]

NoBlock == Whole(None)

VARIABLES
  isSet,     \* GLOBAL_ALLOCATOR_SET
  global,    \* GLOBAL_ALLOCATOR
  own,       \* THREAD_ALLOCATOR of each thread, or None
  pc,        \* what each thread is doing: nothing, setting, or calling
  source,    \* the allocator a thread copies
  todo,      \* the fields a thread has not yet copied or read
  pointer,   \* the allocator a thread got: "own", "global" or "std"
  got,       \* the fields it has read
  block,     \* the allocator of the block each thread holds
  mixed,     \* whether two threads copied to the global allocator at once
  disturbed, \* whether it was copied to since the thread got a pointer
  changed    \* whether the thread's default was set since it asked for the
             \* allocator of its block

vars == << isSet, global, own, pc, source, todo, pointer, got, block,
           mixed, disturbed, changed >>

DefaultInit ==
  /\ isSet = FALSE
  /\ global = Whole(None)
  /\ own = [t \in Threads |-> None]
  /\ pc = [t \in Threads |-> "idle"]
  /\ source = [t \in Threads |-> None]
  /\ todo = [t \in Threads |-> {}]
  /\ pointer = [t \in Threads |-> "std"]
  /\ got = [t \in Threads |-> Whole(None)]
  /\ block = [t \in Threads |-> NoBlock]
  /\ mixed = FALSE
  /\ disturbed = [t \in Threads |-> FALSE]
  /\ changed = [t \in Threads |-> FALSE]

-----------------------------------------------------------------------------

Copying == {t \in Threads : pc[t] = "setting"}
Calling == {t \in Threads : pc[t] \notin {"idle", "setting"}}

\* The default of threads without one of their own is being changed.
GlobalChanges == changed' = [t \in Threads |-> changed[t] \/ own[t] = None]
Disturbs == disturbed' = [t \in Threads |-> t \in Calling]

\* cutl_allocator_set_global: the mark is set first
BeginSetGlobal(t, a) ==
  /\ pc[t] = "idle"
  /\ isSet' = TRUE
  /\ pc' = [pc EXCEPT ![t] = "setting"]
  /\ source' = [source EXCEPT ![t] = a]
  /\ todo' = [todo EXCEPT ![t] = Fields]
  /\ mixed' = (Copying # {})
  /\ Disturbs
  /\ GlobalChanges
  /\ UNCHANGED << global, own, pointer, got, block >>

CopyField(t, f) ==
  /\ pc[t] = "setting"
  /\ f \in todo[t]
  /\ global' = [global EXCEPT ![f] = source[t]]
  /\ todo' = [todo EXCEPT ![t] = @ \ {f}]
  /\ pc' = [pc EXCEPT ![t] = IF todo'[t] = {} THEN "idle" ELSE "setting"]
  /\ source' = [source EXCEPT ![t] = IF todo'[t] = {} THEN None ELSE @]
  /\ Disturbs
  /\ GlobalChanges
  /\ UNCHANGED << isSet, own, pointer, got, block, mixed >>

\* Faulty: the struct is wiped as well.
UnsetTo == Whole(None)

\* The struct is left as it is.
Unset == global

UnsetGlobal(t) ==
  /\ pc[t] = "idle"
  /\ isSet' = FALSE
  /\ global' = Unset
  /\ GlobalChanges
  /\ UNCHANGED << own, pc, source, todo, pointer, got, block, mixed, disturbed >>

\* cutl_allocator_set_thread, which only its thread notices; None unsets it.
SetThread(t, a) ==
  /\ pc[t] = "idle"
  /\ own' = [own EXCEPT ![t] = a]
  /\ changed' = [changed EXCEPT ![t] = TRUE]
  /\ UNCHANGED << isSet, global, pc, source, todo, pointer, got, block, mixed,
                  disturbed >>

-----------------------------------------------------------------------------

\* Faulty: the global allocator comes before the thread's own.
DefaultGlobalFirst(t) ==
  IF isSet THEN "global" ELSE IF own[t] # None THEN "own" ELSE "std"

\* cutl_allocator_get_default
Default(t) ==
  IF own[t] # None THEN "own" ELSE IF isSet THEN "global" ELSE "std"

\* A thread without a block allocates one (cutl_alloc_default), a thread with a
\* block resizes or releases it (cutl_realloc_default, cutl_dealloc_default).
\* Sizes are above zero, and nullptr is not given back.
GetDefault(t, op) ==
  /\ pc[t] = "idle"
  /\ (op = "allocate") = (block[t] = NoBlock)
  /\ pc' = [pc EXCEPT ![t] = op]
  /\ pointer' = [pointer EXCEPT ![t] = Default(t)]
  /\ todo' = [todo EXCEPT ![t] = Fields]
  /\ disturbed' = [disturbed EXCEPT ![t] = Copying # {}]
  /\ changed' =
       [changed EXCEPT ![t] =
          IF op = "allocate" THEN own[t] = None /\ Copying # {} ELSE @]
  /\ UNCHANGED << isSet, global, own, source, got, block, mixed >>

Pointed(t) ==
  CASE pointer[t] = "own" -> Whole(own[t])
    [] pointer[t] = "global" -> global
    [] pointer[t] = "std" -> Whole(Std)

\* cutl_alloc, cutl_realloc and cutl_dealloc read the function and the state.
ReadField(t, f) ==
  /\ t \in Calling
  /\ f \in todo[t]
  /\ got' = [got EXCEPT ![t][f] = Pointed(t)[f]]
  /\ todo' = [todo EXCEPT ![t] = @ \ {f}]
  /\ UNCHANGED << isSet, global, own, pc, source, pointer, block, mixed,
                  disturbed, changed >>

IsAboutToCall(t) == t \in Calling /\ todo[t] = {}

\* What the thread may hold after the call: a call for memory may fail.
Results(t) == IF pc[t] = "deallocate" THEN {NoBlock} ELSE {got[t], block[t]}

\* A call of a function that was never written is undefined: the program ends.
Call(t) ==
  /\ IsAboutToCall(t)
  /\ got[t]["function"] # None
  /\ \E result \in Results(t) : block' = [block EXCEPT ![t] = result]
  /\ pc' = [pc EXCEPT ![t] = "idle"]
  /\ pointer' = [pointer EXCEPT ![t] = "std"]
  /\ got' = [got EXCEPT ![t] = Whole(None)]
  /\ disturbed' = [disturbed EXCEPT ![t] = FALSE]
  /\ UNCHANGED << isSet, global, own, source, todo, mixed, changed >>

Next ==
  \E t \in Threads :
    \/ \E a \in Allocators : BeginSetGlobal(t, a)
    \/ \E f \in Fields : CopyField(t, f) \/ ReadField(t, f)
    \/ UnsetGlobal(t)
    \/ \E a \in Allocators \cup {None} : SetThread(t, a)
    \/ \E op \in {"allocate", "reallocate", "deallocate"} : GetDefault(t, op)
    \/ Call(t)

Spec == DefaultInit /\ [][Next]_vars

-----------------------------------------------------------------------------
(***************************************************************************)
(* Properties                                                              *)
(***************************************************************************)

Operations == {"allocate", "reallocate", "deallocate"}

\* Every variable has its type; only what a default was set to is ever found
\* in the global allocator.
TypeOK ==
  /\ isSet \in BOOLEAN
  /\ global \in [Fields -> Allocators \cup {None}]
  /\ own \in [Threads -> Allocators \cup {None}]
  /\ pc \in [Threads -> {"idle", "setting"} \cup Operations]
  /\ source \in [Threads -> Allocators \cup {None}]
  /\ todo \in [Threads -> SUBSET Fields]
  /\ pointer \in [Threads -> {"own", "global", "std"}]
  /\ got \in [Threads -> [Fields -> Allocators \cup {Std, None}]]
  /\ block \in [Threads -> [Fields -> Allocators \cup {Std, None}]]
  /\ mixed \in BOOLEAN
  /\ disturbed \in [Threads -> BOOLEAN]
  /\ changed \in [Threads -> BOOLEAN]

\* What a thread calls is an allocator, and not fields of two of them or none:
\* its own whatever other threads do, and the global one unless that was being
\* copied to meanwhile, or was by two threads at once the last time.
CallsWholeAllocator ==
  \A t \in Threads : IsAboutToCall(t) =>
    CASE pointer[t] = "own" -> own[t] # None /\ got[t] = Whole(own[t])
      [] pointer[t] = "std" -> got[t] = Whole(Std)
      [] pointer[t] = "global" ->
           mixed \/ disturbed[t] \/ \E a \in Allocators : got[t] = Whole(a)

\* A block is given back to the allocator it came from, unless the default of
\* its thread was set since then: the global one does not matter to a thread
\* with one of its own.
GivesBackToOrigin ==
  \A t \in Threads :
    IsAboutToCall(t) /\ pc[t] # "allocate" => got[t] = block[t] \/ changed[t]
=============================================================================
