---------------------- MODULE DefaultAllocators_proofs ----------------------
(***************************************************************************)
(* The default allocators, for any number of threads and of allocators.    *)
(*                                                                         *)
(* The inductive invariant follows a copy of the global allocator from its *)
(* first field to its last, and a call from its pointer to its last field: *)
(* as long as nobody disturbs it, what was copied or read is of one        *)
(* allocator.                                                              *)
(***************************************************************************)
EXTENDS DefaultAllocators, TLAPS

\* The allocator that a thread's default is.
Current(t) ==
  IF own[t] # None THEN Whole(own[t]) ELSE IF isSet THEN global ELSE Whole(Std)

Copied(t) == Fields \ todo[t]

\* A copy is of an allocator, and unless two of them were mixed it is the only
\* one, and has copied some fields of its source.
Copiers ==
  /\ \A t \in Threads : pc[t] = "setting" => source[t] \in Allocators
  /\ ~mixed => \A s, t \in Threads :
       pc[s] = "setting" /\ pc[t] = "setting" => s = t
  /\ ~mixed => \A t \in Threads :
       pc[t] = "setting" => \A f \in Copied(t) : global[f] = source[t]

NobodyCopies == \A t \in Threads : pc[t] # "setting"

IsWhole(a) == \E b \in Allocators : a = Whole(b)

GlobalWhole == ~mixed /\ isSet /\ NobodyCopies => IsWhole(global)

Calls(t) == pc[t] \in Operations

\* What a call has read of its allocator.
ReadsOwn(t) ==
  Calls(t) /\ pointer[t] = "own" =>
    own[t] # None /\ \A f \in Copied(t) : got[t][f] = own[t]
ReadsStd(t) ==
  Calls(t) /\ pointer[t] = "std" => \A f \in Copied(t) : got[t][f] = Std
ReadsGlobal(t) ==
  Calls(t) /\ pointer[t] = "global" /\ ~mixed /\ ~disturbed[t] =>
    /\ NobodyCopies
    /\ IsWhole(global)
    /\ \A f \in Copied(t) : got[t][f] = global[f]

Reads == \A t \in Threads : ReadsOwn(t) /\ ReadsStd(t) /\ ReadsGlobal(t)

\* The block of a thread whose default was not set since is of that default.
BlockIsCurrent(t) ==
  ~changed[t] /\ block[t] # NoBlock => block[t] = Current(t)
CallIsCurrent(t) ==
  ~changed[t] /\ Calls(t) =>
    /\ pointer[t] = Default(t)
    /\ \A f \in Copied(t) : got[t][f] = Current(t)[f]
GivesBackBlock(t) ==
  Calls(t) /\ pc[t] # "allocate" => block[t] # NoBlock

Blocks ==
  \A t \in Threads : BlockIsCurrent(t) /\ CallIsCurrent(t) /\ GivesBackBlock(t)

Inv == TypeOK /\ Copiers /\ GlobalWhole /\ Reads /\ Blocks

-----------------------------------------------------------------------------

\* Copying and Calling, thread by thread.
LEMMA CopyingAndCalling ==
  ASSUME TypeOK
  PROVE  /\ Copying = {} <=> NobodyCopies
         /\ \A t \in Threads : t \in Copying <=> pc[t] = "setting"
         /\ \A t \in Threads : t \in Calling <=> Calls(t)
BY DEF TypeOK, Copying, Calling, NobodyCopies, Calls, Operations

\* Allocators are told apart by any of their fields.
LEMMA WholeFields ==
  /\ \A a : Whole(a) \in [Fields -> {a}] /\ \A f \in Fields : Whole(a)[f] = a
  /\ "function" \in Fields /\ "state" \in Fields
BY DEF Whole, Fields

\* An allocator is known by its fields.
LEMMA SameFields ==
  ASSUME NEW S, NEW g \in [Fields -> S], NEW S2, NEW h \in [Fields -> S2],
         \A f \in Fields : g[f] = h[f]
  PROVE  g = h
OBVIOUS

LEMMA InitInv == DefaultInit => Inv
<1> SUFFICES ASSUME DefaultInit PROVE Inv
  OBVIOUS
<1>1. TypeOK
  BY DEF DefaultInit, TypeOK, Whole, NoBlock, Fields, Operations
<1>2. Copiers /\ GlobalWhole
  BY DEF DefaultInit, Copiers, GlobalWhole
<1>3. Reads /\ Blocks
  BY DEF DefaultInit, Reads, ReadsOwn, ReadsStd, ReadsGlobal, Blocks,
         BlockIsCurrent, CallIsCurrent, GivesBackBlock, Calls, Operations
<1> QED
  BY <1>1, <1>2, <1>3 DEF Inv

-----------------------------------------------------------------------------
(***************************************************************************)
(* The steps                                                               *)
(***************************************************************************)

LEMMA BeginSetGlobalInv ==
  ASSUME Inv, NEW t \in Threads, NEW a \in Allocators, BeginSetGlobal(t, a)
  PROVE  Inv'
<1> USE DEF Inv
<1>1. TypeOK'
  BY DEF TypeOK, BeginSetGlobal, Disturbs, GlobalChanges, Calling, Operations
<1>2. Copiers'
  BY CopyingAndCalling DEF TypeOK, BeginSetGlobal, Copiers, Copied, NobodyCopies
<1>3. GlobalWhole'
  BY DEF TypeOK, BeginSetGlobal, GlobalWhole, NobodyCopies
<1>4. Reads'
  <2> SUFFICES ASSUME NEW u \in Threads, Calls(u)'
               PROVE  (ReadsOwn(u) /\ ReadsStd(u) /\ ReadsGlobal(u))'
    BY DEF Reads, ReadsOwn, ReadsStd, ReadsGlobal
  <2>1. u # t /\ Calls(u)
    BY DEF TypeOK, BeginSetGlobal, Calls, Operations
  <2>2. disturbed'[u]
    BY <2>1, CopyingAndCalling DEF BeginSetGlobal, Disturbs
  <2>3. Copied(u)' = Copied(u)
    BY <2>1 DEF TypeOK, BeginSetGlobal, Copied
  <2> QED
    BY <2>1, <2>2, <2>3
       DEF BeginSetGlobal, Reads, ReadsOwn, ReadsStd, ReadsGlobal
<1>5. Blocks'
  BY DEF TypeOK, BeginSetGlobal, GlobalChanges, Blocks, BlockIsCurrent,
     CallIsCurrent, GivesBackBlock, Calls, Operations, Copied, Current, Default
<1> QED
  BY <1>1, <1>2, <1>3, <1>4, <1>5

LEMMA CopyFieldInv ==
  ASSUME Inv, NEW t \in Threads, NEW f \in Fields, CopyField(t, f)
  PROVE  Inv'
<1> USE DEF Inv
<1>1. TypeOK'
  BY DEF TypeOK, CopyField, Copiers, Disturbs, GlobalChanges, Calling, Operations
<1>2. Copiers'
  BY DEF TypeOK, CopyField, Copiers, Copied
<1>3. GlobalWhole'
  <2>1. SUFFICES ASSUME ~mixed, NobodyCopies' PROVE global' = Whole(source[t])
    BY DEF GlobalWhole, IsWhole, CopyField, Copiers
  <2>2. todo[t] \ {f} = {}
    BY <2>1 DEF TypeOK, CopyField, NobodyCopies
  <2>3. \A g \in Fields : global'[g] = source[t]
    BY <2>1, <2>2 DEF TypeOK, CopyField, Copiers, Copied
  <2> QED
    BY <1>1, <2>3, WholeFields DEF TypeOK, Whole
<1>4. Reads'
  <2> SUFFICES ASSUME NEW u \in Threads, Calls(u)'
               PROVE  (ReadsOwn(u) /\ ReadsStd(u) /\ ReadsGlobal(u))'
    BY DEF Reads, ReadsOwn, ReadsStd, ReadsGlobal
  <2>1. u # t /\ Calls(u)
    BY DEF TypeOK, CopyField, Calls, Operations
  <2>2. disturbed'[u]
    BY <2>1, CopyingAndCalling DEF CopyField, Disturbs
  <2>3. Copied(u)' = Copied(u)
    BY <2>1 DEF TypeOK, CopyField, Copied
  <2> QED
    BY <2>1, <2>2, <2>3 DEF CopyField, Reads, ReadsOwn, ReadsStd, ReadsGlobal
<1>5. Blocks'
  BY DEF TypeOK, CopyField, GlobalChanges, Blocks, BlockIsCurrent,
     CallIsCurrent, GivesBackBlock, Calls, Operations, Copied, Current, Default
<1> QED
  BY <1>1, <1>2, <1>3, <1>4, <1>5

LEMMA UnsetGlobalInv ==
  ASSUME Inv, NEW t \in Threads, UnsetGlobal(t)
  PROVE  Inv'
<1> USE DEF Inv
<1>1. TypeOK'
  BY DEF TypeOK, UnsetGlobal, Unset, GlobalChanges
<1>2. Copiers' /\ GlobalWhole'
  BY DEF UnsetGlobal, Unset, Copiers, Copied, GlobalWhole
<1>3. Reads'
  BY DEF UnsetGlobal, Unset, Reads, ReadsOwn, ReadsStd, ReadsGlobal, Calls,
     Copied, NobodyCopies
<1>4. Blocks'
  BY DEF TypeOK, UnsetGlobal, Unset, GlobalChanges, Blocks, BlockIsCurrent,
     CallIsCurrent, GivesBackBlock, Calls, Operations, Copied, Current, Default
<1> QED
  BY <1>1, <1>2, <1>3, <1>4

LEMMA SetThreadInv ==
  ASSUME Inv, NEW t \in Threads, NEW a \in Allocators \cup {None},
         SetThread(t, a)
  PROVE  Inv'
<1> USE DEF Inv
<1>1. TypeOK'
  BY DEF TypeOK, SetThread
<1>2. Copiers' /\ GlobalWhole'
  BY DEF SetThread, Copiers, Copied, GlobalWhole, NobodyCopies
<1>3. Reads'
  BY DEF TypeOK, SetThread, Reads, ReadsOwn, ReadsStd, ReadsGlobal, Calls,
     Operations, Copied, NobodyCopies
<1>4. Blocks'
  BY DEF TypeOK, SetThread, Blocks, BlockIsCurrent, CallIsCurrent,
     GivesBackBlock, Calls, Operations, Copied, Current, Default
<1> QED
  BY <1>1, <1>2, <1>3, <1>4

LEMMA GetDefaultInv ==
  ASSUME Inv, NEW t \in Threads, NEW op \in Operations, GetDefault(t, op)
  PROVE  Inv'
<1> USE DEF Inv
<1>1. TypeOK'
  BY DEF TypeOK, GetDefault, Default, Copying, Operations
<1>2. Copiers' /\ GlobalWhole'
  BY DEF TypeOK, GetDefault, Copiers, Copied, GlobalWhole, NobodyCopies,
     Operations
<1>3. Reads'
  BY CopyingAndCalling DEF TypeOK, GetDefault, Default, Reads, ReadsOwn,
     ReadsStd, ReadsGlobal, GlobalWhole, Calls, Operations, Copied, NobodyCopies
<1>4. Blocks'
  BY DEF TypeOK, GetDefault, Blocks, BlockIsCurrent, CallIsCurrent,
     GivesBackBlock, Calls, Operations, Copied, Current, Default
<1> QED
  BY <1>1, <1>2, <1>3, <1>4

LEMMA ReadFieldInv ==
  ASSUME Inv, NEW t \in Threads, NEW f \in Fields, ReadField(t, f)
  PROVE  Inv'
<1> USE DEF Inv
<1>1. TypeOK'
  BY WholeFields DEF TypeOK, ReadField, Pointed
<1>2. Copiers' /\ GlobalWhole'
  BY CopyingAndCalling DEF TypeOK, ReadField, Copiers, Copied, GlobalWhole,
     NobodyCopies, Calls, Operations
<1>3. Reads'
  BY WholeFields DEF TypeOK, ReadField, Pointed, Reads, ReadsOwn, ReadsStd,
     ReadsGlobal, Calls, Copied, NobodyCopies
<1>4. Blocks'
  BY CopyingAndCalling, WholeFields DEF TypeOK, ReadField, Pointed, Blocks,
     BlockIsCurrent, CallIsCurrent, GivesBackBlock, Calls, Copied, Current,
     Default
<1> QED
  BY <1>1, <1>2, <1>3, <1>4

LEMMA CallInv ==
  ASSUME Inv, NEW t \in Threads, Call(t)
  PROVE  Inv'
<1> USE DEF Inv
<1>1. TypeOK'
  BY DEF TypeOK, Call, Results, NoBlock, Whole
<1>2. /\ pc[t] # "setting" /\ pc'[t] # "setting"
      /\ \A u \in Threads \ {t} : pc'[u] = pc[u]
  BY CopyingAndCalling DEF TypeOK, Call, IsAboutToCall, Calls, Operations
<1>3. Copiers'
  BY <1>2 DEF Call, Copiers, Copied
<1>4. GlobalWhole'
  BY <1>2 DEF Call, GlobalWhole, NobodyCopies
<1>5. Reads'
  BY CopyingAndCalling DEF TypeOK, Call, IsAboutToCall, Reads, ReadsOwn,
     ReadsStd, ReadsGlobal, Calls, Operations, Copied, NobodyCopies
<1>6. Blocks'
  BY CopyingAndCalling, SameFields, WholeFields DEF TypeOK, Call, Results,
     IsAboutToCall, Blocks, BlockIsCurrent, CallIsCurrent, GivesBackBlock,
     Calls, Operations, Copied, Current, Default
<1> QED
  BY <1>1, <1>3, <1>4, <1>5, <1>6

LEMMA StutterInv == Inv /\ UNCHANGED vars => Inv'
BY DEF vars, Inv, TypeOK, Copiers, Copied, GlobalWhole, NobodyCopies, Reads,
   ReadsOwn, ReadsStd, ReadsGlobal, Blocks, BlockIsCurrent, CallIsCurrent,
   GivesBackBlock, Calls, Current, Default

LEMMA NextInv == Inv /\ [Next]_vars => Inv'
<1> SUFFICES ASSUME Inv, [Next]_vars PROVE Inv'
  OBVIOUS
<1>1. CASE UNCHANGED vars
  BY <1>1, StutterInv
<1>2. CASE Next
  <2> PICK t \in Threads :
        \/ \E a \in Allocators : BeginSetGlobal(t, a)
        \/ \E f \in Fields : CopyField(t, f) \/ ReadField(t, f)
        \/ UnsetGlobal(t)
        \/ \E a \in Allocators \cup {None} : SetThread(t, a)
        \/ \E op \in Operations : GetDefault(t, op)
        \/ Call(t)
    BY <1>2 DEF Next, Operations
  <2> QED
    BY BeginSetGlobalInv, CopyFieldInv, UnsetGlobalInv, SetThreadInv,
       GetDefaultInv, ReadFieldInv, CallInv
<1> QED
  BY <1>1, <1>2

LEMMA SpecInv == Spec => []Inv
BY InitInv, NextInv, PTL DEF Spec

-----------------------------------------------------------------------------

\* Every variable keeps its type: only what a default was set to is ever
\* found in the global allocator.
THEOREM DefaultsTypeOK == Spec => []TypeOK
<1>1. Inv => TypeOK
  BY DEF Inv
<1> QED
  BY <1>1, SpecInv, PTL

\* Threads call their own allocator and malloc's whatever others do, and the
\* global one unless it was being copied to: never half of one.
THEOREM DefaultsCallWhole == Spec => []CallsWholeAllocator
<1>1. ASSUME Inv, NEW t \in Threads, IsAboutToCall(t)
      PROVE  CASE pointer[t] = "own" -> own[t] # None /\ got[t] = Whole(own[t])
               [] pointer[t] = "std" -> got[t] = Whole(Std)
               [] pointer[t] = "global" ->
                    mixed \/ disturbed[t] \/ \E a \in Allocators : got[t] = Whole(a)
  <2>1. Calls(t) /\ Copied(t) = Fields
    BY <1>1, CopyingAndCalling DEF Inv, IsAboutToCall, Copied
  <2>2. got[t] \in [Fields -> Allocators \cup {Std, None}]
    BY <1>1 DEF Inv, TypeOK
  <2>3. CASE pointer[t] = "own"
    <3>1. own[t] # None /\ \A f \in Fields : got[t][f] = Whole(own[t])[f]
      BY <1>1, <2>1, <2>3, WholeFields DEF Inv, Reads, ReadsOwn
    <3> QED
      BY <2>2, <2>3, <3>1, WholeFields, SameFields
  <2>4. CASE pointer[t] = "std"
    <3>1. \A f \in Fields : got[t][f] = Whole(Std)[f]
      BY <1>1, <2>1, <2>4, WholeFields DEF Inv, Reads, ReadsStd
    <3> QED
      BY <2>2, <2>4, <3>1, WholeFields, SameFields
  <2>5. CASE pointer[t] = "global" /\ ~mixed /\ ~disturbed[t]
    <3>1. PICK a \in Allocators : global = Whole(a)
      BY <1>1, <2>1, <2>5 DEF Inv, Reads, ReadsGlobal, IsWhole
    <3>2. \A f \in Fields : got[t][f] = Whole(a)[f]
      BY <1>1, <2>1, <2>5, <3>1 DEF Inv, Reads, ReadsGlobal
    <3>3. got[t] = Whole(a)
      BY <2>2, <3>2, WholeFields, SameFields
    <3> QED
      BY <2>5, <3>3
  <2> QED
    BY <1>1, <2>3, <2>4, <2>5 DEF Inv, TypeOK
<1>2. Inv => CallsWholeAllocator
  BY <1>1 DEF CallsWholeAllocator
<1> QED
  BY <1>2, SpecInv, PTL

\* A block goes back to the allocator it came from, unless its thread's default
\* was set meanwhile.
THEOREM DefaultsGiveBack == Spec => []GivesBackToOrigin
<1>1. ASSUME Inv, NEW t \in Threads, IsAboutToCall(t), pc[t] # "allocate",
             ~changed[t]
      PROVE  got[t] = block[t]
  <2>1. Calls(t) /\ Copied(t) = Fields
    BY <1>1, CopyingAndCalling DEF Inv, IsAboutToCall, Copied
  <2>2. block[t] = Current(t)
    BY <1>1, <2>1 DEF Inv, Blocks, BlockIsCurrent, GivesBackBlock
  <2>3. \A f \in Fields : got[t][f] = block[t][f]
    BY <1>1, <2>1, <2>2 DEF Inv, Blocks, CallIsCurrent
  <2>4. got[t] \in [Fields -> Allocators \cup {Std, None}]
        /\ block[t] \in [Fields -> Allocators \cup {Std, None}]
    BY <1>1 DEF Inv, TypeOK
  <2> QED
    BY <2>3, <2>4, SameFields
<1>2. Inv => GivesBackToOrigin
  BY <1>1 DEF GivesBackToOrigin
<1> QED
  BY <1>2, SpecInv, PTL
=============================================================================
