----------------------- MODULE StackAllocator_proofs -----------------------
(***************************************************************************)
(* What the stack allocator keeps, for every size of the stack, of an info *)
(* and of the guards, every set of requests and any number of calls, as    *)
(* long as callers give back a second time only before a block is laid out *)
(* anew, and restore tops that blocks have not moved across.               *)
(***************************************************************************)
EXTENDS StackAllocator, AllocatorLayout_proofs

-----------------------------------------------------------------------------
(***************************************************************************)
(* Chains of blocks                                                        *)
(***************************************************************************)

InfoRecords == [size : 1 .. Capacity, state : {"FREE", "USED"}]

Infos == UNION {[S -> InfoRecords] : S \in SUBSET (0 .. Capacity - InfoSize)}

MinimumBlock == 2 * InfoSize + GuardTotal

EndOf(infos, s) == s + infos[s].size
TailOf(infos, s) == s + infos[s].size - InfoSize

\* Both infos of the block can be read, and agree.
IsBlock(infos, s) ==
  /\ s \in DOMAIN infos
  /\ infos[s].size >= MinimumBlock
  /\ IsMultiple(s) /\ IsMultiple(infos[s].size)
  /\ TailOf(infos, s) \in DOMAIN infos
  /\ infos[TailOf(infos, s)] = infos[s]

\* The starts in B are those of blocks that lie one on the other, from the
\* bottom of data[] to t.
Chain(infos, t, B) ==
  /\ t \in 0 .. Capacity /\ IsMultiple(t)
  /\ \A s \in B : IsBlock(infos, s) /\ EndOf(infos, s) <= t
  /\ \A s \in B \cup {t} : s = 0 \/ \E r \in B : EndOf(infos, r) = s
  /\ \A r, s \in B : r < s => EndOf(infos, r) <= s

Below(B, u) == {s \in B : s < u}

LEMMA StackFacts ==
  /\ Alignment \in Nat \ {0} /\ SizeLimit \in Nat \ {0}
  /\ Capacity \in Nat /\ InfoSize \in Nat \ {0} /\ IsMultiple(InfoSize)
  /\ GuardBytes \in Nat /\ IsMultiple(GuardBytes)
  /\ GuardTotal \in Nat /\ GuardTotal = GuardBytes + GuardBytes
  /\ MinimumBlock \in Nat /\ MinimumBlock >= 2 * InfoSize
  /\ MinimumBlock = InfoSize + InfoSize + GuardTotal
  /\ Sizes \subseteq Nat \ {0}
<1>1. GuardTotal \in Nat /\ GuardTotal = GuardBytes + GuardBytes
  BY LayoutAssumption DEF GuardTotal
<1>2. IsMultiple(InfoSize) /\ IsMultiple(GuardBytes)
  BY StackAssumption, LayoutAssumption, MultipleAligned
<1> QED
  BY <1>1, <1>2, StackAssumption, LayoutAssumption DEF MinimumBlock

LEMMA InfoFacts ==
  ASSUME NEW infos \in Infos
  PROVE  /\ DOMAIN infos \subseteq 0 .. Capacity - InfoSize
         /\ DOMAIN infos \subseteq Nat
         /\ \A o \in DOMAIN infos :
              /\ infos[o] \in InfoRecords
              /\ infos[o].size \in Nat /\ infos[o].size \in 1 .. Capacity
              /\ infos[o].state \in {"FREE", "USED"}
              /\ infos[o] = [size |-> infos[o].size, state |-> infos[o].state]
<1>1. PICK S \in SUBSET (0 .. Capacity - InfoSize) : infos \in [S -> InfoRecords]
  BY DEF Infos
<1>2. 0 .. Capacity - InfoSize \subseteq Nat
  BY StackFacts
<1> QED
  BY <1>1, <1>2 DEF InfoRecords

LEMMA InfosAre ==
  ASSUME NEW infos, DOMAIN infos \subseteq 0 .. Capacity - InfoSize,
         infos = [o \in DOMAIN infos |-> infos[o]],
         \A o \in DOMAIN infos : infos[o] \in InfoRecords
  PROVE  infos \in Infos
<1>1. infos \in [DOMAIN infos -> InfoRecords]
  OBVIOUS
<1> QED
  BY <1>1 DEF Infos

LEMMA BlockFacts ==
  ASSUME NEW infos \in Infos, NEW s, IsBlock(infos, s)
  PROVE  /\ s \in Nat /\ s \in DOMAIN infos
         /\ infos[s].size \in Nat
         /\ infos[s].size >= MinimumBlock
         /\ infos[s].size >= InfoSize + InfoSize
         /\ EndOf(infos, s) = s + infos[s].size /\ EndOf(infos, s) \in Nat
         /\ TailOf(infos, s) = s + infos[s].size - InfoSize
         /\ TailOf(infos, s) \in Nat /\ TailOf(infos, s) > s
         /\ TailOf(infos, s) >= s + InfoSize
         /\ TailOf(infos, s) = EndOf(infos, s) - InfoSize
         /\ TailOf(infos, s) \in DOMAIN infos
         /\ infos[TailOf(infos, s)] = infos[s]
<1>1. PICK n \in Nat : n = infos[s].size
  BY InfoFacts DEF IsBlock
<1>2. s \in Nat /\ s \in DOMAIN infos /\ n >= MinimumBlock
  BY <1>1, InfoFacts DEF IsBlock
<1>3. InfoSize \in Nat \ {0} /\ n >= InfoSize + InfoSize
  BY <1>1, <1>2, StackFacts
<1>4. /\ EndOf(infos, s) = s + n /\ TailOf(infos, s) = s + n - InfoSize
  BY <1>1 DEF EndOf, TailOf
<1>5. s + n - InfoSize \in Nat /\ s + n - InfoSize > s
      /\ s + n - InfoSize >= s + InfoSize
  BY <1>2, <1>3
<1> QED
  BY <1>1, <1>2, <1>3, <1>4, <1>5 DEF IsBlock

\* A stack cut off where a block starts, or not at all.
LEMMA ChainCut ==
  ASSUME NEW infos \in Infos, NEW t, NEW B, Chain(infos, t, B),
         NEW u \in B \cup {t}
  PROVE  Chain(infos, u, Below(B, u)) /\ u \in Nat
<1>1. /\ t \in Nat /\ t <= Capacity /\ Capacity \in Nat
      /\ \A s \in B : s \in Nat /\ EndOf(infos, s) \in Nat
                      /\ EndOf(infos, s) > s /\ EndOf(infos, s) <= t
  <2>1. t \in Nat /\ t <= Capacity /\ Capacity \in Nat
    BY StackFacts DEF Chain
  <2>2. ASSUME NEW s \in B
        PROVE  s \in Nat /\ EndOf(infos, s) \in Nat
               /\ EndOf(infos, s) > s /\ EndOf(infos, s) <= t
    <3>1. IsBlock(infos, s) /\ EndOf(infos, s) <= t
      BY DEF Chain
    <3>2. PICK n \in Nat : n = infos[s].size /\ n >= MinimumBlock
                           /\ EndOf(infos, s) = s + n /\ s \in Nat
      BY <3>1, BlockFacts
    <3>3. n > 0
      BY <3>2, StackFacts
    <3> QED
      BY <3>1, <3>2, <3>3
  <2> QED
    BY <2>1, <2>2
<1>2. u \in 0 .. Capacity /\ IsMultiple(u) /\ u <= t
  BY <1>1 DEF Chain, IsBlock
<1>3. ASSUME NEW s \in Below(B, u)
      PROVE  IsBlock(infos, s) /\ EndOf(infos, s) <= u
  <2>1. s \in B /\ s < u
    BY DEF Below
  <2> QED
    BY <1>1, <2>1 DEF Chain
<1>4. ASSUME NEW s \in Below(B, u) \cup {u}
      PROVE  s = 0 \/ \E r \in Below(B, u) : EndOf(infos, r) = s
  <2>1. s \in B \cup {t} /\ s <= u
    BY <1>1, <1>2 DEF Below
  <2>2. CASE s # 0
    <3>1. PICK r \in B : EndOf(infos, r) = s
      BY <2>1, <2>2 DEF Chain
    <3>2. r < u
      BY <1>1, <1>2, <2>1, <3>1
    <3> QED
      BY <3>1, <3>2 DEF Below
  <2> QED
    BY <2>2
<1>5. \A r, s \in Below(B, u) : r < s => EndOf(infos, r) <= s
  BY DEF Below, Chain
<1> QED
  BY <1>2, <1>3, <1>4, <1>5 DEF Chain

\* The block a chain ends with, and the info found there.
LEMMA ChainTop ==
  ASSUME NEW infos \in Infos, NEW t, NEW B, Chain(infos, t, B),
         NEW u \in B \cup {t}, u # 0
  PROVE  \E s \in Below(B, u) :
           /\ IsBlock(infos, s) /\ EndOf(infos, s) = u /\ s < u
           /\ u - InfoSize = TailOf(infos, s)
           /\ u - InfoSize \in DOMAIN infos
           /\ infos[u - InfoSize] = infos[s]
           /\ u - infos[u - InfoSize].size = s
           /\ Below(B, u) = Below(B, s) \cup {s}
<1>1. Chain(infos, u, Below(B, u))
  BY ChainCut
<1>2. PICK s \in Below(B, u) : EndOf(infos, s) = u /\ IsBlock(infos, s)
  BY <1>1 DEF Chain
<1>3. PICK n \in Nat : n = infos[s].size
  BY <1>2, BlockFacts
<1>4. s \in Nat /\ u = s + n /\ s < u /\ s \in B /\ u \in Nat
  BY <1>2, <1>3, BlockFacts DEF Below
<1>5. u - InfoSize = TailOf(infos, s)
  BY <1>2, BlockFacts
<1>6. u - InfoSize \in DOMAIN infos /\ infos[u - InfoSize] = infos[s]
  BY <1>2, <1>5 DEF IsBlock
<1>7. u - infos[u - InfoSize].size = s
  BY <1>3, <1>4, <1>6
<1>8. ASSUME NEW r \in B PROVE r < u <=> r < s \/ r = s
  <2>1. IsBlock(infos, r)
    BY DEF Chain
  <2>2. r \in Nat /\ EndOf(infos, r) \in Nat /\ TailOf(infos, r) \in Nat
        /\ EndOf(infos, s) \in Nat
    BY <1>2, <2>1, BlockFacts
  <2>3. s < r => u <= r
    BY <1>2, <1>4 DEF Chain
  <2> QED
    BY <1>4, <2>2, <2>3
<1>9. Below(B, u) = Below(B, s) \cup {s}
  BY <1>4, <1>8 DEF Below
<1> QED
  BY <1>2, <1>4, <1>5, <1>6, <1>7, <1>9

-----------------------------------------------------------------------------
(***************************************************************************)
(* The walk down                                                           *)
(***************************************************************************)

\* What the loop that pops does at t, given by f what it does further down.
PopAt(infos, f, t) ==
  LET below == t - infos[t - InfoSize].size
  IN IF t = 0 THEN [top |-> t, status |-> "SUCCESS"]
     ELSE IF t - InfoSize \notin DOMAIN infos
       THEN [top |-> t, status |-> Undefined]
     ELSE IF below \notin DOMAIN infos
       THEN [top |-> t, status |-> Undefined]
     ELSE IF infos[below] # infos[t - InfoSize]
       THEN [top |-> t, status |-> "CORRUPTED_POINTER"]
     ELSE IF infos[below].state = "USED"
       THEN [top |-> t, status |-> "SUCCESS"]
     ELSE f[below]

Pops(infos, f, n) == f = [t \in 0 .. n |-> PopAt(infos, f, t)]

LEMMA PopIs ==
  ASSUME NEW infos, NEW u
  PROVE  Pop(infos, u) = (CHOOSE f : Pops(infos, f, Capacity))[u]
BY DEF Pop, Pops, PopAt

LEMMA PopAtLocal ==
  ASSUME NEW infos \in Infos, NEW t \in Nat, NEW f, NEW g,
         \A u \in Nat : u < t => f[u] = g[u]
  PROVE  PopAt(infos, f, t) = PopAt(infos, g, t)
<1>1. CASE t - InfoSize \in DOMAIN infos /\ t - infos[t - InfoSize].size \in DOMAIN infos
  <2>1. PICK n \in Nat, b \in Nat : n = infos[t - InfoSize].size /\ n >= 1 /\ b = t - n
    BY <1>1, InfoFacts
  <2>2. f[b] = g[b]
    BY <2>1
  <2> QED
    BY <2>1, <2>2 DEF PopAt
<1>2. CASE ~ (t - InfoSize \in DOMAIN infos /\ t - infos[t - InfoSize].size \in DOMAIN infos)
  BY <1>2 DEF PopAt
<1> QED
  BY <1>1, <1>2

LEMMA PopsUpTo ==
  ASSUME NEW infos \in Infos, NEW k \in Nat
  PROVE  \E f : Pops(infos, f, k)
<1> DEFINE N == {n \in Nat : \E f : Pops(infos, f, n)}
<1>1. 0 \in N
  <2>1. PICK f : f = [t \in 0 .. 0 |-> PopAt(infos, << >>, t)]
    OBVIOUS
  <2>2. ASSUME NEW t \in 0 .. 0
        PROVE  PopAt(infos, << >>, t) = PopAt(infos, f, t)
    BY PopAtLocal
  <2>3. f = [t \in 0 .. 0 |-> PopAt(infos, f, t)]
    BY <2>1, <2>2, Zenon
  <2> QED
    BY <2>3 DEF Pops
<1>2. ASSUME NEW n \in Nat, n \in N PROVE n + 1 \in N
  <2>1. PICK f : Pops(infos, f, n)
    BY <1>2
  <2>2. PICK g : g = [t \in 0 .. n + 1 |-> PopAt(infos, f, t)]
    OBVIOUS
  <2>3. ASSUME NEW u \in Nat, u <= n PROVE f[u] = g[u]
    <3>1. f[u] = PopAt(infos, f, u)
      BY <2>1, <2>3 DEF Pops
    <3>2. g[u] = PopAt(infos, f, u)
      BY <2>2, <2>3
    <3> QED
      BY <3>1, <3>2
  <2>4. ASSUME NEW t \in 0 .. n + 1
        PROVE  PopAt(infos, f, t) = PopAt(infos, g, t)
    <3>1. \A u \in Nat : u < t => f[u] = g[u]
      BY <2>3
    <3> QED
      BY <3>1, PopAtLocal
  <2>5. g = [t \in 0 .. n + 1 |-> PopAt(infos, g, t)]
    BY <2>2, <2>4, Zenon
  <2> QED
    BY <2>5 DEF Pops
<1> HIDE DEF N
<1>3. Nat \subseteq N
  BY <1>1, <1>2, NatSets
<1> QED
  BY <1>3 DEF N

LEMMA PopUnfolds ==
  ASSUME NEW infos \in Infos
  PROVE  \E f : \A u \in 0 .. Capacity :
           f[u] = Pop(infos, u) /\ Pop(infos, u) = PopAt(infos, f, u)
<1>1. PICK f : f = CHOOSE g : Pops(infos, g, Capacity)
  OBVIOUS
<1>2. Pops(infos, f, Capacity)
  BY <1>1, PopsUpTo, StackFacts
<1>3. \A u \in 0 .. Capacity : f[u] = Pop(infos, u)
  BY <1>1, PopIs
<1>4. \A u \in 0 .. Capacity : f[u] = PopAt(infos, f, u)
  BY <1>2 DEF Pops
<1> QED
  BY <1>3, <1>4

\* Where the walk ends: everything it passed is free, and it stands on a block
\* in use, or on the bottom.
Popped(infos, B, u, w) ==
  /\ w \in Below(B, u) \cup {u}
  /\ \A s \in Below(B, u) : w <= s => infos[s].state = "FREE"
  /\ w = 0 \/ \E s \in Below(B, w) : EndOf(infos, s) = w /\ infos[s].state = "USED"

LEMMA PopChain ==
  ASSUME NEW infos \in Infos, NEW t, NEW B, Chain(infos, t, B),
         NEW u \in B \cup {t}
  PROVE  /\ Pop(infos, u).status = "SUCCESS"
         /\ Popped(infos, B, u, Pop(infos, u).top)
<1> DEFINE Good(v) == /\ Pop(infos, v).status = "SUCCESS"
                      /\ Popped(infos, B, v, Pop(infos, v).top)
           N == {n \in Nat : \A v \in B \cup {t} : v <= n => Good(v)}
<1>1. PICK f : \A v \in 0 .. Capacity :
                 f[v] = Pop(infos, v) /\ Pop(infos, v) = PopAt(infos, f, v)
  BY PopUnfolds
<1>2. \A v \in B \cup {t} : v \in 0 .. Capacity /\ v \in Nat
  <2>1. \A v \in B \cup {t} : Chain(infos, v, Below(B, v)) /\ v \in Nat
    BY ChainCut
  <2> QED
    BY <2>1 DEF Chain
<1>3. \A v \in B : v \in Nat
  BY <1>2
<1>4. ASSUME NEW v \in B \cup {t}, v = 0 PROVE Good(v)
  <2>1. Pop(infos, v) = [top |-> 0, status |-> "SUCCESS"]
    BY <1>1, <1>2, <1>4 DEF PopAt
  <2>2. Below(B, 0) = {}
    BY <1>3 DEF Below
  <2> QED
    BY <1>4, <2>1, <2>2 DEF Popped
<1>5. 0 \in N
  <2>1. \A v \in B \cup {t} : v <= 0 => v = 0
    BY <1>2
  <2> QED
    BY <1>4, <2>1
<1>6. ASSUME NEW n \in Nat, n \in N PROVE n + 1 \in N
  <2>1. SUFFICES ASSUME NEW v \in B \cup {t}, v <= n + 1, v # 0 PROVE Good(v)
    BY <1>4
  <2>2. PICK s \in Below(B, v) :
          /\ IsBlock(infos, s) /\ EndOf(infos, s) = v /\ s < v
          /\ v - InfoSize \in DOMAIN infos
          /\ infos[v - InfoSize] = infos[s]
          /\ v - infos[v - InfoSize].size = s
          /\ Below(B, v) = Below(B, s) \cup {s}
    BY <2>1, ChainTop
  <2>3. s \in B /\ s \in DOMAIN infos /\ s \in Nat /\ v \in Nat
        /\ infos[s].state \in {"FREE", "USED"}
    BY <1>2, <2>2, InfoFacts DEF IsBlock, Below
  <2>4. CASE infos[s].state = "USED"
    <3>1. Pop(infos, v) = [top |-> v, status |-> "SUCCESS"]
      BY <1>1, <1>2, <2>1, <2>2, <2>3, <2>4 DEF PopAt
    <3>2. \A r \in Below(B, v) : ~ (v <= r)
      BY <1>3, <2>3 DEF Below
    <3> QED
      BY <2>2, <2>4, <3>1, <3>2 DEF Popped
  <2>5. CASE infos[s].state = "FREE"
    <3>1. Pop(infos, v) = Pop(infos, s)
      <4>1. PopAt(infos, f, v) = f[s]
        BY <2>1, <2>2, <2>3, <2>5 DEF PopAt
      <4>2. v \in 0 .. Capacity /\ s \in 0 .. Capacity
        BY <1>2, <2>3
      <4> QED
        BY <1>1, <4>1, <4>2
    <3>2. Good(s)
      BY <1>6, <2>1, <2>2, <2>3
    <3>3. PICK w : w = Pop(infos, s).top
      OBVIOUS
    <3>4. Popped(infos, B, s, w)
      BY <3>2, <3>3
    <3>5. Popped(infos, B, v, w)
      BY <2>2, <2>5, <3>4 DEF Popped
    <3> QED
      BY <3>1, <3>2, <3>3, <3>5
  <2> QED
    BY <2>3, <2>4, <2>5
<1>7. Nat \subseteq N
  <2> HIDE DEF N
  <2> QED
    BY <1>5, <1>6, NatSets
<1> QED
  BY <1>2, <1>7

\* What Starts finds below t, given by f what it finds further down.
StartsAt(infos, f, t) ==
  LET start == t - infos[t - InfoSize].size
  IN IF t = 0 THEN {}
     ELSE IF t - InfoSize \notin DOMAIN infos THEN {Broken}
     ELSE IF start \notin DOMAIN infos THEN {Broken}
     ELSE IF infos[start] # infos[t - InfoSize] THEN {Broken}
     ELSE {start} \cup f[start]

Finds(infos, f, n) == f = [t \in 0 .. n |-> StartsAt(infos, f, t)]

LEMMA StartsIs == Starts = (CHOOSE f : Finds(info, f, Capacity))[top]
BY DEF Starts, Finds, StartsAt

LEMMA StartsAtLocal ==
  ASSUME NEW infos \in Infos, NEW t \in Nat, NEW f, NEW g,
         \A u \in Nat : u < t => f[u] = g[u]
  PROVE  StartsAt(infos, f, t) = StartsAt(infos, g, t)
<1>1. CASE t - InfoSize \in DOMAIN infos /\ t - infos[t - InfoSize].size \in DOMAIN infos
  <2>1. PICK n \in Nat, b \in Nat : n = infos[t - InfoSize].size /\ n >= 1 /\ b = t - n
    BY <1>1, InfoFacts
  <2>2. f[b] = g[b]
    BY <2>1
  <2> QED
    BY <2>1, <2>2 DEF StartsAt
<1>2. CASE ~ (t - InfoSize \in DOMAIN infos /\ t - infos[t - InfoSize].size \in DOMAIN infos)
  BY <1>2 DEF StartsAt
<1> QED
  BY <1>1, <1>2

LEMMA FindsUpTo ==
  ASSUME NEW infos \in Infos, NEW k \in Nat
  PROVE  \E f : Finds(infos, f, k)
<1> DEFINE N == {n \in Nat : \E f : Finds(infos, f, n)}
<1>1. 0 \in N
  <2>1. PICK f : f = [t \in 0 .. 0 |-> StartsAt(infos, << >>, t)]
    OBVIOUS
  <2>2. ASSUME NEW t \in 0 .. 0
        PROVE  StartsAt(infos, << >>, t) = StartsAt(infos, f, t)
    BY StartsAtLocal
  <2>3. f = [t \in 0 .. 0 |-> StartsAt(infos, f, t)]
    BY <2>1, <2>2, Zenon
  <2> QED
    BY <2>3 DEF Finds
<1>2. ASSUME NEW n \in Nat, n \in N PROVE n + 1 \in N
  <2>1. PICK f : Finds(infos, f, n)
    BY <1>2
  <2>2. PICK g : g = [t \in 0 .. n + 1 |-> StartsAt(infos, f, t)]
    OBVIOUS
  <2>3. ASSUME NEW u \in Nat, u <= n PROVE f[u] = g[u]
    <3>1. f[u] = StartsAt(infos, f, u)
      BY <2>1, <2>3 DEF Finds
    <3>2. g[u] = StartsAt(infos, f, u)
      BY <2>2, <2>3
    <3> QED
      BY <3>1, <3>2
  <2>4. ASSUME NEW t \in 0 .. n + 1
        PROVE  StartsAt(infos, f, t) = StartsAt(infos, g, t)
    <3>1. \A u \in Nat : u < t => f[u] = g[u]
      BY <2>3
    <3> QED
      BY <3>1, StartsAtLocal
  <2>5. g = [t \in 0 .. n + 1 |-> StartsAt(infos, g, t)]
    BY <2>2, <2>4, Zenon
  <2> QED
    BY <2>5 DEF Finds
<1> HIDE DEF N
<1>3. Nat \subseteq N
  BY <1>1, <1>2, NatSets
<1> QED
  BY <1>3 DEF N

\* The walk finds the blocks of the chain and nothing broken.
LEMMA StartsChain ==
  ASSUME info \in Infos, NEW B, Chain(info, top, B)
  PROVE  Starts = B
<1>1. PICK f : f = CHOOSE g : Finds(info, g, Capacity)
  OBVIOUS
<1>2. Finds(info, f, Capacity)
  BY <1>1, FindsUpTo, StackFacts
<1>3. \A v \in 0 .. Capacity : f[v] = StartsAt(info, f, v)
  BY <1>2 DEF Finds
<1>4. \A v \in B \cup {top} : v \in 0 .. Capacity /\ v \in Nat
  <2>1. \A v \in B \cup {top} : Chain(info, v, Below(B, v)) /\ v \in Nat
    BY ChainCut
  <2> QED
    BY <2>1 DEF Chain
<1> DEFINE N == {n \in Nat : \A v \in B \cup {top} :
                               v <= n => f[v] = Below(B, v)}
<1>5. ASSUME NEW v \in B \cup {top}, v = 0 PROVE f[v] = Below(B, v)
  <2>1. f[v] = {}
    BY <1>3, <1>4, <1>5 DEF StartsAt
  <2>2. Below(B, 0) = {}
    BY <1>4 DEF Below
  <2> QED
    BY <1>5, <2>1, <2>2
<1>6. 0 \in N
  <2>1. \A v \in B \cup {top} : v <= 0 => v = 0
    BY <1>4
  <2> QED
    BY <1>5, <2>1
<1>7. ASSUME NEW n \in Nat, n \in N PROVE n + 1 \in N
  <2>1. SUFFICES ASSUME NEW v \in B \cup {top}, v <= n + 1, v # 0
                 PROVE  f[v] = Below(B, v)
    BY <1>5
  <2>2. PICK s \in Below(B, v) :
          /\ IsBlock(info, s) /\ EndOf(info, s) = v /\ s < v
          /\ v - InfoSize \in DOMAIN info
          /\ info[v - InfoSize] = info[s]
          /\ v - info[v - InfoSize].size = s
          /\ Below(B, v) = Below(B, s) \cup {s}
    BY <2>1, ChainTop
  <2>3. s \in B /\ s \in DOMAIN info /\ s \in Nat /\ v \in Nat
    BY <1>4, <2>2 DEF IsBlock, Below
  <2>4. f[v] = {s} \cup f[s]
    BY <1>3, <1>4, <2>1, <2>2, <2>3, ZenonT(40) DEF StartsAt
  <2>5. f[s] = Below(B, s)
    BY <1>7, <2>1, <2>2, <2>3
  <2> QED
    BY <2>2, <2>4, <2>5
<1>8. Nat \subseteq N
  <2> HIDE DEF N
  <2> QED
    BY <1>6, <1>7, NatSets
<1>9. top \in Nat /\ f[top] = Below(B, top)
  BY <1>4, <1>8
<1>10. \A s \in B : s < top
  <2>1. ASSUME NEW s \in B PROVE s < top
    <3>1. IsBlock(info, s) /\ EndOf(info, s) <= top
      BY DEF Chain
    <3>2. s \in Nat /\ EndOf(info, s) \in Nat /\ TailOf(info, s) \in Nat
          /\ TailOf(info, s) > s /\ TailOf(info, s) = EndOf(info, s) - InfoSize
      BY <3>1, BlockFacts
    <3> QED
      BY <1>9, <3>1, <3>2, StackFacts
  <2> QED
    BY <2>1
<1> QED
  BY <1>1, <1>9, <1>10, StartsIs DEF Below

-----------------------------------------------------------------------------
(***************************************************************************)
(* Blocks stacked up, and marked free                                      *)
(***************************************************************************)

LEMMA ChainBounds ==
  ASSUME NEW infos \in Infos, NEW t, NEW B, Chain(infos, t, B)
  PROVE  /\ t \in Nat /\ t <= Capacity
         /\ \A s \in B : /\ s \in Nat /\ s < t
                         /\ TailOf(infos, s) \in Nat /\ TailOf(infos, s) < t
                         /\ TailOf(infos, s) > s
                         /\ IsBlock(infos, s)
<1>1. t \in Nat /\ t <= Capacity /\ InfoSize \in Nat \ {0}
  BY StackFacts DEF Chain
<1>2. ASSUME NEW s \in B
      PROVE  /\ s \in Nat /\ s < t
             /\ TailOf(infos, s) \in Nat /\ TailOf(infos, s) < t
             /\ TailOf(infos, s) > s
             /\ IsBlock(infos, s)
  <2>1. IsBlock(infos, s) /\ EndOf(infos, s) <= t
    BY DEF Chain
  <2>2. /\ s \in Nat /\ EndOf(infos, s) \in Nat /\ TailOf(infos, s) \in Nat
        /\ TailOf(infos, s) > s /\ TailOf(infos, s) = EndOf(infos, s) - InfoSize
    BY <2>1, BlockFacts
  <2> QED
    BY <1>1, <2>1, <2>2
<1> QED
  BY <1>1, <1>2

LEMMA ChainSame ==
  ASSUME NEW infos, NEW t, NEW B, Chain(infos, t, B), NEW new,
         \A s \in B : IsBlock(new, s) /\ new[s].size = infos[s].size
  PROVE  Chain(new, t, B)
BY DEF Chain, EndOf

\* A block keeps its infos.
LEMMA BlockSame ==
  ASSUME NEW infos, NEW s, IsBlock(infos, s), NEW new,
         s \in DOMAIN new, TailOf(infos, s) \in DOMAIN new,
         new[s] = infos[s], new[TailOf(infos, s)] = infos[TailOf(infos, s)]
  PROVE  IsBlock(new, s) /\ new[s].size = infos[s].size
BY DEF IsBlock, TailOf

LEMMA RecordIs ==
  ASSUME NEW n \in 1 .. Capacity, NEW state \in {"FREE", "USED"}
  PROVE  /\ [size |-> n, state |-> state] \in InfoRecords
         /\ [size |-> n, state |-> state].size = n
         /\ [size |-> n, state |-> state].state = state
BY DEF InfoRecords

LEMMA RestateChain ==
  ASSUME NEW infos \in Infos, NEW t, NEW B, Chain(infos, t, B), NEW s \in B,
         NEW state \in {"FREE", "USED"}, NEW new, new = Restate(infos, s, state)
  PROVE  /\ new \in Infos /\ Chain(new, t, B)
         /\ \A r \in B : r # s => new[r] = infos[r]
         /\ new[s].size = infos[s].size /\ new[s].state = state
<1> DEFINE e == TailOf(infos, s)
<1>1. IsBlock(infos, s) /\ s \in DOMAIN infos /\ e \in DOMAIN infos
      /\ infos[e] = infos[s] /\ s \in Nat /\ e \in Nat
  BY BlockFacts DEF Chain
<1>2. DOMAIN new = DOMAIN infos /\ new = [o \in DOMAIN new |-> new[o]]
  BY DEF Restate
<1>3. ASSUME NEW o \in DOMAIN infos, o # s, o # e
      PROVE  new[o] = infos[o]
  BY <1>3 DEF Restate, TailOf
<1>4. /\ new[s] = [size |-> infos[s].size, state |-> state]
      /\ new[e] = [size |-> infos[s].size, state |-> state]
  BY <1>1 DEF Restate, TailOf
<1> HIDE DEF e
<1>5. [size |-> infos[s].size, state |-> state] \in InfoRecords
      /\ new[s].size = infos[s].size /\ new[s].state = state
  BY <1>1, <1>4, InfoFacts, RecordIs
<1>6. new \in Infos
  <2>1. \A o \in DOMAIN new : new[o] \in InfoRecords
    BY <1>2, <1>3, <1>4, <1>5, InfoFacts
  <2>2. DOMAIN new \subseteq 0 .. Capacity - InfoSize
    BY <1>2, InfoFacts
  <2> QED
    BY <1>2, <2>1, <2>2, InfosAre
<1>7. ASSUME NEW r \in B, r # s
      PROVE  /\ new[r] = infos[r]
             /\ new[TailOf(infos, r)] = infos[TailOf(infos, r)]
             /\ IsBlock(infos, r) /\ r \in DOMAIN infos
             /\ TailOf(infos, r) \in DOMAIN infos
  <2>1. IsBlock(infos, r)
    BY DEF Chain
  <2>2. /\ r \in Nat /\ TailOf(infos, r) \in Nat /\ r < TailOf(infos, r)
        /\ TailOf(infos, r) = EndOf(infos, r) - InfoSize
        /\ EndOf(infos, r) \in Nat
        /\ r \in DOMAIN infos /\ TailOf(infos, r) \in DOMAIN infos
    BY <2>1, BlockFacts
  <2>3. s < e /\ e = EndOf(infos, s) - InfoSize /\ EndOf(infos, s) \in Nat
    BY <1>1, BlockFacts DEF e
  <2>4. EndOf(infos, r) <= s \/ EndOf(infos, s) <= r
    BY <1>1, <1>7, <2>2 DEF Chain
  <2>5. r # s /\ r # e /\ TailOf(infos, r) # s /\ TailOf(infos, r) # e
    BY <1>1, <2>2, <2>3, <2>4, StackFacts
  <2> QED
    BY <1>3, <2>1, <2>2, <2>5
<1>8. IsBlock(new, s)
  <2>1. TailOf(new, s) = e
    BY <1>5 DEF TailOf, e
  <2> QED
    BY <1>1, <1>2, <1>4, <1>5, <2>1 DEF IsBlock
<1>9. \A r \in B : IsBlock(new, r) /\ new[r].size = infos[r].size
  BY <1>2, <1>5, <1>7, <1>8, BlockSame
<1> QED
  BY <1>5, <1>6, <1>7, <1>9, ChainSame

\* A block of n bytes was put on the chain.
Longer(infos, new, t, B, n, state) ==
  /\ new \in Infos /\ Chain(new, t + n, B \cup {t})
  /\ \A r \in B : new[r] = infos[r]
  /\ new[t] = [size |-> n, state |-> state]

LEMMA BracketChain ==
  ASSUME NEW infos \in Infos, NEW t, NEW B, Chain(infos, t, B), NEW n \in Nat,
         n >= MinimumBlock, IsMultiple(n), t + n <= Capacity,
         NEW state \in {"FREE", "USED"}
  PROVE  Longer(infos, Bracket(infos, t, n, state), t, B, n, state)
<1> DEFINE new == Bracket(infos, t, n, state)
<1>1. /\ t \in Nat /\ InfoSize \in Nat \ {0} /\ Capacity \in Nat
      /\ n >= InfoSize + InfoSize
  BY ChainBounds, StackFacts
<1>2. PICK e, r0 : e \in Nat /\ e = t + n - InfoSize /\ r0 = [size |-> n, state |-> state]
  <2>1. t + n - InfoSize \in Nat
    BY <1>1
  <2> QED
    BY <2>1
<1>3. e > t /\ e <= Capacity - InfoSize /\ n \in 1 .. Capacity
  BY <1>1, <1>2
<1>4. r0 \in InfoRecords /\ r0.size = n /\ r0.state = state
  BY <1>2, <1>3, RecordIs
<1>5. PICK kept : kept = {o \in DOMAIN infos : o < t \/ o >= t + n}
  OBVIOUS
<1>6. new = [o \in kept \cup {t, e} |-> IF o \in {t, e} THEN r0 ELSE infos[o]]
  BY <1>2, <1>5 DEF Bracket
<1> HIDE DEF new
<1>7. /\ DOMAIN new = kept \cup {t, e} /\ new[t] = r0 /\ new[e] = r0
      /\ \A o \in kept : o # t /\ o # e => new[o] = infos[o]
      /\ new = [o \in DOMAIN new |-> new[o]]
  BY <1>6
<1>8. new \in Infos
  <2>1. kept \subseteq DOMAIN infos
    BY <1>5
  <2>2. DOMAIN new \subseteq 0 .. Capacity - InfoSize
    BY <1>1, <1>2, <1>3, <1>7, <2>1, InfoFacts
  <2>3. \A o \in DOMAIN new : new[o] \in InfoRecords
    BY <1>4, <1>7, <2>1, InfoFacts
  <2> QED
    BY <1>7, <2>2, <2>3, InfosAre
<1>9. ASSUME NEW s \in B
      PROVE  /\ new[s] = infos[s] /\ s \in Nat /\ s < t
             /\ IsBlock(new, s) /\ new[s].size = infos[s].size
             /\ EndOf(new, s) = EndOf(infos, s) /\ EndOf(new, s) <= t
  <2>1. /\ s \in Nat /\ s < t /\ IsBlock(infos, s)
        /\ TailOf(infos, s) \in Nat /\ TailOf(infos, s) < t
    BY ChainBounds
  <2>2. s \in kept /\ TailOf(infos, s) \in kept
    BY <1>5, <2>1 DEF IsBlock
  <2>3. /\ s \in DOMAIN new /\ TailOf(infos, s) \in DOMAIN new
        /\ new[s] = infos[s]
        /\ new[TailOf(infos, s)] = infos[TailOf(infos, s)]
    BY <1>1, <1>3, <1>7, <2>1, <2>2
  <2>4. IsBlock(new, s) /\ new[s].size = infos[s].size
    BY <2>1, <2>3, BlockSame
  <2>5. EndOf(new, s) = EndOf(infos, s)
    BY <2>4 DEF EndOf
  <2>6. EndOf(infos, s) <= t
    BY DEF Chain
  <2> QED
    BY <2>1, <2>3, <2>4, <2>5, <2>6
<1>10. EndOf(new, t) = t + n /\ TailOf(new, t) = e /\ IsBlock(new, t)
  <2>1. EndOf(new, t) = t + n /\ TailOf(new, t) = e
    BY <1>2, <1>4, <1>7 DEF EndOf, TailOf
  <2>2. IsMultiple(t)
    BY DEF Chain
  <2> QED
    BY <1>4, <1>7, <2>1, <2>2 DEF IsBlock
<1>11. t + n \in 0 .. Capacity /\ IsMultiple(t + n)
  <2>1. IsMultiple(t)
    BY DEF Chain
  <2> QED
    BY <1>1, <2>1, SumMultiple
<1>12. \A s \in B \cup {t} : IsBlock(new, s) /\ EndOf(new, s) <= t + n
  <2>1. ASSUME NEW s \in B PROVE EndOf(new, s) <= t + n
    <3>1. EndOf(new, s) <= t /\ IsBlock(new, s)
      BY <1>9
    <3>2. EndOf(new, s) \in Nat
      BY <1>8, <3>1, BlockFacts
    <3> QED
      BY <1>1, <3>1, <3>2
  <2>2. t + n <= t + n
    BY <1>1
  <2> QED
    BY <1>9, <1>10, <2>1, <2>2
<1>13. ASSUME NEW s \in B \cup {t} \cup {t + n}
       PROVE  s = 0 \/ \E r \in B \cup {t} : EndOf(new, r) = s
  <2>1. CASE s = t + n
    BY <1>10, <2>1
  <2>2. CASE s \in B \cup {t}
    <3>1. s = 0 \/ \E r \in B : EndOf(infos, r) = s
      BY <2>2 DEF Chain
    <3> QED
      BY <1>9, <3>1
  <2> QED
    BY <2>1, <2>2
<1>14. ASSUME NEW r \in B \cup {t}, NEW s \in B \cup {t}, r < s
       PROVE  EndOf(new, r) <= s
  <2>1. r \in B
    BY <1>1, <1>9, <1>14
  <2>2. CASE s \in B
    <3>1. EndOf(infos, r) <= s
      BY <1>14, <2>1, <2>2 DEF Chain
    <3> QED
      BY <1>9, <2>1, <3>1
  <2>3. CASE s = t
    BY <1>9, <2>1, <2>3
  <2> QED
    BY <2>2, <2>3
<1>15. Chain(new, t + n, B \cup {t})
  BY <1>11, <1>12, <1>13, <1>14 DEF Chain
<1>16. /\ new \in Infos /\ \A r \in B : new[r] = infos[r]
       /\ new[t] = [size |-> n, state |-> state]
  BY <1>2, <1>7, <1>8, <1>9
<1> QED
  BY <1>15, <1>16 DEF Longer, new

-----------------------------------------------------------------------------
(***************************************************************************)
(* What callers hold                                                       *)
(***************************************************************************)

Used(infos, B) == {s \in B : infos[s].state = "USED"}

\* The allocations are the blocks in use, which are large enough for them.
Serves(infos, B, held) ==
  /\ DOMAIN held = {PointerTo(s) : s \in Used(infos, B)}
  /\ \A s \in Used(infos, B) :
       /\ held[PointerTo(s)] \in Sizes
       /\ UsableSize(infos[s].size - 2 * InfoSize) >= held[PointerTo(s)]

\* The tops callers keep lie between blocks, and what was held then is what is
\* held below.
Marked(B, t, held, kept) ==
  \A m \in DOMAIN kept :
    /\ m \in B \cup {t}
    /\ kept[m] = {p \in DOMAIN held : Head(p) < m}

Stacked(infos, t, B, held, kept) ==
  /\ infos \in Infos
  /\ Chain(infos, t, B)
  /\ Serves(infos, B, held)
  /\ Marked(B, t, held, kept)

\* The last block is in use, unless a caller keeps the top.
Tight(infos, t, B, kept) ==
  \/ t = 0
  \/ t \in DOMAIN kept
  \/ \E s \in B : EndOf(infos, s) = t /\ infos[s].state = "USED"

LEMMA PointerHead ==
  ASSUME NEW s \in Nat
  PROVE  Head(PointerTo(s)) = s /\ PointerTo(s) \in Nat
         /\ PointerTo(s) = s + InfoSize + GuardBytes
BY StackFacts DEF Head, PointerTo, UserOffset

LEMMA HeldFacts ==
  ASSUME NEW infos, NEW t, NEW B, NEW held, NEW kept,
         Stacked(infos, t, B, held, kept), NEW p \in DOMAIN held
  PROVE  /\ Head(p) \in Used(infos, B) /\ Head(p) \in B /\ Head(p) \in Nat
         /\ p = PointerTo(Head(p)) /\ p \in Nat /\ p <= Capacity
         /\ IsBlock(infos, Head(p)) /\ infos[Head(p)].state = "USED"
         /\ held[p] \in Sizes
         /\ UsableSize(infos[Head(p)].size - 2 * InfoSize) >= held[p]
<1>1. PICK s \in Used(infos, B) : p = PointerTo(s)
  BY DEF Stacked, Serves
<1>2. infos \in Infos /\ Chain(infos, t, B) /\ s \in B /\ t \in Nat
      /\ infos[s].state = "USED" /\ IsBlock(infos, s)
  BY ChainBounds DEF Stacked, Used, Chain
<1>3. s \in Nat /\ Head(p) = s /\ p \in Nat /\ p = s + InfoSize + GuardBytes
  BY <1>1, <1>2, BlockFacts, PointerHead
<1>4. p <= Capacity
  <2>1. /\ t <= Capacity /\ EndOf(infos, s) <= t /\ EndOf(infos, s) \in Nat
        /\ EndOf(infos, s) = s + infos[s].size /\ infos[s].size \in Nat
        /\ infos[s].size >= MinimumBlock
    BY <1>2, BlockFacts, ChainBounds DEF Chain
  <2>2. PICK n \in Nat : n = infos[s].size
    BY <2>1
  <2> QED
    BY <1>2, <1>3, <2>1, <2>2, StackFacts
<1> QED
  BY <1>1, <1>2, <1>3, <1>4 DEF Stacked, Serves

Pushed(new, t, B, more, kept) ==
  /\ Stacked(new, t, B, more, kept)
  /\ Tight(new, t, B, kept)

\* A block of n bytes serves a request, and a held allocation more or of
\* another size.
BlockFor(n, size) ==
  /\ n \in Nat /\ n >= MinimumBlock /\ IsMultiple(n)
  /\ UsableSize(n - 2 * InfoSize) >= size

Adds(held, more, p, size) ==
  /\ DOMAIN more = DOMAIN held \cup {p} /\ more[p] = size
  /\ \A q \in DOMAIN held : q # p => more[q] = held[q]

LEMMA WithAdds ==
  ASSUME NEW held, NEW p, NEW size, NEW more, more = With(held, p, size)
  PROVE  Adds(held, more, p, size)
BY DEF With, Adds

LEMMA PushStacked ==
  ASSUME NEW infos, NEW t, NEW B, NEW held, NEW kept,
         Stacked(infos, t, B, held, kept),
         NEW size \in Sizes, NEW n, BlockFor(n, size), t + n <= Capacity,
         NEW p, NEW more, p = PointerTo(t), Adds(held, more, p, size)
  PROVE  /\ Pushed(Bracket(infos, t, n, "USED"), t + n, B \cup {t}, more, kept)
         /\ t \in Nat /\ p \in Nat /\ p \notin DOMAIN held /\ Head(p) = t
<1> DEFINE new == Bracket(infos, t, n, "USED")
<1> HIDE DEF new
<1>0. /\ n \in Nat /\ n >= MinimumBlock /\ IsMultiple(n)
      /\ UsableSize(n - 2 * InfoSize) >= size
      /\ DOMAIN more = DOMAIN held \cup {p} /\ more[p] = size
      /\ \A q \in DOMAIN held : q # p => more[q] = held[q]
  BY DEF BlockFor, Adds
<1>1. infos \in Infos /\ Chain(infos, t, B)
  BY DEF Stacked
<1>2. /\ new \in Infos /\ Chain(new, t + n, B \cup {t})
      /\ \A r \in B : new[r] = infos[r]
      /\ new[t] = [size |-> n, state |-> "USED"]
  <2>1. Longer(infos, Bracket(infos, t, n, "USED"), t, B, n, "USED")
    BY <1>0, <1>1, BracketChain
  <2> QED
    BY <2>1 DEF Longer, new
<1>3. /\ t \in Nat /\ p \in Nat /\ Head(p) = t
      /\ \A s \in B : s < t /\ s \in Nat
  BY <1>0, <1>1, ChainBounds, PointerHead
<1>4. t \notin B
  BY <1>3
<1>5. p \notin DOMAIN held
  BY <1>3, HeldFacts
<1>6. new[t].size = n /\ new[t].state = "USED"
  BY <1>2
<1>7. Used(new, B \cup {t}) = Used(infos, B) \cup {t}
  BY <1>2, <1>6 DEF Used
<1>8. DOMAIN more = {PointerTo(s) : s \in Used(new, B \cup {t})}
  BY <1>0, <1>7 DEF Stacked, Serves
<1>9. ASSUME NEW s \in Used(new, B \cup {t})
      PROVE  /\ more[PointerTo(s)] \in Sizes
             /\ UsableSize(new[s].size - 2 * InfoSize) >= more[PointerTo(s)]
  <2>1. CASE s = t
    BY <1>0, <1>6, <2>1
  <2>2. CASE s # t
    <3>1. s \in Used(infos, B) /\ s \in B
      BY <1>7, <2>2 DEF Used
    <3>2. PointerTo(s) \in DOMAIN held
      BY <3>1 DEF Stacked, Serves
    <3>3. more[PointerTo(s)] = held[PointerTo(s)]
      BY <1>0, <1>5, <3>2
    <3> QED
      BY <1>2, <3>1, <3>3 DEF Stacked, Serves
  <2> QED
    BY <2>1, <2>2
<1>10. ASSUME NEW m \in DOMAIN kept
       PROVE  /\ m \in B \cup {t} \cup {t + n}
              /\ kept[m] = {q \in DOMAIN more : Head(q) < m}
  <2>1. m \in B \cup {t} /\ kept[m] = {q \in DOMAIN held : Head(q) < m}
    BY DEF Stacked, Marked
  <2>2. ~ (Head(p) < m)
    BY <1>3, <2>1
  <2> QED
    BY <1>0, <2>1, <2>2
<1>11. Tight(new, t + n, B \cup {t}, kept)
  <2>1. EndOf(new, t) = t + n
    BY <1>6 DEF EndOf
  <2> QED
    BY <1>6, <2>1 DEF Tight
<1>12. Stacked(new, t + n, B \cup {t}, more, kept)
  BY <1>2, <1>8, <1>9, <1>10 DEF Stacked, Serves, Marked
<1> QED
  BY <1>3, <1>5, <1>11, <1>12 DEF Pushed, new

\* What is held, and which tops are kept, below u.
Lower(held, less, u) ==
  /\ DOMAIN less = {p \in DOMAIN held : Head(p) < u}
  /\ \A p \in DOMAIN less : less[p] = held[p]

KeepsLow(kept, fewer, u) ==
  /\ DOMAIN fewer = DOMAIN kept \cap 0 .. u
  /\ \A m \in DOMAIN fewer : fewer[m] = kept[m]

LEMMA CutStacked ==
  ASSUME NEW infos, NEW t, NEW B, NEW held, NEW kept,
         Stacked(infos, t, B, held, kept), NEW u \in B \cup {t},
         NEW less, Lower(held, less, u), NEW fewer, KeepsLow(kept, fewer, u)
  PROVE  Stacked(infos, u, Below(B, u), less, fewer)
<1>0. /\ DOMAIN less = {p \in DOMAIN held : Head(p) < u}
      /\ \A p \in DOMAIN less : less[p] = held[p]
      /\ DOMAIN fewer = DOMAIN kept \cap 0 .. u
      /\ \A m \in DOMAIN fewer : fewer[m] = kept[m]
  BY DEF Lower, KeepsLow
<1>1. infos \in Infos /\ Chain(infos, t, B)
  BY DEF Stacked
<1>2. Chain(infos, u, Below(B, u)) /\ u \in Nat
  BY <1>1, ChainCut
<1>3. \A s \in B : s \in Nat /\ Head(PointerTo(s)) = s
  BY <1>1, ChainBounds, PointerHead
<1>4. Used(infos, Below(B, u)) = {s \in Used(infos, B) : s < u}
  BY DEF Used, Below
<1>5. DOMAIN less = {PointerTo(s) : s \in Used(infos, Below(B, u))}
  <2>1. \A s \in Used(infos, B) : Head(PointerTo(s)) = s
    BY <1>3 DEF Used
  <2>2. DOMAIN held = {PointerTo(s) : s \in Used(infos, B)}
    BY DEF Stacked, Serves
  <2> QED
    BY <1>0, <1>4, <2>1, <2>2
<1>6. ASSUME NEW s \in Used(infos, Below(B, u))
      PROVE  /\ less[PointerTo(s)] \in Sizes
             /\ UsableSize(infos[s].size - 2 * InfoSize) >= less[PointerTo(s)]
  <2>1. less[PointerTo(s)] = held[PointerTo(s)]
    BY <1>0, <1>5
  <2> QED
    BY <1>4, <2>1 DEF Stacked, Serves
<1>7. ASSUME NEW m \in DOMAIN fewer
      PROVE  /\ m \in Below(B, u) \cup {u}
             /\ fewer[m] = {p \in DOMAIN less : Head(p) < m}
  <2>1. m \in DOMAIN kept /\ m \in 0 .. u /\ fewer[m] = kept[m]
    BY <1>0
  <2>2. m \in B \cup {t} /\ kept[m] = {p \in DOMAIN held : Head(p) < m}
    BY <2>1 DEF Stacked, Marked
  <2>3. m \in Below(B, u) \cup {u}
    <3>1. CASE m = t
      <4>1. u = t \/ u < t
        BY <1>1, ChainBounds
      <4> QED
        BY <1>1, <1>2, <2>1, <3>1, <4>1, ChainBounds
    <3>2. CASE m \in B
      BY <1>2, <2>1, <3>2 DEF Below
    <3> QED
      BY <2>2, <3>1, <3>2
  <2>4. ASSUME NEW p \in DOMAIN held, Head(p) < m PROVE Head(p) < u
    BY <1>2, <2>1, <2>4, HeldFacts
  <2> QED
    BY <1>0, <2>1, <2>2, <2>3, <2>4
<1> QED
  BY <1>1, <1>2, <1>5, <1>6, <1>7 DEF Stacked, Serves, Marked

\* An allocation less, and the tops kept up to u without it.
Drops(held, less, p) ==
  /\ DOMAIN less = DOMAIN held \ {p}
  /\ \A q \in DOMAIN less : less[q] = held[q]

KeepsUpTo(kept, fewer, p, u) ==
  /\ DOMAIN fewer = DOMAIN kept \cap 0 .. u
  /\ \A m \in DOMAIN fewer : fewer[m] = kept[m] \ {p}

LEMMA WithoutDrops ==
  ASSUME NEW held, NEW p, NEW less, less = Without(held, p)
  PROVE  Drops(held, less, p)
BY DEF Without, Drops

Forgets(kept, fewer, p) ==
  /\ DOMAIN fewer = DOMAIN kept
  /\ \A m \in DOMAIN fewer : fewer[m] = kept[m] \ {p}

\* A block was marked free.
Freed(infos, t, B, kept, s, new, less, fewer) ==
  /\ Stacked(new, t, B, less, fewer)
  /\ new[s].size = infos[s].size /\ new[s].state = "FREE"
  /\ EndOf(infos, s) # t /\ Tight(infos, t, B, kept) => Tight(new, t, B, fewer)

LEMMA FreeStacked ==
  ASSUME NEW infos, NEW t, NEW B, NEW held, NEW kept,
         Stacked(infos, t, B, held, kept), NEW p \in DOMAIN held,
         NEW less, Drops(held, less, p), NEW fewer, Forgets(kept, fewer, p)
  PROVE  Freed(infos, t, B, kept, Head(p), Restate(infos, Head(p), "FREE"),
               less, fewer)
<1>0. /\ DOMAIN less = DOMAIN held \ {p}
      /\ \A q \in DOMAIN less : less[q] = held[q]
      /\ DOMAIN fewer = DOMAIN kept
      /\ \A m \in DOMAIN fewer : fewer[m] = kept[m] \ {p}
  BY DEF Drops, Forgets
<1> DEFINE s == Head(p)
           new == Restate(infos, s, "FREE")
<1> HIDE DEF s, new
<1>1. infos \in Infos /\ Chain(infos, t, B) /\ s \in B /\ s \in Nat
      /\ p = PointerTo(s)
  BY HeldFacts DEF Stacked, s
<1>2. /\ new \in Infos /\ Chain(new, t, B)
      /\ \A r \in B : r # s => new[r] = infos[r]
      /\ new[s].size = infos[s].size /\ new[s].state = "FREE"
  BY <1>1, RestateChain DEF new
<1>3. Used(new, B) = Used(infos, B) \ {s}
  BY <1>1, <1>2 DEF Used
<1>4. \A r \in B : Head(PointerTo(r)) = r
  BY <1>1, ChainBounds, PointerHead
<1>5. DOMAIN less = {PointerTo(r) : r \in Used(new, B)}
  <2>1. DOMAIN held = {PointerTo(r) : r \in Used(infos, B)}
    BY DEF Stacked, Serves
  <2>2. \A r \in Used(infos, B) : PointerTo(r) = p => r = s
    BY <1>1, <1>4 DEF Used
  <2> QED
    BY <1>0, <1>1, <1>3, <2>1, <2>2
<1>6. ASSUME NEW r \in Used(new, B)
      PROVE  /\ less[PointerTo(r)] \in Sizes
             /\ UsableSize(new[r].size - 2 * InfoSize) >= less[PointerTo(r)]
  <2>1. less[PointerTo(r)] = held[PointerTo(r)]
    BY <1>0, <1>5
  <2>2. r \in Used(infos, B) /\ new[r] = infos[r]
    BY <1>2, <1>3 DEF Used
  <2> QED
    BY <2>1, <2>2 DEF Stacked, Serves
<1>7. ASSUME NEW m \in DOMAIN fewer
      PROVE  /\ m \in B \cup {t}
             /\ fewer[m] = {q \in DOMAIN less : Head(q) < m}
  BY <1>0 DEF Stacked, Marked
<1>8. ASSUME EndOf(infos, s) # t, Tight(infos, t, B, kept)
      PROVE  Tight(new, t, B, fewer)
  <2>1. CASE \E r \in B : EndOf(infos, r) = t /\ infos[r].state = "USED"
    <3>1. PICK r \in B : EndOf(infos, r) = t /\ infos[r].state = "USED"
      BY <2>1
    <3>2. new[r] = infos[r]
      BY <1>2, <1>8, <3>1
    <3> QED
      BY <3>1, <3>2 DEF Tight, EndOf
  <2> QED
    BY <1>0, <1>8, <2>1 DEF Tight
<1> QED
  BY <1>2, <1>5, <1>6, <1>7, <1>8 DEF Stacked, Serves, Marked, Freed, s, new

-----------------------------------------------------------------------------
(***************************************************************************)
(* The calls                                                               *)
(***************************************************************************)

LEMMA BlockOfSize ==
  ASSUME NEW size \in Sizes, NEW n, n \in {Total(size), Adjusted(size)}
  PROVE  BlockFor(n, size) /\ size \in Nat
<1>1. /\ size \in Nat /\ InfoSize \in Nat /\ GuardTotal \in Nat
      /\ size + 2 * InfoSize + Alignment - 1 + GuardTotal < SizeLimit
      /\ Alignment \in Nat /\ SizeLimit \in Nat
      /\ GuardBytes % Alignment = 0
  BY StackFacts, StackAssumption
<1>2. PICK wide \in Nat : wide = size + 2 * InfoSize
  BY <1>1
<1>3. CASE n = Total(size)
  <2>1. n = BlockSize(wide)
    BY <1>2, <1>3 DEF Total
  <2>2. wide + Alignment - 1 + GuardTotal < SizeLimit
    BY <1>1, <1>2
  <2>3. n \in Nat /\ n >= wide + GuardTotal /\ IsMultiple(n)
    BY <1>1, <2>1, <2>2, BlockHoldsRequest, BlockSizeMultiple
  <2> QED
    BY <1>1, <1>2, <2>3, StackFacts DEF UsableSize, BlockFor
<1>4. CASE n = Adjusted(size)
  <2>1. PICK m : m = BlockSize(size)
    OBVIOUS
  <2>2. size + Alignment - 1 + GuardTotal < SizeLimit
    BY <1>1
  <2>3. m \in Nat /\ m >= size + GuardTotal /\ IsMultiple(m)
    BY <1>1, <2>1, <2>2, BlockHoldsRequest, BlockSizeMultiple
  <2>4. n = m + (InfoSize + InfoSize)
    BY <1>1, <1>4, <2>1 DEF Adjusted
  <2>5. IsMultiple(n)
    BY <2>3, <2>4, StackFacts, SumMultiple
  <2> QED
    BY <1>1, <2>3, <2>4, <2>5, StackFacts DEF UsableSize, BlockFor
<1> QED
  BY <1>3, <1>4

\* What callers may do: they give back again what they gave back only as long
\* as no block was laid out since, and forget a top when blocks move across it.
LegalCallers == KeepStale = FALSE /\ GiveBackLate = FALSE

Answers == [op : Operations, arg : Nat, status : Statuses, result : Nat,
            bytes : Nat]

Stands(t, infos, held, kept) ==
  \E B : Stacked(infos, t, B, held, kept) /\ Tight(infos, t, B, kept)

\* The infos of what was given back still say so.
Gone(infos, held, back) ==
  \A p \in back : /\ p \in Nat /\ p <= Capacity /\ p \notin DOMAIN held
                  /\ Head(p) \in DOMAIN infos
                  /\ infos[Head(p)].state = "FREE"

\* The inductive invariant: below the top stands a chain of blocks, those in
\* use are held, the tops callers keep lie between them, and what may be given
\* back again can be told from what is in use.
Inv ==
  /\ \E t, B : Stacked(info, t, B, live, marks)
  /\ Defined => Stands(top, info, live, marks)
  /\ top \in Nat
  /\ Gone(info, live, returned)
  /\ damaged \subseteq DOMAIN live
  /\ ret \in Answers

LEMMA AnswerType ==
  ASSUME NEW op \in Operations, NEW arg \in Nat, NEW status \in Statuses,
         NEW result \in Nat, NEW bytes \in Nat
  PROVE  Answer(op, arg, status, result, bytes) \in Answers
BY DEF Answer, Answers

LEMMA AnswerIs ==
  ASSUME NEW op, NEW arg, NEW status, NEW result, NEW bytes
  PROVE  /\ Answer(op, arg, status, result, bytes).op = op
         /\ Answer(op, arg, status, result, bytes).arg = arg
         /\ Answer(op, arg, status, result, bytes).status = status
         /\ Answer(op, arg, status, result, bytes).result = result
         /\ Answer(op, arg, status, result, bytes).bytes = bytes
BY DEF Answer

LEMMA StatusTypes ==
  /\ {"SUCCESS", "OUT_OF_MEMORY", "MISMATCHED_ALLOCATOR",
      "CORRUPTED_POINTER", "DOUBLE_DEALLOCATION", Undefined} \subseteq Statuses
  /\ Undefined # "SUCCESS"
  /\ Null \in Nat
BY DEF Statuses, Undefined, Null

LEMMA RememberOne ==
  ASSUME NEW kept, NEW p
  PROVE  Remember(kept, p) \subseteq kept \cup {p}
BY DEF Remember

LEMMA NoneGone ==
  ASSUME NEW infos, NEW held
  PROVE  Gone(infos, held, {})
BY DEF Gone

LEMMA StillNone ==
  ASSUME LegalCallers
  PROVE  StillReturned = {}
BY DEF LegalCallers, StillReturned

\* What was given back stays so when it is joined by one that is given back.
LEMMA FreedGone ==
  ASSUME NEW infos, NEW new, NEW held, NEW less, NEW back, NEW more, NEW p,
         Gone(infos, held, back), more \subseteq back \cup {p},
         new = Restate(infos, Head(p), "FREE"), Head(p) \in DOMAIN infos,
         p \in Nat, p <= Capacity, p \notin DOMAIN less,
         \A q \in back : q \notin DOMAIN less
  PROVE  Gone(new, less, more)
<1>1. DOMAIN new = DOMAIN infos
  BY DEF Restate
<1>2. ASSUME NEW o \in DOMAIN infos,
             o = Head(p) \/ infos[o].state = "FREE"
      PROVE  new[o].state = "FREE"
  <2>1. PICK e : e = Head(p) + infos[Head(p)].size - InfoSize
    OBVIOUS
  <2>2. new[o] = IF o \in {Head(p), e}
                 THEN [size |-> infos[o].size, state |-> "FREE"] ELSE infos[o]
    BY <2>1 DEF Restate
  <2> QED
    BY <1>2, <2>2
<1>3. ASSUME NEW q \in more
      PROVE  /\ q \in Nat /\ q <= Capacity /\ q \notin DOMAIN less
             /\ Head(q) \in DOMAIN new /\ new[Head(q)].state = "FREE"
  <2>1. CASE q = p
    BY <1>1, <1>2, <2>1
  <2>2. CASE q \in back
    BY <1>1, <1>2, <2>2 DEF Gone
  <2> QED
    BY <2>1, <2>2
<1> QED
  BY <1>3 DEF Gone

\* What is given back again is refused.
LEMMA GoneRefused ==
  ASSUME Inv, NEW p \in returned, NEW intact
  PROVE  /\ p \in Nat
         /\ Inspect(info, Head(p), intact)
              \in {"CORRUPTED_POINTER", "DOUBLE_DEALLOCATION"}
BY DEF Inv, Gone, Inspect

\* A block that is held can be found, and counts as good if its guards do.
LEMMA InspectHeld ==
  ASSUME NEW infos, NEW t, NEW B, NEW held, NEW kept,
         Stacked(infos, t, B, held, kept), NEW p \in DOMAIN held,
         NEW intact \in BOOLEAN
  PROVE  /\ Readable(infos, Head(p))
         /\ Inspect(infos, Head(p), intact)
              = IF intact THEN "SUCCESS" ELSE "CORRUPTED_POINTER"
<1>1. /\ IsBlock(infos, Head(p)) /\ infos[Head(p)].state = "USED"
  BY HeldFacts
<1> QED
  BY <1>1 DEF IsBlock, TailOf, Readable, Inspect

\* What is told of the block a caller names.
LEMMA HeldIntact ==
  ASSUME Inv, Defined, NEW p \in DOMAIN live, NEW intact \in BOOLEAN,
         Guarded(p, intact)
  PROVE  /\ intact = (p \notin damaged)
         /\ Inspect(info, Head(p), intact)
              = IF intact THEN "SUCCESS" ELSE "CORRUPTED_POINTER"
<1>1. PICK B : Stacked(info, top, B, live, marks)
  BY DEF Inv, Stands
<1>2. /\ Readable(info, Head(p))
      /\ Inspect(info, Head(p), intact)
           = IF intact THEN "SUCCESS" ELSE "CORRUPTED_POINTER"
  BY <1>1, InspectHeld
<1> QED
  BY <1>2 DEF Guarded

LEMMA FoundIsHeld ==
  ASSUME Inv, NEW p, Found(p)
  PROVE  Defined /\ p \in DOMAIN live \ damaged
<1>1. Defined /\ p \in DOMAIN live \cup returned
  BY DEF Found
<1>2. PICK intact \in BOOLEAN :
        Guarded(p, intact) /\ Inspect(info, Head(p), intact) = "SUCCESS"
  BY DEF Found
<1>3. p \in DOMAIN live
  BY <1>1, <1>2, GoneRefused
<1> QED
  BY <1>1, <1>2, <1>3, HeldIntact

\* What cutl_allocator_stack_deallocate does to a block that is held.
Released(infos, t, s, out) ==
  /\ out.status = "SUCCESS" /\ out.info = Restate(infos, s, "FREE")
  /\ EndOf(infos, s) # t => out.top = t
  /\ EndOf(infos, s) = t => out.top = Pop(Restate(infos, s, "FREE"), s).top

LEMMA OutcomeIs ==
  ASSUME NEW infos, NEW t, NEW status, NEW out,
         out = [info |-> infos, top |-> t, status |-> status]
  PROVE  out.info = infos /\ out.top = t /\ out.status = status
OBVIOUS

LEMMA GiveBackHeld ==
  ASSUME NEW infos, NEW t, NEW B, NEW held, NEW kept,
         Stacked(infos, t, B, held, kept), NEW p \in DOMAIN held,
         NEW out, out = GiveBack(infos, t, Head(p), TRUE)
  PROVE  Released(infos, t, Head(p), out)
<1>1. Inspect(infos, Head(p), TRUE) = "SUCCESS"
  BY InspectHeld
<1>2. PICK freed : freed = Restate(infos, Head(p), "FREE")
  OBVIOUS
<1>3. CASE EndOf(infos, Head(p)) # t
  <2>1. out = [info |-> freed, top |-> t, status |-> "SUCCESS"]
    BY <1>1, <1>2, <1>3 DEF GiveBack, EndOf
  <2>2. out.info = freed /\ out.top = t /\ out.status = "SUCCESS"
    BY ONLY <2>1, OutcomeIs, Zenon
  <2> QED
    BY <1>2, <1>3, <2>2 DEF Released
<1>4. CASE EndOf(infos, Head(p)) = t
  <2>1. infos \in Infos /\ Chain(infos, t, B) /\ Head(p) \in B
    BY HeldFacts DEF Stacked
  <2>2. freed \in Infos /\ Chain(freed, t, B)
    BY <1>2, <2>1, RestateChain
  <2>3. Pop(freed, Head(p)).status = "SUCCESS"
    BY <2>1, <2>2, PopChain
  <2>4. out = [info |-> freed, top |-> Pop(freed, Head(p)).top,
               status |-> Pop(freed, Head(p)).status]
    BY <1>1, <1>2, <1>4 DEF GiveBack, EndOf
  <2>5. out.info = freed /\ out.top = Pop(freed, Head(p)).top
        /\ out.status = "SUCCESS"
    BY ONLY <2>3, <2>4, OutcomeIs, Zenon
  <2> QED
    BY <1>2, <1>4, <2>5 DEF Released
<1> QED
  BY <1>3, <1>4

\* What a block that is held leaves: the blocks up to where the free ones
\* below it end.
Leaves(infos, t, p, out, less, fewer) ==
  /\ out.status = "SUCCESS" /\ out.top \in Nat
  /\ EndOf(infos, Head(p)) # t => out.top = t
  /\ Stands(out.top, out.info, less, fewer)

GivesBack(infos, t, p, out) == out = GiveBack(infos, t, Head(p), TRUE)

LEMMA GiveBackStands ==
  ASSUME NEW infos, NEW t, NEW B, NEW held, NEW kept,
         Stacked(infos, t, B, held, kept), Tight(infos, t, B, kept),
         NEW p \in DOMAIN held, NEW out, GivesBack(infos, t, p, out),
         NEW less, Drops(held, less, p),
         NEW fewer, KeepsUpTo(kept, fewer, p, out.top)
  PROVE  Leaves(infos, t, p, out, less, fewer)
<1>1. PICK s, new : s = Head(p) /\ new = Restate(infos, s, "FREE")
  OBVIOUS
<1>2. /\ out.status = "SUCCESS" /\ out.info = new
      /\ EndOf(infos, s) # t => out.top = t
      /\ EndOf(infos, s) = t => out.top = Pop(new, s).top
  <2>1. Released(infos, t, s, out)
    BY <1>1, GiveBackHeld DEF GivesBack
  <2> QED
    BY <1>1, <2>1 DEF Released
<1>3. /\ infos \in Infos /\ Chain(infos, t, B) /\ s \in B /\ t \in Nat
      /\ \A m \in DOMAIN kept : m \in B \cup {t}
      /\ \A r \in B : r \in Nat /\ r < t
  <2>1. infos \in Infos /\ Chain(infos, t, B)
    BY DEF Stacked
  <2>2. s \in B
    BY <1>1, HeldFacts
  <2>3. \A m \in DOMAIN kept : m \in B \cup {t}
    BY DEF Stacked, Marked
  <2> QED
    BY <2>1, <2>2, <2>3, ChainBounds
<1>4. PICK mid : mid = Forget(p, kept)
  OBVIOUS
<1>5. /\ DOMAIN mid = DOMAIN kept /\ \A m \in DOMAIN mid : mid[m] = kept[m] \ {p}
      /\ Forgets(kept, mid, p)
  BY <1>4 DEF Forget, Forgets
<1>6. /\ DOMAIN less = DOMAIN held \ {p}
      /\ \A q \in DOMAIN less : less[q] = held[q]
      /\ DOMAIN fewer = DOMAIN kept \cap 0 .. out.top
      /\ \A m \in DOMAIN fewer : fewer[m] = kept[m] \ {p}
  BY DEF Drops, KeepsUpTo
<1>7. CASE EndOf(infos, s) # t
  <2>1. Forgets(kept, fewer, p)
    <3>1. \A m \in DOMAIN kept : m \in 0 .. t
      BY <1>3
    <3> QED
      BY <1>2, <1>6, <1>7, <3>1 DEF Forgets
  <2>2. Freed(infos, t, B, kept, s, new, less, fewer)
    BY <1>1, <2>1, FreeStacked
  <2>3. Stacked(new, t, B, less, fewer) /\ Tight(new, t, B, fewer)
    BY <1>7, <2>2 DEF Freed
  <2> QED
    BY <1>1, <1>2, <1>3, <1>7, <2>3 DEF Stands, Leaves
<1>8. CASE EndOf(infos, s) = t
  <2>1. Stacked(new, t, B, less, mid) /\ new[s].state = "FREE"
        /\ new[s].size = infos[s].size
    <3>1. Freed(infos, t, B, kept, s, new, less, mid)
      BY <1>1, <1>5, FreeStacked
    <3> QED
      BY <3>1 DEF Freed
  <2>2. PICK w : w = Pop(new, s).top
    OBVIOUS
  <2>3. new \in Infos /\ Chain(new, t, B)
    BY <2>1 DEF Stacked
  <2>4. Popped(new, B, s, w)
    BY <1>3, <2>2, <2>3, PopChain
  <2>5. /\ w \in B /\ w \in Nat /\ w <= s
        /\ \A r \in B : r < s /\ w <= r => new[r].state = "FREE"
        /\ w = 0 \/ \E r \in Below(B, w) : EndOf(new, r) = w /\ new[r].state = "USED"
    BY <1>3, <2>4 DEF Popped, Below
  <2>6. \A r \in B : s < r => FALSE
    <3>1. EndOf(new, s) = t
      BY <1>8, <2>1 DEF EndOf
    <3>2. \A r \in B : s < r => t <= r
      BY <1>3, <2>3, <3>1 DEF Chain
    <3> QED
      BY <1>3, <3>2
  <2>7. ASSUME NEW q \in DOMAIN less PROVE Head(q) < w
    <3>1. Head(q) \in B /\ Head(q) \in Nat /\ new[Head(q)].state = "USED"
      BY <2>1, HeldFacts
    <3> QED
      BY <1>3, <2>1, <2>5, <2>6, <3>1
  <2>8. Lower(less, less, w) /\ KeepsLow(mid, fewer, w)
    BY <1>2, <1>5, <1>6, <1>8, <2>2, <2>7 DEF Lower, KeepsLow
  <2>9. Stacked(new, w, Below(B, w), less, fewer)
    BY <2>1, <2>5, <2>8, CutStacked
  <2>10. Tight(new, w, Below(B, w), fewer)
    BY <2>5 DEF Tight
  <2> QED
    BY <1>1, <1>2, <1>8, <2>2, <2>5, <2>9, <2>10 DEF Stands, Leaves
<1> QED
  BY <1>7, <1>8

LEMMA AllocateStep ==
  ASSUME LegalCallers, Inv, NEW size \in Sizes, Allocate(size)
  PROVE  \E p \in Nat \ DOMAIN live :
           /\ live' = With(live, p, size)
           /\ Stands(top', info', live', marks')
           /\ ret' = Answer("allocate", Null, "SUCCESS", p, 0)
           /\ returned' = {} /\ damaged' = damaged /\ top' \in Nat
<1>1. PICK B : Stacked(info, top, B, live, marks)
  BY DEF Inv, Stands, Allocate
<1>2. PICK n : n = Total(size) /\ BlockFor(n, size)
  BY BlockOfSize
<1>3. PICK p, more : p = PointerTo(top) /\ more = live'
  OBVIOUS
<1>4. /\ top' = top + n /\ top + n <= Capacity
      /\ info' = Bracket(info, top, n, "USED")
      /\ more = With(live, p, size)
      /\ returned' = StillReturned \ {p} /\ damaged' = damaged /\ marks' = marks
      /\ ret' = Answer("allocate", Null, "SUCCESS", p, 0)
  BY <1>2, <1>3 DEF Allocate, Fits
<1>5. Adds(live, more, p, size)
  BY <1>4, WithAdds
<1>6. Pushed(info', top + n, B \cup {top}, more, marks)
      /\ p \in Nat /\ p \notin DOMAIN live
  BY <1>1, <1>2, <1>3, <1>4, <1>5, PushStacked
<1>7. n \in Nat
  BY <1>2 DEF BlockFor
<1>8. returned' = {} /\ top' \in Nat
  BY <1>4, <1>7, StillNone DEF Inv
<1>9. Stands(top', info', live', marks')
  BY <1>3, <1>4, <1>6 DEF Stands, Pushed
<1> QED
  BY <1>3, <1>4, <1>6, <1>8, <1>9

LEMMA DeallocateStep ==
  ASSUME LegalCallers, Inv, NEW p \in DOMAIN live, NEW intact \in BOOLEAN,
         Deallocate(p, intact)
  PROVE  /\ p \in Nat
         /\ \/ /\ p \notin damaged /\ live' = Without(live, p)
               /\ Stands(top', info', live', marks')
               /\ ret' = Answer("deallocate", p, "SUCCESS", Null, 0)
               /\ Gone(info', live', returned')
               /\ damaged' = damaged /\ top' \in Nat
            \/ /\ p \in damaged
               /\ ret' = Answer("deallocate", p, "CORRUPTED_POINTER", Null, 0)
               /\ UNCHANGED << top, info, live, returned, damaged, marks >>
<1>1. PICK B : Stacked(info, top, B, live, marks) /\ Tight(info, top, B, marks)
  BY DEF Inv, Stands, Deallocate
<1>2. /\ Defined /\ p \in DOMAIN live /\ Guarded(p, intact)
      /\ Gone(info, live, returned) /\ damaged \subseteq DOMAIN live
  BY DEF Deallocate, Inv
<1>3. p \in Nat /\ p <= Capacity /\ Head(p) \in DOMAIN info
  BY <1>1, <1>2, HeldFacts DEF IsBlock
<1>4. /\ intact = (p \notin damaged)
      /\ Inspect(info, Head(p), intact)
           = IF intact THEN "SUCCESS" ELSE "CORRUPTED_POINTER"
  BY <1>2, HeldIntact
<1>5. PICK out : out = GiveBack(info, top, Head(p), intact)
  OBVIOUS
<1>6. /\ ret' = Answer("deallocate", p, out.status, Null, 0)
      /\ top' = out.top /\ info' = out.info /\ damaged' = damaged
      /\ out.status = "SUCCESS" => /\ live' = Without(live, p)
                                   /\ returned' = Remember(returned, p)
                                   /\ marks' = Forget(p, KeptMarks(out.top))
      /\ out.status # "SUCCESS" => UNCHANGED << live, returned, marks >>
  BY <1>5 DEF Deallocate
<1>7. CASE intact
  <2>1. out = GiveBack(info, top, Head(p), TRUE) /\ p \notin damaged
    BY <1>4, <1>5, <1>7
  <2>2. PICK less, fewer : /\ less = Without(live, p)
                           /\ fewer = Forget(p, KeptMarks(out.top))
    OBVIOUS
  <2>3. Drops(live, less, p)
    BY <2>2, WithoutDrops
  <2>4. KeepsUpTo(marks, fewer, p, out.top)
    BY <2>2 DEF KeepsUpTo, Forget, KeptMarks, Only, LegalCallers
  <2>5. /\ out.status = "SUCCESS" /\ out.top \in Nat
        /\ Stands(out.top, out.info, less, fewer)
    <3>1. GivesBack(info, top, p, out)
      BY <2>1 DEF GivesBack
    <3>2. Leaves(info, top, p, out, less, fewer)
      BY <1>1, <1>2, <2>3, <2>4, <3>1, GiveBackStands
    <3> QED
      BY <3>2 DEF Leaves
  <2>6. Gone(info', live', returned')
    <3>1. GivesBack(info, top, p, out) /\ Released(info, top, Head(p), out)
      BY <1>1, <2>1, GiveBackHeld DEF GivesBack
    <3>2. info' = Restate(info, Head(p), "FREE")
      BY <1>6, <3>1 DEF Released
    <3>3. DOMAIN live' = DOMAIN live \ {p}
      BY <1>6, <2>5 DEF Without
    <3>4. returned' \subseteq returned \cup {p}
      BY <1>6, <2>5, RememberOne
    <3>5. \A q \in returned : q \notin DOMAIN live'
      BY <1>2, <3>3 DEF Gone
    <3> QED
      BY <1>2, <1>3, <3>2, <3>3, <3>4, <3>5, FreedGone
  <2>7. Stands(top', info', live', marks')
    BY <1>6, <2>2, <2>5
  <2>8. ret' = Answer("deallocate", p, "SUCCESS", Null, 0)
    BY <1>6, <2>5
  <2> QED
    BY <1>3, <1>6, <2>1, <2>5, <2>6, <2>7, <2>8
<1>8. CASE ~intact
  <2>1. out = [info |-> info, top |-> top, status |-> "CORRUPTED_POINTER"]
    BY <1>4, <1>5, <1>8 DEF GiveBack
  <2>2. out.info = info /\ out.top = top /\ out.status = "CORRUPTED_POINTER"
    BY ONLY <2>1, OutcomeIs, Zenon
  <2>3. ret' = Answer("deallocate", p, "CORRUPTED_POINTER", Null, 0)
    BY <1>6, <2>2
  <2> QED
    BY <1>2, <1>3, <1>4, <1>6, <1>8, <2>2, <2>3
<1> QED
  BY <1>7, <1>8

\* What was given back before is refused again.
LEMMA DeallocateGone ==
  ASSUME Inv, NEW p, NEW intact \in BOOLEAN, Deallocate(p, intact),
         p \notin DOMAIN live
  PROVE  /\ p \in Nat
         /\ \E status \in {"CORRUPTED_POINTER", "DOUBLE_DEALLOCATION"} :
              Fail("deallocate", p, status)
<1>1. p \in returned
  BY DEF Deallocate
<1>2. PICK status \in {"CORRUPTED_POINTER", "DOUBLE_DEALLOCATION"} :
        status = Inspect(info, Head(p), intact)
  BY <1>1, GoneRefused
<1>3. PICK out : out = GiveBack(info, top, Head(p), intact)
  OBVIOUS
<1>4. out = [info |-> info, top |-> top, status |-> status]
  BY <1>2, <1>3 DEF GiveBack
<1>5. out.info = info /\ out.top = top /\ out.status = status
  BY ONLY <1>4, OutcomeIs, Zenon
<1>6. /\ ret' = Answer("deallocate", p, out.status, Null, 0)
      /\ top' = out.top /\ info' = out.info /\ damaged' = damaged
      /\ out.status # "SUCCESS" => UNCHANGED << live, returned, marks >>
  BY <1>3 DEF Deallocate
<1>7. Fail("deallocate", p, status)
  BY <1>2, <1>5, <1>6 DEF Fail
<1> QED
  BY <1>1, <1>7, GoneRefused

LEMMA SameStep ==
  ASSUME Inv, NEW p, NEW size \in Sizes, ReallocateSame(p, size)
  PROVE  /\ p \in DOMAIN live /\ p \in Nat /\ live' = With(live, p, size)
         /\ Stands(top', info', live', marks')
         /\ ret' = Answer("reallocate", p, "SUCCESS", p, 0)
         /\ Gone(info', live', returned')
         /\ damaged' = damaged /\ top' \in Nat
<1>1. Defined /\ p \in DOMAIN live
  BY FoundIsHeld DEF ReallocateSame
<1>2. PICK B : Stacked(info, top, B, live, marks) /\ Tight(info, top, B, marks)
  BY <1>1 DEF Inv, Stands
<1>3. /\ Adjusted(size) <= OldSize(p)
      /\ ret' = Answer("reallocate", p, "SUCCESS", p, 0)
      /\ UNCHANGED << top, info, returned, damaged, marks >>
      /\ live' = With(live, p, size)
  BY DEF ReallocateSame
<1>4. PICK s, more : s = Head(p) /\ more = With(live, p, size)
  OBVIOUS
<1>5. /\ s \in Used(info, B) /\ s \in B /\ p = PointerTo(s) /\ p \in Nat
      /\ IsBlock(info, s) /\ info \in Infos /\ Chain(info, top, B)
  BY <1>1, <1>2, <1>4, HeldFacts DEF Stacked
<1>6. UsableSize(info[s].size - 2 * InfoSize) >= size
  <2>1. PICK n, old : n = Adjusted(size) /\ old = info[s].size /\ old \in Nat
    BY <1>5, BlockFacts
  <2>2. n \in Nat /\ UsableSize(n - 2 * InfoSize) >= size /\ size \in Nat
    BY <2>1, BlockOfSize DEF BlockFor
  <2>3. n <= old
    BY <1>3, <1>4, <2>1 DEF OldSize
  <2> QED
    BY <2>1, <2>2, <2>3, StackFacts DEF UsableSize
<1>7. /\ DOMAIN more = DOMAIN live /\ more[p] = size
      /\ \A q \in DOMAIN live : q # p => more[q] = live[q]
  BY <1>1, <1>4 DEF With
<1>8. Serves(info, B, more)
  <2>1. /\ DOMAIN live = {PointerTo(r) : r \in Used(info, B)}
        /\ \A r \in Used(info, B) :
             /\ live[PointerTo(r)] \in Sizes
             /\ UsableSize(info[r].size - 2 * InfoSize) >= live[PointerTo(r)]
    BY <1>2 DEF Stacked, Serves
  <2>2. ASSUME NEW r \in Used(info, B)
        PROVE  /\ more[PointerTo(r)] \in Sizes
               /\ UsableSize(info[r].size - 2 * InfoSize) >= more[PointerTo(r)]
    <3>1. Head(PointerTo(r)) = r
      BY <1>5, ChainBounds, PointerHead DEF Used
    <3>2. CASE r = s
      BY <1>5, <1>6, <1>7, <3>2
    <3>3. CASE r # s
      <4>1. PointerTo(r) # p /\ PointerTo(r) \in DOMAIN live
        BY <1>4, <2>1, <3>1, <3>3
      <4> QED
        BY <1>7, <2>1, <4>1
    <3> QED
      BY <3>2, <3>3
  <2> QED
    BY <1>7, <2>1, <2>2 DEF Serves
<1>9. Stacked(info, top, B, more, marks)
  BY <1>2, <1>7, <1>8 DEF Stacked, Marked
<1>10. Stands(top', info', live', marks')
  BY <1>2, <1>3, <1>4, <1>9 DEF Stands
<1>11. Gone(info', live', returned')
  BY <1>3, <1>4, <1>7 DEF Inv, Gone
<1> QED
  BY <1>1, <1>3, <1>5, <1>10, <1>11 DEF Inv

LEMMA InPlaceStep ==
  ASSUME LegalCallers, Inv, NEW p, NEW size \in Sizes, ReallocateInPlace(p, size)
  PROVE  /\ p \in DOMAIN live /\ p \in Nat
         /\ damaged' = damaged /\ top' \in Nat
         /\ Gone(info', live', returned')
         /\ \/ /\ live' = With(live, p, size)
               /\ Stands(top', info', live', marks')
               /\ ret' = Answer("reallocate", p, "SUCCESS", p, 0)
            \/ /\ ret' = Answer("reallocate", p, Undefined, Null, 0)
               /\ UNCHANGED << info, live, marks >>
<1>1. Defined /\ p \in DOMAIN live
  BY FoundIsHeld DEF ReallocateInPlace
<1>2. PICK B : Stacked(info, top, B, live, marks)
  BY <1>1 DEF Inv, Stands
<1>3. PICK s, n : s = Head(p) /\ n = Adjusted(size)
  OBVIOUS
<1>4. /\ top = s + info[s].size /\ top' = s + n
      /\ damaged' = damaged /\ Gone(info, live, returned)
  BY <1>3 DEF ReallocateInPlace, OnTop, OldSize, Inv
<1>5. /\ s \in B /\ s \in Nat /\ p = PointerTo(s) /\ p \in Nat
      /\ info \in Infos /\ Chain(info, top, B)
  BY <1>1, <1>2, <1>3, HeldFacts DEF Stacked
<1>6. BlockFor(n, size) /\ n \in Nat
  BY <1>3, BlockOfSize DEF BlockFor
<1>7. CASE s + n > Capacity
  <2>1. /\ ret' = Answer("reallocate", p, Undefined, Null, 0)
        /\ UNCHANGED << info, live, returned, marks >>
    BY <1>3, <1>4, <1>7 DEF ReallocateInPlace
  <2> QED
    BY <1>1, <1>4, <1>5, <1>6, <2>1
<1>8. CASE s + n <= Capacity
  <2>1. PICK more, fewer, less : /\ more = With(live, p, size)
                                 /\ fewer = KeptMarks(s)
                                 /\ less = Without(live, p)
    OBVIOUS
  <2>2. /\ info' = Bracket(info, s, n, "USED")
        /\ live' = more /\ marks' = fewer /\ returned' = StillReturned
        /\ ret' = Answer("reallocate", p, "SUCCESS", p, 0)
    <3>1. ~ (top' > Capacity)
      BY <1>4, <1>5, <1>6, <1>8, StackFacts
    <3> QED
      BY <1>3, <2>1, <3>1 DEF ReallocateInPlace
  <2>3. ASSUME NEW q \in DOMAIN live, q # p PROVE Head(q) < s
    <3>1. Head(q) \in B /\ Head(q) \in Nat /\ q = PointerTo(Head(q))
      BY <1>2, HeldFacts
    <3>2. Head(q) # s
      BY <1>5, <2>3, <3>1
    <3>3. ~ (s < Head(q))
      <4>1. Head(q) < top /\ top \in Nat
        BY <1>5, <3>1, ChainBounds
      <4>2. s < Head(q) => EndOf(info, s) <= Head(q)
        BY <1>5, <3>1 DEF Chain
      <4>3. EndOf(info, s) = top
        BY <1>4 DEF EndOf
      <4> QED
        BY <3>1, <4>1, <4>2, <4>3
    <3> QED
      BY <1>5, <3>1, <3>2, <3>3
  <2>4. ~ (Head(p) < s)
    BY <1>3, <1>5
  <2>5. Lower(live, less, s)
    BY <2>1, <2>3, <2>4 DEF Lower, Without
  <2>6. KeepsLow(marks, fewer, s)
    BY <2>1 DEF KeepsLow, KeptMarks, Only, LegalCallers
  <2>7. Stacked(info, s, Below(B, s), less, fewer)
    BY <1>2, <1>5, <2>5, <2>6, CutStacked
  <2>8. Adds(less, more, p, size)
    BY <1>1, <2>1 DEF Adds, With, Without
  <2>9. Pushed(info', s + n, Below(B, s) \cup {s}, more, fewer)
    BY <1>5, <1>6, <1>8, <2>2, <2>7, <2>8, PushStacked
  <2>10. Stands(top', info', live', marks')
    BY <1>4, <2>2, <2>9 DEF Stands, Pushed
  <2>11. Gone(info', live', returned')
    BY <2>2, StillNone, NoneGone
  <2> QED
    BY <1>1, <1>4, <1>5, <1>6, <2>1, <2>2, <2>10, <2>11
<1> QED
  BY <1>5, <1>6, <1>7, <1>8, StackFacts

LEMMA MoveStep ==
  ASSUME LegalCallers, Inv, NEW p, NEW size \in Sizes, ReallocateMove(p, size)
  PROVE  /\ p \in DOMAIN live \ damaged /\ p \in Nat
         /\ Gone(info', live', returned')
         /\ damaged' = damaged /\ top' \in Nat
         /\ \/ \E q \in Nat \ DOMAIN live :
                 /\ live' = With(Without(live, p), q, size)
                 /\ Stands(top', info', live', marks')
                 /\ ret' = Answer("reallocate", p, "SUCCESS", q,
                                  CopiedBytes(p, size))
            \/ /\ ret' = Answer("reallocate", p, "OUT_OF_MEMORY", Null, 0)
               /\ UNCHANGED << top, info, live, marks >>
<1>1. /\ Defined /\ p \in DOMAIN live \ damaged /\ top \in Nat
      /\ Gone(info, live, returned)
  BY FoundIsHeld DEF ReallocateMove, Inv
<1>2. PICK B : Stacked(info, top, B, live, marks) /\ Tight(info, top, B, marks)
  BY <1>1 DEF Inv, Stands
<1>3. p \in Nat /\ p <= Capacity
  BY <1>1, <1>2, HeldFacts
<1>4. CASE ~ Fits(Total(size))
  <2>1. Fail("reallocate", p, "OUT_OF_MEMORY")
    BY <1>4 DEF ReallocateMove
  <2> QED
    BY <1>1, <1>3, <2>1 DEF Fail
<1>5. CASE Fits(Total(size))
  <2>1. PICK n, q : n = Total(size) /\ q = PointerTo(top)
    OBVIOUS
  <2>2. PICK above : above = Bracket(info, top, n, "USED")
    OBVIOUS
  <2>3. PICK intact, out :
          /\ intact \in BOOLEAN
          /\ out = GiveBack(above, top + n, Head(p), intact)
          /\ Readable(above, Head(p)) => intact
          /\ top' = out.top
          /\ info' = out.info
          /\ live' = With(Without(live, p), q, size)
          /\ returned' = Remember(StillReturned, p) \ {q}
          /\ marks' = Forget(p, marks)
          /\ ret' = Answer("reallocate", p,
                           IF out.status = Undefined THEN Undefined
                           ELSE "SUCCESS",
                           q, CopiedBytes(p, size))
          /\ damaged' = damaged
    BY <1>5, <2>1, <2>2 DEF ReallocateMove
  <2>4. BlockFor(n, size) /\ top + n <= Capacity /\ n \in Nat
    BY <1>5, <2>1, BlockOfSize DEF Fits, BlockFor
  <2>5. PICK more, less, fewer : /\ more = With(live, q, size)
                                 /\ less = With(Without(live, p), q, size)
                                 /\ fewer = Forget(p, marks)
    OBVIOUS
  <2>6. Adds(live, more, q, size)
    BY <2>5, WithAdds
  <2>7. /\ Pushed(above, top + n, B \cup {top}, more, marks)
        /\ q \in Nat /\ q \notin DOMAIN live /\ Head(q) = top
    BY <1>2, <2>1, <2>2, <2>4, <2>6, PushStacked
  <2>8. p \in DOMAIN more /\ p # q
    BY <1>1, <2>5, <2>7 DEF With
  <2>9. /\ Stacked(above, top + n, B \cup {top}, more, marks)
        /\ Tight(above, top + n, B \cup {top}, marks)
    BY <2>7 DEF Pushed
  <2>10. intact = TRUE
    <3>1. Readable(above, Head(p))
      BY <2>8, <2>9, InspectHeld
    <3> QED
      BY <2>3, <3>1
  <2>11. GivesBack(above, top + n, p, out)
    BY <2>3, <2>10 DEF GivesBack
  <2>12. EndOf(above, Head(p)) # top + n
    <3>1. Head(p) \in B /\ above \in Infos /\ IsBlock(above, Head(p))
          /\ Chain(above, top + n, B \cup {top})
      BY <1>1, <1>2, <2>8, <2>9, HeldFacts DEF Stacked
    <3>2. Head(p) < top
      BY <1>2, <3>1, ChainBounds DEF Stacked
    <3>3. EndOf(above, Head(p)) <= top /\ EndOf(above, Head(p)) \in Nat
      BY <3>1, <3>2, BlockFacts DEF Chain
    <3>4. n > 0
      BY <2>4, StackFacts DEF BlockFor
    <3> QED
      BY <1>1, <2>4, <3>3, <3>4
  <2>13. Drops(more, less, p)
    BY <2>5, <2>8 DEF Drops, With, Without
  <2>14. out.top = top + n /\ out.status = "SUCCESS"
    <3>1. Released(above, top + n, Head(p), out)
      BY <2>8, <2>9, <2>11, GiveBackHeld DEF GivesBack
    <3> QED
      BY <2>12, <3>1 DEF Released
  <2>15. KeepsUpTo(marks, fewer, p, out.top)
    <3>1. \A m \in DOMAIN marks : m \in B \cup {top}
      BY <1>2 DEF Stacked, Marked
    <3>2. \A m \in B : m \in Nat /\ m < top
      BY <1>2, ChainBounds DEF Stacked
    <3>3. \A m \in DOMAIN marks : m \in 0 .. top + n
      BY <1>1, <2>4, <3>1, <3>2
    <3> QED
      BY <2>5, <2>14, <3>3 DEF KeepsUpTo, Forget
  <2>16. Leaves(above, top + n, p, out, less, fewer)
    BY <2>8, <2>9, <2>11, <2>13, <2>15, GiveBackStands
  <2>17. Stands(top', info', live', marks') /\ top' \in Nat
    BY <2>3, <2>5, <2>16 DEF Leaves
  <2>18. ret' = Answer("reallocate", p, "SUCCESS", q, CopiedBytes(p, size))
    BY <2>3, <2>14, StatusTypes
  <2>19. Gone(info', live', returned')
    <3>1. Released(above, top + n, Head(p), out)
      BY <2>8, <2>9, <2>11, GiveBackHeld DEF GivesBack
    <3>2. info' = Restate(above, Head(p), "FREE")
      BY <2>3, <3>1 DEF Released
    <3>3. p \notin DOMAIN live'
      BY <2>3, <2>8 DEF With, Without
    <3>4. returned' \subseteq {} \cup {p}
      BY <2>3, StillNone, RememberOne
    <3>5. Head(p) \in DOMAIN above
      BY <2>8, <2>9, HeldFacts DEF IsBlock
    <3>6. Gone(above, live, {})
      BY NoneGone
    <3> QED
      BY <1>3, <3>2, <3>3, <3>4, <3>5, <3>6, FreedGone
  <2> QED
    BY <1>1, <1>3, <2>3, <2>7, <2>17, <2>18, <2>19
<1> QED
  BY <1>4, <1>5

LEMMA ResetStep ==
  ASSUME LegalCallers, Inv, Reset
  PROVE  /\ live' = << >> /\ Stands(top', info', live', marks')
         /\ ret' = Answer("reset", Null, "SUCCESS", Null, 0)
         /\ returned' = {} /\ damaged' = {} /\ top' \in Nat
<1>1. /\ top' = 0 /\ live' = << >> /\ returned' = {} /\ damaged' = {}
      /\ marks' = [m \in DOMAIN Only(marks, 0 .. 0) |-> {}]
      /\ ret' = Answer("reset", Null, "SUCCESS", Null, 0)
      /\ info' = info
  BY DEF Reset, KeptMarks, LegalCallers
<1>2. PICK kept : kept = marks'
  OBVIOUS
<1>3. DOMAIN kept \subseteq {0} /\ \A m \in DOMAIN kept : kept[m] = {}
  BY <1>1, <1>2 DEF Only
<1>4. info \in Infos
  BY DEF Inv, Stacked
<1>5. Chain(info, 0, {})
  <2>1. 0 = 0 * Alignment
    BY StackFacts
  <2>2. IsMultiple(0)
    BY <2>1 DEF IsMultiple
  <2> QED
    BY <2>2, StackFacts DEF Chain
<1>6. DOMAIN << >> = {}
  OBVIOUS
<1>7. Serves(info, {}, << >>)
  BY <1>6 DEF Serves, Used
<1>8. Marked({}, 0, << >>, kept)
  BY <1>3, <1>6 DEF Marked
<1>9. Stands(0, info, << >>, kept)
  BY <1>4, <1>5, <1>7, <1>8 DEF Stands, Stacked, Tight
<1> QED
  BY <1>1, <1>2, <1>9

LEMMA GetTopStep ==
  ASSUME Inv, GetTop
  PROVE  /\ Stands(top', info', live', marks')
         /\ ret' = Answer("get_top", Null, "SUCCESS", top, 0)
         /\ Gone(info', live', returned')
         /\ damaged' = damaged /\ live' = live
         /\ top' \in Nat /\ top \in Nat
<1>1. /\ Defined /\ marks' = With(marks, top, DOMAIN live)
      /\ ret' = Answer("get_top", Null, "SUCCESS", top, 0)
      /\ UNCHANGED << top, info, live, returned, damaged >>
      /\ Gone(info', live', returned') /\ top \in Nat
  BY DEF GetTop, Inv
<1>2. PICK B : Stacked(info, top, B, live, marks)
  BY <1>1 DEF Inv, Stands
<1>3. PICK kept : kept = With(marks, top, DOMAIN live)
  OBVIOUS
<1>4. Adds(marks, kept, top, DOMAIN live)
  BY <1>3, WithAdds
<1>5. \A q \in DOMAIN live : Head(q) < top
  <2>1. \A q \in DOMAIN live : Head(q) \in B
    BY <1>2, HeldFacts
  <2> QED
    BY <1>2, <2>1, ChainBounds DEF Stacked
<1>6. Marked(B, top, live, kept)
  BY <1>2, <1>4, <1>5 DEF Adds, Marked, Stacked
<1>7. Tight(info, top, B, kept)
  BY <1>4 DEF Adds, Tight
<1>8. Stands(top, info, live, kept)
  BY <1>2, <1>6, <1>7 DEF Stands, Stacked
<1> QED
  BY <1>1, <1>3, <1>8

LEMMA RestoreTopStep ==
  ASSUME LegalCallers, Inv, NEW m, RestoreTop(m)
  PROVE  /\ Stands(top', info', live', marks')
         /\ ret' = Answer("restore_top", Null, "SUCCESS", m, 0)
         /\ DOMAIN live' \subseteq DOMAIN live
         /\ \A q \in DOMAIN live' : live'[q] = live[q]
         /\ returned' = {} /\ damaged' \subseteq DOMAIN live'
         /\ top' \in Nat /\ m \in Nat
<1>1. /\ Defined /\ m \in DOMAIN marks /\ Gone(info, live, returned)
      /\ damaged \subseteq DOMAIN live
  BY DEF RestoreTop, Inv
<1>2. PICK B : Stacked(info, top, B, live, marks)
  BY <1>1 DEF Inv, Stands
<1>3. /\ m \in B \cup {top} /\ marks[m] = {p \in DOMAIN live : Head(p) < m}
      /\ \A k \in DOMAIN marks :
           k \in B \cup {top} /\ marks[k] = {p \in DOMAIN live : Head(p) < k}
  BY <1>1, <1>2 DEF Stacked, Marked
<1>4. /\ m \in Nat /\ LowerTop(m) = m
      /\ \A k \in DOMAIN marks : k \in Nat
      /\ \A q \in DOMAIN live : Head(q) \in Nat
  <2>1. top \in Nat /\ \A s \in B : s \in Nat /\ s < top
    BY <1>2, ChainBounds DEF Stacked
  <2>2. \A q \in DOMAIN live : Head(q) \in Nat
    BY <1>2, HeldFacts
  <2> QED
    BY <1>3, <2>1, <2>2 DEF LowerTop
<1>5. PICK less, fewer :
        /\ less = Only(live, marks[m])
        /\ fewer = [k \in DOMAIN Only(marks, 0 .. m) |-> marks[k] \cap marks[m]]
  OBVIOUS
<1>6. /\ top' = m /\ live' = less /\ marks' = fewer /\ info' = info
      /\ returned' = {} /\ damaged' = damaged \cap marks[m]
      /\ ret' = Answer("restore_top", Null, "SUCCESS", m, 0)
  <2>1. returned \cap marks[m] = {}
    BY <1>1, <1>3 DEF Gone
  <2> QED
    BY <1>1, <1>4, <1>5, <2>1 DEF RestoreTop, KeptMarks, LegalCallers
<1>7. /\ DOMAIN less = DOMAIN live \cap marks[m]
      /\ \A q \in DOMAIN less : less[q] = live[q]
      /\ DOMAIN fewer = DOMAIN marks \cap 0 .. m
      /\ \A k \in DOMAIN fewer : fewer[k] = marks[k] \cap marks[m]
  BY <1>5 DEF Only
<1>8. Lower(live, less, m)
  BY <1>3, <1>7 DEF Lower
<1>9. KeepsLow(marks, fewer, m)
  <2>1. ASSUME NEW k \in DOMAIN fewer PROVE fewer[k] = marks[k]
    <3>1. k \in DOMAIN marks /\ k <= m /\ k \in Nat
      BY <1>4, <1>7
    <3>2. \A q \in marks[k] : q \in marks[m]
      BY <1>3, <1>4, <3>1
    <3> QED
      BY <1>7, <3>2
  <2> QED
    BY <1>7, <2>1 DEF KeepsLow
<1>10. Stacked(info, m, Below(B, m), less, fewer)
  BY <1>2, <1>3, <1>8, <1>9, CutStacked
<1>11. m \in DOMAIN fewer
  BY <1>1, <1>4, <1>7
<1>12. Stands(top', info', live', marks')
  BY <1>6, <1>10, <1>11 DEF Stands, Tight
<1> QED
  BY <1>1, <1>4, <1>6, <1>7, <1>12

-----------------------------------------------------------------------------
(***************************************************************************)
(* The invariant                                                           *)
(***************************************************************************)

LEMMA KeepInv ==
  ASSUME Stands(top', info', live', marks'), Gone(info', live', returned'),
         damaged' \subseteq DOMAIN live', top' \in Nat, ret' \in Answers
  PROVE  Inv'
<1>1. \E t, B : Stacked(info', t, B, live', marks')
  BY DEF Stands
<1> QED
  BY <1>1 DEF Inv

\* A call that is refused changes nothing.
LEMMA FailStep ==
  ASSUME Inv, Defined, NEW op \in Operations, NEW p \in Nat,
         NEW status \in Statuses, Fail(op, p, status)
  PROVE  Inv'
<1>1. /\ ret' = Answer(op, p, status, Null, 0)
      /\ UNCHANGED << top, info, live, returned, damaged, marks >>
  BY DEF Fail
<1>2. ret' \in Answers
  BY <1>1, StatusTypes, AnswerType
<1>3. Stands(top', info', live', marks')
  BY <1>1 DEF Inv
<1> QED
  BY <1>1, <1>2, <1>3, KeepInv DEF Inv

LEMMA InitInv ==
  ASSUME Init
  PROVE  Inv
<1>1. /\ top = 0 /\ info = << >> /\ live = << >> /\ returned = {}
      /\ damaged = {} /\ marks = << >>
      /\ ret = Answer("create", Null, "SUCCESS", Null, 0)
  BY DEF Init
<1>2. DOMAIN << >> = {} /\ << >> = [o \in DOMAIN << >> |-> << >>[o]]
  OBVIOUS
<1>3. << >> \in Infos
  BY <1>2, InfosAre
<1>4. Chain(<< >>, 0, {})
  <2>1. 0 = 0 * Alignment
    BY StackFacts
  <2>2. IsMultiple(0)
    BY <2>1 DEF IsMultiple
  <2> QED
    BY <2>2, StackFacts DEF Chain
<1>5. Stacked(<< >>, 0, {}, << >>, << >>)
  BY <1>2, <1>3, <1>4 DEF Stacked, Serves, Marked, Used
<1>6. Stands(top, info, live, marks)
  BY <1>1, <1>5 DEF Stands, Tight
<1>7. ret \in Answers
  BY <1>1, StatusTypes, AnswerType DEF Operations
<1>8. Gone(info, live, returned)
  BY <1>1, NoneGone
<1> QED
  BY <1>1, <1>5, <1>6, <1>7, <1>8 DEF Inv

LEMMA CopiedNat ==
  ASSUME Inv, Defined, NEW p \in DOMAIN live, NEW size \in Sizes
  PROVE  /\ CopiedBytes(p, size) \in Nat /\ live[p] \in Nat /\ size \in Nat
         /\ CopiedBytes(p, size) >= Smaller(live[p], size)
         /\ CopiedBytes(p, size) <= UsableSize(OldSize(p) - 2 * InfoSize)
<1>1. PICK B : Stacked(info, top, B, live, marks)
  BY DEF Inv, Stands
<1>2. /\ IsBlock(info, Head(p)) /\ live[p] \in Sizes /\ info \in Infos
      /\ UsableSize(info[Head(p)].size - 2 * InfoSize) >= live[p]
  BY <1>1, HeldFacts DEF Stacked
<1>3. PICK n \in Nat : n = info[Head(p)].size /\ n >= MinimumBlock
  BY <1>2, BlockFacts
<1>4. PICK u : u = UsableSize(n - 2 * InfoSize)
  OBVIOUS
<1>5. u \in Nat /\ live[p] \in Nat /\ size \in Nat /\ u >= live[p]
  BY <1>2, <1>3, <1>4, StackFacts DEF UsableSize
<1>6. /\ CopiedBytes(p, size) = Smaller(u, size)
      /\ UsableSize(OldSize(p) - 2 * InfoSize) = u
  BY <1>3, <1>4 DEF CopiedBytes, OldSize
<1>7. PICK k : k = live[p]
  OBVIOUS
<1> QED
  BY <1>5, <1>6, <1>7 DEF Smaller

\* Every step keeps the invariant.
LEMMA NextInv ==
  ASSUME LegalCallers, Inv, Next
  PROVE  Inv'
<1>1. ASSUME NEW size \in Sizes, AllocateOutOfMemory(size) PROVE Inv'
  <2>1. Defined /\ Fail("allocate", Null, "OUT_OF_MEMORY")
    BY <1>1 DEF AllocateOutOfMemory
  <2> QED
    BY <2>1, FailStep, StatusTypes DEF Operations
<1>2. ASSUME NEW size \in Sizes, Allocate(size) PROVE Inv'
  <2>1. PICK p \in Nat \ DOMAIN live :
          /\ live' = With(live, p, size)
          /\ Stands(top', info', live', marks')
          /\ ret' = Answer("allocate", Null, "SUCCESS", p, 0)
          /\ returned' = {} /\ damaged' = damaged /\ top' \in Nat
    BY <1>2, AllocateStep
  <2>2. ret' \in Answers
    BY <2>1, StatusTypes, AnswerType DEF Operations
  <2>3. damaged' \subseteq DOMAIN live'
    BY <2>1 DEF Inv, With
  <2> QED
    BY <2>1, <2>2, <2>3, KeepInv, NoneGone
<1>3. ASSUME NEW p \in {Capacity}, DeallocateForeign(p) \/ ReallocateForeign(p)
      PROVE  Inv'
  <2>1. PICK op \in {"deallocate", "reallocate"} :
          Defined /\ Fail(op, p, "MISMATCHED_ALLOCATOR")
    BY <1>3 DEF DeallocateForeign, ReallocateForeign
  <2>2. p \in Nat
    BY <1>3, StackFacts
  <2> QED
    BY <2>1, <2>2, FailStep, StatusTypes DEF Operations
<1>4. ASSUME NEW p, NEW intact \in BOOLEAN, Deallocate(p, intact) PROVE Inv'
  <2>1. Defined
    BY <1>4 DEF Deallocate
  <2>2. CASE /\ p \notin damaged /\ live' = Without(live, p)
             /\ Stands(top', info', live', marks')
             /\ ret' = Answer("deallocate", p, "SUCCESS", Null, 0)
             /\ Gone(info', live', returned')
             /\ damaged' = damaged /\ top' \in Nat
             /\ p \in Nat
    <3>1. ret' \in Answers
      BY <2>2, StatusTypes, AnswerType DEF Operations
    <3>2. damaged' \subseteq DOMAIN live'
      BY <2>2 DEF Inv, Without
    <3> QED
      BY <2>2, <3>1, <3>2, KeepInv
  <2>3. CASE /\ ret' = Answer("deallocate", p, "CORRUPTED_POINTER", Null, 0)
             /\ UNCHANGED << top, info, live, returned, damaged, marks >>
             /\ p \in Nat
    <3>1. Fail("deallocate", p, "CORRUPTED_POINTER")
      BY <2>3 DEF Fail
    <3> QED
      BY <2>1, <2>3, <3>1, FailStep, StatusTypes DEF Operations
  <2>4. CASE p \notin DOMAIN live
    <3>1. /\ p \in Nat
          /\ \E status \in {"CORRUPTED_POINTER", "DOUBLE_DEALLOCATION"} :
               Fail("deallocate", p, status)
      BY <1>4, <2>4, DeallocateGone
    <3> QED
      BY <2>1, <3>1, FailStep, StatusTypes DEF Operations
  <2> QED
    BY <1>4, <2>2, <2>3, <2>4, DeallocateStep
<1>5. ASSUME NEW p, NEW intact \in BOOLEAN, ReallocateReject(p, intact)
      PROVE  Inv'
  <2>1. /\ Defined /\ p \in DOMAIN live \cup returned /\ Guarded(p, intact)
        /\ Fail("reallocate", p, Inspect(info, Head(p), intact))
    BY <1>5 DEF ReallocateReject
  <2>2. Inspect(info, Head(p), intact) \in Statuses
    BY <2>1, HeldIntact, GoneRefused, StatusTypes
  <2>3. p \in Nat
    <3>1. PICK B : Stacked(info, top, B, live, marks)
      BY <2>1 DEF Inv, Stands
    <3> QED
      BY <2>1, <3>1, HeldFacts, GoneRefused
  <2> QED
    BY <2>1, <2>2, <2>3, FailStep, StatusTypes DEF Operations
<1>6. ASSUME NEW p, NEW size \in Sizes, Reallocate(p, size) PROVE Inv'
  <2>1. CASE ReallocateSame(p, size)
    <3>1. /\ p \in Nat /\ live' = With(live, p, size)
          /\ Stands(top', info', live', marks')
          /\ ret' = Answer("reallocate", p, "SUCCESS", p, 0)
          /\ Gone(info', live', returned')
          /\ damaged' = damaged /\ top' \in Nat
      BY <2>1, SameStep
    <3>2. ret' \in Answers
      BY <3>1, StatusTypes, AnswerType DEF Operations
    <3>3. damaged' \subseteq DOMAIN live'
      BY <3>1 DEF Inv, With
    <3> QED
      BY <3>1, <3>2, <3>3, KeepInv
  <2>2. CASE ReallocateInPlace(p, size)
    <3>1. /\ p \in Nat
          /\ Gone(info', live', returned')
          /\ damaged' = damaged /\ top' \in Nat
      BY <2>2, InPlaceStep
    <3>2. CASE /\ live' = With(live, p, size)
               /\ Stands(top', info', live', marks')
               /\ ret' = Answer("reallocate", p, "SUCCESS", p, 0)
      <4>1. ret' \in Answers
        BY <3>1, <3>2, StatusTypes, AnswerType DEF Operations
      <4>2. damaged' \subseteq DOMAIN live'
        BY <3>1, <3>2 DEF Inv, With
      <4> QED
        BY <3>1, <3>2, <4>1, <4>2, KeepInv
    <3>3. CASE /\ ret' = Answer("reallocate", p, Undefined, Null, 0)
               /\ UNCHANGED << info, live, marks >>
      <4>1. ret' \in Answers
        BY <3>1, <3>3, StatusTypes, AnswerType DEF Operations
      <4>2. ~ Defined'
        BY <3>3, AnswerIs DEF Defined
      <4> QED
        BY <3>1, <3>3, <4>1, <4>2 DEF Inv
    <3> QED
      BY <2>2, <3>2, <3>3, InPlaceStep
  <2>3. CASE ReallocateMove(p, size)
    <3>1. /\ p \in DOMAIN live \ damaged /\ p \in Nat /\ Defined
          /\ Gone(info', live', returned')
          /\ damaged' = damaged /\ top' \in Nat
      BY <2>3, MoveStep, FoundIsHeld DEF ReallocateMove
    <3>2. ASSUME NEW q \in Nat, live' = With(Without(live, p), q, size),
                 Stands(top', info', live', marks'),
                 ret' = Answer("reallocate", p, "SUCCESS", q,
                               CopiedBytes(p, size))
          PROVE  Inv'
      <4>1. CopiedBytes(p, size) \in Nat
        BY <3>1, CopiedNat
      <4>2. ret' \in Answers
        BY <3>1, <3>2, <4>1, StatusTypes, AnswerType DEF Operations
      <4>3. damaged' \subseteq DOMAIN live'
        BY <3>1, <3>2 DEF Inv, With, Without
      <4> QED
        BY <3>1, <3>2, <4>2, <4>3, KeepInv
    <3>3. CASE /\ ret' = Answer("reallocate", p, "OUT_OF_MEMORY", Null, 0)
               /\ UNCHANGED << top, info, live, marks >>
      <4>1. ret' \in Answers
        BY <3>1, <3>3, StatusTypes, AnswerType DEF Operations
      <4>2. Stands(top', info', live', marks')
        BY <3>1, <3>3 DEF Inv
      <4> QED
        BY <3>1, <3>3, <4>1, <4>2, KeepInv DEF Inv
    <3> QED
      BY <2>3, <3>2, <3>3, MoveStep
  <2> QED
    BY <1>6, <2>1, <2>2, <2>3 DEF Reallocate
<1>7. ASSUME NEW p, Overrun(p) PROVE Inv'
  <2>1. /\ Defined /\ p \in DOMAIN live /\ damaged' = damaged \cup {p}
        /\ ret' = Answer("write", p, "SUCCESS", Null, 0)
        /\ UNCHANGED << top, info, live, returned, marks >>
    BY <1>7 DEF Overrun
  <2>2. PICK B : Stacked(info, top, B, live, marks)
    BY <2>1 DEF Inv, Stands
  <2>3. p \in Nat
    BY <2>1, <2>2, HeldFacts
  <2>4. ret' \in Answers
    BY <2>1, <2>3, StatusTypes, AnswerType DEF Operations
  <2>5. Stands(top', info', live', marks') /\ Gone(info', live', returned')
    BY <2>1 DEF Inv
  <2> QED
    BY <2>1, <2>4, <2>5, KeepInv DEF Inv
<1>8. CASE Reset
  <2>1. ret' \in Answers
    BY <1>8, ResetStep, StatusTypes, AnswerType DEF Operations
  <2>2. /\ Stands(top', info', live', marks') /\ Gone(info', live', returned')
        /\ damaged' \subseteq DOMAIN live' /\ top' \in Nat
    BY <1>8, ResetStep, NoneGone
  <2> QED
    BY <2>1, <2>2, KeepInv
<1>9. CASE GetTop
  <2>1. ret' \in Answers
    BY <1>9, GetTopStep, StatusTypes, AnswerType DEF Operations
  <2>2. damaged' \subseteq DOMAIN live'
    BY <1>9, GetTopStep DEF Inv
  <2>3. /\ Stands(top', info', live', marks') /\ top' \in Nat
        /\ Gone(info', live', returned')
    BY <1>9, GetTopStep
  <2> QED
    BY <2>1, <2>2, <2>3, KeepInv
<1>10. ASSUME NEW m, RestoreTop(m) PROVE Inv'
  <2>1. /\ Stands(top', info', live', marks')
        /\ ret' = Answer("restore_top", Null, "SUCCESS", m, 0)
        /\ returned' = {} /\ damaged' \subseteq DOMAIN live'
        /\ top' \in Nat /\ m \in Nat
    BY <1>10, RestoreTopStep
  <2>2. ret' \in Answers
    BY <2>1, StatusTypes, AnswerType DEF Operations
  <2> QED
    BY <2>1, <2>2, KeepInv, NoneGone
<1> QED
  BY <1>1, <1>2, <1>3, <1>4, <1>5, <1>6, <1>7, <1>8, <1>9, <1>10 DEF Next

LEMMA SpecInv ==
  ASSUME LegalCallers
  PROVE  Spec => []Inv
<1>1. Init => Inv
  BY InitInv
<1>2. Inv /\ [Next]_vars => Inv'
  <2>1. ASSUME Inv, UNCHANGED vars PROVE Inv'
    <3>1. UNCHANGED << top, info, live, returned, damaged, marks, ret >>
      BY <2>1 DEF vars
    <3>2. Defined' = Defined
      BY <3>1 DEF Defined
    <3> QED
      BY <2>1, <3>1, <3>2 DEF Inv
  <2> QED
    BY <2>1, NextInv
<1> QED
  BY <1>1, <1>2, PTL DEF Spec

-----------------------------------------------------------------------------
(***************************************************************************)
(* Theorems                                                                *)
(***************************************************************************)

LEMMA InvTypeOK ==
  ASSUME Inv
  PROVE  TypeOK
<1>1. PICK t, B : Stacked(info, t, B, live, marks)
  BY DEF Inv
<1>2. Defined => top <= Capacity
  <2>1. ASSUME Defined PROVE top <= Capacity
    <3>1. PICK C : Stacked(info, top, C, live, marks)
      BY <2>1 DEF Inv, Stands
    <3> QED
      BY <3>1, ChainBounds DEF Stacked
  <2> QED
    BY <2>1
<1>3. /\ DOMAIN info \subseteq 0 .. Capacity - InfoSize
      /\ \A o \in DOMAIN info : info[o] \in InfoRecords
  BY <1>1, InfoFacts DEF Stacked
<1>4. /\ DOMAIN live \subseteq 0 .. Capacity
      /\ \A p \in DOMAIN live : live[p] \in Sizes
  <2>1. \A p \in DOMAIN live : p \in Nat /\ p <= Capacity /\ live[p] \in Sizes
    BY <1>1, HeldFacts
  <2> QED
    BY <2>1, StackFacts
<1>5. \A m \in DOMAIN marks : m \in Nat /\ marks[m] \subseteq 0 .. Capacity
  <2>1. \A m \in DOMAIN marks : /\ m \in B \cup {t}
                                /\ marks[m] \subseteq DOMAIN live
    BY <1>1 DEF Stacked, Marked
  <2>2. \A s \in B \cup {t} : s \in Nat
    BY <1>1, ChainBounds DEF Stacked
  <2> QED
    BY <1>4, <2>1, <2>2
<1>6. returned \subseteq (0 .. Capacity) \ DOMAIN live
  BY StackFacts DEF Inv, Gone
<1> QED
  BY <1>2, <1>3, <1>4, <1>5, <1>6 DEF Inv, TypeOK, InfoRecords, Answers

\* Whatever callers do with what they hold, the top, the infos, the
\* allocations, the tops kept and the answers have their types, and unless
\* reallocate has already written past the end of data[] the top lies in it.
THEOREM StackTypeOK ==
  ASSUME LegalCallers
  PROVE  Spec => []TypeOK
<1>1. Inv => TypeOK
  BY InvTypeOK
<1> QED
  BY <1>1, SpecInv, PTL

LEMMA InvWalkDown ==
  ASSUME Inv
  PROVE  WalkDown
<1>1. SUFFICES ASSUME Defined
               PROVE  /\ Broken \notin Starts
                      /\ DOMAIN live = {PointerTo(s) : s \in
                           {s \in Starts : info[s].state = "USED"}}
                      /\ \A p \in DOMAIN live :
                           UsableSize(OldSize(p) - 2 * InfoSize) >= live[p]
  BY DEF WalkDown
<1>2. PICK B : Stacked(info, top, B, live, marks)
  BY <1>1 DEF Inv, Stands
<1>3. Starts = B
  BY <1>2, StartsChain DEF Stacked
<1>4. Broken \notin B
  <2>1. \A s \in B : s \in Nat
    BY <1>2, ChainBounds DEF Stacked
  <2> QED
    BY <2>1 DEF Broken
<1>5. DOMAIN live = {PointerTo(s) : s \in Used(info, B)}
  BY <1>2 DEF Stacked, Serves
<1>6. Used(info, B) = {s \in Starts : info[s].state = "USED"}
  BY <1>3 DEF Used
<1>7. \A p \in DOMAIN live : UsableSize(OldSize(p) - 2 * InfoSize) >= live[p]
  BY <1>2, HeldFacts DEF OldSize
<1> QED
  BY <1>3, <1>4, <1>5, <1>6, <1>7

\* The loop that pops free blocks always finds its way: from the top down to
\* the bottom every block has two infos that agree, and the ones in use are
\* what callers hold, none lost and none too small.
THEOREM StackWalkDown ==
  ASSUME LegalCallers
  PROVE  Spec => []WalkDown
<1>1. Inv => WalkDown
  BY InvWalkDown
<1> QED
  BY <1>1, SpecInv, PTL

LEMMA InvTopTight ==
  ASSUME Inv
  PROVE  TopTight
<1>1. SUFFICES ASSUME Defined
               PROVE  \/ top = 0 \/ top \in DOMAIN marks
                      \/ info[top - InfoSize].state = "USED"
  BY DEF TopTight
<1>2. PICK B : Stacked(info, top, B, live, marks) /\ Tight(info, top, B, marks)
  BY <1>1 DEF Inv, Stands
<1>3. CASE \E s \in B : EndOf(info, s) = top /\ info[s].state = "USED"
  <2>1. PICK s \in B : EndOf(info, s) = top /\ info[s].state = "USED"
    BY <1>3
  <2>2. info \in Infos /\ IsBlock(info, s)
    BY <1>2, ChainBounds DEF Stacked
  <2>3. /\ TailOf(info, s) = EndOf(info, s) - InfoSize
        /\ info[TailOf(info, s)] = info[s]
    BY <2>2, BlockFacts
  <2> QED
    BY <2>1, <2>3
<1> QED
  BY <1>2, <1>3 DEF Tight

\* A deallocation at the top pops every free block below, however many there
\* are: none is left there that no restored top accounts for.
THEOREM StackTopTight ==
  ASSUME LegalCallers
  PROVE  Spec => []TopTight
<1>1. Inv => TopTight
  BY InvTopTight
<1> QED
  BY <1>1, SpecInv, PTL

\* Where an allocation lies in its block.
LEMMA HeldPlaced ==
  ASSUME NEW infos, NEW t, NEW B, NEW held, NEW kept,
         Stacked(infos, t, B, held, kept), NEW p \in DOMAIN held
  PROVE  /\ p \in Nat /\ held[p] \in Nat /\ p % Alignment = 0
         /\ t \in Nat /\ t <= Capacity
         /\ Head(p) \in B /\ Head(p) \in Nat
         /\ EndOf(infos, Head(p)) \in Nat /\ EndOf(infos, Head(p)) <= t
         /\ p = Head(p) + InfoSize + GuardBytes
         /\ p + held[p] + GuardBytes + InfoSize <= EndOf(infos, Head(p))
<1>1. PICK s : s = Head(p)
  OBVIOUS
<1>2. /\ s \in B /\ s \in Nat /\ p = PointerTo(s) /\ p \in Nat
      /\ IsBlock(infos, s) /\ held[p] \in Sizes
      /\ UsableSize(infos[s].size - 2 * InfoSize) >= held[p]
  BY <1>1, HeldFacts
<1>3. infos \in Infos /\ Chain(infos, t, B)
  BY DEF Stacked
<1>4. t \in Nat /\ t <= Capacity /\ EndOf(infos, s) <= t
  BY <1>2, <1>3, ChainBounds DEF Chain
<1>5. p = s + InfoSize + GuardBytes
  BY <1>2, PointerHead
<1>6. PICK n \in Nat, k \in Nat :
        /\ n = infos[s].size /\ k = held[p]
        /\ EndOf(infos, s) = s + n /\ n >= MinimumBlock
  <2>1. held[p] \in Nat
    BY <1>2, StackFacts
  <2> QED
    BY <1>2, <1>3, <2>1, BlockFacts
<1>7. p + k + GuardBytes + InfoSize <= s + n
  <2>1. UsableSize(n - 2 * InfoSize) >= k
    BY <1>2, <1>6
  <2> QED
    BY <1>2, <1>5, <1>6, <2>1, StackFacts DEF UsableSize
<1>8. p % Alignment = 0
  <2>1. IsMultiple(s)
    BY <1>2 DEF IsBlock
  <2>2. s + InfoSize \in Nat /\ IsMultiple(s + InfoSize)
    BY <1>2, <2>1, StackFacts, SumMultiple
  <2>3. IsMultiple(s + InfoSize + GuardBytes)
    BY <2>2, StackFacts, SumMultiple
  <2> QED
    BY <1>2, <1>5, <2>3, MultipleAligned
<1> QED
  BY <1>1, <1>2, <1>4, <1>5, <1>6, <1>7, <1>8

\* Two allocations share no byte.
LEMMA HeldApart ==
  ASSUME NEW infos, NEW t, NEW B, NEW held, NEW kept,
         Stacked(infos, t, B, held, kept),
         NEW p \in DOMAIN held, NEW q \in DOMAIN held, p # q
  PROVE  p + held[p] <= q \/ q + held[q] <= p
<1>1. PICK r \in Nat, e \in Nat, k \in Nat :
        /\ r = Head(p) /\ e = EndOf(infos, r) /\ k = held[p] /\ r \in B
        /\ p = r + InfoSize + GuardBytes /\ p + k + GuardBytes + InfoSize <= e
  BY HeldPlaced
<1>2. PICK s \in Nat, f \in Nat, l \in Nat :
        /\ s = Head(q) /\ f = EndOf(infos, s) /\ l = held[q] /\ s \in B
        /\ q = s + InfoSize + GuardBytes /\ q + l + GuardBytes + InfoSize <= f
  BY HeldPlaced
<1>3. r # s
  BY <1>1, <1>2
<1>4. e <= s \/ f <= r
  BY <1>1, <1>2, <1>3 DEF Stacked, Chain
<1> QED
  BY <1>1, <1>2, <1>4, StackFacts

LEMMA InvHeldBelowTop ==
  ASSUME Inv
  PROVE  HeldBelowTop
<1>1. SUFFICES ASSUME Defined, NEW p \in DOMAIN live
               PROVE  p + live[p] + GuardBytes + InfoSize <= top
  BY DEF HeldBelowTop
<1>2. PICK B : Stacked(info, top, B, live, marks)
  BY <1>1 DEF Inv, Stands
<1>3. PICK k \in Nat, e \in Nat :
        /\ k = live[p] /\ e <= top /\ top \in Nat /\ p \in Nat
        /\ p + k + GuardBytes + InfoSize <= e
  BY <1>2, HeldPlaced
<1> QED
  BY <1>3, StackFacts

\* As long as callers restore no top that a block has moved across since,
\* nothing they hold is ever above the top, where the next allocation goes.
THEOREM StackHeldBelowTop ==
  ASSUME LegalCallers
  PROVE  Spec => []HeldBelowTop
<1>1. Inv => HeldBelowTop
  BY InvHeldBelowTop
<1> QED
  BY <1>1, SpecInv, PTL

-----------------------------------------------------------------------------
(***************************************************************************)
(* What a call does to the allocations                                     *)
(***************************************************************************)

Hands(op, arg, old, p, size, bytes) ==
  /\ p \in Nat /\ p \notin DOMAIN old
  /\ live' = With(old, p, size)
  /\ Stands(top', info', live', marks')
  /\ ret' = Answer(op, arg, "SUCCESS", p, bytes)

Allocates == \E p, size : Hands("allocate", Null, live, p, size, 0)

Releases ==
  \E p \in DOMAIN live : /\ live' = Without(live, p)
                         /\ ret' = Answer("deallocate", p, "SUCCESS", Null, 0)

\* The bytes copied are only counted when the block moved.
Reallocates ==
  \E p, size, q :
    /\ Defined /\ p \in DOMAIN live /\ size \in Sizes
    /\ \/ q = p /\ Hands("reallocate", p, Without(live, p), p, size, 0)
       \/ Hands("reallocate", p, Without(live, p), q, size, CopiedBytes(p, size))

Refuses ==
  /\ UNCHANGED live /\ ret'.status # "SUCCESS"
  /\ ret'.op \in {"allocate", "deallocate", "reallocate"}

Observes == UNCHANGED live /\ ret'.op \in {"get_top", "write"}

Clears ==
  /\ DOMAIN live' \subseteq DOMAIN live
  /\ \A q \in DOMAIN live' : live'[q] = live[q]
  /\ ret'.op \in {"reset", "restore_top"}

LEMMA FailRefuses ==
  ASSUME NEW op \in {"allocate", "deallocate", "reallocate"}, NEW p, NEW status,
         status # "SUCCESS", live' = live, ret' = Answer(op, p, status, Null, 0)
  PROVE  Refuses
BY AnswerIs DEF Refuses

\* Every step is one of these.
LEMMA NextEffects ==
  ASSUME LegalCallers, Inv, Next
  PROVE  \/ Allocates \/ Releases \/ Reallocates
         \/ Refuses \/ Observes \/ Clears
<1>1. ASSUME NEW size \in Sizes, AllocateOutOfMemory(size) PROVE Refuses
  BY <1>1, FailRefuses DEF AllocateOutOfMemory, Fail
<1>2. ASSUME NEW size \in Sizes, Allocate(size) PROVE Allocates
  BY <1>2, AllocateStep DEF Allocates, Hands
<1>3. ASSUME NEW p, DeallocateForeign(p) \/ ReallocateForeign(p) PROVE Refuses
  BY <1>3, FailRefuses DEF DeallocateForeign, ReallocateForeign, Fail
<1>4. ASSUME NEW p, NEW intact \in BOOLEAN, Deallocate(p, intact)
      PROVE  Releases \/ Refuses
  <2>1. CASE /\ p \in DOMAIN live /\ live' = Without(live, p)
             /\ ret' = Answer("deallocate", p, "SUCCESS", Null, 0)
    BY <2>1 DEF Releases
  <2>2. CASE /\ live' = live
             /\ ret' = Answer("deallocate", p, "CORRUPTED_POINTER", Null, 0)
    BY <2>2, FailRefuses
  <2>3. CASE p \notin DOMAIN live
    BY <1>4, <2>3, DeallocateGone, FailRefuses DEF Fail
  <2> QED
    BY <1>4, <2>1, <2>2, <2>3, DeallocateStep
<1>5. ASSUME NEW p, NEW intact \in BOOLEAN, ReallocateReject(p, intact)
      PROVE  Refuses
  BY <1>5, FailRefuses DEF ReallocateReject, Fail
<1>6. ASSUME NEW p \in DOMAIN live, NEW size \in Sizes, Defined, p \in Nat,
             live' = With(live, p, size), Stands(top', info', live', marks'),
             ret' = Answer("reallocate", p, "SUCCESS", p, 0)
      PROVE  Reallocates
  <2>1. With(live, p, size) = With(Without(live, p), p, size)
    BY DEF With, Without
  <2>2. p \notin DOMAIN Without(live, p)
    BY DEF Without
  <2>3. Hands("reallocate", p, Without(live, p), p, size, 0)
    BY <1>6, <2>1, <2>2 DEF Hands
  <2> QED
    BY <1>6, <2>3 DEF Reallocates
<1>7. ASSUME NEW p, NEW size \in Sizes, ReallocateSame(p, size)
      PROVE  Reallocates
  <2>1. Defined
    BY <1>7, FoundIsHeld DEF ReallocateSame
  <2> QED
    BY <1>6, <1>7, <2>1, SameStep
<1>8. ASSUME NEW p, NEW size \in Sizes, ReallocateInPlace(p, size)
      PROVE  Reallocates \/ Refuses
  <2>1. Defined
    BY <1>8, FoundIsHeld DEF ReallocateInPlace
  <2>2. CASE /\ live' = live
             /\ ret' = Answer("reallocate", p, Undefined, Null, 0)
    BY <2>2, FailRefuses, StatusTypes
  <2> QED
    BY <1>6, <1>8, <2>1, <2>2, InPlaceStep
<1>9. ASSUME NEW p, NEW size \in Sizes, ReallocateMove(p, size)
      PROVE  Reallocates \/ Refuses
  <2>1. Defined /\ p \in DOMAIN live
    BY <1>9, FoundIsHeld DEF ReallocateMove
  <2>2. ASSUME NEW q \in Nat \ DOMAIN live,
               live' = With(Without(live, p), q, size),
               Stands(top', info', live', marks'),
               ret' = Answer("reallocate", p, "SUCCESS", q,
                             CopiedBytes(p, size))
        PROVE  Reallocates
    <3>1. q \notin DOMAIN Without(live, p)
      BY DEF Without
    <3>2. Hands("reallocate", p, Without(live, p), q, size, CopiedBytes(p, size))
      BY <2>2, <3>1 DEF Hands
    <3> QED
      BY <2>1, <3>2 DEF Reallocates
  <2>3. CASE /\ ret' = Answer("reallocate", p, "OUT_OF_MEMORY", Null, 0)
             /\ live' = live
    BY <2>3, FailRefuses
  <2> QED
    BY <1>9, <2>2, <2>3, MoveStep
<1>10. ASSUME NEW p, Overrun(p) PROVE Observes
  BY <1>10, AnswerIs DEF Overrun, Observes
<1>11. CASE Reset
  <2>1. live' = << >> /\ ret'.op = "reset"
    BY <1>11, AnswerIs DEF Reset
  <2> QED
    BY <2>1 DEF Clears
<1>12. CASE GetTop
  BY <1>12, AnswerIs DEF GetTop, Observes
<1>13. ASSUME NEW m, RestoreTop(m) PROVE Clears
  <2>1. ret'.op = "restore_top"
    BY <1>13, AnswerIs DEF RestoreTop
  <2> QED
    BY <1>13, <2>1, RestoreTopStep DEF Clears
<1> QED
  BY <1>1, <1>2, <1>3, <1>4, <1>5, <1>7, <1>8, <1>9, <1>10, <1>11, <1>12,
     <1>13 DEF Next, Reallocate

\* A reallocation that moves a block copies all the caller wrote and still has
\* room for, and reads no byte behind the old block.
THEOREM StackReallocateKeepsContents ==
  ASSUME LegalCallers
  PROVE  Spec => ReallocateKeepsContents
<1> DEFINE A == /\ ret'.op = "reallocate" /\ ret'.status = "SUCCESS"
                /\ ret'.result # ret'.arg
                => /\ ret'.bytes >= Smaller(live[ret'.arg], live'[ret'.result])
                   /\ ret'.bytes <= UsableSize(OldSize(ret'.arg) - 2 * InfoSize)
<1>1. ASSUME Inv, Next PROVE A
  <2>1. SUFFICES ASSUME ret'.op = "reallocate", ret'.status = "SUCCESS",
                        ret'.result # ret'.arg
                 PROVE  /\ ret'.bytes >= Smaller(live[ret'.arg], live'[ret'.result])
                        /\ ret'.bytes <= UsableSize(OldSize(ret'.arg) - 2 * InfoSize)
    OBVIOUS
  <2>2. Reallocates
    BY <1>1, <2>1, NextEffects, AnswerIs
       DEF Allocates, Hands, Releases, Refuses, Observes, Clears
  <2>3. PICK p, size, q :
          /\ Defined /\ p \in DOMAIN live /\ size \in Sizes
          /\ Hands("reallocate", p, Without(live, p), q, size, CopiedBytes(p, size))
    BY <2>1, <2>2, AnswerIs DEF Reallocates, Hands
  <2>4. /\ ret'.arg = p /\ ret'.result = q /\ ret'.bytes = CopiedBytes(p, size)
        /\ live' = With(Without(live, p), q, size)
    BY <2>3, AnswerIs DEF Hands
  <2>5. live'[q] = size
    BY <2>4 DEF With
  <2> QED
    BY <1>1, <2>3, <2>4, <2>5, CopiedNat
<1>2. Inv /\ [Next]_vars => [A]_vars
  BY <1>1
<1> QED
  BY <1>2, SpecInv, PTL DEF Spec, ReallocateKeepsContents

\* What is handed out was free for those that hold the rest.
LEMMA HandsGrants ==
  ASSUME NEW op, NEW arg, NEW old, NEW p, NEW size, NEW bytes,
         Hands(op, arg, old, p, size, bytes)
  PROVE  /\ ret'.op = op /\ ret'.arg = arg /\ ret'.status = "SUCCESS"
         /\ Contract!Granted(old)
<1>1. /\ ret'.op = op /\ ret'.arg = arg /\ ret'.status = "SUCCESS"
      /\ ret'.result = p /\ p \notin DOMAIN old
      /\ live' = With(old, p, size)
  BY AnswerIs DEF Hands
<1>2. /\ DOMAIN live' = DOMAIN old \cup {p}
      /\ \A q \in DOMAIN old : live'[q] = old[q]
  BY <1>1 DEF With
<1>3. PICK B : Stacked(info', top', B, live', marks')
  BY DEF Hands, Stands
<1>4. /\ p \in Nat /\ p % Alignment = 0
      /\ p + live'[p] <= Capacity
  <2>1. p \in DOMAIN live'
    BY <1>2
  <2>2. PICK held, t : held = live' /\ t = top'
    OBVIOUS
  <2>3. PICK k, e : k = held[p] /\ e = EndOf(info', Head(p))
    OBVIOUS
  <2>4. /\ p \in Nat /\ k \in Nat /\ p % Alignment = 0
        /\ t \in Nat /\ t <= Capacity /\ e \in Nat /\ e <= t
        /\ p + k + GuardBytes + InfoSize <= e
    BY <1>3, <2>1, <2>2, <2>3, HeldPlaced
  <2>5. p + k <= Capacity
    BY <2>4, StackFacts
  <2> QED
    BY <2>2, <2>3, <2>4, <2>5
<1>5. ASSUME NEW q \in DOMAIN old
      PROVE  p + live'[p] <= q \/ q + old[q] <= p
  <2>1. q \in DOMAIN live' /\ p \in DOMAIN live' /\ p # q /\ live'[q] = old[q]
    BY <1>1, <1>2
  <2>2. p + live'[p] <= q \/ q + live'[q] <= p
    BY <1>3, <2>1, HeldApart
  <2> QED
    BY <2>1, <2>2
<1>6. Contract!IsFree(p, live'[p], old)
  BY <1>4, <1>5 DEF Contract!IsFree
<1> QED
  BY <1>1, <1>2, <1>6 DEF Contract!Granted

LEMMA NextKeepsContract ==
  ASSUME LegalCallers, Inv, Next
  PROVE  Contract!Next
<1>1. ASSUME Allocates PROVE Contract!Next
  <2>1. PICK p, size : Hands("allocate", Null, live, p, size, 0)
    BY <1>1 DEF Allocates
  <2>2. ret'.op = "allocate" /\ ret'.status = "SUCCESS" /\ Contract!Granted(live)
    BY <2>1, HandsGrants
  <2> QED
    BY <2>2 DEF Contract!Next, Contract!Allocate, Contract!Succeeded
<1>2. ASSUME Releases PROVE Contract!Next
  <2>1. PICK p \in DOMAIN live :
          /\ live' = Without(live, p)
          /\ ret'.op = "deallocate" /\ ret'.arg = p
    BY <1>2, AnswerIs DEF Releases
  <2>2. ret'.status = "SUCCESS"
    BY <1>2, AnswerIs DEF Releases
  <2>3. live' = Contract!Without(live, p)
    BY <2>1 DEF Without, Contract!Without
  <2> QED
    BY <2>1, <2>2, <2>3
       DEF Contract!Next, Contract!Deallocate, Contract!Succeeded
<1>3. ASSUME Reallocates PROVE Contract!Next
  <2>1. PICK p, size, q, bytes :
          /\ p \in DOMAIN live
          /\ Hands("reallocate", p, Without(live, p), q, size, bytes)
    BY <1>3 DEF Reallocates
  <2>2. /\ ret'.op = "reallocate" /\ ret'.arg = p /\ ret'.status = "SUCCESS"
        /\ Contract!Granted(Without(live, p))
    BY <2>1, HandsGrants
  <2>3. Contract!Without(live, p) = Without(live, p)
    BY DEF Contract!Without, Without
  <2> QED
    BY <2>1, <2>2, <2>3
       DEF Contract!Next, Contract!Reallocate, Contract!Succeeded
<1>4. ASSUME Refuses PROVE Contract!Next
  BY <1>4 DEF Refuses, Contract!Next, Contract!Allocate, Contract!Deallocate,
              Contract!Reallocate, Contract!Succeeded
<1>5. ASSUME Observes PROVE Contract!Next
  BY <1>5 DEF Observes, Contract!Next, Contract!Observe, Contract!ManyOps
<1>6. ASSUME Clears PROVE Contract!Next
  BY <1>6 DEF Clears, Contract!Next, Contract!ReleaseMany, Contract!ManyOps
<1> QED
  BY <1>1, <1>2, <1>3, <1>4, <1>5, <1>6, NextEffects

\* The stack allocator does what AllocatorContract promises, however blocks are
\* stacked up, given back in any order, grown, moved or cut off by restoring a
\* top: what it hands out is aligned, inside data[] and apart from all that is
\* held, and no call disturbs another's allocation.
THEOREM StackKeepsContract ==
  ASSUME LegalCallers
  PROVE  Spec => KeepsContract
<1>1. Init => Contract!Init
  BY DEF Init, Contract!Init
<1>2. Inv /\ [Next]_vars => [Contract!Next]_<< live, ret >>
  BY NextKeepsContract DEF vars
<1> QED
  BY <1>1, <1>2, SpecInv, PTL DEF Spec, KeepsContract, Contract!Spec
=============================================================================
