----------------------------- MODULE HeapProofs -----------------------------
(***************************************************************************)
(* Proofs about Heap, for every alignment, page size, number of threads    *)
(* and set of requests, in three layers.                                   *)
(*                                                                         *)
(* Inv.  That no two blocks overlap follows from three facts which only    *)
(* together are inductive: the chunks tile the heap, they are in the order *)
(* of their addresses (so an address has one chunk), and the chunks marked *)
(* as used are the ones somebody holds.                                    *)
(*                                                                         *)
(* MemoryInv.  What is written to a chunk changes no cell of another, so   *)
(* blocks keep their contents; between its copy and its free a realloc has *)
(* them twice.                                                             *)
(*                                                                         *)
(* WalkInv.  A list that others change grows only: the chunks a walk has   *)
(* seen stay behind its cursor, and those it has not seen stay ahead.      *)
(***************************************************************************)
EXTENDS Heap, FiniteSetTheorems, TLAPS

\* The parts of the invariant that concern the list alone, of any list.
Sound(h, limit) ==
  /\ h \in Seq(Chunk)
  /\ h # <<>> => h[1].addr = Base
  /\ \A i \in DOMAIN h :
       h[i].addr + Header + h[i].size = IF i = Len(h) THEN limit ELSE h[i + 1].addr
  /\ \A i, j \in DOMAIN h : i < j => h[i].addr + Header + h[i].size <= h[j].addr

\* A list holds a used chunk for the pointer p, of n bytes at least.
UsedIn(h, p, n) ==
  \E i \in DOMAIN h : h[i].addr + Header = p /\ h[i].used /\ n <= h[i].size

\* The constants are numbers.
LEMMA Constants == /\ Header \in Nat /\ Header > 0 /\ MinAlloc \in Nat
                   /\ Base \in Nat /\ Base > 0
BY ConstantsAssumption

\* What malloc gives out holds at least what was asked for.
LEMMA AllocSizeEnough ==
  ASSUME NEW n \in Nat
  PROVE  AllocSize(n) \in Nat /\ AllocSize(n) >= n
<1>1. ((n - 1) \div Align) * Align + Align >= n /\ (n - 1) \div Align \in Int
  BY ConstantsAssumption, SMT
<1> DEFINE rounded == ((n - 1) \div Align) * Align + Align
<1>2. rounded \in Int /\ rounded >= n
  BY <1>1, ConstantsAssumption, SMT
<1> HIDE DEF rounded
<1>3. AllocSize(n) = IF rounded < MinAlloc THEN MinAlloc ELSE rounded
  BY DEF AllocSize, rounded
<1> QED BY <1>2, <1>3, ConstantsAssumption

\* A new chunk holds the header and what was asked for.
LEMMA ChunkSizeEnough ==
  ASSUME NEW n \in Nat
  PROVE  ChunkSize(n) \in Nat /\ ChunkSize(n) >= n + Header
<1>1. /\ ((n + Header - 1) \div Page) * Page + Page >= n + Header
      /\ (n + Header - 1) \div Page \in Int
  BY ConstantsAssumption, SMT
<1>2. ((n + Header - 1) \div Page) * Page + Page \in Int
  BY <1>1, ConstantsAssumption, SMT
<1> QED BY <1>1, <1>2, ConstantsAssumption DEF ChunkSize

\* Giving out chunk i of a sound list leaves a sound list: chunk i is in use, large
\* enough, and the other chunks are what they were.
LEMMA PlaceSound ==
  ASSUME NEW h, NEW limit \in Nat, Sound(h, limit), NEW i \in DOMAIN h,
         NEW size \in Nat
  PROVE  /\ Sound(Place(h, i, size), limit)
         /\ \E k \in DOMAIN Place(h, i, size) :
              /\ Place(h, i, size)[k].addr = h[i].addr
              /\ Place(h, i, size)[k].used
              /\ Place(h, i, size)[k].size \in {size, h[i].size}
         /\ \A j \in DOMAIN h \ {i} :
              \E k \in DOMAIN Place(h, i, size) : Place(h, i, size)[k] = h[j]
         /\ \A k \in DOMAIN Place(h, i, size) : Place(h, i, size)[k].used =>
              \/ Place(h, i, size)[k].addr = h[i].addr
              \/ \E j \in DOMAIN h \ {i} : Place(h, i, size)[k] = h[j]
<1> DEFINE n == Len(h)
<1>1. /\ h \in Seq(Chunk) /\ n \in Nat /\ DOMAIN h = 1 .. n
      /\ \A j \in 1 .. n : h[j] \in Chunk
      /\ i \in 1 .. n /\ i \in Nat
  BY DEF Sound
<1>2. /\ Header \in Nat
      /\ \A j \in 1 .. n : h[j].addr \in Nat /\ h[j].size \in Nat
  <2>1. ASSUME NEW j \in 1 .. n PROVE h[j].addr \in Nat /\ h[j].size \in Nat
    <3>1. h[j] \in Chunk
      BY <1>1
    <3> QED BY <3>1 DEF Chunk
  <2> QED BY <2>1, Constants
<1>3. /\ h[1].addr = Base
      /\ h[n].addr + Header + h[n].size = limit
      /\ \A j \in 1 .. n - 1 : h[j].addr + Header + h[j].size = h[j + 1].addr
      /\ \A j, k \in 1 .. n : j < k => h[j].addr + Header + h[j].size <= h[k].addr
  <2>1. h # <<>> => h[1].addr = Base
    BY DEF Sound
  <2>2. \A j \in 1 .. n : h[j].addr + Header + h[j].size =
          IF j = n THEN limit ELSE h[j + 1].addr
    BY <1>1 DEF Sound
  <2>3. \A j, k \in 1 .. n : j < k => h[j].addr + Header + h[j].size <= h[k].addr
    BY <1>1 DEF Sound
  <2>4. h # <<>>
    BY <1>1
  <2> HIDE DEF n
  <2>5. n \in 1 .. n
    BY <1>1
  <2>6. ASSUME NEW j \in 1 .. n - 1
        PROVE  h[j].addr + Header + h[j].size = h[j + 1].addr
    <3>1. j \in 1 .. n /\ j # n
      BY <1>1
    <3> QED BY <2>2, <3>1
  <2> QED BY <2>1, <2>2, <2>3, <2>4, <2>5, <2>6
<1> HIDE DEF n
<1>4. CASE Splits(h[i], size)
  <2> DEFINE first == [addr |-> h[i].addr, size |-> size, used |-> TRUE]
             second == [addr |-> h[i].addr + Header + size,
                        size |-> Rest(h[i], size), used |-> FALSE]
             g == [j \in 1 .. n + 1 |->
                     IF j < i THEN h[j] ELSE IF j = i THEN first
                     ELSE IF j = i + 1 THEN second ELSE h[j - 1]]
  <2>1. Place(h, i, size) = g
    BY <1>4 DEF Place, n
  <2>s. /\ h[i].size > size + Header + MinAlloc
        /\ h[i].addr \in Nat /\ h[i].size \in Nat
    BY <1>1, <1>2, <1>4 DEF Splits
  <2>f. first.addr = h[i].addr /\ first.size = size /\ first.used = TRUE
    OBVIOUS
  <2>r. /\ second.addr = h[i].addr + Header + size
        /\ second.size = h[i].size - size - Header
        /\ second.used = FALSE
    BY DEF Rest
  <2>v. /\ second.addr \in Nat /\ second.size \in Nat
        /\ second.addr + Header + second.size = h[i].addr + Header + h[i].size
    BY <2>s, <2>r, Constants
  <2>2. first \in Chunk /\ second \in Chunk
    BY <2>s, <2>f, <2>r, <2>v DEF Chunk
  <2>3. /\ g \in Seq(Chunk) /\ Len(g) = n + 1 /\ DOMAIN g = 1 .. n + 1
        /\ \A j \in 1 .. i - 1 : g[j] = h[j]
        /\ g[i] = first /\ g[i + 1] = second
        /\ \A j \in i + 2 .. n + 1 : g[j] = h[j - 1]
    <3>1. \A j \in 1 .. n + 1 : g[j] \in Chunk
      BY <1>1, <2>2
    <3>2. g \in [1 .. n + 1 -> Chunk]
      BY <3>1
    <3> HIDE DEF first, second
    <3> QED BY <1>1, <3>2
  <2>4. /\ g[i].addr = h[i].addr /\ g[i].size = size /\ g[i].used
        /\ g[i + 1].addr = h[i].addr + Header + size /\ ~ g[i + 1].used
        /\ g[i + 1].addr + Header + g[i + 1].size = h[i].addr + Header + h[i].size
        /\ g[i + 1].size \in Nat /\ g[i + 1].addr \in Nat
    BY <2>3, <2>f, <2>r, <2>v
  <2> HIDE DEF first, second, g
  <2>5. g[1].addr = Base
    <3>1. CASE i = 1
      BY <1>3, <2>4, <3>1
    <3>2. CASE i # 1
      <4>1. 1 \in 1 .. i - 1
        BY <1>1, <3>2
      <4> QED BY <1>3, <2>3, <4>1
    <3> QED BY <3>1, <3>2
  <2>6. ASSUME NEW j \in 1 .. n + 1
        PROVE  g[j].addr + Header + g[j].size =
                 IF j = n + 1 THEN limit ELSE g[j + 1].addr
    <3>1. CASE j + 1 < i
      <4>1. g[j] = h[j] /\ g[j + 1] = h[j + 1] /\ j \in 1 .. n - 1
        BY <1>1, <2>3, <3>1, SMTT(60)
      <4> QED BY <1>1, <1>3, <3>1, <4>1
    <3>2. CASE j + 1 = i
      <4>1. g[j] = h[j] /\ g[j + 1].addr = h[j + 1].addr /\ j \in 1 .. n - 1
        BY <1>1, <2>3, <2>4, <3>2, SMTT(60)
      <4> QED BY <1>1, <1>3, <3>2, <4>1
    <3>3. CASE j = i
      <4>1. j # n + 1
        BY <1>1, <3>3
      <4>2. g[i].addr + Header + g[i].size = g[i + 1].addr
        BY <1>1, <1>2, <2>4
      <4> QED BY <3>3, <4>1, <4>2
    <3>4. CASE j = i + 1
      <4>1. i # n => g[j + 1].addr = h[i + 1].addr
        BY <1>1, <2>3, <3>4
      <4>2. g[j].addr + Header + g[j].size = IF i = n THEN limit ELSE h[i + 1].addr
        BY <1>1, <1>3, <2>4, <3>4
      <4> QED BY <1>1, <3>4, <4>1, <4>2
    <3>5. CASE j > i + 1
      <4>1. j - 1 \in 1 .. n /\ g[j] = h[j - 1] /\ (j # n + 1 => g[j + 1] = h[j])
        BY <1>1, <2>3, <3>5, SMTT(60)
      <4>2. h[j - 1].addr + Header + h[j - 1].size = IF j - 1 = n THEN limit ELSE h[j].addr
        BY <1>1, <1>3, <4>1
      <4> QED BY <1>1, <4>1, <4>2
    <3> QED BY <1>1, <3>1, <3>2, <3>3, <3>4, <3>5
  <2>7. ASSUME NEW j \in 1 .. n + 1, NEW k \in 1 .. n + 1, j < k
        PROVE  g[j].addr + Header + g[j].size <= g[k].addr
    <3>1. CASE k < i
      <4>0. j \in 1 .. i - 1 /\ k \in 1 .. i - 1 /\ j \in 1 .. n /\ k \in 1 .. n
        BY <1>1, <2>7, <3>1
      <4>1. g[j] = h[j] /\ g[k] = h[k]
        BY <2>3, <4>0
      <4> QED BY <1>3, <2>7, <4>0, <4>1
    <3>2. CASE k = i
      <4>1. g[j] = h[j] /\ g[k].addr = h[i].addr /\ j \in 1 .. n
        BY <1>1, <2>3, <2>4, <2>7, <3>2
      <4> QED BY <1>1, <1>3, <2>7, <3>2, <4>1
    <3>3. CASE k = i + 1 /\ j = i
      BY <1>1, <1>2, <2>4, <3>3, SMTT(60)
    <3>4. CASE k = i + 1 /\ j < i
      <4>1. g[j] = h[j] /\ j \in 1 .. n
        BY <1>1, <2>3, <2>7, <3>4
      <4>2. h[j].addr + Header + h[j].size <= h[i].addr
        BY <1>1, <1>3, <3>4, <4>1
      <4>3. h[j].addr + Header + h[j].size \in Nat /\ h[i].addr \in Nat
        BY <1>1, <1>2, <4>1
      <4>5. g[k].addr = h[i].addr + Header + size
        BY <2>4, <3>4
      <4>4. h[i].addr <= h[i].addr + Header + size
        BY <4>3, Constants
      <4> QED BY <4>1, <4>2, <4>3, <4>4, <4>5, <1>2
    <3>5. CASE k > i + 1
      <4>0. k \in i + 2 .. n + 1 /\ k - 1 \in 1 .. n /\ i < k - 1
        BY <1>1, <2>7, <3>5
      <4>1. k - 1 \in 1 .. n /\ g[k] = h[k - 1] /\ i < k - 1
        BY <2>3, <4>0
      <4>2. h[i].addr + Header + h[i].size <= h[k - 1].addr
        BY <1>1, <1>3, <4>1
      <4>3. CASE j < i
        <5>1. g[j] = h[j] /\ j \in 1 .. n /\ j < k - 1
          BY <1>1, <2>3, <2>7, <4>1, <4>3
        <5> QED BY <1>3, <4>1, <5>1
      <4>4. CASE j = i
        <5>1. /\ h[i].addr + Header + size <= h[i].addr + Header + h[i].size
              /\ h[i].addr + Header + size \in Nat
              /\ h[i].addr + Header + h[i].size \in Nat
          BY <1>2, <2>s, Constants
        <5>2. h[k - 1].addr \in Nat
          BY <1>2, <4>1
        <5> QED BY <2>4, <4>1, <4>2, <4>4, <5>1, <5>2
      <4>5. CASE j = i + 1
        BY <1>1, <1>2, <2>4, <4>1, <4>2, <4>5
      <4>6. CASE j > i + 1
        <5>1. j - 1 \in 1 .. n /\ g[j] = h[j - 1] /\ j - 1 < k - 1
          BY <1>1, <2>3, <2>7, <4>1, <4>6
        <5> QED BY <1>3, <4>1, <5>1
      <4> QED BY <1>1, <2>7, <4>3, <4>4, <4>5, <4>6
    <3> QED BY <1>1, <2>7, <3>1, <3>2, <3>3, <3>4, <3>5
  <2>8. Sound(g, limit)
    BY <2>3, <2>5, <2>6, <2>7 DEF Sound
  <2>9. \E k \in DOMAIN g :
          g[k].addr = h[i].addr /\ g[k].used /\ g[k].size \in {size, h[i].size}
    BY <1>1, <2>3, <2>4
  <2>10. ASSUME NEW j \in DOMAIN h \ {i} PROVE \E k \in DOMAIN g : g[k] = h[j]
    <3>1. CASE j < i
      BY <1>1, <2>3, <2>10, <3>1, SMTT(60)
    <3>2. CASE j > i
      <4>1. j + 1 \in i + 2 .. n + 1 /\ g[j + 1] = h[j] /\ j + 1 \in 1 .. n + 1
        BY <1>1, <2>3, <2>10, <3>2
      <4> QED BY <2>3, <4>1
    <3> QED BY <1>1, <2>10, <3>1, <3>2
  <2>11. ASSUME NEW k \in DOMAIN g, g[k].used
         PROVE  g[k].addr = h[i].addr \/ \E j \in DOMAIN h \ {i} : g[k] = h[j]
    <3>1. CASE k < i
      <4>1. k \in DOMAIN h \ {i} /\ g[k] = h[k]
        BY <1>1, <2>3, <2>11, <3>1
      <4> QED BY <4>1
    <3>2. CASE k = i \/ k = i + 1
      BY <2>3, <2>4, <2>11, <3>2
    <3>3. CASE k > i + 1
      <4>1. k - 1 \in DOMAIN h \ {i} /\ g[k] = h[k - 1]
        BY <1>1, <2>3, <2>11, <3>3, SMTT(60)
      <4> QED BY <4>1
    <3> QED BY <1>1, <2>3, <2>11, <3>1, <3>2, <3>3
  <2> QED BY <2>1, <2>8, <2>9, <2>10, <2>11
<1>5. CASE ~ Splits(h[i], size)
  <2> DEFINE g == [h EXCEPT ![i].used = TRUE]
  <2>1. Place(h, i, size) = g
    BY <1>5 DEF Place
  <2>2. /\ g \in Seq(Chunk) /\ Len(g) = Len(h) /\ DOMAIN g = DOMAIN h
        /\ \A j \in DOMAIN h : g[j].addr = h[j].addr /\ g[j].size = h[j].size
        /\ \A j \in DOMAIN h \ {i} : g[j] = h[j]
        /\ g[i].used
    <3>1. \A j \in 1 .. n : [h[j] EXCEPT !.used = TRUE] \in Chunk
      BY <1>1 DEF Chunk
    <3>2. g \in [1 .. n -> Chunk]
      BY <1>1, <3>1 DEF n
    <3>3. g \in Seq(Chunk) /\ Len(g) = n
      BY <1>1, <3>2
    <3>4. \A j \in 1 .. n : g[j].addr = h[j].addr /\ g[j].size = h[j].size
      BY <1>1 DEF Chunk
    <3>5. g[i].used
      BY <1>1 DEF Chunk
    <3>6. \A j \in DOMAIN h \ {i} : g[j] = h[j]
      BY <1>1
    <3> QED BY <1>1, <3>2, <3>3, <3>4, <3>5, <3>6 DEF n
  <2> HIDE DEF g
  <2>3. Sound(g, limit)
    <3>1. DOMAIN g = 1 .. n /\ Len(g) = n /\ g # <<>>
      BY <1>1, <2>2 DEF n
    <3>2. g[1].addr = Base
      BY <1>1, <1>3, <2>2
    <3>3. \A j \in 1 .. n : g[j].addr + Header + g[j].size =
            IF j = n THEN limit ELSE g[j + 1].addr
      <4>1. SUFFICES ASSUME NEW j \in 1 .. n
                     PROVE  g[j].addr + Header + g[j].size =
                              IF j = n THEN limit ELSE g[j + 1].addr
        OBVIOUS
      <4>2. CASE j = n
        BY <1>1, <1>3, <2>2, <4>2
      <4>3. CASE j # n
        <5>1. j \in 1 .. n - 1 /\ j + 1 \in 1 .. n
          BY <1>1, <4>3
        <5> QED BY <1>1, <1>3, <2>2, <4>3, <5>1
      <4> QED BY <4>2, <4>3
    <3>4. \A j, k \in 1 .. n : j < k => g[j].addr + Header + g[j].size <= g[k].addr
      BY <1>1, <1>3, <2>2
    <3> QED BY <2>2, <3>1, <3>2, <3>3, <3>4 DEF Sound
  <2> QED BY <1>1, <2>1, <2>2, <2>3
<1> QED BY <1>4, <1>5

-----------------------------------------------------------------------------
\* A pointer has one chunk.
LEMMA AddressUnique ==
  ASSUME NEW h, NEW limit \in Nat, Sound(h, limit),
         NEW i \in DOMAIN h, NEW j \in DOMAIN h, h[i].addr = h[j].addr
  PROVE  i = j
<1>1. DOMAIN h = 1 .. Len(h) /\ Len(h) \in Nat /\ h[i] \in Chunk /\ h[j] \in Chunk
  BY DEF Sound
<1>2. /\ h[i].addr \in Nat /\ h[i].size \in Nat
      /\ h[j].addr \in Nat /\ h[j].size \in Nat
  BY <1>1 DEF Chunk
<1>3. /\ i < j => h[i].addr + Header + h[i].size <= h[j].addr
      /\ j < i => h[j].addr + Header + h[j].size <= h[i].addr
  BY DEF Sound
<1> QED BY <1>1, <1>2, <1>3, Constants

\* The list h has become g: the pointer p had no used chunk before and has one of
\* `size` bytes now, every other used chunk stays, and no other chunk gets used.
GivenDone(h, g, p, size) ==
  /\ p \in Nat /\ p # 0
  /\ \A q, n : UsedIn(h, q, n) => UsedIn(g, q, n)
  /\ UsedIn(g, p, size)
  /\ \A n : ~ UsedIn(h, p, n)
  /\ \A k \in DOMAIN g : g[k].used =>
       \/ g[k].addr + Header = p
       \/ \E j \in DOMAIN h : h[j].used /\ h[j].addr = g[k].addr

\* Giving out a free chunk of a sound list does just that.
LEMMA GivenEffect ==
  ASSUME NEW h, NEW limit \in Nat, Sound(h, limit), NEW i \in DOMAIN h,
         ~ h[i].used, NEW size \in Nat, h[i].size >= size,
         NEW g, g = Place(h, i, AllocSize(size)), NEW p, p = h[i].addr + Header
  PROVE  Sound(g, limit) /\ g # <<>> /\ GivenDone(h, g, p, size)
<1>1. AllocSize(size) \in Nat /\ AllocSize(size) >= size
  BY AllocSizeEnough
<1>2. h[i].addr \in Nat /\ h[i].size \in Nat
  <2>1. h[i] \in Chunk
    BY DEF Sound
  <2> QED BY <2>1 DEF Chunk
<1>3. /\ Sound(g, limit)
      /\ \E k \in DOMAIN g :
           g[k].addr = h[i].addr /\ g[k].used /\ g[k].size \in {AllocSize(size), h[i].size}
      /\ \A j \in DOMAIN h \ {i} : \E k \in DOMAIN g : g[k] = h[j]
      /\ \A k \in DOMAIN g : g[k].used =>
           g[k].addr = h[i].addr \/ \E j \in DOMAIN h \ {i} : g[k] = h[j]
  <2> DEFINE a == AllocSize(size)
  <2>1. a \in Nat /\ g = Place(h, i, a)
    BY <1>1
  <2> HIDE DEF a
  <2>2. Sound(g, limit)
    BY <2>1, PlaceSound
  <2>3. \E k \in DOMAIN g : /\ g[k].addr = h[i].addr /\ g[k].used
                           /\ g[k].size \in {a, h[i].size}
    <3>1. \E k \in DOMAIN Place(h, i, a) :
            /\ Place(h, i, a)[k].addr = h[i].addr
            /\ Place(h, i, a)[k].used
            /\ Place(h, i, a)[k].size \in {a, h[i].size}
      BY <2>1, PlaceSound, Zenon
    <3> QED BY <2>1, <3>1
  <2>4. \A j \in DOMAIN h \ {i} : \E k \in DOMAIN g : g[k] = h[j]
    BY <2>1, PlaceSound
  <2>5. \A k \in DOMAIN g : g[k].used =>
          g[k].addr = h[i].addr \/ \E j \in DOMAIN h \ {i} : g[k] = h[j]
    BY <2>1, PlaceSound
  <2> QED BY <2>2, <2>3, <2>4, <2>5 DEF a
<1>4. p \in Nat /\ p # 0
  BY <1>2, Constants
<1>5. ASSUME NEW q, NEW n, UsedIn(h, q, n) PROVE UsedIn(g, q, n)
  <2>1. PICK j \in DOMAIN h : h[j].addr + Header = q /\ h[j].used /\ n <= h[j].size
    BY <1>5 DEF UsedIn
  <2>2. j # i
    BY <2>1
  <2>3. PICK k \in DOMAIN g : g[k] = h[j]
    BY <1>3, <2>2
  <2> QED BY <2>1, <2>3 DEF UsedIn
<1>6. UsedIn(g, p, size)
  <2>1. PICK k \in DOMAIN g :
          g[k].addr = h[i].addr /\ g[k].used /\ g[k].size \in {AllocSize(size), h[i].size}
    BY <1>3
  <2>2. size <= g[k].size
    BY <1>1, <1>2, <2>1
  <2> QED BY <2>1, <2>2 DEF UsedIn
<1>7. ASSUME NEW n, UsedIn(h, p, n) PROVE FALSE
  <2>1. PICK j \in DOMAIN h : h[j].addr + Header = p /\ h[j].used
    BY <1>7 DEF UsedIn
  <2>2. h[j].addr \in Nat
    <3>1. h[j] \in Chunk
      BY DEF Sound
    <3> QED BY <3>1 DEF Chunk
  <2>3. h[j].addr = h[i].addr
    BY <1>2, <2>1, <2>2, Constants
  <2>4. j = i
    BY <2>3, AddressUnique
  <2> QED BY <2>1, <2>4
<1>8. g # <<>>
  BY <1>3
<1>9. ASSUME NEW k \in DOMAIN g, g[k].used
      PROVE  \/ g[k].addr + Header = p
             \/ \E j \in DOMAIN h : h[j].used /\ h[j].addr = g[k].addr
  <2>1. CASE g[k].addr = h[i].addr
    BY <2>1
  <2>2. CASE \E j \in DOMAIN h \ {i} : g[k] = h[j]
    BY <1>9, <2>2
  <2> QED BY <1>3, <1>9, <2>1, <2>2
<1> QED BY <1>3, <1>4, <1>5, <1>6, <1>7, <1>8, <1>9 DEF GivenDone

\* The parts of HeapConsistent about the list are Sound, and the case of no list.
LEMMA TileIsSound ==
  ASSUME heap_limit \in Nat
  PROVE  (heap \in Seq(Chunk) /\ ChunksTile /\ ChunksOrdered)
           <=> /\ Sound(heap, heap_limit)
               /\ heap = <<>> => heap_limit \in {0, Base}
BY DEF Sound, ChunksTile, ChunksOrdered

\* The end of a sound list is the heap limit, which is not 0 then.
LEMMA LimitSound ==
  ASSUME NEW limit \in Nat, Sound(heap, limit), heap # <<>>
  PROVE  /\ limit # 0 /\ Len(heap) \in DOMAIN heap
         /\ heap[Len(heap)].addr + Header + heap[Len(heap)].size = limit
         /\ heap[Len(heap)].addr \in Nat /\ heap[Len(heap)].size \in Nat
<1>1. heap \in Seq(Chunk) /\ Len(heap) \in Nat /\ DOMAIN heap = 1 .. Len(heap)
  BY DEF Sound
<1>2. Len(heap) \in DOMAIN heap
  BY <1>1
<1>3. heap[Len(heap)].addr + Header + heap[Len(heap)].size = limit
  BY <1>2 DEF Sound
<1>4. heap[Len(heap)] \in Chunk
  BY <1>1, <1>2
<1>5. heap[Len(heap)].addr \in Nat /\ heap[Len(heap)].size \in Nat
  BY <1>4 DEF Chunk
<1> QED BY <1>2, <1>3, <1>5, Constants

\* Moving the heap limit appends a free chunk to a sound list, that is large enough for
\* what was asked for.
LEMMA ExtendedSound ==
  ASSUME HeapConsistent, NEW size \in Nat,
         NEW h, h = Extended(size), NEW limit, limit = Limit + ChunkSize(size)
  PROVE  /\ limit \in Nat /\ Sound(h, limit)
         /\ Len(heap) + 1 \in DOMAIN h
         /\ ~ h[Len(heap) + 1].used /\ h[Len(heap) + 1].size >= size
         /\ \A j \in DOMAIN heap : j \in DOMAIN h /\ h[j] = heap[j]
         /\ \A j \in DOMAIN h : j = Len(heap) + 1 \/ j \in DOMAIN heap
<1> DEFINE n == Len(heap)
           c == ChunkSize(size)
           last == [addr |-> Limit, size |-> c - Header, used |-> FALSE]
<1>1. heap \in Seq(Chunk) /\ n \in Nat /\ DOMAIN heap = 1 .. n
  BY DEF HeapConsistent, TypeOK
<1>2. c \in Nat /\ c >= size + Header
  BY ChunkSizeEnough
<1>3. Limit \in Nat
  BY Constants DEF HeapConsistent, TypeOK, Limit
<1>4. Sound(heap, heap_limit) /\ (heap = <<>> => heap_limit \in {0, Base})
  BY TileIsSound DEF HeapConsistent, TypeOK
<1>5. /\ heap = <<>> => Limit = Base
      /\ heap # <<>> => Limit = heap_limit
  BY <1>4, Constants, LimitSound DEF HeapConsistent, TypeOK, Limit
<1>6. h = Append(heap, last) /\ limit = Limit + c
  BY DEF Extended
<1> HIDE DEF c
<1>7. last.addr = Limit /\ last.size = c - Header /\ last.used = FALSE
  OBVIOUS
<1>8. /\ c - Header \in Nat /\ c - Header >= size /\ limit \in Nat
      /\ Limit + Header + (c - Header) = limit
  BY <1>2, <1>3, <1>6, Constants, SMTT(60)
<1>9. last \in Chunk
  BY <1>3, <1>8 DEF Chunk
<1> HIDE DEF last
<1>10. /\ h \in Seq(Chunk) /\ Len(h) = n + 1 /\ DOMAIN h = 1 .. n + 1
       /\ h[n + 1] = last /\ h # <<>>
       /\ \A j \in 1 .. n : h[j] = heap[j]
  BY <1>1, <1>6, <1>9
<1> HIDE DEF n
<1>11. h[1].addr = Base
  <2>1. CASE n = 0
    <3>1. heap = <<>>
      BY <1>1, <2>1 DEF n
    <3> QED BY <1>5, <1>7, <1>10, <2>1, <3>1
  <2>2. CASE n # 0
    <3>1. 1 \in 1 .. n /\ heap # <<>>
      BY <1>1, <2>2 DEF n
    <3>2. heap[1].addr = Base
      BY <1>4, <3>1 DEF Sound
    <3> QED BY <1>10, <3>1, <3>2
  <2> QED BY <2>1, <2>2
<1>12. ASSUME NEW j \in 1 .. n
       PROVE  /\ heap[j].addr + Header + heap[j].size =
                   IF j = n THEN Limit ELSE heap[j + 1].addr
              /\ heap[j].addr + Header + heap[j].size \in Nat
              /\ heap[j].addr + Header + heap[j].size <= Limit
  <2>1. heap # <<>> /\ n \in DOMAIN heap
    BY <1>1 DEF n
  <2>2. heap_limit \in Nat
    BY DEF HeapConsistent, TypeOK
  <2>3. /\ heap[n].addr + Header + heap[n].size = Limit
        /\ heap[n].addr \in Nat /\ heap[n].size \in Nat
    BY <1>4, <1>5, <2>1, <2>2, LimitSound DEF n
  <2>4. heap[j].addr + Header + heap[j].size =
          IF j = n THEN Limit ELSE heap[j + 1].addr
    BY <1>1, <1>4, <1>5, <2>1 DEF Sound, n
  <2>5. heap[j].addr \in Nat /\ heap[j].size \in Nat
    <3>1. heap[j] \in Chunk
      BY <1>1
    <3> QED BY <3>1 DEF Chunk
  <2>6. CASE j = n
    BY <2>3, <2>4, <2>5, <2>6, <1>3, Constants
  <2>7. CASE j # n
    <3>1. heap[j].addr + Header + heap[j].size <= heap[n].addr
      <4>1. j < n
        BY <1>1, <2>7
      <4> QED BY <1>1, <1>4, <2>1, <4>1 DEF Sound
    <3>2. heap[j].addr + Header + heap[j].size \in Nat
      BY <2>5, Constants
    <3> QED BY <1>3, <2>3, <2>4, <3>1, <3>2, Constants
  <2> QED BY <2>6, <2>7
<1>13. ASSUME NEW j \in 1 .. n + 1
       PROVE  h[j].addr + Header + h[j].size =
                IF j = n + 1 THEN limit ELSE h[j + 1].addr
  <2>1. CASE j = n + 1
    BY <1>7, <1>8, <1>10, <2>1
  <2>2. CASE j = n
    <3>1. n \in 1 .. n /\ j # n + 1
      BY <1>1, <2>2
    <3> QED BY <1>7, <1>10, <1>12, <2>2, <3>1
  <2>3. CASE j < n
    <3>1. j \in 1 .. n /\ j + 1 \in 1 .. n /\ j # n + 1 /\ j # n
      BY <1>1, <2>3
    <3> QED BY <1>10, <1>12, <3>1
  <2> QED BY <1>1, <2>1, <2>2, <2>3
<1>14. ASSUME NEW j \in 1 .. n + 1, NEW k \in 1 .. n + 1, j < k
       PROVE  h[j].addr + Header + h[j].size <= h[k].addr
  <2>1. j \in 1 .. n /\ h[j] = heap[j]
    BY <1>1, <1>10, <1>14
  <2>2. CASE k = n + 1
    BY <1>7, <1>10, <1>12, <2>1, <2>2
  <2>3. CASE k # n + 1
    <3>1. k \in 1 .. n /\ h[k] = heap[k]
      BY <1>1, <1>10, <2>3
    <3>2. heap[j].addr + Header + heap[j].size <= heap[k].addr
      BY <1>1, <1>4, <1>14, <2>1, <3>1 DEF Sound
    <3> QED BY <2>1, <3>1, <3>2
  <2> QED BY <2>2, <2>3
<1>15. Sound(h, limit)
  BY <1>10, <1>11, <1>13, <1>14 DEF Sound
<1>16. n + 1 \in 1 .. n + 1 /\ \A j \in 1 .. n + 1 : j = n + 1 \/ j \in 1 .. n
  BY <1>1
<1>17. \A j \in 1 .. n : j \in 1 .. n + 1
  BY <1>1
<1> QED BY <1>1, <1>7, <1>8, <1>10, <1>15, <1>16, <1>17 DEF n

\* What malloc leaves: a sound list with a used chunk of the size asked for at a
\* pointer that had none before, and for the rest the used chunks it found; or the list
\* it found and a null pointer.
MallocDone(r, size) ==
  /\ r.limit \in Nat /\ r.p \in Nat
  /\ Sound(r.heap, r.limit) /\ (r.heap = <<>> => r.limit \in {0, Base})
  /\ \A q, n : UsedIn(heap, q, n) => UsedIn(r.heap, q, n)
  /\ r.p # 0 => UsedIn(r.heap, r.p, size) /\ \A n : ~ UsedIn(heap, r.p, n)
  /\ \A k \in DOMAIN r.heap : r.heap[k].used =>
       \/ r.p # 0 /\ r.heap[k].addr + Header = r.p
       \/ \E j \in DOMAIN heap : heap[j].used /\ heap[j].addr = r.heap[k].addr

\* Every outcome of malloc leaves a sound list, keeps the chunks in use, and has either
\* a null pointer or a chunk nobody had.
LEMMA MallocEffect ==
  ASSUME HeapConsistent, NEW size \in Nat, NEW r \in Malloc(size)
  PROVE  MallocDone(r, size)
<1> DEFINE fit == FirstFit(heap, AllocSize(size))
<1>1. /\ heap_limit \in Nat /\ Sound(heap, heap_limit)
      /\ heap = <<>> => heap_limit \in {0, Base}
  BY TileIsSound DEF HeapConsistent, TypeOK
<1>2. CASE fit # {}
  <2>1. PICK i \in fit : r = Given(heap, i, size, heap_limit)
    BY <1>2 DEF Malloc
  <2>2. i \in DOMAIN heap /\ ~ heap[i].used /\ heap[i].size >= AllocSize(size)
    BY <2>1 DEF FirstFit, Fits
  <2>3. heap[i].size >= size
    <3>1. heap[i].size \in Nat
      <4>1. heap[i] \in Chunk
        BY <1>1, <2>2 DEF Sound
      <4> QED BY <4>1 DEF Chunk
    <3> QED BY <2>2, <3>1, AllocSizeEnough
  <2>4. /\ r.heap = Place(heap, i, AllocSize(size)) /\ r.limit = heap_limit
        /\ r.p = heap[i].addr + Header
    BY <2>1 DEF Given
  <2> DEFINE g == r.heap
             p == r.p
  <2>5. Sound(g, heap_limit) /\ g # <<>> /\ GivenDone(heap, g, p, size)
    <3>1. g = Place(heap, i, AllocSize(size)) /\ p = heap[i].addr + Header
      BY <2>4
    <3> HIDE DEF g, p
    <3> QED BY <1>1, <2>2, <2>3, <3>1, GivenEffect
  <2> QED BY <1>1, <2>4, <2>5 DEF MallocDone, GivenDone
<1>3. CASE fit = {} /\ r.p = 0 /\ r.heap = heap /\ r.limit = Limit
  <2>1. Limit \in Nat /\ Sound(heap, Limit) /\ (heap = <<>> => Limit \in {0, Base})
    <3>1. CASE heap = <<>>
      <4>1. Limit = Base
        BY <1>1, <3>1, Constants DEF Limit
      <4>2. Sound(heap, Limit)
        BY <3>1 DEF Sound
      <4> QED BY <4>1, <4>2, Constants
    <3>2. CASE heap # <<>>
      <4>1. Limit = heap_limit
        BY <1>1, <3>2, LimitSound DEF Limit
      <4> QED BY <1>1, <3>2, <4>1
    <3> QED BY <3>1, <3>2
  <2>2. \A k \in DOMAIN heap : heap[k].used =>
          \E j \in DOMAIN heap : heap[j].used /\ heap[j].addr = heap[k].addr
    OBVIOUS
  <2> QED BY <1>3, <2>1, <2>2 DEF MallocDone
<1>4. CASE /\ fit = {}
           /\ r = Given(Extended(size), Len(heap) + 1, size, Limit + ChunkSize(size))
  <2> DEFINE h == Extended(size)
             limit == Limit + ChunkSize(size)
             i == Len(heap) + 1
             g == r.heap
             p == r.p
  <2>1. /\ limit \in Nat /\ Sound(h, limit)
        /\ i \in DOMAIN h
        /\ ~ h[i].used /\ h[i].size >= size
        /\ \A j \in DOMAIN heap : j \in DOMAIN h /\ h[j] = heap[j]
        /\ \A j \in DOMAIN h : j = i \/ j \in DOMAIN heap
    BY ExtendedSound
  <2>2. /\ g = Place(h, i, AllocSize(size)) /\ r.limit = limit
        /\ p = h[i].addr + Header
    BY <1>4 DEF Given
  <2>3. Sound(g, limit) /\ g # <<>> /\ GivenDone(h, g, p, size)
    <3>1. /\ limit \in Nat /\ Sound(h, limit) /\ i \in DOMAIN h
          /\ ~ h[i].used /\ h[i].size >= size
      BY <2>1
    <3>2. g = Place(h, i, AllocSize(size)) /\ p = h[i].addr + Header
      BY <2>2
    <3> HIDE DEF h, limit, i, g, p
    <3> QED BY <3>1, <3>2, GivenEffect
  <2>4. \A q, n : UsedIn(heap, q, n) => UsedIn(h, q, n)
    <3> HIDE DEF h, limit, i
    <3> QED BY <2>1 DEF UsedIn
  <2>5. \A k \in DOMAIN g : g[k].used =>
          \/ g[k].addr + Header = p
          \/ \E j \in DOMAIN heap : heap[j].used /\ heap[j].addr = g[k].addr
    <3> HIDE DEF h, limit, i, g, p
    <3> QED BY <2>1, <2>3 DEF GivenDone
  <2> HIDE DEF h, limit, i
  <2> QED BY <2>1, <2>2, <2>3, <2>4, <2>5 DEF MallocDone, GivenDone
<1> QED BY <1>2, <1>3, <1>4 DEF Malloc

\* What free leaves for the pointer p of a used chunk: the same list with that chunk free.
FreeDone(p) ==
  /\ Sound(heap', heap_limit) /\ (heap' = <<>> => heap = <<>>)
  /\ \A q, n : q # p /\ UsedIn(heap, q, n) => UsedIn(heap', q, n)
  /\ \A k \in DOMAIN heap' : heap'[k].used =>
       /\ heap'[k].addr + Header # p
       /\ k \in DOMAIN heap /\ heap[k].used /\ heap[k].addr = heap'[k].addr

\* free leaves a sound list and takes one chunk out of use.
LEMMA FreeEffect ==
  ASSUME HeapConsistent, NEW p, FreeChunk(p)
  PROVE  FreeDone(p)
<1>1. /\ heap_limit \in Nat /\ Sound(heap, heap_limit)
  BY TileIsSound DEF HeapConsistent, TypeOK
<1>2. PICK i \in DOMAIN heap :
        heap[i].addr + Header = p /\ heap' = [heap EXCEPT ![i].used = FALSE]
  BY DEF FreeChunk, ChunkAt
<1> DEFINE n == Len(heap)
<1>3. heap \in Seq(Chunk) /\ n \in Nat /\ DOMAIN heap = 1 .. n /\ i \in 1 .. n
  BY <1>1 DEF Sound
<1>4. /\ heap' \in Seq(Chunk) /\ Len(heap') = n /\ DOMAIN heap' = 1 .. n
      /\ \A j \in 1 .. n : heap'[j].addr = heap[j].addr /\ heap'[j].size = heap[j].size
      /\ \A j \in 1 .. n : j # i => heap'[j] = heap[j]
      /\ ~ heap'[i].used
  <2>1. \A j \in 1 .. n : heap[j] \in Chunk /\ [heap[j] EXCEPT !.used = FALSE] \in Chunk
    <3>1. SUFFICES ASSUME NEW j \in 1 .. n
                   PROVE  heap[j] \in Chunk /\ [heap[j] EXCEPT !.used = FALSE] \in Chunk
      OBVIOUS
    <3>2. heap[j] \in Chunk
      BY <1>3, <3>1
    <3> QED BY <3>2 DEF Chunk
  <2>2. heap' \in [1 .. n -> Chunk]
    BY <1>2, <1>3, <2>1
  <2>3. heap' \in Seq(Chunk) /\ Len(heap') = n /\ DOMAIN heap' = 1 .. n
    BY <1>3, <2>2
  <2>4. \A j \in 1 .. n : heap'[j].addr = heap[j].addr /\ heap'[j].size = heap[j].size
    BY <1>2, <1>3, <2>1 DEF Chunk
  <2>5. \A j \in 1 .. n : j # i => heap'[j] = heap[j]
    BY <1>2, <1>3
  <2>6. ~ heap'[i].used
    BY <1>2, <1>3, <2>1 DEF Chunk
  <2> QED BY <2>3, <2>4, <2>5, <2>6
<1>5. Sound(heap', heap_limit)
  <2>0. Len(heap) = n
    OBVIOUS
  <2> HIDE DEF n
  <2>1. \A j \in 1 .. n : heap'[j].addr + Header + heap'[j].size =
          IF j = n THEN heap_limit ELSE heap'[j + 1].addr
    <3>1. SUFFICES ASSUME NEW j \in 1 .. n
                   PROVE  heap'[j].addr + Header + heap'[j].size =
                            IF j = n THEN heap_limit ELSE heap'[j + 1].addr
      OBVIOUS
    <3>2. heap[j].addr + Header + heap[j].size =
            IF j = n THEN heap_limit ELSE heap[j + 1].addr
      BY <1>1, <1>3, <2>0, <3>1 DEF Sound
    <3>3. j # n => j + 1 \in 1 .. n
      BY <1>3, <3>1
    <3> QED BY <1>4, <3>1, <3>2, <3>3
  <2>2. \A j, k \in 1 .. n :
          j < k => heap'[j].addr + Header + heap'[j].size <= heap'[k].addr
    BY <1>1, <1>3, <1>4 DEF Sound
  <2>3. heap'[1].addr = Base
    <3>1. 1 \in 1 .. n /\ heap # <<>>
      BY <1>3, <2>0
    <3> QED BY <1>1, <1>4, <3>1 DEF Sound
  <2> QED BY <1>4, <2>1, <2>2, <2>3 DEF Sound
<1>6. \A q, m : q # p /\ UsedIn(heap, q, m) => UsedIn(heap', q, m)
  BY <1>2, <1>3, <1>4 DEF UsedIn
<1>7. ASSUME NEW k \in DOMAIN heap', heap'[k].used
      PROVE  /\ heap'[k].addr + Header # p
             /\ k \in DOMAIN heap /\ heap[k].used /\ heap[k].addr = heap'[k].addr
  <2>1. k # i /\ k \in DOMAIN heap /\ heap'[k] = heap[k]
    BY <1>3, <1>4, <1>7
  <2>2. heap[k].addr \in Nat /\ heap[i].addr \in Nat
    <3>1. heap[k] \in Chunk /\ heap[i] \in Chunk
      BY <1>3, <2>1
    <3> QED BY <3>1 DEF Chunk
  <2>3. heap[k].addr # heap[i].addr
    BY <1>1, <2>1, AddressUnique
  <2> QED BY <1>2, <1>7, <2>1, <2>2, <2>3, Constants
<1>8. heap' = <<>> => heap = <<>>
  BY <1>3, <1>4
<1> QED BY <1>5, <1>6, <1>7, <1>8 DEF FreeDone

-----------------------------------------------------------------------------
\* The inductive invariant: calloc goes on to its loop only with memory to clear.
Inv == HeapConsistent /\ \A t \in Threads : pc[t] = "zero" => ptr[t] # 0

\* ChunksHeld of any list h and any holders: the blocks B, and the threads C with
\* their pointers and sizes.
Held(h, B, C, at, size) ==
  /\ \A b \in B : UsedIn(h, b.addr, b.size)
  /\ \A t \in C : UsedIn(h, at[t], size[t])
  /\ \A b, c \in B : b.addr = c.addr => b = c
  /\ \A t, u \in C : at[t] = at[u] => t = u
  /\ \A b \in B, t \in C : b.addr # at[t]
  /\ \A i \in DOMAIN h : h[i].used =>
       \/ \E b \in B : b.addr = h[i].addr + Header
       \/ \E t \in C : at[t] = h[i].addr + Header

\* ... which is what ChunksHeld says, now and after a step.
LEMMA HeldIs ==
  /\ ChunksHeld <=> Held(heap, blocks, Calling, ptr, asked)
  /\ ChunksHeld' <=> Held(heap', blocks', Calling', ptr', asked')
<1>1. \A p, n : InUse(p, n) <=> UsedIn(heap, p, n)
  BY DEF InUse, ChunkAt, UsedIn
<1>2. \A p, n : (\E i \in {i \in DOMAIN heap' : heap'[i].addr + Header = p} :
                   heap'[i].used /\ n <= heap'[i].size) <=> UsedIn(heap', p, n)
  BY DEF UsedIn
<1>3. ChunksHeld <=> Held(heap, blocks, Calling, ptr, asked)
  BY <1>1 DEF ChunksHeld, Held
<1>4. ChunksHeld' <=> Held(heap', blocks', Calling', ptr', asked')
  BY <1>2 DEF ChunksHeld, Held, InUse, ChunkAt
<1> QED BY <1>3, <1>4

\* A list that is sound after a step satisfies the invariants about lists then.
LEMMA SoundNext ==
  ASSUME heap_limit' \in Nat, Sound(heap', heap_limit'),
         heap' = <<>> => heap_limit' \in {0, Base}
  PROVE  heap' \in Seq(Chunk) /\ ChunksTile' /\ ChunksOrdered'
BY DEF Sound, ChunksTile, ChunksOrdered

\* The holders after a malloc: those there were, and the new one if there is memory.
LEMMA HoldersAfterMalloc ==
  ASSUME HeapConsistent, NEW size \in Nat, NEW r \in Malloc(size), Becomes(r)
  PROVE  /\ heap_limit' \in Nat /\ r.p \in Nat
         /\ heap' \in Seq(Chunk) /\ ChunksTile' /\ ChunksOrdered'
         /\ \A b \in blocks : UsedIn(heap', b.addr, b.size)
         /\ \A t \in Calling : UsedIn(heap', ptr[t], asked[t])
         /\ r.p # 0 => /\ UsedIn(heap', r.p, size)
                       /\ \A b \in blocks : b.addr # r.p
                       /\ \A t \in Calling : ptr[t] # r.p
         /\ \A i \in DOMAIN heap' : heap'[i].used =>
              \/ r.p # 0 /\ heap'[i].addr + Header = r.p
              \/ \E b \in blocks : b.addr = heap'[i].addr + Header
              \/ \E t \in Calling : ptr[t] = heap'[i].addr + Header
<1>1. MallocDone(r, size)
  BY MallocEffect
<1>2. heap' = r.heap /\ heap_limit' = r.limit
  BY DEF Becomes
<1>3. /\ heap_limit' \in Nat /\ r.p \in Nat
      /\ Sound(heap', heap_limit') /\ (heap' = <<>> => heap_limit' \in {0, Base})
      /\ \A q, n : UsedIn(heap, q, n) => UsedIn(heap', q, n)
      /\ r.p # 0 => UsedIn(heap', r.p, size) /\ \A n : ~ UsedIn(heap, r.p, n)
      /\ \A i \in DOMAIN heap' : heap'[i].used =>
           \/ r.p # 0 /\ heap'[i].addr + Header = r.p
           \/ \E j \in DOMAIN heap : heap[j].used /\ heap[j].addr = heap'[i].addr
  BY <1>1, <1>2 DEF MallocDone
<1>4. heap' \in Seq(Chunk) /\ ChunksTile' /\ ChunksOrdered'
  BY <1>3, SoundNext
<1>5. /\ \A b \in blocks : UsedIn(heap, b.addr, b.size)
      /\ \A t \in Calling : UsedIn(heap, ptr[t], asked[t])
      /\ \A i \in DOMAIN heap : heap[i].used =>
           \/ \E b \in blocks : b.addr = heap[i].addr + Header
           \/ \E t \in Calling : ptr[t] = heap[i].addr + Header
  BY HeldIs DEF HeapConsistent, Held
<1>6. ASSUME NEW i \in DOMAIN heap', heap'[i].used
      PROVE  \/ r.p # 0 /\ heap'[i].addr + Header = r.p
             \/ \E b \in blocks : b.addr = heap'[i].addr + Header
             \/ \E t \in Calling : ptr[t] = heap'[i].addr + Header
  <2>1. CASE \E j \in DOMAIN heap : heap[j].used /\ heap[j].addr = heap'[i].addr
    <3>1. PICK j \in DOMAIN heap : heap[j].used /\ heap[j].addr = heap'[i].addr
      BY <2>1
    <3>2. \/ \E b \in blocks : b.addr = heap[j].addr + Header
          \/ \E t \in Calling : ptr[t] = heap[j].addr + Header
      BY <1>5, <3>1
    <3> QED BY <3>1, <3>2
  <2> QED BY <1>3, <1>6, <2>1
<1>7. r.p # 0 => /\ UsedIn(heap', r.p, size)
                 /\ \A b \in blocks : b.addr # r.p
                 /\ \A t \in Calling : ptr[t] # r.p
  BY <1>3, <1>5
<1>8. /\ \A b \in blocks : UsedIn(heap', b.addr, b.size)
      /\ \A t \in Calling : UsedIn(heap', ptr[t], asked[t])
  BY <1>3, <1>5
<1> QED BY <1>3, <1>4, <1>6, <1>7, <1>8

\* The holders after the free of a block: those there were, but for the block.
LEMMA HoldersAfterFree ==
  ASSUME HeapConsistent, NEW b \in blocks, FreeChunk(b.addr), UNCHANGED heap_limit
  PROVE  /\ heap' \in Seq(Chunk) /\ ChunksTile' /\ ChunksOrdered'
         /\ \A c \in blocks \ {b} : UsedIn(heap', c.addr, c.size)
         /\ \A t \in Calling : UsedIn(heap', ptr[t], asked[t])
         /\ \A i \in DOMAIN heap' : heap'[i].used =>
              \/ \E c \in blocks \ {b} : c.addr = heap'[i].addr + Header
              \/ \E t \in Calling : ptr[t] = heap'[i].addr + Header
<1>1. FreeDone(b.addr)
  BY FreeEffect
<1>2. /\ heap_limit \in Nat /\ (heap = <<>> => heap_limit \in {0, Base})
  BY TileIsSound DEF HeapConsistent, TypeOK
<1>3. heap' \in Seq(Chunk) /\ ChunksTile' /\ ChunksOrdered'
  BY <1>1, <1>2, SoundNext DEF FreeDone
<1>4. Held(heap, blocks, Calling, ptr, asked)
  BY HeldIs DEF HeapConsistent
<1>5. \A c \in blocks \ {b} : UsedIn(heap', c.addr, c.size)
  BY <1>1, <1>4 DEF FreeDone, Held
<1>6. \A t \in Calling : UsedIn(heap', ptr[t], asked[t])
  BY <1>1, <1>4 DEF FreeDone, Held
<1>7. ASSUME NEW i \in DOMAIN heap', heap'[i].used
      PROVE  \/ \E c \in blocks \ {b} : c.addr = heap'[i].addr + Header
             \/ \E t \in Calling : ptr[t] = heap'[i].addr + Header
  <2>1. /\ heap'[i].addr + Header # b.addr
        /\ i \in DOMAIN heap /\ heap[i].used /\ heap[i].addr = heap'[i].addr
    BY <1>1, <1>7 DEF FreeDone
  <2>2. \/ \E c \in blocks : c.addr = heap[i].addr + Header
        \/ \E t \in Calling : ptr[t] = heap[i].addr + Header
    BY <1>4, <2>1 DEF Held
  <2> QED BY <2>1, <2>2
<1> QED BY <1>3, <1>5, <1>6, <1>7

-----------------------------------------------------------------------------
\* At first there is no chunk and no block.
LEMMA InitInv == Init => Inv
<1> SUFFICES ASSUME Init PROVE Inv
  OBVIOUS
<1>1. heap = <<>> /\ DOMAIN heap = {} /\ blocks = {} /\ Calling = {}
  BY DEF Init, Calling
<1>2. TypeOK
  BY <1>1 DEF Init, TypeOK, PC
<1>3. Held(heap, blocks, Calling, ptr, asked)
  BY <1>1 DEF Held
<1>4. ChunksTile /\ ChunksOrdered
  BY <1>1 DEF Init, ChunksTile, ChunksOrdered
<1>5. \A t \in Threads : pc[t] # "zero"
  BY DEF Init
<1> QED BY <1>2, <1>3, <1>4, <1>5, HeldIs DEF Inv, HeapConsistent

\* What is typed besides the list; `old` of the calls that need it is their block.
CallsTyped ==
  /\ blocks \subseteq BlockType
  /\ pc \in [Threads -> PC]
  /\ ptr \in [Threads -> Nat] /\ asked \in [Threads -> Nat]
  /\ old \in [Threads -> BlockType \cup {NoBlock}]
  /\ \A t \in Threads : pc[t] \in {"copy", "free"} => old[t] \in OwnBlocks(t)
  /\ \A t \in Threads : pc[t] = "zero" => ptr[t] # 0

\* The invariant of the next state, with its parts about holders stated as one.
LEMMA Assemble ==
  ASSUME heap' \in Seq(Chunk), heap_limit' \in Nat, CallsTyped',
         ChunksTile', ChunksOrdered', Held(heap', blocks', Calling', ptr', asked')
  PROVE  Inv'
BY HeldIs DEF Inv, HeapConsistent, TypeOK, CallsTyped

\* A new block of a thread that is in no call.
LEMMA MallocInv ==
  ASSUME Inv, NEW t \in Threads, MallocCall(t)
  PROVE  Inv'
<1>0. PICK size \in Requests : \E r \in Malloc(size) :
        /\ Becomes(r)
        /\ blocks' = IF r.p = 0 THEN blocks
                     ELSE blocks \cup {Block(t, r.p, size, Zero, 0)}
  BY DEF MallocCall
<1>1. PICK r \in Malloc(size) :
        /\ Becomes(r)
        /\ blocks' = IF r.p = 0 THEN blocks
                     ELSE blocks \cup {Block(t, r.p, size, Zero, 0)}
  BY <1>0
<1>2. size \in Nat /\ HeapConsistent
  BY ConstantsAssumption DEF Inv
<1>3. /\ CallsTyped
      /\ Held(heap, blocks, Calling, ptr, asked)
  BY HeldIs DEF Inv, HeapConsistent, TypeOK, CallsTyped
<1>4. Calling' = Calling /\ ptr' = ptr /\ asked' = asked /\ pc' = pc /\ old' = old
  BY DEF MallocCall, Calling, call
<1> DEFINE new == Block(t, r.p, size, Zero, 0)
<1>5. /\ heap_limit' \in Nat /\ r.p \in Nat
      /\ heap' \in Seq(Chunk) /\ ChunksTile' /\ ChunksOrdered'
      /\ \A b \in blocks : UsedIn(heap', b.addr, b.size)
      /\ \A u \in Calling : UsedIn(heap', ptr[u], asked[u])
      /\ r.p # 0 => /\ UsedIn(heap', r.p, size)
                    /\ \A b \in blocks : b.addr # r.p
                    /\ \A u \in Calling : ptr[u] # r.p
      /\ \A i \in DOMAIN heap' : heap'[i].used =>
           \/ r.p # 0 /\ heap'[i].addr + Header = r.p
           \/ \E b \in blocks : b.addr = heap'[i].addr + Header
           \/ \E u \in Calling : ptr[u] = heap'[i].addr + Header
  BY <1>1, <1>2, HoldersAfterMalloc
<1>6. new \in BlockType /\ new.addr = r.p /\ new.size = size
  BY <1>2, <1>5 DEF Block, BlockType
<1> HIDE DEF new
<1>7. blocks \subseteq blocks' /\ \A b \in blocks' : b \in blocks \/ (b = new /\ r.p # 0)
  BY <1>1 DEF new
<1>8. r.p # 0 => new \in blocks'
  BY <1>1 DEF new
<1>9. Held(heap', blocks', Calling, ptr, asked)
  <2>1. \A b \in blocks' : UsedIn(heap', b.addr, b.size)
    BY <1>5, <1>6, <1>7
  <2>2. \A b, c \in blocks' : b.addr = c.addr => b = c
    BY <1>3, <1>5, <1>6, <1>7 DEF Held
  <2>3. \A b \in blocks', u \in Calling : b.addr # ptr[u]
    BY <1>3, <1>5, <1>6, <1>7 DEF Held
  <2>4. \A i \in DOMAIN heap' : heap'[i].used =>
          \/ \E b \in blocks' : b.addr = heap'[i].addr + Header
          \/ \E u \in Calling : ptr[u] = heap'[i].addr + Header
    BY <1>5, <1>6, <1>7, <1>8
  <2>5. \A u, v \in Calling : ptr[u] = ptr[v] => u = v
    BY <1>3 DEF Held
  <2> QED BY <1>5, <2>1, <2>2, <2>3, <2>4, <2>5 DEF Held
<1>10. CallsTyped'
  <2>1. blocks' \subseteq BlockType
    BY <1>3, <1>6, <1>7 DEF CallsTyped
  <2>2. \A u \in Threads : OwnBlocks(u) \subseteq OwnBlocks(u)'
    BY <1>7 DEF OwnBlocks
  <2> QED BY <1>3, <1>4, <2>1, <2>2 DEF CallsTyped
<1> QED BY <1>4, <1>5, <1>9, <1>10, Assemble

\* A thread enters a call with a new pointer, or with a null pointer that is no
\* calloc's.
LEMMA EnterInv ==
  ASSUME Inv, NEW t \in Threads, pc[t] = "idle",
         NEW size \in Nat, NEW r \in Malloc(size), Becomes(r),
         NEW to \in {"zero", "copy", "killed"}, NEW b, Enter(t, to, r.p, size, b),
         to = "zero" => r.p # 0,
         IF to = "copy" THEN b \in OwnBlocks(t) ELSE b = NoBlock,
         UNCHANGED <<blocks, walk>>
  PROVE  Inv'
<1>1. CallsTyped /\ Held(heap, blocks, Calling, ptr, asked) /\ HeapConsistent
  BY HeldIs DEF Inv, HeapConsistent, TypeOK, CallsTyped
<1>2. /\ heap_limit' \in Nat /\ r.p \in Nat
      /\ heap' \in Seq(Chunk) /\ ChunksTile' /\ ChunksOrdered'
      /\ \A c \in blocks : UsedIn(heap', c.addr, c.size)
      /\ \A u \in Calling : UsedIn(heap', ptr[u], asked[u])
      /\ r.p # 0 => /\ UsedIn(heap', r.p, size)
                    /\ \A c \in blocks : c.addr # r.p
                    /\ \A u \in Calling : ptr[u] # r.p
      /\ \A i \in DOMAIN heap' : heap'[i].used =>
           \/ r.p # 0 /\ heap'[i].addr + Header = r.p
           \/ \E c \in blocks : c.addr = heap'[i].addr + Header
           \/ \E u \in Calling : ptr[u] = heap'[i].addr + Header
  BY <1>1, HoldersAfterMalloc
<1>3. /\ pc' = [pc EXCEPT ![t] = to] /\ ptr' = [ptr EXCEPT ![t] = r.p]
      /\ asked' = [asked EXCEPT ![t] = size] /\ old' = [old EXCEPT ![t] = b]
  BY DEF Enter
<1>4. /\ ptr'[t] = r.p /\ asked'[t] = size /\ pc'[t] = to
      /\ \A u \in Threads \ {t} :
           ptr'[u] = ptr[u] /\ asked'[u] = asked[u] /\ pc'[u] = pc[u] /\ old'[u] = old[u]
  BY <1>1, <1>3 DEF CallsTyped
<1>5. t \notin Calling /\ Calling \subseteq Threads
  BY DEF Calling
<1>6. /\ Calling \subseteq Calling' /\ (r.p # 0 => t \in Calling')
      /\ \A u \in Calling' : u \in Calling \/ (u = t /\ r.p # 0)
  BY <1>4 DEF Calling
<1>7. \A u \in Calling : ptr'[u] = ptr[u] /\ asked'[u] = asked[u]
  BY <1>4, <1>5
<1>8. Held(heap', blocks', Calling', ptr', asked')
  <2>1. \A u \in Calling' : UsedIn(heap', ptr'[u], asked'[u])
    BY <1>2, <1>4, <1>6, <1>7
  <2>2. \A u, v \in Calling' : ptr'[u] = ptr'[v] => u = v
    BY <1>1, <1>2, <1>4, <1>6, <1>7 DEF Held
  <2>3. \A c \in blocks, u \in Calling' : c.addr # ptr'[u]
    BY <1>1, <1>2, <1>4, <1>6, <1>7 DEF Held
  <2>4. \A i \in DOMAIN heap' : heap'[i].used =>
          \/ \E c \in blocks : c.addr = heap'[i].addr + Header
          \/ \E u \in Calling' : ptr'[u] = heap'[i].addr + Header
    BY <1>2, <1>4, <1>6, <1>7
  <2>5. \A c, d \in blocks : c.addr = d.addr => c = d
    BY <1>1 DEF Held
  <2> QED BY <1>2, <2>1, <2>2, <2>3, <2>4, <2>5 DEF Held
<1>9. CallsTyped'
  <2>1. b \in BlockType \cup {NoBlock}
    BY <1>1 DEF CallsTyped, OwnBlocks
  <2>2. old' \in [Threads -> BlockType \cup {NoBlock}]
    BY <1>1, <1>3, <2>1 DEF CallsTyped
  <2>3. /\ pc' \in [Threads -> PC]
        /\ ptr' \in [Threads -> Nat] /\ asked' \in [Threads -> Nat]
    BY <1>1, <1>2, <1>3 DEF CallsTyped, PC
  <2>4. old'[t] = b /\ \A u \in Threads : OwnBlocks(u)' = OwnBlocks(u)
    BY <1>1, <1>3 DEF CallsTyped, OwnBlocks
  <2>5. ASSUME NEW u \in Threads
        PROVE  /\ pc'[u] \in {"copy", "free"} => old'[u] \in OwnBlocks(u)'
               /\ pc'[u] = "zero" => ptr'[u] # 0
    <3>1. CASE u = t
      BY <1>4, <2>4, <3>1
    <3>2. CASE u # t
      BY <1>1, <1>4, <2>4, <3>2 DEF CallsTyped
    <3> QED BY <3>1, <3>2
  <2>6. blocks' \subseteq BlockType
    BY <1>1 DEF CallsTyped
  <2> QED BY <2>2, <2>3, <2>5, <2>6 DEF CallsTyped
<1> QED BY <1>2, <1>8, <1>9, Assemble

\* A call that returns no longer holds its pointer.
LEMMA Returned ==
  ASSUME CallsTyped, NEW t \in Threads, Return(t)
  PROVE  /\ Calling' = Calling \ {t}
         /\ \A u \in Calling \ {t} : ptr'[u] = ptr[u] /\ asked'[u] = asked[u]
         /\ pc'[t] = "idle"
         /\ \A u \in Threads \ {t} : pc'[u] = pc[u] /\ old'[u] = old[u] /\ ptr'[u] = ptr[u]
         /\ pc' \in [Threads -> PC]
         /\ ptr' \in [Threads -> Nat] /\ asked' \in [Threads -> Nat]
         /\ old' \in [Threads -> BlockType \cup {NoBlock}]
<1>1. /\ pc' = [pc EXCEPT ![t] = "idle"] /\ ptr' = [ptr EXCEPT ![t] = 0]
      /\ asked' = [asked EXCEPT ![t] = 0] /\ old' = [old EXCEPT ![t] = NoBlock]
  BY DEF Return, Enter
<1>2. /\ pc'[t] = "idle"
      /\ \A u \in Threads \ {t} :
           pc'[u] = pc[u] /\ old'[u] = old[u] /\ ptr'[u] = ptr[u] /\ asked'[u] = asked[u]
  BY <1>1 DEF CallsTyped
<1>3. Calling' = Calling \ {t}
  BY <1>2 DEF Calling
<1>4. \A u \in Calling \ {t} : ptr'[u] = ptr[u] /\ asked'[u] = asked[u]
  BY <1>2 DEF Calling
<1>5. /\ pc' \in [Threads -> PC]
      /\ ptr' \in [Threads -> Nat] /\ asked' \in [Threads -> Nat]
      /\ old' \in [Threads -> BlockType \cup {NoBlock}]
  BY <1>1 DEF CallsTyped, PC
<1> QED BY <1>2, <1>3, <1>4, <1>5

\* The end of calloc: the new block passes from the call to the program.
LEMMA ClearInv ==
  ASSUME Inv, NEW t \in Threads, CallocClear(t)
  PROVE  Inv'
<1>1. CallsTyped /\ Held(heap, blocks, Calling, ptr, asked) /\ HeapConsistent
  BY HeldIs DEF Inv, HeapConsistent, TypeOK, CallsTyped
<1> DEFINE new == Block(t, ptr[t], asked[t], Zero, asked[t])
<1>2. /\ pc[t] = "zero" /\ blocks' = blocks \cup {new} /\ Return(t)
      /\ UNCHANGED <<heap, heap_limit, walk>>
  BY DEF CallocClear
<1>3. /\ Calling' = Calling \ {t}
      /\ \A u \in Calling \ {t} : ptr'[u] = ptr[u] /\ asked'[u] = asked[u]
      /\ pc'[t] = "idle"
      /\ \A u \in Threads \ {t} : pc'[u] = pc[u] /\ old'[u] = old[u] /\ ptr'[u] = ptr[u]
      /\ pc' \in [Threads -> PC]
      /\ ptr' \in [Threads -> Nat] /\ asked' \in [Threads -> Nat]
      /\ old' \in [Threads -> BlockType \cup {NoBlock}]
  BY <1>1, <1>2, Returned
<1>4. t \in Calling
  BY <1>2 DEF Inv, Calling
<1>5. new \in BlockType /\ new.addr = ptr[t] /\ new.size = asked[t]
  BY <1>1 DEF Block, BlockType, CallsTyped
<1> HIDE DEF new
<1>6. Held(heap', blocks', Calling', ptr', asked')
  <2>1. \A b \in blocks' : UsedIn(heap, b.addr, b.size)
    BY <1>1, <1>2, <1>4, <1>5 DEF Held
  <2>2. \A u \in Calling' : UsedIn(heap, ptr'[u], asked'[u])
    BY <1>1, <1>3 DEF Held
  <2>3. \A b, c \in blocks' : b.addr = c.addr => b = c
    BY <1>1, <1>2, <1>4, <1>5 DEF Held
  <2>4. \A u, v \in Calling' : ptr'[u] = ptr'[v] => u = v
    BY <1>1, <1>3 DEF Held
  <2>5. \A b \in blocks', u \in Calling' : b.addr # ptr'[u]
    BY <1>1, <1>2, <1>3, <1>4, <1>5 DEF Held
  <2>6. ASSUME NEW i \in DOMAIN heap, heap[i].used
        PROVE  \/ \E b \in blocks' : b.addr = heap[i].addr + Header
               \/ \E u \in Calling' : ptr'[u] = heap[i].addr + Header
    <3>1. \/ \E b \in blocks : b.addr = heap[i].addr + Header
          \/ \E u \in Calling : ptr[u] = heap[i].addr + Header
      BY <1>1, <2>6 DEF Held
    <3> QED BY <1>2, <1>3, <1>5, <3>1
  <2> QED BY <1>2, <2>1, <2>2, <2>3, <2>4, <2>5, <2>6 DEF Held
<1>7. CallsTyped'
  <2>1. blocks' \subseteq BlockType
    BY <1>1, <1>2, <1>5 DEF CallsTyped
  <2>2. \A u \in Threads : OwnBlocks(u) \subseteq OwnBlocks(u)'
    BY <1>2 DEF OwnBlocks
  <2> QED BY <1>1, <1>3, <2>1, <2>2 DEF CallsTyped
<1>8. /\ heap' \in Seq(Chunk) /\ heap_limit' \in Nat /\ ChunksTile' /\ ChunksOrdered'
  BY <1>1, <1>2 DEF HeapConsistent, TypeOK, ChunksTile, ChunksOrdered
<1> QED BY <1>6, <1>7, <1>8, Assemble

\* A block is freed by a thread that is in no call.
LEMMA FreeInv ==
  ASSUME Inv, NEW t \in Threads, FreeCall(t)
  PROVE  Inv'
<1>1. CallsTyped /\ Held(heap, blocks, Calling, ptr, asked) /\ HeapConsistent
  BY HeldIs DEF Inv, HeapConsistent, TypeOK, CallsTyped
<1>2. PICK b \in OwnBlocks(t) : FreeChunk(b.addr) /\ blocks' = blocks \ {b}
  BY DEF FreeCall
<1>3. /\ UNCHANGED <<heap_limit, pc, ptr, asked, old>> /\ pc[t] = "idle"
      /\ b \in blocks /\ b.owner = t
  BY <1>2 DEF FreeCall, call, Idle, OwnBlocks
<1>4. /\ heap' \in Seq(Chunk) /\ ChunksTile' /\ ChunksOrdered'
      /\ \A c \in blocks \ {b} : UsedIn(heap', c.addr, c.size)
      /\ \A u \in Calling : UsedIn(heap', ptr[u], asked[u])
      /\ \A i \in DOMAIN heap' : heap'[i].used =>
           \/ \E c \in blocks \ {b} : c.addr = heap'[i].addr + Header
           \/ \E u \in Calling : ptr[u] = heap'[i].addr + Header
  BY <1>1, <1>2, <1>3, HoldersAfterFree
<1>5. Calling' = Calling
  BY <1>3 DEF Calling
<1>6. Held(heap', blocks', Calling', ptr', asked')
  BY <1>1, <1>2, <1>3, <1>4, <1>5 DEF Held
<1>7. CallsTyped'
  <2>1. \A u \in Threads \ {t} : OwnBlocks(u)' = OwnBlocks(u)
    BY <1>2, <1>3 DEF OwnBlocks
  <2> QED BY <1>1, <1>2, <1>3, <2>1 DEF CallsTyped
<1>8. heap_limit' \in Nat
  BY <1>1, <1>3 DEF HeapConsistent, TypeOK
<1> QED BY <1>4, <1>6, <1>7, <1>8, Assemble

\* The end of realloc: the old block is freed and the new one passes to the program.
LEMMA ReallocInv ==
  ASSUME Inv, NEW t \in Threads, ReallocFree(t)
  PROVE  Inv'
<1>1. CallsTyped /\ Held(heap, blocks, Calling, ptr, asked) /\ HeapConsistent
  BY HeldIs DEF Inv, HeapConsistent, TypeOK, CallsTyped
<1> DEFINE b == old[t]
           known == IF b.known < asked[t] THEN b.known ELSE asked[t]
           new == Block(t, ptr[t], asked[t], b.mark, known)
<1>2. /\ pc[t] = "free" /\ FreeChunk(b.addr) /\ Return(t) /\ UNCHANGED heap_limit
      /\ blocks' = (blocks \ {b}) \cup (IF ptr[t] = 0 THEN {} ELSE {new})
  BY DEF ReallocFree, Freed
<1>3. b \in blocks /\ b.owner = t /\ b \in BlockType
  BY <1>1, <1>2 DEF CallsTyped, OwnBlocks
<1>4. /\ Calling' = Calling \ {t}
      /\ \A u \in Calling \ {t} : ptr'[u] = ptr[u] /\ asked'[u] = asked[u]
      /\ pc'[t] = "idle"
      /\ \A u \in Threads \ {t} : pc'[u] = pc[u] /\ old'[u] = old[u] /\ ptr'[u] = ptr[u]
      /\ pc' \in [Threads -> PC]
      /\ ptr' \in [Threads -> Nat] /\ asked' \in [Threads -> Nat]
      /\ old' \in [Threads -> BlockType \cup {NoBlock}]
  BY <1>1, <1>2, Returned
<1>5. /\ heap' \in Seq(Chunk) /\ ChunksTile' /\ ChunksOrdered'
      /\ \A c \in blocks \ {b} : UsedIn(heap', c.addr, c.size)
      /\ \A u \in Calling : UsedIn(heap', ptr[u], asked[u])
      /\ \A i \in DOMAIN heap' : heap'[i].used =>
           \/ \E c \in blocks \ {b} : c.addr = heap'[i].addr + Header
           \/ \E u \in Calling : ptr[u] = heap'[i].addr + Header
  BY <1>1, <1>2, <1>3, HoldersAfterFree
<1>6. new \in BlockType /\ new.addr = ptr[t] /\ new.size = asked[t]
  BY <1>1, <1>3 DEF Block, BlockType, CallsTyped
<1> HIDE DEF new, known, b
<1>7. t \in Calling <=> ptr[t] # 0
  BY <1>2 DEF Calling
<1>8. /\ \A c \in blocks' : (c \in blocks /\ c # b) \/ (c = new /\ t \in Calling)
      /\ \A c \in blocks : c # b => c \in blocks'
      /\ t \in Calling => new \in blocks'
  BY <1>2, <1>7
<1>9. Held(heap', blocks', Calling', ptr', asked')
  <2>1. \A c \in blocks' : UsedIn(heap', c.addr, c.size)
    BY <1>5, <1>6, <1>8
  <2>2. \A u \in Calling' : UsedIn(heap', ptr'[u], asked'[u])
    BY <1>4, <1>5
  <2>3. \A c, d \in blocks' : c.addr = d.addr => c = d
    BY <1>1, <1>6, <1>8 DEF Held
  <2>4. \A u, v \in Calling' : ptr'[u] = ptr'[v] => u = v
    BY <1>1, <1>4 DEF Held
  <2>5. \A c \in blocks', u \in Calling' : c.addr # ptr'[u]
    BY <1>1, <1>4, <1>6, <1>8 DEF Held
  <2>6. ASSUME NEW i \in DOMAIN heap', heap'[i].used
        PROVE  \/ \E c \in blocks' : c.addr = heap'[i].addr + Header
               \/ \E u \in Calling' : ptr'[u] = heap'[i].addr + Header
    <3>1. \/ \E c \in blocks \ {b} : c.addr = heap'[i].addr + Header
          \/ \E u \in Calling : ptr[u] = heap'[i].addr + Header
      BY <1>5, <2>6
    <3> QED BY <1>4, <1>6, <1>8, <3>1
  <2> QED BY <2>1, <2>2, <2>3, <2>4, <2>5, <2>6 DEF Held
<1>10. CallsTyped'
  <2>1. blocks' \subseteq BlockType
    BY <1>1, <1>6, <1>8 DEF CallsTyped
  <2>2. \A u \in Threads \ {t} : OwnBlocks(u) \subseteq OwnBlocks(u)'
    BY <1>3, <1>8 DEF OwnBlocks
  <2> QED BY <1>1, <1>4, <2>1, <2>2 DEF CallsTyped
<1>11. heap_limit' \in Nat
  BY <1>1, <1>2 DEF HeapConsistent, TypeOK
<1> QED BY <1>5, <1>9, <1>10, <1>11, Assemble

\* A block is filled: the same memory is described by another record.
LEMMA FillInv ==
  ASSUME Inv, NEW t \in Threads, Fill(t)
  PROVE  Inv'
<1>1. CallsTyped /\ Held(heap, blocks, Calling, ptr, asked) /\ HeapConsistent
  BY HeldIs DEF Inv, HeapConsistent, TypeOK, CallsTyped
<1>2. PICK b \in OwnBlocks(t) :
        blocks' = (blocks \ {b}) \cup {Block(t, b.addr, b.size, t, b.size)}
  BY DEF Fill
<1> DEFINE new == Block(t, b.addr, b.size, t, b.size)
<1>3. /\ UNCHANGED <<heap, heap_limit, pc, ptr, asked, old>> /\ pc[t] = "idle"
      /\ b \in blocks /\ b.owner = t /\ b \in BlockType
  BY <1>1, <1>2 DEF Fill, call, Idle, OwnBlocks, CallsTyped
<1>4. new \in BlockType /\ new.addr = b.addr /\ new.size = b.size
  BY <1>3 DEF Block, BlockType
<1>5. /\ \A c \in blocks' : (c \in blocks /\ c # b) \/ c = new
      /\ \A c \in blocks : c # b => c \in blocks'
      /\ new \in blocks'
  BY <1>2
<1> HIDE DEF new
<1>6. Calling' = Calling
  BY <1>3 DEF Calling
<1>7. Held(heap', blocks', Calling', ptr', asked')
  <2>1. \A c \in blocks' : UsedIn(heap, c.addr, c.size)
    BY <1>1, <1>3, <1>4, <1>5 DEF Held
  <2>2. \A c, d \in blocks' : c.addr = d.addr => c = d
    BY <1>1, <1>3, <1>4, <1>5 DEF Held
  <2>3. \A c \in blocks', u \in Calling : c.addr # ptr[u]
    BY <1>1, <1>3, <1>4, <1>5 DEF Held
  <2>4. ASSUME NEW i \in DOMAIN heap, heap[i].used
        PROVE  \/ \E c \in blocks' : c.addr = heap[i].addr + Header
               \/ \E u \in Calling : ptr[u] = heap[i].addr + Header
    <3>1. \/ \E c \in blocks : c.addr = heap[i].addr + Header
          \/ \E u \in Calling : ptr[u] = heap[i].addr + Header
      BY <1>1, <2>4 DEF Held
    <3> QED BY <1>4, <1>5, <3>1
  <2>5. /\ \A u \in Calling : UsedIn(heap, ptr[u], asked[u])
        /\ \A u, v \in Calling : ptr[u] = ptr[v] => u = v
    BY <1>1 DEF Held
  <2> QED BY <1>3, <1>6, <2>1, <2>2, <2>3, <2>4, <2>5 DEF Held
<1>8. CallsTyped'
  <2>1. blocks' \subseteq BlockType
    BY <1>1, <1>4, <1>5 DEF CallsTyped
  <2>2. \A u \in Threads \ {t} : OwnBlocks(u) \subseteq OwnBlocks(u)'
    BY <1>3, <1>5 DEF OwnBlocks
  <2> QED BY <1>1, <1>3, <2>1, <2>2 DEF CallsTyped
<1>9. /\ heap' \in Seq(Chunk) /\ heap_limit' \in Nat /\ ChunksTile' /\ ChunksOrdered'
  BY <1>1, <1>3 DEF HeapConsistent, TypeOK, ChunksTile, ChunksOrdered
<1> QED BY <1>7, <1>8, <1>9, Assemble

\* Every step keeps the invariant.
LEMMA NextInv == Inv /\ [Next]_vars => Inv'
<1> SUFFICES ASSUME Inv, [Next]_vars PROVE Inv'
  OBVIOUS
<1>i. Requests \subseteq Nat
  BY ConstantsAssumption
<1>1. ASSUME NEW t \in Threads, MallocCall(t) PROVE Inv'
  BY <1>1, MallocInv
<1>2. ASSUME NEW t \in Threads, CallocCall(t) PROVE Inv'
  <2>1. PICK size \in Requests : \E r \in Malloc(size) :
          /\ Becomes(r)
          /\ IF r.p = 0 THEN UNCHANGED call ELSE Enter(t, "zero", r.p, size, NoBlock)
    BY <1>2 DEF CallocCall
  <2>2. PICK r \in Malloc(size) :
          /\ Becomes(r)
          /\ IF r.p = 0 THEN UNCHANGED call ELSE Enter(t, "zero", r.p, size, NoBlock)
    BY <2>1
  <2>3. pc[t] = "idle" /\ size \in Nat /\ UNCHANGED <<blocks, walk>>
    BY <1>2, <1>i DEF CallocCall, MayAsk, Idle
  <2>4. CASE r.p # 0
    <3>1. Enter(t, "zero", r.p, size, NoBlock)
      BY <2>2, <2>4
    <3> QED BY <2>2, <2>3, <2>4, <3>1, EnterInv
  <2>5. CASE r.p = 0
    <3>1. CallsTyped /\ Held(heap, blocks, Calling, ptr, asked) /\ HeapConsistent
      BY HeldIs DEF Inv, HeapConsistent, TypeOK, CallsTyped
    <3>2. /\ heap_limit' \in Nat
          /\ heap' \in Seq(Chunk) /\ ChunksTile' /\ ChunksOrdered'
          /\ \A c \in blocks : UsedIn(heap', c.addr, c.size)
          /\ \A u \in Calling : UsedIn(heap', ptr[u], asked[u])
          /\ \A i \in DOMAIN heap' : heap'[i].used =>
               \/ \E c \in blocks : c.addr = heap'[i].addr + Header
               \/ \E u \in Calling : ptr[u] = heap'[i].addr + Header
      BY <2>2, <2>3, <2>5, <3>1, HoldersAfterMalloc
    <3>3. UNCHANGED <<pc, ptr, asked, old>>
      BY <2>2, <2>5 DEF call
    <3>4. Calling' = Calling /\ CallsTyped'
      BY <2>3, <3>1, <3>3 DEF Calling, CallsTyped, OwnBlocks
    <3>5. Held(heap', blocks', Calling', ptr', asked')
      BY <2>3, <3>1, <3>2, <3>3, <3>4 DEF Held
    <3> QED BY <3>2, <3>4, <3>5, Assemble
  <2> QED BY <2>4, <2>5
<1>3. ASSUME NEW t \in Threads, CallocClear(t) PROVE Inv'
  BY <1>3, ClearInv
<1>4. ASSUME NEW t \in Threads, FreeCall(t) PROVE Inv'
  BY <1>4, FreeInv
<1>5. ASSUME NEW t \in Threads, ReallocCall(t) PROVE Inv'
  <2>1. PICK b \in OwnBlocks(t), size \in Requests : \E r \in Malloc(size) :
          Becomes(r) /\ Enter(t, "copy", r.p, size, b)
    BY <1>5 DEF ReallocCall
  <2>2. PICK r \in Malloc(size) : Becomes(r) /\ Enter(t, "copy", r.p, size, b)
    BY <2>1
  <2>3. pc[t] = "idle" /\ size \in Nat /\ UNCHANGED <<blocks, walk>>
    BY <1>5, <1>i DEF ReallocCall, Idle
  <2> QED BY <2>2, <2>3, EnterInv
<1>6. ASSUME NEW t \in Threads, ReallocCopy(t) PROVE Inv'
  <2>1. /\ pc[t] = "copy"
        /\ \E to \in {"killed", "free"} : pc' = [pc EXCEPT ![t] = to]
        /\ UNCHANGED <<heap, heap_limit, blocks, ptr, asked, old>>
    BY <1>6 DEF ReallocCopy
  <2>2. CallsTyped /\ Held(heap, blocks, Calling, ptr, asked) /\ HeapConsistent
    BY HeldIs DEF Inv, HeapConsistent, TypeOK, CallsTyped
  <2>3. Calling' = Calling
    BY <2>1, <2>2 DEF Calling, CallsTyped
  <2>4. CallsTyped'
    BY <2>1, <2>2 DEF CallsTyped, PC, OwnBlocks
  <2>5. Held(heap', blocks', Calling', ptr', asked')
    BY <2>1, <2>2, <2>3
  <2>6. /\ heap' \in Seq(Chunk) /\ heap_limit' \in Nat /\ ChunksTile' /\ ChunksOrdered'
    BY <2>1, <2>2 DEF HeapConsistent, TypeOK, ChunksTile, ChunksOrdered
  <2> QED BY <2>4, <2>5, <2>6, Assemble
<1>7. ASSUME NEW t \in Threads, ReallocFree(t) PROVE Inv'
  BY <1>7, ReallocInv
<1>8. ASSUME NEW t \in Threads, Fill(t) PROVE Inv'
  BY <1>8, FillInv
<1>9. CASE UNCHANGED <<heap, heap_limit, blocks, call>>
  <2>1. UNCHANGED <<heap, heap_limit, blocks, pc, ptr, asked, old>>
    BY <1>9 DEF call
  <2> QED BY <2>1 DEF Inv, HeapConsistent, TypeOK, ChunksTile, ChunksOrdered, ChunksHeld,
                      InUse, ChunkAt, Calling, OwnBlocks
<1>10. CASE StateCall \/ StateLook \/ StateCount \/ StateMove \/ StateUsed
  BY <1>9, <1>10 DEF StateCall, StateLook, StateCount, StateMove, StateUsed
<1>11. CASE UNCHANGED vars
  BY <1>9, <1>11 DEF vars
<1>12. ASSUME NEW t \in Threads, ReallocNull(t) PROVE Inv'
  <2>1. PICK size \in Requests : \E r \in Malloc(size) :
          Becomes(r) /\ Enter(t, "killed", r.p, size, NoBlock)
    BY <1>12 DEF ReallocNull
  <2>2. PICK r \in Malloc(size) : Becomes(r) /\ Enter(t, "killed", r.p, size, NoBlock)
    BY <2>1
  <2>3. pc[t] = "idle" /\ size \in Nat /\ UNCHANGED <<blocks, walk>>
    BY <1>12, <1>i DEF ReallocNull, MayAsk, Idle
  <2> QED BY <2>2, <2>3, EnterInv
<1> QED BY <1>1, <1>2, <1>3, <1>4, <1>5, <1>6, <1>7, <1>8, <1>10, <1>11, <1>12 DEF Next

-----------------------------------------------------------------------------
\* The invariant holds in every reachable state.
THEOREM Invariance == Spec => []Inv
<1> QED BY InitInv, NextInv, PTL DEF Spec

\* However calls interleave, the chunks tile the heap in the order of their addresses
\* and agree with what the program holds: no memory is given out twice, none leaks.
THEOREM HeapSound == Spec => []HeapConsistent
<1>1. Inv => HeapConsistent
  BY DEF Inv
<1> QED BY <1>1, Invariance, PTL

\* Two blocks have no byte in common, nor has a block one with the header of a chunk.
BlocksApart ==
  \A b, c \in blocks : b # c =>
    \/ b.addr + b.size + Header <= c.addr
    \/ c.addr + c.size + Header <= b.addr

\* What a program is given never overlaps: the promise of malloc.
THEOREM NoOverlap == Spec => []BlocksApart
<1>1. HeapConsistent => BlocksApart
  <2> SUFFICES ASSUME HeapConsistent, NEW b \in blocks, NEW c \in blocks, b # c
               PROVE  \/ b.addr + b.size + Header <= c.addr
                      \/ c.addr + c.size + Header <= b.addr
    BY DEF BlocksApart
  <2>1. PICK i \in DOMAIN heap : heap[i].addr + Header = b.addr /\ b.size <= heap[i].size
    BY DEF HeapConsistent, ChunksHeld, InUse, ChunkAt
  <2>2. PICK j \in DOMAIN heap : heap[j].addr + Header = c.addr /\ c.size <= heap[j].size
    BY DEF HeapConsistent, ChunksHeld, InUse, ChunkAt
  <2>3. i # j
    BY <2>1, <2>2 DEF HeapConsistent, ChunksHeld
  <2>4. /\ heap[i].addr \in Nat /\ heap[i].size \in Nat
        /\ heap[j].addr \in Nat /\ heap[j].size \in Nat /\ i \in Nat /\ j \in Nat
    <3>1. heap[i] \in Chunk /\ heap[j] \in Chunk /\ DOMAIN heap = 1 .. Len(heap)
      BY DEF HeapConsistent, TypeOK
    <3> QED BY <3>1 DEF Chunk
  <2>5. b.size \in Nat /\ c.size \in Nat
    BY DEF HeapConsistent, TypeOK, BlockType
  <2>6. /\ i < j => heap[i].addr + Header + heap[i].size <= heap[j].addr
        /\ j < i => heap[j].addr + Header + heap[j].size <= heap[i].addr
    BY DEF HeapConsistent, ChunksOrdered
  <2> QED BY <2>1, <2>2, <2>3, <2>4, <2>5, <2>6, Constants
<1> QED BY <1>1, HeapSound, PTL
-----------------------------------------------------------------------------
(* What the memory holds                                                   *)

BlockKept(b) ==
  /\ b.known <= b.size
  /\ \A a \in b.addr .. b.addr + b.known - 1 : mem[a] = b.mark

HeadersKept ==
  \A i \in DOMAIN heap : \A a \in heap[i].addr .. heap[i].addr + Header - 1 : mem[a] = Meta

\* After the copy of realloc, what the old block had is in the new one until the old one is
\* freed.
CallKept(t) ==
  pc[t] = "free" =>
       /\ ptr[t] = 0 => asked[t] = 0
       /\ \A k \in 0 .. asked[t] - 1 : k < old[t].known => mem[ptr[t] + k] = old[t].mark

MemoryInv ==
  /\ DOMAIN mem = Cells
  /\ heap # <<>> => heap_limit <= Top
  /\ HeadersKept
  /\ \A b \in blocks : BlockKept(b)
  /\ \A t \in Threads : CallKept(t)

\* The cells of n bytes at p hold what they held.
Same(p, n) == \A a \in p .. p + n - 1 : mem'[a] = mem[a]

\* Write changes the cells it is given, and no others.
LEMMA WriteFacts ==
  ASSUME NEW m, NEW addr, NEW n, NEW x
  PROVE  /\ DOMAIN Write(m, addr, n, x) = DOMAIN m
         /\ \A a \in DOMAIN m :
              Write(m, addr, n, x)[a] = IF a \in addr .. addr + n - 1 THEN x ELSE m[a]
BY DEF Write

\* Chunks lie between the base and the limit of the heap.
LEMMA ChunkWithin ==
  ASSUME NEW h, NEW limit \in Nat, Sound(h, limit), NEW i \in DOMAIN h
  PROVE  /\ h[i].addr \in Nat /\ h[i].size \in Nat
         /\ Base <= h[i].addr /\ h[i].addr + Header + h[i].size <= limit
<1> DEFINE n == Len(h)
<1>1. h \in Seq(Chunk) /\ n \in Nat /\ DOMAIN h = 1 .. n /\ n \in DOMAIN h /\ 1 \in DOMAIN h
  BY DEF Sound
<1>2. \A j \in DOMAIN h : h[j].addr \in Nat /\ h[j].size \in Nat
  <2> SUFFICES ASSUME NEW j \in DOMAIN h PROVE h[j].addr \in Nat /\ h[j].size \in Nat
    OBVIOUS
  <2>1. h[j] \in Chunk
    BY <1>1
  <2> QED BY <2>1 DEF Chunk
<1>3. h[1].addr = Base /\ h[n].addr + Header + h[n].size = limit
  BY <1>1 DEF Sound
<1>4. \A j, k \in DOMAIN h : j < k => h[j].addr + Header + h[j].size <= h[k].addr
  BY DEF Sound
<1> HIDE DEF n
<1>5. Base <= h[i].addr
  <2>1. CASE i = 1
    BY <1>2, <1>3, <2>1, Constants
  <2>2. CASE i # 1
    <3>1. h[1].addr + Header + h[1].size <= h[i].addr
      BY <1>1, <1>4, <2>2
    <3> QED BY <1>1, <1>2, <1>3, <3>1, Constants
  <2> QED BY <2>1, <2>2
<1>6. h[i].addr + Header + h[i].size <= limit
  <2>1. CASE i = n
    BY <1>2, <1>3, <2>1, Constants
  <2>2. CASE i # n
    <3>1. h[i].addr + Header + h[i].size <= h[n].addr
      BY <1>1, <1>4, <2>2
    <3> QED BY <1>1, <1>2, <1>3, <3>1, Constants, SMTT(60)
  <2> QED BY <2>1, <2>2
<1> QED BY <1>2, <1>5, <1>6

\* Two chunks have no cell in common.
LEMMA ChunksApart ==
  ASSUME NEW h, NEW limit \in Nat, Sound(h, limit),
         NEW i \in DOMAIN h, NEW j \in DOMAIN h, i # j
  PROVE  \A a \in h[i].addr .. h[i].addr + Header + h[i].size - 1 :
           a \notin h[j].addr .. h[j].addr + Header + h[j].size - 1
<1>1. /\ h[i].addr \in Nat /\ h[i].size \in Nat
      /\ h[j].addr \in Nat /\ h[j].size \in Nat
  BY ChunkWithin
<1>2. i \in Nat /\ j \in Nat
  BY DEF Sound
<1>3. \/ h[i].addr + Header + h[i].size <= h[j].addr
      \/ h[j].addr + Header + h[j].size <= h[i].addr
  BY <1>2 DEF Sound
<1> QED BY <1>1, <1>3, Constants

\* Where the cells of a header are: in their chunk, and in the heap.
LEMMA HeaderCells ==
  ASSUME NEW h, NEW limit \in Nat, limit <= Top, Sound(h, limit), NEW i \in DOMAIN h,
         NEW a \in h[i].addr .. h[i].addr + Header - 1
  PROVE  /\ a \in h[i].addr .. h[i].addr + Header + h[i].size - 1
         /\ a \in Cells
<1>1. /\ h[i].addr \in Nat /\ h[i].size \in Nat
      /\ Base <= h[i].addr /\ h[i].addr + Header + h[i].size <= limit
  BY ChunkWithin
<1>2. Base \in Nat /\ Top \in Nat /\ Header \in Nat
  BY ConstantsAssumption
<1> QED BY <1>1, <1>2 DEF Cells

\* ... and those of n bytes in a chunk.
LEMMA PayloadCells ==
  ASSUME NEW h, NEW limit \in Nat, limit <= Top, Sound(h, limit), NEW i \in DOMAIN h,
         NEW n \in Nat, n <= h[i].size,
         NEW a \in h[i].addr + Header .. h[i].addr + Header + n - 1
  PROVE  /\ a \in h[i].addr .. h[i].addr + Header + h[i].size - 1
         /\ a \in Cells
         /\ a \notin h[i].addr .. h[i].addr + Header - 1
<1>1. /\ h[i].addr \in Nat /\ h[i].size \in Nat
      /\ Base <= h[i].addr /\ h[i].addr + Header + h[i].size <= limit
  BY ChunkWithin
<1>2. Base \in Nat /\ Top \in Nat /\ Header \in Nat
  BY ConstantsAssumption
<1> QED BY <1>1, <1>2 DEF Cells

\* What malloc writes when it gives out a chunk: the headers of it and of its rest, all
\* of them cells that were the chunk's.
LEMMA HeadersWritten ==
  ASSUME NEW h, NEW limit \in Nat, limit <= Top, Sound(h, limit), NEW i \in DOMAIN h,
         NEW size \in Nat, DOMAIN mem = Cells,
         NEW g, g = Place(h, i, size), NEW w, w = Headers(h, i, size)
  PROVE  /\ DOMAIN w = Cells
         /\ \A a \in Cells :
              a \notin h[i].addr .. h[i].addr + Header + h[i].size - 1 => w[a] = mem[a]
         /\ \A k \in DOMAIN g :
              \/ \A a \in g[k].addr .. g[k].addr + Header - 1 : a \in Cells => w[a] = Meta
              \/ \E j \in DOMAIN h \ {i} : g[k].addr = h[j].addr
<1> DEFINE first == Write(mem, h[i].addr, Header, Meta)
           behind == h[i].addr + Header + size
<1>1. /\ h[i].addr \in Nat /\ h[i].size \in Nat /\ Header \in Nat
  BY ChunkWithin, Constants
<1>2. /\ DOMAIN first = Cells
      /\ \A a \in Cells : first[a] =
           IF a \in h[i].addr .. h[i].addr + Header - 1 THEN Meta ELSE mem[a]
  BY WriteFacts
<1>3. h \in Seq(Chunk) /\ Len(h) \in Nat /\ DOMAIN h = 1 .. Len(h) /\ i \in 1 .. Len(h)
  BY DEF Sound
<1>4. CASE Splits(h[i], size)
  <2>1. w = Write(first, behind, Header, Meta)
    BY <1>4 DEF Headers
  <2> HIDE DEF first
  <2>2. /\ DOMAIN w = Cells
        /\ \A a \in Cells : w[a] =
             IF a \in behind .. behind + Header - 1 THEN Meta ELSE first[a]
    BY <1>2, <2>1, WriteFacts
  <2>3. h[i].size > size + Header
    <3>1. MinAlloc \in Nat /\ h[i].size > size + Header + MinAlloc
      BY <1>4, Constants DEF Splits
    <3> QED BY <1>1, <3>1
  <2>4. ASSUME NEW a \in Cells,
               a \notin h[i].addr .. h[i].addr + Header + h[i].size - 1
        PROVE  w[a] = mem[a]
    <3>1. a \in Int
      BY ConstantsAssumption DEF Cells
    <3>2. /\ a \notin behind .. behind + Header - 1
          /\ a \notin h[i].addr .. h[i].addr + Header - 1
      BY <1>1, <2>3, <2>4, <3>1
    <3> QED BY <1>2, <2>2, <3>2
  <2>5. ASSUME NEW k \in DOMAIN g
        PROVE  \/ \A a \in g[k].addr .. g[k].addr + Header - 1 : a \in Cells => w[a] = Meta
               \/ \E j \in DOMAIN h \ {i} : g[k].addr = h[j].addr
    <3>1. /\ k \in 1 .. Len(h) + 1
          /\ g[k] = IF k < i THEN h[k]
                    ELSE IF k = i THEN [addr |-> h[i].addr, size |-> size, used |-> TRUE]
                    ELSE IF k = i + 1
                      THEN [addr |-> behind, size |-> Rest(h[i], size), used |-> FALSE]
                    ELSE h[k - 1]
      BY <1>4 DEF Place
    <3> HIDE DEF behind
    <3>2. CASE k < i
      <4>1. k \in DOMAIN h \ {i} /\ g[k].addr = h[k].addr
        BY <1>3, <3>1, <3>2
      <4> QED BY <4>1
    <3>3. CASE k = i
      <4>1. g[k].addr = h[i].addr
        BY <3>1, <3>3
      <4> QED BY <1>2, <2>2, <4>1
    <3>4. CASE k = i + 1
      <4>1. g[k].addr = behind
        BY <1>3, <3>1, <3>4
      <4> QED BY <2>2, <4>1
    <3>5. CASE k > i + 1
      <4>1. k - 1 \in DOMAIN h \ {i} /\ g[k].addr = h[k - 1].addr
        BY <1>3, <3>1, <3>5
      <4> QED BY <4>1
    <3> QED BY <1>3, <3>1, <3>2, <3>3, <3>4, <3>5
  <2> QED BY <2>2, <2>4, <2>5
<1>5. CASE ~ Splits(h[i], size)
  <2>1. w = first /\ g = [h EXCEPT ![i].used = TRUE]
    BY <1>5 DEF Headers, Place
  <2> HIDE DEF first
  <2>2. ASSUME NEW a \in Cells,
               a \notin h[i].addr .. h[i].addr + Header + h[i].size - 1
        PROVE  w[a] = mem[a]
    <3>1. a \in Int
      BY ConstantsAssumption DEF Cells
    <3>2. a \notin h[i].addr .. h[i].addr + Header - 1
      BY <1>1, <2>2, <3>1
    <3> QED BY <1>2, <2>1, <3>2
  <2>3. ASSUME NEW k \in DOMAIN g
        PROVE  \/ \A a \in g[k].addr .. g[k].addr + Header - 1 : a \in Cells => w[a] = Meta
               \/ \E j \in DOMAIN h \ {i} : g[k].addr = h[j].addr
    <3>1. k \in DOMAIN h
      BY <2>1
    <3>2. g[k].addr = h[k].addr
      <4>1. h[k] \in Chunk
        BY <1>3, <3>1
      <4> QED BY <2>1, <3>1, <4>1 DEF Chunk
    <3>3. CASE k = i
      BY <1>2, <2>1, <3>2, <3>3
    <3>4. CASE k # i
      BY <3>1, <3>2, <3>4
    <3> QED BY <3>3, <3>4
  <2> QED BY <1>2, <2>1, <2>2, <2>3
<1> QED BY <1>4, <1>5

\* Giving out a free chunk keeps the headers, and what used chunks hold.
LEMMA GivenMemory ==
  ASSUME NEW h, NEW limit \in Nat, limit <= Top, Sound(h, limit), NEW i \in DOMAIN h,
         ~ h[i].used, NEW size \in Nat, DOMAIN mem = Cells,
         \A j \in DOMAIN h \ {i} :
           \A a \in h[j].addr .. h[j].addr + Header - 1 : mem[a] = Meta,
         heap' = Place(h, i, size), mem' = Headers(h, i, size), Sound(heap', limit)
  PROVE  /\ DOMAIN mem' = Cells /\ HeadersKept'
         /\ \A p, n \in Nat : UsedIn(h, p, n) => Same(p, n)
<1>1. /\ DOMAIN mem' = Cells
      /\ \A a \in Cells :
           a \notin h[i].addr .. h[i].addr + Header + h[i].size - 1 => mem'[a] = mem[a]
      /\ \A k \in DOMAIN heap' :
           \/ \A a \in heap'[k].addr .. heap'[k].addr + Header - 1 :
                a \in Cells => mem'[a] = Meta
           \/ \E j \in DOMAIN h \ {i} : heap'[k].addr = h[j].addr
  BY HeadersWritten
<1>2. ASSUME NEW k \in DOMAIN heap',
             NEW a \in heap'[k].addr .. heap'[k].addr + Header - 1
      PROVE  mem'[a] = Meta
  <2>1. a \in Cells
    BY HeaderCells
  <2>2. CASE \E j \in DOMAIN h \ {i} : heap'[k].addr = h[j].addr
    <3>1. PICK j \in DOMAIN h \ {i} : heap'[k].addr = h[j].addr
      BY <2>2
    <3>2. a \in h[j].addr .. h[j].addr + Header - 1
      BY <3>1
    <3>3. a \in h[j].addr .. h[j].addr + Header + h[j].size - 1
      BY <3>2, HeaderCells
    <3>4. a \notin h[i].addr .. h[i].addr + Header + h[i].size - 1
      BY <3>1, <3>3, ChunksApart
    <3> QED BY <1>1, <2>1, <3>1, <3>2, <3>4
  <2> QED BY <1>1, <2>1, <2>2
<1>3. ASSUME NEW p \in Nat, NEW n \in Nat, UsedIn(h, p, n) PROVE Same(p, n)
  <2>1. PICK j \in DOMAIN h : h[j].addr + Header = p /\ h[j].used /\ n <= h[j].size
    BY <1>3 DEF UsedIn
  <2>2. ASSUME NEW a \in p .. p + n - 1 PROVE mem'[a] = mem[a]
    <3>1. a \in h[j].addr + Header .. h[j].addr + Header + n - 1
      BY <2>1
    <3>2. a \in Cells /\ a \in h[j].addr .. h[j].addr + Header + h[j].size - 1
      BY <2>1, <3>1, PayloadCells
    <3>3. a \notin h[i].addr .. h[i].addr + Header + h[i].size - 1
      BY <2>1, <3>2, ChunksApart
    <3> QED BY <1>1, <3>2, <3>3
  <2> QED BY <2>2 DEF Same
<1> QED BY <1>1, <1>2, <1>3 DEF HeadersKept

\* malloc keeps the headers and what is held, and lowers the heap limit never.
LEMMA MallocMemory ==
  ASSUME HeapConsistent, MemoryInv, NEW size \in Nat, NEW r \in Malloc(size), Becomes(r)
  PROVE  /\ DOMAIN mem' = Cells /\ HeadersKept'
         /\ heap' # <<>> => heap_limit' <= Top
         /\ heap_limit \in Nat /\ heap_limit' \in Nat /\ heap_limit <= heap_limit'
         /\ \A p, n \in Nat : UsedIn(heap, p, n) => Same(p, n)
<1> DEFINE fit == FirstFit(heap, AllocSize(size))
           asz == AllocSize(size)
<1>1. /\ heap_limit \in Nat /\ Sound(heap, heap_limit)
      /\ heap = <<>> => heap_limit \in {0, Base}
      /\ asz \in Nat
      /\ Base \in Nat /\ Top \in Nat
  BY TileIsSound, AllocSizeEnough, ConstantsAssumption DEF HeapConsistent, TypeOK
<1>2. /\ heap_limit' \in Nat /\ Sound(heap', heap_limit')
      /\ heap' = r.heap /\ mem' = r.mem /\ heap_limit' = r.limit
  BY MallocEffect DEF MallocDone, Becomes
<1>3. /\ DOMAIN mem = Cells
      /\ heap # <<>> => heap_limit <= Top
      /\ \A i \in DOMAIN heap :
           \A a \in heap[i].addr .. heap[i].addr + Header - 1 : mem[a] = Meta
  BY DEF MemoryInv, HeadersKept
<1>4. Limit \in Nat /\ heap_limit <= Limit /\ (heap # <<>> => Limit = heap_limit)
  <2>1. heap # <<>> => heap_limit # 0
    BY <1>1, LimitSound
  <2> QED BY <1>1, <2>1 DEF Limit
<1>5. CASE fit # {}
  <2>1. PICK i \in fit : r = Given(heap, i, size, heap_limit)
    BY <1>5 DEF Malloc
  <2>2. i \in DOMAIN heap /\ ~ heap[i].used /\ heap # <<>>
    BY <2>1 DEF FirstFit, Fits
  <2>3. /\ heap' = Place(heap, i, asz) /\ mem' = Headers(heap, i, asz)
        /\ heap_limit' = heap_limit
    BY <1>2, <2>1 DEF Given
  <2> HIDE DEF asz
  <2>4. Sound(heap', heap_limit)
    BY <1>2, <2>3
  <2>5. /\ DOMAIN mem' = Cells /\ HeadersKept'
        /\ \A p, n \in Nat : UsedIn(heap, p, n) => Same(p, n)
    BY <1>1, <1>3, <2>2, <2>3, <2>4, GivenMemory
  <2> QED BY <1>1, <1>3, <2>2, <2>3, <2>5
<1>6. CASE r.heap = heap /\ r.mem = mem /\ r.limit = Limit
  <2>1. UNCHANGED <<heap, mem>> /\ heap_limit' = Limit
    BY <1>2, <1>6
  <2>2. HeadersKept' /\ \A p, n \in Nat : Same(p, n)
    BY <1>3, <2>1 DEF HeadersKept, Same
  <2> QED BY <1>1, <1>3, <1>4, <2>1, <2>2
<1>7. CASE /\ Limit + ChunkSize(size) <= Top
           /\ r = Given(Extended(size), Len(heap) + 1, size, Limit + ChunkSize(size))
  <2> DEFINE h == Extended(size)
             limit == Limit + ChunkSize(size)
             i == Len(heap) + 1
  <2>1. /\ limit \in Nat /\ Sound(h, limit) /\ i \in DOMAIN h /\ ~ h[i].used
        /\ \A j \in DOMAIN heap : j \in DOMAIN h /\ h[j] = heap[j]
        /\ \A j \in DOMAIN h : j = i \/ j \in DOMAIN heap
    BY ExtendedSound
  <2>2. /\ heap' = Place(h, i, asz) /\ mem' = Headers(h, i, asz) /\ heap_limit' = limit
    BY <1>2, <1>7 DEF Given
  <2>3. limit <= Top
    BY <1>7
  <2>4. heap_limit <= limit
    BY <1>1, <1>4, ChunkSizeEnough
  <2> HIDE DEF h, limit, i, asz
  <2>5. \A j \in DOMAIN h \ {i} :
          \A a \in h[j].addr .. h[j].addr + Header - 1 : mem[a] = Meta
    BY <1>3, <2>1
  <2>6. Sound(heap', limit)
    BY <1>2, <2>2
  <2>7. /\ DOMAIN mem' = Cells /\ HeadersKept'
        /\ \A p, n \in Nat : UsedIn(h, p, n) => Same(p, n)
    BY <1>1, <1>3, <2>1, <2>2, <2>3, <2>5, <2>6, GivenMemory
  <2>8. \A p, n \in Nat : UsedIn(heap, p, n) => UsedIn(h, p, n)
    BY <2>1 DEF UsedIn
  <2> QED BY <1>1, <2>1, <2>2, <2>3, <2>4, <2>7, <2>8
<1>8. \/ fit # {}
      \/ r.heap = heap /\ r.mem = mem /\ r.limit = Limit
      \/ /\ Limit + ChunkSize(size) <= Top
         /\ r = Given(Extended(size), Len(heap) + 1, size, Limit + ChunkSize(size))
  <2>1. Limit + ChunkSize(size) \in Nat
    BY <1>4, ChunkSizeEnough
  <2>2. ~ (Limit + ChunkSize(size) > Top) => Limit + ChunkSize(size) <= Top
    BY <1>1, <2>1
  <2> QED BY <2>2 DEF Malloc
<1> QED BY <1>5, <1>6, <1>7, <1>8

\* Who writes to n bytes of a chunk leaves the headers, and what other chunks hold.
LEMMA PayloadWritten ==
  ASSUME HeapConsistent, MemoryInv, NEW i \in DOMAIN heap,
         NEW p, p = heap[i].addr + Header, NEW n \in Nat, n <= heap[i].size,
         \A a \in Cells : a \notin p .. p + n - 1 => mem'[a] = mem[a]
  PROVE  /\ \A j \in DOMAIN heap :
              \A a \in heap[j].addr .. heap[j].addr + Header - 1 : mem'[a] = Meta
         /\ \A q, m \in Nat : q # p /\ UsedIn(heap, q, m) => Same(q, m)
<1>1. /\ heap_limit \in Nat /\ Sound(heap, heap_limit) /\ heap_limit <= Top
      /\ \A j \in DOMAIN heap :
           \A a \in heap[j].addr .. heap[j].addr + Header - 1 : mem[a] = Meta
  <2>1. heap # <<>>
    BY DEF HeapConsistent, TypeOK
  <2> QED BY <2>1, TileIsSound DEF HeapConsistent, TypeOK, MemoryInv, HeadersKept
<1>2. \A a \in p .. p + n - 1 :
        /\ a \in heap[i].addr .. heap[i].addr + Header + heap[i].size - 1
        /\ a \notin heap[i].addr .. heap[i].addr + Header - 1
  BY <1>1, PayloadCells
<1>3. ASSUME NEW j \in DOMAIN heap,
             NEW a \in heap[j].addr .. heap[j].addr + Header - 1
      PROVE  mem'[a] = Meta
  <2>1. a \in Cells /\ a \in heap[j].addr .. heap[j].addr + Header + heap[j].size - 1
    BY <1>1, HeaderCells
  <2>2. a \notin p .. p + n - 1
    <3>1. CASE j = i
      BY <1>2, <3>1
    <3>2. CASE j # i
      <4>1. a \notin heap[i].addr .. heap[i].addr + Header + heap[i].size - 1
        BY <1>1, <2>1, <3>2, ChunksApart
      <4> QED BY <1>2, <4>1
    <3> QED BY <3>1, <3>2
  <2> QED BY <1>1, <2>1, <2>2
<1>4. ASSUME NEW q \in Nat, NEW m \in Nat, q # p, UsedIn(heap, q, m) PROVE Same(q, m)
  <2>1. PICK j \in DOMAIN heap :
          heap[j].addr + Header = q /\ heap[j].used /\ m <= heap[j].size
    BY <1>4 DEF UsedIn
  <2>2. ASSUME NEW a \in q .. q + m - 1 PROVE mem'[a] = mem[a]
    <3>1. a \in heap[j].addr + Header .. heap[j].addr + Header + m - 1
      BY <2>1
    <3>2. a \in Cells /\ a \in heap[j].addr .. heap[j].addr + Header + heap[j].size - 1
      BY <1>1, <2>1, <3>1, PayloadCells
    <3>3. j # i
      BY <1>4, <2>1
    <3>4. a \notin heap[i].addr .. heap[i].addr + Header + heap[i].size - 1
      BY <1>1, <3>2, <3>3, ChunksApart
    <3> QED BY <1>2, <3>2, <3>4
  <2> QED BY <2>2 DEF Same
<1> QED BY <1>3, <1>4

\* What the invariant says of the holders, thread by thread.
LEMMA Holders ==
  ASSUME Inv
  PROVE  /\ heap_limit \in Nat /\ Sound(heap, heap_limit) /\ HeapConsistent
         /\ \A b \in blocks : /\ b \in BlockType /\ b.addr \in Nat /\ b.size \in Nat
                              /\ b.known \in Nat /\ UsedIn(heap, b.addr, b.size)
         /\ \A t \in Threads : ptr[t] \in Nat /\ asked[t] \in Nat
         /\ \A t \in Threads :
              pc[t] # "idle" /\ ptr[t] # 0 => UsedIn(heap, ptr[t], asked[t])
         /\ \A b, c \in blocks : b.addr = c.addr => b = c
         /\ \A b \in blocks, t \in Threads : pc[t] # "idle" /\ ptr[t] # 0 => b.addr # ptr[t]
         /\ \A t, u \in Threads :
              pc[t] # "idle" /\ ptr[t] # 0 /\ pc[u] # "idle" /\ ptr[u] = ptr[t] => t = u
         /\ \A t \in Threads : pc[t] \in {"copy", "free"} => old[t] \in blocks
         /\ \A t \in Threads : pc[t] = "zero" => ptr[t] # 0
<1>1. HeapConsistent /\ heap_limit \in Nat /\ Sound(heap, heap_limit)
  BY TileIsSound DEF Inv, HeapConsistent, TypeOK
<1>2. Held(heap, blocks, Calling, ptr, asked)
  BY <1>1, HeldIs DEF HeapConsistent
<1>3. ASSUME NEW b \in blocks
      PROVE  b \in BlockType /\ b.addr \in Nat /\ b.size \in Nat /\ b.known \in Nat
  BY <1>1 DEF HeapConsistent, TypeOK, BlockType
<1>4. \A t \in Threads : t \in Calling <=> pc[t] # "idle" /\ ptr[t] # 0
  BY DEF Calling
<1>5. /\ \A t \in Threads : ptr[t] \in Nat /\ asked[t] \in Nat
      /\ \A t \in Threads : pc[t] \in {"copy", "free"} => old[t] \in blocks
  BY <1>1 DEF HeapConsistent, TypeOK, OwnBlocks
<1>6. \A t \in Threads : pc[t] = "zero" => ptr[t] # 0
  BY DEF Inv
<1>7. /\ \A b \in blocks : UsedIn(heap, b.addr, b.size)
      /\ \A t \in Calling : UsedIn(heap, ptr[t], asked[t])
      /\ \A b, c \in blocks : b.addr = c.addr => b = c
      /\ \A t, u \in Calling : ptr[t] = ptr[u] => t = u
      /\ \A b \in blocks, t \in Calling : b.addr # ptr[t]
  BY <1>2 DEF Held
<1>8. \A t \in Threads :
        pc[t] # "idle" /\ ptr[t] # 0 => UsedIn(heap, ptr[t], asked[t])
  BY <1>4, <1>7, Zenon
<1>9. \A b \in blocks, t \in Threads : pc[t] # "idle" /\ ptr[t] # 0 => b.addr # ptr[t]
  BY <1>4, <1>7, Zenon
<1>10. ASSUME NEW t \in Threads, NEW u \in Threads,
              pc[t] # "idle", ptr[t] # 0, pc[u] # "idle", ptr[u] = ptr[t]
       PROVE  t = u
  <2>1. t \in Calling /\ u \in Calling
    BY <1>4, <1>10
  <2> QED BY <1>7, <1>10, <2>1
<1> QED BY <1>1, <1>3, <1>5, <1>6, <1>7, <1>8, <1>9, <1>10

MemoryParts ==
  /\ DOMAIN mem = Cells
  /\ heap # <<>> => heap_limit <= Top
  /\ HeadersKept

\* The call of u is where it was.
Stays(u) ==
  pc'[u] = pc[u] /\ ptr'[u] = ptr[u] /\ asked'[u] = asked[u] /\ old'[u] = old[u]

\* A block keeps its contents when its cells are left alone.
LEMMA BlockStays ==
  ASSUME NEW b \in BlockType, BlockKept(b), Same(b.addr, b.size)
  PROVE  BlockKept(b)'
<1>1. b.addr \in Nat /\ b.size \in Nat /\ b.known \in Nat /\ b.known <= b.size
  BY DEF BlockType, BlockKept
<1>2. \A a \in b.addr .. b.addr + b.known - 1 : a \in b.addr .. b.addr + b.size - 1
  BY <1>1
<1> QED BY <1>1, <1>2 DEF BlockKept, Same

\* ... and so does the new block of a realloc.
LEMMA CallStays ==
  ASSUME Inv, NEW t \in Threads, CallKept(t), Stays(t),
         heap_limit' \in Nat, heap_limit <= heap_limit',
         pc[t] = "free" /\ ptr[t] # 0 => Same(ptr[t], asked[t])
  PROVE  CallKept(t)'
<1>1. ptr[t] \in Nat /\ asked[t] \in Nat /\ heap_limit \in Nat
  BY Holders
<1>4. ASSUME pc[t] = "free", NEW k \in 0 .. asked[t] - 1, k < old[t].known
      PROVE  mem'[ptr[t] + k] = old[t].mark
  <2>1. ptr[t] # 0
    BY <1>1, <1>4 DEF CallKept
  <2>2. ptr[t] + k \in ptr[t] .. ptr[t] + asked[t] - 1
    BY <1>1
  <2>3. mem[ptr[t] + k] = old[t].mark
    BY <1>4 DEF CallKept
  <2> QED BY <1>4, <2>1, <2>2, <2>3 DEF Same
<1>5. pc[t] = "free" /\ ptr[t] = 0 => asked[t] = 0
  BY DEF CallKept
<1> QED BY <1>4, <1>5 DEF CallKept, Stays

\* What a malloc keeps.
LEMMA MallocKeeps ==
  ASSUME Inv, MemoryInv, NEW size \in Nat, NEW r \in Malloc(size), Becomes(r)
  PROVE  /\ MemoryParts' /\ heap_limit' \in Nat
         /\ \A b \in blocks : BlockKept(b)'
         /\ \A u \in Threads : Stays(u) => CallKept(u)'
<1>1. /\ DOMAIN mem' = Cells /\ HeadersKept'
      /\ heap' # <<>> => heap_limit' <= Top
      /\ heap_limit \in Nat /\ heap_limit' \in Nat /\ heap_limit <= heap_limit'
      /\ \A p, n \in Nat : UsedIn(heap, p, n) => Same(p, n)
  BY MallocMemory DEF Inv
<1>2. ASSUME NEW b \in blocks PROVE BlockKept(b)'
  <2>1. b \in BlockType /\ Same(b.addr, b.size) /\ BlockKept(b)
    BY <1>1, Holders DEF MemoryInv
  <2> QED BY <2>1, BlockStays
<1>3. ASSUME NEW u \in Threads, Stays(u) PROVE CallKept(u)'
  <2>1. CallKept(u) /\ (pc[u] = "free" /\ ptr[u] # 0 => Same(ptr[u], asked[u]))
    BY <1>1, Holders DEF MemoryInv
  <2> QED BY <1>1, <1>3, <2>1, CallStays
<1> QED BY <1>1, <1>2, <1>3 DEF MemoryParts

\* A used chunk lies in the heap.
LEMMA UsedCells ==
  ASSUME Inv, MemoryInv, NEW p \in Nat, NEW n \in Nat, UsedIn(heap, p, n)
  PROVE  \A a \in p .. p + n - 1 : a \in Cells
<1>1. PICK i \in DOMAIN heap : heap[i].addr + Header = p /\ n <= heap[i].size
  BY DEF UsedIn
<1>2. heap_limit \in Nat /\ Sound(heap, heap_limit) /\ heap_limit <= Top
  <2>1. heap # <<>>
    BY Holders DEF HeapConsistent, TypeOK
  <2> QED BY <2>1, Holders DEF MemoryInv
<1> QED BY <1>1, <1>2, PayloadCells

\* What a write to the memory at p keeps.
LEMMA WriteKeeps ==
  ASSUME Inv, MemoryInv, NEW p \in Nat, NEW n \in Nat, UsedIn(heap, p, n),
         DOMAIN mem' = Cells,
         \A a \in Cells : a \notin p .. p + n - 1 => mem'[a] = mem[a],
         UNCHANGED <<heap, heap_limit>>
  PROVE  /\ MemoryParts'
         /\ \A b \in blocks : b.addr # p => BlockKept(b)'
         /\ \A u \in Threads : Stays(u) /\ (pc[u] = "free" => ptr[u] # p) => CallKept(u)'
<1>1. PICK i \in DOMAIN heap : heap[i].addr + Header = p /\ n <= heap[i].size
  BY DEF UsedIn
<1>2. /\ \A j \in DOMAIN heap :
           \A a \in heap[j].addr .. heap[j].addr + Header - 1 : mem'[a] = Meta
      /\ \A q, m \in Nat : q # p /\ UsedIn(heap, q, m) => Same(q, m)
  <2>1. HeapConsistent /\ p = heap[i].addr + Header
    BY <1>1 DEF Inv
  <2> QED BY ONLY MemoryInv, i \in DOMAIN heap, n \in Nat, <1>1, <2>1,
                  \A a \in Cells : a \notin p .. p + n - 1 => mem'[a] = mem[a],
                  PayloadWritten
<1>3. MemoryParts'
  BY <1>2 DEF MemoryParts, MemoryInv, HeadersKept
<1>4. ASSUME NEW b \in blocks, b.addr # p PROVE BlockKept(b)'
  <2>1. b \in BlockType /\ Same(b.addr, b.size) /\ BlockKept(b)
    BY <1>2, <1>4, Holders DEF MemoryInv
  <2> QED BY <2>1, BlockStays
<1>5. ASSUME NEW u \in Threads, Stays(u), pc[u] = "free" => ptr[u] # p PROVE CallKept(u)'
  <2>1. CallKept(u) /\ (pc[u] = "free" /\ ptr[u] # 0 => Same(ptr[u], asked[u]))
    BY <1>2, <1>5, Holders DEF MemoryInv
  <2>2. heap_limit \in Nat /\ heap_limit' \in Nat /\ heap_limit <= heap_limit'
    BY Holders
  <2> QED BY <1>5, <2>1, <2>2, CallStays
<1> QED BY <1>3, <1>4, <1>5

\* What the free of a block keeps.
LEMMA FreeKeeps ==
  ASSUME Inv, MemoryInv, NEW b \in blocks, FreeChunk(b.addr), UNCHANGED heap_limit
  PROVE  /\ MemoryParts'
         /\ \A c \in blocks \ {b} : BlockKept(c)'
         /\ \A u \in Threads : Stays(u) => CallKept(u)'
         /\ \A q, m \in Nat : q # b.addr /\ UsedIn(heap, q, m) => Same(q, m)
<1>1. PICK i \in DOMAIN heap : /\ heap[i].addr + Header = b.addr
                               /\ heap' = [heap EXCEPT ![i].used = FALSE]
                               /\ mem' = Write(mem, b.addr, heap[i].size, Junk)
  BY DEF FreeChunk, ChunkAt
<1>2. heap_limit \in Nat /\ Sound(heap, heap_limit) /\ heap \in Seq(Chunk) /\ b.addr \in Nat
  BY Holders DEF HeapConsistent, TypeOK
<1>3. heap[i].size \in Nat
  BY <1>2, ChunkWithin
<1>4. /\ DOMAIN mem' = Cells
      /\ \A a \in Cells : a \notin b.addr .. b.addr + heap[i].size - 1 => mem'[a] = mem[a]
  <2>1. DOMAIN mem = Cells
    BY DEF MemoryInv
  <2> QED BY <1>1, <2>1, WriteFacts
<1>5. /\ \A j \in DOMAIN heap :
           \A a \in heap[j].addr .. heap[j].addr + Header - 1 : mem'[a] = Meta
      /\ \A q, m \in Nat : q # b.addr /\ UsedIn(heap, q, m) => Same(q, m)
  BY <1>1, <1>3, <1>4, PayloadWritten DEF Inv
<1>6. DOMAIN heap' = DOMAIN heap /\ \A j \in DOMAIN heap : heap'[j].addr = heap[j].addr
  <2>1. DOMAIN heap' = DOMAIN heap
    BY <1>1
  <2>2. ASSUME NEW j \in DOMAIN heap PROVE heap'[j].addr = heap[j].addr
    <3>1. heap[j] \in Chunk
      BY <1>2
    <3> QED BY <1>1, <3>1 DEF Chunk
  <2> QED BY <2>1, <2>2
<1>7. MemoryParts'
  <2>1. HeadersKept'
    BY <1>5, <1>6 DEF HeadersKept
  <2>2. heap # <<>> /\ heap_limit <= Top
    BY <1>2 DEF MemoryInv
  <2> QED BY <1>4, <2>1, <2>2 DEF MemoryParts
<1>8. ASSUME NEW c \in blocks \ {b} PROVE BlockKept(c)'
  <2>1. c.addr # b.addr
    BY Holders
  <2>2. c \in BlockType /\ Same(c.addr, c.size) /\ BlockKept(c)
    BY <1>5, <2>1, Holders DEF MemoryInv
  <2> QED BY <2>2, BlockStays
<1>9. ASSUME NEW u \in Threads, Stays(u) PROVE CallKept(u)'
  <2>1. pc[u] = "free" /\ ptr[u] # 0 => b.addr # ptr[u]
    BY Holders
  <2>2. CallKept(u) /\ (pc[u] = "free" /\ ptr[u] # 0 => Same(ptr[u], asked[u]))
    BY <1>5, <2>1, Holders DEF MemoryInv
  <2>3. heap_limit' \in Nat /\ heap_limit <= heap_limit'
    BY <1>2
  <2> QED BY <1>9, <2>2, <2>3, CallStays
<1> QED BY <1>5, <1>7, <1>8, <1>9

\* After Enter(t, ...), the calls of the others are where they were.
LEMMA EnterStays ==
  ASSUME CallsTyped, NEW t \in Threads, NEW to, NEW p, NEW size, NEW b,
         Enter(t, to, p, size, b)
  PROVE  /\ pc'[t] = to /\ ptr'[t] = p /\ asked'[t] = size /\ old'[t] = b
         /\ \A u \in Threads \ {t} : Stays(u)
BY DEF Enter, Stays, CallsTyped

\* A block of which nothing is known, and a call that is neither copying nor freeing.
LEMMA NothingKnown ==
  /\ \A b : b.addr \in Nat /\ b.size \in Nat /\ b.known = 0 => BlockKept(b)
  /\ \A t \in Threads : pc[t] \in {"idle", "zero"} => CallKept(t)
<1>1. ASSUME NEW b, b.addr \in Nat, b.size \in Nat, b.known = 0 PROVE BlockKept(b)
  <2>1. b.addr .. b.addr + b.known - 1 = {}
    BY <1>1
  <2> QED BY <1>1, <2>1 DEF BlockKept
<1>2. \A t \in Threads : pc[t] \in {"idle", "zero"} => CallKept(t)
  BY DEF CallKept
<1> QED BY <1>1, <1>2

\* In the initial state nothing is held.
LEMMA MemoryInit == Init => MemoryInv
<1> SUFFICES ASSUME Init PROVE MemoryInv
  OBVIOUS
<1>1. DOMAIN mem = Cells /\ heap = <<>> /\ DOMAIN heap = {} /\ blocks = {}
  BY DEF Init
<1>2. \A t \in Threads : pc[t] = "idle"
  BY DEF Init
<1>3. HeadersKept
  BY <1>1 DEF HeadersKept
<1>4. \A t \in Threads : CallKept(t)
  BY <1>2, NothingKnown
<1> QED BY <1>1, <1>3, <1>4 DEF MemoryInv

\* What the steps of the program are checked with.
LEMMA MemoryNext ==
  ASSUME MemoryParts', \A b \in blocks' : BlockKept(b)', \A t \in Threads : CallKept(t)'
  PROVE  MemoryInv'
BY DEF MemoryParts, MemoryInv

\* malloc: nothing is known of the new block.
LEMMA MallocCallMemory ==
  ASSUME Inv, Inv', MemoryInv, NEW t \in Threads, MallocCall(t)
  PROVE  MemoryInv'
<1>0. PICK size \in Requests : \E r \in Malloc(size) :
        /\ Becomes(r)
        /\ blocks' = IF r.p = 0 THEN blocks
                     ELSE blocks \cup {Block(t, r.p, size, Zero, 0)}
  BY DEF MallocCall
<1>1. PICK r \in Malloc(size) :
        /\ Becomes(r)
        /\ blocks' = IF r.p = 0 THEN blocks
                     ELSE blocks \cup {Block(t, r.p, size, Zero, 0)}
  BY <1>0
<1>2. size \in Nat /\ UNCHANGED call
  BY ConstantsAssumption DEF MallocCall
<1>3. /\ MemoryParts'
      /\ \A b \in blocks : BlockKept(b)'
      /\ \A u \in Threads : Stays(u) => CallKept(u)'
  BY <1>1, <1>2, MallocKeeps
<1>4. \A u \in Threads : Stays(u)
  BY <1>2 DEF Stays, call
<1>5. ASSUME NEW b \in blocks' PROVE BlockKept(b)'
  <2>1. CASE b = Block(t, r.p, size, Zero, 0)
    <3>1. b.addr \in Nat /\ b.size \in Nat
      BY <1>5 DEF Inv, HeapConsistent, TypeOK, BlockType
    <3>2. b.known = 0
      BY <2>1 DEF Block
    <3>3. b.addr .. b.addr + b.known - 1 = {}
      BY <3>1, <3>2
    <3> QED BY <3>1, <3>2, <3>3 DEF BlockKept
  <2> QED BY <1>1, <1>3, <1>5, <2>1
<1> QED BY <1>3, <1>4, <1>5, MemoryNext

\* calloc, before it clears.
LEMMA CallocCallMemory ==
  ASSUME Inv, Inv', MemoryInv, NEW t \in Threads, CallocCall(t)
  PROVE  MemoryInv'
<1>0. PICK size \in Requests : \E r \in Malloc(size) :
        /\ Becomes(r)
        /\ IF r.p = 0 THEN UNCHANGED call ELSE Enter(t, "zero", r.p, size, NoBlock)
  BY DEF CallocCall
<1>1. PICK r \in Malloc(size) :
        /\ Becomes(r)
        /\ IF r.p = 0 THEN UNCHANGED call ELSE Enter(t, "zero", r.p, size, NoBlock)
  BY <1>0
<1>2. size \in Nat /\ UNCHANGED blocks /\ CallsTyped
  BY ConstantsAssumption DEF CallocCall, Inv, HeapConsistent, TypeOK, CallsTyped
<1>3. /\ MemoryParts'
      /\ \A b \in blocks : BlockKept(b)'
      /\ \A u \in Threads : Stays(u) => CallKept(u)'
  BY <1>1, <1>2, MallocKeeps
<1>4. ASSUME NEW u \in Threads PROVE CallKept(u)'
  <2>1. CASE r.p = 0
    BY <1>1, <1>3, <2>1 DEF Stays, call
  <2>2. CASE r.p # 0
    <3>1. pc'[t] = "zero" /\ \A v \in Threads \ {t} : Stays(v)
      BY <1>1, <1>2, <2>2, EnterStays
    <3>2. CASE u = t
      BY <3>1, <3>2 DEF CallKept
    <3> QED BY <1>3, <3>1, <3>2
  <2> QED BY <2>1, <2>2
<1> QED BY <1>2, <1>3, <1>4, MemoryNext

\* realloc, before it copies.
LEMMA ReallocCallMemory ==
  ASSUME Inv, Inv', MemoryInv, NEW t \in Threads, ReallocCall(t) \/ ReallocNull(t)
  PROVE  MemoryInv'
<1>0. PICK to \in {"copy", "killed"}, size \in Requests : \E r \in Malloc(size) : \E b :
        Becomes(r) /\ Enter(t, to, r.p, size, b)
  <2>1. CASE ReallocCall(t)
    <3>1. PICK b \in OwnBlocks(t), size \in Requests : \E r \in Malloc(size) :
            Becomes(r) /\ Enter(t, "copy", r.p, size, b)
      BY <2>1 DEF ReallocCall
    <3> QED BY <3>1
  <2>2. CASE ReallocNull(t)
    <3>1. PICK size \in Requests : \E r \in Malloc(size) :
            Becomes(r) /\ Enter(t, "killed", r.p, size, NoBlock)
      BY <2>2 DEF ReallocNull
    <3> QED BY <3>1
  <2> QED BY <2>1, <2>2
<1>1. PICK r \in Malloc(size) : Becomes(r) /\ \E b : Enter(t, to, r.p, size, b)
  BY <1>0
<1>2. size \in Nat /\ UNCHANGED blocks /\ CallsTyped
  BY ConstantsAssumption DEF ReallocCall, ReallocNull, Inv, HeapConsistent, TypeOK, CallsTyped
<1>3. /\ MemoryParts' /\ heap_limit' \in Nat
      /\ \A c \in blocks : BlockKept(c)'
      /\ \A u \in Threads : Stays(u) => CallKept(u)'
  BY <1>1, <1>2, MallocKeeps
<1>4. pc'[t] = to /\ \A u \in Threads \ {t} : Stays(u)
  BY <1>1, <1>2, EnterStays
<1>5. CallKept(t)'
  BY <1>4 DEF CallKept
<1> QED BY <1>2, <1>3, <1>4, <1>5, MemoryNext

\* calloc clears the new block, which nobody else writes to.
LEMMA CallocClearMemory ==
  ASSUME Inv, Inv', MemoryInv, NEW t \in Threads, CallocClear(t)
  PROVE  MemoryInv'
<1>a. PICK p, n, new : p = ptr[t] /\ n = asked[t] /\ new = Block(t, p, n, Zero, n)
  BY Zenon
<1>1. /\ pc[t] = "zero" /\ mem' = Write(mem, p, n, Zero)
      /\ blocks' = blocks \cup {new}
      /\ Enter(t, "idle", 0, 0, NoBlock) /\ UNCHANGED <<heap, heap_limit>>
  BY <1>a DEF CallocClear, Cleared, Return
<1>2. p \in Nat /\ n \in Nat /\ p # 0 /\ UsedIn(heap, p, n)
  BY <1>a, <1>1, Holders
<1>3. /\ DOMAIN mem' = Cells
      /\ \A a \in Cells : mem'[a] = IF a \in p .. p + n - 1 THEN Zero ELSE mem[a]
  <2>1. DOMAIN mem = Cells
    BY DEF MemoryInv
  <2> QED BY <1>1, <2>1, WriteFacts
<1>4. CallsTyped
  BY DEF Inv, HeapConsistent, TypeOK, CallsTyped
<1>5. pc'[t] = "idle" /\ \A u \in Threads \ {t} : Stays(u)
  BY <1>1, <1>4, EnterStays
<1>6. new.addr = p /\ new.size = n /\ new.known = n /\ new.mark = Zero
  BY <1>a DEF Block
<1>7. \A u \in Threads \ {t} : pc[u] = "free" => ptr[u] # p
  BY <1>a, <1>1, <1>2, Holders
<1>8. \A b \in blocks : b.addr # p
  BY <1>a, <1>1, <1>2, Holders
<1>9. \A a \in p .. p + n - 1 : a \in Cells
  BY <1>2, UsedCells
<1>10. /\ MemoryParts'
       /\ \A b \in blocks : b.addr # p => BlockKept(b)'
       /\ \A u \in Threads : Stays(u) /\ (pc[u] = "free" => ptr[u] # p) => CallKept(u)'
  BY <1>1, <1>2, <1>3, WriteKeeps
<1>11. BlockKept(new)'
  BY <1>2, <1>3, <1>6, <1>9 DEF BlockKept
<1>12. \A b \in blocks' : BlockKept(b)'
  BY <1>1, <1>8, <1>10, <1>11
<1>13. \A u \in Threads : CallKept(u)'
  <2>1. CallKept(t)'
    BY <1>5 DEF CallKept
  <2> QED BY <1>5, <1>7, <1>10, <2>1
<1> QED BY <1>10, <1>12, <1>13, MemoryNext

\* free: the others keep theirs.
LEMMA FreeCallMemory ==
  ASSUME Inv, Inv', MemoryInv, NEW t \in Threads, FreeCall(t)
  PROVE  MemoryInv'
<1>1. PICK b \in OwnBlocks(t) : FreeChunk(b.addr) /\ blocks' = blocks \ {b}
  BY DEF FreeCall
<1>2. b \in blocks /\ UNCHANGED heap_limit /\ \A u \in Threads : Stays(u)
  BY <1>1 DEF FreeCall, OwnBlocks, call, Stays
<1>3. /\ MemoryParts'
      /\ \A c \in blocks \ {b} : BlockKept(c)'
      /\ \A u \in Threads : Stays(u) => CallKept(u)'
  BY <1>1, <1>2, FreeKeeps
<1> QED BY <1>1, <1>2, <1>3, MemoryNext

\* The copy of realloc: the new block has what the old one has.
LEMMA ReallocCopyMemory ==
  ASSUME Inv, Inv', MemoryInv, NEW t \in Threads, ReallocCopy(t)
  PROVE  MemoryInv'
<1>a. PICK b, n, to : b = old[t] /\ n = asked[t] /\ to = ptr[t]
  BY Zenon
<1>1. /\ pc[t] = "copy" /\ UNCHANGED <<heap, heap_limit, blocks, ptr, asked, old>>
      /\ IF n > 0 /\ (to = 0 \/ b.addr + n > heap_limit)
         THEN pc' = [pc EXCEPT ![t] = "killed"] /\ UNCHANGED mem
         ELSE /\ pc' = [pc EXCEPT ![t] = "free"]
              /\ mem' = [a \in Cells |->
                           IF a \notin to .. to + n - 1 THEN mem[a]
                           ELSE IF a - to < b.known THEN mem[b.addr + (a - to)]
                           ELSE Junk]
  BY <1>a DEF ReallocCopy, Copied
<1>2. /\ b \in blocks /\ b.addr \in Nat /\ b.known \in Nat /\ n \in Nat /\ to \in Nat
      /\ heap_limit \in Nat /\ BlockKept(b) /\ CallKept(t)
  BY <1>a, <1>1, Holders DEF MemoryInv
<1>3. \A u \in Threads \ {t} : Stays(u)
  BY <1>1 DEF Stays, Inv, HeapConsistent, TypeOK
<1>4. ptr'[t] = to /\ asked'[t] = n /\ old'[t] = b /\ pc \in [Threads -> PC]
  BY <1>a, <1>1 DEF Inv, HeapConsistent, TypeOK
<1>5. CASE n > 0 /\ (to = 0 \/ b.addr + n > heap_limit)
  <2>1. pc'[t] = "killed" /\ mem' = mem
    BY <1>1, <1>4, <1>5
  <2>3. CallKept(t)'
    BY <2>1 DEF CallKept
  <2>4. \A c \in blocks' : BlockKept(c)'
    BY <1>1, <2>1 DEF MemoryInv, BlockKept
  <2>5. \A u \in Threads \ {t} : CallKept(u)'
    BY <1>1, <1>3, <2>1 DEF MemoryInv, CallKept, Stays
  <2>6. MemoryParts'
    BY <1>1, <2>1 DEF MemoryInv, MemoryParts, HeadersKept
  <2> QED BY <2>3, <2>4, <2>5, <2>6, MemoryNext
<1>6. CASE n = 0
  <2>1. pc'[t] = "free" /\ DOMAIN mem' = Cells /\ \A a \in Cells : mem'[a] = mem[a]
    BY <1>1, <1>2, <1>4, <1>6
  <2>2. \A q, m \in Nat : UsedIn(heap, q, m) => Same(q, m)
    BY <2>1, UsedCells DEF Same
  <2>3. CallKept(t)'
    BY <1>4, <1>6, <2>1 DEF CallKept
  <2>4. ASSUME NEW c \in blocks PROVE BlockKept(c)'
    <3>1. c \in BlockType /\ Same(c.addr, c.size) /\ BlockKept(c)
      BY <2>2, Holders DEF MemoryInv
    <3> QED BY <3>1, BlockStays
  <2>5. ASSUME NEW u \in Threads \ {t} PROVE CallKept(u)'
    <3>1. CallKept(u) /\ (pc[u] = "free" /\ ptr[u] # 0 => Same(ptr[u], asked[u]))
      BY <2>2, Holders DEF MemoryInv
    <3>2. Stays(u) /\ heap_limit' \in Nat /\ heap_limit <= heap_limit'
      BY <1>1, <1>2, <1>3
    <3> QED BY <3>1, <3>2, CallStays
  <2>6. ASSUME NEW i \in DOMAIN heap, NEW a \in heap[i].addr .. heap[i].addr + Header - 1
        PROVE  mem'[a] = Meta
    <3>1. heap # <<>>
      BY Holders DEF HeapConsistent, TypeOK
    <3>2. a \in Cells
      BY <3>1, Holders, HeaderCells DEF MemoryInv
    <3> QED BY <2>1, <3>2 DEF MemoryInv, HeadersKept
  <2>7. MemoryParts'
    BY <1>1, <2>1, <2>6 DEF MemoryInv, MemoryParts, HeadersKept
  <2> QED BY <1>1, <2>3, <2>4, <2>5, <2>7, MemoryNext
<1>7. CASE n > 0 /\ to # 0 /\ ~ (b.addr + n > heap_limit)
  <2>1. /\ pc'[t] = "free" /\ DOMAIN mem' = Cells
        /\ \A a \in Cells : a \notin to .. to + n - 1 => mem'[a] = mem[a]
        /\ \A a \in Cells : a \in to .. to + n - 1 /\ a - to < b.known =>
             mem'[a] = mem[b.addr + (a - to)]
    BY <1>1, <1>4, <1>7
  <2>2. UsedIn(heap, to, n)
    BY <1>a, <1>1, <1>7, Holders
  <2>3. /\ \A c \in blocks : c.addr # to
        /\ \A u \in Threads \ {t} : pc[u] = "free" => ptr[u] # to
    BY <1>a, <1>1, <1>7, Holders
  <2>4. /\ MemoryParts'
        /\ \A c \in blocks : c.addr # to => BlockKept(c)'
        /\ \A u \in Threads : Stays(u) /\ (pc[u] = "free" => ptr[u] # to) => CallKept(u)'
    BY <1>1, <1>2, <2>1, <2>2, WriteKeeps
  <2>5. \A k \in 0 .. n - 1 : k < b.known => mem'[to + k] = b.mark
    <3> SUFFICES ASSUME NEW k \in 0 .. n - 1, k < b.known PROVE mem'[to + k] = b.mark
      OBVIOUS
    <3>1. to + k \in to .. to + n - 1 /\ (to + k) - to = k
      BY <1>2
    <3>2. to + k \in Cells
      BY <1>2, <2>2, <3>1, UsedCells
    <3>3. mem'[to + k] = mem[b.addr + k]
      BY <2>1, <3>1, <3>2
    <3>4. b.addr + k \in b.addr .. b.addr + b.known - 1
      BY <1>2
    <3> QED BY <1>2, <3>3, <3>4 DEF BlockKept
  <2>6. CallKept(t)'
    BY <1>4, <1>7, <2>1, <2>5 DEF CallKept
  <2>7. \A u \in Threads : CallKept(u)'
    BY <1>3, <2>3, <2>4, <2>6
  <2> QED BY <1>1, <2>3, <2>4, <2>7, MemoryNext
<1> QED BY <1>2, <1>5, <1>6, <1>7

\* The old block is freed, and the new one has what it had.
LEMMA ReallocFreeMemory ==
  ASSUME Inv, Inv', MemoryInv, NEW t \in Threads, ReallocFree(t)
  PROVE  MemoryInv'
<1>a. PICK b, n, p, known, new :
        /\ b = old[t] /\ n = asked[t] /\ p = ptr[t]
        /\ known = IF b.known < n THEN b.known ELSE n
        /\ new = Block(t, p, n, b.mark, known)
  BY Zenon
<1>1. /\ pc[t] = "free" /\ FreeChunk(b.addr) /\ UNCHANGED heap_limit
      /\ blocks' = (blocks \ {b}) \cup (IF p = 0 THEN {} ELSE {new})
      /\ Enter(t, "idle", 0, 0, NoBlock)
  BY <1>a DEF ReallocFree, Freed, Return
<1>2. /\ b \in blocks /\ b.addr \in Nat /\ b.known \in Nat /\ n \in Nat /\ p \in Nat
      /\ CallKept(t)
      /\ p # 0 => p # b.addr /\ UsedIn(heap, p, n)
  BY <1>a, <1>1, Holders DEF MemoryInv
<1>3. /\ MemoryParts'
      /\ \A c \in blocks \ {b} : BlockKept(c)'
      /\ \A u \in Threads : Stays(u) => CallKept(u)'
      /\ \A q, m \in Nat : q # b.addr /\ UsedIn(heap, q, m) => Same(q, m)
  BY <1>1, <1>2, FreeKeeps
<1>4. CallsTyped
  BY DEF Inv, HeapConsistent, TypeOK, CallsTyped
<1>5. pc'[t] = "idle" /\ \A u \in Threads \ {t} : Stays(u)
  BY <1>1, <1>4, EnterStays
<1>6. new.addr = p /\ new.size = n /\ new.known = known /\ new.mark = b.mark
  BY <1>a DEF Block
<1>7. known \in Nat /\ known <= n /\ known <= b.known
  BY <1>a, <1>2
<1>8. ASSUME p # 0 PROVE BlockKept(new)'
  <2> SUFFICES ASSUME NEW a \in p .. p + known - 1 PROVE mem'[a] = b.mark
    BY <1>6, <1>7 DEF BlockKept
  <2>1. /\ a - p \in 0 .. n - 1 /\ a - p < b.known /\ p + (a - p) = a
        /\ a \in p .. p + n - 1
    BY <1>2, <1>7
  <2>2. mem[p + (a - p)] = b.mark
    BY <1>a, <1>1, <1>2, <2>1 DEF CallKept
  <2>3. mem'[a] = mem[a]
    BY <1>2, <1>3, <1>8, <2>1 DEF Same
  <2> QED BY <2>1, <2>2, <2>3
<1>9. \A c \in blocks' : BlockKept(c)'
  BY <1>1, <1>3, <1>8
<1>10. \A u \in Threads : CallKept(u)'
  <2>1. CallKept(t)'
    BY <1>5 DEF CallKept
  <2> QED BY <1>3, <1>5, <2>1
<1> QED BY <1>3, <1>9, <1>10, MemoryNext

\* The owner fills its block.
LEMMA FillMemory ==
  ASSUME Inv, Inv', MemoryInv, NEW t \in Threads, Fill(t)
  PROVE  MemoryInv'
<1>1. PICK b \in OwnBlocks(t) :
        /\ mem' = Write(mem, b.addr, b.size, t)
        /\ blocks' = (blocks \ {b}) \cup {Block(t, b.addr, b.size, t, b.size)}
  BY DEF Fill
<1>a. PICK new : new = Block(t, b.addr, b.size, t, b.size)
  BY Zenon
<1>2. UNCHANGED <<heap, heap_limit>> /\ b \in blocks /\ \A u \in Threads : Stays(u)
  BY <1>1 DEF Fill, OwnBlocks, call, Stays
<1>3. b.addr \in Nat /\ b.size \in Nat /\ UsedIn(heap, b.addr, b.size)
  BY <1>2, Holders
<1>4. /\ DOMAIN mem' = Cells
      /\ \A a \in Cells : mem'[a] = IF a \in b.addr .. b.addr + b.size - 1 THEN t ELSE mem[a]
  <2>1. DOMAIN mem = Cells
    BY DEF MemoryInv
  <2> QED BY <1>1, <2>1, WriteFacts
<1>5. /\ MemoryParts'
      /\ \A c \in blocks : c.addr # b.addr => BlockKept(c)'
      /\ \A u \in Threads : Stays(u) /\ (pc[u] = "free" => ptr[u] # b.addr) => CallKept(u)'
  BY <1>2, <1>3, <1>4, WriteKeeps
<1>6. \A u \in Threads : CallKept(u)'
  <2> SUFFICES ASSUME NEW u \in Threads PROVE CallKept(u)'
    OBVIOUS
  <2>1. CASE pc[u] = "free" => ptr[u] # b.addr
    BY <1>2, <1>5, <2>1
  <2>2. CASE pc[u] = "free" /\ ptr[u] = b.addr
    <3>1. ptr[u] = 0
      BY <1>2, <2>2, Holders
    <3>2. asked[u] = 0
      BY <2>2, <3>1 DEF MemoryInv, CallKept
    <3> QED BY <1>2, <2>2, <3>2 DEF CallKept, Stays
  <2> QED BY <2>1, <2>2
<1>7. BlockKept(new)'
  <2>1. /\ new.addr = b.addr /\ new.size = b.size /\ new.known = b.size /\ new.mark = t
    BY <1>a DEF Block
  <2>2. \A a \in b.addr .. b.addr + b.size - 1 : a \in Cells
    BY <1>3, UsedCells
  <2> QED BY <1>3, <1>4, <2>1, <2>2 DEF BlockKept
<1>8. \A c \in blocks' : BlockKept(c)'
  <2> SUFFICES ASSUME NEW c \in blocks', c # new PROVE BlockKept(c)'
    BY <1>7
  <2>1. c \in blocks /\ c # b
    BY <1>1, <1>a
  <2>2. c.addr # b.addr
    BY <1>2, <2>1, Holders
  <2> QED BY <1>5, <2>1, <2>2
<1> QED BY <1>5, <1>6, <1>8, MemoryNext

\* Every step keeps what the memory holds.
LEMMA MemoryStep == Inv /\ Inv' /\ MemoryInv /\ [Next]_vars => MemoryInv'
<1> SUFFICES ASSUME Inv, Inv', MemoryInv, [Next]_vars PROVE MemoryInv'
  OBVIOUS
<1>1. CASE \E t \in Threads :
             \/ MallocCall(t) \/ CallocCall(t) \/ CallocClear(t) \/ FreeCall(t)
             \/ ReallocCall(t) \/ ReallocNull(t) \/ ReallocCopy(t) \/ ReallocFree(t)
             \/ Fill(t)
  BY <1>1, MallocCallMemory, CallocCallMemory, CallocClearMemory, FreeCallMemory,
     ReallocCallMemory, ReallocCopyMemory, ReallocFreeMemory, FillMemory
<1>2. CASE UNCHANGED <<heap, heap_limit, mem, blocks, call>>
  <2>1. UNCHANGED <<heap, heap_limit, mem, blocks, pc, ptr, asked, old>>
    BY <1>2 DEF call
  <2> QED BY <2>1 DEF MemoryInv, HeadersKept, BlockKept, CallKept
<1>3. CASE StateCall \/ StateLook \/ StateCount \/ StateMove \/ StateUsed
  BY <1>2, <1>3 DEF StateCall, StateLook, StateCount, StateMove, StateUsed
<1>4. CASE UNCHANGED vars
  BY <1>2, <1>4 DEF vars
<1> QED BY <1>1, <1>3, <1>4 DEF Next

\* So it holds it in every reachable state.
LEMMA MemoryAlways == Spec => []MemoryInv
<1>1. Inv /\ Inv' /\ MemoryInv /\ [Next]_vars => MemoryInv'
  BY MemoryStep
<1> QED BY <1>1, MemoryInit, Invariance, PTL DEF Spec

\* Whatever the kernel refuses and however long a copy is: nobody writes into the block
\* of another or into the list; what a program put into a block stays, through realloc
\* too.
THEOREM ContentsAlways == Spec => []ContentsKept
<1>1. MemoryInv => ContentsKept
  BY DEF MemoryInv, ContentsKept, BlockKept, HeadersKept
<1> QED BY <1>1, MemoryAlways, PTL

-----------------------------------------------------------------------------
(* What tb_heap_state counts                                               *)

WalkType ==
  [at : {"look", "count", "move", "done"}, cursor : Nat, chunk : Nat, total : Nat,
   allocated : Nat, before : Nat, kept : SUBSET Nat]

\* The pointers of K up to the one of the chunk at address a.
UpTo(K, a) == {p \in K : p <= a + Header}

\* a is the address of chunk i of h; the head of the list is its chunk 0.
IsAt(h, i, a) ==
  i \in 0 .. Len(h) /\ (i = 0 => a = 0) /\ (i # 0 => h[i].addr = a)

\* A walk w over the list h, which was counted up to the cursor: no more chunks than
\* there are before the cursor, as many as there were, and all that were in use.
Counted(w, h) ==
  /\ w.at = "look" => \E i \in 0 .. Len(h) :
       /\ IsAt(h, i, w.cursor)
       /\ w.total <= i /\ w.before <= w.total + (Len(h) - i)
       /\ Cardinality(UpTo(w.kept, w.cursor)) <= w.allocated
  /\ w.at = "count" => \E i, j \in 0 .. Len(h) :
       /\ i < j /\ IsAt(h, i, w.cursor) /\ IsAt(h, j, w.chunk)
       /\ w.total <= i /\ w.before <= w.total + 1 + (Len(h) - j)
       /\ UpTo(w.kept, w.chunk) \subseteq UpTo(w.kept, w.cursor) \cup {w.chunk + Header}
       /\ Cardinality(UpTo(w.kept, w.cursor)) <= w.allocated
  /\ w.at = "move" => \E i, j \in 0 .. Len(h) :
       /\ i < j /\ IsAt(h, i, w.cursor) /\ IsAt(h, j, w.chunk)
       /\ w.total <= i + 1 /\ w.before <= w.total + (Len(h) - j)
       /\ Cardinality(UpTo(w.kept, w.chunk)) <= w.allocated
  /\ w.at = "done" => /\ w.before <= w.total /\ w.total <= Len(h)
                      /\ Cardinality(w.kept) <= w.allocated

\* What it takes for in use is a block of B.
WalkSound(w, h, B) ==
  /\ w \in WalkType /\ IsFiniteSet(w.kept)
  /\ \A p \in w.kept : \E b \in B : b.addr = p
  /\ w.allocated <= w.total
  /\ Counted(w, h)

WalkInv ==
  /\ IsFiniteSet(blocks)
  /\ walk # NoWalk => WalkSound(walk, heap, blocks)

\* The list h has become g: every chunk is still there, with as many chunks in front of
\* it and behind it as there were, if not more.
Longer(h, g) ==
  /\ Len(h) \in Nat /\ Len(g) \in Nat /\ Len(h) <= Len(g)
  /\ \A k \in 1 .. Len(h) : \E l \in 1 .. Len(g) :
       g[l].addr = h[k].addr /\ k <= l /\ Len(h) - k <= Len(g) - l

\* The walk w has become v and the blocks B have become C: w counts on no block that is
\* gone.
Forgotten(w, v, B, C) ==
  \/ v = w /\ \A b \in B : \E c \in C : c.addr = b.addr
  \/ \E p : /\ v = [w EXCEPT !.kept = @ \ {p}]
            /\ \A b \in B : b.addr = p \/ \E c \in C : c.addr = b.addr

\* What the steps of others leave of a walk.
LEMMA ForgottenFacts ==
  ASSUME NEW w, NEW h, NEW B, WalkSound(w, h, B), NEW v, NEW C, Forgotten(w, v, B, C)
  PROVE  /\ v \in WalkType /\ v.kept \subseteq w.kept
         /\ v.at = w.at /\ v.cursor = w.cursor /\ v.chunk = w.chunk /\ v.total = w.total
         /\ v.allocated = w.allocated /\ v.before = w.before
         /\ \A p \in v.kept : \E c \in C : c.addr = p
<1>1. w \in WalkType /\ \A p \in w.kept : \E b \in B : b.addr = p
  BY DEF WalkSound
<1>2. CASE v = w /\ \A b \in B : \E c \in C : c.addr = b.addr
  BY <1>1, <1>2
<1>3. ASSUME NEW p, v = [w EXCEPT !.kept = @ \ {p}],
             \A b \in B : b.addr = p \/ \E c \in C : c.addr = b.addr
      PROVE  /\ v \in WalkType /\ v.kept \subseteq w.kept
             /\ v.at = w.at /\ v.cursor = w.cursor /\ v.chunk = w.chunk
             /\ v.total = w.total
             /\ v.allocated = w.allocated /\ v.before = w.before
             /\ \A q \in v.kept : \E c \in C : c.addr = q
  <2>1. /\ v \in WalkType /\ v.kept = w.kept \ {p}
        /\ v.at = w.at /\ v.cursor = w.cursor /\ v.chunk = w.chunk /\ v.total = w.total
        /\ v.allocated = w.allocated /\ v.before = w.before
    BY <1>1, <1>3 DEF WalkType
  <2>2. \A q \in v.kept : \E c \in C : c.addr = q
    BY <1>1, <1>3, <2>1
  <2> QED BY <2>1, <2>2
<1> QED BY <1>2, <1>3 DEF Forgotten

\* A subset counts less.
LEMMA CountsLess ==
  ASSUME NEW K, IsFiniteSet(K), NEW L, L \subseteq K, NEW a
  PROVE  /\ IsFiniteSet(L) /\ IsFiniteSet(UpTo(K, a)) /\ IsFiniteSet(UpTo(L, a))
         /\ UpTo(L, a) \subseteq UpTo(K, a)
         /\ Cardinality(UpTo(L, a)) \in Nat /\ Cardinality(UpTo(K, a)) \in Nat
         /\ Cardinality(L) \in Nat /\ Cardinality(K) \in Nat
         /\ Cardinality(UpTo(L, a)) <= Cardinality(UpTo(K, a))
         /\ Cardinality(L) <= Cardinality(K)
<1>1. UpTo(L, a) \subseteq UpTo(K, a) /\ UpTo(K, a) \subseteq K
  BY DEF UpTo
<1>2. IsFiniteSet(L) /\ Cardinality(L) <= Cardinality(K)
  BY FS_Subset
<1>3. IsFiniteSet(UpTo(K, a))
  BY <1>1, FS_Subset
<1>4. IsFiniteSet(UpTo(L, a)) /\ Cardinality(UpTo(L, a)) <= Cardinality(UpTo(K, a))
  BY <1>1, <1>3, FS_Subset
<1> QED BY <1>1, <1>2, <1>3, <1>4, FS_CardinalityType

\* Where a chunk of h is in g, and that chunks stay in their order.
LEMMA LongerAt ==
  ASSUME NEW h, NEW g, Longer(h, g), NEW i, NEW a, IsAt(h, i, a)
  PROVE  \E l \in 0 .. Len(g) :
           IsAt(g, l, a) /\ i <= l /\ Len(h) - i <= Len(g) - l
<1>1. Len(h) \in Nat /\ Len(g) \in Nat /\ Len(h) <= Len(g) /\ i \in 0 .. Len(h)
  BY DEF Longer, IsAt
<1>2. CASE i = 0
  <2>1. IsAt(g, 0, a) /\ 0 \in 0 .. Len(g)
    BY <1>1, <1>2 DEF IsAt
  <2> QED BY <1>1, <1>2, <2>1
<1>3. CASE i # 0
  <2>1. i \in 1 .. Len(h) /\ h[i].addr = a
    BY <1>1, <1>3 DEF IsAt
  <2>2. PICK l \in 1 .. Len(g) :
          g[l].addr = h[i].addr /\ i <= l /\ Len(h) - i <= Len(g) - l
    BY <2>1 DEF Longer
  <2>3. IsAt(g, l, a) /\ l \in 0 .. Len(g)
    BY <1>1, <2>1, <2>2 DEF IsAt
  <2> QED BY <2>2, <2>3
<1> QED BY <1>2, <1>3

\* Of two places in sound lists, the lower one has the lower address.
LEMMA AtOrder ==
  ASSUME NEW h, NEW lh \in Nat, Sound(h, lh), NEW g, NEW lg \in Nat, Sound(g, lg),
         NEW i, NEW j, i < j, NEW a, NEW b, IsAt(h, i, a), IsAt(h, j, b),
         NEW k, NEW l, IsAt(g, k, a), IsAt(g, l, b)
  PROVE  k < l /\ a < b /\ a \in Nat /\ b \in Nat
<1>1. /\ i \in 0 .. Len(h) /\ j \in 0 .. Len(h) /\ Len(h) \in Nat /\ DOMAIN h = 1 .. Len(h)
      /\ k \in 0 .. Len(g) /\ l \in 0 .. Len(g) /\ Len(g) \in Nat /\ DOMAIN g = 1 .. Len(g)
  BY DEF IsAt, Sound
<1>2. j \in DOMAIN h /\ h[j].addr = b
  BY <1>1 DEF IsAt
<1>3. b \in Nat /\ Base <= b
  BY <1>2, ChunkWithin
<1>4. i # 0 => i \in DOMAIN h /\ h[i].addr = a
  BY <1>1 DEF IsAt
<1>5. i = 0 => a = 0
  BY DEF IsAt
<1>6. a \in Nat /\ a < b
  <2>1. CASE i = 0
    BY <1>3, <1>5, <2>1, Constants
  <2>2. CASE i # 0
    <3>1. h[i].addr \in Nat /\ h[i].size \in Nat
      BY <1>4, <2>2, ChunkWithin
    <3>2. h[i].addr + Header + h[i].size <= h[j].addr
      BY <1>2, <1>4, <2>2 DEF Sound
    <3> QED BY <1>2, <1>3, <1>4, <2>2, <3>1, <3>2, Constants
  <2> QED BY <2>1, <2>2
<1>7. l # 0 /\ l \in DOMAIN g /\ g[l].addr = b
  BY <1>1, <1>3, Constants DEF IsAt
<1>8. k < l
  <2>1. CASE k = 0
    BY <1>1, <1>7, <2>1
  <2>2. CASE k # 0
    <3>1. k \in DOMAIN g /\ g[k].addr = a
      BY <1>1, <2>2 DEF IsAt
    <3>2. g[l].addr \in Nat /\ g[l].size \in Nat
      BY <1>7, ChunkWithin
    <3>3. ~ (l < k)
      <4> SUFFICES ASSUME l < k PROVE FALSE
        OBVIOUS
      <4>1. g[l].addr + Header + g[l].size <= g[k].addr
        BY <1>7, <3>1 DEF Sound
      <4> QED BY <1>6, <1>7, <3>1, <3>2, <4>1, Constants
    <3>4. k # l
      BY <1>3, <1>6, <1>7, <3>1
    <3> QED BY <1>1, <3>3, <3>4
  <2> QED BY <2>1, <2>2
<1> QED BY <1>3, <1>6, <1>8

\* What others do to the list while a walk is in progress keeps what it counts.
LEMMA WalkStays ==
  ASSUME NEW h, NEW lh \in Nat, Sound(h, lh), NEW g, NEW lg \in Nat, Sound(g, lg),
         Longer(h, g), NEW w, NEW B, WalkSound(w, h, B),
         NEW v, NEW C, Forgotten(w, v, B, C)
  PROVE  WalkSound(v, g, C)
<1>1. /\ v \in WalkType /\ v.kept \subseteq w.kept
      /\ v.at = w.at /\ v.cursor = w.cursor /\ v.chunk = w.chunk /\ v.total = w.total
      /\ v.allocated = w.allocated /\ v.before = w.before
      /\ \A p \in v.kept : \E c \in C : c.addr = p
  BY ForgottenFacts
<1>2. /\ w \in WalkType /\ IsFiniteSet(w.kept) /\ w.allocated <= w.total /\ Counted(w, h)
  BY DEF WalkSound
<1>3. /\ v.cursor \in Nat /\ v.chunk \in Nat /\ v.total \in Nat /\ v.allocated \in Nat
      /\ v.before \in Nat
  BY <1>1 DEF WalkType
<1>4. IsFiniteSet(v.kept)
  BY <1>1, <1>2, CountsLess
<1>5. ASSUME NEW a
      PROVE  /\ UpTo(v.kept, a) \subseteq UpTo(w.kept, a)
             /\ Cardinality(UpTo(w.kept, a)) <= v.allocated =>
                  Cardinality(UpTo(v.kept, a)) <= v.allocated
  <2>1. /\ UpTo(v.kept, a) \subseteq UpTo(w.kept, a)
        /\ Cardinality(UpTo(v.kept, a)) \in Nat /\ Cardinality(UpTo(w.kept, a)) \in Nat
        /\ Cardinality(UpTo(v.kept, a)) <= Cardinality(UpTo(w.kept, a))
    BY <1>1, <1>2, CountsLess
  <2> QED BY <1>3, <2>1
<1>6. /\ Len(h) \in Nat /\ Len(g) \in Nat /\ Len(h) <= Len(g)
  BY DEF Longer
<1>7. CASE w.at = "look"
  <2>1. PICK i \in 0 .. Len(h) :
          /\ IsAt(h, i, w.cursor)
          /\ w.total <= i /\ w.before <= w.total + (Len(h) - i)
          /\ Cardinality(UpTo(w.kept, w.cursor)) <= w.allocated
    BY <1>2, <1>7 DEF Counted
  <2>2. PICK l \in 0 .. Len(g) :
          IsAt(g, l, w.cursor) /\ i <= l /\ Len(h) - i <= Len(g) - l
    BY <2>1, LongerAt
  <2>3. v.total <= l /\ v.before <= v.total + (Len(g) - l)
    BY <1>1, <1>3, <1>6, <2>1, <2>2, SMTT(60)
  <2>4. Cardinality(UpTo(v.kept, v.cursor)) <= v.allocated
    BY <1>1, <1>5, <2>1
  <2>5. Counted(v, g)
    BY <1>1, <1>7, <2>2, <2>3, <2>4 DEF Counted
  <2> QED BY <1>1, <1>2, <1>4, <2>5 DEF WalkSound
<1>8. CASE w.at = "count"
  <2>1. PICK i, j \in 0 .. Len(h) :
          /\ i < j /\ IsAt(h, i, w.cursor) /\ IsAt(h, j, w.chunk)
          /\ w.total <= i /\ w.before <= w.total + 1 + (Len(h) - j)
          /\ UpTo(w.kept, w.chunk) \subseteq UpTo(w.kept, w.cursor) \cup {w.chunk + Header}
          /\ Cardinality(UpTo(w.kept, w.cursor)) <= w.allocated
    BY <1>2, <1>8 DEF Counted
  <2>2. PICK k \in 0 .. Len(g) :
          IsAt(g, k, w.cursor) /\ i <= k /\ Len(h) - i <= Len(g) - k
    BY <2>1, LongerAt
  <2>3. PICK l \in 0 .. Len(g) :
          IsAt(g, l, w.chunk) /\ j <= l /\ Len(h) - j <= Len(g) - l
    BY <2>1, LongerAt
  <2>4. k < l
    BY <2>1, <2>2, <2>3, AtOrder
  <2>5. v.total <= k /\ v.before <= v.total + 1 + (Len(g) - l)
    <3>1. v.total <= i /\ v.before <= v.total + 1 + (Len(h) - j)
      BY <1>1, <2>1
    <3>2. i <= k /\ i \in Int /\ k \in Int
      BY <2>2
    <3>3. Len(h) - j <= Len(g) - l /\ Len(h) - j \in Int /\ Len(g) - l \in Int
      BY <1>6, <2>3
    <3> DEFINE x == Len(h) - j
               y == Len(g) - l
    <3>4. v.before <= v.total + 1 + x /\ x <= y /\ x \in Int /\ y \in Int
      BY <3>1, <3>3
    <3> HIDE DEF x, y
    <3>5. v.total <= k
      BY ONLY <1>3, <3>1, <3>2
    <3>6. v.before <= v.total + 1 + y
      BY ONLY <1>3, <3>4
    <3> QED BY <3>5, <3>6 DEF y
  <2>6. Cardinality(UpTo(v.kept, v.cursor)) <= v.allocated
    BY <1>1, <1>5, <2>1
  <2>7. UpTo(v.kept, v.chunk) \subseteq UpTo(v.kept, v.cursor) \cup {v.chunk + Header}
    BY <1>1, <2>1 DEF UpTo
  <2>8. Counted(v, g)
    BY <1>1, <1>8, <2>2, <2>3, <2>4, <2>5, <2>6, <2>7 DEF Counted
  <2> QED BY <1>1, <1>2, <1>4, <2>8 DEF WalkSound
<1>9. CASE w.at = "move"
  <2>1. PICK i, j \in 0 .. Len(h) :
          /\ i < j /\ IsAt(h, i, w.cursor) /\ IsAt(h, j, w.chunk)
          /\ w.total <= i + 1 /\ w.before <= w.total + (Len(h) - j)
          /\ Cardinality(UpTo(w.kept, w.chunk)) <= w.allocated
    BY <1>2, <1>9 DEF Counted
  <2>2. PICK k \in 0 .. Len(g) :
          IsAt(g, k, w.cursor) /\ i <= k /\ Len(h) - i <= Len(g) - k
    BY <2>1, LongerAt
  <2>3. PICK l \in 0 .. Len(g) :
          IsAt(g, l, w.chunk) /\ j <= l /\ Len(h) - j <= Len(g) - l
    BY <2>1, LongerAt
  <2>4. k < l
    BY <2>1, <2>2, <2>3, AtOrder
  <2>5. v.total <= k + 1 /\ v.before <= v.total + (Len(g) - l)
    <3>1. v.total <= i + 1 /\ v.before <= v.total + (Len(h) - j)
      BY <1>1, <2>1
    <3>2. i <= k /\ i \in Int /\ k \in Int
      BY <2>2
    <3>3. Len(h) - j <= Len(g) - l /\ Len(h) - j \in Int /\ Len(g) - l \in Int
      BY <1>6, <2>3
    <3> DEFINE x == Len(h) - j
               y == Len(g) - l
    <3>4. v.before <= v.total + x /\ x <= y /\ x \in Int /\ y \in Int
      BY <3>1, <3>3
    <3> HIDE DEF x, y
    <3>5. v.total <= k + 1
      BY ONLY <1>3, <3>1, <3>2
    <3>6. v.before <= v.total + y
      BY ONLY <1>3, <3>4
    <3> QED BY <3>5, <3>6 DEF y
  <2>6. Cardinality(UpTo(v.kept, v.chunk)) <= v.allocated
    BY <1>1, <1>5, <2>1
  <2>7. Counted(v, g)
    BY <1>1, <1>9, <2>2, <2>3, <2>4, <2>5, <2>6 DEF Counted
  <2> QED BY <1>1, <1>2, <1>4, <2>7 DEF WalkSound
<1>10. CASE w.at = "done"
  <2>1. w.before <= w.total /\ w.total <= Len(h) /\ Cardinality(w.kept) <= w.allocated
    BY <1>2, <1>10 DEF Counted
  <2>2. /\ Cardinality(v.kept) \in Nat /\ Cardinality(w.kept) \in Nat
        /\ Cardinality(v.kept) <= Cardinality(w.kept)
    BY <1>1, <1>2, CountsLess
  <2>3. v.before <= v.total /\ v.total <= Len(g) /\ Cardinality(v.kept) <= v.allocated
    BY <1>1, <1>3, <1>6, <2>1, <2>2
  <2>4. Counted(v, g)
    BY <1>1, <1>10, <2>3 DEF Counted
  <2> QED BY <1>1, <1>2, <1>4, <2>4 DEF WalkSound
<1> QED BY <1>2, <1>7, <1>8, <1>9, <1>10 DEF WalkType

\* The same domain, the same length.
LEMMA SameLength ==
  ASSUME NEW m \in Nat, NEW n \in Nat, 1 .. m = 1 .. n
  PROVE  m = n
<1>1. m > 0 => m \in 1 .. n
  <2>1. m > 0 => m \in 1 .. m
    OBVIOUS
  <2> QED BY <2>1, Zenon
<1>2. n > 0 => n \in 1 .. m
  <2>1. n > 0 => n \in 1 .. n
    OBVIOUS
  <2> QED BY <2>1, Zenon
<1> QED BY <1>1, <1>2

\* Giving out a chunk, split or not.
LEMMA PlaceLonger ==
  ASSUME NEW h, NEW limit \in Nat, Sound(h, limit), NEW i \in DOMAIN h, NEW size \in Nat
  PROVE  Longer(h, Place(h, i, size))
<1>a. PICK g : g = Place(h, i, size)
  BY Zenon
<1>1. Sound(g, limit)
  BY <1>a, PlaceSound
<1>2. /\ h \in Seq(Chunk) /\ Len(h) \in Nat /\ DOMAIN h = 1 .. Len(h)
      /\ g \in Seq(Chunk) /\ Len(g) \in Nat /\ DOMAIN g = 1 .. Len(g)
      /\ i \in 1 .. Len(h)
  BY <1>1 DEF Sound
<1>3. CASE Splits(h[i], size)
  <2>1. g = [j \in 1 .. Len(h) + 1 |->
               IF j < i THEN h[j]
               ELSE IF j = i THEN [addr |-> h[i].addr, size |-> size, used |-> TRUE]
               ELSE IF j = i + 1
                 THEN [addr |-> h[i].addr + Header + size,
                       size |-> Rest(h[i], size), used |-> FALSE]
               ELSE h[j - 1]]
    BY <1>a, <1>3 DEF Place
  <2>2. DOMAIN g = 1 .. Len(h) + 1
    BY <2>1
  <2>3. Len(g) = Len(h) + 1
    <3>1. 1 .. Len(g) = 1 .. Len(h) + 1
      BY ONLY <1>2, <2>2, Zenon
    <3>2. Len(h) + 1 \in Nat
      BY ONLY <1>2
    <3> QED BY <1>2, <3>1, <3>2, SameLength, ZenonT(60)
  <2>4. /\ \A k \in 1 .. i : g[k].addr = h[k].addr
        /\ \A k \in i + 1 .. Len(h) : g[k + 1].addr = h[k].addr
    <3>1. ASSUME NEW k \in 1 .. i PROVE g[k].addr = h[k].addr
      BY <1>2, <2>1
    <3>2. ASSUME NEW k \in i + 1 .. Len(h) PROVE g[k + 1].addr = h[k].addr
      <4>1. /\ k + 1 \in 1 .. Len(h) + 1 /\ ~ (k + 1 < i) /\ k + 1 # i /\ k + 1 # i + 1
            /\ (k + 1) - 1 = k
        BY <1>2
      <4>2. g[k + 1] = h[(k + 1) - 1]
        BY <2>1, <4>1
      <4> QED BY <4>1, <4>2
    <3> QED BY <3>1, <3>2
  <2>5. ASSUME NEW k \in 1 .. Len(h)
        PROVE  \E l \in 1 .. Len(g) :
                 g[l].addr = h[k].addr /\ k <= l /\ Len(h) - k <= Len(g) - l
    <3>1. CASE k <= i
      <4>1. k \in 1 .. Len(g) /\ g[k].addr = h[k].addr /\ Len(h) - k <= Len(g) - k
        BY <1>2, <2>3, <2>4, <3>1
      <4> QED BY <4>1
    <3>2. CASE k > i
      <4>1. /\ k + 1 \in 1 .. Len(g) /\ g[k + 1].addr = h[k].addr /\ k <= k + 1
            /\ Len(h) - k <= Len(g) - (k + 1)
        BY <1>2, <2>3, <2>4, <3>2, SMTT(60)
      <4> QED BY <4>1
    <3> QED BY <1>2, <3>1, <3>2
  <2> QED BY <1>a, <1>2, <2>3, <2>5 DEF Longer
<1>4. CASE ~ Splits(h[i], size)
  <2>1. g = [h EXCEPT ![i].used = TRUE]
    BY <1>a, <1>4 DEF Place
  <2>2. DOMAIN g = DOMAIN h
    BY <2>1
  <2>3. Len(g) = Len(h)
    <3>1. 1 .. Len(g) = 1 .. Len(h)
      BY <1>2, <2>2
    <3> QED BY <1>2, <3>1, SameLength, ZenonT(60)
  <2>4. ASSUME NEW k \in 1 .. Len(h) PROVE g[k].addr = h[k].addr
    <3>1. h[k] \in Chunk
      BY <1>2
    <3> QED BY <1>2, <2>1, <3>1 DEF Chunk
  <2> QED BY <1>a, <1>2, <2>3, <2>4 DEF Longer
<1> QED BY <1>3, <1>4

\* malloc, where it finds a chunk, where it extends the heap, and where it fails.
LEMMA MallocLonger ==
  ASSUME HeapConsistent, NEW size \in Nat, NEW r \in Malloc(size)
  PROVE  Longer(heap, r.heap)
<1> DEFINE fit == FirstFit(heap, AllocSize(size))
<1>1. /\ heap_limit \in Nat /\ Sound(heap, heap_limit) /\ AllocSize(size) \in Nat
      /\ Len(heap) \in Nat
  BY TileIsSound, AllocSizeEnough DEF HeapConsistent, TypeOK
<1>2. CASE fit # {}
  <2>1. PICK i \in fit : r = Given(heap, i, size, heap_limit)
    BY <1>2 DEF Malloc
  <2>2. i \in DOMAIN heap /\ r.heap = Place(heap, i, AllocSize(size))
    BY <2>1 DEF FirstFit, Given
  <2> QED BY <1>1, <2>2, PlaceLonger
<1>3. CASE r.heap = heap
  BY <1>1, <1>3 DEF Longer
<1>4. CASE r = Given(Extended(size), Len(heap) + 1, size, Limit + ChunkSize(size))
  <2>a. PICK h, limit : h = Extended(size) /\ limit = Limit + ChunkSize(size)
    BY Zenon
  <2>1. /\ limit \in Nat /\ Sound(h, limit) /\ Len(heap) + 1 \in DOMAIN h
        /\ \A j \in DOMAIN heap : j \in DOMAIN h /\ h[j] = heap[j]
    BY <2>a, ExtendedSound
  <2>2. r.heap = Place(h, Len(heap) + 1, AllocSize(size))
    BY <1>4, <2>a DEF Given
  <2>3. Longer(h, r.heap)
    BY <1>1, <2>1, <2>2, PlaceLonger
  <2>4. /\ Len(h) \in Nat /\ DOMAIN h = 1 .. Len(h) /\ DOMAIN heap = 1 .. Len(heap)
        /\ Len(heap) <= Len(h)
    BY <1>1, <2>1 DEF Sound
  <2>5. /\ Len(r.heap) \in Nat /\ Len(h) <= Len(r.heap)
    BY <2>3 DEF Longer
  <2>6. ASSUME NEW k \in 1 .. Len(heap)
        PROVE  \E l \in 1 .. Len(r.heap) :
                 /\ r.heap[l].addr = heap[k].addr /\ k <= l
                 /\ Len(heap) - k <= Len(r.heap) - l
    <3>1. k \in 1 .. Len(h) /\ h[k] = heap[k]
      BY <2>1, <2>4
    <3>2. PICK l \in 1 .. Len(r.heap) :
            r.heap[l].addr = h[k].addr /\ k <= l /\ Len(h) - k <= Len(r.heap) - l
      BY <2>3, <3>1 DEF Longer
    <3>3. Len(heap) - k <= Len(r.heap) - l
      <4>1. \A a, b, c, i, j \in Int : a <= b /\ b - i <= c - j => a - i <= c - j
        OBVIOUS
      <4>2. /\ Len(heap) \in Int /\ Len(h) \in Int /\ Len(r.heap) \in Int
            /\ k \in Int /\ l \in Int /\ Len(heap) <= Len(h)
            /\ Len(h) - k <= Len(r.heap) - l
        BY <1>1, <2>4, <2>5, <3>2
      <4> QED BY ONLY <4>1, <4>2, Zenon
    <3> QED BY <3>1, <3>2, <3>3
  <2>7. /\ Len(heap) \in Nat /\ Len(r.heap) \in Nat
        /\ Len(heap) <= Len(r.heap)
    BY <1>1, <2>4, <2>5
  <2> QED BY <2>6, <2>7, Zenon DEF Longer
<1> QED BY <1>2, <1>3, <1>4 DEF Malloc

\* free leaves the list as long as it was.
LEMMA FreeLonger ==
  ASSUME HeapConsistent, NEW p, FreeChunk(p)
  PROVE  Longer(heap, heap')
<1>1. PICK i \in DOMAIN heap : heap' = [heap EXCEPT ![i].used = FALSE]
  BY DEF FreeChunk, ChunkAt
<1>2. heap \in Seq(Chunk) /\ Len(heap) \in Nat /\ DOMAIN heap = 1 .. Len(heap)
  BY DEF HeapConsistent, TypeOK
<1>3. \A k \in 1 .. Len(heap) : [heap[k] EXCEPT !.used = FALSE] \in Chunk
  <2>1. \A k \in 1 .. Len(heap) : heap[k] \in Chunk
    BY <1>2
  <2> QED BY <2>1 DEF Chunk
<1>4. heap' \in [1 .. Len(heap) -> Chunk]
  BY <1>1, <1>2, <1>3
<1>5. Len(heap') = Len(heap)
  BY <1>2, <1>4
<1>6. ASSUME NEW k \in 1 .. Len(heap) PROVE heap'[k].addr = heap[k].addr
  <2>1. heap[k] \in Chunk
    BY <1>2
  <2> QED BY <1>1, <1>2, <2>1 DEF Chunk
<1> QED BY <1>2, <1>5, <1>6 DEF Longer

\* A step that is not one of the walk.
LEMMA OthersWalk ==
  ASSUME Inv, Inv', WalkInv, Longer(heap, heap'), IsFiniteSet(blocks'),
         walk = NoWalk => walk' = NoWalk,
         walk # NoWalk => Forgotten(walk, walk', blocks, blocks')
  PROVE  WalkInv'
<1>1. /\ heap_limit \in Nat /\ Sound(heap, heap_limit)
      /\ heap_limit' \in Nat /\ Sound(heap', heap_limit')
  <2>1. heap_limit' \in Nat /\ heap' \in Seq(Chunk) /\ ChunksTile' /\ ChunksOrdered'
    BY DEF Inv, HeapConsistent, TypeOK
  <2>2. Sound(heap', heap_limit')
    BY <2>1 DEF Sound, ChunksTile, ChunksOrdered
  <2> QED BY <2>1, <2>2, Holders
<1>2. CASE walk = NoWalk
  BY <1>2 DEF WalkInv
<1>3. CASE walk # NoWalk
  <2>1. WalkSound(walk, heap, blocks)
    BY <1>3 DEF WalkInv
  <2>2. WalkSound(walk', heap', blocks')
    BY <1>1, <1>3, <2>1, WalkStays
  <2> QED BY <2>2 DEF WalkInv
<1> QED BY <1>2, <1>3

\* A list is as long as itself.
LEMMA SameListLonger == Inv => Longer(heap, heap)
<1> SUFFICES ASSUME Inv PROVE Longer(heap, heap)
  OBVIOUS
<1>1. Len(heap) \in Nat
  BY DEF Inv, HeapConsistent, TypeOK
<1> QED BY <1>1 DEF Longer

\* Steps of the program that free nothing.
LEMMA GivingWalk ==
  ASSUME Inv, Inv', WalkInv, Longer(heap, heap'), IsFiniteSet(blocks'), UNCHANGED walk,
         \A b \in blocks : \E c \in blocks' : c.addr = b.addr
  PROVE  WalkInv'
<1>1. Forgotten(walk, walk', blocks, blocks')
  BY DEF Forgotten
<1> QED BY <1>1, OthersWalk

\* ... and those that free the chunk of p.
LEMMA FreeingWalk ==
  ASSUME Inv, Inv', WalkInv, NEW p, FreeChunk(p), Forget(p), IsFiniteSet(blocks'),
         \A b \in blocks : b.addr = p \/ \E c \in blocks' : c.addr = b.addr
  PROVE  WalkInv'
<1>1. Longer(heap, heap')
  BY FreeLonger DEF Inv
<1>2. walk # NoWalk => Forgotten(walk, walk', blocks, blocks')
  BY DEF Forgotten, Forget
<1>3. walk = NoWalk => walk' = NoWalk
  BY DEF Forget
<1> QED BY <1>1, <1>2, <1>3, OthersWalk

\* A chunk in use from the call on, and where it is from a place in the list.
LEMMA KeptChunk ==
  ASSUME Inv, NEW w, WalkSound(w, heap, blocks), NEW i, NEW a, IsAt(heap, i, a),
         NEW p \in w.kept
  PROVE  \E k \in DOMAIN heap :
           /\ p = heap[k].addr + Header /\ heap[k].used
           /\ p <= a + Header <=> k <= i
<1>1. PICK b \in blocks : b.addr = p
  BY DEF WalkSound
<1>2. PICK k \in DOMAIN heap : heap[k].addr + Header = p /\ heap[k].used
  BY <1>1, Holders DEF UsedIn
<1>3. heap_limit \in Nat /\ Sound(heap, heap_limit)
  BY Holders
<1>4. k \in Nat /\ k > 0 /\ i \in Nat /\ IsAt(heap, k, heap[k].addr)
  BY <1>3 DEF Sound, IsAt
<1>5. heap[k].addr \in Nat /\ heap[k].addr > 0
  BY <1>3, ChunkWithin, Constants
<1>6. a \in Nat
  <2>1. i # 0 => i \in DOMAIN heap /\ heap[i].addr = a
    BY <1>3, <1>4 DEF IsAt, Sound
  <2>2. i = 0 => a = 0
    BY DEF IsAt
  <2> QED BY <1>3, <2>1, <2>2, ChunkWithin
<1>7. k < i => heap[k].addr < a
  BY <1>3, <1>4, AtOrder
<1>8. i < k => a < heap[k].addr
  BY <1>3, <1>4, AtOrder
<1>9. k = i => heap[k].addr = a
  BY <1>4 DEF IsAt
<1>10. heap[k].addr <= a <=> k <= i
  BY <1>4, <1>5, <1>6, <1>7, <1>8, <1>9
<1>11. p <= a + Header <=> heap[k].addr <= a
  BY <1>2, <1>5, <1>6, Constants
<1> QED BY <1>2, <1>10, <1>11

\* The next chunk is the one behind the place.
LEMMA NextIs ==
  ASSUME Inv, NEW i, NEW a, IsAt(heap, i, a)
  PROVE  /\ \A k \in NextChunk(a) : k = i + 1 /\ k \in DOMAIN heap
         /\ NextChunk(a) = {} => i = Len(heap)
<1>1. /\ heap_limit \in Nat /\ Sound(heap, heap_limit) /\ Len(heap) \in Nat
      /\ DOMAIN heap = 1 .. Len(heap) /\ i \in 0 .. Len(heap)
  BY Holders DEF Sound, IsAt
<1>2. \A k \in DOMAIN heap : heap[k].addr # 0
  <2> SUFFICES ASSUME NEW k \in DOMAIN heap PROVE heap[k].addr # 0
    OBVIOUS
  <2> QED BY <1>1, ChunkWithin, Constants
<1>3. i # 0 => i \in DOMAIN heap /\ heap[i].addr = a
  BY <1>1 DEF IsAt
<1>4. i = 0 => a = 0
  BY DEF IsAt
<1>5. ASSUME NEW k \in NextChunk(a) PROVE k = i + 1 /\ k \in DOMAIN heap
  <2>1. k \in DOMAIN heap /\ IF k = 1 THEN a = 0 ELSE heap[k - 1].addr = a
    BY DEF NextChunk
  <2>2. CASE k = 1
    BY <1>2, <1>3, <2>1, <2>2
  <2>3. CASE k # 1
    <3>1. k - 1 \in DOMAIN heap /\ heap[k - 1].addr = a
      BY <1>1, <2>1, <2>3
    <3>2. i # 0
      BY <1>2, <1>4, <3>1
    <3>3. k - 1 = i
      BY <1>1, <1>3, <3>1, <3>2, AddressUnique
    <3> QED BY <1>1, <2>1, <3>3
  <2> QED BY <2>2, <2>3
<1>6. ASSUME i # Len(heap) PROVE i + 1 \in NextChunk(a)
  <2>1. i + 1 \in DOMAIN heap
    <3>1. \A n \in Nat : \A k \in 0 .. n : k # n => k + 1 \in 1 .. n
      OBVIOUS
    <3> QED BY ONLY <1>1, <1>6, <3>1, Zenon
  <2>2. IF i + 1 = 1 THEN a = 0 ELSE heap[(i + 1) - 1].addr = a
    <3>1. (i + 1 = 1 <=> i = 0) /\ (i + 1) - 1 = i
      BY <1>1
    <3> QED BY <1>3, <1>4, <3>1
  <2> QED BY <2>1, <2>2 DEF NextChunk
<1> QED BY <1>5, <1>6

\* tb_heap_state is called.
LEMMA StateCallWalk ==
  ASSUME Inv, WalkInv, StateCall
  PROVE  WalkInv'
<1>a. PICK w, K : w = walk' /\ K = {b.addr : b \in blocks}
  BY Zenon
<1>1. /\ w = [at |-> "look", cursor |-> 0, chunk |-> 0, total |-> 0, allocated |-> 0,
              before |-> Len(heap), kept |-> K]
      /\ UNCHANGED <<heap, blocks>>
  BY <1>a DEF StateCall
<1>2. Len(heap) \in Nat /\ K \subseteq Nat /\ IsFiniteSet(blocks)
  BY <1>a, Holders DEF WalkInv, HeapConsistent, TypeOK
<1>3. IsFiniteSet(K)
  <2> DEFINE f == [b \in blocks |-> b.addr]
  <2>1. f \in Surjection(blocks, K)
    BY <1>a DEF Surjection
  <2> HIDE DEF f
  <2> QED BY <1>2, <2>1, FS_Surjection
<1>4. UpTo(K, 0) = {}
  <2> SUFFICES ASSUME NEW b \in blocks, b.addr <= 0 + Header PROVE FALSE
    BY <1>a DEF UpTo
  <2>1. PICK k \in DOMAIN heap : heap[k].addr + Header = b.addr
    BY Holders DEF UsedIn
  <2>2. heap[k].addr \in Nat /\ heap[k].addr > 0
    <3>1. heap_limit \in Nat /\ Sound(heap, heap_limit)
      BY Holders
    <3> QED BY <3>1, ChunkWithin, Constants
  <2>3. b.addr \in Nat
    BY Holders
  <2> QED BY <2>1, <2>2, <2>3, Constants
<1>5. /\ w \in WalkType /\ w.at = "look" /\ w.cursor = 0 /\ w.total = 0 /\ w.kept = K
      /\ w.allocated = 0 /\ w.before = Len(heap)
  BY <1>1, <1>2 DEF WalkType
<1>6. Cardinality(UpTo(w.kept, w.cursor)) = 0
  BY <1>4, <1>5, FS_EmptySet
<1>7. IsAt(heap, 0, 0) /\ 0 \in 0 .. Len(heap) /\ w.before <= w.total + (Len(heap) - 0)
  BY <1>2, <1>5 DEF IsAt
<1>8. Counted(w, heap)
  BY <1>5, <1>6, <1>7 DEF Counted
<1>9. WalkSound(w, heap, blocks)
  BY <1>a, <1>3, <1>5, <1>8 DEF WalkSound
<1> QED BY <1>a, <1>1, <1>2, <1>9 DEF WalkInv

\* The walk is at a place, when it is anywhere.
LEMMA WalkIs ==
  ASSUME WalkInv, walk.at # "none"
  PROVE  WalkSound(walk, heap, blocks)
<1>1. walk # NoWalk
  BY DEF NoWalk
<1> QED BY <1>1 DEF WalkInv

\* It looks at cursor->next.
LEMMA StateLookWalk ==
  ASSUME Inv, WalkInv, StateLook
  PROVE  WalkInv'
<1>a. PICK w, v : w = walk /\ v = walk'
  BY Zenon
<1>1. WalkSound(w, heap, blocks) /\ w.at = "look"
  BY <1>a, WalkIs DEF StateLook
<1>2. PICK i \in 0 .. Len(heap) :
        /\ IsAt(heap, i, w.cursor)
        /\ w.total <= i /\ w.before <= w.total + (Len(heap) - i)
        /\ Cardinality(UpTo(w.kept, w.cursor)) <= w.allocated
  BY <1>1 DEF WalkSound, Counted
<1>3. /\ w \in WalkType /\ w.total \in Nat /\ w.before \in Nat /\ Len(heap) \in Nat
      /\ w.allocated <= w.total /\ IsFiniteSet(w.kept)
      /\ \A p \in w.kept : \E b \in blocks : b.addr = p
  BY <1>1, Holders DEF WalkSound, WalkType, HeapConsistent, TypeOK
<1>4. UNCHANGED <<heap, blocks>> /\ IsFiniteSet(blocks)
  BY DEF StateLook, WalkInv
<1>5. CASE NextChunk(w.cursor) = {}
  <2>1. v = [w EXCEPT !.at = "done"]
    BY <1>a, <1>5 DEF StateLook
  <2>2. /\ v \in WalkType /\ v.at = "done" /\ v.total = w.total /\ v.before = w.before
        /\ v.kept = w.kept /\ v.allocated = w.allocated
    BY <1>3, <2>1 DEF WalkType
  <2>3. i = Len(heap)
    BY <1>2, <1>5, NextIs
  <2>4. w.total <= Len(heap) /\ w.before <= w.total
    BY <1>2, <1>3, <2>3
  <2>5. UpTo(w.kept, w.cursor) = w.kept
    <3> SUFFICES ASSUME NEW p \in w.kept PROVE p <= w.cursor + Header
      BY DEF UpTo
    <3>1. PICK k \in DOMAIN heap : p <= w.cursor + Header <=> k <= i
      BY <1>1, <1>2, KeptChunk
    <3>2. k <= i
      BY <1>3, <2>3 DEF HeapConsistent, TypeOK, Inv
    <3> QED BY <3>1, <3>2
  <2>6. Counted(v, heap)
    BY <1>2, <2>2, <2>4, <2>5 DEF Counted
  <2>7. WalkSound(v, heap, blocks)
    BY <1>3, <2>2, <2>6 DEF WalkSound
  <2> QED BY <1>a, <1>4, <2>7 DEF WalkInv
<1>6. CASE NextChunk(w.cursor) # {}
  <2>1. PICK k \in NextChunk(w.cursor) :
          v = [w EXCEPT !.at = "count", !.chunk = heap[k].addr]
    BY <1>a, <1>6 DEF StateLook
  <2>2. k = i + 1 /\ k \in DOMAIN heap
    BY <1>2, NextIs
  <2>3. heap_limit \in Nat /\ Sound(heap, heap_limit)
    BY Holders
  <2>4. heap[k].addr \in Nat
    BY <2>2, <2>3, ChunkWithin
  <2>5. /\ v \in WalkType /\ v.at = "count" /\ v.total = w.total /\ v.before = w.before
        /\ v.kept = w.kept /\ v.allocated = w.allocated /\ v.cursor = w.cursor
        /\ v.chunk = heap[k].addr
    BY <1>3, <2>1, <2>4 DEF WalkType
  <2>6. k \in 0 .. Len(heap) /\ i < k /\ IsAt(heap, k, v.chunk)
    BY <1>2, <2>2, <2>3, <2>5 DEF IsAt, Sound
  <2>7. w.before <= w.total + 1 + (Len(heap) - k)
    BY <1>2, <1>3, <2>2
  <2>8. UpTo(w.kept, v.chunk) \subseteq UpTo(w.kept, w.cursor) \cup {v.chunk + Header}
    <3> SUFFICES ASSUME NEW p \in w.kept, p <= v.chunk + Header, p # v.chunk + Header
                 PROVE  p <= w.cursor + Header
      BY DEF UpTo
    <3>1. PICK l \in DOMAIN heap :
            p = heap[l].addr + Header /\ (p <= w.cursor + Header <=> l <= i)
      BY <1>1, <1>2, KeptChunk
    <3>2. PICK m \in DOMAIN heap :
            p = heap[m].addr + Header /\ (p <= v.chunk + Header <=> m <= k)
      BY <1>1, <2>6, KeptChunk
    <3>3. heap[l].addr \in Nat /\ heap[m].addr \in Nat
      BY <2>3, ChunkWithin
    <3>4. l = m
      <4>1. heap[l].addr = heap[m].addr
        BY <3>1, <3>2, <3>3, Constants
      <4> QED BY <2>3, <4>1, AddressUnique
    <3>5. l # k
      BY <2>5, <3>1
    <3>6. l \in Nat /\ k \in Nat
      BY <2>2, <2>3 DEF Sound
    <3> QED BY <1>2, <2>2, <3>1, <3>2, <3>4, <3>5, <3>6
  <2>9. Counted(v, heap)
    BY <1>2, <2>5, <2>6, <2>7, <2>8 DEF Counted
  <2>10. WalkSound(v, heap, blocks)
    BY <1>3, <2>5, <2>9 DEF WalkSound
  <2> QED BY <1>a, <1>4, <2>10 DEF WalkInv
<1> QED BY <1>5, <1>6

\* It counts the chunk.
LEMMA StateCountWalk ==
  ASSUME Inv, WalkInv, StateCount
  PROVE  WalkInv'
<1>a. PICK w, v : w = walk /\ v = walk'
  BY Zenon
<1>1. WalkSound(w, heap, blocks) /\ w.at = "count"
  BY <1>a, WalkIs DEF StateCount
<1>2. PICK i, j \in 0 .. Len(heap) :
        /\ i < j /\ IsAt(heap, i, w.cursor) /\ IsAt(heap, j, w.chunk)
        /\ w.total <= i /\ w.before <= w.total + 1 + (Len(heap) - j)
        /\ UpTo(w.kept, w.chunk) \subseteq UpTo(w.kept, w.cursor) \cup {w.chunk + Header}
        /\ Cardinality(UpTo(w.kept, w.cursor)) <= w.allocated
  BY <1>1 DEF WalkSound, Counted
<1>3. /\ w \in WalkType /\ w.total \in Nat /\ w.before \in Nat /\ Len(heap) \in Nat
      /\ w.allocated \in Nat /\ w.allocated <= w.total /\ IsFiniteSet(w.kept)
      /\ \A p \in w.kept : \E b \in blocks : b.addr = p
  BY <1>1, Holders DEF WalkSound, WalkType, HeapConsistent, TypeOK
<1>4. UNCHANGED <<heap, blocks>> /\ IsFiniteSet(blocks)
  BY DEF StateCount, WalkInv
<1>5. PICK k \in DOMAIN heap :
        /\ heap[k].addr = w.chunk
        /\ v = [w EXCEPT !.at = "move", !.total = @ + 1,
                         !.allocated = IF Counts(heap[k]) THEN @ + 1 ELSE @]
  BY <1>a DEF StateCount
<1>6. heap_limit \in Nat /\ Sound(heap, heap_limit)
  BY Holders
<1>7. PICK more : more = IF heap[k].used THEN w.allocated + 1 ELSE w.allocated
  BY Zenon
<1>8. /\ v \in WalkType /\ v.at = "move" /\ v.total = w.total + 1 /\ v.before = w.before
      /\ v.kept = w.kept /\ v.allocated = more /\ v.cursor = w.cursor /\ v.chunk = w.chunk
  <2>1. v = [w EXCEPT !.at = "move", !.total = w.total + 1, !.allocated = more]
    BY <1>3, <1>5, <1>7 DEF Counts, WalkType
  <2>2. more \in Nat
    BY <1>3, <1>7
  <2>3. v = [at |-> "move", cursor |-> w.cursor, chunk |-> w.chunk, total |-> w.total + 1,
             allocated |-> more, before |-> w.before, kept |-> w.kept]
    <3>1. w = [at |-> w.at, cursor |-> w.cursor, chunk |-> w.chunk, total |-> w.total,
               allocated |-> w.allocated, before |-> w.before, kept |-> w.kept]
      BY <1>3 DEF WalkType
    <3> QED BY ONLY <2>1, <3>1
  <2>4. /\ w.cursor \in Nat /\ w.chunk \in Nat /\ w.total + 1 \in Nat /\ w.before \in Nat
        /\ w.kept \subseteq Nat
    BY <1>3 DEF WalkType
  <2> QED BY ONLY <2>2, <2>3, <2>4 DEF WalkType
<1>9. /\ v.allocated <= v.total /\ v.total <= i + 1
      /\ v.before <= v.total + (Len(heap) - j)
  BY <1>2, <1>3, <1>7, <1>8
<1>10. IsFiniteSet(UpTo(w.kept, w.cursor)) /\ Cardinality(UpTo(w.kept, w.cursor)) \in Nat
  BY <1>3, CountsLess
<1>11. Cardinality(UpTo(w.kept, w.chunk)) <= more
  <2>a. PICK A, B, x : /\ A = UpTo(w.kept, w.cursor) /\ B = UpTo(w.kept, w.chunk)
                       /\ x = w.chunk + Header
    BY Zenon
  <2>1. /\ IsFiniteSet(A) /\ Cardinality(A) \in Nat /\ Cardinality(A) <= w.allocated
        /\ B \subseteq A \cup {x}
    BY <1>2, <1>10, <2>a
  <2>2. CASE heap[k].used
    <3>1. /\ IsFiniteSet(A \cup {x})
          /\ Cardinality(A \cup {x}) \in {Cardinality(A), Cardinality(A) + 1}
      BY <2>1, FS_AddElement
    <3>2. Cardinality(B) <= Cardinality(A \cup {x}) /\ IsFiniteSet(B)
      BY <2>1, <3>1, FS_Subset
    <3>3. Cardinality(B) \in Nat
      BY <3>2, FS_CardinalityType
    <3> QED BY <1>3, <1>7, <2>a, <2>1, <2>2, <3>1, <3>2, <3>3
  <2>3. CASE ~ heap[k].used
    <3>1. x \notin B
      <4> SUFFICES ASSUME x \in w.kept PROVE FALSE
        BY <2>a DEF UpTo
      <4>1. PICK l \in DOMAIN heap : x = heap[l].addr + Header /\ heap[l].used
        BY <1>1, <1>2, KeptChunk
      <4>2. heap[l].addr \in Nat /\ heap[k].addr \in Nat
        BY <1>6, ChunkWithin
      <4>3. heap[l].addr = heap[k].addr
        BY <1>5, <2>a, <4>1, <4>2, Constants
      <4>4. l = k
        BY <1>6, <4>3, AddressUnique
      <4> QED BY <2>3, <4>1, <4>4
    <3>2. B \subseteq A
      BY <2>1, <3>1
    <3>3. Cardinality(B) <= Cardinality(A) /\ IsFiniteSet(B)
      BY <2>1, <3>2, FS_Subset
    <3>4. Cardinality(B) \in Nat
      BY <3>3, FS_CardinalityType
    <3> QED BY <1>3, <1>7, <2>a, <2>1, <2>3, <3>3, <3>4
  <2> QED BY <2>2, <2>3
<1>12. Counted(v, heap)
  BY <1>2, <1>8, <1>9, <1>11 DEF Counted
<1>13. WalkSound(v, heap, blocks)
  BY <1>3, <1>8, <1>9, <1>12 DEF WalkSound
<1> QED BY <1>a, <1>4, <1>13 DEF WalkInv

\* It moves on, to the chunk it counted or to one that is before it by now.
LEMMA StateMoveWalk ==
  ASSUME Inv, WalkInv, StateMove
  PROVE  WalkInv'
<1>a. PICK w, v : w = walk /\ v = walk'
  BY Zenon
<1>1. WalkSound(w, heap, blocks) /\ w.at = "move"
  BY <1>a, WalkIs DEF StateMove
<1>2. PICK i, j \in 0 .. Len(heap) :
        /\ i < j /\ IsAt(heap, i, w.cursor) /\ IsAt(heap, j, w.chunk)
        /\ w.total <= i + 1 /\ w.before <= w.total + (Len(heap) - j)
        /\ Cardinality(UpTo(w.kept, w.chunk)) <= w.allocated
  BY <1>1 DEF WalkSound, Counted
<1>3. /\ w \in WalkType /\ w.total \in Nat /\ w.before \in Nat /\ Len(heap) \in Nat
      /\ w.allocated \in Nat /\ w.allocated <= w.total /\ IsFiniteSet(w.kept)
      /\ w.chunk \in Nat
      /\ \A p \in w.kept : \E b \in blocks : b.addr = p
  BY <1>1, Holders DEF WalkSound, WalkType, HeapConsistent, TypeOK
<1>4. UNCHANGED <<heap, blocks>> /\ IsFiniteSet(blocks)
  BY DEF StateMove, WalkInv
<1>5. heap_limit \in Nat /\ Sound(heap, heap_limit)
  BY Holders
<1>6. ASSUME NEW k \in 0 .. Len(heap), NEW a \in Nat, IsAt(heap, k, a),
             v = [w EXCEPT !.at = "look", !.cursor = a], i < k, k <= j, a <= w.chunk
      PROVE  WalkInv'
  <2>1. /\ v \in WalkType /\ v.at = "look" /\ v.total = w.total /\ v.before = w.before
        /\ v.kept = w.kept /\ v.allocated = w.allocated /\ v.cursor = a
    BY <1>3, <1>6 DEF WalkType
  <2>2. w.total <= k /\ w.before <= w.total + (Len(heap) - k)
    BY <1>2, <1>3, <1>6
  <2>3. UpTo(w.kept, a) \subseteq UpTo(w.kept, w.chunk)
    <3>1. w.kept \subseteq Nat
      BY <1>3 DEF WalkType
    <3> QED BY <1>3, <1>6, <3>1, Constants DEF UpTo
  <2>4. Cardinality(UpTo(w.kept, a)) <= w.allocated
    <3>1. IsFiniteSet(UpTo(w.kept, w.chunk)) /\ Cardinality(UpTo(w.kept, w.chunk)) \in Nat
      BY <1>3, CountsLess
    <3>2. /\ IsFiniteSet(UpTo(w.kept, a))
          /\ Cardinality(UpTo(w.kept, a)) <= Cardinality(UpTo(w.kept, w.chunk))
      BY <2>3, <3>1, FS_Subset
    <3>3. Cardinality(UpTo(w.kept, a)) \in Nat
      BY <3>2, FS_CardinalityType
    <3> QED BY <1>2, <1>3, <3>1, <3>2, <3>3
  <2>5. Counted(v, heap)
    BY <1>6, <2>1, <2>2, <2>4 DEF Counted
  <2>6. WalkSound(v, heap, blocks)
    BY <1>3, <2>1, <2>5 DEF WalkSound
  <2> QED BY <1>a, <1>4, <2>6 DEF WalkInv
<1>7. CASE v = [w EXCEPT !.at = "look", !.cursor = w.chunk]
  <2>1. i < j /\ j <= j /\ w.chunk <= w.chunk
    BY <1>2, <1>3
  <2> QED BY <1>2, <1>3, <1>6, <1>7, <2>1, Zenon
<1>8. ASSUME NEW k \in NextChunk(w.cursor),
             v = [w EXCEPT !.at = "look", !.cursor = heap[k].addr]
      PROVE  WalkInv'
  <2>1. k = i + 1 /\ k \in DOMAIN heap
    BY <1>2, NextIs
  <2>2. heap[k].addr \in Nat /\ k \in 0 .. Len(heap) /\ IsAt(heap, k, heap[k].addr)
    <3>1. heap[k].addr \in Nat
      BY <1>5, <2>1, ChunkWithin
    <3>2. k \in 1 .. Len(heap)
      BY <1>5, <2>1 DEF Sound
    <3>3. k \in 0 .. Len(heap) /\ k # 0
      BY ONLY <1>3, <3>2
    <3> QED BY <3>1, <3>3 DEF IsAt
  <2>3. i < k /\ k <= j
    BY ONLY i \in 0 .. Len(heap), j \in 0 .. Len(heap), <1>2, <1>3, <2>1
  <2>4. heap[k].addr <= w.chunk
    <3>1. CASE k = j
      <4>1. heap[k].addr = w.chunk
        BY <1>2, <2>1, <3>1 DEF IsAt
      <4> QED BY <1>3, <4>1
    <3>2. CASE k # j
      <4>1. k < j
        BY <2>2, <2>3, <3>2
      <4>2. heap[k].addr < w.chunk
        BY <1>2, <1>5, <2>2, <4>1, AtOrder
      <4> QED BY <1>3, <2>2, <4>2
    <3> QED BY <3>1, <3>2
  <2> QED BY <1>6, <1>8, <2>2, <2>3, <2>4
<1> QED BY <1>a, <1>7, <1>8 DEF StateMove

\* Every step keeps the walk, if there is one, sound.
LEMMA WalkStep == Inv /\ Inv' /\ WalkInv /\ [Next]_vars => WalkInv'
<1> SUFFICES ASSUME Inv, Inv', WalkInv, [Next]_vars PROVE WalkInv'
  OBVIOUS
<1>1. IsFiniteSet(blocks) /\ Longer(heap, heap) /\ Requests \subseteq Nat /\ HeapConsistent
  BY SameListLonger, ConstantsAssumption DEF WalkInv, Inv
<1>2. \A x : IsFiniteSet(blocks \cup {x}) /\ IsFiniteSet(blocks \ {x})
  BY <1>1, FS_AddElement, FS_RemoveElement
<1>3. \A x, y : IsFiniteSet((blocks \ {x}) \cup {y})
  BY <1>2, FS_AddElement
<1>4. ASSUME NEW size \in Nat, NEW r \in Malloc(size), Becomes(r) PROVE Longer(heap, heap')
  BY <1>1, <1>4, MallocLonger DEF Becomes
<1>5. ASSUME NEW t \in Threads, MallocCall(t) PROVE WalkInv'
  <2>1. PICK size \in Requests : \E r \in Malloc(size) :
          /\ Becomes(r)
          /\ blocks' = IF r.p = 0 THEN blocks
                       ELSE blocks \cup {Block(t, r.p, size, Zero, 0)}
    BY <1>5 DEF MallocCall
  <2>2. PICK r \in Malloc(size) :
          /\ Becomes(r)
          /\ blocks' = IF r.p = 0 THEN blocks
                       ELSE blocks \cup {Block(t, r.p, size, Zero, 0)}
    BY <2>1
  <2>3. Longer(heap, heap')
    BY <1>1, <1>4, <2>2
  <2>4. IsFiniteSet(blocks') /\ \A b \in blocks : b \in blocks'
    BY <1>1, <1>2, <2>2
  <2>5. UNCHANGED walk
    BY <1>5 DEF MallocCall
  <2> QED BY <2>3, <2>4, <2>5, GivingWalk
<1>6. ASSUME NEW t \in Threads, CallocCall(t) PROVE WalkInv'
  <2>1. PICK size \in Requests : \E r \in Malloc(size) : Becomes(r)
    BY <1>6 DEF CallocCall
  <2>2. Longer(heap, heap')
    BY <1>1, <1>4, <2>1
  <2>3. UNCHANGED <<blocks, walk>>
    BY <1>6 DEF CallocCall
  <2> QED BY <1>1, <2>2, <2>3, GivingWalk
<1>7. ASSUME NEW t \in Threads, ReallocCall(t) \/ ReallocNull(t) PROVE WalkInv'
  <2>1. PICK size \in Requests : \E r \in Malloc(size) : Becomes(r)
    BY <1>7 DEF ReallocCall, ReallocNull
  <2>2. Longer(heap, heap')
    BY <1>1, <1>4, <2>1
  <2>3. UNCHANGED <<blocks, walk>>
    BY <1>7 DEF ReallocCall, ReallocNull
  <2> QED BY <1>1, <2>2, <2>3, GivingWalk
<1>8. ASSUME NEW t \in Threads, CallocClear(t) PROVE WalkInv'
  <2>1. /\ blocks' = blocks \cup {Block(t, ptr[t], asked[t], Zero, asked[t])}
        /\ UNCHANGED <<heap, walk>>
    BY <1>8 DEF CallocClear
  <2>2. IsFiniteSet(blocks') /\ \A b \in blocks : b \in blocks'
    BY <1>2, <2>1
  <2> QED BY <1>1, <2>1, <2>2, GivingWalk
<1>9. ASSUME NEW t \in Threads, Fill(t) PROVE WalkInv'
  <2>1. PICK b \in blocks :
          blocks' = (blocks \ {b}) \cup {Block(t, b.addr, b.size, t, b.size)}
    BY <1>9 DEF Fill, OwnBlocks
  <2>2. UNCHANGED <<heap, walk>>
    BY <1>9 DEF Fill
  <2>3. IsFiniteSet(blocks')
    BY <1>3, <2>1
  <2>4. Block(t, b.addr, b.size, t, b.size).addr = b.addr
    BY DEF Block
  <2>5. \A c \in blocks : \E d \in blocks' : d.addr = c.addr
    BY <2>1, <2>4
  <2> QED BY <1>1, <2>2, <2>3, <2>5, GivingWalk
<1>10. ASSUME NEW t \in Threads, ReallocCopy(t) PROVE WalkInv'
  <2>1. UNCHANGED <<heap, blocks, walk>>
    BY <1>10 DEF ReallocCopy
  <2> QED BY <1>1, <2>1, GivingWalk
<1>11. ASSUME NEW t \in Threads, FreeCall(t) PROVE WalkInv'
  <2>1. PICK b \in OwnBlocks(t) :
          FreeChunk(b.addr) /\ Forget(b.addr) /\ blocks' = blocks \ {b}
    BY <1>11 DEF FreeCall
  <2>2. IsFiniteSet(blocks') /\ \A c \in blocks : c = b \/ c \in blocks'
    BY <1>2, <2>1
  <2> QED BY <2>1, <2>2, FreeingWalk
<1>12. ASSUME NEW t \in Threads, ReallocFree(t) PROVE WalkInv'
  <2>a. PICK b : b = old[t]
    BY Zenon
  <2>1. /\ FreeChunk(b.addr) /\ Forget(b.addr)
        /\ \E x : blocks' = (blocks \ {b}) \cup {x} \/ blocks' = blocks \ {b}
    BY <1>12, <2>a DEF ReallocFree, Freed
  <2>2. IsFiniteSet(blocks') /\ \A c \in blocks : c = b \/ c \in blocks'
    BY <1>2, <1>3, <2>1, ZenonT(60)
  <2> QED BY <2>1, <2>2, FreeingWalk
<1>13. CASE StateUsed
  BY <1>1, <1>13 DEF StateUsed, WalkInv
<1>14. CASE UNCHANGED vars
  BY <1>1, <1>14, GivingWalk DEF vars
<1> QED BY <1>5, <1>6, <1>7, <1>8, <1>9, <1>10, <1>11, <1>12, <1>13, <1>14,
           StateCallWalk, StateLookWalk, StateCountWalk, StateMoveWalk DEF Next

\* tb_heap_state takes no lock, and yet: it reports no fewer chunks than there were and no
\* more than there are, and counts as allocated all that are in use from its call to its
\* return.
THEOREM StateSound == Spec => []StateCounts
<1>1. Init => WalkInv
  BY FS_EmptySet DEF Init, WalkInv
<1>2. Inv /\ Inv' /\ WalkInv /\ [Next]_vars => WalkInv'
  BY WalkStep
<1>3. WalkInv => StateCounts
  <2> SUFFICES ASSUME WalkInv, walk.at = "done"
               PROVE  /\ walk.before <= walk.total /\ walk.total <= Len(heap)
                      /\ Cardinality(walk.kept) <= walk.allocated
                      /\ walk.allocated <= walk.total
    BY DEF StateCounts
  <2>1. WalkSound(walk, heap, blocks)
    BY WalkIs
  <2> QED BY <2>1 DEF WalkSound, Counted
<1> QED BY <1>1, <1>2, <1>3, Invariance, PTL DEF Spec
=============================================================================
