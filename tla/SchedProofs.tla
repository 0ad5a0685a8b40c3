----------------------------- MODULE SchedProofs -----------------------------
(***************************************************************************)
(* Proofs about scheduling and the priority mutexes (module Sched), for    *)
(* any set of threads, of mutexes, of requests and of ceilings.            *)
(*                                                                         *)
(* In layers: who holds what and which list says so (StructureInv); what   *)
(* the claims on a thread amount to (ClaimsInv), which needs lemmas about  *)
(* the fold over its list; and what a waiter has passed on to the owner    *)
(* (WaiterInv).                                                            *)
(*                                                                         *)
(* No theorem has a hypothesis.  The histories uncomputed, unsorted and    *)
(* boosted of Sched, which the properties mention, say of which threads    *)
(* nothing is claimed.                                                     *)
(***************************************************************************)
EXTENDS Sched, SequenceTheorems, NaturalsInduction, WellFoundedInduction, TLAPS

\* An entry of inherit_mutexes.
Entry == [mutex : Inherit, sched_info : SchedInfo]

-----------------------------------------------------------------------------
(* Who holds what                                                          *)

InProtect == {"protect", "c_protect", "c_set", "c_unsched", "unsched", "free"}
InInherit == {"take", "boost", "wait", "asleep"}

\* The mutex of a call is one of the protocol the call is for.
CallKnown(t) ==
  /\ pc[t] \in InProtect => obj[t] \in Protect /\ owner[obj[t]] = t
  /\ pc[t] \in InInherit => obj[t] \in Inherit /\ owner[obj[t]] # t

InList(list, m) == \E i \in 1 .. Len(list) : list[i] = m
HasEntry(list, m) == \E i \in 1 .. Len(list) : list[i].mutex = m

\* The lock and the unlock of a PRIO_PROTECT mutex hold it while it is not listed.
Unlisted(t, m) == pc[t] \in {"protect", "c_protect", "free"} /\ obj[t] = m

\* The lists say who the owners are, and have nothing twice.
ProtectListed(t) ==
  /\ \A m \in Protect : InList(protect_mutexes[t], m) <=> owner[m] = t /\ ~Unlisted(t, m)
  /\ \A i, j \in 1 .. Len(protect_mutexes[t]) :
       protect_mutexes[t][i] = protect_mutexes[t][j] => i = j

InheritListed(t) ==
  /\ \A m \in Inherit : HasEntry(inherit_mutexes[t], m) <=> owner[m] = t
  /\ \A i, j \in 1 .. Len(inherit_mutexes[t]) :
       inherit_mutexes[t][i].mutex = inherit_mutexes[t][j].mutex => i = j

\* internal_futex is held from ReadSched to Boost, and the mutex keeps its owner meanwhile.
Locked(t) ==
  /\ pc[t] = "boost" => internal_futex[obj[t]] = t /\ owner[obj[t]] # NoThread
  /\ \A m \in Inherit : internal_futex[m] = t => pc[t] = "boost" /\ obj[t] = m

\* Owners live.
OwnerLives(t) == pc[t] \in {"none", "gone"} => \A m \in Mutexes : owner[m] # t

StructureInv ==
  /\ TypeOK
  /\ \A t \in Threads :
       CallKnown(t) /\ ProtectListed(t) /\ InheritListed(t) /\ Locked(t) /\ OwnerLives(t)

-----------------------------------------------------------------------------
(* What the claims amount to                                               *)

\* info is the greatest of the claims, and SCHED_FIFO if one of the greatest is.
Amounts(info, claims) ==
  /\ info \in claims
  /\ \A c \in claims : c.prio <= info.prio
  /\ info.policy = "rr" => Fifo(info.prio) \notin claims

\* What tb_compute_sched looks at: of the PRIO_PROTECT mutexes only the first.
Noted(user, protect, inherit, ceilings) ==
  {user} \cup {ceilings[protect[i]] : i \in {1} \cap (1 .. Len(protect))}
         \cup {inherit[i].sched_info : i \in 1 .. Len(inherit)}

\* setprioceiling has given the first mutex of the list another ceiling, and is about
\* to take it out.
Leading(t) == pc[t] = "c_unsched" /\ obj[t] = Head(protect_mutexes[t])

NotedOf(t) == Noted(user_sched_info[t], protect_mutexes[t], inherit_mutexes[t], ceiling)

SchedRight(t) ==
  t \notin uncomputed \cup unsorted /\ ~Leading(t) => Amounts(sched_info[t], NotedOf(t))

\* Nothing that is believed to be in force would be refused.
ValuesValid(t) == Valid(sched_info[t]) /\ Valid(seen[t])

\* The owner has what its waiters have passed on.
Inherits(t) ==
  t \notin uncomputed =>
    \A i \in 1 .. Len(inherit_mutexes[t]) :
      inherit_mutexes[t][i].sched_info.prio <= sched_info[t].prio

CeilingsFifo == \A m \in Protect : ceiling[m] = Normal \/ ceiling[m].policy = "fifo"

\* The list is in the order of the ceilings, but for the mutex that got another one.
Settled(t, m) == pc[t] = "c_unsched" => obj[t] # m

InOrder(t) ==
  t \notin unsorted =>
    \A i, j \in 1 .. Len(protect_mutexes[t]) :
      i < j /\ Settled(t, protect_mutexes[t][i]) /\ Settled(t, protect_mutexes[t][j]) =>
        ceiling[protect_mutexes[t][j]].prio <= ceiling[protect_mutexes[t][i]].prio

\* A list out of order is not empty.
StillHolds(t) == t \in unsorted => Len(protect_mutexes[t]) # 0

ClaimsOf(t) ==
  SchedRight(t) /\ ValuesValid(t) /\ Inherits(t) /\ InOrder(t) /\ StillHolds(t)

ClaimsInv == CeilingsFifo /\ \A t \in Threads : ClaimsOf(t)

-----------------------------------------------------------------------------
(* Inheritance                                                             *)

\* The entry of t's mutex at its owner has at least the priority of t.
PassedOn(t) ==
  LET o == owner[obj[t]] IN
  /\ o # NoThread
  /\ \A i \in 1 .. Len(inherit_mutexes[o]) :
       inherit_mutexes[o][i].mutex = obj[t] =>
         sched_info[t].prio <= inherit_mutexes[o][i].sched_info.prio

WaiterInv == \A t \in boosted : pc[t] \in InInherit /\ PassedOn(t)

-----------------------------------------------------------------------------
(* Sequences                                                               *)

\* A set of natural numbers has a least one.
LEMMA LeastNat ==
  ASSUME NEW T, T \subseteq Nat, T # {}
  PROVE  \E n \in T : \A k \in T : n <= k
<1> DEFINE R == {ss \in Nat \X Nat : ss[1] < ss[2]}
<1>1. IsWellFoundedOn(R, Nat)
  BY NatLessThanWellFounded, Zenon DEF OpToRel
<1>2. PICK n \in T : \A k \in T : ~ (<<k, n>> \in R)
  <2> HIDE DEF R
  <2> QED BY <1>1, WFMin
<1>3. ASSUME NEW k \in T PROVE n <= k
  <2>1. <<k, n>> \in Nat \X Nat /\ <<k, n>>[1] = k /\ <<k, n>>[2] = n
    OBVIOUS
  <2>2. ~ (k < n)
    BY <1>2, <2>1
  <2> QED BY <2>2
<1> QED BY <1>3

\* list_find_elem: the position of the first element e, or 0.
LEMMA FindElemFacts ==
  ASSUME NEW S, NEW list \in Seq(S), NEW e
  PROVE  LET at == FindElem(list, e) IN
           /\ at \in 0 .. Len(list)
           /\ at = 0 <=> ~InList(list, e)
           /\ at # 0 => list[at] = e
<1> DEFINE I == {i \in 1 .. Len(list) : list[i] = e}
<1>1. Len(list) \in Nat /\ I \subseteq Nat
  BY LenProperties
<1>2. FindElem(list, e) = IF I # {} THEN Min(I) ELSE 0
  BY DEF FindElem, SelectInSeq
<1>3. CASE I # {}
  <2>1. Min(I) \in I
    BY <1>1, <1>3, LeastNat DEF Min
  <2> QED BY <1>1, <1>2, <1>3, <2>1 DEF InList
<1>4. CASE I = {}
  BY <1>1, <1>2, <1>4 DEF InList
<1> QED BY <1>3, <1>4

\* list_find_elem_func with mutex_equal: the position of the entry of m, or 0.
LEMMA FindMutexFacts ==
  ASSUME NEW S, NEW list \in Seq(S), NEW m
  PROVE  LET at == FindMutex(list, m) IN
           /\ at \in 0 .. Len(list)
           /\ at = 0 <=> ~HasEntry(list, m)
           /\ at # 0 => list[at].mutex = m
<1> DEFINE I == {i \in 1 .. Len(list) : list[i].mutex = m}
<1>1. Len(list) \in Nat /\ I \subseteq Nat
  BY LenProperties
<1>2. FindMutex(list, m) = IF I # {} THEN Min(I) ELSE 0
  BY DEF FindMutex, SelectInSeq
<1>3. CASE I # {}
  <2>1. Min(I) \in I
    BY <1>1, <1>3, LeastNat DEF Min
  <2> QED BY <1>1, <1>2, <1>3, <2>1 DEF HasEntry
<1>4. CASE I = {}
  BY <1>1, <1>2, <1>4 DEF HasEntry
<1> QED BY <1>3, <1>4

\* list_add_here puts an element at a place.
LEMMA InsertFacts ==
  ASSUME NEW S, NEW list \in Seq(S), NEW at \in 1 .. Len(list) + 1, NEW e \in S
  PROVE  /\ InsertAt(list, at, e) \in Seq(S)
         /\ Len(InsertAt(list, at, e)) = Len(list) + 1
         /\ \A i \in 1 .. Len(list) + 1 :
              InsertAt(list, at, e)[i] =
                IF i < at THEN list[i] ELSE IF i = at THEN e ELSE list[i - 1]
<1> DEFINE before == SubSeq(list, 1, at - 1)
           after == SubSeq(list, at, Len(list))
<1>1. Len(list) \in Nat /\ \A i \in 1 .. Len(list) : list[i] \in S
  BY LenProperties, ElementOfSeq
<1>2. /\ before \in Seq(S) /\ Len(before) = at - 1
      /\ \A i \in 1 .. at - 1 : before[i] = list[i]
  BY <1>1, SubSeqProperties
<1>3. /\ after \in Seq(S) /\ Len(after) = Len(list) - at + 1
      /\ \A i \in 1 .. Len(list) - at + 1 : after[i] = list[at + i - 1]
  BY <1>1, SubSeqProperties
<1> HIDE DEF before, after
<1>4. <<e>> \in Seq(S) /\ Len(<<e>>) = 1 /\ <<e>>[1] = e
  OBVIOUS
<1>5. /\ before \o <<e>> \in Seq(S) /\ Len(before \o <<e>>) = at
      /\ \A i \in 1 .. at : (before \o <<e>>)[i] = IF i < at THEN list[i] ELSE e
  BY <1>2, <1>4, ConcatProperties
<1>6. /\ (before \o <<e>>) \o after \in Seq(S)
      /\ Len((before \o <<e>>) \o after) = Len(list) + 1
      /\ \A i \in 1 .. Len(list) + 1 :
           ((before \o <<e>>) \o after)[i] =
             IF i <= at THEN (before \o <<e>>)[i] ELSE after[i - at]
  BY <1>1, <1>3, <1>5, ConcatProperties
<1>7. InsertAt(list, at, e) = (before \o <<e>>) \o after
  BY DEF InsertAt, before, after
<1>8. ASSUME NEW i \in 1 .. Len(list) + 1
      PROVE  ((before \o <<e>>) \o after)[i] =
               IF i < at THEN list[i] ELSE IF i = at THEN e ELSE list[i - 1]
  <2>1. CASE i <= at
    BY <1>1, <1>5, <1>6, <2>1
  <2>2. CASE i > at
    <3>1. PICK k \in 1 .. Len(list) - at + 1 : k = i - at /\ at + k - 1 = i - 1
      BY <1>1, <2>2
    <3>2. after[k] = list[i - 1]
      BY <1>3, <3>1
    <3>3. ((before \o <<e>>) \o after)[i] = after[k]
      <4>1. ((before \o <<e>>) \o after)[i] =
              IF i <= at THEN (before \o <<e>>)[i] ELSE after[i - at]
        BY ONLY <1>6
      <4>2. ~ (i <= at) /\ i - at = k
        BY <1>1, <2>2, <3>1
      <4> QED BY ONLY <4>1, <4>2
    <3>4. ~ (i < at) /\ i # at
      BY <1>1, <2>2
    <3> QED BY ONLY <3>2, <3>3, <3>4
  <2>3. i <= at \/ i > at
    BY <1>1
  <2> QED BY <2>1, <2>2, <2>3, Zenon
<1> QED BY <1>6, <1>7, <1>8

\* list_rm takes the element at a place out.
LEMMA RemoveFacts ==
  ASSUME NEW S, NEW list \in Seq(S), NEW at \in 1 .. Len(list)
  PROVE  /\ ListRm(list, at) \in Seq(S)
         /\ Len(ListRm(list, at)) = Len(list) - 1
         /\ \A i \in 1 .. Len(list) - 1 :
              ListRm(list, at)[i] = IF i < at THEN list[i] ELSE list[i + 1]
<1> DEFINE before == SubSeq(list, 1, at - 1)
           after == SubSeq(list, at + 1, Len(list))
<1>1. Len(list) \in Nat /\ \A i \in 1 .. Len(list) : list[i] \in S
  BY LenProperties, ElementOfSeq
<1>2. /\ before \in Seq(S) /\ Len(before) = at - 1
      /\ \A i \in 1 .. at - 1 : before[i] = list[i]
  BY <1>1, SubSeqProperties
<1>3. /\ after \in Seq(S) /\ Len(after) = Len(list) - at
      /\ \A i \in 1 .. Len(list) - at : after[i] = list[at + i]
  BY <1>1, SubSeqProperties
<1>4. ListRm(list, at) = before \o after
  BY DEF ListRm, RemoveAt
<1> HIDE DEF before, after
<1>5. /\ before \o after \in Seq(S)
      /\ Len(before \o after) = Len(list) - 1
      /\ \A i \in 1 .. Len(list) - 1 :
           (before \o after)[i] = IF i <= at - 1 THEN before[i] ELSE after[i - (at - 1)]
  BY <1>1, <1>2, <1>3, ConcatProperties, SMTT(60)
<1> QED BY <1>1, <1>2, <1>3, <1>4, <1>5

\* list_add puts an element at the end.
LEMMA AddFacts ==
  ASSUME NEW S, NEW list \in Seq(S), NEW e \in S
  PROVE  /\ ListAdd(list, e) \in Seq(S)
         /\ Len(ListAdd(list, e)) = Len(list) + 1
         /\ \A i \in 1 .. Len(list) + 1 :
              ListAdd(list, e)[i] = IF i <= Len(list) THEN list[i] ELSE e
BY LenProperties DEF ListAdd

\* list_add_here finds a place, and it is the first before a smaller element.
LEMMA AddHereFacts ==
  ASSUME NEW list \in Seq(Protect), NEW m
  PROVE  LET at == AddHere(list, m) IN
           /\ at \in 1 .. Len(list) + 1
           /\ \A j \in 1 .. at - 1 : ~MutexPrioSmaller(m, list[j])
           /\ at <= Len(list) => MutexPrioSmaller(m, list[at])
<1> DEFINE T == {i \in 1 .. Len(list) + 1 : i <= Len(list) => MutexPrioSmaller(m, list[i])}
<1>1. Len(list) \in Nat
  BY LenProperties
<1>2. Len(list) + 1 \in T /\ T \subseteq Nat
  BY <1>1
<1>3. PICK n \in T : \A k \in T : n <= k
  BY <1>2, LeastNat
<1>4. \A j \in 1 .. n - 1 : ~MutexPrioSmaller(m, list[j])
  BY <1>1, <1>3
<1>5. \E i \in 1 .. Len(list) + 1 :
        /\ \A j \in 1 .. i - 1 : ~MutexPrioSmaller(m, list[j])
        /\ i <= Len(list) => MutexPrioSmaller(m, list[i])
  BY <1>3, <1>4
<1> QED BY <1>5 DEF AddHere

-----------------------------------------------------------------------------
(* The fold of tb_compute_sched                                            *)

\* The inherited priorities, one after the other.
Inherited(base, list) == FoldLeft(LAMBDA a, im : Merge(a, im.sched_info), base, list)

\* A nonempty set of positions has a greatest one.
LEMMA MaxFacts ==
  ASSUME NEW n \in Nat, NEW s, s \subseteq 1 .. n, s # {}
  PROVE  Max(s) \in s /\ \A k \in s : k <= Max(s)
<1> DEFINE U == {u \in Nat : \A k \in s : k <= u}
<1>1. n \in U /\ U \subseteq Nat
  OBVIOUS
<1>2. PICK u \in U : \A v \in U : u <= v
  BY <1>1, LeastNat
<1>3. u \in s
  <2> SUFFICES ASSUME u \notin s PROVE FALSE
    OBVIOUS
  <2>1. \A k \in s : k \in Nat /\ k >= 1 /\ k <= u /\ k # u
    BY <1>2
  <2>2. u - 1 \in Nat
    <3>1. PICK x \in s : TRUE
      OBVIOUS
    <3>2. x \in Nat /\ x >= 1 /\ x <= u
      BY <2>1
    <3> QED BY <3>2
  <2>3. \A k \in s : k <= u - 1
    BY <2>1, <2>2
  <2>4. u - 1 \in U
    BY <2>2, <2>3
  <2> QED BY <1>2, <2>2, <2>4
<1>4. \A k \in s : k \in Nat /\ k <= u
  BY <1>2
<1>5. \E x \in s : \A y \in s : x >= y
  BY <1>2, <1>3, <1>4
<1>6. Max(s) \in s /\ \A y \in s : Max(s) >= y
  <2> QED BY <1>5, Zenon DEF Max
<1> QED BY <1>4, <1>6

\* The fold takes the entries in order: there is a value for every prefix of the list.
LEMMA FoldSteps ==
  ASSUME NEW S, NEW list \in Seq(S), NEW base
  PROVE  \E acc :
           /\ acc[0] = base
           /\ \A n \in 1 .. Len(list) : acc[n] = Merge(acc[n - 1], list[n].sched_info)
           /\ Inherited(base, list) = acc[Len(list)]
<1> DEFINE Value(f, s) ==
             IF s = {} THEN base ELSE Merge(f[s \ {Max(s)}], list[Max(s)].sched_info)
           Solves(f, n) == f = [s \in SUBSET (1 .. n) |-> Value(f, s)]
<1>1. Len(list) \in Nat /\ DOMAIN list = 1 .. Len(list)
  BY LenProperties
<1>2. \A n \in 0 .. Len(list) : \E f : Solves(f, n)
  <2> DEFINE T == {n \in 0 .. Len(list) : ~ \E f : Solves(f, n)}
  <2> SUFFICES ASSUME T # {} PROVE FALSE
    OBVIOUS
  <2>1. T \subseteq Nat
    BY <1>1
  <2>2. PICK n \in T : \A k \in T : n <= k
    <3> HIDE DEF T
    <3> QED BY <2>1, LeastNat
  <2>3. n # 0
    <3> DEFINE f == [s \in SUBSET (1 .. 0) |-> base]
    <3>1. \A s \in SUBSET (1 .. 0) : s = {}
      OBVIOUS
    <3>2. \A s \in SUBSET (1 .. 0) : Value(f, s) = base
      BY <3>1
    <3>3. Solves(f, 0)
      <4> HIDE DEF Value
      <4> QED BY <3>2
    <3>4. ~ (0 \in T)
      BY <3>3
    <3> QED BY <3>4
  <2>4. n \in Nat /\ n - 1 \in 0 .. Len(list) /\ ~ (n <= n - 1)
    BY <1>1, <2>1, <2>3
  <2>5. PICK f : Solves(f, n - 1)
    BY <2>2, <2>4
  <2> DEFINE g == [s \in SUBSET (1 .. n) |->
                     IF n \in s THEN Merge(f[s \ {n}], list[n].sched_info) ELSE f[s]]
  <2>6. ASSUME NEW s \in SUBSET (1 .. n) PROVE g[s] = Value(g, s)
    <3>1. CASE n \in s
      <4>1. Max(s) = n
        <5>1. Max(s) \in s /\ \A k \in s : k <= Max(s)
          BY <2>4, <3>1, MaxFacts
        <5>2. Max(s) \in 1 .. n /\ n <= Max(s)
          BY <3>1, <5>1
        <5> QED BY <2>4, <5>2
      <4>2. s \ {n} \in SUBSET (1 .. n) /\ n \notin s \ {n}
        OBVIOUS
      <4>3. g[s \ {n}] = f[s \ {n}]
        BY <4>2
      <4> QED BY <3>1, <4>1, <4>3
    <3>2. CASE n \notin s
      <4>1. s \in SUBSET (1 .. n - 1)
        BY <2>4, <3>2
      <4>2. g[s] = Value(f, s)
        BY <2>5, <3>2, <4>1
      <4>3. CASE s = {}
        BY <4>2, <4>3
      <4>4. CASE s # {}
        <5> DEFINE r == s \ {Max(s)}
        <5>1. r \in SUBSET (1 .. n) /\ n \notin r
          BY <3>2
        <5>2. g[r] = f[r]
          BY <5>1
        <5> QED BY <4>2, <4>4, <5>2
      <4> QED BY <4>3, <4>4
    <3> QED BY <3>1, <3>2
  <2>7. Solves(g, n)
    <3>1. g = [s \in SUBSET (1 .. n) |-> g[s]]
      OBVIOUS
    <3> HIDE DEF g, Value
    <3> QED BY <2>6, <3>1
  <2> QED BY <2>2, <2>7
<1> DEFINE iter == CHOOSE f : Solves(f, Len(list))
<1>3. Solves(iter, Len(list))
  <2> HIDE DEF Solves
  <2>1. Len(list) \in 0 .. Len(list)
    BY <1>1
  <2>2. \E f : Solves(f, Len(list))
    BY <1>2, <2>1
  <2> QED BY <2>2
<1>4. Inherited(base, list) = iter[1 .. Len(list)]
  BY <1>1, Zenon DEF Inherited, FoldLeft, MapThenFoldSet
<1> DEFINE acc == [n \in 0 .. Len(list) |-> iter[1 .. n]]
<1> HIDE DEF iter
<1>5. \A s \in SUBSET (1 .. Len(list)) : iter[s] = Value(iter, s)
  BY <1>3
<1>6. acc[0] = base
  <2>1. 1 .. 0 = {} /\ {} \in SUBSET (1 .. Len(list)) /\ 0 \in 0 .. Len(list)
    BY <1>1
  <2>2. iter[{}] = base
    BY <1>5, <2>1
  <2>3. acc[0] = iter[1 .. 0]
    BY <2>1
  <2> QED BY <2>1, <2>2, <2>3
<1>7. ASSUME NEW n \in 1 .. Len(list)
      PROVE  acc[n] = Merge(acc[n - 1], list[n].sched_info)
  <2>1. 1 .. n \in SUBSET (1 .. Len(list)) /\ n \in Nat /\ n >= 1 /\ n \in 1 .. n
    BY <1>1
  <2>2. Max(1 .. n) = n
    <3>1. 1 .. n \subseteq 1 .. n /\ 1 .. n # {}
      BY <2>1
    <3>2. Max(1 .. n) \in 1 .. n /\ \A k \in 1 .. n : k <= Max(1 .. n)
      BY <2>1, <3>1, MaxFacts
    <3>3. n <= Max(1 .. n)
      BY <2>1, <3>2
    <3> QED BY <2>1, <3>2, <3>3
  <2>3. (1 .. n) \ {n} = 1 .. n - 1
    BY <2>1
  <2>4. iter[1 .. n] = Merge(iter[1 .. n - 1], list[n].sched_info)
    BY <1>5, <2>1, <2>2, <2>3
  <2>5. n - 1 \in 0 .. Len(list) /\ n \in 0 .. Len(list)
    BY <1>1
  <2> QED BY <2>4, <2>5
<1>8. acc[Len(list)] = iter[1 .. Len(list)]
  BY <1>1
<1> HIDE DEF acc
<1> QED BY <1>4, <1>6, <1>7, <1>8

\* The fields of packed scheduling parameters.
LEMMA InfoTypes ==
  ASSUME NEW info \in SchedInfo
  PROVE  info.policy \in Policies /\ info.prio \in 0 .. 99 /\ info.prio \in Int
BY DEF SchedInfo

\* Priorities are ordered.
LEMMA PrioOrder ==
  /\ \A x \in 0 .. 99 : x <= x /\ (x # 0 => x > 0)
  /\ \A x, y \in 0 .. 99 : (~ (x > y) => x <= y) /\ (x <= y /\ y <= x => x = y)
  /\ \A x, y, z \in 0 .. 99 : x <= y /\ y <= z => x <= z
OBVIOUS

\* Nothing but scheduling parameters comes out of Merge.
LEMMA MergeType ==
  ASSUME NEW a \in SchedInfo, NEW b \in SchedInfo
  PROVE  Merge(a, b) \in SchedInfo
BY DEF Merge

\* Merge adds a claim.
LEMMA MergeAmounts ==
  ASSUME NEW a \in SchedInfo, NEW b \in SchedInfo, NEW C \in SUBSET SchedInfo, Amounts(a, C)
  PROVE  Amounts(Merge(a, b), C \cup {b})
<1>1. /\ a.prio \in Int /\ b.prio \in Int
      /\ a \in C /\ \A c \in C : c.prio \in Int /\ c.prio <= a.prio
  BY InfoTypes DEF Amounts
<1>2. \A p : Fifo(p).policy = "fifo" /\ Fifo(p).prio = p
  BY DEF Fifo
<1>3. CASE b.prio > a.prio
  <2>1. Merge(a, b) = b
    BY <1>3 DEF Merge
  <2>2. \A c \in C : c.prio < b.prio
    BY <1>1, <1>3
  <2>3. Fifo(b.prio) \notin C
    BY <1>1, <1>2, <2>2
  <2>4. b.policy = "rr" => Fifo(b.prio) \notin C \cup {b}
    BY <1>2, <2>3
  <2> QED BY <1>1, <2>1, <2>2, <2>4 DEF Amounts
<1>4. CASE b.prio = a.prio /\ a.policy = "rr"
  <2>1. Merge(a, b) = b
    BY <1>4 DEF Merge
  <2>2. Fifo(b.prio) \notin C
    BY <1>4 DEF Amounts
  <2>3. b.policy = "rr" => Fifo(b.prio) \notin C \cup {b}
    BY <1>2, <2>2
  <2> QED BY <1>1, <1>4, <2>1, <2>3 DEF Amounts
<1>5. CASE ~ (b.prio > a.prio) /\ ~ (b.prio = a.prio /\ a.policy = "rr")
  <2>1. Merge(a, b) = a
    BY <1>5 DEF Merge
  <2>2. a.policy = "rr" => b.prio # a.prio
    BY <1>5
  <2>3. a.policy = "rr" => Fifo(a.prio) \notin C \cup {b}
    BY <1>2, <2>2 DEF Amounts
  <2> QED BY <1>1, <1>5, <2>1, <2>3 DEF Amounts
<1> QED BY <1>3, <1>4, <1>5

\* What is in a list of entries.
LEMMA EntryTypes ==
  ASSUME NEW list \in Seq(Entry)
  PROVE  /\ Len(list) \in Nat
         /\ \A i \in 1 .. Len(list) :
              list[i] \in Entry /\ list[i].mutex \in Inherit /\ list[i].sched_info \in SchedInfo
<1>1. Len(list) \in Nat
  BY LenProperties
<1>2. ASSUME NEW i \in 1 .. Len(list) PROVE list[i] \in Entry
  BY ElementOfSeq
<1> QED BY <1>1, <1>2 DEF Entry

\* The fold keeps the type.
LEMMA InheritedType ==
  ASSUME NEW base \in SchedInfo, NEW list \in Seq(Entry)
  PROVE  Inherited(base, list) \in SchedInfo
<1>1. Len(list) \in Nat /\ \A i \in 1 .. Len(list) : list[i].sched_info \in SchedInfo
  BY EntryTypes
<1>2. PICK acc :
        /\ acc[0] = base
        /\ \A n \in 1 .. Len(list) : acc[n] = Merge(acc[n - 1], list[n].sched_info)
        /\ Inherited(base, list) = acc[Len(list)]
  BY FoldSteps
<1> DEFINE T == {n \in 0 .. Len(list) : acc[n] \notin SchedInfo}
<1>3. T = {}
  <2> SUFFICES ASSUME T # {} PROVE FALSE
    OBVIOUS
  <2>1. T \subseteq Nat
    BY <1>1
  <2>2. PICK n \in T : \A k \in T : n <= k
    <3> HIDE DEF T
    <3> QED BY <2>1, LeastNat
  <2>3. n \in 1 .. Len(list) /\ n - 1 \in 0 .. Len(list) /\ ~ (n <= n - 1)
    BY <1>1, <1>2, <2>2
  <2>4. acc[n - 1] \in SchedInfo
    BY <2>2, <2>3
  <2>5. acc[n] \in SchedInfo
    BY <1>1, <1>2, <2>3, <2>4, MergeType
  <2> QED BY <2>2, <2>5
<1> QED BY <1>1, <1>2, <1>3

\* The fold is what the base and all entries amount to.
LEMMA InheritedAmounts ==
  ASSUME NEW base \in SchedInfo, NEW list \in Seq(Entry), NEW C \in SUBSET SchedInfo,
         Amounts(base, C)
  PROVE  Amounts(Inherited(base, list), C \cup {list[i].sched_info : i \in 1 .. Len(list)})
<1>1. Len(list) \in Nat /\ \A i \in 1 .. Len(list) : list[i].sched_info \in SchedInfo
  BY EntryTypes
<1>2. PICK acc :
        /\ acc[0] = base
        /\ \A n \in 1 .. Len(list) : acc[n] = Merge(acc[n - 1], list[n].sched_info)
        /\ Inherited(base, list) = acc[Len(list)]
  BY FoldSteps
<1> DEFINE Upto(n) == C \cup {list[i].sched_info : i \in 1 .. n}
           Fine(n) == acc[n] \in SchedInfo /\ Amounts(acc[n], Upto(n))
           T == {n \in 0 .. Len(list) : ~ Fine(n)}
<1>3. Fine(0)
  <2>1. Upto(0) = C
    OBVIOUS
  <2> QED BY <1>2, <2>1
<1>4. ASSUME NEW n \in 1 .. Len(list), Fine(n - 1) PROVE Fine(n)
  <2>1. Upto(n) = Upto(n - 1) \cup {list[n].sched_info}
    <3>1. 1 .. n = (1 .. n - 1) \cup {n}
      BY <1>1
    <3> QED BY <3>1
  <2>2. Upto(n - 1) \in SUBSET SchedInfo
    BY <1>1
  <2>3. list[n].sched_info \in SchedInfo /\ acc[n] = Merge(acc[n - 1], list[n].sched_info)
    BY <1>1, <1>2
  <2>4. acc[n] \in SchedInfo
    BY <1>4, <2>3, MergeType
  <2> HIDE DEF Upto
  <2>5. Amounts(acc[n], Upto(n))
    BY <1>4, <2>1, <2>2, <2>3, MergeAmounts
  <2> QED BY <2>4, <2>5
<1>5. T = {}
  <2> HIDE DEF Fine
  <2> SUFFICES ASSUME T # {} PROVE FALSE
    OBVIOUS
  <2>1. T \subseteq Nat
    BY <1>1
  <2>2. PICK n \in T : \A k \in T : n <= k
    <3> HIDE DEF T
    <3> QED BY <2>1, LeastNat
  <2>3. n \in 1 .. Len(list) /\ n - 1 \in 0 .. Len(list) /\ ~ (n <= n - 1)
    BY <1>1, <1>3, <2>2
  <2> QED BY <1>4, <2>2, <2>3
<1>6. Fine(Len(list))
  <2> HIDE DEF Fine
  <2> QED BY <1>1, <1>5
<1> QED BY <1>2, <1>6

\* tb_compute_sched keeps the type.
LEMMA ComputedType ==
  ASSUME NEW user \in SchedInfo, NEW protect \in Seq(Protect), NEW inherit \in Seq(Entry),
         ceiling' \in [Protect -> SchedInfo]
  PROVE  ComputeSched(user, protect, inherit) \in SchedInfo
<1> DEFINE base == IF protect = <<>> THEN user ELSE Merge(user, ceiling'[Head(protect)])
<1>1. base \in SchedInfo
  <2>1. protect # <<>> => ceiling'[Head(protect)] \in SchedInfo
    BY HeadTailProperties
  <2> QED BY <2>1, MergeType
<1>2. ComputeSched(user, protect, inherit) = Inherited(base, inherit)
  BY DEF ComputeSched, Inherited
<1> QED BY <1>1, <1>2, InheritedType

\* tb_compute_sched is what the claims that it looks at amount to.
LEMMA ComputedAmounts ==
  ASSUME NEW user \in SchedInfo, NEW protect \in Seq(Protect), NEW inherit \in Seq(Entry),
         ceiling' \in [Protect -> SchedInfo]
  PROVE  Amounts(ComputeSched(user, protect, inherit),
                 Noted(user, protect, inherit, ceiling'))
<1> DEFINE base == IF protect = <<>> THEN user ELSE Merge(user, ceiling'[Head(protect)])
           first == {ceiling'[protect[i]] : i \in {1} \cap (1 .. Len(protect))}
<1>1. Amounts(user, {user})
  <2>1. user.policy = "rr" => user # Fifo(user.prio)
    BY DEF Fifo
  <2>2. user.prio \in Int
    BY InfoTypes
  <2> QED BY <2>1, <2>2 DEF Amounts
<1>2. base \in SchedInfo /\ Amounts(base, {user} \cup first) /\ first \subseteq SchedInfo
  <2>1. CASE protect = <<>>
    <3>1. first = {}
      BY <2>1
    <3> QED BY <1>1, <2>1, <3>1
  <2>2. CASE protect # <<>>
    <3>1. Head(protect) = protect[1] /\ protect[1] \in Protect /\ 1 \in 1 .. Len(protect)
      BY <2>2, HeadTailProperties, LenProperties, EmptySeq
    <3>2. first = {ceiling'[protect[1]]}
      BY <3>1
    <3>3. ceiling'[protect[1]] \in SchedInfo /\ {user} \in SUBSET SchedInfo
      BY <3>1
    <3> HIDE DEF first
    <3>4. base = Merge(user, ceiling'[protect[1]])
      BY <2>2, <3>1
    <3>5. Amounts(base, {user} \cup {ceiling'[protect[1]]})
      BY <1>1, <3>3, <3>4, MergeAmounts
    <3> QED BY <3>2, <3>3, <3>4, <3>5, MergeType
  <2> QED BY <2>1, <2>2
<1>3. ComputeSched(user, protect, inherit) = Inherited(base, inherit)
  BY DEF ComputeSched, Inherited
<1>4. Noted(user, protect, inherit, ceiling')
        = ({user} \cup first) \cup {inherit[i].sched_info : i \in 1 .. Len(inherit)}
  BY DEF Noted
<1> HIDE DEF base, first
<1>5. {user} \cup first \in SUBSET SchedInfo
  BY <1>2
<1> QED BY <1>2, <1>3, <1>4, <1>5, InheritedAmounts

-----------------------------------------------------------------------------
(* Types                                                                   *)

\* Setting the scheduler sets it for one thread, or fails.
LEMMA SetSchedType ==
  ASSUME TypeOK, NEW t \in Threads, NEW u \in Threads, NEW info \in SchedInfo,
         SetSched(t, u, info)
  PROVE  /\ sched_info' \in [Threads -> SchedInfo]
         /\ kernel' \in [Threads -> SchedInfo]
         /\ uncomputed' \subseteq Threads
<1>1. CASE /\ sched_info' = [sched_info EXCEPT ![u] = info]
           /\ kernel' = [kernel EXCEPT ![IF pc[u] = "gone" THEN t ELSE u] = info]
           /\ uncomputed' = uncomputed \ {u}
  BY <1>1 DEF TypeOK
<1>2. CASE UNCHANGED <<sched_info, kernel>> /\ uncomputed' = uncomputed \cup {u}
  BY <1>2 DEF TypeOK
<1> QED BY <1>1, <1>2 DEF SetSched

\* tb_compute_sched and set_sched write nothing but scheduling parameters.
LEMMA RescheduleType ==
  ASSUME TypeOK, NEW t \in Threads, NEW u \in Threads, Reschedule(t, u),
         user_sched_info' \in [Threads -> SchedInfo],
         protect_mutexes' \in [Threads -> Seq(Protect)],
         inherit_mutexes' \in [Threads -> Seq(Entry)],
         ceiling' \in [Protect -> SchedInfo]
  PROVE  /\ sched_info' \in [Threads -> SchedInfo]
         /\ kernel' \in [Threads -> SchedInfo]
         /\ uncomputed' \subseteq Threads
<1> DEFINE info == ComputeSched(user_sched_info'[u], protect_mutexes'[u], inherit_mutexes'[u])
<1>1. info \in SchedInfo
  <2>1. /\ user_sched_info'[u] \in SchedInfo
        /\ protect_mutexes'[u] \in Seq(Protect)
        /\ inherit_mutexes'[u] \in Seq(Entry)
    OBVIOUS
  <2> QED BY <2>1, ComputedType
<1>2. SetSched(t, u, info)
  BY DEF Reschedule
<1> HIDE DEF info
<1> QED BY <1>1, <1>2, SetSchedType

\* The values that actions store.
LEMMA Values ==
  /\ Normal \in SchedInfo
  /\ \A c \in Ceilings : Fifo(c) \in SchedInfo /\ InitialCeiling(c) \in SchedInfo
  /\ \A m \in Inherit : NewEntry(m) \in Entry
<1>1. Normal \in SchedInfo
  BY DEF Normal, SchedInfo, Policies
<1>2. \A c \in Ceilings : Fifo(c) \in SchedInfo
  BY ConstantsAssumption DEF Fifo, SchedInfo, Policies
<1> QED BY <1>1, <1>2 DEF InitialCeiling, NewEntry, Entry

\* The entry of a mutex gets other scheduling parameters, the list is as it was else.
StoreEntry(o, at, info) ==
  inherit_mutexes' = [inherit_mutexes EXCEPT ![o][at].sched_info = info]

EntryStored(o, at, info) ==
  /\ inherit_mutexes' \in [Threads -> Seq(Entry)]
  /\ \A u \in Threads \ {o} : inherit_mutexes'[u] = inherit_mutexes[u]
  /\ Len(inherit_mutexes'[o]) = Len(inherit_mutexes[o])
  /\ \A i \in 1 .. Len(inherit_mutexes[o]) :
       /\ inherit_mutexes'[o][i].mutex = inherit_mutexes[o][i].mutex
       /\ inherit_mutexes'[o][i].sched_info =
            IF i = at THEN info ELSE inherit_mutexes[o][i].sched_info

\* tb_inherit_unsched and the boost change the sched_info of one entry, and no more.
LEMMA EntryChanged ==
  ASSUME TypeOK, NEW o \in Threads, NEW at \in 1 .. Len(inherit_mutexes[o]),
         NEW info \in SchedInfo, StoreEntry(o, at, info)
  PROVE  EntryStored(o, at, info)
<1> DEFINE list == inherit_mutexes[o]
           entry == [list[at] EXCEPT !.sched_info = info]
<1>1. inherit_mutexes \in [Threads -> Seq(Entry)] /\ list \in Seq(Entry)
  BY DEF TypeOK, Entry
<1>2. list[at] \in Entry
  BY <1>1, EntryTypes
<1>3. entry \in Entry /\ entry.mutex = list[at].mutex /\ entry.sched_info = info
  BY <1>2 DEF Entry
<1>4. inherit_mutexes' = [inherit_mutexes EXCEPT ![o] = [list EXCEPT ![at] = entry]]
  BY DEF StoreEntry
<1> HIDE DEF entry
<1>5. /\ [list EXCEPT ![at] = entry] \in Seq(Entry)
      /\ Len([list EXCEPT ![at] = entry]) = Len(list)
      /\ \A j \in 1 .. Len(list) : [list EXCEPT ![at] = entry][j] =
            IF j = at THEN entry ELSE list[j]
  BY <1>1, <1>3, ExceptSeq
<1>6. inherit_mutexes'[o] = [list EXCEPT ![at] = entry]
  BY <1>1, <1>4
<1>7. /\ inherit_mutexes' \in [Threads -> Seq(Entry)]
      /\ \A u \in Threads \ {o} : inherit_mutexes'[u] = inherit_mutexes[u]
  BY <1>1, <1>4, <1>5
<1>8. ASSUME NEW i \in 1 .. Len(list)
      PROVE  /\ inherit_mutexes'[o][i].mutex = list[i].mutex
             /\ inherit_mutexes'[o][i].sched_info = IF i = at THEN info ELSE list[i].sched_info
  <2>1. inherit_mutexes'[o][i] = IF i = at THEN entry ELSE list[i]
    BY <1>5, <1>6
  <2> QED BY <1>3, <2>1
<1> QED BY <1>5, <1>6, <1>7, <1>8 DEF EntryStored

\* Initially the lists are empty and everybody runs as in tbthread_init.
LEMMA TypeInit == ASSUME Init PROVE TypeOK
<1> USE Values, ConstantsAssumption DEF Init, TypeOK
<1>1. <<>> \in Seq(Protect) /\ <<>> \in Seq(Entry)
  OBVIOUS
<1>2. ceiling \in [Protect -> SchedInfo]
  BY DEF Init
<1>3. inherit_mutexes \in [Threads -> Seq([mutex : Inherit, sched_info : SchedInfo])]
  BY <1>1 DEF Entry
<1>4. pc \in [Threads -> PC]
  BY DEF PC
<1> QED BY <1>1, <1>2, <1>3, <1>4 DEF Mutexes

\* A step keeps the types; what an action looks for in a list is there.
LEMMA TypeStep == ASSUME StructureInv, [Next]_vars PROVE TypeOK'
<1>0. TypeOK
  BY DEF StructureInv
<1> USE Values, ConstantsAssumption
<1> USE DEF Goto, fields, mutexes, locals, histories, PC
<1>1. ASSUME NEW t \in Threads, NEW m \in Protect, LockProtect(t, m) PROVE TypeOK'
  BY <1>0, <1>1 DEF TypeOK, LockProtect, Mutexes
<1>2. ASSUME NEW t \in Threads, NEW m \in Protect, UnlockProtect(t, m) PROVE TypeOK'
  BY <1>0, <1>2 DEF TypeOK, UnlockProtect, Mutexes
<1>3. ASSUME NEW t \in Threads, NEW m \in Protect, SetPrioCeilingHeld(t, m) PROVE TypeOK'
  <2>1. PICK c \in Ceilings : ceiling' = [ceiling EXCEPT ![m] = Fifo(c)]
    BY <1>3 DEF SetPrioCeilingHeld
  <2>2. ceiling' \in [Protect -> SchedInfo]
    BY <1>0, <2>1 DEF TypeOK
  <2> QED BY <1>0, <1>3, <2>2 DEF TypeOK, SetPrioCeilingHeld
<1>4. ASSUME NEW t \in Threads, ProtectSched(t) PROVE TypeOK'
  <2> DEFINE at == AddHere(protect_mutexes[t], obj[t])
  <2>1. obj[t] \in Protect /\ protect_mutexes[t] \in Seq(Protect)
    BY <1>0, <1>4 DEF ProtectSched, StructureInv, CallKnown, InProtect, TypeOK
  <2>2. InsertAt(protect_mutexes[t], at, obj[t]) \in Seq(Protect)
    BY <2>1, AddHereFacts, InsertFacts
  <2>3. protect_mutexes' \in [Threads -> Seq(Protect)]
    BY <1>0, <1>4, <2>2 DEF ProtectSched, TypeOK
  <2>4. /\ user_sched_info' \in [Threads -> SchedInfo]
        /\ inherit_mutexes' \in [Threads -> Seq(Entry)]
        /\ ceiling' \in [Protect -> SchedInfo]
    BY <1>0, <1>4 DEF ProtectSched, TypeOK, Entry
  <2>5. /\ sched_info' \in [Threads -> SchedInfo] /\ kernel' \in [Threads -> SchedInfo]
        /\ uncomputed' \subseteq Threads
    <3>1. CASE Reschedule(t, t)
      BY <1>0, <2>3, <2>4, <3>1, RescheduleType
    <3>2. CASE NoReschedule
      BY <1>0, <3>2 DEF NoReschedule, TypeOK
    <3> QED BY <1>4, <3>1, <3>2 DEF ProtectSched
  <2>6. pc' \in [Threads -> PC] /\ obj' \in [Threads -> Mutexes \cup {NoMutex}]
    BY <1>0, <1>4 DEF ProtectSched, TypeOK
  <2> QED BY <1>0, <1>4, <2>3, <2>4, <2>5, <2>6 DEF ProtectSched, TypeOK, Entry
<1>5. ASSUME NEW t \in Threads, ProtectUnsched(t) PROVE TypeOK'
  <2> DEFINE list == protect_mutexes[t]
             at == FindElem(list, obj[t])
  <2>1. /\ pc[t] \in {"unsched", "c_unsched"} /\ list \in Seq(Protect)
        /\ protect_mutexes' = [protect_mutexes EXCEPT ![t] = ListRm(@, at)]
    BY <1>0, <1>5 DEF ProtectUnsched, TypeOK
  <2>2. InList(list, obj[t])
    BY <2>1 DEF StructureInv, CallKnown, InProtect, ProtectListed, Unlisted
  <2>3. at \in 1 .. Len(list)
    BY <2>1, <2>2, FindElemFacts
  <2>4. protect_mutexes' \in [Threads -> Seq(Protect)]
    BY <1>0, <2>1, <2>3, RemoveFacts DEF TypeOK
  <2>5. /\ user_sched_info' \in [Threads -> SchedInfo]
        /\ inherit_mutexes' \in [Threads -> Seq(Entry)]
        /\ ceiling' \in [Protect -> SchedInfo]
    BY <1>0, <1>5 DEF ProtectUnsched, TypeOK, Entry
  <2>6. /\ sched_info' \in [Threads -> SchedInfo] /\ kernel' \in [Threads -> SchedInfo]
        /\ uncomputed' \subseteq Threads
    <3>1. CASE Reschedule(t, t)
      BY <1>0, <2>4, <2>5, <3>1, RescheduleType
    <3>2. CASE NoReschedule
      BY <1>0, <3>2 DEF NoReschedule, TypeOK
    <3> QED BY <1>5, <3>1, <3>2 DEF ProtectUnsched
  <2>7. pc' \in [Threads -> PC] /\ unsorted' \subseteq Threads
    BY <1>0, <1>5 DEF ProtectUnsched, TypeOK
  <2> QED BY <1>0, <1>5, <2>4, <2>5, <2>6, <2>7 DEF ProtectUnsched, TypeOK, Entry
<1>6. ASSUME NEW t \in Threads, Free(t) PROVE TypeOK'
  BY <1>0, <1>6 DEF TypeOK, Free
<1>7. ASSUME NEW t \in Threads, SetPrioCeiling(t) PROVE TypeOK'
  <2>1. PICK c \in Ceilings : ceiling' = [ceiling EXCEPT ![obj[t]] = Fifo(c)]
    BY <1>7 DEF SetPrioCeiling
  <2>2. ceiling' \in [Protect -> SchedInfo]
    BY <1>0, <2>1 DEF TypeOK
  <2> QED BY <1>0, <1>7, <2>2 DEF TypeOK, SetPrioCeiling
<1>8. ASSUME NEW t \in Threads, NEW m \in Inherit, LockInherit(t, m) PROVE TypeOK'
  BY <1>0, <1>8 DEF TypeOK, LockInherit, Mutexes
<1>9. ASSUME NEW t \in Threads, NEW m \in Inherit, UnlockInherit(t, m) PROVE TypeOK'
  <2> DEFINE list == inherit_mutexes[t]
             at == FindMutex(list, m)
  <2>1. /\ owner[m] = t /\ list \in Seq(Entry)
        /\ inherit_mutexes' = [inherit_mutexes EXCEPT ![t] = ListRm(@, at)]
    BY <1>0, <1>9 DEF UnlockInherit, TypeOK, Entry
  <2>2. HasEntry(list, m)
    BY <2>1 DEF StructureInv, InheritListed
  <2>3. at \in 1 .. Len(list)
    BY <2>1, <2>2, FindMutexFacts
  <2>4. inherit_mutexes' \in [Threads -> Seq(Entry)]
    <3>1. ListRm(list, at) \in Seq(Entry)
      BY <2>1, <2>3, RemoveFacts
    <3> QED BY <1>0, <2>1, <3>1 DEF TypeOK, Entry
  <2>5. /\ user_sched_info' \in [Threads -> SchedInfo]
        /\ protect_mutexes' \in [Threads -> Seq(Protect)]
        /\ ceiling' \in [Protect -> SchedInfo]
    BY <1>0, <1>9 DEF UnlockInherit, TypeOK
  <2>6. /\ sched_info' \in [Threads -> SchedInfo] /\ kernel' \in [Threads -> SchedInfo]
        /\ uncomputed' \subseteq Threads
    <3>1. CASE Reschedule(t, t)
      BY <1>0, <2>4, <2>5, <3>1, RescheduleType
    <3>2. CASE NoReschedule
      BY <1>0, <3>2 DEF NoReschedule, TypeOK
    <3> QED BY <1>9, <3>1, <3>2 DEF UnlockInherit
  <2>7. pc' \in [Threads -> PC]
    BY <1>0, <1>9 DEF UnlockInherit, TypeOK, First, Sleepers
  <2>8. owner' \in [Mutexes -> Threads \cup {NoThread}] /\ boosted' \subseteq Threads
    BY <1>0, <1>9 DEF UnlockInherit, TypeOK
  <2>9. UNCHANGED <<internal_futex, obj, seen, asked, unsorted>>
    BY <1>9 DEF UnlockInherit
  <2> QED BY <1>0, <2>4, <2>5, <2>6, <2>7, <2>8, <2>9 DEF TypeOK, Entry
<1>10. ASSUME NEW t \in Threads, TakeInherit(t) PROVE TypeOK'
  <2>1. obj[t] \in Inherit /\ inherit_mutexes[t] \in Seq(Entry)
    BY <1>0, <1>10 DEF TakeInherit, StructureInv, CallKnown, InInherit, TypeOK, Entry
  <2>2. ListAdd(inherit_mutexes[t], NewEntry(obj[t])) \in Seq(Entry)
    BY <2>1, AddFacts
  <2>3. inherit_mutexes' \in [Threads -> Seq(Entry)]
    BY <1>0, <1>10, <2>2 DEF TakeInherit, TypeOK, Entry
  <2> QED BY <1>0, <1>10, <2>3 DEF TakeInherit, TypeOK, Entry
<1>11. ASSUME NEW t \in Threads, ReadSched(t) PROVE TypeOK'
  BY <1>0, <1>11 DEF TypeOK, ReadSched
<1>12. ASSUME NEW t \in Threads, Boost(t) PROVE TypeOK'
  <2> DEFINE m == obj[t]
             o == owner[m]
             at == FindMutex(inherit_mutexes[o], m)
  <2>1. o \in Threads
    <3>1. m \in Inherit /\ o # NoThread
      BY <1>12 DEF Boost, StructureInv, CallKnown, InInherit, Locked
    <3> QED BY <1>0, <3>1 DEF TypeOK, Mutexes
  <2>2. /\ user_sched_info' \in [Threads -> SchedInfo]
        /\ protect_mutexes' \in [Threads -> Seq(Protect)]
        /\ ceiling' \in [Protect -> SchedInfo]
    BY <1>0, <1>12 DEF Boost, TypeOK
  <2>3. /\ inherit_mutexes' \in [Threads -> Seq(Entry)]
        /\ sched_info' \in [Threads -> SchedInfo] /\ kernel' \in [Threads -> SchedInfo]
        /\ uncomputed' \subseteq Threads
    <3>1. CASE at # 0 /\ Raises(seen[t], inherit_mutexes[o][at].sched_info)
      <4>1. at \in 1 .. Len(inherit_mutexes[o])
        <5>1. inherit_mutexes[o] \in Seq(Entry)
          BY <1>0, <2>1 DEF TypeOK, Entry
        <5> QED BY <3>1, <5>1, FindMutexFacts
      <4>2. /\ seen[t] \in SchedInfo
            /\ StoreEntry(o, at, seen[t])
            /\ Reschedule(t, o)
        BY <1>0, <1>12, <3>1 DEF Boost, TypeOK, StoreEntry
      <4>3. inherit_mutexes' \in [Threads -> Seq(Entry)]
        BY <1>0, <2>1, <4>1, <4>2, EntryChanged DEF EntryStored
      <4> QED BY <1>0, <2>1, <2>2, <4>2, <4>3, RescheduleType
    <3>2. CASE ~ (at # 0 /\ Raises(seen[t], inherit_mutexes[o][at].sched_info))
      BY <1>0, <1>12, <3>2 DEF Boost, TypeOK, Entry, NoReschedule
    <3> QED BY <3>1, <3>2
  <2>4. /\ internal_futex' \in [Inherit -> Threads \cup {NoThread}]
        /\ pc' \in [Threads -> PC] /\ seen' \in [Threads -> SchedInfo]
        /\ boosted' \subseteq Threads
    BY <1>0, <1>12 DEF Boost, TypeOK, StillCurrent
  <2>5. UNCHANGED <<owner, obj, asked, unsorted>>
    BY <1>12 DEF Boost
  <2> QED BY <1>0, <2>2, <2>3, <2>4, <2>5 DEF TypeOK, Entry
<1>13. ASSUME NEW t \in Threads, FutexWait(t) PROVE TypeOK'
  BY <1>0, <1>13 DEF TypeOK, FutexWait
<1>14. ASSUME NEW t \in Threads, Interrupted(t) PROVE TypeOK'
  BY <1>0, <1>14 DEF TypeOK, Interrupted
<1>15. ASSUME NEW t \in Threads, NEW u \in Threads, SetSchedParam(t, u) PROVE TypeOK'
  <2>1. /\ user_sched_info' \in [Threads -> SchedInfo]
        /\ asked' \in [Threads -> SchedInfo]
        /\ Reschedule(t, u)
        /\ boosted' \subseteq Threads
        /\ UNCHANGED <<protect_mutexes, inherit_mutexes, mutexes, locals, unsorted>>
    BY <1>0, <1>15 DEF TypeOK, SetSchedParam, StillCurrent
  <2>2. /\ protect_mutexes' \in [Threads -> Seq(Protect)]
        /\ inherit_mutexes' \in [Threads -> Seq(Entry)]
        /\ ceiling' \in [Protect -> SchedInfo]
    BY <1>0, <2>1 DEF TypeOK, Entry
  <2>3. /\ sched_info' \in [Threads -> SchedInfo] /\ kernel' \in [Threads -> SchedInfo]
        /\ uncomputed' \subseteq Threads
    BY <1>0, <2>1, <2>2, RescheduleType
  <2> QED BY <1>0, <2>1, <2>3 DEF TypeOK
<1>16. ASSUME NEW t \in Threads, NEW u \in Threads, Clone(t, u) \/ CreateExplicit(t, u)
       PROVE  TypeOK'
  <2>1. PICK info \in SchedInfo, k \in SchedInfo :
          Given(u, info) /\ kernel' = [kernel EXCEPT ![u] = k]
    <3>1. CASE Clone(t, u)
      <4>1. seen[t] \in SchedInfo /\ kernel[t] \in SchedInfo
        BY <1>0 DEF TypeOK
      <4> QED BY <3>1, <4>1 DEF Clone
    <3>2. CASE CreateExplicit(t, u)
      BY <3>2 DEF CreateExplicit
    <3> QED BY <1>16, <3>1, <3>2
  <2>2. /\ sched_info' \in [Threads -> SchedInfo] /\ asked' \in [Threads -> SchedInfo]
        /\ kernel' \in [Threads -> SchedInfo] /\ uncomputed' \subseteq Threads
    BY <1>0, <2>1 DEF TypeOK, Given
  <2>3. pc' \in [Threads -> PC] /\ seen' \in [Threads -> SchedInfo]
    <3>1. CASE Clone(t, u)
      BY <1>0, <3>1 DEF TypeOK, Clone
    <3>2. CASE CreateExplicit(t, u)
      <4>1. pc' = [pc EXCEPT ![u] = "idle"] /\ seen' = seen
        BY <3>2 DEF CreateExplicit
      <4> QED BY <1>0, <4>1 DEF TypeOK
    <3> QED BY <1>16, <3>1, <3>2
  <2> QED BY <1>0, <2>1, <2>2, <2>3 DEF TypeOK, Given
<1>17. ASSUME NEW t \in Threads, CreateCopy(t) PROVE TypeOK'
  BY <1>0, <1>17 DEF TypeOK, CreateCopy
<1>18. ASSUME NEW t \in Threads, Exit(t) PROVE TypeOK'
  BY <1>0, <1>18 DEF TypeOK, Exit
<1>19. CASE UNCHANGED vars
  BY <1>0, <1>19 DEF TypeOK, vars
<1> QED
  BY <1>1, <1>2, <1>3, <1>4, <1>5, <1>6, <1>7, <1>8, <1>9, <1>10, <1>11, <1>12, <1>13,
     <1>14, <1>15, <1>16, <1>17, <1>18, <1>19 DEF Next

-----------------------------------------------------------------------------
(* Structure                                                               *)

\* Initially nobody owns a mutex, and no list has one.
LEMMA StructureInit == ASSUME Init PROVE StructureInv
<1>1. TypeOK
  BY TypeInit
<1>2. \A t \in Threads : Len(protect_mutexes[t]) = 0 /\ Len(inherit_mutexes[t]) = 0
  BY DEF Init
<1>3. ASSUME NEW t \in Threads
      PROVE  CallKnown(t) /\ ProtectListed(t) /\ InheritListed(t) /\ Locked(t) /\ OwnerLives(t)
  <2>1. /\ pc[t] \in {"idle", "none"}
        /\ \A m \in Mutexes : owner[m] # t
        /\ \A m \in Inherit : internal_futex[m] # t
    BY ConstantsAssumption DEF Init
  <2>2. ProtectListed(t) /\ InheritListed(t)
    BY <1>2, <2>1 DEF ProtectListed, InheritListed, InList, HasEntry, Mutexes
  <2> QED BY <2>1, <2>2 DEF CallKnown, Locked, OwnerLives, InProtect, InInherit
<1> QED BY <1>1, <1>3 DEF StructureInv

\* What a thread knows of the mutexes.
Knows(t) == CallKnown(t) /\ ProtectListed(t) /\ InheritListed(t) /\ Locked(t) /\ OwnerLives(t)

\* Steps that leave owners and lists alone.
LEMMA QuietKeeps ==
  ASSUME StructureInv, TypeOK', [Next]_vars,
         UNCHANGED <<protect_mutexes, inherit_mutexes, owner, internal_futex>>,
         NEW t \in Threads,
         \A v \in Threads \ {t} :
           /\ obj'[v] = obj[v]
           /\ pc'[v] = pc[v] \/ (pc[v] = "none" /\ pc'[v] = "idle"),
         CallKnown(t)', Locked(t)', OwnerLives(t)',
         \A m \in Protect : Unlisted(t, m)' <=> Unlisted(t, m)
  PROVE  \A v \in Threads : Knows(v)'
<1> USE DEF TypeOK, StructureInv, Mutexes
<1> SUFFICES ASSUME NEW v \in Threads PROVE Knows(v)'
  OBVIOUS
<1>1. CASE v = t
  <2>1. ProtectListed(t)' /\ InheritListed(t)'
    BY DEF ProtectListed, InheritListed, InList, HasEntry
  <2> QED BY <1>1, <2>1 DEF Knows
<1>2. CASE v # t
  <2>1. CallKnown(v)'
    BY <1>2 DEF CallKnown, InProtect, InInherit
  <2>2. ProtectListed(v)'
    <3>1. \A m \in Protect : Unlisted(v, m)' <=> Unlisted(v, m)
      BY <1>2 DEF Unlisted
    <3> QED BY <3>1 DEF ProtectListed, InList
  <2>3. InheritListed(v)'
    BY DEF InheritListed, HasEntry
  <2>4. Locked(v)'
    <3>1. Locked(v) /\ (pc'[v] = "boost" <=> pc[v] = "boost") /\ obj'[v] = obj[v]
      BY <1>2
    <3> QED BY <3>1 DEF Locked
  <2>5. OwnerLives(v)'
    <3>1. OwnerLives(v) /\ (pc'[v] \in {"none", "gone"} => pc[v] \in {"none", "gone"})
      BY <1>2
    <3> QED BY <3>1 DEF OwnerLives
  <2> QED BY <2>1, <2>2, <2>3, <2>4, <2>5 DEF Knows
<1> QED BY <1>1, <1>2

\* The owner of a PRIO_PROTECT mutex changes while it is in no list.
LEMMA ProtectOwnerKeeps ==
  ASSUME StructureInv, TypeOK',
         NEW t \in Threads,
         \/ \E m \in Protect : LockProtect(t, m)
         \/ Free(t)
  PROVE  \A v \in Threads : Knows(v)'
<1> USE ConstantsAssumption
<1>1. PICK m \in Protect, o \in {t, NoThread} :
        /\ owner' = [owner EXCEPT ![m] = o]
        /\ UNCHANGED <<protect_mutexes, inherit_mutexes, internal_futex>>
        /\ \A v \in Threads \ {t} : pc'[v] = pc[v] /\ obj'[v] = obj[v]
        /\ \/ /\ owner[m] = NoThread /\ o = t /\ pc[t] = "idle"
              /\ pc'[t] \in {"protect", "c_protect"} /\ obj'[t] = m
           \/ /\ owner[m] = t /\ o = NoThread /\ pc[t] = "free" /\ obj[t] = m
              /\ pc'[t] = "idle" /\ obj'[t] = NoMutex
  <2>1. CASE Free(t)
    <3>1. obj[t] \in Protect /\ owner[obj[t]] = t
      BY <2>1 DEF Free, Goto, StructureInv, CallKnown, InProtect
    <3> QED BY <2>1, <3>1 DEF Free, Goto, fields, StructureInv, TypeOK
  <2>2. ASSUME NEW m \in Protect, LockProtect(t, m)
        PROVE  /\ owner' = [owner EXCEPT ![m] = t]
               /\ UNCHANGED <<protect_mutexes, inherit_mutexes, internal_futex>>
               /\ \A v \in Threads \ {t} : pc'[v] = pc[v] /\ obj'[v] = obj[v]
               /\ owner[m] = NoThread /\ pc[t] = "idle"
               /\ pc'[t] \in {"protect", "c_protect"} /\ obj'[t] = m
    BY <2>2 DEF LockProtect, fields, StructureInv, TypeOK
  <2> QED BY <2>1, <2>2
<1>2. /\ owner'[m] = o /\ \A n \in Mutexes \ {m} : owner'[n] = owner[n]
      /\ m \in Mutexes /\ Protect \subseteq Mutexes /\ Inherit \subseteq Mutexes
      /\ m \notin Inherit /\ NoThread \notin Threads
  BY <1>1 DEF StructureInv, TypeOK, Mutexes
<1> SUFFICES ASSUME NEW v \in Threads PROVE Knows(v)'
  OBVIOUS
<1>3. Knows(v)
  BY DEF StructureInv, Knows
<1>4. CallKnown(v)'
  BY <1>1, <1>2, <1>3 DEF Knows, CallKnown, InProtect, InInherit
<1>5. ProtectListed(v)'
  <2>1. ASSUME NEW n \in Protect
        PROVE  owner'[n] = v /\ ~Unlisted(v, n)' <=> owner[n] = v /\ ~Unlisted(v, n)
    BY <1>1, <1>2, <1>3 DEF Unlisted
  <2> QED BY <1>1, <1>3, <2>1 DEF Knows, ProtectListed, InList
<1>6. InheritListed(v)'
  BY <1>1, <1>2, <1>3 DEF Knows, InheritListed, HasEntry
<1>7. Locked(v)'
  <2>1. pc[v] = "boost" => obj[v] # m
    BY <1>2, <1>3 DEF Knows, CallKnown, InInherit
  <2> QED BY <1>1, <1>2, <1>3, <2>1 DEF Knows, Locked, CallKnown, InInherit
<1>8. OwnerLives(v)'
  BY <1>1, <1>2, <1>3 DEF Knows, OwnerLives
<1> QED BY <1>4, <1>5, <1>6, <1>7, <1>8 DEF Knows

\* A PRIO_PROTECT mutex enters the list of its owner.
LEMMA ProtectSchedKeeps ==
  ASSUME StructureInv, TypeOK', NEW t \in Threads, ProtectSched(t)
  PROVE  \A v \in Threads : Knows(v)'
<1> DEFINE list == protect_mutexes[t]
           m == obj[t]
           at == AddHere(list, m)
<1>1. /\ m \in Protect /\ owner[m] = t
      /\ list \in Seq(Protect) /\ pc[t] \in {"protect", "c_protect"}
      /\ pc'[t] \in {"idle", "c_set"}
      /\ pc'[t] = "c_set" => obj'[t] = m
      /\ protect_mutexes'[t] = InsertAt(list, at, m)
      /\ \A v \in Threads \ {t} : /\ pc'[v] = pc[v] /\ obj'[v] = obj[v]
                                  /\ protect_mutexes'[v] = protect_mutexes[v]
      /\ UNCHANGED <<inherit_mutexes, owner, internal_futex>>
  BY DEF ProtectSched, Goto, mutexes, StructureInv, TypeOK, CallKnown, InProtect
<1>2. at \in 1 .. Len(list) + 1
  BY <1>1, AddHereFacts
<1>3. /\ Len(protect_mutexes'[t]) = Len(list) + 1 /\ Len(list) \in Nat
      /\ \A i \in 1 .. Len(list) + 1 :
           protect_mutexes'[t][i] = IF i < at THEN list[i] ELSE IF i = at THEN m ELSE list[i - 1]
  <2>1. /\ Len(InsertAt(list, at, m)) = Len(list) + 1 /\ Len(list) \in Nat
        /\ \A i \in 1 .. Len(list) + 1 :
             InsertAt(list, at, m)[i] =
                 IF i < at THEN list[i] ELSE IF i = at THEN m ELSE list[i - 1]
    <3> HIDE DEF list, at, m
    <3> QED BY <1>1, <1>2, InsertFacts, LenProperties
  <2> QED BY <1>1, <2>1
<1>4. ~InList(list, m) /\ \A n \in Protect \ {m} : InList(list, n) <=> owner[n] = t
  BY <1>1 DEF StructureInv, ProtectListed, Unlisted
<1>5. \A n \in Protect : InList(protect_mutexes'[t], n) <=> n = m \/ InList(list, n)
  <2> SUFFICES ASSUME NEW n \in Protect
               PROVE  InList(protect_mutexes'[t], n) <=> n = m \/ InList(list, n)
    OBVIOUS
  <2>1. InList(protect_mutexes'[t], n) => n = m \/ InList(list, n)
    <3> SUFFICES ASSUME NEW i \in 1 .. Len(list) + 1, protect_mutexes'[t][i] = n
                 PROVE  n = m \/ InList(list, n)
      BY <1>3 DEF InList
    <3>1. CASE i < at
      BY <1>2, <1>3, <3>1 DEF InList
    <3>2. CASE i = at
      BY <1>3, <3>2
    <3>3. CASE i > at
      <4>1. PICK k \in 1 .. Len(list) : k = i - 1
        BY <1>2, <1>3, <3>3
      <4> QED BY <1>2, <1>3, <3>3, <4>1, SMTT(60) DEF InList
    <3> QED BY <1>2, <1>3, <3>1, <3>2, <3>3
  <2>2. InList(protect_mutexes'[t], m)
    <3>1. at \in 1 .. Len(protect_mutexes'[t]) /\ protect_mutexes'[t][at] = m
      BY <1>2, <1>3
    <3> QED BY <3>1 DEF InList
  <2>3. ASSUME NEW i \in 1 .. Len(list), list[i] = n PROVE InList(protect_mutexes'[t], n)
    <3>1. CASE i < at
      BY <1>2, <1>3, <2>3, <3>1 DEF InList
    <3>2. CASE i >= at
      <4>1. PICK k \in 1 .. Len(list) + 1 : k = i + 1 /\ k - 1 = i /\ k > at
        BY <1>2, <1>3, <3>2
      <4>2. protect_mutexes'[t][k] = n
        BY <1>2, <1>3, <2>3, <4>1
      <4> QED BY <1>3, <4>2 DEF InList
    <3> QED BY <1>2, <1>3, <3>1, <3>2
  <2> QED BY <2>1, <2>2, <2>3 DEF InList
<1>6. ASSUME NEW i \in 1 .. Len(list) + 1, NEW j \in 1 .. Len(list) + 1,
             protect_mutexes'[t][i] = protect_mutexes'[t][j]
      PROVE  i = j
  <2>1. \A k \in 1 .. Len(list) : list[k] # m
    BY <1>4 DEF InList
  <2>2. \A k, l \in 1 .. Len(list) : list[k] = list[l] => k = l
    BY DEF StructureInv, ProtectListed
  <2> DEFINE Old(k) == IF k < at THEN k ELSE k - 1
  <2>3. \A k \in 1 .. Len(list) + 1 :
          k # at => /\ Old(k) \in 1 .. Len(list)
                    /\ protect_mutexes'[t][k] = list[Old(k)]
    BY <1>2, <1>3, SMTT(60)
  <2>4. protect_mutexes'[t][at] = m
    BY <1>2, <1>3
  <2>5. CASE i = at \/ j = at
    BY <1>6, <2>1, <2>3, <2>4, <2>5
  <2>6. CASE i # at /\ j # at
    <3>1. Old(i) = Old(j)
      <4> HIDE DEF Old
      <4> QED BY <1>6, <2>2, <2>3, <2>6
    <3> QED BY <1>2, <1>3, <2>6, <3>1
  <2> QED BY <2>5, <2>6
<1> SUFFICES ASSUME NEW v \in Threads PROVE Knows(v)'
  OBVIOUS
<1>7. Knows(v)
  BY DEF StructureInv, Knows
<1>8. CallKnown(v)' /\ Locked(v)' /\ OwnerLives(v)' /\ InheritListed(v)'
  BY <1>1, <1>7 DEF Knows, CallKnown, InProtect, InInherit, Locked, OwnerLives, InheritListed,
     HasEntry
<1>9. ProtectListed(v)'
  <2>1. CASE v = t
    <3>1. \A n \in Protect : ~Unlisted(t, n)'
      BY <1>1 DEF Unlisted
    <3>2. \A n \in Protect : InList(protect_mutexes'[t], n) <=> owner'[n] = t
      BY <1>1, <1>4, <1>5
    <3> QED BY <1>3, <1>6, <2>1, <3>1, <3>2 DEF ProtectListed
  <2>2. CASE v # t
    BY <1>1, <1>7, <2>2 DEF Knows, ProtectListed, Unlisted, InList
  <2> QED BY <2>1, <2>2
<1> QED BY <1>8, <1>9 DEF Knows

\* rest is list without the element at a place, in the same order.
Without(rest, list, at) ==
  /\ Len(rest) \in Nat /\ Len(list) \in Nat
  /\ \A k \in (1 .. Len(list)) \ {at} : \E i \in 1 .. Len(rest) : rest[i] = list[k]
  /\ \A i \in 1 .. Len(rest) : \E k \in (1 .. Len(list)) \ {at} : rest[i] = list[k]
  /\ \A i, j \in 1 .. Len(rest) : i < j =>
       \E k, l \in (1 .. Len(list)) \ {at} : k < l /\ rest[i] = list[k] /\ rest[j] = list[l]

\* list_rm leaves what is not at the place, in its order.
LEMMA RemovedElements ==
  ASSUME NEW S, NEW list \in Seq(S), NEW at \in 1 .. Len(list)
  PROVE  Without(ListRm(list, at), list, at)
<1> DEFINE rest == ListRm(list, at)
<1> DEFINE Old(i) == IF i < at THEN i ELSE i + 1
<1>1. /\ rest \in Seq(S)
      /\ Len(rest) = Len(list) - 1 /\ Len(list) \in Nat
      /\ \A i \in 1 .. Len(list) - 1 : rest[i] = IF i < at THEN list[i] ELSE list[i + 1]
  BY RemoveFacts, LenProperties
<1> HIDE DEF rest
<1>2. \A i \in 1 .. Len(rest) : Old(i) \in (1 .. Len(list)) \ {at} /\ rest[i] = list[Old(i)]
  BY <1>1
<1>3. \A i, j \in 1 .. Len(rest) : i < j => Old(i) < Old(j)
  BY <1>1
<1>4. ASSUME NEW k \in (1 .. Len(list)) \ {at} PROVE \E i \in 1 .. Len(rest) : rest[i] = list[k]
  <2>1. CASE k < at
    <3>1. k \in 1 .. Len(rest) /\ rest[k] = list[k]
      BY <1>1, <2>1
    <3> QED BY <3>1
  <2>2. CASE k > at
    <3>1. PICK i \in 1 .. Len(rest) : i = k - 1 /\ i + 1 = k /\ ~ (i < at)
      BY <1>1, <2>2
    <3>2. rest[i] = list[k]
      BY <1>1, <3>1
    <3> QED BY <3>2
  <2> QED BY <1>1, <2>1, <2>2
<1> HIDE DEF Old
<1>5. \A i \in 1 .. Len(rest) : \E k \in (1 .. Len(list)) \ {at} : rest[i] = list[k]
  BY <1>2
<1>6. \A i, j \in 1 .. Len(rest) : i < j =>
        \E k, l \in (1 .. Len(list)) \ {at} : k < l /\ rest[i] = list[k] /\ rest[j] = list[l]
  <2> SUFFICES ASSUME NEW i \in 1 .. Len(rest), NEW j \in 1 .. Len(rest), i < j
               PROVE  \E k, l \in (1 .. Len(list)) \ {at} :
                        k < l /\ rest[i] = list[k] /\ rest[j] = list[l]
    BY Zenon
  <2>1. Old(i) \in (1 .. Len(list)) \ {at} /\ rest[i] = list[Old(i)]
    BY ONLY <1>2, Zenon
  <2>2. Old(j) \in (1 .. Len(list)) \ {at} /\ rest[j] = list[Old(j)]
    BY ONLY <1>2, Zenon
  <2>3. Old(i) < Old(j)
    BY <1>3, Zenon
  <2> QED BY ONLY <2>1, <2>2, <2>3, Zenon
<1>7. \A k \in (1 .. Len(list)) \ {at} : \E i \in 1 .. Len(rest) : rest[i] = list[k]
  BY <1>4, Zenon
<1>8. Len(rest) \in Nat /\ Len(list) \in Nat
  BY <1>1
<1>9. Without(rest, list, at)
  BY ONLY <1>5, <1>6, <1>7, <1>8, Zenon DEF Without
<1> QED BY ONLY <1>9, Zenon DEF rest

\* A PRIO_PROTECT mutex leaves the list.
LEMMA ProtectUnschedKeeps ==
  ASSUME StructureInv, TypeOK', NEW t \in Threads, ProtectUnsched(t)
  PROVE  \A v \in Threads : Knows(v)'
<1> DEFINE list == protect_mutexes[t]
           m == obj[t]
           at == FindElem(list, m)
           rest == ListRm(list, at)
<1>1. /\ m \in Protect /\ owner[m] = t /\ list \in Seq(Protect) /\ pc[t] \in {"unsched", "c_unsched"}
      /\ pc'[t] = "free" /\ obj' = obj
      /\ protect_mutexes'[t] = rest
      /\ \A v \in Threads \ {t} : /\ pc'[v] = pc[v]
                                  /\ protect_mutexes'[v] = protect_mutexes[v]
      /\ UNCHANGED <<inherit_mutexes, owner, internal_futex>>
  BY DEF ProtectUnsched, Goto, mutexes, StructureInv, TypeOK, CallKnown, InProtect
<1>2. /\ \A n \in Protect : InList(list, n) <=> owner[n] = t
      /\ \A k, l \in 1 .. Len(list) : list[k] = list[l] => k = l
  BY <1>1 DEF StructureInv, ProtectListed, Unlisted
<1>3. at \in 1 .. Len(list) /\ list[at] = m
  BY <1>1, <1>2, FindElemFacts
<1>4. Without(rest, list, at)
  <2> HIDE DEF at, list, m
  <2> QED BY <1>1, <1>3, RemovedElements DEF rest
<1> HIDE DEF rest, at
<1>5. \A n \in Protect : InList(rest, n) <=> n # m /\ InList(list, n)
  <2> SUFFICES ASSUME NEW n \in Protect PROVE InList(rest, n) <=> n # m /\ InList(list, n)
    OBVIOUS
  <2>1. ASSUME NEW i \in 1 .. Len(rest), rest[i] = n PROVE n # m /\ InList(list, n)
    <3>1. PICK k \in (1 .. Len(list)) \ {at} : rest[i] = list[k]
      BY <1>4 DEF Without
    <3> QED BY <1>2, <1>3, <2>1, <3>1 DEF InList
  <2>2. ASSUME n # m, NEW k \in 1 .. Len(list), list[k] = n PROVE InList(rest, n)
    <3>1. PICK i \in 1 .. Len(rest) : rest[i] = list[k]
      BY <1>3, <1>4, <2>2 DEF Without
    <3> QED BY <2>2, <3>1 DEF InList
  <2> QED BY <2>1, <2>2 DEF InList
<1>6. \A i, j \in 1 .. Len(rest) : rest[i] = rest[j] => i = j
  <2> SUFFICES ASSUME NEW i \in 1 .. Len(rest), NEW j \in 1 .. Len(rest), i # j
               PROVE  rest[i] # rest[j]
    OBVIOUS
  <2>1. CASE i < j
    <3>1. PICK k, l \in (1 .. Len(list)) \ {at} : k < l /\ rest[i] = list[k] /\ rest[j] = list[l]
      BY <1>4, <2>1 DEF Without
    <3>2. k \in Nat /\ l \in Nat
      BY <1>4 DEF Without
    <3> QED BY <1>2, <3>1, <3>2
  <2>2. CASE j < i
    <3>1. PICK k, l \in (1 .. Len(list)) \ {at} : k < l /\ rest[j] = list[k] /\ rest[i] = list[l]
      BY <1>4, <2>2 DEF Without
    <3>2. k \in Nat /\ l \in Nat
      BY <1>4 DEF Without
    <3> QED BY <1>2, <3>1, <3>2
  <2> QED BY <1>4, <2>1, <2>2 DEF Without
<1> SUFFICES ASSUME NEW v \in Threads PROVE Knows(v)'
  OBVIOUS
<1>7. Knows(v)
  BY DEF StructureInv, Knows
<1>8. CallKnown(v)' /\ Locked(v)' /\ OwnerLives(v)' /\ InheritListed(v)'
  BY <1>1, <1>7 DEF Knows, CallKnown, InProtect, InInherit, Locked, OwnerLives, InheritListed,
     HasEntry
<1>9. ProtectListed(v)'
  <2>1. CASE v = t
    <3>1. \A n \in Protect : Unlisted(t, n)' <=> n = m
      BY <1>1 DEF Unlisted
    <3> QED BY <1>1, <1>2, <1>5, <1>6, <2>1, <3>1 DEF ProtectListed
  <2>2. CASE v # t
    BY <1>1, <1>7, <2>2 DEF Knows, ProtectListed, Unlisted, InList
  <2> QED BY <2>1, <2>2
<1> QED BY <1>8, <1>9 DEF Knows

\* A PRIO_INHERIT mutex is taken.
LEMMA TakeInheritKeeps ==
  ASSUME StructureInv, TypeOK', NEW t \in Threads, TakeInherit(t)
  PROVE  \A v \in Threads : Knows(v)'
<1> USE ConstantsAssumption
<1> DEFINE list == inherit_mutexes[t]
           m == obj[t]
<1>1. /\ m \in Inherit /\ owner[m] = NoThread /\ internal_futex[m] = NoThread
      /\ list \in Seq(Entry) /\ pc[t] = "take" /\ pc'[t] = "idle" /\ obj'[t] = NoMutex
      /\ owner' = [owner EXCEPT ![m] = t]
      /\ inherit_mutexes'[t] = ListAdd(list, NewEntry(m))
      /\ \A v \in Threads \ {t} : /\ pc'[v] = pc[v] /\ obj'[v] = obj[v]
                                  /\ inherit_mutexes'[v] = inherit_mutexes[v]
      /\ UNCHANGED <<protect_mutexes, internal_futex>>
  BY DEF TakeInherit, Goto, StructureInv, TypeOK, CallKnown, InInherit, Entry
<1>2. /\ owner'[m] = t /\ \A n \in Mutexes \ {m} : owner'[n] = owner[n]
      /\ m \in Mutexes /\ Protect \subseteq Mutexes /\ Inherit \subseteq Mutexes
      /\ m \notin Protect /\ NoThread \notin Threads
  BY <1>1 DEF StructureInv, TypeOK, Mutexes
<1>3. /\ Len(inherit_mutexes'[t]) = Len(list) + 1 /\ Len(list) \in Nat
      /\ \A i \in 1 .. Len(list) + 1 :
           inherit_mutexes'[t][i] = IF i <= Len(list) THEN list[i] ELSE NewEntry(m)
  <2> DEFINE e == NewEntry(m)
  <2>1. e \in Entry /\ Len(list) \in Nat
    BY <1>1, Values, LenProperties
  <2> HIDE DEF e, list, m
  <2>2. /\ Len(ListAdd(list, e)) = Len(list) + 1
        /\ \A i \in 1 .. Len(list) + 1 :
             ListAdd(list, e)[i] = IF i <= Len(list) THEN list[i] ELSE e
    <3>1. list \in Seq(Entry)
      BY <1>1
    <3> QED BY <2>1, <3>1, AddFacts
  <2> QED BY <1>1, <2>1, <2>2 DEF e
<1>4. NewEntry(m).mutex = m
  BY DEF NewEntry
<1>5. /\ ~HasEntry(list, m)
      /\ \A i, j \in 1 .. Len(list) : list[i].mutex = list[j].mutex => i = j
  BY <1>1, <1>2 DEF StructureInv, InheritListed
<1> DEFINE longer == inherit_mutexes'[t]
<1> HIDE DEF longer
<1>6. /\ \A i \in 1 .. Len(list) : longer[i] = list[i]
      /\ longer[Len(list) + 1].mutex = m
      /\ Len(longer) = Len(list) + 1 /\ Len(list) \in Nat
  BY <1>3, <1>4 DEF longer
<1>7. /\ \A n \in Inherit : HasEntry(longer, n) <=> n = m \/ HasEntry(list, n)
      /\ \A i, j \in 1 .. Len(longer) : longer[i].mutex = longer[j].mutex => i = j
  <2>1. 1 .. Len(longer) = (1 .. Len(list)) \cup {Len(list) + 1}
    BY <1>6
  <2>2. \A n \in Inherit : HasEntry(longer, n) <=> n = m \/ HasEntry(list, n)
    BY <1>6, <2>1 DEF HasEntry
  <2>3. ASSUME NEW i \in 1 .. Len(longer), NEW j \in 1 .. Len(longer),
               longer[i].mutex = longer[j].mutex
        PROVE  i = j
    <3>1. \A k \in 1 .. Len(list) : list[k].mutex # m
      BY <1>5 DEF HasEntry
    <3> QED BY <1>5, <1>6, <2>1, <2>3, <3>1
  <2> QED BY <2>2, <2>3
<1> SUFFICES ASSUME NEW v \in Threads PROVE Knows(v)'
  OBVIOUS
<1>8. Knows(v)
  BY DEF StructureInv, Knows
<1>9. CallKnown(v)'
  BY <1>1, <1>2, <1>8 DEF Knows, CallKnown, InProtect, InInherit
<1>10. ProtectListed(v)'
  <2>1. \A n \in Protect : Unlisted(v, n)' <=> Unlisted(v, n)
    BY <1>1 DEF Unlisted
  <2> QED BY <1>1, <1>2, <1>8, <2>1 DEF Knows, ProtectListed, InList
<1>11. InheritListed(v)'
  <2>1. CASE v = t
    BY <1>2, <1>7, <1>8, <2>1 DEF Knows, InheritListed, longer
  <2>2. CASE v # t
    BY <1>1, <1>2, <1>8, <2>2 DEF Knows, InheritListed, HasEntry
  <2> QED BY <2>1, <2>2
<1>12. Locked(v)'
  BY <1>1, <1>2, <1>8 DEF Knows, Locked, CallKnown, InInherit
<1>13. OwnerLives(v)'
  BY <1>1, <1>2, <1>8 DEF Knows, OwnerLives
<1> QED BY <1>9, <1>10, <1>11, <1>12, <1>13 DEF Knows

\* A PRIO_INHERIT mutex is released, and the first of its sleepers wakes up.
LEMMA UnlockInheritKeeps ==
  ASSUME StructureInv, TypeOK', NEW t \in Threads, NEW m \in Inherit, UnlockInherit(t, m)
  PROVE  \A v \in Threads : Knows(v)'
<1> USE ConstantsAssumption
<1> DEFINE list == inherit_mutexes[t]
           at == FindMutex(list, m)
           rest == ListRm(list, at)
<1>1. /\ owner[m] = t /\ internal_futex[m] = NoThread
      /\ list \in Seq(Entry) /\ pc[t] = "idle" /\ obj' = obj
      /\ owner' = [owner EXCEPT ![m] = NoThread]
      /\ inherit_mutexes'[t] = rest
      /\ \A v \in Threads \ {t} : inherit_mutexes'[v] = inherit_mutexes[v]
      /\ UNCHANGED <<protect_mutexes, internal_futex>>
  BY DEF UnlockInherit, MayUnlock, StructureInv, TypeOK, Entry
<1>2. \A v \in Threads : pc'[v] = pc[v] \/ (pc[v] = "asleep" /\ pc'[v] = "take")
  BY DEF UnlockInherit, First, Sleepers, StructureInv, TypeOK
<1>3. /\ owner'[m] = NoThread /\ \A n \in Mutexes \ {m} : owner'[n] = owner[n]
      /\ m \in Mutexes /\ Protect \subseteq Mutexes /\ Inherit \subseteq Mutexes
      /\ m \notin Protect /\ NoThread \notin Threads
  BY <1>1 DEF StructureInv, TypeOK, Mutexes
<1>4. /\ \A n \in Inherit : HasEntry(list, n) <=> owner[n] = t
      /\ \A k, l \in 1 .. Len(list) : list[k].mutex = list[l].mutex => k = l
  BY DEF StructureInv, InheritListed
<1>5. at \in 1 .. Len(list) /\ list[at].mutex = m
  BY <1>1, <1>4, FindMutexFacts
<1>6. Without(rest, list, at)
  <2> HIDE DEF at, list
  <2> QED BY <1>1, <1>5, RemovedElements DEF rest
<1> HIDE DEF rest, at
<1>7. \A n \in Inherit : HasEntry(rest, n) <=> n # m /\ HasEntry(list, n)
  <2> SUFFICES ASSUME NEW n \in Inherit PROVE HasEntry(rest, n) <=> n # m /\ HasEntry(list, n)
    OBVIOUS
  <2>1. ASSUME NEW i \in 1 .. Len(rest), rest[i].mutex = n PROVE n # m /\ HasEntry(list, n)
    <3>1. PICK k \in (1 .. Len(list)) \ {at} : rest[i] = list[k]
      BY <1>6 DEF Without
    <3> QED BY <1>4, <1>5, <2>1, <3>1 DEF HasEntry
  <2>2. n # m /\ HasEntry(list, n) => HasEntry(rest, n)
    <3> SUFFICES ASSUME n # m, NEW k \in 1 .. Len(list), list[k].mutex = n
                 PROVE  HasEntry(rest, n)
      BY DEF HasEntry
    <3>1. k \in (1 .. Len(list)) \ {at}
      BY <1>5
    <3>2. PICK i \in 1 .. Len(rest) : rest[i] = list[k]
      BY <1>6, <3>1 DEF Without
    <3> QED BY <3>2 DEF HasEntry
  <2> QED BY <2>1, <2>2 DEF HasEntry
<1>8. \A i, j \in 1 .. Len(rest) : rest[i].mutex = rest[j].mutex => i = j
  <2> SUFFICES ASSUME NEW i \in 1 .. Len(rest), NEW j \in 1 .. Len(rest), i # j
               PROVE  rest[i].mutex # rest[j].mutex
    OBVIOUS
  <2>1. CASE i < j
    <3>1. PICK k, l \in (1 .. Len(list)) \ {at} : k < l /\ rest[i] = list[k] /\ rest[j] = list[l]
      BY <1>6, <2>1 DEF Without
    <3>2. k \in Nat /\ l \in Nat
      BY <1>6 DEF Without
    <3> QED BY <1>4, <3>1, <3>2
  <2>2. CASE j < i
    <3>1. PICK k, l \in (1 .. Len(list)) \ {at} : k < l /\ rest[j] = list[k] /\ rest[i] = list[l]
      BY <1>6, <2>2 DEF Without
    <3>2. k \in Nat /\ l \in Nat
      BY <1>6 DEF Without
    <3> QED BY <1>4, <3>1, <3>2
  <2> QED BY <1>6, <2>1, <2>2 DEF Without
<1> SUFFICES ASSUME NEW v \in Threads PROVE Knows(v)'
  OBVIOUS
<1>9. Knows(v)
  BY DEF StructureInv, Knows
<1>10. CallKnown(v)'
  BY <1>1, <1>2, <1>3, <1>9 DEF Knows, CallKnown, InProtect, InInherit
<1>11. ProtectListed(v)'
  <2>1. \A n \in Protect : Unlisted(v, n)' <=> Unlisted(v, n)
    BY <1>1, <1>2 DEF Unlisted
  <2> QED BY <1>1, <1>3, <1>9, <2>1 DEF Knows, ProtectListed, InList
<1>12. InheritListed(v)'
  <2>1. CASE v = t
    BY <1>1, <1>3, <1>4, <1>7, <1>8, <2>1 DEF InheritListed
  <2>2. CASE v # t
    BY <1>1, <1>3, <1>9, <2>2 DEF Knows, InheritListed, HasEntry
  <2> QED BY <2>1, <2>2
<1>13. Locked(v)'
  BY <1>1, <1>2, <1>3, <1>9 DEF Knows, Locked, CallKnown, InInherit
<1>14. OwnerLives(v)'
  BY <1>1, <1>2, <1>3, <1>9 DEF Knows, OwnerLives
<1> QED BY <1>10, <1>11, <1>12, <1>13, <1>14 DEF Knows

\* A waiter takes internal_futex, and gives it back with its priority passed on.
LEMMA BoostKeeps ==
  ASSUME StructureInv, TypeOK', NEW t \in Threads, ReadSched(t) \/ Boost(t)
  PROVE  \A v \in Threads : Knows(v)'
<1> USE ConstantsAssumption
<1> DEFINE m == obj[t]
<1>1. /\ m \in Inherit /\ owner[m] \in Threads /\ UNCHANGED <<protect_mutexes, owner, obj>>
      /\ \A v \in Threads \ {t} : pc'[v] = pc[v]
      /\ \A n \in Inherit \ {m} : internal_futex'[n] = internal_futex[n]
      /\ \/ /\ pc[t] = "take" /\ pc'[t] = "boost"
            /\ internal_futex[m] = NoThread /\ internal_futex'[m] = t
         \/ /\ pc[t] = "boost" /\ pc'[t] = "wait"
            /\ internal_futex[m] = t /\ internal_futex'[m] = NoThread
  BY DEF ReadSched, Boost, Goto, fields, StructureInv, TypeOK, CallKnown, InInherit, Locked,
     Mutexes
<1>2. \A v \in Threads :
        /\ Len(inherit_mutexes'[v]) = Len(inherit_mutexes[v])
        /\ \A i \in 1 .. Len(inherit_mutexes[v]) :
             inherit_mutexes'[v][i].mutex = inherit_mutexes[v][i].mutex
  <2>1. CASE UNCHANGED inherit_mutexes
    BY <2>1
  <2>2. CASE ~ UNCHANGED inherit_mutexes
    <3> DEFINE o == owner[m]
               at == FindMutex(inherit_mutexes[o], m)
    <3>1. StoreEntry(o, at, seen[t]) /\ at # 0
      BY <2>2 DEF ReadSched, Boost, fields, StoreEntry
    <3>2. o \in Threads /\ inherit_mutexes[o] \in Seq(Entry) /\ seen[t] \in SchedInfo /\ TypeOK
      BY <1>1 DEF StructureInv, TypeOK, Entry
    <3>3. at \in 1 .. Len(inherit_mutexes[o])
      BY <3>1, <3>2, FindMutexFacts
    <3> HIDE DEF at
    <3>4. /\ \A u \in Threads \ {o} : inherit_mutexes'[u] = inherit_mutexes[u]
          /\ Len(inherit_mutexes'[o]) = Len(inherit_mutexes[o])
          /\ \A i \in 1 .. Len(inherit_mutexes[o]) :
               inherit_mutexes'[o][i].mutex = inherit_mutexes[o][i].mutex
      BY <3>1, <3>2, <3>3, EntryChanged DEF EntryStored
    <3> QED BY <3>4
  <2> QED BY <2>1, <2>2
<1> SUFFICES ASSUME NEW v \in Threads PROVE Knows(v)'
  OBVIOUS
<1>3. Knows(v)
  BY DEF StructureInv, Knows
<1>4. CallKnown(v)'
  BY <1>1, <1>3 DEF Knows, CallKnown, InProtect, InInherit
<1>5. ProtectListed(v)'
  <2>1. \A n \in Protect : Unlisted(v, n)' <=> Unlisted(v, n)
    BY <1>1 DEF Unlisted
  <2> QED BY <1>1, <1>3, <2>1 DEF Knows, ProtectListed, InList
<1>6. InheritListed(v)'
  BY <1>1, <1>2, <1>3, SMTT(60) DEF Knows, InheritListed, HasEntry
<1>7. Locked(v)'
  <2>1. \A n \in Inherit : internal_futex'[n] = v => pc'[v] = "boost" /\ obj'[v] = n
    BY <1>1, <1>3 DEF Knows, Locked
  <2>2. pc'[v] = "boost" => internal_futex'[obj'[v]] = v /\ owner'[obj'[v]] # NoThread
    <3>1. CASE v = t
      BY <1>1, <3>1
    <3>2. CASE v # t
      BY <1>1, <1>3, <3>2 DEF Knows, Locked, CallKnown, InInherit
    <3> QED BY <3>1, <3>2
  <2> QED BY <2>1, <2>2 DEF Locked
<1>8. OwnerLives(v)'
  BY <1>1, <1>3 DEF Knows, OwnerLives
<1> QED BY <1>4, <1>5, <1>6, <1>7, <1>8 DEF Knows

\* Every step keeps owners and lists in agreement.
LEMMA StructureStep == ASSUME StructureInv, [Next]_vars PROVE StructureInv'
<1>0. TypeOK' /\ TypeOK
  BY TypeStep DEF StructureInv
<1> SUFFICES \A v \in Threads : Knows(v)'
  BY <1>0 DEF StructureInv, Knows
<1> DEFINE Quiet == UNCHANGED <<protect_mutexes, inherit_mutexes, owner, internal_futex>>
           OthersStay(t) == \A v \in Threads \ {t} : pc'[v] = pc[v] /\ obj'[v] = obj[v]
           Fits(t) == /\ CallKnown(t)' /\ Locked(t)' /\ OwnerLives(t)'
                      /\ \A m \in Protect : Unlisted(t, m)' <=> Unlisted(t, m)
<1>1. ASSUME NEW t \in Threads, Quiet, OthersStay(t), Fits(t) PROVE \A v \in Threads : Knows(v)'
  BY <1>0, <1>1, QuietKeeps
<1>2. ASSUME NEW t \in Threads PROVE CallKnown(t) /\ Locked(t) /\ OwnerLives(t)
  BY DEF StructureInv
<1> USE ConstantsAssumption
<1> USE DEF Goto, fields, mutexes, locals, histories, TypeOK, Mutexes
<1> USE DEF CallKnown, Locked, OwnerLives, Unlisted, InProtect, InInherit
<1>3. ASSUME NEW t \in Threads, NEW m \in Protect, LockProtect(t, m)
      PROVE  \A v \in Threads : Knows(v)'
  BY <1>0, <1>3, ProtectOwnerKeeps
<1>4. ASSUME NEW t \in Threads, NEW m \in Protect, UnlockProtect(t, m)
      PROVE  \A v \in Threads : Knows(v)'
  <2>1. Quiet /\ OthersStay(t)
    BY <1>0, <1>4 DEF UnlockProtect
  <2>2. Fits(t)
    BY <1>0, <1>2, <1>4 DEF UnlockProtect
  <2> QED BY <1>1, <2>1, <2>2
<1>5. ASSUME NEW t \in Threads, NEW m \in Protect, SetPrioCeilingHeld(t, m)
      PROVE  \A v \in Threads : Knows(v)'
  <2>1. Quiet /\ UNCHANGED <<pc, obj>>
    BY <1>5 DEF SetPrioCeilingHeld
  <2>2. Fits(t)
    BY <1>2, <2>1
  <2> QED BY <1>1, <2>1, <2>2
<1>6. ASSUME NEW t \in Threads, ProtectSched(t) PROVE \A v \in Threads : Knows(v)'
  BY <1>0, <1>6, ProtectSchedKeeps
<1>7. ASSUME NEW t \in Threads, ProtectUnsched(t) PROVE \A v \in Threads : Knows(v)'
  BY <1>0, <1>7, ProtectUnschedKeeps
<1>8. ASSUME NEW t \in Threads, Free(t) PROVE \A v \in Threads : Knows(v)'
  BY <1>0, <1>8, ProtectOwnerKeeps
<1>9. ASSUME NEW t \in Threads, SetPrioCeiling(t) PROVE \A v \in Threads : Knows(v)'
  <2>1. Quiet /\ OthersStay(t)
    BY <1>0, <1>9 DEF SetPrioCeiling
  <2>2. Fits(t)
    BY <1>0, <1>2, <1>9 DEF SetPrioCeiling
  <2> QED BY <1>1, <2>1, <2>2
<1>10. ASSUME NEW t \in Threads, NEW m \in Inherit, LockInherit(t, m)
       PROVE  \A v \in Threads : Knows(v)'
  <2>1. Quiet /\ OthersStay(t)
    BY <1>0, <1>10 DEF LockInherit
  <2>2. Fits(t)
    BY <1>0, <1>2, <1>10 DEF LockInherit
  <2> QED BY <1>1, <2>1, <2>2
<1>11. ASSUME NEW t \in Threads, NEW m \in Inherit, UnlockInherit(t, m)
       PROVE  \A v \in Threads : Knows(v)'
  BY <1>0, <1>11, UnlockInheritKeeps
<1>12. ASSUME NEW t \in Threads, TakeInherit(t) PROVE \A v \in Threads : Knows(v)'
  BY <1>0, <1>12, TakeInheritKeeps
<1>13. ASSUME NEW t \in Threads, ReadSched(t) \/ Boost(t) PROVE \A v \in Threads : Knows(v)'
  BY <1>0, <1>13, BoostKeeps
<1>14. ASSUME NEW t \in Threads, FutexWait(t) PROVE \A v \in Threads : Knows(v)'
  <2>1. Quiet /\ OthersStay(t)
    BY <1>0, <1>14 DEF FutexWait
  <2>2. Fits(t)
    BY <1>0, <1>2, <1>14 DEF FutexWait
  <2> QED BY <1>1, <2>1, <2>2
<1>15. ASSUME NEW t \in Threads, Interrupted(t) PROVE \A v \in Threads : Knows(v)'
  <2>1. Quiet /\ OthersStay(t)
    BY <1>0, <1>15 DEF Interrupted
  <2>2. Fits(t)
    BY <1>0, <1>2, <1>15 DEF Interrupted
  <2> QED BY <1>1, <2>1, <2>2
<1>16. ASSUME NEW t \in Threads, NEW u \in Threads, SetSchedParam(t, u)
       PROVE  \A v \in Threads : Knows(v)'
  <2>1. Quiet /\ UNCHANGED <<pc, obj>>
    BY <1>16 DEF SetSchedParam
  <2>2. Fits(t)
    BY <1>2, <2>1
  <2> QED BY <1>1, <2>1, <2>2
<1>17. ASSUME NEW t \in Threads, NEW u \in Threads, Clone(t, u) \/ CreateExplicit(t, u)
       PROVE  \A v \in Threads : Knows(v)'
  <2>1. /\ Quiet
        /\ obj' = obj
        /\ \A v \in Threads \ {t} : /\ obj'[v] = obj[v]
                                    /\ pc'[v] = pc[v] \/ (pc[v] = "none" /\ pc'[v] = "idle")
    BY <1>0, <1>17 DEF Clone, CreateExplicit, Given
  <2>2. Fits(t)
    BY <1>0, <1>2, <1>17 DEF Clone, CreateExplicit, Given
  <2> HIDE DEF CallKnown, Locked, OwnerLives, Unlisted, TypeOK
  <2> QED BY <1>0, <2>1, <2>2, QuietKeeps
<1>18. ASSUME NEW t \in Threads, CreateCopy(t) PROVE \A v \in Threads : Knows(v)'
  <2>1. Quiet /\ OthersStay(t)
    BY <1>0, <1>18 DEF CreateCopy
  <2>2. Fits(t)
    BY <1>0, <1>2, <1>18 DEF CreateCopy
  <2> QED BY <1>1, <2>1, <2>2
<1>19. ASSUME NEW t \in Threads, Exit(t) PROVE \A v \in Threads : Knows(v)'
  <2>1. Quiet /\ OthersStay(t)
    BY <1>0, <1>19 DEF Exit
  <2>2. Fits(t)
    BY <1>0, <1>2, <1>19 DEF Exit
  <2> QED BY <1>1, <2>1, <2>2
<1>20. CASE UNCHANGED vars
  <2>1. Quiet /\ UNCHANGED <<pc, obj>>
    BY <1>20 DEF vars
  <2>2. Fits(Main)
    BY <1>2, <2>1
  <2> QED BY <1>1, <2>1, <2>2
<1> QED
  BY <1>3, <1>4, <1>5, <1>6, <1>7, <1>8, <1>9, <1>10, <1>11, <1>12, <1>13, <1>14, <1>15,
     <1>16, <1>17, <1>18, <1>19, <1>20 DEF Next

\* The lists say who owns what, whatever happens.
LEMMA StructureInvariant == Spec => []StructureInv
BY StructureInit, StructureStep, PTL DEF Spec

\* Every variable has its type, whatever the program asks for and the kernel refuses.
THEOREM TypeCorrect == Spec => []TypeOK
<1>1. StructureInv => TypeOK
  BY DEF StructureInv
<1> QED BY <1>1, StructureInvariant, PTL

\* tb_inherit_mutex_sched always finds an owner, and one entry of the mutex in its list.
THEOREM EntryAlwaysFound == Spec => []EntryFound
<1>1. ASSUME StructureInv, NEW t \in Threads, pc[t] = "boost"
      PROVE  /\ owner[obj[t]] # NoThread
             /\ LET list == inherit_mutexes[owner[obj[t]]]
                IN  \E i \in 1 .. Len(list) : \A j \in 1 .. Len(list) :
                      list[j].mutex = obj[t] <=> j = i
  <2> DEFINE o == owner[obj[t]]
  <2>1. obj[t] \in Inherit /\ o # NoThread
    BY <1>1 DEF StructureInv, CallKnown, Locked, InInherit
  <2>2. o \in Threads
    BY <1>1, <2>1 DEF StructureInv, TypeOK, Mutexes
  <2>3. InheritListed(o)
    BY <1>1, <2>2 DEF StructureInv
  <2>4. PICK i \in 1 .. Len(inherit_mutexes[o]) : inherit_mutexes[o][i].mutex = obj[t]
    BY <2>1, <2>3 DEF InheritListed, HasEntry
  <2>5. \A j \in 1 .. Len(inherit_mutexes[o]) :
          inherit_mutexes[o][j].mutex = obj[t] <=> j = i
    BY <2>3, <2>4 DEF InheritListed
  <2> QED BY <2>1, <2>4, <2>5
<1>2. StructureInv => EntryFound
  BY <1>1 DEF EntryFound
<1> QED BY <1>2, StructureInvariant, PTL

-----------------------------------------------------------------------------
(* Claims                                                                  *)

\* A claim of no priority adds nothing.
LEMMA AddNormal ==
  ASSUME NEW info \in SchedInfo, NEW C, Amounts(info, C)
  PROVE  Amounts(info, C \cup {Normal})
<1>1. info.prio \in 0 .. 99
  BY InfoTypes
<1>2. Normal.prio = 0 /\ Fifo(info.prio) # Normal
  BY DEF Normal, Fifo
<1> QED BY <1>1, <1>2 DEF Amounts

\* A claim that is not the one in force does not matter: that is why an unlock need not
\* compute anew.
LEMMA DropOther ==
  ASSUME NEW info, NEW e, NEW C, Amounts(info, C \cup {e}), e # info
  PROVE  Amounts(info, C)
BY DEF Amounts

\* tb_compute_sched has run for u, or tried to.
Anew(u) ==
  \/ /\ u \notin uncomputed'
     /\ Valid(sched_info'[u])
     /\ Amounts(sched_info'[u], NotedOf(u)')
  \/ /\ u \in uncomputed'
     /\ sched_info'[u] = sched_info[u]

\* Nothing happens to the scheduling of v.
SameSched(v) ==
  /\ sched_info'[v] = sched_info[v]
  /\ v \in uncomputed' <=> v \in uncomputed

\* When tb_compute_sched has run for u, its scheduling is right, if the kernel takes it.
LEMMA Rescheduled ==
  ASSUME TypeOK, TypeOK', NEW t \in Threads, NEW u \in Threads, Reschedule(t, u)
  PROVE  Anew(u) /\ \A v \in Threads \ {u} : SameSched(v)
<1> DEFINE info == ComputeSched(user_sched_info'[u], protect_mutexes'[u], inherit_mutexes'[u])
<1>1. /\ user_sched_info'[u] \in SchedInfo
      /\ protect_mutexes'[u] \in Seq(Protect)
      /\ inherit_mutexes'[u] \in Seq(Entry)
      /\ ceiling' \in [Protect -> SchedInfo]
  BY DEF TypeOK, Entry
<1>2. Amounts(info, NotedOf(u)')
  BY <1>1, ComputedAmounts DEF NotedOf
<1>3. SetSched(t, u, info)
  BY DEF Reschedule
<1> HIDE DEF info
<1>4. CASE /\ Valid(info)
           /\ sched_info' = [sched_info EXCEPT ![u] = info]
           /\ uncomputed' = uncomputed \ {u}
  BY <1>2, <1>4 DEF TypeOK, Anew, SameSched
<1>5. CASE sched_info' = sched_info /\ uncomputed' = uncomputed \cup {u}
  BY <1>5 DEF Anew, SameSched
<1> QED BY <1>3, <1>4, <1>5 DEF SetSched

\* What Amounts says of the entries.
LEMMA EntriesBelow ==
  ASSUME NEW v \in Threads, Amounts(sched_info'[v], NotedOf(v)')
  PROVE  \A i \in 1 .. Len(inherit_mutexes'[v]) :
           inherit_mutexes'[v][i].sched_info.prio <= sched_info'[v].prio
BY DEF Amounts, NotedOf, Noted

\* A step that changes nothing of what v has to do with.
Calm(v) ==
  /\ SameSched(v)
  /\ user_sched_info'[v] = user_sched_info[v]
  /\ protect_mutexes'[v] = protect_mutexes[v]
  /\ inherit_mutexes'[v] = inherit_mutexes[v]
  /\ v \in unsorted' <=> v \in unsorted
  /\ Valid(seen'[v])
  /\ \A i \in 1 .. Len(protect_mutexes[v]) :
       ceiling'[protect_mutexes[v][i]] = ceiling[protect_mutexes[v][i]]
  /\ pc[v] = "c_unsched" => pc'[v] = "c_unsched" /\ obj'[v] = obj[v]

\* What is right for a thread stays right when nothing it depends on changes.
LEMMA CalmKeeps ==
  ASSUME NEW v \in Threads, ClaimsOf(v), Calm(v)
  PROVE  ClaimsOf(v)'
<1>1. NotedOf(v)' = NotedOf(v)
  BY DEF NotedOf, Noted, Calm
<1>2. Leading(v) => Leading(v)'
  BY DEF Leading, Calm
<1>3. SchedRight(v)'
  BY <1>1, <1>2 DEF SchedRight, Calm, SameSched, ClaimsOf
<1>4. ValuesValid(v)'
  BY DEF ValuesValid, Calm, SameSched, ClaimsOf
<1>5. \A m : Settled(v, m)' => Settled(v, m)
  BY DEF Settled, Calm
<1>6. InOrder(v)'
  BY <1>5 DEF InOrder, Calm, ClaimsOf
<1>7. Inherits(v)' /\ StillHolds(v)'
  BY DEF Inherits, StillHolds, Calm, SameSched, ClaimsOf
<1> QED BY <1>3, <1>4, <1>6, <1>7 DEF ClaimsOf

\* Who is scheduled anew has the right scheduling, and keeps the order of its list if
\* that was not touched.
LEMMA AnewKeeps ==
  ASSUME NEW v \in Threads, ClaimsOf(v), Anew(v), Valid(seen'[v]), InOrder(v)', StillHolds(v)'
  PROVE  ClaimsOf(v)'
<1>1. SchedRight(v)'
  BY DEF SchedRight, Anew
<1>2. ValuesValid(v)'
  BY DEF ValuesValid, Anew, ClaimsOf
<1>3. Inherits(v)'
  BY EntriesBelow DEF Inherits, Anew
<1> QED BY <1>1, <1>2, <1>3 DEF ClaimsOf

\* Initially the only claim on a thread is what tbthread_init asked for.
LEMMA ClaimsInit == ASSUME Init PROVE ClaimsInv
<1>1. CeilingsFifo
  BY DEF Init, CeilingsFifo, InitialCeiling, Fifo
<1>2. ASSUME NEW v \in Threads PROVE ClaimsOf(v)
  <2>1. /\ sched_info[v] = Normal /\ user_sched_info[v] = Normal /\ seen[v] = Normal
        /\ v \notin unsorted /\ protect_mutexes[v] = <<>> /\ inherit_mutexes[v] = <<>>
    BY DEF Init
  <2>2. Valid(Normal) /\ Normal.prio = 0
    BY DEF Valid, Normal
  <2>3. NotedOf(v) = {Normal}
    BY <2>1 DEF NotedOf, Noted
  <2>4. Amounts(Normal, {Normal})
    BY <2>2 DEF Amounts, Normal
  <2> QED BY <2>1, <2>2, <2>3, <2>4 DEF ClaimsOf, SchedRight, ValuesValid, InOrder, Inherits,
           StillHolds
<1> QED BY <1>1, <1>2 DEF ClaimsInv

\* Nothing changes that a claim is made of.
LEMMA ClaimsQuiet ==
  ASSUME StructureInv, TypeOK', ClaimsInv, NEW t \in Threads,
         \/ \E m \in Protect : LockProtect(t, m) \/ UnlockProtect(t, m)
         \/ Free(t)
         \/ \E m \in Inherit : LockInherit(t, m)
         \/ ReadSched(t) \/ FutexWait(t) \/ Interrupted(t) \/ CreateCopy(t) \/ Exit(t)
         \/ UNCHANGED vars
  PROVE  ClaimsInv'
<1> USE DEF Goto, fields, mutexes, locals, histories, vars
<1>1. UNCHANGED <<fields, ceiling, uncomputed, unsorted>>
  BY DEF LockProtect, UnlockProtect, Free, LockInherit, ReadSched, FutexWait, Interrupted,
     CreateCopy, Exit
<1>2. ASSUME NEW v \in Threads PROVE ClaimsOf(v)'
  <2>1. Valid(seen'[v])
    <3>1. seen'[v] \in {seen[v], sched_info[v]}
      BY DEF LockProtect, UnlockProtect, Free, LockInherit, ReadSched, FutexWait, Interrupted,
         CreateCopy, Exit, StructureInv, TypeOK
    <3> QED BY <3>1 DEF ClaimsInv, ClaimsOf, ValuesValid
  <2>2. pc[v] = "c_unsched" => pc'[v] = "c_unsched" /\ obj'[v] = obj[v]
    BY ZenonT(60)
       DEF LockProtect, UnlockProtect, Free, LockInherit, ReadSched, FutexWait, Interrupted,
           CreateCopy, Exit, StructureInv, TypeOK
  <2>3. Calm(v)
    BY <1>1, <2>1, <2>2 DEF Calm, SameSched
  <2> QED BY <2>3, CalmKeeps DEF ClaimsInv
<1>3. CeilingsFifo'
  BY <1>1 DEF CeilingsFifo, ClaimsInv
<1> QED BY <1>2, <1>3 DEF ClaimsInv

\* A mutex is in the list of its owner only.
LEMMA OnlyOwnerLists ==
  ASSUME StructureInv, NEW v \in Threads, NEW m \in Protect, owner[m] # v
  PROVE  \A i \in 1 .. Len(protect_mutexes[v]) : protect_mutexes[v][i] # m
BY DEF StructureInv, ProtectListed, InList

\* A mutex that is locked for the purpose gets another ceiling.
LEMMA ClaimsSetPrioCeiling ==
  ASSUME StructureInv, TypeOK', ClaimsInv, NEW t \in Threads, SetPrioCeiling(t)
  PROVE  ClaimsInv'
<1> DEFINE m == obj[t]
<1>1. PICK c \in Ceilings : ceiling' = [ceiling EXCEPT ![m] = Fifo(c)]
  BY DEF SetPrioCeiling
<1>2. /\ m \in Protect /\ owner[m] = t /\ pc[t] = "c_set" /\ pc'[t] = "c_unsched"
      /\ \A v \in Threads \ {t} : pc'[v] = pc[v]
      /\ UNCHANGED <<fields, obj, seen, uncomputed, unsorted>>
  BY DEF histories, SetPrioCeiling, Goto, StructureInv, CallKnown, InProtect, TypeOK
<1>3. ceiling'[m] = Fifo(c) /\ \A n \in Protect \ {m} : ceiling'[n] = ceiling[n]
  BY <1>1, <1>2 DEF StructureInv, TypeOK
<1>4. CeilingsFifo'
  BY <1>3 DEF CeilingsFifo, ClaimsInv, Fifo
<1>5. ASSUME NEW v \in Threads
            PROVE \A i \in 1 .. Len(protect_mutexes[v]) : protect_mutexes[v][i] \in Protect
  BY ElementOfSeq DEF StructureInv, TypeOK
<1>6. ASSUME NEW v \in Threads \ {t} PROVE ClaimsOf(v)'
  <2>1. \A i \in 1 .. Len(protect_mutexes[v]) : protect_mutexes[v][i] # m
    BY <1>2, OnlyOwnerLists
  <2>2. Calm(v)
    BY <1>2, <1>3, <1>5, <2>1 DEF Calm, SameSched, fields, ClaimsInv, ClaimsOf, ValuesValid
  <2> QED BY <2>2, CalmKeeps DEF ClaimsInv
<1>7. ClaimsOf(t)'
  <2>0. ClaimsOf(t)
    BY DEF ClaimsInv
  <2>1. SchedRight(t)'
    <3> SUFFICES ASSUME t \notin uncomputed \cup unsorted, ~Leading(t)' PROVE Amounts(sched_info[t], NotedOf(t)')
      BY <1>2 DEF SchedRight, fields
    <3>1. ~Leading(t)
      BY <1>2 DEF Leading
    <3>2. m # Head(protect_mutexes[t])
      BY <1>2 DEF Leading, fields
    <3>3. 1 \in 1 .. Len(protect_mutexes[t]) =>
            ceiling'[protect_mutexes[t][1]] = ceiling[protect_mutexes[t][1]]
      BY <1>3, <1>5, <3>2
    <3>4. NotedOf(t)' = NotedOf(t)
      BY <1>2, <3>3 DEF NotedOf, Noted, fields
    <3> QED BY <2>0, <3>1, <3>4 DEF ClaimsOf, SchedRight
  <2>2. ValuesValid(t)' /\ Inherits(t)' /\ StillHolds(t)'
    BY <1>2, <2>0 DEF ClaimsOf, ValuesValid, Inherits, StillHolds, fields
  <2>3. InOrder(t)'
    <3>1. \A n : Settled(t, n)' => n # m /\ Settled(t, n)
      BY <1>2 DEF Settled
    <3> QED BY <1>2, <1>3, <1>5, <2>0, <3>1 DEF InOrder, ClaimsOf, fields
  <2> QED BY <2>1, <2>2, <2>3 DEF ClaimsOf
<1> QED BY <1>4, <1>6, <1>7 DEF ClaimsInv

\* The owner of a mutex changes its ceiling: nothing is said of it until its list is
\* empty.
LEMMA ClaimsSetPrioCeilingHeld ==
  ASSUME StructureInv, TypeOK', ClaimsInv, NEW t \in Threads, NEW m \in Protect,
         SetPrioCeilingHeld(t, m)
  PROVE  ClaimsInv'
<1>1. PICK c \in Ceilings : ceiling' = [ceiling EXCEPT ![m] = Fifo(c)]
  BY DEF SetPrioCeilingHeld
<1>2. /\ owner[m] = t /\ pc[t] = "idle" /\ UNCHANGED <<fields, pc, obj, seen, uncomputed>>
      /\ unsorted' = unsorted \cup {t}
  BY DEF SetPrioCeilingHeld, locals
<1>3. ceiling'[m] = Fifo(c) /\ \A n \in Protect \ {m} : ceiling'[n] = ceiling[n]
  BY <1>1 DEF StructureInv, TypeOK
<1>4. CeilingsFifo'
  BY <1>3 DEF CeilingsFifo, ClaimsInv, Fifo
<1>5. ASSUME NEW v \in Threads
      PROVE  \A i \in 1 .. Len(protect_mutexes[v]) : protect_mutexes[v][i] \in Protect
  BY ElementOfSeq DEF StructureInv, TypeOK
<1>6. ASSUME NEW v \in Threads \ {t} PROVE ClaimsOf(v)'
  <2>1. \A i \in 1 .. Len(protect_mutexes[v]) : protect_mutexes[v][i] # m
    BY <1>2, OnlyOwnerLists
  <2>2. Calm(v)
    BY <1>2, <1>3, <1>5, <2>1 DEF Calm, SameSched, fields, ClaimsInv, ClaimsOf, ValuesValid
  <2> QED BY <2>2, CalmKeeps DEF ClaimsInv
<1>7. ClaimsOf(t)'
  <2>1. SchedRight(t)' /\ InOrder(t)'
    BY <1>2 DEF SchedRight, InOrder
  <2>2. ValuesValid(t)' /\ Inherits(t)'
    BY <1>2 DEF ClaimsInv, ClaimsOf, ValuesValid, Inherits, fields
  <2>3. StillHolds(t)'
    <3>1. InList(protect_mutexes[t], m)
      BY <1>2 DEF StructureInv, ProtectListed, Unlisted
    <3> QED BY <1>2, <3>1 DEF StillHolds, InList, fields
  <2> QED BY <2>1, <2>2, <2>3 DEF ClaimsOf
<1> QED BY <1>4, <1>6, <1>7 DEF ClaimsInv

\* An element put before the first smaller one leaves the order.
LEMMA InsertOrdered ==
  ASSUME NEW n \in Nat, NEW at \in 1 .. n + 1, NEW c \in 0 .. 99, NEW old, NEW new,
         \A i \in 1 .. n : old[i] \in 0 .. 99,
         \A i, j \in 1 .. n : i < j => old[j] <= old[i],
         \A i \in 1 .. at - 1 : c <= old[i],
         at <= n => old[at] <= c,
         \A i \in 1 .. n + 1 :
           new[i] = IF i < at THEN old[i] ELSE IF i = at THEN c ELSE old[i - 1]
  PROVE  \A i, j \in 1 .. n + 1 : i < j => new[j] <= new[i]
<1>1. ASSUME NEW i \in 1 .. n, at <= i PROVE old[i] <= c
  <2>1. CASE i = at
    BY <1>1, <2>1
  <2>2. CASE at < i
    <3>1. at \in 1 .. n /\ old[i] <= old[at] /\ old[at] <= c
      BY <1>1, <2>2
    <3>2. old[i] \in 0 .. 99 /\ old[at] \in 0 .. 99
      BY <3>1
    <3> QED BY ONLY c \in 0 .. 99, <3>1, <3>2
  <2> QED BY <1>1, <2>1, <2>2
<1>2. ASSUME NEW i \in 1 .. n + 1
      PROVE  \/ i < at /\ i \in 1 .. n /\ new[i] = old[i]
             \/ i = at /\ new[i] = c
             \/ \E k \in 1 .. n : k = i - 1 /\ at <= k /\ new[i] = old[k]
  <2>1. CASE i < at
    BY <2>1
  <2>2. CASE i = at
    BY <2>2
  <2>3. CASE i > at
    <3>1. PICK k \in 1 .. n : k = i - 1 /\ at <= k
      BY <2>3
    <3> QED BY <2>3, <3>1
  <2> QED BY <2>1, <2>2, <2>3
<1> SUFFICES ASSUME NEW i \in 1 .. n + 1, NEW j \in 1 .. n + 1, i < j PROVE new[j] <= new[i]
  OBVIOUS
<1>3. CASE j < at
  BY <1>2, <1>3
<1>4. CASE j = at
  BY <1>2, <1>4
<1>5. CASE j > at
  <2>1. PICK l \in 1 .. n : l = j - 1 /\ at <= l /\ new[j] = old[l]
    BY <1>2, <1>5
  <2>2. old[l] <= c /\ old[l] \in 0 .. 99
    BY <1>1, <2>1
  <2>3. CASE i < at
    <3>1. i \in 1 .. n /\ i < l /\ new[i] = old[i]
      BY <2>1, <2>3
    <3> QED BY <2>1, <3>1
  <2>4. CASE i = at
    BY <1>2, <2>1, <2>2, <2>4
  <2>5. CASE i > at
    <3>1. PICK k \in 1 .. n : k = i - 1 /\ new[i] = old[k]
      BY <1>2, <2>5
    <3>2. k < l
      BY <2>1, <3>1
    <3> QED BY <2>1, <3>1, <3>2
  <2> QED BY <2>3, <2>4, <2>5
<1> QED BY <1>3, <1>4, <1>5

\* The mutexes in a list and their ceilings.
LEMMA ListTypes ==
  ASSUME TypeOK, NEW v \in Threads
  PROVE  /\ protect_mutexes[v] \in Seq(Protect) /\ Len(protect_mutexes[v]) \in Nat
         /\ \A i \in 1 .. Len(protect_mutexes[v]) :
              /\ protect_mutexes[v][i] \in Protect
              /\ ceiling[protect_mutexes[v][i]].prio \in 0 .. 99
<1>1. protect_mutexes[v] \in Seq(Protect)
  BY DEF TypeOK
<1>2. ASSUME NEW i \in 1 .. Len(protect_mutexes[v]) PROVE protect_mutexes[v][i] \in Protect
  BY <1>1, ElementOfSeq
<1>3. \A n \in Protect : ceiling[n].prio \in 0 .. 99
  BY InfoTypes DEF TypeOK
<1> QED BY <1>1, <1>2, <1>3, LenProperties

\* A mutex is put where its ceiling belongs, and the scheduling is computed anew if
\* that is the first place.
LEMMA ClaimsProtectSched ==
  ASSUME StructureInv, TypeOK', ClaimsInv, NEW t \in Threads, ProtectSched(t)
  PROVE  ClaimsInv'
<1> DEFINE list == protect_mutexes[t]
           m == obj[t]
           at == AddHere(list, m)
           longer == protect_mutexes'[t]
<1>0. TypeOK /\ ClaimsOf(t) /\ CeilingsFifo
  BY DEF StructureInv, ClaimsInv
<1>1. /\ m \in Protect /\ pc[t] \in {"protect", "c_protect"} /\ pc'[t] \in {"idle", "c_set"}
      /\ longer = InsertAt(list, at, m)
      /\ \A v \in Threads \ {t} : /\ pc'[v] = pc[v] /\ obj'[v] = obj[v]
                                  /\ protect_mutexes'[v] = protect_mutexes[v]
      /\ UNCHANGED <<user_sched_info, inherit_mutexes, ceiling, seen, unsorted>>
  BY DEF ProtectSched, Goto, mutexes, StructureInv, TypeOK, CallKnown, InProtect
<1>2. list \in Seq(Protect) /\ Len(list) \in Nat /\ ceiling[m].prio \in 0 .. 99
  BY <1>0, <1>1, ListTypes, InfoTypes DEF TypeOK
<1>3. /\ at \in 1 .. Len(list) + 1
      /\ \A j \in 1 .. at - 1 : ~MutexPrioSmaller(m, list[j])
      /\ at <= Len(list) => MutexPrioSmaller(m, list[at])
  BY <1>2, AddHereFacts
<1>4. /\ Len(longer) = Len(list) + 1
      /\ \A i \in 1 .. Len(list) + 1 :
           longer[i] = IF i < at THEN list[i] ELSE IF i = at THEN m ELSE list[i - 1]
  <2>1. /\ Len(InsertAt(list, at, m)) = Len(list) + 1
        /\ \A i \in 1 .. Len(list) + 1 :
             InsertAt(list, at, m)[i] =
                 IF i < at THEN list[i] ELSE IF i = at THEN m ELSE list[i - 1]
    <3> HIDE DEF list, at, m
    <3> QED BY <1>1, <1>2, <1>3, InsertFacts
  <2> QED BY <1>1, <2>1
<1>5. CeilingsFifo'
  BY <1>0, <1>1 DEF CeilingsFifo
<1>6. IF at = 1 THEN Reschedule(t, t) ELSE NoReschedule
  BY DEF ProtectSched
<1>7. Valid(seen'[t]) /\ StillHolds(t)'
  BY <1>0, <1>1, <1>2, <1>4 DEF ClaimsOf, ValuesValid, StillHolds
<1> HIDE DEF at, longer
<1>8. InOrder(t)'
  <2>0. SUFFICES ASSUME t \notin unsorted PROVE InOrder(t)'
    BY <1>1 DEF InOrder
  <2> DEFINE old == [i \in 1 .. Len(list) |-> ceiling[list[i]].prio]
             new == [i \in 1 .. Len(list) + 1 |-> ceiling[longer[i]].prio]
             c == ceiling[m].prio
  <2>1. \A i \in 1 .. Len(list) : old[i] \in 0 .. 99
    BY <1>0, ListTypes
  <2>2. \A i, j \in 1 .. Len(list) : i < j => old[j] <= old[i]
    BY <1>0, <1>1, <2>0 DEF InOrder, ClaimsOf, Settled
  <2>3. \A i \in 1 .. at - 1 : c <= old[i]
    <3> SUFFICES ASSUME NEW i \in 1 .. at - 1 PROVE c <= old[i]
      OBVIOUS
    <3>1. i \in 1 .. Len(list) /\ ~ (ceiling[list[i]].prio < c)
      BY <1>2, <1>3, SMTT(60) DEF MutexPrioSmaller
    <3>2. old[i] \in 0 .. 99 /\ ~ (old[i] < c) /\ c \in 0 .. 99
      BY <1>2, <2>1, <3>1
    <3> HIDE DEF old, c
    <3> QED BY ONLY <3>2
  <2>4. at <= Len(list) => old[at] <= c
    <3> SUFFICES ASSUME at <= Len(list) PROVE old[at] <= c
      OBVIOUS
    <3>1. at \in 1 .. Len(list) /\ ceiling[list[at]].prio < c
      BY <1>2, <1>3 DEF MutexPrioSmaller
    <3>2. old[at] \in 0 .. 99 /\ old[at] < c /\ c \in 0 .. 99
      BY <1>2, <2>1, <3>1
    <3> HIDE DEF old, c
    <3> QED BY ONLY <3>2
  <2>5. \A i \in 1 .. Len(list) + 1 :
          new[i] = IF i < at THEN old[i] ELSE IF i = at THEN c ELSE old[i - 1]
    <3> SUFFICES ASSUME NEW i \in 1 .. Len(list) + 1
                 PROVE  new[i] = IF i < at THEN old[i] ELSE IF i = at THEN c ELSE old[i - 1]
      OBVIOUS
    <3>1. CASE i < at
      <4>1. i \in 1 .. Len(list)
        BY <1>2, <1>3, <3>1
      <4> QED BY <1>4, <3>1, <4>1
    <3>2. CASE i = at
      BY <1>2, <1>3, <1>4, <3>2
    <3>3. CASE i > at
      <4>1. PICK k \in 1 .. Len(list) : k = i - 1
        BY <1>2, <1>3, <3>3
      <4>2. ~ (i < at) /\ i # at
        BY <1>2, <1>3, <3>3
      <4>3. longer[i] = list[k]
        BY <1>4, <4>1, <4>2
      <4>4. new[i] = old[k]
        BY <4>3, SMTT(60)
      <4> HIDE DEF new, old, c
      <4> QED BY <4>1, <4>2, <4>4
    <3> QED BY <1>2, <1>3, <3>1, <3>2, <3>3
  <2>6. \A i, j \in 1 .. Len(list) + 1 : i < j => new[j] <= new[i]
    <3>1. c \in 0 .. 99
      BY <1>2
    <3> HIDE DEF old, new, c
    <3> QED BY <1>2, <1>3, <2>1, <2>2, <2>3, <2>4, <2>5, <3>1, InsertOrdered
  <2>7. \A i, j \in 1 .. Len(longer) : i < j => ceiling[longer[j]].prio <= ceiling[longer[i]].prio
    BY <1>4, <2>6
  <2> QED BY <1>1, <2>7 DEF InOrder, longer
<1>9. ClaimsOf(t)' /\ \A v \in Threads \ {t} : SameSched(v)
  <2>1. CASE at = 1
    <3>1. Anew(t) /\ \A v \in Threads \ {t} : SameSched(v)
      BY <1>0, <1>6, <2>1, Rescheduled
    <3> QED BY <1>0, <1>7, <1>8, <3>1, AnewKeeps
  <2>2. CASE at # 1
    <3>1. 1 \in 1 .. Len(list) /\ 1 \in 1 .. Len(longer) /\ longer[1] = list[1]
      BY <1>2, <1>3, <1>4, <2>2
    <3>2. NotedOf(t)' = NotedOf(t)
      <4>1. {ceiling[longer[i]] : i \in {1} \cap (1 .. Len(longer))} = {ceiling[list[1]]}
        BY <3>1
      <4>2. {ceiling[list[i]] : i \in {1} \cap (1 .. Len(list))} = {ceiling[list[1]]}
        BY <3>1
      <4> QED BY <1>1, <4>1, <4>2 DEF NotedOf, Noted, longer
    <3>3. ~Leading(t)
      BY <1>1 DEF Leading
    <3>4. UNCHANGED <<sched_info, uncomputed>>
      BY <1>6, <2>2 DEF NoReschedule
    <3>5. SchedRight(t)' /\ ValuesValid(t)' /\ Inherits(t)'
      BY <1>0, <1>1, <3>2, <3>3, <3>4 DEF ClaimsOf, SchedRight, ValuesValid, Inherits
    <3> QED BY <1>7, <1>8, <3>4, <3>5 DEF ClaimsOf, SameSched
  <2> QED BY <2>1, <2>2
<1>10. ASSUME NEW v \in Threads \ {t} PROVE ClaimsOf(v)'
  <2>1. Calm(v)
    BY <1>1, <1>9 DEF Calm, ClaimsInv, ClaimsOf, ValuesValid
  <2> QED BY <2>1, CalmKeeps DEF ClaimsInv
<1> QED BY <1>5, <1>9, <1>10 DEF ClaimsInv

\* A mutex leaves the list, and the scheduling is computed anew if it was the first.
LEMMA ClaimsProtectUnsched ==
  ASSUME StructureInv, TypeOK', ClaimsInv, NEW t \in Threads, ProtectUnsched(t)
  PROVE  ClaimsInv'
<1> DEFINE list == protect_mutexes[t]
           m == obj[t]
           at == FindElem(list, m)
           rest == protect_mutexes'[t]
<1>0. TypeOK /\ ClaimsOf(t) /\ CeilingsFifo
  BY DEF StructureInv, ClaimsInv
<1>1. /\ m \in Protect /\ owner[m] = t /\ pc[t] \in {"unsched", "c_unsched"} /\ pc'[t] = "free"
      /\ obj' = obj /\ rest = ListRm(list, at)
      /\ \A v \in Threads \ {t} : /\ pc'[v] = pc[v]
                                  /\ protect_mutexes'[v] = protect_mutexes[v]
      /\ unsorted' = IF Len(list) = 1 THEN unsorted \ {t} ELSE unsorted
      /\ UNCHANGED <<user_sched_info, inherit_mutexes, ceiling, seen>>
  BY DEF ProtectUnsched, Goto, mutexes, StructureInv, TypeOK, CallKnown, InProtect
<1>2. list \in Seq(Protect) /\ Len(list) \in Nat
  BY <1>0, ListTypes
<1>3. /\ \A n \in Protect : InList(list, n) <=> owner[n] = t
      /\ \A k, l \in 1 .. Len(list) : list[k] = list[l] => k = l
  BY <1>1 DEF StructureInv, ProtectListed, Unlisted
<1>4. at \in 1 .. Len(list) /\ list[at] = m
  BY <1>1, <1>2, <1>3, FindElemFacts
<1>5. /\ Without(rest, list, at) /\ Len(rest) = Len(list) - 1
      /\ \A i \in 1 .. Len(list) - 1 : rest[i] = IF i < at THEN list[i] ELSE list[i + 1]
  <2>1. /\ Without(ListRm(list, at), list, at) /\ Len(ListRm(list, at)) = Len(list) - 1
        /\ \A i \in 1 .. Len(list) - 1 :
             ListRm(list, at)[i] = IF i < at THEN list[i] ELSE list[i + 1]
    <3> HIDE DEF at, list, m
    <3> QED BY <1>2, <1>4, RemovedElements, RemoveFacts
  <2> QED BY <1>1, <2>1
<1>6. CeilingsFifo'
  BY <1>0, <1>1 DEF CeilingsFifo
<1>7. IF at = 1 THEN Reschedule(t, t) ELSE NoReschedule
  BY DEF ProtectUnsched
<1>8. Valid(seen'[t]) /\ StillHolds(t)'
  BY <1>0, <1>1, <1>2, <1>5 DEF ClaimsOf, ValuesValid, StillHolds
<1> HIDE DEF at, rest
<1>9. InOrder(t)'
  <2> SUFFICES ASSUME t \notin unsorted', NEW i \in 1 .. Len(rest), NEW j \in 1 .. Len(rest), i < j
               PROVE  ceiling[rest[j]].prio <= ceiling[rest[i]].prio
    BY <1>1 DEF InOrder, rest
  <2>1. PICK k, l \in (1 .. Len(list)) \ {at} : k < l /\ rest[i] = list[k] /\ rest[j] = list[l]
    BY <1>5 DEF Without
  <2>2. list[k] # m /\ list[l] # m
    BY <1>3, <1>4
  <2>3. t \notin unsorted
    <3>1. Len(rest) # 0 /\ Len(list) # 1
      <4>1. Len(rest) \in Nat /\ i \in 1 .. Len(rest)
        BY <1>5 DEF Without
      <4> QED BY ONLY <1>5, <4>1, Len(list) \in Nat, <1>2
    <3> QED BY <1>1, <3>1
  <2> QED BY <1>0, <2>1, <2>2, <2>3 DEF ClaimsOf, InOrder, Settled
<1>10. ClaimsOf(t)' /\ \A v \in Threads \ {t} : SameSched(v)
  <2>1. CASE at = 1
    <3>1. Anew(t) /\ \A v \in Threads \ {t} : SameSched(v)
      BY <1>0, <1>7, <2>1, Rescheduled
    <3> QED BY <1>0, <1>8, <1>9, <3>1, AnewKeeps
  <2>2. CASE at # 1
    <3>1. 1 \in 1 .. Len(list) /\ 1 \in 1 .. Len(rest) /\ rest[1] = list[1]
      BY <1>2, <1>4, <1>5, <2>2
    <3>2. NotedOf(t)' = NotedOf(t)
      <4>1. {ceiling[rest[i]] : i \in {1} \cap (1 .. Len(rest))} = {ceiling[list[1]]}
        BY <3>1
      <4>2. {ceiling[list[i]] : i \in {1} \cap (1 .. Len(list))} = {ceiling[list[1]]}
        BY <3>1
      <4> QED BY <1>1, <4>1, <4>2 DEF NotedOf, Noted, rest
    <3>3. ~Leading(t)
      BY <1>3, <1>4, <2>2, <3>1 DEF Leading
    <3>4. UNCHANGED <<sched_info, uncomputed>>
      BY <1>7, <2>2 DEF NoReschedule
    <3>5. unsorted' = unsorted
      BY <1>1, <1>2, <1>4, <2>2
    <3>6. SchedRight(t)' /\ ValuesValid(t)' /\ Inherits(t)'
      BY <1>0, <1>1, <3>2, <3>3, <3>4, <3>5 DEF ClaimsOf, SchedRight, ValuesValid, Inherits
    <3> QED BY <1>8, <1>9, <3>4, <3>6 DEF ClaimsOf, SameSched
  <2> QED BY <2>1, <2>2
<1>11. ASSUME NEW v \in Threads \ {t} PROVE ClaimsOf(v)'
  <2>1. Calm(v)
    BY <1>1, <1>10 DEF Calm, ClaimsInv, ClaimsOf, ValuesValid
  <2> QED BY <2>1, CalmKeeps DEF ClaimsInv
<1> QED BY <1>6, <1>10, <1>11 DEF ClaimsInv

\* Scheduling of no effect.
LEMMA NormalValues == Valid(Normal) /\ Normal.prio = 0
BY DEF Valid, Normal

\* A mutex that nobody waits for adds no claim.
LEMMA ClaimsTakeInherit ==
  ASSUME StructureInv, TypeOK', ClaimsInv, NEW t \in Threads, TakeInherit(t)
  PROVE  ClaimsInv'
<1> DEFINE list == inherit_mutexes[t]
           m == obj[t]
           longer == inherit_mutexes'[t]
<1>0. TypeOK /\ ClaimsOf(t) /\ CeilingsFifo
  BY DEF StructureInv, ClaimsInv
<1>1. /\ m \in Inherit /\ pc[t] = "take" /\ pc'[t] = "idle"
      /\ longer = ListAdd(list, NewEntry(m))
      /\ \A v \in Threads \ {t} : /\ pc'[v] = pc[v] /\ obj'[v] = obj[v]
                                  /\ inherit_mutexes'[v] = inherit_mutexes[v]
      /\ UNCHANGED <<sched_info, user_sched_info, protect_mutexes, ceiling, seen,
                     uncomputed, unsorted>>
  BY DEF histories, TakeInherit, Goto, StructureInv, TypeOK, CallKnown, InInherit
<1>2. list \in Seq(Entry) /\ Len(list) \in Nat
  BY <1>0, LenProperties DEF TypeOK, Entry
<1>3. /\ Len(longer) = Len(list) + 1
      /\ \A i \in 1 .. Len(list) + 1 :
           longer[i] = IF i <= Len(list) THEN list[i] ELSE NewEntry(m)
  <2> DEFINE e == NewEntry(m)
  <2>1. e \in Entry
    BY <1>1, Values
  <2> HIDE DEF e, list, m
  <2>2. /\ Len(ListAdd(list, e)) = Len(list) + 1
        /\ \A i \in 1 .. Len(list) + 1 :
             ListAdd(list, e)[i] = IF i <= Len(list) THEN list[i] ELSE e
    BY <1>2, <2>1, AddFacts
  <2> QED BY <1>1, <2>2 DEF e
<1> HIDE DEF longer
<1>4. /\ \A i \in 1 .. Len(list) : longer[i] = list[i]
      /\ longer[Len(list) + 1].sched_info = Normal
      /\ 1 .. Len(longer) = (1 .. Len(list)) \cup {Len(list) + 1}
  <2>1. NewEntry(m).sched_info = Normal
    BY DEF NewEntry
  <2> QED BY <1>2, <1>3, <2>1
<1>5. NotedOf(t)' = NotedOf(t) \cup {Normal}
  <2>1. {longer[i].sched_info : i \in 1 .. Len(longer)}
          = {list[i].sched_info : i \in 1 .. Len(list)} \cup {Normal}
    BY <1>4
  <2>2. /\ NotedOf(t)' = {user_sched_info[t]}
             \cup {ceiling[protect_mutexes[t][i]] : i \in {1} \cap (1 .. Len(protect_mutexes[t]))}
             \cup {longer[i].sched_info : i \in 1 .. Len(longer)}
        /\ NotedOf(t) = {user_sched_info[t]}
             \cup {ceiling[protect_mutexes[t][i]] : i \in {1} \cap (1 .. Len(protect_mutexes[t]))}
             \cup {list[i].sched_info : i \in 1 .. Len(list)}
    BY <1>1 DEF NotedOf, Noted, longer
  <2> QED BY <2>1, <2>2
<1>6. SchedRight(t)'
  <2> SUFFICES ASSUME t \notin uncomputed \cup unsorted
               PROVE  Amounts(sched_info'[t], NotedOf(t)')
    BY <1>1 DEF SchedRight
  <2>1. ~Leading(t)
    BY <1>1 DEF Leading
  <2>2. Amounts(sched_info[t], NotedOf(t)) /\ sched_info[t] \in SchedInfo
    BY <1>0, <2>1 DEF ClaimsOf, SchedRight, TypeOK
  <2> QED BY <1>1, <1>5, <2>2, AddNormal
<1>7. Inherits(t)'
  <2>1. sched_info[t].prio \in 0 .. 99
    BY <1>0, InfoTypes DEF TypeOK
  <2>2. 0 <= sched_info[t].prio
    BY <2>1
  <2>3. \A i \in 1 .. Len(longer) :
          \/ longer[i].sched_info = Normal
          \/ i \in 1 .. Len(list) /\ longer[i] = list[i]
    BY <1>4
  <2>4. t \notin uncomputed =>
          \A i \in 1 .. Len(longer) : longer[i].sched_info.prio <= sched_info[t].prio
    BY <1>0, <2>2, <2>3, NormalValues DEF ClaimsOf, Inherits
  <2> QED BY <1>1, <2>4 DEF Inherits, longer
<1>8. InOrder(t)' /\ ValuesValid(t)' /\ StillHolds(t)'
  BY <1>0, <1>1 DEF ClaimsOf, InOrder, Settled, ValuesValid, StillHolds
<1>9. ClaimsOf(t)'
  BY <1>6, <1>7, <1>8 DEF ClaimsOf
<1>10. ASSUME NEW v \in Threads \ {t} PROVE ClaimsOf(v)'
  <2>1. Calm(v)
    BY <1>1 DEF Calm, SameSched, ClaimsInv, ClaimsOf, ValuesValid
  <2> QED BY <2>1, CalmKeeps DEF ClaimsInv
<1>11. CeilingsFifo'
  BY <1>0, <1>1 DEF CeilingsFifo
<1> QED BY <1>9, <1>10, <1>11 DEF ClaimsInv

\* A mutex whose entry is not what the thread runs at goes without a computation.
LEMMA ClaimsUnlockInherit ==
  ASSUME StructureInv, TypeOK', ClaimsInv, NEW t \in Threads, NEW m \in Inherit,
         UnlockInherit(t, m)
  PROVE  ClaimsInv'
<1> DEFINE list == inherit_mutexes[t]
           at == FindMutex(list, m)
           rest == inherit_mutexes'[t]
<1>0. TypeOK /\ ClaimsOf(t) /\ CeilingsFifo
  BY DEF StructureInv, ClaimsInv
<1>1. /\ owner[m] = t /\ pc[t] = "idle" /\ obj' = obj
      /\ rest = ListRm(list, at)
      /\ \A v \in Threads \ {t} : inherit_mutexes'[v] = inherit_mutexes[v]
      /\ UNCHANGED <<user_sched_info, protect_mutexes, ceiling, seen, unsorted>>
  BY DEF UnlockInherit, StructureInv, TypeOK
<1>2. \A v \in Threads : pc'[v] = pc[v] \/ (pc[v] = "asleep" /\ pc'[v] = "take")
  BY <1>0 DEF UnlockInherit, First, Sleepers, TypeOK
<1>3. list \in Seq(Entry) /\ Len(list) \in Nat
  BY <1>0, LenProperties DEF TypeOK, Entry
<1>4. HasEntry(list, m)
  BY <1>1 DEF StructureInv, InheritListed
<1>5. at \in 1 .. Len(list)
  BY <1>3, <1>4, FindMutexFacts
<1>6. Without(rest, list, at)
  <2>1. Without(ListRm(list, at), list, at)
    <3> HIDE DEF at, list
    <3> QED BY <1>3, <1>5, RemovedElements
  <2> QED BY <1>1, <2>1
<1>7. CeilingsFifo'
  BY <1>0, <1>1 DEF CeilingsFifo
<1>8. IF Counted(t, list[at]) THEN Reschedule(t, t) ELSE NoReschedule
  BY DEF UnlockInherit
<1> HIDE DEF at, rest
<1>9. Valid(seen'[t]) /\ StillHolds(t)' /\ InOrder(t)'
  BY <1>0, <1>1, <1>2 DEF ClaimsOf, ValuesValid, StillHolds, InOrder, Settled
<1>10. ClaimsOf(t)' /\ \A v \in Threads \ {t} : SameSched(v)
  <2>1. CASE Counted(t, list[at])
    <3>1. Anew(t) /\ \A v \in Threads \ {t} : SameSched(v)
      BY <1>0, <1>8, <2>1, Rescheduled
    <3> QED BY <1>0, <1>9, <3>1, AnewKeeps
  <2>2. CASE ~Counted(t, list[at])
    <3> DEFINE e == list[at].sched_info
               others == {user_sched_info[t]}
                 \cup {ceiling[protect_mutexes[t][i]]
                      : i \in {1} \cap (1 .. Len(protect_mutexes[t]))}
               left == {rest[i].sched_info : i \in 1 .. Len(rest)}
    <3>1. {list[i].sched_info : i \in 1 .. Len(list)} = left \cup {e}
      <4> DEFINE all == {list[i].sched_info : i \in 1 .. Len(list)}
      <4>1. ASSUME NEW i \in 1 .. Len(list), i # at PROVE list[i].sched_info \in left
        BY <1>6, <4>1 DEF Without
      <4>2. left \subseteq all
        <5> SUFFICES ASSUME NEW i \in 1 .. Len(rest) PROVE rest[i].sched_info \in all
          OBVIOUS
        <5>1. PICK k \in 1 .. Len(list) : rest[i] = list[k]
          BY <1>6 DEF Without
        <5>2. list[k].sched_info \in all
          OBVIOUS
        <5> QED BY <5>1, <5>2
      <4>3. e \in all
        BY <1>5
      <4>4. all \subseteq left \cup {e}
        BY <4>1
      <4> HIDE DEF all, left, e
      <4>5. all = left \cup {e}
        BY <4>2, <4>3, <4>4
      <4> QED BY <4>5 DEF all
    <3>2. NotedOf(t) = others \cup (left \cup {e})
      BY <3>1 DEF NotedOf, Noted
    <3>3. NotedOf(t)' = others \cup left
      BY <1>1 DEF NotedOf, Noted, rest
    <3>4. ~Leading(t) /\ e # sched_info[t]
      BY <1>1, <2>2 DEF Leading, Counted
    <3>5. UNCHANGED <<sched_info, uncomputed>>
      BY <1>8, <2>2 DEF NoReschedule
    <3>6. SchedRight(t)'
      <4> SUFFICES ASSUME t \notin uncomputed \cup unsorted
                   PROVE  Amounts(sched_info'[t], NotedOf(t)')
        BY <1>1, <3>5 DEF SchedRight
      <4>1. Amounts(sched_info[t], NotedOf(t))
        BY <1>0, <3>4 DEF ClaimsOf, SchedRight
      <4> HIDE DEF e, others, left
      <4>2. NotedOf(t) = (others \cup left) \cup {e}
        BY <3>2
      <4> QED BY <3>3, <3>4, <3>5, <4>1, <4>2, DropOther
    <3>7. Inherits(t)'
      <4>1. \A i \in 1 .. Len(rest) : \E k \in 1 .. Len(list) : rest[i] = list[k]
        BY <1>6 DEF Without
      <4> QED BY <1>0, <3>5, <4>1 DEF ClaimsOf, Inherits, rest
    <3>8. ValuesValid(t)'
      BY <1>0, <1>9, <3>5 DEF ClaimsOf, ValuesValid
    <3> QED BY <1>9, <3>5, <3>6, <3>7, <3>8 DEF ClaimsOf, SameSched
  <2> QED BY <2>1, <2>2
<1>11. ASSUME NEW v \in Threads \ {t} PROVE ClaimsOf(v)'
  <2>1. Calm(v)
    BY <1>1, <1>2, <1>10 DEF Calm, ClaimsInv, ClaimsOf, ValuesValid
  <2> QED BY <2>1, CalmKeeps DEF ClaimsInv
<1> QED BY <1>7, <1>10, <1>11 DEF ClaimsInv

\* A waiter's priority becomes a claim on the owner, who is scheduled anew.
LEMMA ClaimsBoost ==
  ASSUME StructureInv, TypeOK', ClaimsInv, NEW t \in Threads, Boost(t)
  PROVE  ClaimsInv'
<1>0. TypeOK /\ ClaimsOf(t) /\ CeilingsFifo /\ \A v \in Threads : ClaimsOf(v)
  BY DEF StructureInv, ClaimsInv
<1>1. /\ obj[t] \in Inherit /\ owner[obj[t]] \in Threads
      /\ pc[t] = "boost" /\ pc'[t] = "wait" /\ obj' = obj
      /\ \A v \in Threads \ {t} : pc'[v] = pc[v] /\ seen'[v] = seen[v]
      /\ seen'[t] = Normal
      /\ UNCHANGED <<user_sched_info, protect_mutexes, ceiling, unsorted>>
  BY DEF Boost, Goto, StructureInv, TypeOK, CallKnown, InInherit, Locked, Mutexes
<1> PICK m \in Inherit, o \in Threads : m = obj[t] /\ o = owner[m]
  BY <1>1
<1> DEFINE at == FindMutex(inherit_mutexes[o], m)
<1>2. CeilingsFifo'
  BY <1>0, <1>1 DEF CeilingsFifo
<1>3. \A v \in Threads : Valid(seen'[v])
  BY <1>0, <1>1, NormalValues DEF ClaimsOf, ValuesValid
<1>4. ASSUME NEW v \in Threads, SameSched(v),
             inherit_mutexes'[v] = inherit_mutexes[v]
      PROVE  ClaimsOf(v)'
  <2>1. Calm(v)
    BY <1>1, <1>3, <1>4 DEF Calm
  <2> QED BY <1>0, <2>1, CalmKeeps
<1>5. CASE at # 0 /\ Raises(seen[t], inherit_mutexes[o][at].sched_info)
  <2>1. StoreEntry(o, at, seen[t]) /\ Reschedule(t, o) /\ seen[t] \in SchedInfo
    BY <1>0, <1>5 DEF Boost, TypeOK, StoreEntry
  <2>2. at \in 1 .. Len(inherit_mutexes[o])
    <3>1. inherit_mutexes[o] \in Seq(Entry)
      BY <1>0, <1>1 DEF TypeOK, Entry
    <3> QED BY <1>5, <3>1, FindMutexFacts
  <2> HIDE DEF at
  <2>3. EntryStored(o, at, seen[t])
    BY <1>0, <2>1, <2>2, EntryChanged
  <2>4. InOrder(o)' /\ StillHolds(o)'
    <3>1. pc'[o] = "c_unsched" <=> pc[o] = "c_unsched"
      BY <1>1
    <3>2. ClaimsOf(o)
      BY <1>0, <1>1
    <3> QED BY <1>1, <3>1, <3>2 DEF ClaimsOf, InOrder, Settled, StillHolds
  <2>5. Anew(o) /\ \A v \in Threads \ {o} : SameSched(v)
    BY <1>0, <1>1, <2>1, Rescheduled
  <2>6. ClaimsOf(o)'
    BY <1>0, <1>1, <1>3, <2>4, <2>5, AnewKeeps
  <2>7. \A v \in Threads \ {o} : ClaimsOf(v)'
    BY <1>4, <2>3, <2>5 DEF EntryStored
  <2> QED BY <1>2, <2>6, <2>7 DEF ClaimsInv
<1>6. CASE ~ (at # 0 /\ Raises(seen[t], inherit_mutexes[o][at].sched_info))
  <2>1. UNCHANGED <<sched_info, inherit_mutexes, uncomputed>>
    BY <1>6 DEF Boost, NoReschedule
  <2> QED BY <1>2, <1>4, <2>1 DEF ClaimsInv, SameSched
<1> QED BY <1>5, <1>6

\* The program asks for another scheduling.
LEMMA ClaimsSetSchedParam ==
  ASSUME StructureInv, TypeOK', ClaimsInv, NEW t \in Threads, NEW u \in Threads,
         SetSchedParam(t, u)
  PROVE  ClaimsInv'
<1>0. TypeOK /\ CeilingsFifo /\ \A v \in Threads : ClaimsOf(v)
  BY DEF StructureInv, ClaimsInv
<1>1. /\ Reschedule(t, u)
      /\ \A v \in Threads \ {u} : user_sched_info'[v] = user_sched_info[v]
      /\ UNCHANGED <<protect_mutexes, inherit_mutexes, ceiling, pc, obj, seen, unsorted>>
  BY <1>0 DEF SetSchedParam, mutexes, locals, TypeOK
<1>2. CeilingsFifo'
  BY <1>0, <1>1 DEF CeilingsFifo
<1>3. Valid(seen'[u]) /\ InOrder(u)' /\ StillHolds(u)'
  BY <1>0, <1>1 DEF ClaimsOf, ValuesValid, InOrder, Settled, StillHolds
<1>4. Anew(u) /\ \A v \in Threads \ {u} : SameSched(v)
  BY <1>0, <1>1, Rescheduled
<1>5. ClaimsOf(u)'
  BY <1>0, <1>3, <1>4, AnewKeeps
<1>6. ASSUME NEW v \in Threads \ {u} PROVE ClaimsOf(v)'
  <2>1. Calm(v)
    BY <1>0, <1>1, <1>4 DEF Calm, ClaimsOf, ValuesValid
  <2> QED BY <1>0, <2>1, CalmKeeps
<1> QED BY <1>2, <1>5, <1>6 DEF ClaimsInv

\* A thread starts with nothing that has a say in its scheduling but user_sched_info,
\* and what it is created to run at may be something else.
LEMMA ClaimsCreated ==
  ASSUME StructureInv, TypeOK', ClaimsInv, NEW t \in Threads, NEW u \in Threads,
         Clone(t, u) \/ CreateExplicit(t, u)
  PROVE  ClaimsInv'
<1>0. TypeOK /\ CeilingsFifo /\ \A v \in Threads : ClaimsOf(v)
  BY DEF StructureInv, ClaimsInv
<1>1. PICK info \in SchedInfo : Given(u, info) /\ Valid(info)
  <2>1. CASE Clone(t, u)
    BY <1>0, <2>1 DEF Clone, TypeOK, ClaimsOf, ValuesValid
  <2>2. CASE CreateExplicit(t, u)
    BY <2>2, ConstantsAssumption DEF CreateExplicit
  <2> QED BY <2>1, <2>2
<1>2. /\ pc[u] = "none" /\ pc'[u] = "idle"
      /\ \A v \in Threads : pc[v] \notin {"none", "clone"} => pc'[v] = pc[v]
      /\ \A v \in Threads : seen'[v] \in {seen[v], Normal}
  <2>1. CASE Clone(t, u)
    BY <1>0, <2>1 DEF Clone, TypeOK
  <2>2. CASE CreateExplicit(t, u)
    <3>1. pc[u] = "none" /\ pc' = [pc EXCEPT ![u] = "idle"] /\ seen' = seen
      BY <2>2 DEF CreateExplicit
    <3> QED BY <1>0, <3>1 DEF TypeOK
  <2> QED BY <2>1, <2>2
<1>3. /\ sched_info'[u] = info
      /\ u \notin uncomputed' => info = user_sched_info[u]
      /\ \A v \in Threads \ {u} : SameSched(v)
      /\ UNCHANGED <<user_sched_info, protect_mutexes, inherit_mutexes, ceiling, obj, unsorted>>
  BY <1>0, <1>1 DEF Given, mutexes, TypeOK, SameSched
<1>4. \A v \in Threads : Valid(seen'[v])
  BY <1>0, <1>2, NormalValues DEF ClaimsOf, ValuesValid
<1>5. CeilingsFifo'
  BY <1>0, <1>3 DEF CeilingsFifo
<1>6. ClaimsOf(u)'
  <2>1. /\ \A n \in Protect : ~InList(protect_mutexes[u], n)
        /\ \A n \in Inherit : ~HasEntry(inherit_mutexes[u], n)
    BY <1>2 DEF StructureInv, OwnerLives, ProtectListed, InheritListed, Mutexes
  <2>2. 1 .. Len(protect_mutexes[u]) = {}
    BY <1>0, <2>1, ListTypes DEF InList
  <2>3. 1 .. Len(inherit_mutexes[u]) = {}
    <3>1. inherit_mutexes[u] \in Seq(Entry)
      BY <1>0 DEF TypeOK, Entry
    <3> QED BY <2>1, <3>1, EntryTypes DEF HasEntry
  <2>4. NotedOf(u)' = {user_sched_info[u]}
    BY <1>3, <2>2, <2>3 DEF NotedOf, Noted
  <2>5. u \notin uncomputed' => Amounts(info, {info})
    <3>1. info.prio \in Int /\ (info.policy = "rr" => info # Fifo(info.prio))
      BY InfoTypes DEF Fifo
    <3> QED BY <3>1 DEF Amounts
  <2>6. SchedRight(u)' /\ Inherits(u)'
    BY <1>3, <2>3, <2>4, <2>5 DEF SchedRight, Inherits
  <2>7. StillHolds(u)' /\ InOrder(u)'
    BY <1>0, <1>3, <2>2 DEF ClaimsOf, StillHolds, InOrder
  <2> QED BY <1>1, <1>3, <1>4, <2>6, <2>7 DEF ClaimsOf, ValuesValid
<1>7. ASSUME NEW v \in Threads \ {u} PROVE ClaimsOf(v)'
  <2>1. Calm(v)
    BY <1>2, <1>3, <1>4 DEF Calm
  <2> QED BY <1>0, <2>1, CalmKeeps
<1> QED BY <1>5, <1>6, <1>7 DEF ClaimsInv

\* Every step keeps the claims in force.
LEMMA ClaimsStep == ASSUME StructureInv, ClaimsInv, [Next]_vars PROVE ClaimsInv'
<1>1. TypeOK'
  BY TypeStep
<1>2. ASSUME NEW t \in Threads, NEW m \in Protect,
             LockProtect(t, m) \/ UnlockProtect(t, m) \/ SetPrioCeilingHeld(t, m)
      PROVE  ClaimsInv'
  BY <1>1, <1>2, ClaimsQuiet, ClaimsSetPrioCeilingHeld
<1>3. ASSUME NEW t \in Threads,
             ProtectSched(t) \/ ProtectUnsched(t) \/ Free(t) \/ SetPrioCeiling(t)
      PROVE  ClaimsInv'
  BY <1>1, <1>3, ClaimsProtectSched, ClaimsProtectUnsched, ClaimsQuiet, ClaimsSetPrioCeiling
<1>4. ASSUME NEW t \in Threads, NEW m \in Inherit, LockInherit(t, m) \/ UnlockInherit(t, m)
      PROVE  ClaimsInv'
  BY <1>1, <1>4, ClaimsQuiet, ClaimsUnlockInherit
<1>5. ASSUME NEW t \in Threads,
             \/ TakeInherit(t) \/ ReadSched(t) \/ Boost(t) \/ FutexWait(t) \/ Interrupted(t)
             \/ CreateCopy(t) \/ Exit(t)
      PROVE  ClaimsInv'
  BY <1>1, <1>5, ClaimsTakeInherit, ClaimsBoost, ClaimsQuiet
<1>6. ASSUME NEW t \in Threads, NEW u \in Threads, 
             SetSchedParam(t, u) \/ Clone(t, u) \/ CreateExplicit(t, u)
      PROVE  ClaimsInv'
  BY <1>1, <1>6, ClaimsSetSchedParam, ClaimsCreated
<1>7. CASE UNCHANGED vars
  BY <1>1, <1>7, ConstantsAssumption, ClaimsQuiet
<1> QED BY <1>2, <1>3, <1>4, <1>5, <1>6, <1>7 DEF Next

\* What is stored is what the claims that are looked at amount to.
LEMMA ClaimsInvariant == Spec => [](StructureInv /\ ClaimsInv)
<1>1. Init => ClaimsInv
  BY ClaimsInit
<1>2. StructureInv /\ ClaimsInv /\ [Next]_vars => ClaimsInv'
  BY ClaimsStep
<1> QED BY <1>1, <1>2, StructureInvariant, PTL DEF Spec

\* The first ceiling of a list is the greatest.
LEMMA HeadGreatest ==
  ASSUME StructureInv, ClaimsInv, NEW v \in Threads, v \notin unsorted, pc[v] # "c_unsched",
         NEW i \in 1 .. Len(protect_mutexes[v])
  PROVE  /\ 1 \in 1 .. Len(protect_mutexes[v])
         /\ ceiling[protect_mutexes[v][i]].prio <= ceiling[protect_mutexes[v][1]].prio
<1> DEFINE list == protect_mutexes[v]
<1>1. /\ list \in Seq(Protect) /\ Len(list) \in Nat
      /\ \A j \in 1 .. Len(list) : list[j] \in Protect /\ ceiling[list[j]].prio \in 0 .. 99
  BY ListTypes DEF StructureInv
<1>2. 1 \in 1 .. Len(list)
  BY <1>1
<1>3. CASE i = 1
  <2>1. ceiling[list[1]].prio \in 0 .. 99
    BY <1>1, <1>2
  <2> QED BY ONLY <1>2, <1>3, <2>1, PrioOrder, Zenon
<1>4. CASE i # 1
  <2>1. 1 < i
    BY <1>1, <1>4
  <2> QED BY <1>2, <2>1 DEF ClaimsInv, ClaimsOf, InOrder, Settled
<1> QED BY <1>3, <1>4

\* The claims that are not looked at have no say.
LEMMA AllClaims ==
  ASSUME StructureInv, ClaimsInv, NEW t \in Threads, t \notin uncomputed \cup unsorted,
         pc[t] # "c_unsched"
  PROVE  Amounts(sched_info[t], Claims(t))
<1> DEFINE protect == protect_mutexes[t]
           inherit == inherit_mutexes[t]
           info == sched_info[t]
<1>0. TypeOK /\ ClaimsOf(t) /\ CeilingsFifo
  BY DEF StructureInv, ClaimsInv
<1>1. Amounts(info, NotedOf(t)) /\ info.prio \in 0 .. 99
  BY <1>0, InfoTypes DEF ClaimsOf, SchedRight, Leading, TypeOK
<1>2. /\ protect \in Seq(Protect) /\ Len(protect) \in Nat
      /\ \A i \in 1 .. Len(protect) : protect[i] \in Protect
            /\ ceiling[protect[i]].prio \in 0 .. 99
  BY <1>0, ListTypes
<1>3. inherit \in Seq(Entry) /\ Len(inherit) \in Nat
  BY <1>0, LenProperties DEF TypeOK, Entry
<1>4. Claims(t) = {user_sched_info[t]} \cup {ceiling[protect[i]] : i \in 1 .. Len(protect)}
                    \cup {inherit[i].sched_info : i \in 1 .. Len(inherit)}
  <2>1. ToSet(protect) = {protect[i] : i \in 1 .. Len(protect)}
    BY <1>2, LenProperties DEF ToSet
  <2>2. ToSet(inherit) = {inherit[i] : i \in 1 .. Len(inherit)}
    BY <1>3, LenProperties DEF ToSet
  <2>3. {ceiling[m] : m \in ToSet(protect)} = {ceiling[protect[i]] : i \in 1 .. Len(protect)}
    BY <2>1
  <2>4. {im.sched_info : im \in ToSet(inherit)} = {inherit[i].sched_info : i \in 1 .. Len(inherit)}
    BY <2>2
  <2> QED BY <2>3, <2>4 DEF Claims
<1>5. NotedOf(t) \subseteq Claims(t)
  BY <1>4 DEF NotedOf, Noted
<1>6. ASSUME NEW c \in Claims(t), c \notin NotedOf(t)
      PROVE  /\ c.prio <= info.prio
             /\ c = Fifo(info.prio) /\ info.prio > 0 => Fifo(info.prio) \in NotedOf(t)
  <2>1. PICK i \in 1 .. Len(protect) : c = ceiling[protect[i]]
    BY <1>4, <1>6 DEF NotedOf, Noted
  <2>2. /\ 1 \in 1 .. Len(protect)
        /\ ceiling[protect[i]].prio <= ceiling[protect[1]].prio
    BY HeadGreatest
  <2> DEFINE h == ceiling[protect[1]]
  <2>3. h \in NotedOf(t) /\ protect[1] \in Protect /\ h \in SchedInfo
    BY <1>0, <1>2, <2>2 DEF NotedOf, Noted, TypeOK
  <2>4. h.prio <= info.prio /\ h.prio \in 0 .. 99 /\ c.prio \in 0 .. 99 /\ c.prio <= h.prio
    BY <1>1, <1>2, <2>1, <2>2, <2>3 DEF Amounts
  <2>5. h = Normal \/ h.policy = "fifo"
    BY <1>0, <2>3 DEF CeilingsFifo
  <2>6. info.prio \in 0 .. 99
    BY <1>1
  <2> HIDE DEF h, info
  <2>7. ASSUME c = Fifo(info.prio), info.prio > 0 PROVE Fifo(info.prio) \in NotedOf(t)
    <3>1. c.prio = info.prio
      BY <2>7 DEF Fifo
    <3>2. h.prio = info.prio
      BY ONLY <2>6, <2>4, <3>1, PrioOrder, Zenon
    <3>3. h.policy = "fifo"
      <4>1. h # Normal
        BY <2>7, <3>2, NormalValues
      <4> QED BY <2>5, <4>1
    <3>4. h = Fifo(info.prio)
      BY <2>3, <3>2, <3>3 DEF Fifo, SchedInfo
    <3> QED BY <2>3, <3>4
  <2>8. c.prio <= info.prio
    BY ONLY <2>6, <2>4, PrioOrder, Zenon
  <2> QED BY <2>7, <2>8
<1> HIDE DEF info
<1>7. \A c \in Claims(t) : c.prio <= info.prio
  BY <1>1, <1>6 DEF Amounts
<1>8. info \in Claims(t)
  BY <1>1, <1>5 DEF Amounts
<1>9. info.policy = "rr" => info.prio > 0
  <2>1. Valid(info)
    BY <1>0 DEF ClaimsOf, ValuesValid, info
  <2> QED BY <1>1, <2>1, PrioOrder DEF Valid
<1>10. info.policy = "rr" => Fifo(info.prio) \notin Claims(t)
  BY <1>1, <1>6, <1>9 DEF Amounts
<1>11. Amounts(info, Claims(t))
  BY <1>7, <1>8, <1>10 DEF Amounts
<1> QED BY <1>11 DEF info

\* A thread's scheduling is what all its claims amount to, although it is computed from
\* the first PRIO_PROTECT mutex only, not at every change, and by different threads: the
\* order of the list makes up for the first and DropOther for the second.  It holds of
\* a thread that runs at what tb_compute_sched has said (not as it was created to, and
\* the kernel has not refused), that is not about to end a setprioceiling, and that has
\* not given another ceiling to a mutex it held since it had none.
THEOREM SchedulingComputed == Spec => []RunsAsComputed
<1>1. ASSUME StructureInv, ClaimsInv PROVE RunsAsComputed
  <2> SUFFICES ASSUME NEW t \in Threads, t \notin uncomputed \cup unsorted, pc[t] # "c_unsched"
               PROVE  /\ sched_info[t].prio = (CHOOSE p \in {c.prio : c \in Claims(t)} :
                                                \A c \in Claims(t) : c.prio <= p)
                      /\ sched_info[t].prio > 0 =>
                           (sched_info[t].policy = "fifo"
                              <=> Fifo(sched_info[t].prio) \in Claims(t))
    BY DEF RunsAsComputed
  <2>1. Amounts(sched_info[t], Claims(t))
    BY <1>1, AllClaims
  <2>2. sched_info[t].prio \in Int
    BY <1>1, InfoTypes DEF StructureInv, TypeOK
  <2> DEFINE P == {c.prio : c \in Claims(t)}
             max == CHOOSE p \in P : \A c \in Claims(t) : c.prio <= p
  <2>3. sched_info[t].prio \in P /\ \A c \in Claims(t) : c.prio <= sched_info[t].prio
    BY <2>1 DEF Amounts
  <2>4. max \in P /\ \A c \in Claims(t) : c.prio <= max
    BY <2>3, Zenon
  <2>5. max <= sched_info[t].prio /\ sched_info[t].prio <= max
    <3> HIDE DEF max
    <3> QED BY <2>3, <2>4
  <2>6. max \in Int
    <3>1. \A c \in Claims(t) : c.prio \in Int
      <4>1. \A im \in ToSet(inherit_mutexes[t]) : im.sched_info \in SchedInfo
        <5>1. inherit_mutexes[t] \in Seq(Entry)
          BY <1>1 DEF StructureInv, TypeOK, Entry
        <5> QED BY <5>1, EntryTypes, LenProperties DEF ToSet
      <4>2. \A m \in ToSet(protect_mutexes[t]) : ceiling[m] \in SchedInfo
        <5>1. TypeOK
          BY <1>1 DEF StructureInv
        <5>2. \A i \in 1 .. Len(protect_mutexes[t]) : protect_mutexes[t][i] \in Protect
          BY <5>1, ListTypes
        <5>3. DOMAIN protect_mutexes[t] = 1 .. Len(protect_mutexes[t])
          BY <5>1, LenProperties DEF TypeOK
        <5> QED BY <5>1, <5>2, <5>3 DEF ToSet, TypeOK
      <4>3. user_sched_info[t] \in SchedInfo
        BY <1>1 DEF StructureInv, TypeOK
      <4> QED BY <4>1, <4>2, <4>3, InfoTypes DEF Claims
    <3> HIDE DEF max
    <3> QED BY <2>4, <3>1
  <2>7. sched_info[t].prio = max
    <3> HIDE DEF max
    <3> QED BY ONLY <2>2, <2>5, <2>6
  <2>8. sched_info[t].prio > 0 =>
          (sched_info[t].policy = "fifo" <=> Fifo(sched_info[t].prio) \in Claims(t))
    <3>1. Valid(sched_info[t]) /\ sched_info[t] \in SchedInfo
      BY <1>1 DEF StructureInv, TypeOK, ClaimsInv, ClaimsOf, ValuesValid
    <3>2. sched_info[t].policy = "fifo" => sched_info[t] = Fifo(sched_info[t].prio)
      BY <3>1 DEF SchedInfo, Fifo
    <3>3. sched_info[t].prio > 0 => sched_info[t].policy \in {"fifo", "rr"}
      BY <3>1, InfoTypes DEF Valid, Policies
    <3> QED BY <2>1, <3>2, <3>3 DEF Amounts
  <2> QED BY <2>7, <2>8
<1> QED BY <1>1, ClaimsInvariant, PTL

\* A thread that holds nothing runs as the program last asked for, whatever mutexes it
\* has held and whoever has waited for them, if user_sched_info says what was asked for
\* and the kernel has not refused.
THEOREM RequestRestored == Spec => []RequestKept
<1>1. ASSUME StructureInv, ClaimsInv PROVE RequestKept
  <2> SUFFICES ASSUME NEW t \in Threads, t \notin uncomputed,
                      protect_mutexes[t] = <<>>, inherit_mutexes[t] = <<>>,
                      user_sched_info[t] = asked[t]
               PROVE  sched_info[t] = asked[t]
    BY DEF RequestKept
  <2>1. ClaimsOf(t)
    BY <1>1 DEF ClaimsInv
  <2>2. Len(protect_mutexes[t]) = 0 /\ Len(inherit_mutexes[t]) = 0
    OBVIOUS
  <2>3. pc[t] # "c_unsched"
    <3> SUFFICES ASSUME pc[t] = "c_unsched" PROVE FALSE
      OBVIOUS
    <3>1. InList(protect_mutexes[t], obj[t])
      BY <1>1 DEF StructureInv, CallKnown, InProtect, ProtectListed, Unlisted
    <3> QED BY <2>2, <3>1 DEF InList
  <2>4. t \notin unsorted
    BY <2>1, <2>2 DEF ClaimsOf, StillHolds
  <2>5. NotedOf(t) = {user_sched_info[t]}
    BY <2>2 DEF NotedOf, Noted
  <2>6. Amounts(sched_info[t], {user_sched_info[t]})
    BY <2>1, <2>3, <2>4, <2>5 DEF ClaimsOf, SchedRight, Leading
  <2> QED BY <2>6 DEF Amounts
<1> QED BY <1>1, ClaimsInvariant, PTL

-----------------------------------------------------------------------------
(* Ceilings                                                                *)

\* Between lock and unlock the owner of a PRIO_PROTECT mutex has at least its ceiling,
\* also while it locks or unlocks another one or schedules it anew; but for an owner
\* that has changed the ceiling of a mutex it held (unsorted) or is about to end a call
\* of setprioceiling, and one whose scheduling the kernel has refused (uncomputed).
THEOREM CeilingsKept == Spec => []CeilingHonoured
<1>1. ASSUME StructureInv, ClaimsInv PROVE CeilingHonoured
  <2> SUFFICES ASSUME NEW m \in Protect, owner[m] # NoThread, obj[owner[m]] # m,
                      owner[m] \notin uncomputed \cup unsorted, pc[owner[m]] # "c_unsched"
               PROVE  sched_info[owner[m]].prio >= ceiling[m].prio
    BY DEF CeilingHonoured
  <2> PICK t \in Threads : t = owner[m]
    BY <1>1 DEF StructureInv, TypeOK, Mutexes
  <2>1. InList(protect_mutexes[t], m)
    BY <1>1 DEF StructureInv, ProtectListed, Unlisted
  <2>2. PICK i \in 1 .. Len(protect_mutexes[t]) : protect_mutexes[t][i] = m
    BY <2>1 DEF InList
  <2> DEFINE h == protect_mutexes[t][1]
             a == ceiling[m].prio
             b == ceiling[h].prio
             c == sched_info[t].prio
  <2>3. 1 \in 1 .. Len(protect_mutexes[t]) /\ a <= b
    BY <1>1, <2>2, HeadGreatest
  <2>4. ceiling[h] \in NotedOf(t)
    BY <2>3 DEF NotedOf, Noted
  <2>5. b <= c
    BY <1>1, <2>4 DEF ClaimsInv, ClaimsOf, SchedRight, Leading, Amounts
  <2>6. h \in Protect
    BY <1>1, <2>3, ListTypes DEF StructureInv
  <2>7. a \in 0 .. 99 /\ b \in 0 .. 99 /\ c \in 0 .. 99
    BY <1>1, <2>6, InfoTypes DEF StructureInv, TypeOK
  <2> HIDE DEF a, b, c
  <2>8. a <= c
    BY ONLY <2>3, <2>5, <2>7, PrioOrder, Zenon
  <2>9. c >= a
    BY ONLY <2>7, <2>8
  <2> QED BY <2>9 DEF a, c
<1> QED BY <1>1, ClaimsInvariant, PTL

-----------------------------------------------------------------------------
(* Inheritance                                                             *)

\* The waiter's part of WaiterInv.
Waits(t) == t \in boosted => pc[t] \in InInherit /\ PassedOn(t)

\* A step that does not touch a thread that waits, its mutex and the mutex's owner, or
\* gives the entry of the mutex more.
Undisturbed(v) ==
  /\ sched_info'[v] = sched_info[v] /\ obj'[v] = obj[v]
  /\ owner'[obj[v]] = owner[obj[v]]
  /\ LET o == owner[obj[v]] IN
       \A i \in 1 .. Len(inherit_mutexes'[o]) :
         inherit_mutexes'[o][i].mutex = obj[v] =>
           \E k \in 1 .. Len(inherit_mutexes[o]) :
             /\ inherit_mutexes[o][k].mutex = obj[v]
             /\ inherit_mutexes[o][k].sched_info.prio <= inherit_mutexes'[o][i].sched_info.prio

\* What a waiter has passed on stays so.
LEMMA StillPassedOn ==
  ASSUME StructureInv, TypeOK', NEW v \in Threads, obj[v] \in Inherit,
         PassedOn(v), Undisturbed(v)
  PROVE  PassedOn(v)'
<1> DEFINE m == obj[v]
<1>0. TypeOK
  BY DEF StructureInv
<1> PICK o \in Threads : o = owner[m]
  BY <1>0 DEF PassedOn, TypeOK, Mutexes
<1>1. owner'[obj'[v]] = o /\ obj'[v] = m /\ o # NoThread
  BY DEF Undisturbed, PassedOn
<1>2. ASSUME NEW i \in 1 .. Len(inherit_mutexes'[o]), inherit_mutexes'[o][i].mutex = m
      PROVE  sched_info'[v].prio <= inherit_mutexes'[o][i].sched_info.prio
  <2>1. PICK k \in 1 .. Len(inherit_mutexes[o]) :
          /\ inherit_mutexes[o][k].mutex = m
          /\ inherit_mutexes[o][k].sched_info.prio <= inherit_mutexes'[o][i].sched_info.prio
    BY <1>2 DEF Undisturbed
  <2> DEFINE a == sched_info[v].prio
             b == inherit_mutexes[o][k].sched_info.prio
             c == inherit_mutexes'[o][i].sched_info.prio
  <2>2. a <= b
    BY <2>1, SMTT(60) DEF PassedOn
  <2>3. a \in 0 .. 99 /\ b \in 0 .. 99 /\ c \in 0 .. 99
    <3>1. inherit_mutexes[o] \in Seq(Entry) /\ inherit_mutexes'[o] \in Seq(Entry)
      BY <1>0 DEF TypeOK, Entry
    <3>2. /\ sched_info[v] \in SchedInfo
          /\ inherit_mutexes[o][k].sched_info \in SchedInfo
          /\ inherit_mutexes'[o][i].sched_info \in SchedInfo
      BY <1>0, <3>1, EntryTypes DEF TypeOK
    <3> QED BY <3>2, InfoTypes
  <2>4. b <= c
    BY <2>1
  <2>5. a <= c
    <3> HIDE DEF a, b, c
    <3> QED BY ONLY <2>2, <2>3, <2>4, PrioOrder, Zenon
  <2> QED BY <2>5 DEF Undisturbed
<1> QED BY <1>1, <1>2 DEF PassedOn

\* Who is not disturbed waits as before.
LEMMA StillWaits ==
  ASSUME StructureInv, TypeOK', NEW v \in Threads, Waits(v), v \in boosted, Undisturbed(v),
         pc'[v] \in InInherit
  PROVE  Waits(v)'
<1>1. obj[v] \in Inherit /\ PassedOn(v)
  BY DEF StructureInv, CallKnown, Waits
<1>2. PassedOn(v)'
  BY <1>1, StillPassedOn
<1> QED BY <1>2 DEF Waits, InInherit

\* Entries, owners, mutexes and scheduling as before.
LEMMA NobodyDisturbed ==
  ASSUME StructureInv, UNCHANGED inherit_mutexes, NEW v \in Threads, obj[v] \in Inherit,
         sched_info'[v] = sched_info[v], obj'[v] = obj[v], owner'[obj[v]] = owner[obj[v]],
         owner[obj[v]] # NoThread
  PROVE  Undisturbed(v)
<1> PICK o \in Threads : o = owner[obj[v]]
  BY DEF StructureInv, TypeOK, Mutexes
<1>1. \A i \in 1 .. Len(inherit_mutexes[o]) :
        inherit_mutexes[o][i].sched_info.prio <= inherit_mutexes[o][i].sched_info.prio
  <2>1. inherit_mutexes[o] \in Seq(Entry)
    BY DEF StructureInv, TypeOK, Entry
  <2> SUFFICES ASSUME NEW i \in 1 .. Len(inherit_mutexes[o])
               PROVE  inherit_mutexes[o][i].sched_info.prio
                        <= inherit_mutexes[o][i].sched_info.prio
    OBVIOUS
  <2>2. inherit_mutexes[o][i].sched_info.prio \in 0 .. 99
    BY <2>1, EntryTypes, InfoTypes
  <2> QED BY ONLY <2>2, PrioOrder, Zenon
<1> QED BY <1>1 DEF Undisturbed

\* What is known of one who has passed on what it has.
LEMMA BoostedFacts ==
  ASSUME StructureInv, NEW v \in Threads, Waits(v), v \in boosted
  PROVE  /\ pc[v] \in InInherit /\ obj[v] \in Inherit
         /\ owner[obj[v]] \in Threads /\ owner[obj[v]] # NoThread
BY DEF StructureInv, TypeOK, Mutexes, CallKnown, Waits, PassedOn

\* The waiter passes its priority on, and keeps it: the owner is somebody else.
LEMMA BoostPassesOn ==
  ASSUME StructureInv, TypeOK', NEW t \in Threads, Boost(t), seen[t] = sched_info[t]
  PROVE  PassedOn(t)'
<1>0. TypeOK
  BY DEF StructureInv
<1>1. /\ obj[t] \in Inherit /\ owner[obj[t]] \in Threads \ {t} /\ owner[obj[t]] # NoThread
      /\ UNCHANGED <<obj, owner>>
  BY ConstantsAssumption
     DEF Boost, Goto, StructureInv, TypeOK, CallKnown, InInherit, Locked, Mutexes
<1> PICK m \in Inherit, o \in Threads : m = obj[t] /\ o = owner[m]
  BY <1>1
<1> DEFINE at == FindMutex(inherit_mutexes[o], m)
           im == inherit_mutexes[o][at].sched_info
<1>2. inherit_mutexes[o] \in Seq(Entry)
  BY <1>0 DEF TypeOK, Entry
<1>3. /\ HasEntry(inherit_mutexes[o], m)
      /\ \A i, j \in 1 .. Len(inherit_mutexes[o]) :
           inherit_mutexes[o][i].mutex = inherit_mutexes[o][j].mutex => i = j
  BY DEF StructureInv, InheritListed
<1>4. at \in 1 .. Len(inherit_mutexes[o]) /\ at # 0 /\ inherit_mutexes[o][at].mutex = m
  BY <1>2, <1>3, FindMutexFacts
<1>5. seen[t] \in SchedInfo /\ im \in SchedInfo
  BY <1>0, <1>2, <1>4, EntryTypes DEF TypeOK
<1>6. ASSUME Raises(seen[t], im) PROVE PassedOn(t)'
  <2>1. StoreEntry(o, at, seen[t]) /\ Reschedule(t, o)
    BY <1>4, <1>6 DEF Boost, StoreEntry
  <2>2. o # t
    BY <1>1
  <2>3. sched_info'[t] = sched_info[t]
    BY <1>0, <2>1, <2>2, Rescheduled DEF SameSched
  <2> HIDE DEF at
  <2>4. EntryStored(o, at, seen[t])
    BY <1>0, <1>4, <1>5, <2>1, EntryChanged
  <2>5. ASSUME NEW i \in 1 .. Len(inherit_mutexes'[o]), inherit_mutexes'[o][i].mutex = m
        PROVE  sched_info'[t].prio <= inherit_mutexes'[o][i].sched_info.prio
    <3>1. i \in 1 .. Len(inherit_mutexes[o]) /\ inherit_mutexes[o][i].mutex = m
      BY <2>4, <2>5 DEF EntryStored
    <3>2. i = at
      BY <1>3, <1>4, <3>1
    <3>3. inherit_mutexes'[o][i].sched_info = sched_info'[t]
      BY <1>5, <2>3, <2>4, <3>1, <3>2 DEF EntryStored
    <3>4. sched_info'[t].prio \in 0 .. 99
      BY InfoTypes DEF TypeOK
    <3> QED BY ONLY <3>3, <3>4, PrioOrder, Zenon
  <2> QED BY <1>1, <2>5 DEF PassedOn
<1>7. ASSUME ~Raises(seen[t], im) PROVE PassedOn(t)'
  <2>1. UNCHANGED <<inherit_mutexes, sched_info>>
    BY <1>7 DEF Boost, NoReschedule
  <2>2. sched_info[t].prio <= im.prio
    <3>1. ~ (seen[t].prio > im.prio)
      BY <1>7, SMTT(60) DEF Raises
    <3>2. seen[t].prio \in 0 .. 99 /\ im.prio \in 0 .. 99
      BY <1>5, InfoTypes, ZenonT(60)
    <3>3. seen[t].prio <= im.prio
      <4> HIDE DEF im
      <4> QED BY ONLY <3>1, <3>2, PrioOrder, Zenon
    <3> QED BY <1>5, <3>3
  <2> HIDE DEF at
  <2>3. ASSUME NEW i \in 1 .. Len(inherit_mutexes[o]), inherit_mutexes[o][i].mutex = m
        PROVE  i = at
    BY <1>3, <1>4, <2>3
  <2> QED BY <1>1, <2>1, <2>2, <2>3 DEF PassedOn
<1> QED BY <1>6, <1>7

\* tb_inherit_mutex_sched, as those see it who are not given other scheduling by it.
LEMMA BoostDisturbsNobody ==
  ASSUME StructureInv, TypeOK', NEW t \in Threads, NEW v \in Threads, Boost(t), Waits(v),
         v \in boosted, sched_info'[v] = sched_info[v]
  PROVE  Undisturbed(v)
<1>0. TypeOK
  BY DEF StructureInv
<1>1. UNCHANGED <<obj, owner>> /\ obj[t] \in Inherit /\ owner[obj[t]] \in Threads
  BY ConstantsAssumption
     DEF Boost, Goto, StructureInv, TypeOK, CallKnown, InInherit, Locked, Mutexes
<1>2. obj[v] \in Inherit /\ owner[obj[v]] \in Threads /\ owner[obj[v]] # NoThread
  BY BoostedFacts
<1> PICK m \in Inherit, o \in Threads : m = obj[t] /\ o = owner[m]
  BY <1>1
<1> DEFINE at == FindMutex(inherit_mutexes[o], m)
<1>3. CASE UNCHANGED inherit_mutexes
  BY <1>1, <1>2, <1>3, NobodyDisturbed
<1>4. CASE ~ UNCHANGED inherit_mutexes
  <2>1. at # 0 /\ Raises(seen[t], inherit_mutexes[o][at].sched_info)
       /\ StoreEntry(o, at, seen[t])
    BY <1>4 DEF Boost, StoreEntry
  <2>2. inherit_mutexes[o] \in Seq(Entry) /\ seen[t] \in SchedInfo
    BY <1>0 DEF TypeOK, Entry
  <2>3. at \in 1 .. Len(inherit_mutexes[o])
    BY <2>1, <2>2, FindMutexFacts
  <2> HIDE DEF at
  <2>4. EntryStored(o, at, seen[t])
    BY <1>0, <2>1, <2>2, <2>3, EntryChanged
  <2> PICK w \in Threads : w = owner[obj[v]]
    BY <1>2
  <2>5. inherit_mutexes[w] \in Seq(Entry)
    BY <1>0 DEF TypeOK, Entry
  <2>6. ASSUME NEW i \in 1 .. Len(inherit_mutexes'[w]), inherit_mutexes'[w][i].mutex = obj[v]
        PROVE  /\ i \in 1 .. Len(inherit_mutexes[w])
               /\ inherit_mutexes[w][i].mutex = obj[v]
               /\ inherit_mutexes[w][i].sched_info.prio <= inherit_mutexes'[w][i].sched_info.prio
    <3>1. i \in 1 .. Len(inherit_mutexes[w]) /\ inherit_mutexes[w][i].mutex = obj[v]
      BY <2>4, <2>6, ZenonT(60) DEF EntryStored
    <3>2. inherit_mutexes[w][i].sched_info.prio \in 0 .. 99
      BY <2>5, <3>1, EntryTypes, InfoTypes
    <3>3. CASE inherit_mutexes'[w][i].sched_info = inherit_mutexes[w][i].sched_info
      <4>1. inherit_mutexes[w][i].sched_info.prio <= inherit_mutexes[w][i].sched_info.prio
        BY ONLY <3>2, PrioOrder, Zenon
      <4> QED BY <3>1, <3>3, <4>1
    <3>4. CASE w = o /\ i = at
      <4> DEFINE a == inherit_mutexes[w][i].sched_info.prio
                 b == seen[t].prio
      <4>1. inherit_mutexes'[w][i].sched_info = seen[t]
        BY <2>4, <3>1, <3>4, SMTT(60) DEF EntryStored
      <4>2. a \in 0 .. 99 /\ b \in 0 .. 99 /\ (b > a \/ b = a)
        BY <2>1, <2>2, <3>2, <3>4, InfoTypes DEF Raises
      <4>3. a <= b
        <5> HIDE DEF a, b
        <5> QED BY ONLY <4>2
      <4> QED BY <3>1, <4>1, <4>3
    <3> QED BY <2>4, <3>1, <3>3, <3>4 DEF EntryStored
  <2> QED BY <1>1, <2>6 DEF Undisturbed
<1> QED BY <1>3, <1>4
\* An entry more, in whatever list: it is for a mutex that nobody has waited for.
LEMMA TakeDisturbsNobody ==
  ASSUME StructureInv, TypeOK', NEW t \in Threads, NEW v \in Threads, TakeInherit(t), Waits(v),
         v \in boosted
  PROVE  Undisturbed(v) /\ pc'[v] = pc[v]
<1>0. TypeOK
  BY DEF StructureInv
<1>1. /\ obj[t] \in Inherit /\ owner[obj[t]] = NoThread
      /\ owner' = [owner EXCEPT ![obj[t]] = t]
      /\ inherit_mutexes' = [inherit_mutexes EXCEPT ![t] = ListAdd(@, NewEntry(obj[t]))]
      /\ UNCHANGED <<sched_info, seen, boosted>>
      /\ pc[t] = "take" /\ pc'[t] = "idle"
      /\ v # t => pc'[v] = pc[v] /\ obj'[v] = obj[v]
  BY <1>0 DEF TakeInherit, Goto, histories, StructureInv, TypeOK, CallKnown, InInherit
<1>2. /\ obj[v] \in Inherit /\ owner[obj[v]] \in Threads /\ owner[obj[v]] # NoThread
      /\ v # t
  BY <1>1, BoostedFacts
<1> PICK m \in Inherit, w \in Threads : m = obj[v] /\ w = owner[m] /\ m # obj[t]
  BY <1>1, <1>2
<1>3. owner'[m] = owner[m]
  BY <1>0, <1>1 DEF TypeOK, Mutexes
<1>4. inherit_mutexes[w] \in Seq(Entry) /\ Len(inherit_mutexes[w]) \in Nat
  BY <1>0, LenProperties DEF TypeOK, Entry
<1>5. ASSUME NEW i \in 1 .. Len(inherit_mutexes'[w]), inherit_mutexes'[w][i].mutex = m
      PROVE  i \in 1 .. Len(inherit_mutexes[w]) /\ inherit_mutexes'[w][i] = inherit_mutexes[w][i]
  <2>1. CASE w # t
    <3>1. inherit_mutexes'[w] = inherit_mutexes[w]
      BY <1>0, <1>1, <2>1 DEF TypeOK
    <3> QED BY <1>5, <3>1
  <2>2. CASE w = t
    <3> DEFINE e == NewEntry(obj[t])
               list == inherit_mutexes[w]
    <3>1. e \in Entry /\ e.mutex # m
      BY <1>1, Values DEF NewEntry
    <3>2. inherit_mutexes'[w] = ListAdd(list, e)
      BY <1>0, <1>1, <2>2 DEF TypeOK
    <3> HIDE DEF e, list
    <3>3. /\ Len(ListAdd(list, e)) = Len(list) + 1
          /\ \A k \in 1 .. Len(list) + 1 :
               ListAdd(list, e)[k] = IF k <= Len(list) THEN list[k] ELSE e
      <4>1. list \in Seq(Entry) /\ e \in Entry
        BY <1>4, <3>1 DEF list
      <4> QED BY ONLY <4>1, AddFacts
    <3> DEFINE n == Len(list)
    <3>4. i \in 1 .. n + 1 /\ n \in Nat
      BY <1>4, <1>5, <3>2, <3>3 DEF list
    <3>5. inherit_mutexes'[w][i] = IF i <= n THEN list[i] ELSE e
      BY <3>2, <3>3, <3>4
    <3> HIDE DEF n
    <3>6. i <= n
      <4>1. ~(i <= n) => inherit_mutexes'[w][i] = e
        BY ONLY <3>5
      <4> QED BY <1>5, <3>1, <4>1
    <3>7. i \in 1 .. n
      BY ONLY <3>4, <3>6
    <3>8. inherit_mutexes'[w][i] = list[i]
      BY ONLY <3>5, <3>6
    <3> QED BY ONLY <3>7, <3>8, Zenon DEF n, list
  <2> QED BY <2>1, <2>2
<1>6. \A i \in 1 .. Len(inherit_mutexes[w]) :
        inherit_mutexes[w][i].sched_info.prio <= inherit_mutexes[w][i].sched_info.prio
  <2> SUFFICES ASSUME NEW i \in 1 .. Len(inherit_mutexes[w])
               PROVE  inherit_mutexes[w][i].sched_info.prio
                        <= inherit_mutexes[w][i].sched_info.prio
    BY SMTT(60)
  <2>1. inherit_mutexes[w][i].sched_info.prio \in 0 .. 99
    BY <1>4, EntryTypes, InfoTypes
  <2> QED BY ONLY <2>1, PrioOrder, Zenon
<1> QED BY <1>1, <1>2, <1>3, <1>5, <1>6 DEF Undisturbed
\* An unlock disturbs nobody who waits for another mutex.
LEMMA UnlockDisturbsNobody ==
  ASSUME StructureInv, TypeOK', NEW t \in Threads, NEW m \in Inherit, UnlockInherit(t, m),
         NEW v \in Threads, Waits(v), v \in boosted, obj[v] # m
  PROVE  Undisturbed(v)
<1> DEFINE at == FindMutex(inherit_mutexes[t], m)
<1>0. TypeOK
  BY DEF StructureInv
<1>1. /\ owner[m] = t /\ pc[t] = "idle" /\ owner' = [owner EXCEPT ![m] = NoThread]
      /\ inherit_mutexes' = [inherit_mutexes EXCEPT ![t] = ListRm(@, at)]
      /\ UNCHANGED obj
      /\ Reschedule(t, t) \/ UNCHANGED sched_info
  BY DEF UnlockInherit, NoReschedule
<1>2. /\ pc[v] \in InInherit /\ obj[v] \in Inherit
      /\ owner[obj[v]] \in Threads /\ owner[obj[v]] # NoThread
  BY BoostedFacts
<1> PICK n \in Inherit, w \in Threads : n = obj[v] /\ w = owner[n]
  BY <1>2
<1>3. owner'[n] = owner[n] /\ sched_info'[v] = sched_info[v]
  <2>1. v # t
    BY <1>1, <1>2 DEF InInherit
  <2>2. owner'[n] = owner[n]
    BY <1>0, <1>1 DEF TypeOK, Mutexes
  <2>3. CASE Reschedule(t, t)
    BY <1>0, <2>1, <2>2, <2>3, Rescheduled DEF SameSched
  <2>4. CASE UNCHANGED sched_info
    BY <2>2, <2>4
  <2> QED BY <1>1, <2>3, <2>4
<1>4. inherit_mutexes[w] \in Seq(Entry) /\ inherit_mutexes[t] \in Seq(Entry)
  BY <1>0 DEF TypeOK, Entry
<1>5. ASSUME NEW i \in 1 .. Len(inherit_mutexes'[w])
      PROVE  \E k \in 1 .. Len(inherit_mutexes[w]) :
               inherit_mutexes[w][k] = inherit_mutexes'[w][i]
  <2>1. CASE w # t
    <3>1. inherit_mutexes'[w] = inherit_mutexes[w]
      BY <1>0, <1>1, <2>1 DEF TypeOK
    <3> QED BY <1>5, <3>1
  <2>2. CASE w = t
    <3>1. HasEntry(inherit_mutexes[t], m)
      BY <1>1 DEF StructureInv, InheritListed
    <3>2. at \in 1 .. Len(inherit_mutexes[t])
      BY <1>4, <3>1, FindMutexFacts
    <3>3. inherit_mutexes'[t] = ListRm(inherit_mutexes[t], at)
      BY <1>0, <1>1 DEF TypeOK
    <3> HIDE DEF at
    <3>4. Without(inherit_mutexes'[t], inherit_mutexes[t], at)
      BY <1>4, <3>2, <3>3, RemovedElements
    <3> QED BY <1>5, <2>2, <3>4, SMTT(60) DEF Without
  <2> QED BY <2>1, <2>2
<1>6. \A k \in 1 .. Len(inherit_mutexes[w]) :
        inherit_mutexes[w][k].sched_info.prio <= inherit_mutexes[w][k].sched_info.prio
  <2> SUFFICES ASSUME NEW k \in 1 .. Len(inherit_mutexes[w])
               PROVE  inherit_mutexes[w][k].sched_info.prio
                        <= inherit_mutexes[w][k].sched_info.prio
    BY SMTT(60)
  <2>1. inherit_mutexes[w][k].sched_info.prio \in 0 .. 99
    BY <1>4, EntryTypes, InfoTypes
  <2> QED BY ONLY <2>1, PrioOrder, Zenon
<1>7. ASSUME NEW i \in 1 .. Len(inherit_mutexes'[w]), inherit_mutexes'[w][i].mutex = n
      PROVE  \E k \in 1 .. Len(inherit_mutexes[w]) :
               /\ inherit_mutexes[w][k].mutex = n
               /\ inherit_mutexes[w][k].sched_info.prio
                    <= inherit_mutexes'[w][i].sched_info.prio
  <2>1. PICK k \in 1 .. Len(inherit_mutexes[w]) :
          inherit_mutexes[w][k] = inherit_mutexes'[w][i]
    BY <1>5
  <2> QED BY <1>6, <1>7, <2>1
<1> QED BY <1>1, <1>3, <1>7 DEF Undisturbed
\* A waiter passes on what it has, and the others are not disturbed: an entry never gets
\* less while its mutex has the same owner.
LEMMA WaiterStep == ASSUME StructureInv, WaiterInv, [Next]_vars PROVE WaiterInv'
<1>0. /\ TypeOK /\ TypeOK' /\ \A v \in Threads : Waits(v)
      /\ boosted \subseteq Threads /\ boosted' \subseteq Threads
  BY TypeStep DEF StructureInv, WaiterInv, Waits, TypeOK
<1> SUFFICES ASSUME NEW v \in Threads, v \in boosted' PROVE Waits(v)'
  BY <1>0 DEF WaiterInv, Waits
<1>1. v \in boosted =>
        /\ pc[v] \in InInherit /\ obj[v] \in Inherit
        /\ owner[obj[v]] \in Threads /\ owner[obj[v]] # NoThread
  BY <1>0, BoostedFacts
<1>2. ASSUME v \in boosted, UNCHANGED inherit_mutexes, owner'[obj[v]] = owner[obj[v]],
             sched_info'[v] = sched_info[v], obj'[v] = obj[v], pc'[v] \in InInherit
      PROVE  Waits(v)'
  BY <1>0, <1>1, <1>2, NobodyDisturbed, StillWaits
<1> USE DEF Goto, fields, mutexes, locals, histories
<1>3. ASSUME NEW t \in Threads,
             \/ \E m \in Protect : LockProtect(t, m) \/ UnlockProtect(t, m)
                                     \/ SetPrioCeilingHeld(t, m)
             \/ ProtectSched(t) \/ ProtectUnsched(t) \/ Free(t) \/ SetPrioCeiling(t)
             \/ \E m \in Inherit : LockInherit(t, m)
             \/ CreateCopy(t) \/ Exit(t)
      PROVE  Waits(v)'
  <2>1. UNCHANGED inherit_mutexes /\ \A m \in Inherit : owner'[m] = owner[m]
    <3>1. CASE Free(t)
      <4>1. obj[t] \in Protect /\ Protect \cap Inherit = {}
        BY <3>1, ConstantsAssumption DEF Free, StructureInv, CallKnown, InProtect
      <4> QED BY <1>0, <3>1, <4>1 DEF Free, TypeOK, Mutexes
    <3>2. CASE ~Free(t)
      BY <1>0, <1>3, <3>2, ConstantsAssumption
         DEF LockProtect, UnlockProtect, SetPrioCeilingHeld, ProtectSched, ProtectUnsched,
             SetPrioCeiling, LockInherit, CreateCopy, Exit, TypeOK, Mutexes
    <3> QED BY <3>1, <3>2
  <2>2. /\ boosted' = boosted
        /\ v # t => pc'[v] = pc[v] /\ obj'[v] = obj[v]
        /\ pc[t] \notin InInherit
    BY <1>0, <1>3, ZenonT(60)
       DEF LockProtect, UnlockProtect, SetPrioCeilingHeld, ProtectSched, ProtectUnsched,
           Free, SetPrioCeiling, LockInherit, CreateCopy, Exit, TypeOK, InInherit
  <2>3. Reschedule(t, t) \/ UNCHANGED sched_info
    BY <1>3
       DEF LockProtect, UnlockProtect, SetPrioCeilingHeld, ProtectSched, ProtectUnsched,
           Free, SetPrioCeiling, LockInherit, CreateCopy, Exit, NoReschedule
  <2>4. v # t
    BY <1>1, <2>2
  <2>5. sched_info'[v] = sched_info[v]
    BY <1>0, <2>3, <2>4, Rescheduled DEF SameSched
  <2> QED BY <1>1, <1>2, <2>1, <2>2, <2>4, <2>5
<1>4. ASSUME NEW t \in Threads, ReadSched(t) \/ FutexWait(t) \/ Interrupted(t) PROVE Waits(v)'
  <2>1. /\ UNCHANGED <<inherit_mutexes, owner, sched_info, obj, boosted>>
        /\ pc'[v] = pc[v] \/ pc'[v] \in InInherit
    BY <1>0, <1>4 DEF ReadSched, FutexWait, Interrupted, TypeOK, InInherit
  <2> QED BY <1>1, <1>2, <2>1
<1>5. ASSUME NEW t \in Threads, Boost(t) PROVE Waits(v)'
  <2>1. /\ v \in StillCurrent \/ (v = t /\ seen[t] = sched_info[t])
        /\ pc'[t] \in InInherit
        /\ v # t => pc'[v] = pc[v]
    BY <1>0, <1>5 DEF Boost, TypeOK, InInherit
  <2>2. CASE v \in StillCurrent
    <3>1. v \in boosted /\ sched_info'[v] = sched_info[v]
      BY <2>2 DEF StillCurrent
    <3>2. Undisturbed(v)
      BY <1>0, <1>5, <3>1, BoostDisturbsNobody
    <3>3. pc'[v] \in InInherit
      BY <1>1, <2>1, <3>1
    <3> QED BY <1>0, <3>1, <3>2, <3>3, StillWaits
  <2>3. CASE v = t /\ seen[t] = sched_info[t]
    <3>1. TypeOK' /\ seen[t] = sched_info[t]
      BY <1>0, <2>3
    <3>2. PassedOn(t)'
      BY <1>5, <3>1, BoostPassesOn
    <3>3. pc'[t] \in InInherit
      BY <2>1
    <3>4. Waits(t)'
      BY <3>2, <3>3 DEF Waits, InInherit
    <3> QED BY <2>3, <3>4
  <2> QED BY <2>1, <2>2, <2>3
<1>6. ASSUME NEW t \in Threads, TakeInherit(t) PROVE Waits(v)'
  <2>1. v \in boosted
    BY <1>6 DEF TakeInherit
  <2>2. Undisturbed(v) /\ pc'[v] = pc[v]
    BY <1>0, <1>6, <2>1, TakeDisturbsNobody
  <2> QED BY <1>0, <1>1, <2>1, <2>2, StillWaits
<1>7. ASSUME NEW t \in Threads, NEW m \in Inherit, UnlockInherit(t, m) PROVE Waits(v)'
  <2>1. v \in boosted /\ obj[v] # m
    BY <1>7 DEF UnlockInherit
  <2>2. Undisturbed(v)
    BY <1>0, <1>7, <2>1, UnlockDisturbsNobody
  <2>3. pc'[v] = pc[v]
    <3>1. UNCHANGED pc \/ \E s \in Threads : obj[s] = m /\ pc' = [pc EXCEPT ![s] = "take"]
      BY <1>7 DEF UnlockInherit, First, Sleepers
    <3> QED BY <1>0, <2>1, <3>1 DEF TypeOK
  <2> QED BY <1>0, <1>1, <2>1, <2>2, <2>3, StillWaits
<1>8. ASSUME NEW t \in Threads, NEW u \in Threads, SetSchedParam(t, u) PROVE Waits(v)'
  <2>1. UNCHANGED <<inherit_mutexes, owner, obj, pc>>
    BY <1>8 DEF SetSchedParam
  <2>2. v \in boosted /\ sched_info'[v] = sched_info[v]
    BY <1>8 DEF SetSchedParam, StillCurrent
  <2> QED BY <1>1, <1>2, <2>1, <2>2
<1>9. ASSUME NEW t \in Threads, NEW u \in Threads, Clone(t, u) \/ CreateExplicit(t, u)
      PROVE  Waits(v)'
  <2>1. /\ UNCHANGED <<inherit_mutexes, owner, obj, boosted>>
        /\ pc[t] \in {"clone", "idle"} /\ pc[u] = "none"
        /\ v \notin {t, u} => pc'[v] = pc[v] /\ sched_info'[v] = sched_info[v]
    <3>1. CASE Clone(t, u)
      BY <1>0, <3>1 DEF Clone, Given, TypeOK
    <3>2. CASE CreateExplicit(t, u)
      BY <1>0, <3>2 DEF CreateExplicit, Given, TypeOK
    <3> QED BY <1>9, <3>1, <3>2
  <2>2. v \notin {t, u}
    BY <1>1, <2>1 DEF InInherit
  <2> QED BY <1>1, <1>2, <2>1, <2>2
<1>10. CASE UNCHANGED vars
  BY <1>1, <1>2, <1>10 DEF vars
<1> QED
  BY <1>3, <1>4, <1>5, <1>6, <1>7, <1>8, <1>9, <1>10 DEF Next

\* Who waits for a PRIO_INHERIT mutex, or sleeps on it, and has passed its scheduling on
\* (boosted) does not have a greater priority than the owner: the entry of the mutex has
\* what the waiter has passed on, and the owner's scheduling is not less than any of its
\* entries, unless the kernel has refused it (uncomputed).
THEOREM InversionAvoided == Spec => []NoInversion
<1>1. Init => WaiterInv
  BY DEF Init, WaiterInv
<1>2. StructureInv /\ WaiterInv /\ [Next]_vars => WaiterInv'
  BY WaiterStep, SMTT(60)
<1>3. ASSUME StructureInv, ClaimsInv, WaiterInv PROVE NoInversion
  <2> SUFFICES ASSUME NEW t \in boosted
               PROVE  /\ owner[obj[t]] # NoThread
                      /\ owner[obj[t]] \notin uncomputed =>
                           sched_info[owner[obj[t]]].prio >= sched_info[t].prio
    BY DEF NoInversion
  <2>1. TypeOK /\ t \in Threads
    BY <1>3 DEF StructureInv, TypeOK
  <2>2. obj[t] \in Inherit /\ PassedOn(t)
    BY <1>3, <2>1 DEF StructureInv, CallKnown, WaiterInv
  <2>3. owner[obj[t]] # NoThread /\ owner[obj[t]] \in Threads
    BY <2>1, <2>2 DEF PassedOn, TypeOK, Mutexes
  <2> PICK m \in Inherit, o \in Threads : m = obj[t] /\ o = owner[m]
    BY <2>2, <2>3
  <2> SUFFICES ASSUME o \notin uncomputed PROVE sched_info[o].prio >= sched_info[t].prio
    BY <2>3
  <2>4. HasEntry(inherit_mutexes[o], m)
    BY <1>3 DEF StructureInv, InheritListed
  <2>5. PICK i \in 1 .. Len(inherit_mutexes[o]) : inherit_mutexes[o][i].mutex = m
    BY <2>4 DEF HasEntry
  <2> DEFINE a == sched_info[t].prio
             b == inherit_mutexes[o][i].sched_info.prio
             c == sched_info[o].prio
  <2>6. a <= b
    BY <2>2, <2>5, SMTT(60) DEF PassedOn
  <2>7. b <= c
    BY <1>3, <2>5, SMTT(60) DEF ClaimsInv, ClaimsOf, Inherits
  <2>8. a \in 0 .. 99 /\ b \in 0 .. 99 /\ c \in 0 .. 99
    <3>1. inherit_mutexes[o] \in Seq(Entry)
      BY <2>1 DEF TypeOK, Entry
    <3> QED BY <2>1, <3>1, EntryTypes, InfoTypes DEF TypeOK
  <2> HIDE DEF a, b, c
  <2>9. a <= c
    BY ONLY <2>6, <2>7, <2>8, PrioOrder, Zenon
  <2>10. c >= a
    BY ONLY <2>8, <2>9
  <2> QED BY <2>10 DEF a, c
<1> QED BY <1>1, <1>2, <1>3, ClaimsInvariant, PTL DEF Spec
=============================================================================
