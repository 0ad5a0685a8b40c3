------------------------------ MODULE TlsProofs ------------------------------
(***************************************************************************)
(* Proofs about Tls, for every set of threads, number of slots and bound   *)
(* on creations, and for every interleaving of calls.  The invariant says  *)
(* who has a slot that is in use, one key or one call, and that a call     *)
(* that deletes a key has loaded the number the slot still has; all of it  *)
(* about the slots where no compare-and-swap succeeded on numbers of two   *)
(* moments.                                                                *)
(***************************************************************************)
EXTENDS Tls, FiniteSetTheorems, TLAPS

\* The calls that have a slot of their own.
Holding == {"c_dest"} \cup Deleting
Holds(t, i) == pc[t] \in Holding /\ at[t] = i

\* TypeOK in two parts.
Types ==
  /\ build \in {"default", "optimised"}
  /\ seq \in [Slots -> Nat]
  /\ destructor \in [Slots -> Ids \cup {None}]
  /\ tls \in [Threads -> [Slots -> [seq : Nat, data : Ids \cup {None}]]]
  /\ pc \in [Threads -> PC]
  /\ at \in [Threads -> Slots \cup {NoSlot}]
  /\ seen \in [Threads -> Nat]
  /\ base \in [Threads -> Nat]
  /\ key \in [Ids -> Slots \cup {NoSlot}]
  /\ created \in 0 .. MaxCreates
  /\ clashed \subseteq Slots
  /\ overtaken \subseteq Threads
  /\ build = "optimised" => clashed = {}
DataTaken == \A t \in Threads : pc[t] = "x_call" => tls[t][at[t]].data = None

CreatesBounded ==
  IsFiniteSet(Creators) /\ created + Cardinality(Creators) <= MaxCreates

\* Where a call is, and what an optimised build has in its registers.
PlacesFit == \A t \in Threads :
  /\ pc[t] \in Changing \cup {"x_call"} => at[t] \in Slots
  /\ build = "optimised" => /\ pc[t] \notin {"c_new", "c_old", "d_new", "d_old"}
                            /\ pc[t] = "c_cas" => Agree(t, 0)
                            /\ pc[t] = "d_cas" => Agree(t, 1)

Base == Types /\ DataTaken /\ CreatesBounded /\ PlacesFit

\* What a deletion has loaded is still the number of the slot.
Loaded == \A t \in Threads : at[t] \notin clashed =>
  /\ pc[t] \in {"d_old", "d_cas"} => base[t] = seq[at[t]]
  /\ pc[t] = "d_cas" => seen[t] = seq[at[t]]

\* The slot of a key is in use, and belongs to that key.
KeyHas == \A d \in Ids :
  /\ d > created => key[d] = NoSlot
  /\ key[d] \in Slots \ clashed => /\ ~Unused(key[d])
                                   /\ \A e \in Ids : key[e] = key[d] => e = d

\* So does the slot of a call.
CallHas == \A t \in Threads, i \in Slots \ clashed : Holds(t, i) =>
  /\ ~Unused(i)
  /\ \A d \in Ids : key[d] # i
  /\ \A u \in Threads : Holds(u, i) => u = t

\* And a slot that is in use belongs to somebody.
UsedClaimed == \A i \in Slots \ clashed : ~Unused(i) =>
  (\E d \in Ids : key[d] = i) \/ (\E t \in Threads : Holds(t, i))

Own == Loaded /\ KeyHas /\ CallHas /\ UsedClaimed

\* The constants in the terms the steps need.
LEMMA ConstantFacts ==
  /\ 0 \in Slots /\ NoSlot \notin Slots
  /\ \A i \in Slots : i + 1 \in Slots \cup {NoSlot}
  /\ None \notin Ids /\ None \in Nat /\ Ids \subseteq Nat /\ 0 \in Nat
  /\ MaxCreates \in Nat
BY ConstantsAssumption DEF Slots, NoSlot, None, Ids

\* Parity.
LEMMA Parity ==
  ASSUME NEW n \in Nat
  PROVE  /\ n + 1 \in Nat
         /\ n % 2 \in {0, 1}
         /\ (n + 1) % 2 = 0 <=> n % 2 # 0
OBVIOUS

\* A thread moves; the others stay where they are.
LEMMA Moved ==
  ASSUME Types, NEW t \in Threads, NEW to, NEW i, NEW m, NEW n, Move(t, to, i, m, n)
  PROVE  /\ pc'[t] = to /\ at'[t] = i /\ seen'[t] = m /\ base'[t] = n
         /\ \A u \in Threads \ {t} : /\ pc'[u] = pc[u] /\ at'[u] = at[u]
                                     /\ seen'[u] = seen[u] /\ base'[u] = base[u]
         /\ to \in PC /\ i \in Slots \cup {NoSlot} /\ m \in Nat /\ n \in Nat =>
              /\ pc' \in [Threads -> PC] /\ at' \in [Threads -> Slots \cup {NoSlot}]
              /\ seen' \in [Threads -> Nat] /\ base' \in [Threads -> Nat]
BY DEF Move, Types

-----------------------------------------------------------------------------
(* Types and places                                                        *)

\* At first nothing is in use.
LEMMA InitBase == Init => Base /\ Own
<1> SUFFICES ASSUME Init PROVE Base /\ Own
  OBVIOUS
<1> USE ConstantFacts DEF Init, Changing, Deleting
<1>1. Types /\ DataTaken
  BY DEF Types, DataTaken, PC
<1>2. CreatesBounded
  <2>1. Creators = {}
    BY DEF Creators
  <2> QED BY <2>1, FS_EmptySet DEF CreatesBounded
<1>3. PlacesFit /\ Loaded /\ KeyHas /\ CallHas
  BY DEF PlacesFit, Loaded, KeyHas, CallHas, Holds, Holding
<1>4. UsedClaimed
  BY DEF UsedClaimed, Unused
<1> QED BY <1>1, <1>2, <1>3, <1>4 DEF Base, Own

\* Fewer calls that create, and as many creations.
LEMMA CountDown ==
  ASSUME Types, CreatesBounded, created' = created, Creators' \subseteq Creators
  PROVE  CreatesBounded'
<1>1. IsFiniteSet(Creators') /\ Cardinality(Creators') <= Cardinality(Creators)
  BY FS_Subset DEF CreatesBounded
<1>2. Cardinality(Creators) \in Nat /\ Cardinality(Creators') \in Nat
  BY <1>1, FS_CardinalityType DEF CreatesBounded
<1> QED BY <1>1, <1>2, ConstantFacts DEF CreatesBounded, Types

\* A step that changes nothing but the places, and begins no creation and no call of a
\* destructor.
LEMMA BaseMoves ==
  ASSUME Base, NEW t \in Threads, NEW to \in PC, NEW i \in Slots \cup {NoSlot},
         NEW m \in Nat, NEW n \in Nat, Move(t, to, i, m, n), to # "x_call",
         t \in Creators \/ to \notin {"c_test", "c_new", "c_old", "c_cas", "c_dest"},
         to \in Changing => i \in Slots,
         build = "optimised" => /\ to \notin {"c_new", "c_old", "d_new", "d_old"}
                                /\ to = "c_cas" => m = n /\ m % 2 = 0
                                /\ to = "d_cas" => m = n /\ m % 2 = 1,
         UNCHANGED <<build, tls, created>>,
         seq' \in [Slots -> Nat], destructor' \in [Slots -> Ids \cup {None}],
         key' \in [Ids -> Slots \cup {NoSlot}],
         clashed' \subseteq Slots, build = "optimised" => clashed' = {},
         overtaken' \subseteq Threads
  PROVE  Base'
<1>0. Types /\ DataTaken /\ CreatesBounded /\ PlacesFit
  BY DEF Base
<1>1. /\ pc'[t] = to /\ at'[t] = i /\ seen'[t] = m /\ base'[t] = n
      /\ \A u \in Threads \ {t} : /\ pc'[u] = pc[u] /\ at'[u] = at[u]
                                  /\ seen'[u] = seen[u] /\ base'[u] = base[u]
      /\ pc' \in [Threads -> PC] /\ at' \in [Threads -> Slots \cup {NoSlot}]
      /\ seen' \in [Threads -> Nat] /\ base' \in [Threads -> Nat]
  BY <1>0, Moved
<1>2. Types'
  BY <1>0, <1>1 DEF Types
<1>3. DataTaken'
  BY <1>0, <1>1 DEF DataTaken
<1>4. CreatesBounded'
  <2>1. Creators' \subseteq Creators
    BY <1>1 DEF Creators
  <2> QED BY <1>0, <2>1, CountDown
<1>5. PlacesFit'
  BY <1>0, <1>1 DEF PlacesFit, Agree
<1> QED BY <1>2, <1>3, <1>4, <1>5 DEF Base

\* Every step keeps types and places.
LEMMA BaseNext == Base /\ [Next]_vars => Base'
<1> SUFFICES ASSUME Base, [Next]_vars PROVE Base'
  OBVIOUS
<1> USE ConstantFacts DEF history, PC, Changing, Deleting, Creators
<1>0. Types /\ DataTaken /\ CreatesBounded /\ PlacesFit
  BY DEF Base
<1>1. ASSUME NEW t \in Threads, LoadNew(t) PROVE Base'
  <2>1. /\ at[t] \in Slots /\ seq[at[t]] \in Nat /\ build = "default"
        /\ UNCHANGED <<build, seq, destructor, tls, key, created, clashed, overtaken>>
    BY <1>0, <1>1 DEF LoadNew, PlacesFit, Types
  <2> QED BY <1>0, <1>1, <2>1, BaseMoves DEF LoadNew, Types
<1>2. ASSUME NEW t \in Threads, LoadOld(t) PROVE Base'
  <2>1. /\ at[t] \in Slots /\ seq[at[t]] \in Nat /\ base[t] \in Nat /\ build = "default"
        /\ UNCHANGED <<build, seq, destructor, tls, key, created, clashed, overtaken>>
    BY <1>0, <1>2 DEF LoadOld, PlacesFit, Types
  <2> QED BY <1>0, <1>2, <2>1, BaseMoves DEF LoadOld, Types
<1>3. ASSUME NEW t \in Threads, CreateCall(t) PROVE Base'
  <2>1. /\ pc[t] = "run" /\ Move(t, "c_test", 0, 0, 0)
        /\ created + Cardinality(Creators) < MaxCreates
        /\ UNCHANGED <<build, seq, destructor, tls, key, created, clashed, overtaken>>
    BY <1>3 DEF CreateCall
  <2>2. /\ pc'[t] = "c_test" /\ at'[t] = 0 /\ seen'[t] = 0 /\ base'[t] = 0
        /\ \A u \in Threads \ {t} : /\ pc'[u] = pc[u] /\ at'[u] = at[u]
                                    /\ seen'[u] = seen[u] /\ base'[u] = base[u]
        /\ pc' \in [Threads -> PC] /\ at' \in [Threads -> Slots \cup {NoSlot}]
        /\ seen' \in [Threads -> Nat] /\ base' \in [Threads -> Nat]
    BY <1>0, <2>1, Moved
  <2>3. Types' /\ DataTaken' /\ PlacesFit'
    <3>1. Types'
      BY <1>0, <2>1, <2>2 DEF Types
    <3>2. DataTaken'
      BY <1>0, <2>1, <2>2 DEF DataTaken
    <3>3. PlacesFit'
      BY <1>0, <2>1, <2>2 DEF PlacesFit, Agree
    <3> QED BY <3>1, <3>2, <3>3
  <2>4. CreatesBounded'
    <3>1. IsFiniteSet(Creators) /\ Cardinality(Creators) \in Nat
      BY <1>0, FS_CardinalityType DEF CreatesBounded
    <3>2. Creators' = Creators \cup {t} /\ t \notin Creators
      BY <2>1, <2>2
    <3>3. IsFiniteSet(Creators') /\ Cardinality(Creators') = Cardinality(Creators) + 1
      BY <3>1, <3>2, FS_AddElement
    <3>4. created \in Nat
      BY <1>0 DEF Types
    <3> HIDE DEF Creators
    <3> QED BY <2>1, <3>1, <3>3, <3>4 DEF CreatesBounded
  <2> QED BY <2>3, <2>4 DEF Base
<1>4. ASSUME NEW t \in Threads, CreateTest(t) PROVE Base'
  <2>1. /\ pc[t] = "c_test" /\ at[t] \in Slots /\ seq[at[t]] \in Nat
        /\ UNCHANGED <<build, seq, destructor, tls, key, created, clashed, overtaken>>
    BY <1>0, <1>4 DEF CreateTest, PlacesFit, Types
  <2>2. CASE Unused(at[t])
    BY <1>0, <1>4, <2>1, <2>2, BaseMoves DEF CreateTest, Loads, Unused, Types
  <2>3. CASE ~Unused(at[t])
    BY <1>0, <1>4, <2>1, <2>3, BaseMoves DEF CreateTest, NextSlot, Return, Types
  <2> QED BY <2>2, <2>3
<1>5. ASSUME NEW t \in Threads, CreateAcquire(t) PROVE Base'
  <2>1. /\ pc[t] = "c_cas" /\ at[t] \in Slots /\ base[t] + 1 \in Nat
        /\ UNCHANGED <<build, destructor, tls, key, created, overtaken>>
    BY <1>0, <1>5 DEF CreateAcquire, PlacesFit, Types
  <2>2. CASE Swaps(t)
    <3>1. /\ seq' = [seq EXCEPT ![at[t]] = base[t] + 1] /\ Move(t, "c_dest", at[t], 0, 0)
          /\ clashed' = IF Agree(t, 0) THEN clashed ELSE clashed \cup {at[t]}
      BY <1>5, <2>2 DEF CreateAcquire, Record
    <3>2. clashed' \subseteq Slots /\ (build = "optimised" => clashed' = {})
      BY <1>0, <2>1, <3>1 DEF PlacesFit, Types
    <3> QED BY <1>0, <2>1, <3>1, <3>2, BaseMoves DEF Types
  <2>3. CASE ~Swaps(t)
    BY <1>0, <1>5, <2>1, <2>3, BaseMoves DEF CreateAcquire, NextSlot, Return, Types
  <2> QED BY <2>2, <2>3
<1>6. ASSUME NEW t \in Threads, CreateDone(t) PROVE Base'
  <2>1. /\ pc[t] = "c_dest" /\ at[t] \in Slots /\ Move(t, "run", 0, 0, 0)
        /\ created' = created + 1
        /\ destructor' = [destructor EXCEPT ![at[t]] = created + 1]
        /\ key' = [key EXCEPT ![created + 1] = at[t]]
        /\ overtaken' = overtaken \cup {u \in Threads : pc[u] = "x_call" /\ at[u] = at[t]}
        /\ UNCHANGED <<build, seq, tls, clashed>>
    BY <1>0, <1>6 DEF CreateDone, Return, PlacesFit
  <2>2. /\ pc'[t] = "run" /\ at'[t] = 0 /\ seen'[t] = 0 /\ base'[t] = 0
        /\ \A u \in Threads \ {t} : /\ pc'[u] = pc[u] /\ at'[u] = at[u]
                                    /\ seen'[u] = seen[u] /\ base'[u] = base[u]
        /\ pc' \in [Threads -> PC] /\ at' \in [Threads -> Slots \cup {NoSlot}]
        /\ seen' \in [Threads -> Nat] /\ base' \in [Threads -> Nat]
    BY <1>0, <2>1, Moved
  <2>3. /\ IsFiniteSet(Creators') /\ Cardinality(Creators') = Cardinality(Creators) - 1
        /\ Cardinality(Creators) \in Nat /\ Cardinality(Creators') \in Nat
    <3>1. IsFiniteSet(Creators) /\ Creators' = Creators \ {t} /\ t \in Creators
      BY <1>0, <2>1, <2>2 DEF CreatesBounded
    <3> HIDE DEF Creators
    <3> QED BY <3>1, FS_RemoveElement, FS_CardinalityType
  <2> HIDE DEF Creators
  <2>4. created + 1 \in Ids /\ created \in Nat
    BY <1>0, <2>3 DEF CreatesBounded, Types, Ids
  <2>5. Types' /\ DataTaken' /\ PlacesFit'
    <3>1. Types'
      BY <1>0, <2>1, <2>2, <2>4 DEF Types, Ids
    <3>2. DataTaken'
      BY <1>0, <2>1, <2>2 DEF DataTaken
    <3>3. PlacesFit'
      BY <1>0, <2>1, <2>2 DEF PlacesFit, Agree
    <3> QED BY <3>1, <3>2, <3>3
  <2>6. CreatesBounded'
    BY <1>0, <2>1, <2>3, <2>4 DEF CreatesBounded
  <2> QED BY <2>5, <2>6 DEF Base
<1>7. ASSUME NEW t \in Threads, DeleteCall(t) PROVE Base'
  <2>1. PICK d \in Ids :
          /\ pc[t] = "run" /\ key[d] \in Slots /\ Move(t, "d_test", key[d], 0, 0)
          /\ key' = [key EXCEPT ![d] = NoSlot]
          /\ UNCHANGED <<build, seq, destructor, tls, created, clashed, overtaken>>
    BY <1>0, <1>7 DEF DeleteCall, Types
  <2> QED BY <1>0, <2>1, BaseMoves DEF Types
<1>8. ASSUME NEW t \in Threads, DeleteTest(t) PROVE Base'
  <2>1. /\ pc[t] = "d_test" /\ at[t] \in Slots /\ seq[at[t]] \in Nat
        /\ UNCHANGED <<build, seq, destructor, tls, key, created, clashed, overtaken>>
    BY <1>0, <1>8 DEF DeleteTest, PlacesFit, Types
  <2>2. CASE Unused(at[t])
    BY <1>0, <1>8, <2>1, <2>2, BaseMoves DEF DeleteTest, Return, Types
  <2>3. CASE ~Unused(at[t])
    <3>1. seq[at[t]] % 2 = 1
      BY <2>1, <2>3, Parity DEF Unused
    <3> QED BY <1>0, <1>8, <2>1, <2>3, <3>1, BaseMoves DEF DeleteTest, Loads, Types
  <2> QED BY <2>2, <2>3
<1>9. ASSUME NEW t \in Threads, DeleteRelease(t) PROVE Base'
  <2>1. /\ pc[t] = "d_cas" /\ at[t] \in Slots /\ base[t] + 1 \in Nat
        /\ Move(t, "run", 0, 0, 0)
        /\ UNCHANGED <<build, destructor, tls, key, created, overtaken>>
    BY <1>0, <1>9 DEF DeleteRelease, Return, PlacesFit, Types
  <2>2. /\ seq' = [seq EXCEPT ![at[t]] = base[t] + 1] \/ seq' = seq
        /\ clashed' = IF Agree(t, 1) \/ ~Swaps(t) THEN clashed ELSE clashed \cup {at[t]}
    BY <1>9 DEF DeleteRelease, Record, Released
  <2>3. clashed' \subseteq Slots /\ (build = "optimised" => clashed' = {})
    BY <1>0, <2>1, <2>2 DEF PlacesFit, Types
  <2>4. seq' \in [Slots -> Nat]
    BY <1>0, <2>1, <2>2 DEF Types
  <2> QED BY <1>0, <2>1, <2>3, <2>4, BaseMoves DEF Types
<1>10. ASSUME NEW t \in Threads, SetSpecific(t) PROVE Base'
  <2>1. PICK d \in Ids :
          /\ pc[t] = "run" /\ key[d] \in Slots
          /\ tls' = [tls EXCEPT ![t][key[d]] = [seq |-> seq[key[d]], data |-> d]]
          /\ UNCHANGED <<build, seq, destructor, pc, at, seen, base, key, created, clashed,
                         overtaken>>
    BY <1>0, <1>10 DEF SetSpecific, locals, Types
  <2>2. Types'
    <3>1. [seq |-> seq[key[d]], data |-> d] \in [seq : Nat, data : Ids \cup {None}]
      BY <1>0, <2>1 DEF Types
    <3> QED BY <1>0, <2>1, <3>1 DEF Types
  <2>3. DataTaken'
    <3>1. \A u \in Threads \ {t} : tls'[u] = tls[u]
      BY <1>0, <2>1 DEF Types
    <3> QED BY <1>0, <2>1, <3>1 DEF DataTaken
  <2> QED BY <1>0, <2>1, <2>2, <2>3 DEF CreatesBounded, PlacesFit, Agree, Base
<1>11. ASSUME NEW t \in Threads, ExitCall(t) PROVE Base'
  <2>1. UNCHANGED <<build, seq, destructor, tls, key, created, clashed, overtaken>>
    BY <1>11 DEF ExitCall
  <2> QED BY <1>0, <1>11, <2>1, BaseMoves DEF ExitCall, Types
<1>12. ASSUME NEW t \in Threads, DestructorTest(t) PROVE Base'
  <2>1. UNCHANGED <<build, seq, destructor, key, created, clashed, overtaken>>
    BY <1>12 DEF DestructorTest
  <2>2. CASE at[t] # NoSlot /\ Specific(t, at[t]) # None /\ destructor[at[t]] # None
    <3>1. /\ pc[t] = "x_test" /\ at[t] \in Slots /\ Specific(t, at[t]) \in Nat
          /\ Move(t, "x_call", at[t], Specific(t, at[t]), 0)
          /\ tls' = [tls EXCEPT ![t] = [tls[t] EXCEPT ![at[t]] = [tls[t][at[t]] EXCEPT !.data = None]]]
      BY <1>0, <1>12, <2>2 DEF DestructorTest, Cleared, Specific, Types
    <3>2. tls' \in [Threads -> [Slots -> [seq : Nat, data : Ids \cup {None}]]]
      <4>1. tls[t][at[t]] \in [seq : Nat, data : Ids \cup {None}]
        BY <1>0, <3>1 DEF Types
      <4>2. [tls[t][at[t]] EXCEPT !.data = None] \in [seq : Nat, data : Ids \cup {None}]
        BY <4>1
      <4>3. [tls[t] EXCEPT ![at[t]] = [tls[t][at[t]] EXCEPT !.data = None]]
              \in [Slots -> [seq : Nat, data : Ids \cup {None}]]
        BY <1>0, <3>1, <4>2 DEF Types
      <4> QED BY <1>0, <3>1, <4>3 DEF Types
    <3>3. /\ pc'[t] = "x_call" /\ at'[t] = at[t]
          /\ \A u \in Threads \ {t} : /\ pc'[u] = pc[u] /\ at'[u] = at[u]
                                      /\ seen'[u] = seen[u] /\ base'[u] = base[u]
          /\ pc' \in [Threads -> PC] /\ at' \in [Threads -> Slots \cup {NoSlot}]
          /\ seen' \in [Threads -> Nat] /\ base' \in [Threads -> Nat]
      BY <1>0, <3>1, Moved
    <3>4. Types'
      BY <1>0, <2>1, <3>2, <3>3 DEF Types
    <3>5. DataTaken'
      <4>1. \A u \in Threads \ {t} : tls'[u] = tls[u]
        BY <1>0, <3>1 DEF Types
      <4>2. tls'[t][at[t]].data = None
        <5>1. tls[t][at[t]] \in [seq : Nat, data : Ids \cup {None}]
          BY <1>0, <3>1 DEF Types
        <5>2. tls'[t][at[t]] = [tls[t][at[t]] EXCEPT !.data = None]
          BY <1>0, <3>1 DEF Types
        <5> QED BY <5>1, <5>2
      <4> QED BY <1>0, <3>3, <4>1, <4>2 DEF DataTaken
    <3>6. CreatesBounded'
      <4>1. Creators' \subseteq Creators
        BY <3>3
      <4> QED BY <1>0, <2>1, <4>1, CountDown
    <3>7. PlacesFit'
      BY <1>0, <2>1, <3>1, <3>3 DEF PlacesFit, Agree
    <3> QED BY <3>4, <3>5, <3>6, <3>7 DEF Base
  <2>3. CASE ~(at[t] # NoSlot /\ Specific(t, at[t]) # None /\ destructor[at[t]] # None)
    <3>1. /\ Move(t, "dead", 0, 0, 0) \/ (at[t] \in Slots /\ Move(t, "x_test", at[t] + 1, 0, 0))
          /\ UNCHANGED tls
      BY <1>0, <1>12, <2>3 DEF DestructorTest, Types
    <3> QED BY <1>0, <2>1, <3>1, BaseMoves DEF Types
  <2> QED BY <2>2, <2>3
<1>13. ASSUME NEW t \in Threads, DestructorCall(t) PROVE Base'
  <2>1. /\ pc[t] = "x_call" /\ at[t] + 1 \in Slots \cup {NoSlot}
        /\ Move(t, "x_test", at[t] + 1, 0, 0) /\ overtaken' \subseteq Threads
        /\ UNCHANGED <<build, seq, destructor, tls, key, created, clashed>>
    BY <1>0, <1>13 DEF DestructorCall, PlacesFit, Types
  <2> QED BY <1>0, <2>1, BaseMoves DEF Types
<1>14. CASE UNCHANGED vars
  BY <1>0, <1>14 DEF vars, Types, DataTaken, CreatesBounded, PlacesFit, Agree, Base
<1> QED
  BY <1>1, <1>2, <1>3, <1>4, <1>5, <1>6, <1>7, <1>8, <1>9, <1>10, <1>11, <1>12, <1>13, <1>14
  DEF Next

-----------------------------------------------------------------------------
(* Who has a slot                                                          *)

\* A step after which the same keys and calls have the same slots, but for those where
\* numbers clashed.
LEMMA OwnKept ==
  ASSUME Own, UNCHANGED <<seq, key, clashed>>, created' >= created, created \in Nat,
         created' \in Nat,
         \A u \in Threads, i \in Slots \ clashed : Holds(u, i)' <=> Holds(u, i),
         Loaded'
  PROVE  Own'
<1>1. \A i : Unused(i)' <=> Unused(i)
  BY DEF Unused
<1>2. KeyHas'
  <2>1. \A d \in Ids : d > created' => d > created
    BY DEF Ids
  <2> QED BY <1>1, <2>1 DEF Own, KeyHas
<1>3. CallHas'
  BY <1>1 DEF Own, CallHas
<1>4. UsedClaimed'
  BY <1>1 DEF Own, UsedClaimed
<1> QED BY <1>2, <1>3, <1>4 DEF Own

\* The same, for a step that moves one thread.
LEMMA OwnMoves ==
  ASSUME Base, Own, NEW t \in Threads, NEW to, NEW i, NEW m, NEW n, Move(t, to, i, m, n),
         UNCHANGED <<seq, key, created, clashed>>,
         \A j \in Slots \ clashed : (to \in Holding /\ i = j) <=> Holds(t, j),
         i \notin clashed => /\ to \in {"d_old", "d_cas"} => n = seq[i]
                             /\ to = "d_cas" => m = seq[i]
  PROVE  Own'
<1>1. Types /\ Loaded /\ created \in Nat
  BY ConstantFacts DEF Base, Types, Own
<1>2. /\ pc'[t] = to /\ at'[t] = i /\ seen'[t] = m /\ base'[t] = n
      /\ \A u \in Threads \ {t} : /\ pc'[u] = pc[u] /\ at'[u] = at[u]
                                  /\ seen'[u] = seen[u] /\ base'[u] = base[u]
  BY <1>1, Moved
<1>3. Loaded'
  BY <1>1, <1>2 DEF Loaded
<1>4. \A u \in Threads, j \in Slots \ clashed : Holds(u, j)' <=> Holds(u, j)
  BY <1>2 DEF Holds
<1> QED BY <1>1, <1>3, <1>4, OwnKept

\* Every step keeps the owners.
LEMMA OwnNext == Base /\ Own /\ [Next]_vars => Own'
<1> SUFFICES ASSUME Base, Own, [Next]_vars PROVE Own'
  OBVIOUS
<1> USE ConstantFacts DEF history, Changing, Deleting, Holding
<1>0. /\ Types /\ PlacesFit /\ Loaded /\ KeyHas /\ CallHas /\ UsedClaimed
      /\ created \in Nat
  BY DEF Base, Own, Types
<1>1. ASSUME NEW t \in Threads, LoadNew(t) PROVE Own'
  BY <1>0, <1>1, OwnMoves DEF LoadNew, Holds
<1>2. ASSUME NEW t \in Threads, LoadOld(t) PROVE Own'
  BY <1>0, <1>2, OwnMoves DEF LoadOld, Holds, Loaded
<1>3. ASSUME NEW t \in Threads, CreateCall(t) \/ ExitCall(t) PROVE Own'
  BY <1>0, <1>3, OwnMoves DEF CreateCall, ExitCall, Holds
<1>4. ASSUME NEW t \in Threads, CreateTest(t) PROVE Own'
  <2>1. PICK to \in {"c_new", "c_cas", "c_test", "run"} : \E i, m, n : Move(t, to, i, m, n)
    BY <1>4 DEF CreateTest, Loads, NextSlot, Return
  <2>2. PICK i, m, n : Move(t, to, i, m, n)
    BY <2>1
  <2> QED BY <1>4, <2>2, OwnMoves DEF CreateTest, Holds
<1>5. ASSUME NEW t \in Threads, CreateAcquire(t) PROVE Own'
  <2>1. /\ pc[t] = "c_cas" /\ at[t] \in Slots /\ seq[at[t]] \in Nat
        /\ UNCHANGED <<build, destructor, tls, key, created, overtaken>>
    BY <1>0, <1>5 DEF CreateAcquire, PlacesFit, Types
  <2>2. CASE Swaps(t)
    <3>1. /\ seq' = [seq EXCEPT ![at[t]] = base[t] + 1] /\ Move(t, "c_dest", at[t], 0, 0)
          /\ clashed' = IF Agree(t, 0) THEN clashed ELSE clashed \cup {at[t]}
          /\ seq[at[t]] = seen[t]
      BY <1>5, <2>2 DEF CreateAcquire, Record, Swaps
    <3>2. /\ pc'[t] = "c_dest" /\ at'[t] = at[t]
          /\ \A u \in Threads \ {t} : /\ pc'[u] = pc[u] /\ at'[u] = at[u]
                                      /\ seen'[u] = seen[u] /\ base'[u] = base[u]
      BY <1>0, <3>1, Moved
    <3>3. \A i \in Slots \ {at[t]} : seq'[i] = seq[i] /\ (Unused(i)' <=> Unused(i))
      BY <1>0, <3>1 DEF Types, Unused
    <3>4. ASSUME at[t] \notin clashed'
          PROVE  /\ Unused(at[t]) /\ seq'[at[t]] % 2 # 0 /\ at[t] \notin clashed
                 /\ \A d \in Ids : key[d] # at[t]
                 /\ \A u \in Threads : ~Holds(u, at[t])
      <4>1. Agree(t, 0) /\ at[t] \notin clashed
        BY <3>1, <3>4
      <4>2. Unused(at[t])
        BY <3>1, <4>1 DEF Agree, Unused
      <4>3. seq'[at[t]] = seq[at[t]] + 1
        BY <1>0, <2>1, <3>1, <4>1 DEF Agree, Types
      <4>4. seq'[at[t]] % 2 # 0
        <5>1. (seq[at[t]] + 1) % 2 = 0 <=> seq[at[t]] % 2 # 0
          BY <2>1, Parity
        <5> QED BY <4>2, <4>3, <5>1 DEF Unused
      <4> QED BY <1>0, <2>1, <4>1, <4>2, <4>4 DEF KeyHas, CallHas
    <3>5. Loaded'
      <4> SUFFICES ASSUME NEW u \in Threads, at'[u] \notin clashed', pc'[u] \in {"d_old", "d_cas"}
                   PROVE  base'[u] = seq'[at'[u]] /\ (pc'[u] = "d_cas" => seen'[u] = seq'[at'[u]])
        BY DEF Loaded
      <4>1. /\ u # t /\ pc'[u] = pc[u] /\ at'[u] = at[u] /\ at[u] \in Slots
            /\ seen'[u] = seen[u] /\ base'[u] = base[u]
        BY <1>0, <3>2 DEF PlacesFit
      <4>2. at[u] # at[t]
        BY <3>4, <4>1 DEF Holds
      <4>3. at[u] \notin clashed
        BY <3>1, <4>1
      <4> QED BY <1>0, <3>3, <4>1, <4>2, <4>3 DEF Loaded
    <3>6. KeyHas'
      BY <1>0, <2>1, <3>1, <3>3, <3>4 DEF KeyHas
    <3>7. CallHas'
      <4> SUFFICES ASSUME NEW u \in Threads, NEW i \in Slots \ clashed', Holds(u, i)'
                   PROVE  /\ ~Unused(i)' /\ \A d \in Ids : key[d] # i
                          /\ \A v \in Threads : Holds(v, i)' => v = u
        BY <2>1 DEF CallHas
      <4>1. CASE i = at[t]
        BY <3>2, <3>4, <4>1 DEF Holds, Unused
      <4>2. CASE i # at[t]
        <5>1. i \in Slots \ clashed /\ \A v \in Threads : Holds(v, i)' <=> Holds(v, i)
          BY <2>1, <3>1, <3>2, <4>2 DEF Holds
        <5> QED BY <1>0, <3>3, <4>2, <5>1 DEF CallHas
      <4> QED BY <4>1, <4>2
    <3>8. UsedClaimed'
      <4> SUFFICES ASSUME NEW i \in Slots \ clashed', ~Unused(i)'
                   PROVE  (\E d \in Ids : key[d] = i) \/ (\E u \in Threads : Holds(u, i)')
        BY <2>1 DEF UsedClaimed
      <4>1. CASE i = at[t]
        BY <3>2, <4>1 DEF Holds
      <4>2. CASE i # at[t]
        <5>1. i \in Slots \ clashed /\ \A v \in Threads : Holds(v, i)' <=> Holds(v, i)
          BY <2>1, <3>1, <3>2, <4>2 DEF Holds
        <5> QED BY <1>0, <3>3, <4>2, <5>1 DEF UsedClaimed
      <4> QED BY <4>1, <4>2
    <3> QED BY <3>5, <3>6, <3>7, <3>8 DEF Own
  <2>3. CASE ~Swaps(t)
    <3>1. PICK to \in {"c_test", "run"} : \E i : Move(t, to, i, 0, 0)
      BY <1>5, <2>3 DEF CreateAcquire, NextSlot, Return
    <3>2. PICK i : Move(t, to, i, 0, 0)
      BY <3>1
    <3>3. UNCHANGED <<seq, key, created, clashed>>
      BY <1>5, <2>3 DEF CreateAcquire
    <3> QED BY <2>1, <3>2, <3>3, OwnMoves DEF Holds
  <2> QED BY <2>2, <2>3
<1>6. ASSUME NEW t \in Threads, CreateDone(t) PROVE Own'
  <2>1. /\ pc[t] = "c_dest" /\ at[t] \in Slots /\ Move(t, "run", 0, 0, 0)
        /\ created' = created + 1
        /\ key' = [key EXCEPT ![created + 1] = at[t]]
        /\ UNCHANGED <<build, seq, tls, clashed>>
    BY <1>0, <1>6 DEF CreateDone, Return, PlacesFit
  <2>2. /\ pc'[t] = "run"
        /\ \A u \in Threads \ {t} : /\ pc'[u] = pc[u] /\ at'[u] = at[u]
                                    /\ seen'[u] = seen[u] /\ base'[u] = base[u]
    BY <1>0, <2>1, Moved
  <2>3. created + 1 \in Ids
    <3>1. created' \in 0 .. MaxCreates
      BY BaseNext DEF Base, Types
    <3> QED BY <1>0, <2>1, <3>1 DEF Ids
  <2>4. /\ key[created + 1] = NoSlot /\ key'[created + 1] = at[t]
        /\ \A d \in Ids \ {created + 1} : key'[d] = key[d]
        /\ \A d \in Ids : d > created + 1 => d > created
    BY <1>0, <2>1, <2>3 DEF KeyHas, Types, Ids
  <2>5. \A i : Unused(i)' <=> Unused(i)
    BY <2>1 DEF Unused
  <2>6. /\ at[t] \notin clashed => /\ ~Unused(at[t]) /\ \A d \in Ids : key[d] # at[t]
                                   /\ \A u \in Threads \ {t} : ~Holds(u, at[t])
    BY <1>0, <2>1 DEF CallHas, Holds
  <2>7. \A u \in Threads, i \in Slots : Holds(u, i)' <=> (Holds(u, i) /\ u # t)
    BY <2>1, <2>2 DEF Holds
  <2>8. Loaded'
    BY <1>0, <2>1, <2>2 DEF Loaded
  <2>9. KeyHas'
    <3> SUFFICES ASSUME NEW d \in Ids
                 PROVE  /\ d > created' => key'[d] = NoSlot
                        /\ key'[d] \in Slots \ clashed =>
                             ~Unused(key'[d]) /\ \A e \in Ids : key'[e] = key'[d] => e = d
      BY <2>1, <2>5 DEF KeyHas
    <3>1. CASE d = created + 1
      BY <1>0, <2>1, <2>4, <2>6, <3>1
    <3>2. CASE d # created + 1
      BY <1>0, <2>1, <2>4, <2>6, <3>2 DEF KeyHas
    <3> QED BY <3>1, <3>2
  <2>10. CallHas'
    <3> SUFFICES ASSUME NEW u \in Threads, NEW i \in Slots \ clashed, Holds(u, i), u # t
                 PROVE  /\ ~Unused(i) /\ \A d \in Ids : key'[d] # i
                        /\ \A v \in Threads : Holds(v, i) => v = u
      BY <2>1, <2>5, <2>7 DEF CallHas
    <3>1. i # at[t]
      BY <2>6
    <3> QED BY <1>0, <2>4, <3>1 DEF CallHas
  <2>11. UsedClaimed'
    <3> SUFFICES ASSUME NEW i \in Slots \ clashed, ~Unused(i)
                 PROVE  (\E d \in Ids : key'[d] = i) \/ (\E u \in Threads \ {t} : Holds(u, i))
      BY <2>1, <2>5, <2>7 DEF UsedClaimed
    <3>1. CASE i = at[t]
      BY <2>3, <2>4, <3>1
    <3>2. CASE i # at[t]
      <4>1. ASSUME NEW d \in Ids, key[d] = i PROVE key'[d] = i
        BY <2>4, <4>1
      <4>2. ~Holds(t, i)
        BY <3>2 DEF Holds
      <4> QED BY <1>0, <4>1, <4>2 DEF UsedClaimed
    <3> QED BY <3>1, <3>2
  <2> QED BY <2>8, <2>9, <2>10, <2>11 DEF Own
<1>7. ASSUME NEW t \in Threads, DeleteCall(t) PROVE Own'
  <2>1. PICK d \in Ids :
          /\ pc[t] = "run" /\ key[d] \in Slots /\ Move(t, "d_test", key[d], 0, 0)
          /\ key' = [key EXCEPT ![d] = NoSlot]
          /\ UNCHANGED <<build, seq, destructor, tls, created, clashed, overtaken>>
    BY <1>0, <1>7 DEF DeleteCall, Types
  <2>2. /\ pc'[t] = "d_test" /\ at'[t] = key[d]
        /\ \A u \in Threads \ {t} : /\ pc'[u] = pc[u] /\ at'[u] = at[u]
                                    /\ seen'[u] = seen[u] /\ base'[u] = base[u]
    BY <1>0, <2>1, Moved
  <2>3. key'[d] = NoSlot /\ \A e \in Ids \ {d} : key'[e] = key[e]
    BY <1>0, <2>1 DEF Types
  <2>4. key[d] \notin clashed =>
          /\ ~Unused(key[d]) /\ \A e \in Ids : key[e] = key[d] => e = d
          /\ \A u \in Threads : ~Holds(u, key[d])
    BY <1>0, <2>1 DEF KeyHas, CallHas
  <2>5. \A i : Unused(i)' <=> Unused(i)
    BY <2>1 DEF Unused
  <2>6. \A u \in Threads, i \in Slots : Holds(u, i)' <=> (Holds(u, i) \/ (u = t /\ i = key[d]))
    BY <2>1, <2>2 DEF Holds
  <2>7. Loaded'
    BY <1>0, <2>1, <2>2 DEF Loaded
  <2>8. KeyHas'
    BY <1>0, <2>1, <2>3, <2>5 DEF KeyHas
  <2>9. CallHas'
    <3> SUFFICES ASSUME NEW u \in Threads, NEW i \in Slots \ clashed, Holds(u, i)'
                 PROVE  /\ ~Unused(i) /\ \A e \in Ids : key'[e] # i
                        /\ \A v \in Threads : Holds(v, i)' => v = u
      BY <2>1, <2>5 DEF CallHas
    <3>1. CASE i = key[d]
      BY <2>3, <2>4, <2>6, <3>1
    <3>2. CASE i # key[d]
      BY <1>0, <2>3, <2>6, <3>2 DEF CallHas
    <3> QED BY <3>1, <3>2
  <2>10. UsedClaimed'
    BY <1>0, <2>1, <2>3, <2>5, <2>6 DEF UsedClaimed
  <2> QED BY <2>7, <2>8, <2>9, <2>10 DEF Own
<1>8. ASSUME NEW t \in Threads, DeleteTest(t) PROVE Own'
  <2>1. pc[t] = "d_test" /\ at[t] \in Slots /\ UNCHANGED <<seq, key, created, clashed>>
    BY <1>0, <1>8 DEF DeleteTest, PlacesFit
  <2>2. at[t] \notin clashed => ~Unused(at[t])
    BY <1>0, <2>1 DEF CallHas, Holds
  <2>3. CASE Unused(at[t])
    <3>1. Move(t, "run", 0, 0, 0)
      BY <1>8, <2>3 DEF DeleteTest, Return
    <3> QED BY <2>1, <2>2, <2>3, <3>1, OwnMoves DEF Holds
  <2>4. CASE ~Unused(at[t]) /\ build = "default"
    <3>1. Move(t, "d_new", at[t], 0, 0)
      BY <1>8, <2>4 DEF DeleteTest, Loads
    <3> QED BY <2>1, <3>1, OwnMoves DEF Holds
  <2>5. CASE ~Unused(at[t]) /\ build # "default"
    <3>1. Move(t, "d_cas", at[t], seq[at[t]], seq[at[t]])
      BY <1>8, <2>5 DEF DeleteTest, Loads
    <3> QED BY <2>1, <3>1, OwnMoves DEF Holds
  <2> QED BY <2>3, <2>4, <2>5
<1>9. ASSUME NEW t \in Threads, DeleteRelease(t) PROVE Own'
  <2>1. /\ pc[t] = "d_cas" /\ at[t] \in Slots /\ seq[at[t]] \in Nat
        /\ Move(t, "run", 0, 0, 0)
        /\ seq' = IF Swaps(t) THEN [seq EXCEPT ![at[t]] = base[t] + 1] ELSE seq
        /\ clashed' = IF Agree(t, 1) \/ ~Swaps(t) THEN clashed ELSE clashed \cup {at[t]}
        /\ UNCHANGED <<build, destructor, tls, key, created, overtaken>>
    BY <1>0, <1>9 DEF DeleteRelease, Record, Released, Return, PlacesFit, Types
  <2>2. /\ pc'[t] = "run"
        /\ \A u \in Threads \ {t} : /\ pc'[u] = pc[u] /\ at'[u] = at[u]
                                    /\ seen'[u] = seen[u] /\ base'[u] = base[u]
    BY <1>0, <2>1, Moved
  <2>3. \A i \in Slots \ {at[t]} : seq'[i] = seq[i] /\ (Unused(i)' <=> Unused(i))
    BY <1>0, <2>1 DEF Types, Unused
  <2>4. clashed \subseteq clashed'
    BY <2>1
  <2>5. ASSUME at[t] \notin clashed'
        PROVE  /\ seq'[at[t]] % 2 = 0 /\ \A d \in Ids : key[d] # at[t]
               /\ \A u \in Threads \ {t} : ~Holds(u, at[t])
    <3>1. at[t] \notin clashed
      BY <2>4, <2>5
    <3>2. /\ ~Unused(at[t]) /\ \A d \in Ids : key[d] # at[t]
          /\ \A u \in Threads \ {t} : ~Holds(u, at[t])
      BY <1>0, <2>1, <3>1 DEF CallHas, Holds
    <3>3. base[t] = seq[at[t]] /\ seen[t] = seq[at[t]]
      BY <1>0, <2>1, <3>1 DEF Loaded
    <3>4. seq'[at[t]] = seq[at[t]] + 1
      BY <1>0, <2>1, <3>3 DEF Swaps, Types
    <3>5. seq'[at[t]] % 2 = 0
      <4>1. (seq[at[t]] + 1) % 2 = 0 <=> seq[at[t]] % 2 # 0
        BY <2>1, Parity
      <4> QED BY <3>2, <3>4, <4>1 DEF Unused
    <3> QED BY <3>2, <3>5
  <2>6. \A u \in Threads, i \in Slots : Holds(u, i)' <=> (Holds(u, i) /\ u # t)
    BY <2>1, <2>2 DEF Holds
  <2>7. Loaded'
    <3> SUFFICES ASSUME NEW u \in Threads, at'[u] \notin clashed', pc'[u] \in {"d_old", "d_cas"}
                 PROVE  base'[u] = seq'[at'[u]] /\ (pc'[u] = "d_cas" => seen'[u] = seq'[at'[u]])
      BY DEF Loaded
    <3>1. /\ u # t /\ pc'[u] = pc[u] /\ at'[u] = at[u] /\ at[u] \in Slots
          /\ seen'[u] = seen[u] /\ base'[u] = base[u]
      BY <1>0, <2>2 DEF PlacesFit
    <3>2. at[u] # at[t]
      BY <2>5, <3>1 DEF Holds
    <3>3. at[u] \notin clashed
      BY <2>4, <3>1
    <3> QED BY <1>0, <2>3, <3>1, <3>2, <3>3 DEF Loaded
  <2>8. KeyHas'
    BY <1>0, <2>1, <2>3, <2>4, <2>5 DEF KeyHas
  <2>9. CallHas'
    <3> SUFFICES ASSUME NEW u \in Threads, NEW i \in Slots \ clashed', Holds(u, i), u # t
                 PROVE  /\ ~Unused(i)' /\ \A d \in Ids : key[d] # i
                        /\ \A v \in Threads : Holds(v, i) => v = u
      BY <2>1, <2>6 DEF CallHas
    <3>1. i # at[t]
      BY <2>5
    <3> QED BY <1>0, <2>3, <2>4, <3>1 DEF CallHas
  <2>10. UsedClaimed'
    <3> SUFFICES ASSUME NEW i \in Slots \ clashed', ~Unused(i)'
                 PROVE  (\E d \in Ids : key[d] = i) \/ (\E u \in Threads \ {t} : Holds(u, i))
      BY <2>1, <2>6 DEF UsedClaimed
    <3>1. i # at[t]
      BY <2>5 DEF Unused
    <3>2. ~Holds(t, i)
      BY <3>1 DEF Holds
    <3> QED BY <1>0, <2>3, <2>4, <3>1, <3>2 DEF UsedClaimed
  <2> QED BY <2>7, <2>8, <2>9, <2>10 DEF Own
<1>10. ASSUME NEW t \in Threads, SetSpecific(t) PROVE Own'
  <2>1. UNCHANGED <<seq, pc, at, seen, base, key, created, clashed>>
    BY <1>10 DEF SetSpecific, locals
  <2> QED BY <1>0, <2>1, OwnKept DEF Holds, Loaded
<1>11. ASSUME NEW t \in Threads, DestructorTest(t) PROVE Own'
  <2>1. PICK to \in {"x_test", "x_call", "dead"} : \E i, m, n : Move(t, to, i, m, n)
    BY <1>11 DEF DestructorTest
  <2>2. PICK i, m, n : Move(t, to, i, m, n)
    BY <2>1
  <2>3. pc[t] = "x_test" /\ UNCHANGED <<seq, key, created, clashed>>
    BY <1>11 DEF DestructorTest
  <2> QED BY <2>2, <2>3, OwnMoves DEF Holds
<1>12. ASSUME NEW t \in Threads, DestructorCall(t) PROVE Own'
  BY <1>12, OwnMoves DEF DestructorCall, Holds
<1>13. CASE UNCHANGED vars
  BY <1>0, <1>13, OwnKept DEF vars, Holds, Loaded
<1> QED
  BY <1>1, <1>2, <1>3, <1>4, <1>5, <1>6, <1>7, <1>8, <1>9, <1>10, <1>11, <1>12, <1>13
  DEF Next

\* Base and Own hold in every reachable state.
THEOREM Invariance == Spec => [](Base /\ Own)
BY InitBase, BaseNext, OwnNext, PTL DEF Spec

\* Every variable has its type; data is no longer stored while its destructor is called;
\* and no numbers clash in an optimised build.
THEOREM TypeCorrect == Spec => []TypeOK
<1>1. Base => TypeOK
  BY DEF Base, Types, DataTaken, TypeOK
<1> QED BY <1>1, Invariance, PTL

\* A slot in use belongs to one key, or to one call that creates or deletes it, in every
\* interleaving and either build, unless a compare-and-swap succeeded there on numbers
\* of two moments.
THEOREM KeysApart == Spec => []KeysDistinct
<1>1. Base /\ Own => KeysDistinct
  <2> SUFFICES ASSUME Base, Own, NEW i \in Slots \ clashed
               PROVE  /\ Unused(i) <=> Claims(i) = {}
                      /\ \A a, b \in Claims(i) : a = b
    BY DEF KeysDistinct
  <2>1. Claims(i) = {d \in Ids : key[d] = i} \cup {t \in Threads : Holds(t, i)}
    BY DEF Claims, Holds, Holding
  <2>2. Unused(i) <=> Claims(i) = {}
    BY <2>1 DEF Own, KeyHas, CallHas, UsedClaimed
  <2>3. \A a, b \in Claims(i) : a = b
    BY <2>1 DEF Own, KeyHas, CallHas
  <2> QED BY <2>2, <2>3
<1> QED BY <1>1, Invariance, PTL

-----------------------------------------------------------------------------
(* Whose data is in a slot.  What is stored under a number was stored under the    *)
(* key that has the slot for as long as it has that number.                        *)

\* Nothing stored is newer than its slot; what is as new as a slot in use goes with
\* the destructor there; and nothing is as new as a slot whose creation is not over.
SlotData == \A t \in Threads, i \in Slots \ clashed :
  /\ tls[t][i].seq <= seq[i]
  /\ tls[t][i].seq = seq[i] /\ ~Unused(i) /\ tls[t][i].data # None =>
       destructor[i] = tls[t][i].data
  /\ \A u \in Threads : pc[u] = "c_dest" /\ at[u] = i => tls[t][i].seq < seq[i]

KeyDestructor == \A d \in Ids : key[d] \in Slots \ clashed => destructor[key[d]] = d

\* The destructor of a slot stays while somebody is about to call it, unless it is
\* overtaken by another creation.
CalledRight == \A t \in Threads \ overtaken :
  pc[t] = "x_call" /\ at[t] \notin clashed => destructor[at[t]] = seen[t]

Data == SlotData /\ KeyDestructor /\ CalledRight

\* At first no data is stored.
LEMMA InitData == Init => Data
BY ConstantFacts DEF Init, Data, SlotData, KeyDestructor, CalledRight

\* A step that stores nothing and begins no creation and no call of a destructor.
LEMMA DataMoves ==
  ASSUME Types, Data, NEW t \in Threads, NEW to, NEW i, NEW m, NEW n, Move(t, to, i, m, n),
         to \notin {"c_dest", "x_call"},
         UNCHANGED <<seq, destructor, tls, clashed>>,
         \A u \in Threads \ {t} : u \in overtaken => u \in overtaken',
         \A d \in Ids : key'[d] # NoSlot => key'[d] = key[d]
  PROVE  Data'
<1>1. /\ pc'[t] = to
      /\ \A u \in Threads \ {t} : /\ pc'[u] = pc[u] /\ at'[u] = at[u]
                                  /\ seen'[u] = seen[u] /\ base'[u] = base[u]
  BY Moved
<1>2. \A i_1 : Unused(i_1)' <=> Unused(i_1)
  BY DEF Unused
<1>3. SlotData'
  BY <1>1, <1>2 DEF Data, SlotData
<1>4. KeyDestructor'
  BY ConstantFacts DEF Data, KeyDestructor
<1>5. CalledRight'
  BY <1>1 DEF Data, CalledRight
<1> QED BY <1>3, <1>4, <1>5 DEF Data

\* Every step keeps what is said of the data.
LEMMA DataNext == Base /\ Own /\ Data /\ [Next]_vars => Data'
<1> SUFFICES ASSUME Base, Own, Data, [Next]_vars PROVE Data'
  OBVIOUS
<1> USE ConstantFacts DEF history
<1>0. /\ Types /\ PlacesFit /\ Loaded /\ KeyHas /\ CallHas
      /\ SlotData /\ KeyDestructor /\ CalledRight
      /\ \A u \in Threads, i \in Slots : tls[u][i].seq \in Nat /\ seq[i] \in Nat
  BY DEF Base, Own, Data, Types
<1>1. ASSUME NEW t \in Threads, LoadNew(t) \/ LoadOld(t) \/ CreateCall(t) \/ ExitCall(t)
      PROVE  Data'
  BY <1>0, <1>1, DataMoves DEF LoadNew, LoadOld, CreateCall, ExitCall
<1>2. ASSUME NEW t \in Threads, CreateTest(t) PROVE Data'
  <2>1. \E to \in {"c_new", "c_cas", "c_test", "run"} : \E i, m, n : Move(t, to, i, m, n)
    BY <1>2 DEF CreateTest, Loads, NextSlot, Return
  <2>2. UNCHANGED <<seq, destructor, tls, key, clashed, overtaken>>
    BY <1>2 DEF CreateTest
  <2> QED BY <1>0, <2>1, <2>2, DataMoves
<1>3. ASSUME NEW t \in Threads, CreateAcquire(t) PROVE Data'
  <2>1. /\ pc[t] = "c_cas" /\ at[t] \in Slots
        /\ UNCHANGED <<build, destructor, tls, key, created, overtaken>>
    BY <1>0, <1>3 DEF CreateAcquire, PlacesFit, Changing
  <2>2. CASE Swaps(t)
    <3>1. /\ seq' = [seq EXCEPT ![at[t]] = base[t] + 1] /\ Move(t, "c_dest", at[t], 0, 0)
          /\ clashed' = IF Agree(t, 0) THEN clashed ELSE clashed \cup {at[t]}
          /\ seq[at[t]] = seen[t]
      BY <1>3, <2>2 DEF CreateAcquire, Record, Swaps
    <3>2. /\ pc'[t] = "c_dest" /\ at'[t] = at[t] /\ clashed \subseteq clashed'
          /\ \A u \in Threads \ {t} : /\ pc'[u] = pc[u] /\ at'[u] = at[u]
                                      /\ seen'[u] = seen[u] /\ base'[u] = base[u]
      BY <1>0, <3>1, Moved
    <3>3. \A i \in Slots \ {at[t]} : seq'[i] = seq[i] /\ (Unused(i)' <=> Unused(i))
      BY <1>0, <3>1 DEF Types, Unused
    <3>4. at[t] \notin clashed' => seq'[at[t]] = seq[at[t]] + 1
      BY <1>0, <2>1, <3>1 DEF Agree, Types
    <3>5. SlotData'
      <4> SUFFICES ASSUME NEW u \in Threads, NEW i \in Slots \ clashed'
            PROVE  /\ tls[u][i].seq <= seq'[i]
                   /\ tls[u][i].seq = seq'[i] /\ ~Unused(i)' /\ tls[u][i].data # None =>
                        destructor[i] = tls[u][i].data
                   /\ \A v \in Threads : pc'[v] = "c_dest" /\ at'[v] = i =>
                        tls[u][i].seq < seq'[i]
        BY <2>1 DEF SlotData
      <4>0. i \in Slots \ clashed
        BY <3>2
      <4>1. CASE i = at[t]
        BY <1>0, <3>4, <4>0, <4>1 DEF SlotData
      <4>2. CASE i # at[t]
        BY <1>0, <3>2, <3>3, <4>0, <4>2 DEF SlotData
      <4> QED BY <4>1, <4>2
    <3>6. KeyDestructor'
      BY <1>0, <2>1, <3>2 DEF KeyDestructor
    <3>7. CalledRight'
      <4> SUFFICES ASSUME NEW u \in Threads \ overtaken, pc'[u] = "x_call",
                          at'[u] \notin clashed'
                   PROVE  destructor[at'[u]] = seen'[u]
        BY <2>1 DEF CalledRight
      <4>1. u # t /\ at'[u] = at[u] /\ seen'[u] = seen[u] /\ pc[u] = "x_call"
        BY <3>2
      <4> QED BY <1>0, <3>2, <4>1 DEF CalledRight
    <3> QED BY <3>5, <3>6, <3>7 DEF Data
  <2>3. CASE ~Swaps(t)
    <3>1. \E to \in {"c_test", "run"} : \E i : Move(t, to, i, 0, 0)
      BY <1>3, <2>3 DEF CreateAcquire, NextSlot, Return
    <3>2. UNCHANGED <<seq, clashed>>
      BY <1>3, <2>3 DEF CreateAcquire
    <3> QED BY <1>0, <2>1, <3>1, <3>2, DataMoves
  <2> QED BY <2>2, <2>3
<1>4. ASSUME NEW t \in Threads, CreateDone(t) PROVE Data'
  <2>1. /\ pc[t] = "c_dest" /\ at[t] \in Slots /\ Move(t, "run", 0, 0, 0)
        /\ destructor' = [destructor EXCEPT ![at[t]] = created + 1]
        /\ key' = [key EXCEPT ![created + 1] = at[t]]
        /\ overtaken' = overtaken \cup {u \in Threads : pc[u] = "x_call" /\ at[u] = at[t]}
        /\ UNCHANGED <<build, seq, tls, clashed>>
    BY <1>0, <1>4 DEF CreateDone, Return, PlacesFit, Changing
  <2>2. /\ pc'[t] = "run"
        /\ \A u \in Threads \ {t} : /\ pc'[u] = pc[u] /\ at'[u] = at[u]
                                    /\ seen'[u] = seen[u] /\ base'[u] = base[u]
    BY <1>0, <2>1, Moved
  <2>3. at[t] \notin clashed => \A d \in Ids : key[d] # at[t]
    BY <1>0, <2>1 DEF CallHas, Holds, Holding
  <2>4. \A i : Unused(i)' <=> Unused(i)
    BY <2>1 DEF Unused
  <2>5. /\ destructor'[at[t]] = created + 1
        /\ \A i \in Slots \ {at[t]} : destructor'[i] = destructor[i]
    BY <1>0, <2>1 DEF Types
  <2>6. SlotData'
    <3> SUFFICES ASSUME NEW u \in Threads, NEW i \in Slots \ clashed
          PROVE  /\ tls[u][i].seq <= seq[i]
                 /\ tls[u][i].seq = seq[i] /\ ~Unused(i) /\ tls[u][i].data # None =>
                      destructor'[i] = tls[u][i].data
                 /\ \A v \in Threads : pc'[v] = "c_dest" /\ at'[v] = i =>
                      tls[u][i].seq < seq[i]
      BY <2>1, <2>4 DEF SlotData
    <3>1. tls[u][i].seq <= seq[i]
          /\ \A v \in Threads : pc'[v] = "c_dest" /\ at'[v] = i => tls[u][i].seq < seq[i]
      BY <1>0, <2>2 DEF SlotData
    <3>2. CASE i = at[t]
      <4>1. tls[u][i].seq \in Nat /\ seq[i] \in Nat /\ tls[u][i].seq < seq[i]
        BY <1>0, <2>1, <3>2 DEF SlotData
      <4> QED BY <3>1, <4>1
    <3>3. CASE i # at[t]
      BY <1>0, <2>5, <3>1, <3>3 DEF SlotData
    <3> QED BY <3>2, <3>3
  <2>7. KeyDestructor'
    BY <1>0, <2>1, <2>3, <2>5 DEF KeyDestructor, Types
  <2>8. CalledRight'
    <3> SUFFICES ASSUME NEW u \in Threads, u \notin overtaken', pc'[u] = "x_call",
                        at'[u] \notin clashed
                 PROVE  destructor'[at'[u]] = seen'[u]
      BY <2>1 DEF CalledRight
    <3>1. /\ u # t /\ pc[u] = "x_call" /\ at'[u] = at[u] /\ seen'[u] = seen[u]
          /\ at[u] \in Slots
      BY <1>0, <2>2 DEF PlacesFit
    <3>2. u \notin overtaken /\ at[u] # at[t]
      BY <2>1, <3>1
    <3> QED BY <1>0, <2>5, <3>1, <3>2 DEF CalledRight
  <2> QED BY <2>6, <2>7, <2>8 DEF Data
<1>5. ASSUME NEW t \in Threads, DeleteCall(t) PROVE Data'
  <2>1. PICK d \in Ids :
          /\ Move(t, "d_test", key[d], 0, 0) /\ key' = [key EXCEPT ![d] = NoSlot]
          /\ UNCHANGED <<seq, destructor, tls, clashed, overtaken>>
    BY <1>5 DEF DeleteCall
  <2>2. \A e \in Ids : key'[e] # NoSlot => key'[e] = key[e]
    BY <1>0, <2>1 DEF Types
  <2> QED BY <1>0, <2>1, <2>2, DataMoves
<1>6. ASSUME NEW t \in Threads, DeleteTest(t) PROVE Data'
  <2>1. \E to \in {"d_new", "d_cas", "run"} : \E i, m, n : Move(t, to, i, m, n)
    BY <1>6 DEF DeleteTest, Loads, Return
  <2>2. UNCHANGED <<seq, destructor, tls, key, clashed, overtaken>>
    BY <1>6 DEF DeleteTest
  <2> QED BY <1>0, <2>1, <2>2, DataMoves
<1>7. ASSUME NEW t \in Threads, DeleteRelease(t) PROVE Data'
  <2>1. /\ pc[t] = "d_cas" /\ at[t] \in Slots /\ Move(t, "run", 0, 0, 0)
        /\ seq' = IF Swaps(t) THEN [seq EXCEPT ![at[t]] = base[t] + 1] ELSE seq
        /\ clashed' = IF Agree(t, 1) \/ ~Swaps(t) THEN clashed ELSE clashed \cup {at[t]}
        /\ UNCHANGED <<build, destructor, tls, key, created, overtaken>>
    BY <1>0, <1>7 DEF DeleteRelease, Record, Released, Return, PlacesFit, Changing, Deleting
  <2>2. /\ pc'[t] = "run" /\ clashed \subseteq clashed'
        /\ \A u \in Threads \ {t} : /\ pc'[u] = pc[u] /\ at'[u] = at[u]
                                    /\ seen'[u] = seen[u] /\ base'[u] = base[u]
    BY <1>0, <2>1, Moved
  <2>3. \A i \in Slots \ {at[t]} : seq'[i] = seq[i] /\ (Unused(i)' <=> Unused(i))
    BY <1>0, <2>1 DEF Types, Unused
  <2>4. at[t] \notin clashed' => seq'[at[t]] = seq[at[t]] + 1
    <3>1. at[t] \notin clashed => base[t] = seq[at[t]] /\ Swaps(t)
      BY <1>0, <2>1 DEF Loaded, Swaps
    <3> QED BY <1>0, <2>1, <2>2, <3>1 DEF Types
  <2>5. SlotData'
    <3> SUFFICES ASSUME NEW u \in Threads, NEW i \in Slots \ clashed'
          PROVE  /\ tls[u][i].seq <= seq'[i]
                 /\ tls[u][i].seq = seq'[i] /\ ~Unused(i)' /\ tls[u][i].data # None =>
                      destructor[i] = tls[u][i].data
                 /\ \A v \in Threads : pc'[v] = "c_dest" /\ at'[v] = i =>
                      tls[u][i].seq < seq'[i]
      BY <2>1 DEF SlotData
    <3>0. i \in Slots \ clashed
      BY <2>2
    <3>1. CASE i = at[t]
      BY <1>0, <2>4, <3>0, <3>1 DEF SlotData
    <3>2. CASE i # at[t]
      BY <1>0, <2>2, <2>3, <3>0, <3>2 DEF SlotData
    <3> QED BY <3>1, <3>2
  <2>6. KeyDestructor' /\ CalledRight'
    BY <1>0, <2>1, <2>2 DEF KeyDestructor, CalledRight
  <2> QED BY <2>5, <2>6 DEF Data
<1>8. ASSUME NEW t \in Threads, SetSpecific(t) PROVE Data'
  <2>1. PICK d \in Ids :
          /\ pc[t] = "run" /\ key[d] # NoSlot /\ key[d] \in Slots /\ ~Unused(key[d])
          /\ tls' = [tls EXCEPT ![t][key[d]] = [seq |-> seq[key[d]], data |-> d]]
          /\ UNCHANGED <<build, seq, destructor, pc, at, seen, base, key, created, clashed,
                         overtaken>>
    BY <1>0, <1>8 DEF SetSpecific, locals, Types
  <2>2. /\ tls'[t][key[d]] = [seq |-> seq[key[d]], data |-> d]
        /\ \A u \in Threads, i \in Slots :
             u # t \/ i # key[d] => tls'[u][i] = tls[u][i]
    BY <1>0, <2>1 DEF Types
  <2>3. key[d] \notin clashed =>
          destructor[key[d]] = d /\ \A u \in Threads : pc[u] = "c_dest" => at[u] # key[d]
    BY <1>0, <2>1 DEF KeyDestructor, CallHas, Holding, Holds
  <2>4. SlotData'
    <3> SUFFICES ASSUME NEW u \in Threads, NEW i \in Slots \ clashed
          PROVE  /\ tls'[u][i].seq <= seq[i]
                 /\ tls'[u][i].seq = seq[i] /\ ~Unused(i) /\ tls'[u][i].data # None =>
                      destructor[i] = tls'[u][i].data
                 /\ \A v \in Threads : pc[v] = "c_dest" /\ at[v] = i =>
                      tls'[u][i].seq < seq[i]
      BY <2>1 DEF SlotData, Unused
    <3>1. CASE u = t /\ i = key[d]
      <4>1. tls'[u][i].seq = seq[i] /\ tls'[u][i].data = d /\ seq[i] \in Nat
        BY <1>0, <2>2, <3>1
      <4> QED BY <2>3, <3>1, <4>1
    <3>2. CASE u # t \/ i # key[d]
      BY <1>0, <2>2, <3>2 DEF SlotData
    <3> QED BY <3>1, <3>2
  <2>5. KeyDestructor' /\ CalledRight'
    BY <1>0, <2>1 DEF KeyDestructor, CalledRight
  <2> QED BY <2>4, <2>5 DEF Data
<1>9. ASSUME NEW t \in Threads, DestructorTest(t) PROVE Data'
  <2>1. CASE at[t] # NoSlot /\ Specific(t, at[t]) # None /\ destructor[at[t]] # None
    <3>1. /\ pc[t] = "x_test" /\ at[t] \in Slots
          /\ Move(t, "x_call", at[t], Specific(t, at[t]), 0)
          /\ tls' = [tls EXCEPT ![t][at[t]].data = None]
          /\ UNCHANGED <<build, seq, destructor, key, created, clashed, overtaken>>
      BY <1>0, <1>9, <2>1 DEF DestructorTest, Cleared, Types
    <3>2. /\ ~Unused(at[t]) /\ tls[t][at[t]].seq = seq[at[t]]
          /\ Specific(t, at[t]) = tls[t][at[t]].data
      BY <2>1 DEF Specific
    <3>3. at[t] \notin clashed => destructor[at[t]] = Specific(t, at[t])
      BY <1>0, <2>1, <3>1, <3>2 DEF SlotData
    <3>4. /\ pc'[t] = "x_call" /\ at'[t] = at[t] /\ seen'[t] = Specific(t, at[t])
          /\ \A u \in Threads \ {t} : /\ pc'[u] = pc[u] /\ at'[u] = at[u]
                                      /\ seen'[u] = seen[u] /\ base'[u] = base[u]
      BY <1>0, <3>1, Moved
    <3>5. CalledRight'
      BY <1>0, <3>1, <3>3, <3>4 DEF CalledRight
    <3>6. \A u \in Threads, i \in Slots :
            /\ tls'[u][i].seq = tls[u][i].seq
            /\ tls'[u][i].data # None => tls'[u][i].data = tls[u][i].data
      <4> SUFFICES ASSUME NEW u \in Threads, NEW i \in Slots
                   PROVE  /\ tls'[u][i].seq = tls[u][i].seq
                          /\ tls'[u][i].data # None => tls'[u][i].data = tls[u][i].data
        OBVIOUS
      <4>1. tls[u][i] \in [seq : Nat, data : Ids \cup {None}]
        BY <1>0 DEF Types
      <4>2. CASE u = t /\ i = at[t]
        <5>1. tls'[u][i] = [tls[u][i] EXCEPT !.data = None]
          BY <1>0, <3>1, <4>2 DEF Types
        <5> QED BY <4>1, <5>1
      <4>3. CASE u # t \/ i # at[t]
        <5>1. tls'[u][i] = tls[u][i]
          BY <1>0, <3>1, <4>3 DEF Types
        <5> QED BY <5>1
      <4> QED BY <4>2, <4>3
    <3>7. SlotData'
      <4> SUFFICES ASSUME NEW u \in Threads, NEW i \in Slots \ clashed
            PROVE  /\ tls'[u][i].seq <= seq[i]
                   /\ tls'[u][i].seq = seq[i] /\ ~Unused(i) /\ tls'[u][i].data # None =>
                        destructor[i] = tls'[u][i].data
                   /\ \A v \in Threads : pc'[v] = "c_dest" /\ at'[v] = i =>
                        tls'[u][i].seq < seq[i]
        BY <3>1 DEF SlotData, Unused
      <4> QED BY <1>0, <3>4, <3>6 DEF SlotData
    <3>8. KeyDestructor'
      BY <1>0, <3>1 DEF KeyDestructor
    <3> QED BY <3>5, <3>7, <3>8 DEF Data
  <2>2. CASE ~(at[t] # NoSlot /\ Specific(t, at[t]) # None /\ destructor[at[t]] # None)
    <3>1. /\ \E to \in {"dead", "x_test"} : \E i : Move(t, to, i, 0, 0)
          /\ UNCHANGED <<seq, destructor, tls, key, clashed, overtaken>>
      BY <1>9, <2>2 DEF DestructorTest
    <3> QED BY <1>0, <3>1, DataMoves
  <2> QED BY <2>1, <2>2
<1>10. ASSUME NEW t \in Threads, DestructorCall(t) PROVE Data'
  BY <1>0, <1>10, DataMoves DEF DestructorCall
<1>11. CASE UNCHANGED vars
  BY <1>0, <1>11 DEF vars, Data, SlotData, KeyDestructor, CalledRight, Unused
<1> QED
  BY <1>1, <1>2, <1>3, <1>4, <1>5, <1>6, <1>7, <1>8, <1>9, <1>10, <1>11 DEF Next

\* Data reaches only its own key and its own destructor, however often slots are reused
\* and calls overlap; unless numbers clashed in the slot, or for the destructor the slot
\* became another key between a thread's test and its call.
THEOREM DataApart == Spec => []OwnData
<1>1. Base /\ Data => OwnData
  <2> SUFFICES ASSUME Base, Data PROVE OwnData
    OBVIOUS
  <2>1. ASSUME NEW t \in Threads, NEW d \in Ids, key[d] \in Slots \ clashed
        PROVE  Specific(t, key[d]) \in {d, None}
    <3>1. destructor[key[d]] = d
      BY <2>1 DEF Data, KeyDestructor
    <3> QED BY <2>1, <3>1 DEF Specific, Data, SlotData
  <2>2. \A t \in Threads \ overtaken :
          pc[t] = "x_call" /\ at[t] \notin clashed => destructor[at[t]] = seen[t]
    BY DEF Data, CalledRight
  <2> QED BY <2>1, <2>2 DEF OwnData
<1>2. Spec => [](Base /\ Own /\ Data)
  BY InitBase, InitData, BaseNext, OwnNext, DataNext, PTL DEF Spec
<1> QED BY <1>1, <1>2, PTL
==============================================================================
