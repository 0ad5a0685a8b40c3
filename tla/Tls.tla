-------------------------------- MODULE Tls ---------------------------------
(***************************************************************************)
(* Thread-local storage (tb-tls.c).  A key is a slot whose sequence number *)
(* is odd while it is in use; no lock guards it.  What a thread stores     *)
(* under a key carries the number, and counts only while the two agree.    *)
(*                                                                         *)
(* Each successful creation has an identity of its own, which stands for   *)
(* the key that the program holds, for its destructor, and for the data    *)
(* stored under it.                                                        *)
(*                                                                         *)
(* KEY_ACQUIRE and KEY_RELEASE name the number three times.  The default   *)
(* build (CMakeLists.txt sets -g and nothing else) reads it each time: for *)
(* the test, for the number to be stored, for the number to compare with;  *)
(* an optimised build reads it once.                                       *)
(***************************************************************************)
EXTENDS Naturals, FiniteSets

CONSTANTS
  Threads,
  MaxKeys,     \* TBTHREAD_MAX_KEYS
  MaxCreates   \* bounds the successful calls of tbthread_key_create

ASSUME ConstantsAssumption == MaxKeys \in Nat \ {0} /\ MaxCreates \in Nat

VARIABLES
  build,       (* "default" or "optimised"                                     *)
  seq,         (* keys[i].seq                                                  *)
  destructor,  (* keys[i].destructor                                           *)
  tls,         (* what each thread stores: the number and the data of each slot*)
  pc,
  at,          (* the slot i a call has come to                                *)
  seen,        (* the number it compares with; data on its way to a destructor *)
  base,        (* the number it will store the successor of                    *)
  key,         (* the slot of each creation, by identity, while it is usable   *)
  created,     (* how many creations there were                                *)
  clashed,     (* history: the slots where a compare-and-swap succeeded that   *)
               (* had loaded two different numbers, or not the one it tested   *)
  overtaken    (* history: the threads about to call a destructor in a slot    *)
               (* that has become another key since they compared the numbers  *)

vars == <<build, seq, destructor, tls, pc, at, seen, base, key, created, clashed, overtaken>>

Slots == 0 .. MaxKeys - 1
Ids == 1 .. MaxCreates
None == 0      \* no data, no destructor
NoSlot == MaxKeys

(***************************************************************************)
(* run     user code                  d_new, d_old, d_cas  the same to     *)
(* c_test  about to test slot at              release a slot               *)
(* c_new   about to load base         x_test  exiting, about to test       *)
(* c_old   about to load seen         x_call  about to call a destructor   *)
(* c_cas   about to acquire it        dead                                 *)
(* c_dest  about to store destructor                                       *)
(* d_test  about to test a slot to delete                                  *)
(***************************************************************************)
Deleting == {"d_test", "d_new", "d_old", "d_cas"}
Changing == {"c_test", "c_new", "c_old", "c_cas", "c_dest"} \cup Deleting
PC == Changing \cup {"run", "x_test", "x_call", "dead"}

locals == <<pc, at, seen, base>>
history == <<clashed, overtaken>>

\* Thread t goes on at a place, with a slot and its two numbers.
Move(t, to, i, old, new) ==
  /\ pc' = [pc EXCEPT ![t] = to]
  /\ at' = [at EXCEPT ![t] = i]
  /\ seen' = [seen EXCEPT ![t] = old]
  /\ base' = [base EXCEPT ![t] = new]

\* The call is over; its local variables are dead.
Return(t) == Move(t, "run", 0, 0, 0)

Init ==
  /\ build \in {"default", "optimised"}
  /\ seq = [i \in Slots |-> 0]
  /\ destructor = [i \in Slots |-> None]
  /\ tls = [t \in Threads |-> [i \in Slots |-> [seq |-> 0, data |-> None]]]
  /\ pc = [t \in Threads |-> "run"]
  /\ at = [t \in Threads |-> 0]
  /\ seen = [t \in Threads |-> 0]
  /\ base = [t \in Threads |-> 0]
  /\ key = [d \in Ids |-> NoSlot]
  /\ created = 0
  /\ clashed = {}
  /\ overtaken = {}

-----------------------------------------------------------------------------
(* KEY_UNUSED, KEY_ACQUIRE, KEY_RELEASE                                    *)

Unused(i) == seq[i] % 2 = 0

\* After its test of the slot a call goes on to the loads, or has them all.
Loads(t, new, cas) ==
  IF build = "default" THEN Move(t, new, at[t], 0, 0)
                       ELSE Move(t, cas, at[t], seq[at[t]], seq[at[t]])

LoadNew(t) ==
  /\ \/ pc[t] = "c_new" /\ Move(t, "c_old", at[t], 0, seq[at[t]])
     \/ pc[t] = "d_new" /\ Move(t, "d_old", at[t], 0, seq[at[t]])
  /\ UNCHANGED <<build, seq, destructor, tls, key, created, history>>

LoadOld(t) ==
  /\ \/ pc[t] = "c_old" /\ Move(t, "c_cas", at[t], seq[at[t]], base[t])
     \/ pc[t] = "d_old" /\ Move(t, "d_cas", at[t], seq[at[t]], base[t])
  /\ UNCHANGED <<build, seq, destructor, tls, key, created, history>>

\* Mutant of Swaps: the number is stored without the comparison.
SwapsAlways(t) == TRUE

\* The outcome of the compare-and-swap.
Swaps(t) == seq[at[t]] = seen[t]

\* The numbers t has loaded agree with each other and with what was tested.
Agree(t, parity) == base[t] = seen[t] /\ seen[t] % 2 = parity

Record(t, parity) == clashed' = IF Agree(t, parity) THEN clashed ELSE clashed \cup {at[t]}

-----------------------------------------------------------------------------
Creators == {t \in Threads : pc[t] \in {"c_test", "c_new", "c_old", "c_cas", "c_dest"}}

\* tbthread_key_create tries the slots in turn ...
CreateCall(t) ==
  /\ pc[t] = "run"
  /\ created + Cardinality(Creators) < MaxCreates
  /\ Move(t, "c_test", 0, 0, 0)
  /\ UNCHANGED <<build, seq, destructor, tls, key, created, history>>

\* ... and returns -ENOMEM after the last.
NextSlot(t) == IF at[t] + 1 \in Slots THEN Move(t, "c_test", at[t] + 1, 0, 0) ELSE Return(t)

CreateTest(t) ==
  /\ pc[t] = "c_test"
  /\ IF Unused(at[t]) THEN Loads(t, "c_new", "c_cas") ELSE NextSlot(t)
  /\ UNCHANGED <<build, seq, destructor, tls, key, created, history>>

CreateAcquire(t) ==
  /\ pc[t] = "c_cas"
  /\ IF Swaps(t)
     THEN /\ seq' = [seq EXCEPT ![at[t]] = base[t] + 1]
          /\ Record(t, 0)
          /\ Move(t, "c_dest", at[t], 0, 0)
     ELSE NextSlot(t) /\ UNCHANGED <<seq, clashed>>
  /\ UNCHANGED <<build, destructor, tls, key, created, overtaken>>

\* The destructor is stored, and the program has the key.
CreateDone(t) ==
  /\ pc[t] = "c_dest"
  /\ created' = created + 1
  /\ destructor' = [destructor EXCEPT ![at[t]] = created']
  /\ key' = [key EXCEPT ![created'] = at[t]]
  /\ overtaken' = overtaken \cup {u \in Threads : pc[u] = "x_call" /\ at[u] = at[t]}
  /\ Return(t)
  /\ UNCHANGED <<build, seq, tls, clashed>>

-----------------------------------------------------------------------------
\* tbthread_key_delete; the program gives the key up when it makes the call.
DeleteCall(t) == \E d \in Ids :
  /\ pc[t] = "run"
  /\ key[d] # NoSlot
  /\ Move(t, "d_test", key[d], 0, 0)
  /\ key' = [key EXCEPT ![d] = NoSlot]
  /\ UNCHANGED <<build, seq, destructor, tls, created, history>>

DeleteTest(t) ==
  /\ pc[t] = "d_test"
  /\ IF Unused(at[t]) THEN Return(t) ELSE Loads(t, "d_new", "d_cas")
  /\ UNCHANGED <<build, seq, destructor, tls, key, created, history>>

\* Mutant of Released: the number returns to what it was before the creation.
ReleasedBack(n) == n - 1

Released(n) == n + 1

DeleteRelease(t) ==
  /\ pc[t] = "d_cas"
  /\ IF Swaps(t)
     THEN seq' = [seq EXCEPT ![at[t]] = Released(base[t])] /\ Record(t, 1)
     ELSE UNCHANGED <<seq, clashed>>
  /\ Return(t)
  /\ UNCHANGED <<build, destructor, tls, key, created, overtaken>>

-----------------------------------------------------------------------------
\* tbthread_setspecific with a key the program may use: unless keys clash, its slot
\* does not change during the call.
SetSpecific(t) == \E d \in Ids :
  /\ pc[t] = "run"
  /\ key[d] # NoSlot /\ ~Unused(key[d])
  /\ tls' = [tls EXCEPT ![t][key[d]] = [seq |-> seq[key[d]], data |-> d]]
  /\ UNCHANGED <<build, seq, destructor, locals, key, created, history>>

\* tb_tls_call_destructors, at the end of the thread.
ExitCall(t) ==
  /\ pc[t] = "run"
  /\ Move(t, "x_test", 0, 0, 0)
  /\ UNCHANGED <<build, seq, destructor, tls, key, created, history>>

Cleared(t, i) == tls' = [tls EXCEPT ![t][i].data = None]

\* What getspecific returns in slot i, and what is given to the destructor.
Specific(t, i) ==
  IF ~Unused(i) /\ tls[t][i].seq = seq[i] THEN tls[t][i].data ELSE None

\* A slot with data and a destructor is noticed; the data is kept in seen.
DestructorTest(t) ==
  LET i == at[t] IN
  /\ pc[t] = "x_test"
  /\ IF i # NoSlot /\ Specific(t, i) # None /\ destructor[i] # None
     THEN Move(t, "x_call", i, Specific(t, i), 0) /\ Cleared(t, i)
     ELSE /\ IF i = NoSlot THEN Move(t, "dead", 0, 0, 0) ELSE Move(t, "x_test", i + 1, 0, 0)
          /\ UNCHANGED tls
  /\ UNCHANGED <<build, seq, destructor, key, created, history>>

\* The destructor that is in the slot by now is called with the data.
DestructorCall(t) ==
  /\ pc[t] = "x_call"
  /\ Move(t, "x_test", at[t] + 1, 0, 0)
  /\ overtaken' = overtaken \ {t}
  /\ UNCHANGED <<build, seq, destructor, tls, key, created, clashed>>

-----------------------------------------------------------------------------
Next == \E t \in Threads :
  \/ LoadNew(t) \/ LoadOld(t)
  \/ CreateCall(t) \/ CreateTest(t) \/ CreateAcquire(t) \/ CreateDone(t)
  \/ DeleteCall(t) \/ DeleteTest(t) \/ DeleteRelease(t)
  \/ SetSpecific(t) \/ ExitCall(t) \/ DestructorTest(t) \/ DestructorCall(t)

Spec == Init /\ [][Next]_vars

-----------------------------------------------------------------------------
\* Every variable has its type; data whose destructor is being called is no longer
\* stored, so that nobody destroys it again; and numbers that disagree are a matter
\* of the default build.
TypeOK ==
  /\ build \in {"default", "optimised"}
  /\ seq \in [Slots -> Nat]
  /\ destructor \in [Slots -> Ids \cup {None}]
  /\ tls \in [Threads -> [Slots -> [seq : Nat, data : Ids \cup {None}]]]
  /\ pc \in [Threads -> PC]
  /\ at \in [Threads -> Slots \cup {NoSlot}]
  /\ seen \in [Threads -> Nat]
  /\ base \in [Threads -> Nat]
  /\ key \in [Ids -> Slots \cup {NoSlot}]
  /\ created \in 0 .. MaxCreates
  /\ clashed \subseteq Slots
  /\ overtaken \subseteq Threads
  /\ \A t \in Threads : pc[t] = "x_call" => tls[t][at[t]].data = None
  /\ build = "optimised" => clashed = {}

\* The keys that the program holds, and the calls that create or delete one, by slot.
Claims(i) ==
  {d \in Ids : key[d] = i}
    \cup {t \in Threads : at[t] = i /\ pc[t] \in {"c_dest"} \cup Deleting}

\* A slot is in use exactly while it belongs to one key, however creations and deletions
\* overlap; except where a compare-and-swap of the default build succeeded on numbers
\* of two moments, when a key may be given out twice or deleted by a creation.
KeysDistinct ==
  \A i \in Slots \ clashed :
    /\ Unused(i) <=> Claims(i) = {}
    /\ \A a, b \in Claims(i) : a = b

\* Data reaches only its own key: what getspecific returns to the holder of a key
\* was stored under that key; and a destructor is called on data of its key, except
\* where the slot became another key between the thread's comparison and its call.
OwnData ==
  /\ \A t \in Threads, d \in Ids :
       key[d] \in Slots \ clashed => Specific(t, key[d]) \in {d, None}
  /\ \A t \in Threads \ overtaken :
       pc[t] = "x_call" /\ at[t] \notin clashed => destructor[at[t]] = seen[t]
=============================================================================
