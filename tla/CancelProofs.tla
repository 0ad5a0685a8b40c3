---------------------------- MODULE CancelProofs -----------------------------
(***************************************************************************)
(* Proofs about Cancel, for every set of threads, set of handlers and      *)
(* number of cancelations.  The events of the module are hypotheses: each  *)
(* theorem says which of them it cannot stand.  The heart of the argument  *)
(* is that a thread inside tbthread_cancel or tbthread_exit is deaf to     *)
(* SIGCANCEL, either because it would not act at once on a cancelation or  *)
(* because it has acted on one already.                                    *)
(*                                                                         *)
(* Proofs about Once, whose calls are canceled in this way, as the         *)
(* instance Once.  What makes its invariant inductive is where the cleanup *)
(* handler is: on the stack from the push to the pop, and afterwards only  *)
(* on that of a thread that ends.                                          *)
(***************************************************************************)
EXTENDS Cancel, SequenceTheorems, FiniteSetTheorems, TLAPS

CONSTANTS Victims, Guarded   \* the constants and the variables of Once that are its own
VARIABLES once, place, enabled, saved, async, canceling, canceled, handlers, again

Once == INSTANCE Once WITH pc <- place, stack <- handlers

USE DEF heapVars, exitVars, UserPlaces

\* Programs do not call tbthread_cancel or tbthread_exit with asynchronous
\* cancelation enabled.
Careful == Allowed \cap {"cancel_async", "exit_async"} = {}

\* Every SIGCANCEL has been delivered when tbthread_exit unmaps the stack.
SignalsInTime == "late_signal" \notin Allowed

\* No cleanup handler acts on a cancelation inside tbthread_exit.
QuietHandlers == "handler_tests" \notin Allowed

Over == ExitPlaces \cup {"dead", "crashed"}

\* SIGCANCEL, or a testcancel that is no handler's, does nothing to thread t.
Deaf(t) == ~ Async(status[t]) \/ "canceled" \in status[t]

\* Who has acted on a cancelation is at its end, and was asked to.
CanceledAreOver ==
  \A t \in Threads : "canceled" \in status[t] => "canceling" \in status[t] /\ pc[t] \in Over

DeafInside ==
  \A t \in Threads : pc[t] \in CancelPlaces \cup {"ret"} \cup Over => Deaf(t)

TargetsKnown ==
  \A t \in Threads : pc[t] \in CancelPlaces => target[t] \in Threads

\* Nobody is about to signal a thread that is past its last critical section.
NobodyKills ==
  \A t, u \in Threads :
    pc[t] \in {"munmap", "exit"} => ~ (pc[u] = "c_kill" /\ target[u] = t)

NonePending == SignalsInTime => \A t \in Threads : pc[t] = "exit" => t \notin pending

Distinct(s) == \A i, j \in DOMAIN s : s[i] = s[j] => i = j

\* The handlers that ran are the first ones of the stack.
Walking(t) ==
  /\ Distinct(stack[t]) /\ Distinct(ran[t])
  /\ pc[t] \notin Over => ran[t] = <<>>
  /\ pc[t] \in {"handlers", "h_test"} =>
       /\ Len(ran[t]) = walked[t] /\ walked[t] <= Len(stack[t])
       /\ \A i \in 1 .. walked[t] : ran[t][i] = stack[t][i]
  /\ pc[t] = "h_test" => "enabled" \notin status[t] \/ "canceled" \in status[t]
  /\ elem[t] # NoHandler => elem[t] \notin Contents(stack[t]) \cup Contents(ran[t])

\* A push has its handler in hand until it is linked.
InHand == \A t \in Threads : pc[t] \in {"p_alloc", "p_link"} => elem[t] # NoHandler

Inv ==
  /\ TypeOK
  /\ InHand
  /\ CanceledAreOver
  /\ DeafInside
  /\ TargetsKnown
  /\ NobodyKills
  /\ NonePending
  /\ NoLostCancel
  /\ QuietHandlers => \A t \in Threads : Walking(t)

\* At first no thread is canceled, in a call or past its user function.
LEMMA InitInv == Init => Inv
<1> SUFFICES ASSUME Init PROVE Inv
  OBVIOUS
<1>1. TypeOK
  <2>1. \A t \in Threads : desc_mutex # t
    BY ConstantsAssumption DEF Init
  <2>2. status \in [Threads -> SUBSET Bits] /\ pc \in [Threads -> PC]
    BY DEF Init, Bits, PC
  <2>3. stack \in [Threads -> Seq(Handlers)] /\ ran \in [Threads -> Seq(Handlers)]
    BY DEF Init
  <2>4. /\ walked \in [Threads -> Nat] /\ cancels \in 0 .. MaxCancels
        /\ pushes \in 0 .. MaxPushes
    BY ConstantsAssumption DEF Init
  <2> QED BY <2>1, <2>2, <2>3, <2>4 DEF Init, TypeOK
<1>2. ASSUME NEW t \in Threads PROVE Walking(t)
  <2>1. stack[t] = <<>> /\ ran[t] = <<>> /\ pc[t] = "run" /\ elem[t] = NoHandler
    BY DEF Init
  <2>2. Distinct(<<>>)
    BY DEF Distinct
  <2> QED BY <2>1, <2>2 DEF Walking, Over, ExitPlaces
<1> QED BY <1>1, <1>2 DEF Init, Inv, CanceledAreOver, DeafInside, TargetsKnown,
     NobodyKills, NonePending, NoLostCancel, Async, Over, ExitPlaces, CancelPlaces, InHand

\* A step of thread t that marks nobody else and signals nobody keeps the invariant if
\* it keeps what the invariant says of t.
LEMMA StepInv ==
  ASSUME Inv, TypeOK', NEW t \in Threads, pc[t] # "c_kill", pc'[t] # "c_kill",
         \A u \in Threads \ {t} :
           /\ status'[u] = status[u] /\ pc'[u] = pc[u] /\ target'[u] = target[u]
           /\ stack'[u] = stack[u] /\ walked'[u] = walked[u] /\ ran'[u] = ran[u]
           /\ elem'[u] = elem[u],
         pending' \in {pending, pending \ {t}},
         "canceled" \in status'[t] => "canceling" \in status'[t] /\ pc'[t] \in Over,
         pc'[t] \in CancelPlaces \cup {"ret"} \cup Over => Deaf(t)',
         pc'[t] \in CancelPlaces => target'[t] \in Threads,
         pc'[t] \in {"munmap", "exit"} =>
           \A u \in Threads : ~ (pc[u] = "c_kill" /\ target[u] = t),
         SignalsInTime /\ pc'[t] = "exit" => t \notin pending',
         pc'[t] \in UserPlaces /\ Async(status'[t]) /\ "canceling" \in status'[t] =>
           pending' = pending /\ Signalled(t),
         pc'[t] \in {"p_alloc", "p_link"} => elem'[t] # NoHandler,
         QuietHandlers => Walking(t)'
  PROVE  Inv'
<1>8. InHand'
  BY DEF Inv, InHand
<1>1. CanceledAreOver'
  BY DEF Inv, CanceledAreOver
<1>2. DeafInside'
  BY DEF Inv, DeafInside, Deaf
<1>3. TargetsKnown'
  BY DEF Inv, TargetsKnown
<1>4. NobodyKills'
  BY DEF Inv, NobodyKills
<1>5. NonePending'
  BY DEF Inv, NonePending, SignalsInTime
<1>6. ASSUME NEW u \in Threads,
             pc'[u] \in UserPlaces /\ Async(status'[u]) /\ "canceling" \in status'[u]
      PROVE  Signalled(u)'
  <2>1. Signalled(u) /\ (u \in pending => u \in pending')
    BY <1>6 DEF Inv, NoLostCancel
  <2>2. CASE u \in pending
    BY <2>1, <2>2 DEF Signalled
  <2>3. CASE \E v \in Threads : pc[v] = "c_kill" /\ target[v] = u
    <3>1. PICK v \in Threads : pc[v] = "c_kill" /\ target[v] = u
      BY <2>3
    <3>2. pc'[v] = "c_kill" /\ target'[v] = u
      BY <3>1
    <3> QED BY <3>2 DEF Signalled
  <2> QED BY <2>1, <2>2, <2>3 DEF Signalled
<1>7. ASSUME QuietHandlers, NEW u \in Threads PROVE Walking(u)'
  <2>1. CASE u = t
    BY <1>7, <2>1
  <2>2. CASE u # t
    <3>1. Walking(u)
      BY <1>7 DEF Inv
    <3> QED BY <2>2, <3>1 DEF Walking
  <2> QED BY <2>1, <2>2
<1> QED BY <1>1, <1>2, <1>3, <1>4, <1>5, <1>6, <1>7, <1>8
        DEF Inv, NoLostCancel, QuietHandlers

\* What the walk needs of a step that leaves the handlers alone.
LEMMA WalkUndisturbed ==
  ASSUME NEW t \in Threads, QuietHandlers => Walking(t),
         stack'[t] = stack[t], walked'[t] = walked[t], ran'[t] = ran[t], elem'[t] = elem[t],
         \/ pc'[t] \notin Over /\ pc[t] \notin Over
         \/ pc[t] = "h_test" /\ pc'[t] = "handlers"
         \/ pc[t] \in Over /\ pc'[t] \in Over \ {"handlers", "h_test"}
  PROVE  QuietHandlers => Walking(t)'
BY DEF Walking, Over, ExitPlaces

\* The end of a thread begins the walk.
LEMMA WalkBegins ==
  ASSUME TypeOK, NEW t \in Threads, QuietHandlers => Walking(t), pc[t] \notin Over,
         stack'[t] \in {stack[t], <<>>}, ran'[t] = ran[t], walked'[t] = 0,
         elem'[t] = elem[t], pc'[t] = "handlers"
  PROVE  QuietHandlers => Walking(t)'
<1> SUFFICES ASSUME QuietHandlers PROVE Walking(t)'
  OBVIOUS
<1>1. Walking(t) /\ ran[t] = <<>>
  BY DEF Walking
<1>2. Distinct(<<>>) /\ Contents(<<>>) = {}
  BY DEF Distinct, Contents
<1>3. Len(stack'[t]) \in Nat
  <2>1. stack[t] \in Seq(Handlers) /\ <<>> \in Seq(Handlers)
    BY EmptySeq DEF TypeOK
  <2>2. stack'[t] \in Seq(Handlers)
    BY <2>1
  <2> QED BY <2>2, LenProperties
<1>4. Distinct(stack'[t]) /\ Distinct(ran'[t])
  BY <1>1, <1>2 DEF Walking
<1> QED BY <1>1, <1>3, <1>4 DEF Walking, Over, ExitPlaces

\* The types of what a thread has.
LEMMA Typed ==
  ASSUME TypeOK, NEW t \in Threads
  PROVE  /\ status[t] \subseteq Bits /\ pc[t] \in PC
         /\ stack[t] \in Seq(Handlers) /\ ran[t] \in Seq(Handlers)
         /\ Len(stack[t]) \in Nat /\ Len(ran[t]) \in Nat /\ walked[t] \in Nat
         /\ DOMAIN stack[t] = 1 .. Len(stack[t]) /\ DOMAIN ran[t] = 1 .. Len(ran[t])
BY LenProperties DEF TypeOK

-----------------------------------------------------------------------------
\* The setters, testcancel, and a return from the user function.
LEMMA SettersInv ==
  ASSUME Inv, NEW t \in Threads, SetState(t) \/ SetType(t) \/ TestCall(t) \/ ReturnFn(t)
  PROVE  Inv'
<1> USE DEF Goto, With, Without, exitVars
<1>0. TypeOK /\ (QuietHandlers => Walking(t))
  BY DEF Inv
<1>1. /\ pc[t] = "run"
      /\ \E to \in {"run", "test", "ret"} : pc' = [pc EXCEPT ![t] = to]
      /\ \E s \in SUBSET Bits :
           /\ status' = [status EXCEPT ![t] = s]
           /\ "canceling" \in s <=> "canceling" \in status[t]
           /\ "canceled" \in s <=> "canceled" \in status[t]
      /\ UNCHANGED <<pending, desc_mutex, target, stack, walked, ran, heapVars, cancels>>
  <2>1. /\ status[t] \subseteq Bits /\ status \in [Threads -> SUBSET Bits]
        /\ status = [status EXCEPT ![t] = status[t]]
    BY <1>0 DEF TypeOK
  <2>2. \E b \in {"enabled", "deferred"} :
          \/ status' = [status EXCEPT ![t] = status[t] \cup {b}]
          \/ status' = [status EXCEPT ![t] = status[t] \ {b}]
          \/ status' = status
    BY <2>1 DEF SetState, SetType, TestCall, ReturnFn, Disable
  <2>3. \E s \in SUBSET Bits :
           /\ status' = [status EXCEPT ![t] = s]
           /\ "canceling" \in s <=> "canceling" \in status[t]
           /\ "canceled" \in s <=> "canceled" \in status[t]
    <3>1. PICK b \in {"enabled", "deferred"} :
            \/ status' = [status EXCEPT ![t] = status[t] \cup {b}]
            \/ status' = [status EXCEPT ![t] = status[t] \ {b}]
            \/ status' = status
      BY <2>2
    <3>2. b \in Bits /\ b # "canceling" /\ b # "canceled"
      BY <3>1 DEF Bits
    <3>3. CASE status' = [status EXCEPT ![t] = status[t] \cup {b}]
      <4>1. status[t] \cup {b} \in SUBSET Bits
        BY <2>1, <3>2
      <4> QED BY <3>2, <3>3, <4>1
    <3>4. CASE status' = [status EXCEPT ![t] = status[t] \ {b}]
      <4>1. status[t] \ {b} \in SUBSET Bits
        BY <2>1
      <4> QED BY <3>2, <3>4, <4>1
    <3>5. CASE status' = status
      <4>1. status[t] \in SUBSET Bits
        BY <2>1
      <4> QED BY <2>1, <3>5, <4>1
    <3> QED BY <3>1, <3>3, <3>4, <3>5
  <2> QED BY <2>3 DEF SetState, SetType, AfterType, TestCall, ReturnFn
<1>2. TypeOK'
  <2>1. status' \in [Threads -> SUBSET Bits]
    BY <1>0, <1>1 DEF TypeOK
  <2>2. pc' \in [Threads -> PC]
    BY <1>0, <1>1 DEF TypeOK, PC
  <2>3. \A u \in Threads :
          desc_mutex = u <=> pc'[u] \in {"c_mark", "c_kill", "c_unlock", "unlock"}
    BY <1>0, <1>1 DEF TypeOK
  <2> QED BY <1>0, <1>1, <2>1, <2>2, <2>3 DEF TypeOK
<1>3. \A u \in Threads \ {t} : status'[u] = status[u] /\ pc'[u] = pc[u]
  BY <1>0, <1>1 DEF TypeOK
<1>4. /\ pc'[t] \in {"run", "test", "ret"}
      /\ "canceling" \in status'[t] <=> "canceling" \in status[t]
      /\ "canceled" \in status'[t] <=> "canceled" \in status[t]
  BY <1>0, <1>1 DEF TypeOK
<1>5. "canceled" \notin status[t]
  BY <1>1 DEF Inv, CanceledAreOver, Over, ExitPlaces
<1>6. pc'[t] = "ret" => "enabled" \notin status'[t]
  BY <1>0, <1>1 DEF SetState, SetType, AfterType, TestCall, ReturnFn, Disable, TypeOK
<1>7. pc'[t] = "run" => "enabled" \notin status'[t]
  BY <1>0, <1>1 DEF SetState, SetType, AfterType, TestCall, ReturnFn, TypeOK
<1>8. QuietHandlers => Walking(t)'
  BY <1>0, <1>1, <1>4, WalkUndisturbed DEF Over, ExitPlaces
<1> QED BY <1>1, <1>2, <1>3, <1>4, <1>5, <1>6, <1>7, <1>8, StepInv
        DEF Deaf, Async, CancelPlaces, Over, ExitPlaces

\* testcancel, in user code or in a handler.
LEMMA TestInv ==
  ASSUME Inv, NEW t \in Threads, Test(t)
  PROVE  Inv'
<1> USE DEF Goto, With, EnterExit
<1>0. TypeOK /\ (QuietHandlers => Walking(t))
  BY DEF Inv
<1>1. /\ pc[t] \in {"test", "h_test", "o_call"}
      /\ UNCHANGED <<pending, desc_mutex, target, stack, ran, heapVars, cancels>>
  BY DEF Test
<1>2. CASE MayCancel(status[t])
  <2>1. /\ status' = [status EXCEPT ![t] = status[t] \cup {"canceled"}]
        /\ pc' = [pc EXCEPT ![t] = "handlers"]
        /\ walked' = [walked EXCEPT ![t] = 0]
    BY <1>2 DEF Test
  <2>2. TypeOK'
    <3>1. status' \in [Threads -> SUBSET Bits]
      BY <1>0, <2>1 DEF TypeOK, Bits
    <3>2. pc' \in [Threads -> PC] /\ walked' \in [Threads -> Nat]
      BY <1>0, <2>1 DEF TypeOK, PC, ExitPlaces
    <3>3. \A u \in Threads :
            desc_mutex = u <=> pc'[u] \in {"c_mark", "c_kill", "c_unlock", "unlock"}
      BY <1>0, <1>1, <2>1 DEF TypeOK
    <3> QED BY <1>0, <1>1, <3>1, <3>2, <3>3 DEF TypeOK
  <2>3. \A u \in Threads \ {t} :
          status'[u] = status[u] /\ pc'[u] = pc[u] /\ walked'[u] = walked[u]
    BY <1>0, <2>1 DEF TypeOK
  <2>4. /\ status'[t] = status[t] \cup {"canceled"} /\ pc'[t] = "handlers"
        /\ walked'[t] = 0
    BY <1>0, <2>1 DEF TypeOK
  <2>5. QuietHandlers => Walking(t)'
    <3>1. CASE pc[t] \in {"test", "o_call"}
      BY <1>0, <1>1, <2>4, <3>1, WalkBegins DEF Over, ExitPlaces
    <3>2. CASE pc[t] = "h_test"
      BY <1>0, <1>2, <3>2 DEF Walking, MayCancel
    <3> QED BY <1>1, <3>1, <3>2
  <2> QED BY <1>1, <1>2, <2>2, <2>3, <2>4, <2>5, StepInv
          DEF MayCancel, Deaf, CancelPlaces, Over, ExitPlaces
<1>3. CASE ~ MayCancel(status[t])
  <2>1. /\ pc[t] \in {"test", "h_test"}
        /\ pc' = [pc EXCEPT ![t] = IF pc[t] = "test" THEN "run" ELSE "handlers"]
        /\ UNCHANGED <<status, walked>>
    BY <1>3 DEF Test
  <2>2. TypeOK'
    <3>1. pc' \in [Threads -> PC]
      BY <1>0, <2>1 DEF TypeOK, PC, ExitPlaces
    <3>2. \A u \in Threads :
            desc_mutex = u <=> pc'[u] \in {"c_mark", "c_kill", "c_unlock", "unlock"}
      BY <1>0, <1>1, <2>1 DEF TypeOK
    <3> QED BY <1>0, <1>1, <2>1, <3>1, <3>2 DEF TypeOK
  <2>3. \A u \in Threads \ {t} : pc'[u] = pc[u]
    BY <1>0, <2>1 DEF TypeOK
  <2>4. pc'[t] = IF pc[t] = "test" THEN "run" ELSE "handlers"
    BY <1>0, <2>1 DEF TypeOK
  <2>5. QuietHandlers => Walking(t)'
    BY <1>0, <1>1, <2>1, <2>4, WalkUndisturbed DEF Over, ExitPlaces
  <2>6. pc'[t] = "run" => ~ (Async(status'[t]) /\ "canceling" \in status'[t])
    BY <1>1, <1>3, <2>1, <2>4
       DEF Async, MayCancel, Inv, CanceledAreOver, Over, ExitPlaces
  <2>7. "canceled" \in status'[t] => "canceling" \in status'[t] /\ pc'[t] \in Over
    BY <1>1, <2>1, <2>4 DEF Inv, CanceledAreOver, Over, ExitPlaces
  <2>8. pc'[t] = "handlers" => Deaf(t)'
    <3>1. pc'[t] = "handlers" => Deaf(t)
      BY <2>1, <2>4 DEF Inv, DeafInside, Over, ExitPlaces
    <3> QED BY <2>1, <3>1 DEF Deaf
  <2> QED BY <1>1, <2>1, <2>2, <2>3, <2>4, <2>5, <2>6, <2>7, <2>8, StepInv
          DEF CancelPlaces, Over, ExitPlaces
<1> QED BY <1>2, <1>3

\* SIGCANCEL arrives: a thread that is deaf goes on, another one begins to end.
LEMMA DeliverInv ==
  ASSUME Inv, NEW t \in Threads, Deliver(t)
  PROVE  Inv'
<1> USE DEF Goto, With, EnterExit
<1>0. TypeOK /\ (QuietHandlers => Walking(t))
  BY DEF Inv
<1>1. /\ t \in pending /\ pending' = pending \ {t}
      /\ UNCHANGED <<desc_mutex, target, stack, ran, heapVars, cancels>>
  BY DEF Deliver
<1>2. CASE pc[t] = "exit"
  <2>1. pc' = [pc EXCEPT ![t] = "crashed"] /\ UNCHANGED <<status, walked>>
    BY <1>2 DEF Deliver
  <2>2. TypeOK'
    <3>1. pc' \in [Threads -> PC]
      BY <1>0, <2>1 DEF TypeOK, PC
    <3>2. \A u \in Threads :
            desc_mutex = u <=> pc'[u] \in {"c_mark", "c_kill", "c_unlock", "unlock"}
      BY <1>0, <1>2, <2>1 DEF TypeOK
    <3> QED BY <1>0, <1>1, <2>1, <3>1, <3>2 DEF TypeOK
  <2>3. pc'[t] = "crashed" /\ \A u \in Threads \ {t} : pc'[u] = pc[u]
    BY <1>0, <2>1 DEF TypeOK
  <2>4. QuietHandlers => Walking(t)'
    BY <1>0, <1>1, <1>2, <2>1, <2>3, WalkUndisturbed DEF Over, ExitPlaces
  <2>5. "canceled" \in status'[t] => "canceling" \in status'[t] /\ pc'[t] \in Over
    BY <1>2, <2>1, <2>3 DEF Inv, CanceledAreOver, Over
  <2>6. Deaf(t)'
    BY <1>2, <2>1 DEF Inv, DeafInside, Over, ExitPlaces, Deaf
  <2> QED BY <1>1, <1>2, <2>1, <2>2, <2>3, <2>4, <2>5, <2>6, StepInv
          DEF CancelPlaces, Over, ExitPlaces
<1>3. CASE pc[t] # "exit" /\ "deferred" \notin status[t] /\ MayCancel(status[t])
  <2>1. /\ status' = [status EXCEPT ![t] = status[t] \cup {"canceled"}]
        /\ pc' = [pc EXCEPT ![t] = "handlers"]
        /\ walked' = [walked EXCEPT ![t] = 0]
    BY <1>3 DEF Deliver
  <2>2. pc[t] \in UserPlaces \cup {"test"}
    <3>1. pc[t] \notin CancelPlaces \cup {"ret"} \cup Over
      BY <1>3 DEF Inv, DeafInside, Deaf, Async, MayCancel
    <3> QED BY <1>0, <3>1, Typed DEF PC, Over
  <2>3. TypeOK'
    <3>1. status' \in [Threads -> SUBSET Bits]
      BY <1>0, <2>1 DEF TypeOK, Bits
    <3>2. pc' \in [Threads -> PC] /\ walked' \in [Threads -> Nat]
      BY <1>0, <2>1 DEF TypeOK, PC, ExitPlaces
    <3>3. \A u \in Threads :
            desc_mutex = u <=> pc'[u] \in {"c_mark", "c_kill", "c_unlock", "unlock"}
      BY <1>0, <2>1, <2>2 DEF TypeOK
    <3> QED BY <1>0, <1>1, <3>1, <3>2, <3>3 DEF TypeOK
  <2>4. \A u \in Threads \ {t} :
          status'[u] = status[u] /\ pc'[u] = pc[u] /\ walked'[u] = walked[u]
    BY <1>0, <2>1 DEF TypeOK
  <2>5. /\ status'[t] = status[t] \cup {"canceled"} /\ pc'[t] = "handlers"
        /\ walked'[t] = 0
    BY <1>0, <2>1 DEF TypeOK
  <2>6. QuietHandlers => Walking(t)'
    BY <1>0, <1>1, <2>2, <2>5, WalkBegins DEF Over, ExitPlaces
  <2> QED BY <1>1, <1>3, <2>2, <2>3, <2>4, <2>5, <2>6, StepInv
          DEF MayCancel, Deaf, CancelPlaces, Over, ExitPlaces
<1>4. CASE pc[t] # "exit" /\ ~ ("deferred" \notin status[t] /\ MayCancel(status[t]))
  <2>1. UNCHANGED <<status, pc, walked>>
    BY <1>4 DEF Deliver
  <2>2. TypeOK'
    BY <1>0, <1>1, <2>1 DEF TypeOK
  <2>3. ~ (pc[t] \in UserPlaces /\ Async(status[t]) /\ "canceling" \in status[t])
    BY <1>4 DEF Async, MayCancel, Inv, CanceledAreOver, Over, ExitPlaces
  <2>4. \A u \in Threads : Walking(u)' = Walking(u) /\ Deaf(u)' = Deaf(u)
    BY <1>1, <2>1 DEF Walking, Deaf
  <2>5. NoLostCancel'
    <3>1. SUFFICES ASSUME NEW u \in Threads,
                          pc[u] \in UserPlaces /\ Async(status[u]) /\ "canceling" \in status[u]
                   PROVE  Signalled(u)'
      BY <2>1 DEF NoLostCancel
    <3>2. u # t /\ Signalled(u)
      BY <2>3, <3>1 DEF Inv, NoLostCancel
    <3> QED BY <1>1, <2>1, <3>2 DEF Signalled
  <2>6. /\ CanceledAreOver' /\ DeafInside' /\ TargetsKnown' /\ NobodyKills' /\ NonePending'
        /\ InHand'
    BY <1>1, <2>1, <2>4
       DEF Inv, CanceledAreOver, DeafInside, TargetsKnown, NobodyKills, NonePending,
           SignalsInTime, InHand
  <2> QED BY <2>2, <2>4, <2>5, <2>6 DEF Inv, QuietHandlers
<1> QED BY <1>2, <1>3, <1>4

-----------------------------------------------------------------------------
\* The steps of a thread from place to place that change neither its status nor what
\* it has on its stack: most of tbthread_cancel, and of tbthread_exit after the walk.
LEMMA MoveInv ==
  ASSUME Inv, NEW t \in Threads, NEW to \in PC \ (UserPlaces \cup {"c_kill", "handlers", "h_test"}),
         pc' = [pc EXCEPT ![t] = to], pc[t] # "c_kill",
         UNCHANGED <<status, pending, exitVars>>,
         \A u \in Threads \ {t} : target'[u] = target[u],
         target' \in [Threads -> Threads \cup {NoThread}],
         cancels' \in 0 .. MaxCancels,
         desc_mutex' \in Threads \cup {NoThread},
         \A u \in Threads :
           desc_mutex' = u <=> pc'[u] \in {"c_mark", "c_kill", "c_unlock", "unlock"},
         pc[t] \in Over <=> to \in Over,
         to \in CancelPlaces \cup {"ret"} \cup Over => Deaf(t),
         to \in CancelPlaces => target'[t] \in Threads,
         to \in {"munmap", "exit"} =>
           \A u \in Threads : ~ (pc[u] = "c_kill" /\ target[u] = t),
         SignalsInTime /\ to = "exit" => t \notin pending
  PROVE  Inv'
<1>0. TypeOK /\ (QuietHandlers => Walking(t))
  BY DEF Inv
<1>1. pc'[t] = to /\ \A u \in Threads \ {t} : pc'[u] = pc[u]
  BY <1>0 DEF TypeOK
<1>2. TypeOK'
  <2>1. pc' \in [Threads -> PC]
    BY <1>0 DEF TypeOK
  <2> QED BY <1>0, <2>1 DEF TypeOK, exitVars
<1>3. QuietHandlers => Walking(t)'
  BY <1>0, <1>1, WalkUndisturbed DEF exitVars
<1>4. "canceled" \in status'[t] => "canceling" \in status'[t] /\ pc'[t] \in Over
  BY <1>1 DEF Inv, CanceledAreOver
<1>5. Deaf(t)' <=> Deaf(t)
  BY DEF Deaf
<1> QED BY <1>1, <1>2, <1>3, <1>4, <1>5, StepInv DEF exitVars

\* tbthread_cancel is entered by a thread that SIGCANCEL would not take out of it.
LEMMA CancelCallInv ==
  ASSUME Inv, Careful, NEW t \in Threads, CancelCall(t)
  PROVE  Inv'
<1>0. TypeOK
  BY DEF Inv
<1>1. PICK v \in Threads : target' = [target EXCEPT ![t] = v]
  BY DEF CancelCall
<1>2. /\ pc[t] = "run" /\ pc' = [pc EXCEPT ![t] = "c_lock"]
      /\ cancels > 0 /\ cancels' = cancels - 1 /\ ~ Async(status[t])
      /\ UNCHANGED <<status, pending, desc_mutex, exitVars>>
  BY DEF CancelCall, Goto, Careful
<1>3. target' \in [Threads -> Threads \cup {NoThread}] /\ target'[t] = v
  BY <1>0, <1>1 DEF TypeOK
<1>4. \A u \in Threads \ {t} : target'[u] = target[u]
  BY <1>0, <1>1 DEF TypeOK
<1>5. cancels' \in 0 .. MaxCancels
  BY <1>0, <1>2, ConstantsAssumption DEF TypeOK
<1>6. \A u \in Threads :
        desc_mutex' = u <=> pc'[u] \in {"c_mark", "c_kill", "c_unlock", "unlock"}
  BY <1>0, <1>2 DEF TypeOK
<1>7. desc_mutex' \in Threads \cup {NoThread}
  BY <1>0, <1>2 DEF TypeOK
<1> QED BY <1>2, <1>3, <1>4, <1>5, <1>6, <1>7, MoveInv
        DEF PC, CancelPlaces, Over, ExitPlaces, Deaf

\* desc_mutex is taken, in tbthread_cancel and in tbthread_exit.
LEMMA LockInv ==
  ASSUME Inv, NEW t \in Threads, CancelLock(t) \/ ExitLock(t)
  PROVE  Inv'
<1>0. TypeOK
  BY DEF Inv
<1>1. PICK to \in {"c_mark", "unlock"} :
        /\ pc' = [pc EXCEPT ![t] = to]
        /\ \/ pc[t] = "c_lock" /\ to = "c_mark"
           \/ pc[t] = "lock" /\ to = "unlock"
        /\ desc_mutex = NoThread /\ desc_mutex' = t
        /\ UNCHANGED <<status, pending, target, exitVars, cancels>>
  BY DEF CancelLock, ExitLock, Goto
<1>2. \A u \in Threads :
        desc_mutex' = u <=> pc'[u] \in {"c_mark", "c_kill", "c_unlock", "unlock"}
  BY <1>0, <1>1, ConstantsAssumption DEF TypeOK
<1>3. Deaf(t)
  BY <1>1 DEF Inv, DeafInside, CancelPlaces, Over, ExitPlaces
<1>4. pc[t] = "c_lock" => target[t] \in Threads
  BY DEF Inv, TargetsKnown, CancelPlaces
<1>5. /\ target' \in [Threads -> Threads \cup {NoThread}] /\ cancels' \in 0 .. MaxCancels
      /\ target' = target
  BY <1>0, <1>1 DEF TypeOK
<1> QED BY <1>1, <1>2, <1>3, <1>4, <1>5, MoveInv DEF PC, CancelPlaces, Over, ExitPlaces

\* The holder of desc_mutex is one thread.
LEMMA OneHolder ==
  ASSUME TypeOK, NEW t \in Threads, NEW u \in Threads,
         pc[t] \in {"c_mark", "c_kill", "c_unlock", "unlock"},
         pc[u] \in {"c_mark", "c_kill", "c_unlock", "unlock"}
  PROVE  t = u
BY DEF TypeOK

\* tbthread_exit leaves its last critical section; whoever was about to signal the
\* thread had to leave before.
LEMMA LeaveInv ==
  ASSUME Inv, NEW t \in Threads, ExitUnlock(t) \/ Munmap(t) \/ KernelExit(t)
  PROVE  Inv'
<1>0. TypeOK
  BY DEF Inv
<1>1. PICK to \in {"munmap", "exit", "dead"} :
        /\ pc' = [pc EXCEPT ![t] = to]
        /\ \/ pc[t] = "unlock" /\ to = "munmap" /\ desc_mutex' = NoThread
           \/ pc[t] = "munmap" /\ to = "exit" /\ desc_mutex' = desc_mutex
           \/ pc[t] = "exit" /\ to = "dead" /\ desc_mutex' = desc_mutex
        /\ SignalsInTime /\ to = "exit" => t \notin pending
        /\ UNCHANGED <<status, pending, target, exitVars, cancels>>
  BY DEF ExitUnlock, Munmap, KernelExit, Goto, Unlock, SignalsInTime
<1>2. \A u \in Threads :
        desc_mutex' = u <=> pc'[u] \in {"c_mark", "c_kill", "c_unlock", "unlock"}
  BY <1>0, <1>1, ConstantsAssumption, OneHolder DEF TypeOK
<1>3. Deaf(t)
  BY <1>1 DEF Inv, DeafInside, Over, ExitPlaces
<1>4. to \in {"munmap", "exit"} =>
        \A u \in Threads : ~ (pc[u] = "c_kill" /\ target[u] = t)
  <2>1. CASE pc[t] = "unlock"
    BY <1>0, <2>1, OneHolder
  <2>2. CASE pc[t] # "unlock"
    BY <1>1, <2>2 DEF Inv, NobodyKills
  <2> QED BY <2>1, <2>2
<1>5. /\ target' \in [Threads -> Threads \cup {NoThread}] /\ cancels' \in 0 .. MaxCancels
      /\ target' = target /\ desc_mutex' \in Threads \cup {NoThread}
  BY <1>0, <1>1 DEF TypeOK
<1>6. to \in PC \ (UserPlaces \cup {"c_kill", "handlers", "h_test"})
  BY <1>1 DEF PC, ExitPlaces
<1>7. pc[t] \in Over /\ to \in Over /\ to \notin CancelPlaces /\ pc[t] # "c_kill"
  BY <1>1 DEF Over, ExitPlaces, CancelPlaces
<1> QED BY <1>1, <1>2, <1>3, <1>4, <1>5, <1>6, <1>7, MoveInv

\* tbthread_cancel returns to user code.
LEMMA CancelUnlockInv ==
  ASSUME Inv, NEW t \in Threads, CancelUnlock(t)
  PROVE  Inv'
<1>0. TypeOK /\ (QuietHandlers => Walking(t))
  BY DEF Inv
<1>1. /\ pc[t] = "c_unlock" /\ pc' = [pc EXCEPT ![t] = "run"]
      /\ desc_mutex' = NoThread /\ target' = [target EXCEPT ![t] = NoThread]
      /\ UNCHANGED <<status, pending, stack, walked, ran, heapVars, cancels>>
  BY DEF CancelUnlock, Goto, Unlock, exitVars
<1>2. /\ pc'[t] = "run"
      /\ \A u \in Threads \ {t} : pc'[u] = pc[u] /\ target'[u] = target[u]
  BY <1>0, <1>1 DEF TypeOK
<1>3. TypeOK'
  <2>1. pc' \in [Threads -> PC] /\ target' \in [Threads -> Threads \cup {NoThread}]
    BY <1>0, <1>1 DEF TypeOK, PC
  <2>2. \A u \in Threads :
          desc_mutex' = u <=> pc'[u] \in {"c_mark", "c_kill", "c_unlock", "unlock"}
    BY <1>0, <1>1, <1>2, OneHolder, ConstantsAssumption
  <2> QED BY <1>0, <1>1, <2>1, <2>2 DEF TypeOK
<1>4. "canceled" \notin status[t] /\ ~ Async(status[t])
  BY <1>1 DEF Inv, CanceledAreOver, DeafInside, Deaf, CancelPlaces, Over, ExitPlaces
<1>5. QuietHandlers => Walking(t)'
  BY <1>0, <1>1, <1>2, WalkUndisturbed DEF Over, ExitPlaces
<1> QED BY <1>1, <1>2, <1>3, <1>4, <1>5, StepInv DEF CancelPlaces, Over, ExitPlaces

\* A thread is marked.  If it would not look by itself, it is alive and gets a signal
\* next.
LEMMA MarkInv ==
  ASSUME Inv, NEW t \in Threads, CancelMark(t)
  PROVE  Inv'
<1> DEFINE v == target[t]
           old == status[v]
<1>0. TypeOK /\ v \in Threads /\ pc[t] = "c_mark"
  BY DEF Inv, TargetsKnown, CancelPlaces, CancelMark
<1>1. UNCHANGED <<pending, desc_mutex, target, stack, walked, ran, heapVars, cancels>>
  BY DEF CancelMark, exitVars
<1>2. CASE UNCHANGED status /\ pc' = [pc EXCEPT ![t] = "c_unlock"]
  <2>1. \A u \in Threads :
          desc_mutex' = u <=> pc'[u] \in {"c_mark", "c_kill", "c_unlock", "unlock"}
    BY <1>0, <1>1, <1>2 DEF TypeOK
  <2>2. Deaf(t)
    BY <1>0 DEF Inv, DeafInside, CancelPlaces
  <2>3. target' = target /\ target' \in [Threads -> Threads \cup {NoThread}]
    BY <1>0, <1>1 DEF TypeOK
  <2>4. /\ "c_unlock" \in PC \ (UserPlaces \cup {"c_kill", "handlers", "h_test"})
        /\ pc[t] # "c_kill" /\ (pc[t] \in Over <=> "c_unlock" \in Over)
    BY <1>0 DEF PC, CancelPlaces, Over, ExitPlaces
  <2>5. desc_mutex' \in Threads \cup {NoThread} /\ cancels' \in 0 .. MaxCancels
    BY <1>0, <1>1 DEF TypeOK
  <2> QED BY <1>0, <1>1, <1>2, <2>1, <2>2, <2>3, <2>4, <2>5, MoveInv DEF exitVars
<1>3. CASE /\ "canceling" \notin old
           /\ status' = [status EXCEPT ![v] = old \cup {"canceling"}]
           /\ pc' = [pc EXCEPT ![t] = IF Async(old) THEN "c_kill" ELSE "c_unlock"]
  <2> DEFINE to == IF Async(old) THEN "c_kill" ELSE "c_unlock"
  <2>1. /\ status'[v] = old \cup {"canceling"}
        /\ \A u \in Threads \ {v} : status'[u] = status[u]
        /\ pc'[t] = to
        /\ \A u \in Threads \ {t} : pc'[u] = pc[u]
    BY <1>0, <1>3 DEF TypeOK
  <2>2. \A u \in Threads :
          /\ Async(status'[u]) <=> Async(status[u])
          /\ "canceled" \in status'[u] <=> "canceled" \in status[u]
          /\ "enabled" \in status'[u] <=> "enabled" \in status[u]
          /\ "canceling" \in status[u] => "canceling" \in status'[u]
          /\ u # v /\ "canceling" \in status'[u] => "canceling" \in status[u]
    BY <2>1 DEF Async
  <2>3. pc[t] \notin Over /\ pc'[t] \in CancelPlaces /\ pc'[t] \notin Over
    BY <1>0, <2>1 DEF CancelPlaces, Over, ExitPlaces
  <2>4. TypeOK'
    <3>1. status' \in [Threads -> SUBSET Bits]
      BY <1>0, <1>3 DEF TypeOK, Bits
    <3>2. pc' \in [Threads -> PC]
      BY <1>0, <1>3 DEF TypeOK, PC, CancelPlaces
    <3>3. \A u \in Threads :
            desc_mutex' = u <=> pc'[u] \in {"c_mark", "c_kill", "c_unlock", "unlock"}
      BY <1>0, <1>1, <1>3 DEF TypeOK
    <3> QED BY <1>0, <1>1, <3>1, <3>2, <3>3 DEF TypeOK
  <2>5. CanceledAreOver'
    BY <2>1, <2>2, <2>3 DEF Inv, CanceledAreOver
  <2>6. DeafInside'
    <3>1. \A u \in Threads : pc'[u] \in CancelPlaces \cup {"ret"} \cup Over =>
                             pc[u] \in CancelPlaces \cup {"ret"} \cup Over
      BY <1>0, <2>1 DEF CancelPlaces
    <3> QED BY <2>2, <3>1 DEF Inv, DeafInside, Deaf
  <2>7. TargetsKnown'
    BY <1>0, <1>1, <2>1 DEF Inv, TargetsKnown
  <2>8. NobodyKills'
    <3>1. SUFFICES ASSUME NEW w \in Threads, NEW u \in Threads,
                          pc'[w] \in {"munmap", "exit"},
                          pc'[u] = "c_kill", target'[u] = w
                   PROVE  FALSE
      BY DEF NobodyKills
    <3>2. pc[w] \in {"munmap", "exit"}
      BY <2>1, <3>1
    <3>3. CASE u = t
      <4>1. w = v /\ Async(old)
        BY <1>1, <2>1, <3>1, <3>3
      <4>2. "canceled" \in old
        BY <3>2, <4>1 DEF Inv, DeafInside, Deaf, Over, ExitPlaces
      <4> QED BY <1>0, <1>3, <4>2 DEF Inv, CanceledAreOver
    <3>4. CASE u # t
      BY <1>1, <2>1, <3>1, <3>2, <3>4 DEF Inv, NobodyKills
    <3> QED BY <3>3, <3>4
  <2>9. NonePending'
    BY <1>1, <2>1 DEF Inv, NonePending, SignalsInTime
  <2>10. NoLostCancel'
    <3>1. SUFFICES ASSUME NEW u \in Threads,
                          pc'[u] \in UserPlaces, Async(status'[u]), "canceling" \in status'[u]
                   PROVE  Signalled(u)'
      BY DEF NoLostCancel
    <3>2. u # t /\ pc[u] \in UserPlaces /\ Async(status[u])
      BY <2>1, <2>2, <3>1
    <3>3. CASE u = v
      <4>1. pc'[t] = "c_kill" /\ target'[t] = u
        BY <1>1, <2>1, <3>2, <3>3
      <4> QED BY <4>1 DEF Signalled
    <3>4. CASE u # v
      <4>1. Signalled(u)
        BY <2>2, <3>1, <3>2, <3>4 DEF Inv, NoLostCancel
      <4>2. \A w \in Threads : pc[w] = "c_kill" => pc'[w] = "c_kill"
        BY <1>0, <2>1
      <4> QED BY <1>1, <4>1, <4>2 DEF Signalled
    <3> QED BY <3>3, <3>4
  <2>11. QuietHandlers => \A u \in Threads : Walking(u)'
    <3>1. SUFFICES ASSUME QuietHandlers, NEW u \in Threads PROVE Walking(u)'
      OBVIOUS
    <3>2. Walking(u) /\ (pc'[u] \in Over => pc'[u] = pc[u])
      BY <2>1, <2>3, <3>1 DEF Inv
    <3>3. pc[u] \in Over => pc'[u] = pc[u]
      BY <2>1, <2>3
    <3>4. pc'[u] \in {"handlers", "h_test"} => pc'[u] = pc[u]
      BY <2>1
    <3> QED BY <1>1, <2>2, <3>2, <3>3, <3>4 DEF Walking
  <2>12. InHand'
    BY <1>1, <2>1 DEF Inv, InHand
  <2> QED BY <2>4, <2>5, <2>6, <2>7, <2>8, <2>9, <2>10, <2>11, <2>12 DEF Inv, QuietHandlers
<1> QED BY <1>2, <1>3 DEF CancelMark, Goto, With, NeedsSignal

\* The signal is sent.
LEMMA KillInv ==
  ASSUME Inv, NEW t \in Threads, CancelKill(t)
  PROVE  Inv'
<1> DEFINE v == target[t]
<1>0. TypeOK /\ v \in Threads /\ pc[t] = "c_kill"
  BY DEF Inv, TargetsKnown, CancelPlaces, CancelKill, Goto
<1>1. /\ pc' = [pc EXCEPT ![t] = "c_unlock"]
      /\ pending' = IF pc[v] = "dead" THEN pending ELSE pending \cup {v}
      /\ UNCHANGED <<status, desc_mutex, target, stack, walked, ran, heapVars, cancels>>
  BY DEF CancelKill, Goto, exitVars
<1>2. pc'[t] = "c_unlock" /\ \A u \in Threads \ {t} : pc'[u] = pc[u]
  BY <1>0, <1>1 DEF TypeOK
<1>3. TypeOK'
  <2>1. pc' \in [Threads -> PC] /\ pending' \subseteq Threads
    BY <1>0, <1>1 DEF TypeOK, PC, CancelPlaces
  <2>2. \A u \in Threads :
          desc_mutex' = u <=> pc'[u] \in {"c_mark", "c_kill", "c_unlock", "unlock"}
    BY <1>0, <1>1 DEF TypeOK
  <2> QED BY <1>0, <1>1, <2>1, <2>2 DEF TypeOK
<1>4. /\ pc[t] \in CancelPlaces /\ pc'[t] \in CancelPlaces
      /\ pc[t] \notin Over /\ pc'[t] \notin Over
  BY <1>0, <1>2 DEF CancelPlaces, Over, ExitPlaces
<1>5. CanceledAreOver' /\ DeafInside' /\ TargetsKnown'
  <2>1. \A u \in Threads : Deaf(u)' <=> Deaf(u)
    BY <1>1 DEF Deaf
  <2> QED BY <1>0, <1>1, <1>2, <1>4, <2>1
          DEF Inv, CanceledAreOver, DeafInside, TargetsKnown
<1>6. NobodyKills'
  BY <1>0, <1>1, <1>2 DEF Inv, NobodyKills
<1>7. NonePending'
  BY <1>0, <1>1, <1>2 DEF Inv, NonePending, NobodyKills, SignalsInTime
<1>8. NoLostCancel'
  <2>1. SUFFICES ASSUME NEW u \in Threads,
                        pc'[u] \in UserPlaces, Async(status'[u]), "canceling" \in status'[u]
                 PROVE  Signalled(u)'
    BY DEF NoLostCancel
  <2>2. pc[u] \in UserPlaces /\ Signalled(u)
    BY <1>1, <1>2, <2>1 DEF Inv, NoLostCancel
  <2>3. CASE u = v \/ u \in pending
    BY <1>1, <2>2, <2>3 DEF Signalled
  <2>4. CASE u # v /\ u \notin pending
    <3>1. PICK w \in Threads : pc[w] = "c_kill" /\ target[w] = u
      BY <2>2, <2>4 DEF Signalled
    <3>2. pc'[w] = "c_kill" /\ target'[w] = u
      BY <1>1, <1>2, <2>4, <3>1
    <3> QED BY <3>2 DEF Signalled
  <2> QED BY <2>3, <2>4
<1>9. QuietHandlers => \A u \in Threads : Walking(u)'
  <2>1. SUFFICES ASSUME QuietHandlers, NEW u \in Threads PROVE Walking(u)'
    OBVIOUS
  <2>2. /\ Walking(u)
        /\ pc[u] \in Over => pc'[u] = pc[u]
        /\ pc'[u] \in {"handlers", "h_test"} => pc'[u] = pc[u]
    BY <1>2, <1>4, <2>1 DEF Inv
  <2> QED BY <1>1, <2>2 DEF Walking
<1>10. InHand'
  BY <1>1, <1>2 DEF Inv, InHand
<1> QED BY <1>3, <1>5, <1>6, <1>7, <1>8, <1>9, <1>10 DEF Inv, QuietHandlers

-----------------------------------------------------------------------------
\* A handler is pushed, and no handler twice; the last one is popped.
LEMMA DistinctPush ==
  ASSUME NEW S, NEW s \in Seq(S), NEW h \in S, h \notin Contents(s), Distinct(s)
  PROVE  Distinct(<<h>> \o s)
<1>1. /\ Len(<<h>> \o s) = 1 + Len(s) /\ Len(s) \in Nat
      /\ DOMAIN (<<h>> \o s) = 1 .. 1 + Len(s) /\ DOMAIN s = 1 .. Len(s)
  BY LenProperties
<1>2. \A i \in 1 .. 1 + Len(s) : (<<h>> \o s)[i] = IF i = 1 THEN h ELSE s[i - 1]
  BY <1>1
<1>3. SUFFICES ASSUME NEW i \in 1 .. 1 + Len(s), NEW j \in 1 .. 1 + Len(s),
                      (<<h>> \o s)[i] = (<<h>> \o s)[j]
               PROVE  i = j
  BY <1>1 DEF Distinct
<1>4. \A k \in 1 .. Len(s) : s[k] # h
  BY <1>1 DEF Contents
<1>5. \A k \in 2 .. 1 + Len(s) : k - 1 \in 1 .. Len(s)
  BY <1>1
<1>6. CASE i = 1 \/ j = 1
  BY <1>1, <1>2, <1>3, <1>4, <1>5, <1>6
<1>7. CASE i # 1 /\ j # 1
  <2>1. s[i - 1] = s[j - 1] /\ i - 1 \in DOMAIN s /\ j - 1 \in DOMAIN s
    BY <1>1, <1>2, <1>3, <1>7
  <2>2. i - 1 = j - 1
    BY <2>1 DEF Distinct
  <2> QED BY <1>1, <2>2
<1> QED BY <1>6, <1>7

\* What is left after a pop has no handler twice either.
LEMMA DistinctPop ==
  ASSUME NEW S, NEW s \in Seq(S), s # <<>>, Distinct(s)
  PROVE  Distinct(Tail(s))
<1>1. /\ Tail(s) \in Seq(S) /\ Len(s) \in Nat /\ Len(s) # 0 /\ DOMAIN s = 1 .. Len(s)
      /\ Len(Tail(s)) = Len(s) - 1
      /\ \A i \in 1 .. Len(Tail(s)) : Tail(s)[i] = s[i + 1]
  BY HeadTailProperties, LenProperties, EmptySeq
<1>2. DOMAIN Tail(s) = 1 .. Len(s) - 1
  BY <1>1, LenProperties
<1>3. SUFFICES ASSUME NEW i \in 1 .. Len(s) - 1, NEW j \in 1 .. Len(s) - 1,
                      Tail(s)[i] = Tail(s)[j]
               PROVE  i = j
  BY <1>2 DEF Distinct
<1>4. s[i + 1] = s[j + 1] /\ i + 1 \in DOMAIN s /\ j + 1 \in DOMAIN s
  BY <1>1, <1>3
<1>5. i + 1 = j + 1
  BY <1>4 DEF Distinct
<1> QED BY <1>1, <1>5

\* What is on the list after a push or a pop.
LEMMA PushedContents ==
  ASSUME NEW S, NEW s \in Seq(S), NEW h \in S
  PROVE  /\ <<h>> \o s \in Seq(S)
         /\ s # <<>> =>
              /\ Tail(s) \in Seq(S) /\ Head(s) \in S
              /\ Distinct(s) => Head(s) \notin Contents(Tail(s))
<1>1. <<h>> \o s \in Seq(S)
  OBVIOUS
<1>2. ASSUME s # <<>>
      PROVE  /\ Tail(s) \in Seq(S) /\ Head(s) \in S /\ Head(s) = s[1]
             /\ Len(s) \in Nat /\ Len(s) # 0 /\ DOMAIN s = 1 .. Len(s)
             /\ DOMAIN Tail(s) = 1 .. Len(s) - 1
             /\ \A i \in 1 .. Len(s) - 1 : Tail(s)[i] = s[i + 1]
  BY <1>2, HeadTailProperties, LenProperties, EmptySeq
<1>3. ASSUME s # <<>>, Distinct(s), Head(s) \in Contents(Tail(s)) PROVE FALSE
  <2>1. PICK i \in 1 .. Len(s) - 1 : s[i + 1] = s[1]
    BY <1>2, <1>3 DEF Contents
  <2>2. i + 1 \in DOMAIN s /\ 1 \in DOMAIN s /\ i + 1 # 1
    BY <1>2, <1>3
  <2> QED BY <1>3, <2>1, <2>2 DEF Distinct
<1> QED BY <1>1, <1>2, <1>3

\* A step of user code, of a push or of a pop, which only concerns the thread's handlers.
LEMMA HandlingInv ==
  ASSUME Inv, NEW t \in Threads, pc[t] \in UserPlaces,
         NEW to \in UserPlaces, pc' = [pc EXCEPT ![t] = to],
         NEW s \in Seq(Handlers), stack' = [stack EXCEPT ![t] = s],
         NEW e \in Handlers \cup {NoHandler}, elem' = [elem EXCEPT ![t] = e],
         memory_lock' \in Threads \cup {NoThread}, pushes' \in 0 .. MaxPushes,
         UNCHANGED <<status, pending, desc_mutex, target, walked, ran, cancels>>,
         to \in {"p_alloc", "p_link"} => e # NoHandler,
         QuietHandlers => Distinct(s) /\ (e # NoHandler => e \notin Contents(s))
  PROVE  Inv'
<1>0. TypeOK /\ (QuietHandlers => Walking(t))
  BY DEF Inv
<1>1. /\ pc'[t] = to /\ stack'[t] = s /\ elem'[t] = e
      /\ \A u \in Threads \ {t} :
           pc'[u] = pc[u] /\ stack'[u] = stack[u] /\ elem'[u] = elem[u]
  BY <1>0 DEF TypeOK
<1>2. TypeOK'
  <2>1. stack' \in [Threads -> Seq(Handlers)] /\ pc' \in [Threads -> PC]
        /\ elem' \in [Threads -> Handlers \cup {NoHandler}]
    BY <1>0 DEF TypeOK, PC
  <2>2. \A u \in Threads :
          desc_mutex' = u <=> pc'[u] \in {"c_mark", "c_kill", "c_unlock", "unlock"}
    BY <1>0, <1>1 DEF TypeOK
  <2> QED BY <1>0, <2>1, <2>2 DEF TypeOK
<1>3. pc[t] \notin Over /\ to \notin Over /\ to \notin CancelPlaces
  BY DEF Over, ExitPlaces, CancelPlaces
<1>4. QuietHandlers => Walking(t)'
  <2>1. Contents(<<>>) = {}
    BY DEF Contents
  <2> QED BY <1>0, <1>1, <1>3, <2>1 DEF Walking, Over, ExitPlaces
<1>5. "canceled" \notin status[t]
  BY <1>3 DEF Inv, CanceledAreOver
<1>6. Async(status[t]) /\ "canceling" \in status[t] => Signalled(t)
  BY DEF Inv, NoLostCancel
<1> QED BY <1>1, <1>2, <1>3, <1>4, <1>5, <1>6, StepInv DEF Over, ExitPlaces

\* A push: the handler in hand is not on the list, until it is linked.
LEMMA PushInv ==
  ASSUME Inv, NEW t \in Threads, PushAlloc(t) \/ PushAllocated(t) \/ PushLink(t)
  PROVE  Inv'
<1>0. /\ TypeOK /\ (QuietHandlers => Walking(t)) /\ stack[t] \in Seq(Handlers)
      /\ stack = [stack EXCEPT ![t] = stack[t]] /\ elem = [elem EXCEPT ![t] = elem[t]]
      /\ elem[t] \in Handlers \cup {NoHandler}
  BY DEF Inv, TypeOK
<1>1. CASE PushAlloc(t)
  <2>1. PICK h \in Handlers \ Contents(stack[t]) : elem' = [elem EXCEPT ![t] = h]
    BY <1>1 DEF PushAlloc
  <2>2. pushes' \in 0 .. MaxPushes
    BY <1>0, <1>1, ConstantsAssumption DEF PushAlloc, TypeOK
  <2>3. /\ pc[t] = "run" /\ pc' = [pc EXCEPT ![t] = "p_alloc"]
        /\ stack' = [stack EXCEPT ![t] = stack[t]] /\ memory_lock' = t
        /\ UNCHANGED <<status, pending, desc_mutex, target, walked, ran, cancels>>
    BY <1>0, <1>1 DEF PushAlloc, Goto, Lock
  <2>5. h # NoHandler
    BY ConstantsAssumption
  <2>4. QuietHandlers => Distinct(stack[t])
    BY <1>0 DEF Walking
  <2> QED BY <1>0, <2>1, <2>2, <2>3, <2>4, <2>5, HandlingInv
<1>2. CASE PushAllocated(t)
  <2>1. /\ pc[t] = "p_alloc" /\ pc' = [pc EXCEPT ![t] = "p_link"]
        /\ stack' = [stack EXCEPT ![t] = stack[t]] /\ memory_lock' = NoThread
        /\ elem' = [elem EXCEPT ![t] = elem[t]] /\ pushes' \in 0 .. MaxPushes
        /\ UNCHANGED <<status, pending, desc_mutex, target, walked, ran, cancels>>
    BY <1>0, <1>2 DEF PushAllocated, Goto, Release, TypeOK
  <2>2. QuietHandlers =>
          Distinct(stack[t]) /\ (elem[t] # NoHandler => elem[t] \notin Contents(stack[t]))
    BY <1>0 DEF Walking
  <2>3. elem[t] # NoHandler
    BY <2>1 DEF Inv, InHand
  <2> QED BY <1>0, <2>1, <2>2, <2>3, HandlingInv
<1>3. CASE PushLink(t)
  <2>1. /\ pc[t] = "p_link" /\ pc' = [pc EXCEPT ![t] = "run"]
        /\ stack' = [stack EXCEPT ![t] = <<elem[t]>> \o stack[t]]
        /\ memory_lock' \in Threads \cup {NoThread}
        /\ elem' = [elem EXCEPT ![t] = NoHandler] /\ pushes' \in 0 .. MaxPushes
        /\ UNCHANGED <<status, pending, desc_mutex, target, walked, ran, cancels>>
    BY <1>0, <1>3 DEF PushLink, Goto, TypeOK
  <2>2. elem[t] \in Handlers
    BY <1>0, <2>1 DEF Inv, InHand
  <2>3. <<elem[t]>> \o stack[t] \in Seq(Handlers)
    BY <1>0, <2>2, PushedContents
  <2>4. QuietHandlers => Distinct(<<elem[t]>> \o stack[t])
    <3>1. QuietHandlers => Distinct(stack[t]) /\ elem[t] \notin Contents(stack[t])
      BY <1>0, <2>2, ConstantsAssumption DEF Walking
    <3> QED BY <1>0, <2>2, <3>1, DistinctPush
  <2> QED BY <1>0, <2>1, <2>3, <2>4, HandlingInv
<1> QED BY <1>1, <1>2, <1>3

\* A pop: the handler it has unlinked is no longer on the list.
LEMMA PopInv ==
  ASSUME Inv, NEW t \in Threads,
         PopUnlink(t) \/ PopCalled(t) \/ PopFree(t) \/ PopReturn(t)
  PROVE  Inv'
<1>0. /\ TypeOK /\ (QuietHandlers => Walking(t)) /\ stack[t] \in Seq(Handlers)
      /\ stack = [stack EXCEPT ![t] = stack[t]] /\ elem = [elem EXCEPT ![t] = elem[t]]
      /\ elem[t] \in Handlers \cup {NoHandler}
  BY DEF Inv, TypeOK
<1>1. CASE PopUnlink(t)
  <2>1. PICK to \in {"o_call", "o_free"} :
          /\ pc[t] = "run" /\ pc' = [pc EXCEPT ![t] = to] /\ stack[t] # <<>>
          /\ stack' = [stack EXCEPT ![t] = Tail(stack[t])]
          /\ elem' = [elem EXCEPT ![t] = Head(stack[t])]
          /\ memory_lock' \in Threads \cup {NoThread} /\ pushes' \in 0 .. MaxPushes
          /\ UNCHANGED <<status, pending, desc_mutex, target, walked, ran, cancels>>
    BY <1>0, <1>1 DEF PopUnlink, Goto, TypeOK
  <2>2. Tail(stack[t]) \in Seq(Handlers) /\ Head(stack[t]) \in Handlers
    BY <1>0, <2>1, HeadTailProperties
  <2>3. QuietHandlers =>
          Distinct(Tail(stack[t])) /\ Head(stack[t]) \notin Contents(Tail(stack[t]))
    <3>1. QuietHandlers => Distinct(stack[t])
      BY <1>0 DEF Walking
    <3> QED BY <1>0, <2>1, <2>2, <3>1, DistinctPop, PushedContents
  <2> QED BY <1>0, <2>1, <2>2, <2>3, HandlingInv
<1>2. CASE ~ PopUnlink(t)
  <2>1. PICK to \in {"o_free", "o_unlock", "run"}, e \in {elem[t], NoHandler} :
          /\ pc[t] \in {"o_call", "o_free", "o_unlock"} /\ pc' = [pc EXCEPT ![t] = to]
          /\ stack' = [stack EXCEPT ![t] = stack[t]]
          /\ elem' = [elem EXCEPT ![t] = e]
          /\ memory_lock' \in Threads \cup {NoThread} /\ pushes' \in 0 .. MaxPushes
          /\ UNCHANGED <<status, pending, desc_mutex, target, walked, ran, cancels>>
    <3>1. CASE PopCalled(t)
      BY <1>0, <3>1 DEF PopCalled, Goto, TypeOK
    <3>2. CASE PopFree(t)
      BY <1>0, <3>2 DEF PopFree, Goto, Lock, TypeOK
    <3>3. CASE PopReturn(t)
      BY <1>0, <3>3 DEF PopReturn, Goto, Release, TypeOK
    <3> QED BY <1>2, <3>1, <3>2, <3>3
  <2>2. QuietHandlers => Distinct(stack[t]) /\ (e # NoHandler => e \notin Contents(stack[t]))
    BY <1>0, <2>1 DEF Walking
  <2>3. /\ e \in Handlers \cup {NoHandler} /\ to \in UserPlaces /\ pc[t] \in UserPlaces
        /\ to \notin {"p_alloc", "p_link"}
    BY <1>0, <2>1
  <2> QED BY <1>0, <2>1, <2>2, <2>3, HandlingInv
<1> QED BY <1>1, <1>2

-----------------------------------------------------------------------------
\* tbthread_exit is entered, from the user function or after its return.
LEMMA EnterInv ==
  ASSUME Inv, Careful, NEW t \in Threads, ClearHandlers(t) \/ ExitCall(t)
  PROVE  Inv'
<1>0. TypeOK /\ (QuietHandlers => Walking(t))
  BY DEF Inv
<1>1. /\ pc[t] \in {"run", "ret"} /\ pc' = [pc EXCEPT ![t] = "handlers"]
      /\ walked' = [walked EXCEPT ![t] = 0]
      /\ stack' \in {stack, [stack EXCEPT ![t] = <<>>]}
      /\ UNCHANGED <<status, pending, desc_mutex, target, ran, heapVars, cancels>>
  BY DEF ClearHandlers, ExitCall, EnterExit
<1>2. pc'[t] = "handlers" /\ walked'[t] = 0 /\ stack'[t] \in {stack[t], <<>>}
  BY <1>0, <1>1 DEF TypeOK
<1>3. \A u \in Threads \ {t} :
        pc'[u] = pc[u] /\ walked'[u] = walked[u] /\ stack'[u] = stack[u]
  BY <1>0, <1>1 DEF TypeOK
<1>4. TypeOK'
  <2>1. pc' \in [Threads -> PC] /\ walked' \in [Threads -> Nat]
    BY <1>0, <1>1 DEF TypeOK, PC, ExitPlaces
  <2>2. stack' \in [Threads -> Seq(Handlers)]
    <3>1. stack \in [Threads -> Seq(Handlers)] /\ <<>> \in Seq(Handlers)
      BY <1>0, EmptySeq DEF TypeOK
    <3> QED BY <1>1, <3>1
  <2>3. \A u \in Threads :
          desc_mutex' = u <=> pc'[u] \in {"c_mark", "c_kill", "c_unlock", "unlock"}
    BY <1>0, <1>1, <1>2, <1>3 DEF TypeOK
  <2> QED BY <1>0, <1>1, <2>1, <2>2, <2>3 DEF TypeOK
<1>5. Deaf(t)
  <2>1. CASE pc[t] = "ret"
    BY <2>1 DEF Inv, DeafInside
  <2>2. CASE pc[t] = "run"
    BY <2>2 DEF ClearHandlers, ExitCall, Careful, Deaf
  <2> QED BY <1>1, <2>1, <2>2
<1>6. "canceled" \notin status[t]
  BY <1>1 DEF Inv, CanceledAreOver, Over, ExitPlaces
<1>7. QuietHandlers => Walking(t)'
  BY <1>0, <1>1, <1>2, WalkBegins DEF Over, ExitPlaces
<1> QED BY <1>1, <1>2, <1>3, <1>4, <1>5, <1>6, <1>7, StepInv
        DEF Deaf, CancelPlaces, Over, ExitPlaces

\* The next handler is called; it may testcancel.
LEMMA CallHandlerInv ==
  ASSUME Inv, NEW t \in Threads, CallHandler(t)
  PROVE  Inv'
<1>0. TypeOK /\ (QuietHandlers => Walking(t))
  BY DEF Inv
<1> DEFINE h == stack[t][walked[t] + 1]
<1>1. PICK next \in {"handlers", "h_test"} :
        /\ pc[t] = "handlers" /\ pc' = [pc EXCEPT ![t] = next]
        /\ next = "h_test" /\ "enabled" \in status[t] /\ "canceled" \notin status[t]
             => "handler_tests" \in Allowed
        /\ walked[t] < Len(stack[t]) /\ walked' = [walked EXCEPT ![t] = walked[t] + 1]
        /\ ran' = [ran EXCEPT ![t] = Append(ran[t], h)]
        /\ UNCHANGED <<status, pending, desc_mutex, target, stack, heapVars, cancels>>
  BY DEF CallHandler, Goto
<1>2. /\ Len(stack[t]) \in Nat /\ Len(ran[t]) \in Nat /\ walked[t] \in Nat
      /\ DOMAIN stack[t] = 1 .. Len(stack[t]) /\ DOMAIN ran[t] = 1 .. Len(ran[t])
      /\ stack[t] \in Seq(Handlers) /\ ran[t] \in Seq(Handlers)
  BY <1>0, Typed
<1>3. h \in Handlers /\ walked[t] + 1 \in 1 .. Len(stack[t])
  BY <1>1, <1>2, ElementOfSeq
<1>4. /\ pc'[t] = next /\ walked'[t] = walked[t] + 1 /\ ran'[t] = Append(ran[t], h)
      /\ \A u \in Threads \ {t} :
           pc'[u] = pc[u] /\ walked'[u] = walked[u] /\ ran'[u] = ran[u]
  BY <1>0, <1>1 DEF TypeOK
<1>5. /\ Append(ran[t], h) \in Seq(Handlers) /\ Len(Append(ran[t], h)) = Len(ran[t]) + 1
      /\ DOMAIN Append(ran[t], h) = 1 .. Len(ran[t]) + 1
      /\ \A i \in 1 .. Len(ran[t]) : Append(ran[t], h)[i] = ran[t][i]
      /\ Append(ran[t], h)[Len(ran[t]) + 1] = h
  <2> HIDE DEF h
  <2> QED BY <1>2, <1>3, AppendProperties, LenProperties
<1>6. TypeOK'
  <2>1. pc' \in [Threads -> PC] /\ walked' \in [Threads -> Nat]
    BY <1>0, <1>1, <1>2 DEF TypeOK, PC, ExitPlaces
  <2>2. ran' \in [Threads -> Seq(Handlers)]
    BY <1>0, <1>1, <1>5 DEF TypeOK
  <2>3. \A u \in Threads :
          desc_mutex' = u <=> pc'[u] \in {"c_mark", "c_kill", "c_unlock", "unlock"}
    BY <1>0, <1>1, <1>4 DEF TypeOK
  <2> QED BY <1>0, <1>1, <2>1, <2>2, <2>3 DEF TypeOK
<1>7. ASSUME QuietHandlers PROVE Walking(t)'
  <2>1. /\ Distinct(stack[t]) /\ Len(ran[t]) = walked[t] /\ walked[t] <= Len(stack[t])
        /\ \A i \in 1 .. walked[t] : ran[t][i] = stack[t][i]
    BY <1>0, <1>1, <1>7 DEF Walking
  <2>2. \A i \in 1 .. walked[t] + 1 : ran'[t][i] = stack[t][i]
    BY <1>2, <1>4, <1>5, <2>1
  <2>3. DOMAIN ran'[t] = 1 .. walked[t] + 1 /\ Len(ran'[t]) = walked[t] + 1
    BY <1>4, <1>5, <2>1
  <2>4. 1 .. walked[t] + 1 \subseteq DOMAIN stack[t]
    BY <1>2, <1>3
  <2>5. Distinct(ran'[t])
    BY <2>1, <2>2, <2>3, <2>4 DEF Distinct
  <2>6. next = "h_test" => "enabled" \notin status[t] \/ "canceled" \in status[t]
    BY <1>1, <1>7 DEF QuietHandlers
  <2>7. walked'[t] <= Len(stack[t])
    BY <1>1, <1>2, <1>4
  <2>8. pc'[t] \in Over
    BY <1>4 DEF Over, ExitPlaces
  <2>9. elem[t] # NoHandler => elem[t] \notin Contents(stack[t]) \cup Contents(ran'[t])
    <3>1. h \in Contents(stack[t])
      BY <1>2, <1>3 DEF Contents
    <3>2. Contents(ran'[t]) \subseteq Contents(ran[t]) \cup {h}
      BY <1>2, <1>4, <1>5 DEF Contents
    <3> QED BY <1>0, <1>7, <3>1, <3>2 DEF Walking
  <2> QED BY <1>1, <1>4, <2>1, <2>2, <2>3, <2>5, <2>6, <2>7, <2>8, <2>9 DEF Walking
<1>8. Deaf(t) /\ ("canceled" \in status[t] => "canceling" \in status[t])
  BY <1>1 DEF Inv, DeafInside, CanceledAreOver, Over, ExitPlaces
<1>9. pc'[t] \in Over
  BY <1>4 DEF Over, ExitPlaces
<1> QED BY <1>1, <1>4, <1>6, <1>7, <1>8, <1>9, StepInv DEF Deaf, CancelPlaces

\* The handlers are released.
LEMMA DropHandlersInv ==
  ASSUME Inv, NEW t \in Threads, DropHandlers(t)
  PROVE  Inv'
<1>0. TypeOK /\ (QuietHandlers => Walking(t))
  BY DEF Inv
<1>1. /\ pc[t] = "handlers" /\ pc' = [pc EXCEPT ![t] = "lock"]
      /\ stack' = [stack EXCEPT ![t] = <<>>] /\ walked' = [walked EXCEPT ![t] = 0]
      /\ UNCHANGED <<status, pending, desc_mutex, target, ran, heapVars, cancels>>
  BY DEF DropHandlers, Goto
<1>2. /\ pc'[t] = "lock" /\ stack'[t] = <<>> /\ walked'[t] = 0
      /\ \A u \in Threads \ {t} :
           pc'[u] = pc[u] /\ stack'[u] = stack[u] /\ walked'[u] = walked[u]
  BY <1>0, <1>1 DEF TypeOK
<1>3. TypeOK'
  <2>1. pc' \in [Threads -> PC] /\ walked' \in [Threads -> Nat]
    BY <1>0, <1>1 DEF TypeOK, PC, ExitPlaces
  <2>2. stack' \in [Threads -> Seq(Handlers)]
    BY <1>0, <1>1 DEF TypeOK
  <2>3. \A u \in Threads :
          desc_mutex' = u <=> pc'[u] \in {"c_mark", "c_kill", "c_unlock", "unlock"}
    BY <1>0, <1>1, <1>2 DEF TypeOK
  <2> QED BY <1>0, <1>1, <2>1, <2>2, <2>3 DEF TypeOK
<1>4. Deaf(t) /\ ("canceled" \in status[t] => "canceling" \in status[t])
  BY <1>1 DEF Inv, DeafInside, CanceledAreOver, Over, ExitPlaces
<1>5. QuietHandlers => Walking(t)'
  <2>1. Distinct(<<>>) /\ Contents(<<>>) = {}
    BY DEF Distinct, Contents
  <2> QED BY <1>0, <1>1, <1>2, <2>1 DEF Walking, Over, ExitPlaces
<1> QED BY <1>1, <1>2, <1>3, <1>4, <1>5, StepInv DEF Deaf, CancelPlaces, Over, ExitPlaces

-----------------------------------------------------------------------------
\* Every step keeps the invariant.
LEMMA NextInv == ASSUME Inv, Careful, [Next]_vars PROVE Inv'
<1>1. CASE UNCHANGED vars
  BY <1>1 DEF Inv, vars, TypeOK, CanceledAreOver, DeafInside, Deaf, TargetsKnown,
     NobodyKills, NonePending, NoLostCancel, Signalled, QuietHandlers, SignalsInTime,
     Walking, InHand
<1>2. CASE Next
  <2>1. PICK t \in Threads :
          \/ Step(t) \/ Deliver(t)
          \/ SetState(t) \/ SetType(t) \/ TestCall(t) \/ CancelCall(t)
          \/ PushAlloc(t) \/ PopUnlink(t) \/ ReturnFn(t) \/ ExitCall(t)
    BY <1>2 DEF Next
  <2>2. CASE Step(t)
    BY <2>2, TestInv, LockInv, MarkInv, KillInv, CancelUnlockInv, EnterInv,
       PushInv, PopInv, CallHandlerInv, DropHandlersInv, LeaveInv DEF Step
  <2>3. CASE ~ Step(t)
    BY <2>1, <2>3, DeliverInv, SettersInv, CancelCallInv, PushInv, PopInv, EnterInv
  <2> QED BY <2>2, <2>3
<1> QED BY <1>1, <1>2

\* The inductive invariant holds, for programs that do not call tbthread_cancel or
\* tbthread_exit with asynchronous cancelation enabled.
THEOREM Invariance == ASSUME Careful PROVE Spec => []Inv
<1> QED BY InitInv, NextInv, PTL DEF Spec

\* Every variable has its type, and desc_mutex is held by the thread, if any, that is
\* in a critical section of tbthread_cancel or tbthread_exit.
THEOREM TypeCorrect == ASSUME Careful PROVE Spec => []TypeOK
<1>1. Inv => TypeOK
  BY DEF Inv
<1> QED BY <1>1, Invariance, PTL

\* tbthread_cancel, setcancelstate and setcanceltype lose no cancelation: a thread in
\* user code that is to be canceled at any moment has its signal, or gets it.
THEOREM CancelKept == ASSUME Careful PROVE Spec => []NoLostCancel
<1>1. Inv => NoLostCancel
  BY DEF Inv
<1> QED BY <1>1, Invariance, PTL

\* If signals come before the munmap of tbthread_exit, none finds the stack gone: who
\* would send a later one sees, under desc_mutex, that it need not.
THEOREM StackThere == ASSUME Careful, SignalsInTime PROVE Spec => []NoSignalOnGoneStack
<1>1. Inv => NoSignalOnGoneStack
  BY DEF Inv, NoSignalOnGoneStack, Signalled, NobodyKills, NonePending
<1> QED BY <1>1, Invariance, PTL

\* If no cleanup handler acts on a cancelation, every handler runs once, in the order
\* of the stack.
THEOREM HandlersOnce == ASSUME Careful, QuietHandlers PROVE Spec => []CleanupOnce
<1>1. Inv => CleanupOnce
  <2>1. SUFFICES ASSUME Inv, NEW t \in Threads
        PROVE  /\ Distinct(ran[t])
               /\ pc[t] \in {"handlers", "h_test"} =>
                    ran[t] = SubSeq(stack[t], 1, walked[t])
               /\ elem[t] \notin Contents(ran[t])
    BY DEF CleanupOnce, Distinct
  <2>2. Walking(t) /\ TypeOK
    BY <2>1 DEF Inv
  <2>3. ASSUME pc[t] \in {"handlers", "h_test"}
        PROVE  ran[t] = SubSeq(stack[t], 1, walked[t])
    <3> DEFINE s == SubSeq(stack[t], 1, walked[t])
    <3>1. /\ stack[t] \in Seq(Handlers) /\ ran[t] \in Seq(Handlers)
          /\ Len(stack[t]) \in Nat /\ walked[t] \in Nat
      BY <2>2, Typed
    <3>2. /\ Len(ran[t]) = walked[t] /\ walked[t] <= Len(stack[t])
          /\ \A i \in 1 .. walked[t] : ran[t][i] = stack[t][i]
      BY <2>2, <2>3 DEF Walking
    <3>3. /\ s \in Seq(Handlers) /\ Len(s) = walked[t]
          /\ \A i \in 1 .. walked[t] : s[i] = stack[t][i]
      BY <3>1, <3>2, SubSeqProperties
    <3> HIDE DEF s
    <3>4. ran[t] = s
      BY <3>1, <3>2, <3>3, SeqEqual
    <3> QED BY <3>4 DEF s
  <2>4. NoHandler \notin Contents(ran[t])
    <3>1. ran[t] \in Seq(Handlers)
      BY <2>2, Typed
    <3> QED BY <3>1, ConstantsAssumption, ElementOfSeq, LenProperties DEF Contents
  <2> QED BY <2>2, <2>3, <2>4 DEF Walking
<1> QED BY <1>1, Invariance, PTL

-----------------------------------------------------------------------------
(* Once: the word, the executor and its handler                            *)

\* VictimsAssumption of the module.
VictimsKnown == Guarded \subseteq Victims /\ Victims \subseteq Threads

Handled == {"on_x", "test_x", "func", "off_x", "pop"}
Exiting == {"ending", "e_wake", "e_drop"}

\* once_cleanup is on the stack of the executors between push and pop.
HandlerThere == \A t \in Threads :
  /\ place[t] \in Handled => handlers[t] = <<"once_cleanup">>
  /\ place[t] \notin Handled \cup Exiting => handlers[t] = <<>>

\* OneExecutor without counting.
ExecutorTold ==
  /\ once = "in_progress" <=> \E t \in Threads : Once!Executes(t)
  /\ \A s, t \in Threads : Once!Executes(s) /\ Once!Executes(t) => s = t

\* What holds even after a once_cleanup was called again, and what does until then.
OnceShape == Once!TypeOK /\ HandlerThere
OnceInv == OnceShape /\ (again = {} => ExecutorTold)

\* A list of one handler, before and after.
LEMMA OnceOneHandler ==
  /\ Tail(<<"once_cleanup">>) = <<>>
  /\ <<"once_cleanup">> \o <<>> = <<"once_cleanup">>
  /\ <<"once_cleanup">> # <<>>
OBVIOUS

\* At first nobody executes.
LEMMA OnceInit == ASSUME VictimsKnown PROVE Once!Init => OnceInv
<1> SUFFICES ASSUME Once!Init PROVE OnceInv
  OBVIOUS
<1> USE DEF Once!Init
<1>1. Once!TypeOK
  BY DEF VictimsKnown, Once!TypeOK, Once!PC, Once!Disabled, Once!Restoring
<1>2. HandlerThere /\ ExecutorTold
  BY DEF HandlerThere, ExecutorTold, Once!Executes, Handled, Exiting
<1> QED BY <1>1, <1>2 DEF OnceInv, OnceShape

\* Nothing happens to the word or to the executor.
OnceQuiet ==
  /\ OnceShape'
  /\ UNCHANGED <<once, again>>
  /\ \A t \in Threads : Once!Executes(t)' <=> Once!Executes(t)

\* Such a step keeps the invariant.
LEMMA OnceQuietStep == ASSUME OnceInv, OnceQuiet PROVE OnceInv'
BY DEF OnceInv, OnceQuiet, ExecutorTold

\* All steps but those that store to the word and the acting upon a cancelation are of
\* this kind.
LEMMA OnceQuietActions ==
  ASSUME OnceShape, NEW t \in Threads,
         \/ Once!OnceCall(t) \/ Once!CheckDone(t) \/ Once!FutexWait(t) \/ Once!FutexInterrupted(t)
         \/ Once!Reread(t) \/ Once!FuncReturn(t) \/ Once!TestState(t)
         \/ Once!DisableState(t) \/ Once!PushCleanup(t) \/ Once!RestoreState(t)
         \/ Once!PopCleanup(t) \/ Once!WakeWaiters(t) \/ Once!Cancel(t) \/ Once!ExitCall(t)
         \/ Once!End(t) \/ (Once!Cas(t) /\ once # "new")
  PROVE  OnceQuiet
<1> USE DEF Once!Goto, Once!PC, Once!Disabled, Once!Restoring, Once!Testing,
            Once!cancelVars, Exiting
<1>0. Once!TypeOK /\ HandlerThere
  BY DEF OnceShape
\* The steps that only change pc, between places where nothing else counts.
<1>1. CASE \/ Once!OnceCall(t) \/ Once!CheckDone(t) \/ Once!FutexWait(t) \/ Once!FutexInterrupted(t)
           \/ Once!Reread(t) \/ Once!FuncReturn(t) \/ Once!TestState(t)
  <2>1. Once!TypeOK' /\ UNCHANGED <<once, again>>
    BY <1>0, <1>1 DEF Once!TypeOK, Once!OnceCall, Once!CheckDone, Once!FutexWait,
       Once!FutexInterrupted, Once!Reread, Once!FuncReturn, Once!TestState
  <2>2. HandlerThere'
    BY <1>0, <1>1 DEF Once!TypeOK, HandlerThere, Handled, Once!OnceCall,
       Once!CheckDone, Once!FutexWait,
       Once!FutexInterrupted, Once!Reread, Once!FuncReturn, Once!TestState
  <2>3. \A s \in Threads : Once!Executes(s)' <=> Once!Executes(s)
    BY <1>0, <1>1 DEF Once!TypeOK, Once!Executes, Once!OnceCall, Once!CheckDone,
       Once!FutexWait, Once!FutexInterrupted, Once!Reread, Once!FuncReturn, Once!TestState
  <2> QED BY <2>1, <2>2, <2>3 DEF OnceQuiet, OnceShape
<1>2. CASE Once!DisableState(t)
  <2>1. Once!TypeOK' /\ UNCHANGED <<once, again>>
    BY <1>0, <1>2 DEF Once!TypeOK, Once!DisableState, Once!Disable
  <2>2. HandlerThere' /\ \A s \in Threads : Once!Executes(s)' <=> Once!Executes(s)
    BY <1>0, <1>2 DEF Once!TypeOK, HandlerThere, Handled, Once!DisableState, Once!Executes
  <2> QED BY <2>1, <2>2 DEF OnceQuiet, OnceShape
<1>3. CASE Once!PushCleanup(t)
  <2>1. /\ place[t] = "push" /\ place' = [place EXCEPT ![t] = "on_x"]
        /\ handlers' = [handlers EXCEPT ![t] = <<"once_cleanup">>]
        /\ UNCHANGED <<once, enabled, saved, async, canceling, canceled, again>>
    BY <1>0, <1>3, OnceOneHandler DEF Once!PushCleanup, HandlerThere, Handled
  <2>2. Once!TypeOK'
    BY <1>0, <2>1 DEF Once!TypeOK
  <2>3. HandlerThere' /\ \A s \in Threads : Once!Executes(s)' <=> Once!Executes(s)
    BY <1>0, <2>1 DEF Once!TypeOK, HandlerThere, Handled, Once!Executes
  <2> QED BY <2>1, <2>2, <2>3 DEF OnceQuiet, OnceShape
<1>4. CASE Once!RestoreState(t)
  <2>1. Once!TypeOK' /\ UNCHANGED <<once, again>>
    BY <1>0, <1>4 DEF Once!TypeOK, Once!RestoreState
  <2>2. HandlerThere' /\ \A s \in Threads : Once!Executes(s)' <=> Once!Executes(s)
    BY <1>0, <1>4 DEF Once!TypeOK, HandlerThere, Handled, Once!RestoreState, Once!Executes
  <2> QED BY <2>1, <2>2 DEF OnceQuiet, OnceShape
<1>5. CASE Once!PopCleanup(t)
  <2>1. /\ place[t] = "pop" /\ place' = [place EXCEPT ![t] = "publish"]
        /\ handlers' = [handlers EXCEPT ![t] = <<>>]
        /\ UNCHANGED <<once, enabled, saved, async, canceling, canceled, again>>
    BY <1>0, <1>5, OnceOneHandler DEF Once!PopCleanup, Once!Popped, HandlerThere, Handled
  <2>2. Once!TypeOK'
    BY <1>0, <2>1 DEF Once!TypeOK
  <2>3. HandlerThere' /\ \A s \in Threads : Once!Executes(s)' <=> Once!Executes(s)
    BY <1>0, <2>1 DEF Once!TypeOK, HandlerThere, Handled, Once!Executes
  <2> QED BY <2>1, <2>2, <2>3 DEF OnceQuiet, OnceShape
<1>6. CASE Once!WakeWaiters(t)
  <2>1. Once!TypeOK' /\ UNCHANGED <<once, again>>
    BY <1>0, <1>6 DEF Once!TypeOK, Once!WakeWaiters, Once!Woken, Once!Sleepers
  <2>2. HandlerThere' /\ \A s \in Threads : Once!Executes(s)' <=> Once!Executes(s)
    BY <1>0, <1>6 DEF Once!TypeOK, HandlerThere, Handled, Once!WakeWaiters, Once!Woken,
       Once!Sleepers, Once!Executes
  <2> QED BY <2>1, <2>2 DEF OnceQuiet, OnceShape
<1>7. CASE Once!Cancel(t)
  <2>1. Once!TypeOK' /\ UNCHANGED <<once, again>>
    BY <1>0, <1>7 DEF Once!TypeOK, Once!Cancel
  <2>2. HandlerThere' /\ \A s \in Threads : Once!Executes(s)' <=> Once!Executes(s)
    BY <1>0, <1>7 DEF HandlerThere, Once!Cancel, Once!Executes
  <2> QED BY <2>1, <2>2 DEF OnceQuiet, OnceShape
<1>8. CASE Once!ExitCall(t)
  <2>1. Once!TypeOK' /\ UNCHANGED <<once, again>>
    BY <1>0, <1>8 DEF Once!TypeOK, Once!ExitCall
  <2>2. HandlerThere' /\ \A s \in Threads : Once!Executes(s)' <=> Once!Executes(s)
    BY <1>0, <1>8, OnceOneHandler DEF Once!TypeOK, HandlerThere, Handled,
       Once!ExitCall, Once!Executes
  <2> QED BY <2>1, <2>2 DEF OnceQuiet, OnceShape
<1>9. CASE Once!End(t)
  <2>1. /\ place' = [place EXCEPT ![t] = "dead"] /\ handlers' = [handlers EXCEPT ![t] = <<>>]
        /\ place[t] = "e_drop" \/ (place[t] = "ending" /\ handlers[t] = <<>>)
        /\ UNCHANGED <<once, enabled, saved, async, canceling, canceled, again>>
    BY <1>0, <1>9 DEF Once!TypeOK, Once!End
  <2>2. Once!TypeOK'
    BY <1>0, <2>1 DEF Once!TypeOK
  <2>3. HandlerThere' /\ \A s \in Threads : Once!Executes(s)' <=> Once!Executes(s)
    BY <1>0, <2>1 DEF Once!TypeOK, HandlerThere, Handled, Once!Executes
  <2> QED BY <2>1, <2>2, <2>3 DEF OnceQuiet, OnceShape
<1>10. CASE Once!Cas(t) /\ once # "new"
  <2>1. Once!TypeOK' /\ UNCHANGED <<once, again>>
    BY <1>0, <1>10 DEF Once!TypeOK, Once!Cas
  <2>2. HandlerThere' /\ \A s \in Threads : Once!Executes(s)' <=> Once!Executes(s)
    BY <1>0, <1>10 DEF Once!TypeOK, HandlerThere, Handled, Once!Cas, Once!Executes
  <2> QED BY <2>1, <2>2 DEF OnceQuiet, OnceShape
<1> QED BY <1>1, <1>2, <1>3, <1>4, <1>5, <1>6, <1>7, <1>8, <1>9, <1>10

\* A canceled thread that still has the handler is still to call it; where it was calling
\* it already, it will again.
LEMMA OnceActs ==
  ASSUME OnceShape, NEW t \in Threads, Once!ActOnCancel(t)
  PROVE  OnceQuiet \/ (OnceShape' /\ again' # {})
<1> USE DEF Once!Goto, Once!PC, Once!Disabled, Once!Restoring, Once!Testing, Exiting
<1>0. Once!TypeOK /\ HandlerThere
  BY DEF OnceShape
<1>1. /\ enabled[t] /\ place[t] # "dead" /\ place' = [place EXCEPT ![t] = "ending"]
      /\ canceled' = canceled \cup {t}
      /\ again' = IF place[t] \in {"e_wake", "e_drop"} THEN again \cup {t} ELSE again
      /\ UNCHANGED <<once, enabled, saved, async, canceling, handlers>>
  BY <1>0 DEF Once!TypeOK, Once!ActOnCancel, Once!MustEnd
<1>2. Once!TypeOK' /\ HandlerThere'
  BY <1>0, <1>1 DEF Once!TypeOK, HandlerThere, Handled
<1>3. CASE place[t] \in {"e_wake", "e_drop"}
  BY <1>1, <1>2, <1>3 DEF OnceShape
<1>4. CASE place[t] \notin {"e_wake", "e_drop"}
  <2>1. place[t] \notin {"push", "publish"}
    BY <1>0, <1>1 DEF Once!TypeOK
  <2>2. \A s \in Threads : Once!Executes(s)' <=> Once!Executes(s)
    BY <1>0, <1>1, <1>4, <2>1, OnceOneHandler DEF Once!TypeOK, HandlerThere, Handled, Once!Executes
  <2> QED BY <1>1, <1>2, <1>4, <2>2 DEF OnceQuiet, OnceShape
<1> QED BY <1>3, <1>4

\* The three steps that change the word, and with it the executor.
LEMMA OnceStores ==
  ASSUME OnceInv, NEW t \in Threads
  PROVE  /\ Once!Cas(t) /\ once = "new" =>
              /\ OnceInv' /\ again' = again
              /\ again = {} => once' = "in_progress" /\ Once!Executes(t)'
         /\ Once!PublishDone(t) =>
              /\ OnceInv' /\ again' = again
              /\ again = {} => once = "in_progress" /\ once' = "done" /\ Once!Executes(t)
         /\ Once!CallCleanup(t) =>
              /\ OnceInv' /\ again' = again
              /\ again = {} => once = "in_progress" /\ once' = "new" /\ Once!Executes(t)
<1> USE DEF Once!Goto, Once!PC, Once!Disabled, Once!Restoring, Once!Testing,
            Once!cancelVars, Exiting
<1>0. Once!TypeOK /\ HandlerThere /\ (again = {} => ExecutorTold)
  BY DEF OnceInv, OnceShape
<1>1. ASSUME Once!Cas(t), once = "new"
      PROVE  /\ OnceInv' /\ again' = again
             /\ again = {} => once' = "in_progress" /\ Once!Executes(t)'
  <2>1. Once!TypeOK' /\ HandlerThere' /\ once' = "in_progress" /\ again' = again
    BY <1>0, <1>1 DEF Once!TypeOK, HandlerThere, Handled, Once!Cas
  <2>2. ASSUME again = {} PROVE ExecutorTold' /\ Once!Executes(t)'
    <3>1. \A s \in Threads : ~Once!Executes(s)
      BY <1>0, <1>1, <2>2 DEF ExecutorTold
    <3>2. \A s \in Threads : Once!Executes(s)' <=> s = t
      BY <1>0, <1>1, <3>1 DEF Once!TypeOK, Once!Executes, Once!Cas
    <3> QED BY <2>1, <3>2 DEF ExecutorTold
  <2> QED BY <2>1, <2>2 DEF OnceInv, OnceShape
<1>2. ASSUME Once!PublishDone(t)
      PROVE  /\ OnceInv' /\ again' = again
             /\ again = {} => once = "in_progress" /\ once' = "done" /\ Once!Executes(t)
  <2>1. Once!TypeOK' /\ HandlerThere' /\ once' = "done" /\ again' = again
    BY <1>0, <1>2 DEF Once!TypeOK, HandlerThere, Handled, Once!PublishDone
  <2>2. Once!Executes(t)
    BY <1>2 DEF Once!Executes, Once!PublishDone
  <2>3. ASSUME again = {} PROVE ExecutorTold' /\ once = "in_progress"
    <3>1. \A s \in Threads : ~Once!Executes(s)'
      BY <1>0, <1>2, <2>2, <2>3 DEF Once!TypeOK, ExecutorTold, Once!Executes, Once!PublishDone
    <3> QED BY <1>0, <2>1, <2>2, <2>3, <3>1 DEF ExecutorTold
  <2> QED BY <2>1, <2>2, <2>3 DEF OnceInv, OnceShape
<1>3. ASSUME Once!CallCleanup(t)
      PROVE  /\ OnceInv' /\ again' = again
             /\ again = {} => once = "in_progress" /\ once' = "new" /\ Once!Executes(t)
  <2>1. /\ place[t] = "ending" /\ handlers[t] # <<>> /\ place' = [place EXCEPT ![t] = "e_wake"]
        /\ once' = "new"
        /\ UNCHANGED <<enabled, saved, async, canceling, canceled, again, handlers>>
    BY <1>0, <1>3 DEF Once!CallCleanup, Once!AfterCleanup, Once!TypeOK
  <2>2. Once!TypeOK' /\ HandlerThere'
    BY <1>0, <2>1 DEF Once!TypeOK, HandlerThere, Handled
  <2>3. Once!Executes(t)
    BY <2>1 DEF Once!Executes
  <2>4. ASSUME again = {} PROVE ExecutorTold' /\ once = "in_progress"
    <3>1. \A s \in Threads : ~Once!Executes(s)'
      BY <1>0, <2>1, <2>3, <2>4 DEF Once!TypeOK, ExecutorTold, Once!Executes
    <3> QED BY <1>0, <2>1, <2>3, <2>4, <3>1 DEF ExecutorTold
  <2> QED BY <2>1, <2>2, <2>3, <2>4 DEF OnceInv, OnceShape
<1> QED BY <1>1, <1>2, <1>3

\* A step is one of these, is quiet, interrupts a once_cleanup, or changes nothing.
LEMMA OnceSteps ==
  ASSUME OnceInv, [Once!Next]_(Once!vars)
  PROVE  \/ OnceQuiet
         \/ OnceShape' /\ again' # {}
         \/ \E t \in Threads :
              Once!PublishDone(t) \/ Once!CallCleanup(t) \/ (Once!Cas(t) /\ once = "new")
<1>0. OnceShape
  BY DEF OnceInv
<1>1. CASE UNCHANGED Once!vars
  BY <1>0, <1>1 DEF Once!vars, OnceShape, OnceQuiet, Once!TypeOK, HandlerThere, Once!Executes
<1>2. CASE Once!Next
  BY <1>0, <1>2, OnceQuietActions, OnceActs DEF Once!Next, Once!Step
<1> QED BY <1>1, <1>2

\* Every step of every thread, and a stuttering step, preserves the invariant.
LEMMA OnceNext == OnceInv /\ [Once!Next]_(Once!vars) => OnceInv'
BY OnceSteps, OnceQuietStep, OnceStores DEF OnceInv

\* The invariant holds in every reachable state.
THEOREM OnceInvariance == ASSUME VictimsKnown PROVE Once!Spec => []OnceInv
BY OnceInit, OnceNext, PTL DEF Once!Spec

\* Every variable has its type, and cancelation is disabled wherever tbthread_once
\* relies on it.
THEOREM OnceTypeCorrect == ASSUME VictimsKnown PROVE Once!Spec => []Once!TypeOK
<1>1. OnceInv => Once!TypeOK
  BY DEF OnceInv, OnceShape
<1> QED BY <1>1, OnceInvariance, PTL

\* The instance counts as the library does.
LEMMA SameCount == \A S : Once!Cardinality(S) = Cardinality(S)
BY DEF Once!Cardinality, Cardinality

\* The word says in progress exactly while one thread is going to change it, whoever
\* is canceled wherever, until a once_cleanup is called again.
THEOREM ExecutorAlone == ASSUME VictimsKnown PROVE Once!Spec => []Once!OneExecutor
<1>1. OnceInv => Once!OneExecutor
  <2> SUFFICES ASSUME OnceInv, again = {} PROVE Once!OneExecutor
    BY DEF Once!OneExecutor
  <2> DEFINE executors == {t \in Threads : Once!Executes(t)}
  <2>1. CASE once = "in_progress"
    <3>1. PICK t \in Threads : executors = {t}
      BY <2>1 DEF OnceInv, ExecutorTold
    <3> QED BY <2>1, <3>1, FS_Singleton, SameCount DEF Once!OneExecutor
  <2>2. CASE once # "in_progress"
    <3>1. executors = {}
      BY <2>2 DEF OnceInv, ExecutorTold
    <3> QED BY <2>2, <3>1, FS_EmptySet, SameCount DEF Once!OneExecutor
  <2> QED BY <2>1, <2>2
<1> QED BY <1>1, OnceInvariance, PTL

-----------------------------------------------------------------------------
(* AbstractOnce.  The thread in charge is the one that Executes.           *)

\* With an executor the function is in progress and it alone is in charge; without
\* one nobody is.
LEMMA OnceInCharge ==
  ASSUME ExecutorTold
  PROVE  /\ \A t \in Threads : Once!Executes(t) =>
              {u \in Threads : Once!Executes(u)} = {t}
         /\ once # "in_progress" => {u \in Threads : Once!Executes(u)} = {}
BY DEF ExecutorTold

\* The successful compare-and-swap is Take, the store is Complete, once_cleanup is
\* GiveUp; all the rest is hidden, until a once_cleanup is called again.
LEMMA OnceStepRefines ==
  OnceInv /\ [Once!Next]_(Once!vars) =>
    [Once!Abs!Next \/ again' # {}]_(Once!Abs!vars)
<1> SUFFICES ASSUME OnceInv, [Once!Next]_(Once!vars), again' = {}
             PROVE  [Once!Abs!Next]_(Once!Abs!vars)
  OBVIOUS
<1> DEFINE charge == {t \in Threads : Once!Executes(t)}
<1>0. again = {}
  BY OnceSteps, OnceStores DEF OnceQuiet
<1>1. ExecutorTold /\ ExecutorTold'
  BY <1>0, OnceNext DEF OnceInv
<1>2. \A t \in Threads : Once!Executes(t) => charge = {t}
  BY <1>1, OnceInCharge
<1>3. once # "in_progress" => charge = {}
  BY <1>1, OnceInCharge
<1>4. \A t \in Threads : Once!Executes(t)' => charge' = {t}
  BY <1>1 DEF ExecutorTold
<1>5. once' # "in_progress" => charge' = {}
  BY <1>1 DEF ExecutorTold
<1>6. ASSUME NEW t \in Threads, Once!Cas(t), once = "new" PROVE Once!Abs!Take(t)
  <2>1. once' = "in_progress" /\ Once!Executes(t)'
    BY <1>0, <1>6, OnceStores
  <2> QED BY <1>3, <1>4, <1>6, <2>1 DEF Once!Abs!Take
<1>7. ASSUME NEW t \in Threads, Once!PublishDone(t) PROVE Once!Abs!Complete(t)
  <2>1. once = "in_progress" /\ once' = "done" /\ Once!Executes(t)
    BY <1>0, <1>7, OnceStores
  <2> QED BY <1>2, <1>5, <2>1 DEF Once!Abs!Complete
<1>8. ASSUME NEW t \in Threads, Once!CallCleanup(t) PROVE Once!Abs!GiveUp(t)
  <2>1. once = "in_progress" /\ once' = "new" /\ Once!Executes(t)
    BY <1>0, <1>8, OnceStores
  <2> QED BY <1>2, <1>5, <2>1 DEF Once!Abs!GiveUp
<1>9. CASE OnceQuiet
  <2>1. UNCHANGED once /\ charge' = charge
    BY <1>9 DEF OnceQuiet
  <2> QED BY <2>1 DEF Once!Abs!vars
<1> QED BY <1>6, <1>7, <1>8, <1>9, OnceSteps DEF Once!Abs!Next

\* Whoever is canceled when, the function is in the charge of one thread at a time, and
\* a function that has been completed is never run again; unless a once_cleanup is
\* called again.
THEOREM OnceRefinement == ASSUME VictimsKnown PROVE Once!Spec => Once!ImplementsAbstractOnce
<1>1. Once!Init => Once!Abs!Init
  BY DEF Once!Init, Once!Abs!Init, Once!Executes
<1> QED BY <1>1, OnceStepRefines, OnceInvariance, PTL DEF Once!Spec, Once!ImplementsAbstractOnce
=============================================================================
