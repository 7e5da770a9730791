-------------------------- MODULE ConcurrencyProofs --------------------------
(***************************************************************************)
(* Proofs about the two components that concurrent execution is about.     *)
(* They share no variables.                                                *)
(*                                                                         *)
(* SpinLock, for any number of CPUs: the order of the store buffer alone   *)
(* makes the plain store of lock_release safe, and lock.c implements the   *)
(* atomic lock of Mutex.                                                   *)
(*                                                                         *)
(* Scheduler, for any set of processes, when the timer does not expire     *)
(* again before the handler has returned.                                  *)
(***************************************************************************)
EXTENDS SpinLock, Scheduler, SequenceTheorems, TLAPS

\* a is in its critical section, or the stores of its last one are still in
\* its buffer.
Busy(a) == InCritical(a) \/ buf[a] # <<>>

NewData == DataStore(version)

\* What a buffer can contain, by where its CPU is: the store of the newest
\* version, then the releasing store, and nothing after it (a locked instruction
\* drains the buffer before the next critical section).
Shape(a) == /\ ~InCritical(a) => buf[a] \in {<<>>, <<Unlock>>, <<NewData, Unlock>>}
            /\ pc[a] \in {"critical", "loaded"} => buf[a] = <<>>
            /\ pc[a] = "stored" => buf[a] \in {<<>>, <<NewData>>}
            /\ pc[a] = "loaded" => copy[a] = version

OneBusy  == \A a, b \in Actors : Busy(a) /\ Busy(b) => a = b
LockSet  == lock_state = 1 <=> \E a \in Actors : Busy(a)
Pending(a) == buf[a] \in {<<NewData>>, <<NewData, Unlock>>}
Fresh    == (\A a \in Actors : ~Pending(a)) => data = version

\* The inductive invariant.
IInv == /\ TypeOK
        /\ \A a \in Actors : Shape(a)
        /\ OneBusy
        /\ LockSet
        /\ Fresh
-----------------------------------------------------------------------------
\* Versions stay versions, stores of data are not releases.
LEMMA DataFacts == /\ 0 \in Data
                   /\ \A v \in Data : Bump(v) \in Data
                   /\ \A v \in Data : DataStore(v) \in Stores /\ DataStore(v) # Unlock
                                        /\ DataStore(v).to # "lock" /\ DataStore(v).val = v
                   /\ Unlock \in Stores /\ Unlock.to = "lock" /\ Unlock.val = 0
BY SpinLockAssumption, SMT DEF Data, Bump, DataStore, Unlock, Stores

\* The few buffers that occur, under Append, Head and Tail.
LEMMA BufferFacts ==
    ASSUME NEW x \in Stores, NEW y \in Stores
    PROVE  /\ Append(<<>>, x) = <<x>> /\ Append(<<x>>, y) = <<x, y>>
           /\ Head(<<x>>) = x /\ Tail(<<x>>) = <<>>
           /\ Head(<<x, y>>) = x /\ Tail(<<x, y>>) = <<y>>
           /\ <<x>> # <<>> /\ <<x, y>> # <<>> /\ <<x, y>> # <<x>> /\ <<x, y>> # <<y>>
           /\ (<<x>> = <<y>>) => x = y
           /\ <<>> \in Seq(Stores) /\ <<x>> \in Seq(Stores) /\ <<x, y>> \in Seq(Stores)
<1>1. <<>> \in Seq(Stores) /\ <<x>> \in Seq(Stores) /\ <<y>> \in Seq(Stores) /\ <<x, y>> \in Seq(Stores)
  OBVIOUS
<1>2. Append(<<>>, x) = <<x>>
  OBVIOUS
<1>3. Append(<<x>>, y) = <<x, y>>
  <2>1. /\ Append(<<x>>, y) \in Seq(Stores)
        /\ Len(Append(<<x>>, y)) = 2 /\ Len(<<x, y>>) = 2
        /\ Append(<<x>>, y)[1] = x /\ Append(<<x>>, y)[2] = y
    OBVIOUS
  <2>2. \A i \in 1 .. Len(Append(<<x>>, y)) : Append(<<x>>, y)[i] = <<x, y>>[i]
    BY <2>1
  <2> QED
    BY <2>1, <2>2, <1>1, SeqEqual, Zenon
<1>4. Head(<<x>>) = x /\ Head(<<x, y>>) = x
  OBVIOUS
<1>5. Tail(<<x>>) = <<>>
  OBVIOUS
<1>6. Tail(<<x, y>>) = <<y>>
  OBVIOUS
<1>7. <<x>> # <<>> /\ <<x, y>> # <<>>
  OBVIOUS
<1>8. <<x, y>> # <<x>> /\ <<x, y>> # <<y>>
  OBVIOUS
<1>9. <<x>> = <<y>> => x = y
  OBVIOUS
<1> QED
  BY <1>1, <1>2, <1>3, <1>4, <1>5, <1>6, <1>7, <1>8, <1>9

\* The same for the two stores that occur.
LEMMA StoreFacts ==
    ASSUME TypeOK
    PROVE  /\ Append(<<>>, Unlock) = <<Unlock>>
           /\ Append(<<NewData>>, Unlock) = <<NewData, Unlock>>
           /\ Head(<<Unlock>>).to = "lock" /\ Head(<<Unlock>>).val = 0
           /\ Head(<<NewData>>).to # "lock" /\ Head(<<NewData>>).val = version
           /\ Head(<<NewData, Unlock>>).to # "lock" /\ Head(<<NewData, Unlock>>).val = version
           /\ Tail(<<Unlock>>) = <<>> /\ Tail(<<NewData>>) = <<>>
           /\ Tail(<<NewData, Unlock>>) = <<Unlock>>
           /\ <<Unlock>> # <<>> /\ <<NewData>> # <<>> /\ <<NewData, Unlock>> # <<>>
           /\ <<Unlock>> # <<NewData>> /\ <<NewData, Unlock>> # <<Unlock>>
           /\ <<NewData, Unlock>> # <<NewData>>
           /\ <<Unlock>> \in Seq(Stores) /\ <<NewData, Unlock>> \in Seq(Stores)
<1>1. NewData \in Stores /\ Unlock \in Stores /\ NewData # Unlock
  BY DataFacts DEF TypeOK, NewData
<1>2. NewData.to # "lock" /\ NewData.val = version /\ Unlock.to = "lock" /\ Unlock.val = 0
  BY DataFacts DEF TypeOK, NewData
<1>3. Head(<<Unlock>>) = Unlock /\ Head(<<NewData>>) = NewData /\ Head(<<NewData, Unlock>>) = NewData
  BY <1>1, BufferFacts
<1>4. /\ Append(<<>>, Unlock) = <<Unlock>>
      /\ Append(<<NewData>>, Unlock) = <<NewData, Unlock>>
  BY <1>1, BufferFacts
<1>5. /\ Tail(<<Unlock>>) = <<>> /\ Tail(<<NewData>>) = <<>>
      /\ Tail(<<NewData, Unlock>>) = <<Unlock>>
  BY <1>1, BufferFacts
<1>6. /\ <<Unlock>> # <<>> /\ <<NewData>> # <<>> /\ <<NewData, Unlock>> # <<>>
      /\ <<Unlock>> # <<NewData>> /\ <<NewData, Unlock>> # <<Unlock>>
      /\ <<NewData, Unlock>> # <<NewData>>
      /\ <<Unlock>> \in Seq(Stores) /\ <<NewData, Unlock>> \in Seq(Stores)
  BY <1>1, BufferFacts
<1> QED
  BY <1>2, <1>3, <1>4, <1>5, <1>6

\* It holds when no CPU has started.
LEMMA InitIInv == Init => IInv
<1> SUFFICES ASSUME Init PROVE IInv
  OBVIOUS
<1>1. TypeOK
  BY DataFacts DEF Init, TypeOK, PCs
<1>2. \A a \in Actors : ~Busy(a) /\ Shape(a)
  BY DEF Init, Busy, InCritical, Shape
<1> QED
  BY <1>1, <1>2 DEF IInv, OneBusy, LockSet, Fresh, Init

\* What a step does to who is busy: nothing, or one CPU becomes busy when
\* nobody is, or the busy one stops being so.
BusyStep == \/ \A b \in Actors : Busy(b)' <=> Busy(b)
            \/ \E a \in Actors : (\A b \in Actors : ~Busy(b)) /\ Busy(a)'
            \/ \E a \in Actors : Busy(a) /\ \A b \in Actors : ~Busy(b)'

\* Every step keeps the invariant.
LEMMA StepIInv == IInv /\ [Next]_vars => IInv' /\ BusyStep
<1> SUFFICES ASSUME IInv, [Next]_vars PROVE IInv' /\ BusyStep
  OBVIOUS
<1> USE DataFacts
<1>0. TypeOK
  BY DEF IInv
<1>1. ASSUME NEW a \in Actors, lock_acquire(a) \/ Spin(a) PROVE IInv' /\ BusyStep
  <2>1. TypeOK'
    BY <1>1 DEF IInv, TypeOK, PCs, lock_acquire, Spin, Goto
  <2>2. \A b \in Actors : (Busy(b)' <=> Busy(b)) /\ (Pending(b)' <=> Pending(b)) /\ Shape(b)'
    BY <1>1 DEF IInv, TypeOK, Shape, Busy, Pending, NewData, InCritical, lock_acquire, Spin, Goto
  <2> QED
    BY <1>1, <2>1, <2>2 DEF IInv, OneBusy, LockSet, Fresh, BusyStep, lock_acquire, Spin
<1>2. ASSUME NEW a \in Actors, CmpXchg(a) \/ lock_try_acquire(a), lock_state = 0 PROVE IInv' /\ BusyStep
  <2>1. TypeOK'
    BY <1>2 DEF IInv, TypeOK, PCs, CmpXchg, lock_try_acquire, Goto
  <2>2. \A b \in Actors : ~Busy(b)
    BY <1>2 DEF IInv, LockSet
  <2>3. \A b \in Actors : Busy(b)' <=> b = a
    BY <1>2, <2>2 DEF IInv, TypeOK, Busy, InCritical, CmpXchg, lock_try_acquire, Goto
  <2>4. \A b \in Actors : Shape(b)' /\ (Pending(b)' <=> Pending(b))
    BY <1>2, <2>2 DEF IInv, TypeOK, Shape, Busy, Pending, NewData, InCritical, CmpXchg,
                      lock_try_acquire, Goto
  <2> QED
    BY <1>2, <2>1, <2>2, <2>3, <2>4 DEF IInv, OneBusy, LockSet, Fresh, BusyStep, CmpXchg, lock_try_acquire
<1>3. ASSUME NEW a \in Actors, CmpXchg(a) \/ lock_try_acquire(a), lock_state # 0 PROVE IInv' /\ BusyStep
  <2>1. TypeOK'
    BY <1>3 DEF IInv, TypeOK, PCs, CmpXchg, lock_try_acquire, Goto
  <2>2. \A b \in Actors : (Busy(b)' <=> Busy(b)) /\ (Pending(b)' <=> Pending(b)) /\ Shape(b)'
    BY <1>3 DEF IInv, TypeOK, Shape, Busy, Pending, NewData, InCritical, CmpXchg,
                lock_try_acquire, Goto
  <2>3. lock_state = 1 /\ lock_state' = 1
    BY <1>3 DEF IInv, TypeOK, CmpXchg, lock_try_acquire
  <2> QED
    BY <1>3, <2>1, <2>2, <2>3 DEF IInv, OneBusy, LockSet, Fresh, BusyStep, CmpXchg, lock_try_acquire
<1>4. ASSUME NEW a \in Actors, Load(a) PROVE IInv' /\ BusyStep
  <2>1. TypeOK'
    BY <1>4 DEF IInv, TypeOK, PCs, Load, Goto
  <2>2. Busy(a) /\ buf[a] = <<>>
    BY <1>4 DEF Busy, InCritical, Load, IInv, Shape
  <2>3. \A b \in Actors : ~Pending(b)
    BY <2>2, <1>0, StoreFacts DEF IInv, OneBusy, Busy, Pending
  <2>4. data = version
    BY <2>3 DEF IInv, Fresh
  <2>5. \A b \in Actors : (Busy(b)' <=> Busy(b)) /\ (Pending(b)' <=> Pending(b)) /\ Shape(b)'
    BY <1>4, <2>4 DEF IInv, TypeOK, Shape, Busy, Pending, NewData, InCritical, Load, Goto
  <2> QED
    BY <1>4, <2>1, <2>5 DEF IInv, OneBusy, LockSet, Fresh, BusyStep, Load
<1>5. ASSUME NEW a \in Actors, Write(a) PROVE IInv' /\ BusyStep
  <2>1. Busy(a) /\ buf[a] = <<>> /\ copy[a] = version
    BY <1>5 DEF Busy, InCritical, Write, IInv, Shape
  <2>2. version' = Bump(version) /\ version' \in Data /\ NewData' = DataStore(Bump(version))
                                 /\ NewData' \in Stores
    BY <1>5 DEF Write, IInv, TypeOK, NewData
  <2>3. buf'[a] = <<NewData'>> /\ \A b \in Actors : b # a => buf'[b] = buf[b]
    BY <1>5, <2>1, <2>2, BufferFacts DEF Write, Store, IInv, TypeOK
  <2>4. pc'[a] = "stored" /\ \A b \in Actors : b # a => pc'[b] = pc[b]
    BY <1>5 DEF Write, Goto, IInv, TypeOK
  <2>5. buf' \in [Actors -> Seq(Stores)]
    BY <1>5, <2>2, <2>3, BufferFacts DEF Write, Store, IInv, TypeOK
  <2>6. TypeOK'
    BY <1>5, <2>2, <2>5 DEF IInv, TypeOK, PCs, Write, Goto
  <2>7. \A b \in Actors : Busy(b)' <=> Busy(b)
    BY <2>1, <2>2, <2>3, <2>4, BufferFacts DEF Busy, InCritical
  <2>8. \A b \in Actors : b # a => ~Busy(b)
    BY <2>1 DEF IInv, OneBusy
  <2>9. \A b \in Actors : Shape(b)'
    <3>1. Shape(a)'
      BY <2>3, <2>4 DEF Shape, InCritical
    <3>2. ASSUME NEW b \in Actors, b # a PROVE Shape(b)'
      BY <2>3, <2>4, <2>8, <3>2 DEF Shape, InCritical, Busy
    <3> QED
      BY <3>1, <3>2
  <2>10. Pending(a)'
    BY <2>3 DEF Pending
  <2> QED
    BY <1>5, <2>6, <2>7, <2>9, <2>10 DEF IInv, OneBusy, LockSet, Fresh, BusyStep, Write
<1>6. ASSUME NEW a \in Actors, lock_release(a) PROVE IInv' /\ BusyStep
  <2>1. Busy(a) /\ buf[a] \in {<<>>, <<NewData>>}
    BY <1>6 DEF Busy, InCritical, lock_release, IInv, Shape
  <2>2. buf'[a] = Append(buf[a], Unlock) /\ \A b \in Actors : b # a => buf'[b] = buf[b]
    BY <1>6 DEF lock_release, Store, IInv, TypeOK
  <2>3. /\ buf'[a] \in {<<Unlock>>, <<NewData, Unlock>>} /\ buf'[a] # <<>>
        /\ buf'[a] \in Seq(Stores)
        /\ Pending(a)' <=> Pending(a)
    <3>0. NewData' = NewData
      BY <1>6 DEF NewData, lock_release
    <3>1. CASE buf[a] = <<>>
      BY <1>0, <1>6, <2>2, <3>1, <3>0, StoreFacts, Zenon DEF Pending
    <3>2. CASE buf[a] = <<NewData>>
      BY <1>0, <1>6, <2>2, <3>2, <3>0, StoreFacts, Zenon DEF Pending
    <3> QED
      BY <2>1, <3>1, <3>2
  <2>4. pc'[a] = "idle" /\ \A b \in Actors : b # a => pc'[b] = pc[b]
    BY <1>6 DEF lock_release, Goto, IInv, TypeOK
  <2>5. TypeOK'
    BY <1>6, <2>3 DEF IInv, TypeOK, PCs, lock_release, Goto, Store
  <2>6. \A b \in Actors : (Busy(b)' <=> Busy(b)) /\ (Pending(b)' <=> Pending(b))
    BY <1>6, <2>1, <2>2, <2>3, <2>4 DEF Busy, InCritical, Pending, NewData, lock_release
  <2>7. \A b \in Actors : Shape(b)'
    BY <1>6, <2>2, <2>3, <2>4 DEF IInv, Shape, InCritical, NewData, lock_release
  <2> QED
    BY <1>6, <2>5, <2>6, <2>7 DEF IInv, OneBusy, LockSet, Fresh, BusyStep, lock_release
<1>7. ASSUME NEW a \in Actors, Drain(a) PROVE IInv' /\ BusyStep
  <2>1. Busy(a) /\ \A b \in Actors : b # a => ~Busy(b)
    BY <1>7 DEF Busy, Drain, IInv, OneBusy
  <2>2. buf'[a] = Tail(buf[a]) /\ \A b \in Actors : b # a => buf'[b] = buf[b]
    BY <1>7 DEF Drain, IInv, TypeOK
  <2>3. UNCHANGED <<pc, copy, version>> /\ NewData' = NewData
    BY <1>7 DEF Drain, NewData
  <2>4. lock_state = 1
    BY <2>1, <1>7 DEF IInv, LockSet
  <2>5. buf[a] \in {<<Unlock>>, <<NewData>>, <<NewData, Unlock>>}
    BY <1>7 DEF Drain, IInv, Shape, InCritical
  <2>6. CASE buf[a] = <<Unlock>>
    <3>1. buf'[a] = <<>> /\ lock_state' = 0 /\ data' = data /\ ~InCritical(a)
      BY <1>0, StoreFacts, <1>7, <2>2, <2>6 DEF Drain, IInv, Shape, InCritical, NewData
    <3>2. TypeOK'
      BY <1>7, <3>1, <2>2, <2>3, <1>0, StoreFacts DEF IInv, TypeOK, Drain
    <3>3. \A b \in Actors : ~Busy(b)' /\ ~Pending(b) /\ ~Pending(b)' /\ Shape(b)'
      BY <1>0, StoreFacts, <2>1, <2>2, <2>3, <2>6, <3>1
         DEF Busy, Pending, IInv, Shape, InCritical, NewData
    <3> QED
      BY <3>1, <3>2, <3>3, <2>1, <2>3 DEF IInv, OneBusy, LockSet, Fresh, BusyStep
  <2>7. CASE buf[a] = <<NewData>>
    <3>1. buf'[a] = <<>> /\ lock_state' = 1 /\ data' = version /\ pc[a] = "stored"
      BY <1>0, StoreFacts, <1>7, <2>2, <2>4, <2>7
         DEF Drain, IInv, TypeOK, Shape, InCritical, NewData, PCs
    <3>2. TypeOK'
      BY <1>7, <3>1, <2>2, <2>3, <1>0, StoreFacts DEF IInv, TypeOK, Drain
    <3>3. \A b \in Actors : (Busy(b)' <=> Busy(b)) /\ ~Pending(b)' /\ Shape(b)'
      BY <1>0, StoreFacts, <2>1, <2>2, <2>3, <2>7, <3>1
         DEF Busy, Pending, IInv, Shape, InCritical
    <3> QED
      BY <3>1, <3>2, <3>3, <2>3, <2>4 DEF IInv, OneBusy, LockSet, Fresh, BusyStep
  <2>8. CASE buf[a] = <<NewData, Unlock>>
    <3>1. buf'[a] = <<Unlock>> /\ lock_state' = 1 /\ data' = version /\ ~InCritical(a)
      BY <1>0, StoreFacts, <1>7, <2>2, <2>4, <2>8
         DEF Drain, IInv, TypeOK, Shape, InCritical, NewData, PCs
    <3>2. TypeOK'
      BY <1>7, <3>1, <2>2, <2>3, <1>0, StoreFacts DEF IInv, TypeOK, Drain
    <3>3. \A b \in Actors : (Busy(b)' <=> Busy(b)) /\ ~Pending(b)' /\ Shape(b)'
      BY <1>0, StoreFacts, <2>1, <2>2, <2>3, <2>8, <3>1
         DEF Busy, Pending, IInv, TypeOK, Shape, InCritical, NewData
    <3> QED
      BY <3>1, <3>2, <3>3, <2>3, <2>4 DEF IInv, OneBusy, LockSet, Fresh, BusyStep
  <2> QED
    BY <2>5, <2>6, <2>7, <2>8
<1>8. CASE UNCHANGED vars
  <2>1. \A b \in Actors : (Busy(b)' <=> Busy(b)) /\ (Pending(b)' <=> Pending(b)) /\ Shape(b)'
    BY <1>8 DEF vars, IInv, Shape, Busy, Pending, NewData, InCritical
  <2> QED
    BY <1>8, <2>1 DEF vars, IInv, TypeOK, OneBusy, LockSet, Fresh, BusyStep
<1> QED
  BY <1>1, <1>2, <1>3, <1>4, <1>5, <1>6, <1>7, <1>8 DEF Next, Step

\* lock.c: the inductive invariant holds in every reachable state.
THEOREM Invariance == Spec => []IInv
<1>1. Init => IInv
  BY InitIInv
<1>2. IInv /\ [Next]_vars => IInv'
  BY StepIInv
<1> QED
  BY <1>1, <1>2, PTL DEF Spec

\* Every variable of the lock, of the buffers and of the callers keeps its type:
\* in particular *lock_state is only ever 0 or 1.
THEOREM TypeCorrect == Spec => []TypeOK
<1>1. IInv => TypeOK
  BY DEF IInv
<1> QED
  BY <1>1, Invariance, PTL

\* lock_acquire: a CPU that enters a critical section reads what the sections
\* before it wrote, although lock_release does not wait for the store buffer.
THEOREM EarlierSectionsSeen == Spec => []SeesEarlierSections
<1>1. IInv => SeesEarlierSections
  <2> SUFFICES ASSUME IInv, NEW a \in Actors, pc[a] = "critical" PROVE data = version
    BY DEF SeesEarlierSections
  <2>1. Busy(a) /\ buf[a] = <<>>
    BY DEF IInv, Shape, Busy, InCritical
  <2>2. \A b \in Actors : ~Pending(b)
    BY <2>1, StoreFacts DEF IInv, OneBusy, Busy, Pending
  <2> QED
    BY <2>2 DEF IInv, Fresh
<1> QED
  BY <1>1, Invariance, PTL

\* lock.c: no update made in a critical section is lost, and the lock is free
\* when nobody is inside and the buffers are empty.
THEOREM UpdatesKept == Spec => []NoLostUpdate
<1>1. IInv => NoLostUpdate
  <2> SUFFICES ASSUME IInv, \A a \in Actors : buf[a] = <<>> /\ ~InCritical(a)
               PROVE  data = version /\ lock_state = 0
    BY DEF NoLostUpdate
  <2>1. \A b \in Actors : ~Pending(b) /\ ~Busy(b)
    BY StoreFacts DEF IInv, Busy, Pending
  <2> QED
    BY <2>1 DEF IInv, TypeOK, Fresh, LockSet
<1> QED
  BY <1>1, Invariance, PTL
-----------------------------------------------------------------------------
\* The refinement mapping: under the invariant the busy CPU is the holder.
LEMMA HoldsIsBusy == ASSUME IInv, NEW a \in Actors PROVE Holds(a) <=> Busy(a)
<1>1. buf[a] = <<Unlock>> => Releasing(a)
  BY DEF Releasing
<1>2. buf[a] = <<NewData, Unlock>> => Releasing(a)
  BY DEF Releasing
<1>3. buf[a] = <<>> => ~Releasing(a)
  BY DEF Releasing
<1> QED
  BY <1>1, <1>2, <1>3 DEF IInv, Shape, Holds, Busy

\* The busy CPU, if there is one, is the holder.
HolderIs == /\ \A a \in Actors : Busy(a) => HolderOf = a
            /\ (\A a \in Actors : ~Busy(a)) => HolderOf = NoActor

LEMMA HolderMap == IInv => HolderIs
<1> SUFFICES ASSUME IInv PROVE HolderIs
  OBVIOUS
<1>1. ASSUME NEW a \in Actors, Busy(a) PROVE HolderOf = a
  <2>1. \A b \in Actors : Holds(b) <=> b = a
    BY <1>1, HoldsIsBusy DEF IInv, OneBusy
  <2> QED
    BY <2>1 DEF HolderOf
<1>2. ASSUME \A a \in Actors : ~Busy(a) PROVE HolderOf = NoActor
  BY <1>2, HoldsIsBusy DEF HolderOf
<1> QED
  BY <1>1, <1>2 DEF HolderIs

\* lock.h: lock_acquire, lock_try_acquire and lock_release on an x86 memory
\* implement the atomic lock of Mutex, for any number of CPUs.
THEOREM LockImplementsMutex == Spec => ImplementsMutex
<1>1. Init => M!MutexInit
  <2> SUFFICES ASSUME Init PROVE HolderOf = NoActor
    BY DEF M!MutexInit
  <2>1. IInv /\ HolderIs
    BY InitIInv, HolderMap
  <2>2. \A a \in Actors : ~Busy(a)
    BY DEF Init, Busy, InCritical
  <2> QED
    BY <2>1, <2>2 DEF HolderIs
<1>2. HolderIs /\ HolderIs' /\ BusyStep => [M!MutexNext]_HolderOf
  <2> SUFFICES ASSUME HolderIs, HolderIs', BusyStep PROVE [M!MutexNext]_HolderOf
    OBVIOUS
  <2>1. CASE \A b \in Actors : Busy(b)' <=> Busy(b)
    BY <2>1 DEF HolderIs
  <2>2. ASSUME NEW a \in Actors, \A b \in Actors : ~Busy(b), Busy(a)' PROVE M!MutexNext
    BY <2>2 DEF HolderIs, M!MutexNext, M!Acquire
  <2>3. ASSUME NEW a \in Actors, Busy(a), \A b \in Actors : ~Busy(b)' PROVE M!MutexNext
    BY <2>3 DEF HolderIs, M!MutexNext, M!Release
  <2> QED
    BY <2>1, <2>2, <2>3 DEF BusyStep
<1>3. IInv /\ [Next]_vars => BusyStep
  BY StepIInv
<1> QED
  BY <1>1, <1>2, <1>3, HolderMap, Invariance, PTL DEF Spec, ImplementsMutex, M!MutexSpec
-----------------------------------------------------------------------------
(***************************************************************************)
(* The scheduler of one CPU.                                               *)
(***************************************************************************)
Inserting == {"cli", "link", "sti"}

\* In the processor or on the interrupt stack is the context of the current
\* process; the handler is never interrupted.
MachineInv ==
    /\ cr3 = current_process
    /\ mode = "user" => live = real[current_process]
    /\ mode # "user" => frame = real[current_process] /\ timer # "expired"
    /\ \A p \in Procs : real[p].owner = p
    /\ \A p \in Procs \ linked : real[p] = Context(p, 0)
    /\ \A p \in linked \ {current_process} : saved[p] = real[p]

\* Where scheduler_execute is: who is being made, and that an insertion is not
\* interrupted.
MakingInv ==
    \A p \in Procs :
       /\ exec[p] = "none" <=> making[p] = NoProc
       /\ exec[p] \in {"id", "prepared", "cli", "link"} => making[p] \in Procs \ linked
       /\ \A r \in Procs : making[p] = making[r] /\ making[p] # NoProc => p = r
       /\ exec[p] \in Inserting => ~enabled /\ mode = "user" /\ current_process = p
       /\ exec[p] \in {"cli", "link"} => saved[making[p]] = Context(making[p], 0)
       /\ exec[p] = "link" => /\ next[making[p]] = next[p]
                              /\ previous[making[p]] = p

\* The inductive invariant.
SchedulerInv == SchedulerTypeOK /\ MachineInv /\ MakingInv /\ OneRing
-----------------------------------------------------------------------------
\* A context of a process is not the end of the handler.
LEMMA ContextFacts == /\ \A p \in Procs : Context(p, 0) \in Contexts /\ Context(p, 0).owner = p
                      /\ HandlerEnd \in Contexts /\ HandlerEnd.owner = NoProc
BY SchedulerAssumption DEF Context, Contexts, HandlerEnd

\* Only the process of cpu_initialize exists at first.
LEMMA SchedulerInitInv == SchedulerInit => SchedulerInv
<1> SUFFICES ASSUME SchedulerInit PROVE SchedulerInv
  OBVIOUS
<1> USE ContextFacts, SchedulerAssumption
<1>1. SchedulerTypeOK
  BY DEF SchedulerInit, SchedulerTypeOK
<1>2. MachineInv
  BY DEF SchedulerInit, MachineInv
<1>3. MakingInv
  BY DEF SchedulerInit, MakingInv, Inserting
<1>4. OneRing
  BY DEF SchedulerInit, OneRing
<1> QED
  BY <1>1, <1>2, <1>3, <1>4 DEF SchedulerInv

\* The process in user mode is the current one.
LEMMA RunningIsCurrent == ASSUME SchedulerInv, NEW p \in Procs, NEW s, Running(p, s)
                          PROVE  p = current_process /\ mode = "user" /\ exec[p] = s
BY DEF SchedulerInv, SchedulerTypeOK, MachineInv, Running

LEMMA RunStep == ASSUME SchedulerInv, Run PROVE SchedulerInv'
<1> USE DEF Run, ring, creating
<1>1. live.owner = current_process /\ current_process \in Procs /\ current_process \in linked
  BY DEF SchedulerInv, SchedulerTypeOK, MachineInv, OneRing
<1>2. live' \in Contexts /\ live'.owner = current_process
  BY <1>1, SchedulerAssumption DEF SchedulerInv, SchedulerTypeOK, Contexts
<1>3. SchedulerTypeOK'
  BY <1>1, <1>2 DEF SchedulerInv, SchedulerTypeOK
<1>4. MachineInv'
  BY <1>1, <1>2 DEF SchedulerInv, SchedulerTypeOK, MachineInv
<1>5. MakingInv'
  BY DEF SchedulerInv, MakingInv
<1>6. OneRing'
  BY DEF SchedulerInv, OneRing
<1> QED
  BY <1>3, <1>4, <1>5, <1>6 DEF SchedulerInv

LEMMA TimerStep == ASSUME ~LateReturn, SchedulerInv, TimerExpires PROVE SchedulerInv'
<1> USE DEF TimerExpires, ring, creating
<1>1. SchedulerTypeOK' /\ MachineInv'
  BY DEF SchedulerInv, SchedulerTypeOK, MachineInv
<1>2. MakingInv' /\ OneRing'
  BY DEF SchedulerInv, MakingInv, OneRing
<1> QED
  BY <1>1, <1>2 DEF SchedulerInv

LEMMA InterruptStep == ASSUME SchedulerInv, Interrupt PROVE SchedulerInv'
<1> USE DEF Interrupt, ring, creating
<1>1. mode = "user" /\ enabled
  BY DEF SchedulerInv, MachineInv
<1>2. SchedulerTypeOK' /\ MachineInv'
  BY <1>1 DEF SchedulerInv, SchedulerTypeOK, MachineInv
<1>3. MakingInv'
  BY <1>1 DEF SchedulerInv, SchedulerTypeOK, MakingInv
<1>4. OneRing'
  BY DEF SchedulerInv, OneRing
<1> QED
  BY <1>2, <1>3, <1>4 DEF SchedulerInv

LEMMA SwitchStep == ASSUME SchedulerInv, SwitchProcess PROVE SchedulerInv'
<1> DEFINE n == next[current_process]
<1> USE DEF SwitchProcess, ring, creating
<1>1. n \in linked /\ n \in Procs /\ current_process \in linked /\ current_process \in Procs
  BY DEF SchedulerInv, SchedulerTypeOK, OneRing
<1>2. mode = "switch" /\ frame = real[current_process]
  BY DEF SchedulerInv, MachineInv
<1>3. SchedulerTypeOK'
  BY <1>1 DEF SchedulerInv, SchedulerTypeOK
<1>4. MachineInv'
  <2>1. CASE n = current_process
    BY <2>1, <1>2 DEF SchedulerInv, MachineInv
  <2>2. CASE n # current_process
    <3>1. /\ saved' = [saved EXCEPT ![current_process] = frame] /\ frame' = saved[n]
          /\ cr3' = n /\ current_process' = n /\ mode' = "restart"
          /\ UNCHANGED <<real, linked, timer>>
      BY <2>2
    <3> QED
      BY <1>1, <1>2, <2>2, <3>1 DEF SchedulerInv, SchedulerTypeOK, MachineInv
  <2> QED
    BY <2>1, <2>2
<1>5. MakingInv'
  <2>1. \A p \in Procs : exec[p] \notin Inserting
    BY <1>2 DEF SchedulerInv, MakingInv
  <2> QED
    BY <2>1 DEF SchedulerInv, MakingInv, Inserting
<1>6. OneRing'
  BY <1>1 DEF SchedulerInv, OneRing
<1> QED
  BY <1>3, <1>4, <1>5, <1>6 DEF SchedulerInv

LEMMA RestartStep == ASSUME SchedulerInv, RestartTimer PROVE SchedulerInv'
<1> USE DEF RestartTimer, ring, creating
<1>1. SchedulerTypeOK' /\ MachineInv'
  BY DEF SchedulerInv, SchedulerTypeOK, MachineInv
<1>2. MakingInv'
  BY DEF SchedulerInv, MakingInv
<1>3. OneRing'
  BY DEF SchedulerInv, OneRing
<1> QED
  BY <1>1, <1>2, <1>3 DEF SchedulerInv

LEMMA ReturnStep == ASSUME SchedulerInv, ReturnFromInterrupt PROVE SchedulerInv'
<1> USE DEF ReturnFromInterrupt, ring, creating
<1>1. current_process \in Procs /\ frame = real[current_process] /\ frame # HandlerEnd
  BY ContextFacts, SchedulerAssumption DEF SchedulerInv, SchedulerTypeOK, MachineInv
<1>2. mode' = "user"
  BY <1>1
<1>3. SchedulerTypeOK' /\ MachineInv'
  BY <1>1, <1>2 DEF SchedulerInv, SchedulerTypeOK, MachineInv
<1>4. MakingInv'
  BY DEF SchedulerInv, MakingInv
<1>5. OneRing'
  BY DEF SchedulerInv, OneRing
<1> QED
  BY <1>3, <1>4, <1>5 DEF SchedulerInv

LEMMA LoadIdStep == ASSUME SchedulerInv, NEW p \in Procs, NEW q \in Procs, LoadId(p, q) PROVE SchedulerInv'
<1> USE DEF LoadId, ring, machine
<1>1. exec[p] = "none"
  BY RunningIsCurrent
<1>2. SchedulerTypeOK'
  BY DEF SchedulerInv, SchedulerTypeOK
<1>3. MachineInv'
  BY DEF SchedulerInv, MachineInv
<1>4. MakingInv'
  <2>1. exec'[p] = "id" /\ making'[p] = q /\ q # NoProc /\ q \notin linked
    BY SchedulerAssumption DEF SchedulerInv, SchedulerTypeOK
  <2>2. \A r \in Procs : r # p => exec'[r] = exec[r] /\ making'[r] = making[r]
    BY DEF SchedulerInv, SchedulerTypeOK
  <2> QED
    BY <2>1, <2>2 DEF SchedulerInv, MakingInv, Inserting
<1>5. OneRing'
  BY DEF SchedulerInv, OneRing
<1> QED
  BY <1>2, <1>3, <1>4, <1>5 DEF SchedulerInv

LEMMA StoreIdStep == ASSUME SchedulerInv, NEW p \in Procs, StoreId(p) PROVE SchedulerInv'
<1> USE DEF StoreId, ring, machine
<1>1. exec[p] = "id" /\ making[p] \in Procs
  BY RunningIsCurrent DEF SchedulerInv, MakingInv
<1>2. SchedulerTypeOK'
  BY <1>1 DEF SchedulerInv, SchedulerTypeOK
<1>3. MachineInv'
  BY DEF SchedulerInv, MachineInv
<1>4. MakingInv'
  <2>1. exec'[p] = "prepared" /\ \A r \in Procs : r # p => exec'[r] = exec[r]
    BY DEF SchedulerInv, SchedulerTypeOK
  <2> QED
    BY <1>1, <2>1 DEF SchedulerInv, MakingInv, Inserting
<1>5. OneRing'
  BY DEF SchedulerInv, OneRing
<1> QED
  BY <1>2, <1>3, <1>4, <1>5 DEF SchedulerInv

LEMMA PrepareStep == ASSUME SchedulerInv, NEW p \in Procs, Prepare(p) PROVE SchedulerInv'
<1> DEFINE q == making[p]
<1> USE DEF Prepare, ring
<1>1. p = current_process /\ mode = "user" /\ exec[p] = "prepared" /\ q \in Procs /\ q \notin linked
  BY RunningIsCurrent DEF SchedulerInv, MakingInv
<1>2. /\ exec'[p] = "cli" /\ \A r \in Procs : r # p => exec'[r] = exec[r]
      /\ saved'[q] = Context(q, 0) /\ \A r \in Procs : r # q => saved'[r] = saved[r]
      /\ saved' \in [Procs -> Contexts]
  BY <1>1, ContextFacts DEF SchedulerInv, SchedulerTypeOK
<1>3. SchedulerTypeOK'
  BY <1>2 DEF SchedulerInv, SchedulerTypeOK
<1>4. MachineInv'
  BY <1>1, <1>2 DEF SchedulerInv, SchedulerTypeOK, MachineInv
<1>5. \A r \in Procs : exec[r] \notin Inserting
  BY <1>1 DEF SchedulerInv, MakingInv, Inserting
<1>6. MakingInv'
  BY <1>1, <1>2, <1>5 DEF SchedulerInv, MakingInv, Inserting
<1>7. OneRing'
  BY DEF SchedulerInv, OneRing
<1> QED
  BY <1>3, <1>4, <1>6, <1>7 DEF SchedulerInv

LEMMA LinkNewStep == ASSUME SchedulerInv, NEW p \in Procs, LinkNew(p) PROVE SchedulerInv'
<1> DEFINE q == making[p]
<1> USE DEF LinkNew, machine
<1>1. /\ p = current_process /\ mode = "user" /\ exec[p] = "cli" /\ q \in Procs /\ q \notin linked
      /\ p \in linked /\ q # p
  BY RunningIsCurrent DEF SchedulerInv, MakingInv, OneRing
<1>2. /\ exec'[p] = "link" /\ \A r \in Procs : r # p => exec'[r] = exec[r]
      /\ next'[q] = next[p] /\ \A r \in Procs : r # q => next'[r] = next[r]
      /\ previous'[q] = p /\ \A r \in Procs : r # q => previous'[r] = previous[r]
  BY <1>1 DEF SchedulerInv, SchedulerTypeOK
<1>3. SchedulerTypeOK'
  BY <1>1, <1>2 DEF SchedulerInv, SchedulerTypeOK
<1>4. MachineInv'
  BY DEF SchedulerInv, MachineInv
<1>5. \A r \in Procs : r # p => exec[r] \notin Inserting
  BY <1>1 DEF SchedulerInv, MakingInv, Inserting
<1>6. MakingInv'
  BY <1>1, <1>2, <1>5 DEF SchedulerInv, MakingInv, Inserting
<1>7. \A r \in linked : next'[r] = next[r]
  BY <1>1, <1>2 DEF SchedulerInv, SchedulerTypeOK
<1>8. OneRing'
  BY <1>7 DEF SchedulerInv, OneRing
<1> QED
  BY <1>3, <1>4, <1>6, <1>8 DEF SchedulerInv

LEMMA LinkCurrentStep == ASSUME SchedulerInv, NEW p \in Procs, LinkCurrent(p) PROVE SchedulerInv'
<1> DEFINE q == making[p]
<1> USE DEF LinkCurrent, machine
<1>1. /\ p = current_process /\ mode = "user" /\ exec[p] = "link" /\ q \in Procs /\ q \notin linked
      /\ p \in linked /\ q # p /\ next[q] = next[p] /\ previous[q] = p
      /\ saved[q] = Context(q, 0) /\ real[q] = Context(q, 0)
  BY RunningIsCurrent DEF SchedulerInv, MakingInv, MachineInv, OneRing
<1>2. /\ exec'[p] = "sti" /\ \A r \in Procs : r # p => exec'[r] = exec[r]
      /\ next'[p] = q /\ \A r \in Procs : r # p => next'[r] = next[r]
      /\ linked' = linked \cup {q}
      /\ UNCHANGED <<making, current_process, saved, real, previous>>
  BY <1>1 DEF SchedulerInv, SchedulerTypeOK
<1>3. SchedulerTypeOK'
  BY <1>1, <1>2 DEF SchedulerInv, SchedulerTypeOK, OneRing
<1>4. MachineInv'
  BY <1>1, <1>2 DEF SchedulerInv, MachineInv
<1>5. \A r \in Procs : r # p => exec[r] \notin Inserting
  BY <1>1 DEF SchedulerInv, MakingInv, Inserting
<1>6. MakingInv'
  BY <1>1, <1>2, <1>5 DEF SchedulerInv, MakingInv, Inserting
<1>7. OneRing'
  <2>1. \A r \in linked' : next'[r] \in linked'
    BY <1>1, <1>2 DEF SchedulerInv, SchedulerTypeOK, OneRing
  <2>2. ASSUME NEW S \in SUBSET linked', S # {}, \A r \in S : next'[r] \in S PROVE S = linked'
    <3>0. \A r \in linked : r \in Procs /\ next[r] \in linked /\ r # q /\ next[r] # q
      BY <1>1 DEF SchedulerInv, SchedulerTypeOK, OneRing
    <3>1. CASE q \in S
      <4> DEFINE T == S \ {q}
      <4>1. next[p] \in S /\ next[p] \in T
        BY <1>1, <1>2, <2>2, <3>0, <3>1
      <4>2. \A r \in T : next[r] \in T
        BY <1>1, <1>2, <2>2, <3>0, <4>1
      <4>3. T \in SUBSET linked /\ T # {}
        BY <1>2, <4>1
      <4>4. T = linked
        BY <4>2, <4>3 DEF SchedulerInv, OneRing
      <4> QED
        BY <1>2, <3>1, <4>4
    <3>2. CASE q \notin S
      <4>1. S \in SUBSET linked /\ p \notin S
        BY <1>2, <2>2, <3>2
      <4>2. \A r \in S : next[r] \in S
        BY <1>2, <2>2, <3>0, <4>1
      <4>3. S = linked
        BY <2>2, <4>1, <4>2 DEF SchedulerInv, OneRing
      <4> QED
        BY <1>1, <4>1, <4>3
    <3> QED
      BY <3>1, <3>2
  <2>3. current_process' \in linked'
    BY <1>1, <1>2
  <2> QED
    BY <2>1, <2>2, <2>3 DEF OneRing
<1> QED
  BY <1>3, <1>4, <1>6, <1>7 DEF SchedulerInv

LEMMA EnableStep == ASSUME SchedulerInv, NEW p \in Procs, EnableInterrupts(p) PROVE SchedulerInv'
<1> USE DEF EnableInterrupts, ring
<1>1. p = current_process /\ mode = "user" /\ exec[p] = "sti"
  BY RunningIsCurrent
<1>2. /\ exec'[p] = "none" /\ making'[p] = NoProc
      /\ \A r \in Procs : r # p => exec'[r] = exec[r] /\ making'[r] = making[r]
  BY DEF SchedulerInv, SchedulerTypeOK
<1>3. SchedulerTypeOK'
  BY DEF SchedulerInv, SchedulerTypeOK
<1>4. MachineInv'
  BY DEF SchedulerInv, MachineInv
<1>5. \A r \in Procs : r # p => exec[r] \notin Inserting
  BY <1>1 DEF SchedulerInv, MakingInv, Inserting
<1>6. MakingInv'
  BY <1>1, <1>2, <1>5 DEF SchedulerInv, MakingInv, Inserting
<1>7. OneRing'
  BY DEF SchedulerInv, OneRing
<1> QED
  BY <1>3, <1>4, <1>6, <1>7 DEF SchedulerInv

\* Every step keeps the invariant.
LEMMA SchedulerStepInv == ASSUME ~LateReturn PROVE SchedulerInv /\ [SchedulerNext]_scheduler_vars => SchedulerInv'
<1> SUFFICES ASSUME SchedulerInv, [SchedulerNext]_scheduler_vars PROVE SchedulerInv'
  OBVIOUS
<1>1. CASE Run \/ TimerExpires \/ Handle
  BY <1>1, RunStep, TimerStep, InterruptStep, SwitchStep, RestartStep, ReturnStep DEF Handle
<1>2. ASSUME NEW p \in Procs, ExecuteStep(p) PROVE SchedulerInv'
  BY <1>2, StoreIdStep, PrepareStep, LinkNewStep, LinkCurrentStep, EnableStep DEF ExecuteStep
<1>3. ASSUME NEW p \in Procs, NEW q \in Procs, LoadId(p, q) PROVE SchedulerInv'
  BY <1>3, LoadIdStep
<1>4. CASE UNCHANGED scheduler_vars
  BY <1>4 DEF scheduler_vars, ring, machine, creating, SchedulerInv, SchedulerTypeOK, MachineInv,
              MakingInv, OneRing
<1> QED
  BY <1>1, <1>2, <1>3, <1>4 DEF SchedulerNext

\* scheduler.c: the pointers of every process of the ring point to processes, and
\* all other state keeps its type.
THEOREM SchedulerTypeCorrect == ASSUME ~LateReturn PROVE SchedulerSpec => []SchedulerTypeOK
<1>1. SchedulerInv /\ [SchedulerNext]_scheduler_vars => SchedulerInv'
  BY SchedulerStepInv
<1>2. SchedulerInv => SchedulerTypeOK
  BY DEF SchedulerInv
<1> QED
  BY <1>1, <1>2, SchedulerInitInv, PTL DEF SchedulerSpec

\* scheduler_execute: whatever the timer does during an insertion, the ring stays
\* one cycle through all processes.
THEOREM RingStaysWhole == ASSUME ~LateReturn PROVE SchedulerSpec => []OneRing
<1>1. SchedulerInv /\ [SchedulerNext]_scheduler_vars => SchedulerInv'
  BY SchedulerStepInv
<1>2. SchedulerInv => OneRing
  BY DEF SchedulerInv
<1> QED
  BY <1>1, <1>2, SchedulerInitInv, PTL DEF SchedulerSpec

\* scheduler_handle_interrupt: every process gets back exactly the context it was
\* interrupted with, in its own address space.
THEOREM ContextsSurvive == ASSUME ~LateReturn PROVE SchedulerSpec => []ContextsKept
<1>1. SchedulerInv /\ [SchedulerNext]_scheduler_vars => SchedulerInv'
  BY SchedulerStepInv
<1>2. SchedulerInv => ContextsKept
  BY DEF SchedulerInv, MachineInv, ContextsKept
<1> QED
  BY <1>1, <1>2, SchedulerInitInv, PTL DEF SchedulerSpec
==============================================================================
