------------------------------ MODULE SpinLock ------------------------------
(***************************************************************************)
(* lock.c on the memory of an x86 multiprocessor.  A store enters the      *)
(* FIFO store buffer of its CPU and reaches the shared memory later; a     *)
(* load takes the newest buffered store of its own CPU, else the memory; a *)
(* LOCK-prefixed cmpxchg first waits for its CPU's buffer to drain, then   *)
(* reads and writes the memory in one step.  lock_release is a PLAIN store *)
(* behind a compiler barrier, so nothing but the order of the buffer makes *)
(* the writes of a critical section visible before the lock is seen free.  *)
(*                                                                         *)
(* data stands for what the lock protects (the statics of                  *)
(* memory_physical.c); every critical section reads it and writes the next *)
(* version.  Versions are counted modulo Versions, which keeps the state   *)
(* space finite without ever stopping the system.                          *)
(***************************************************************************)
EXTENDS Naturals, Sequences

CONSTANTS Actors, NoActor,
          Versions      \* bound: data versions are counted modulo Versions

ASSUME SpinLockAssumption == /\ NoActor \notin Actors
                             /\ Versions \in Nat \ {0, 1}

VARIABLES lock_state,   \* *lock_state in the shared memory
          data,         \* the protected variable in the shared memory
          buf,          \* buf[a]: the store buffer of a's CPU
          pc,           \* pc[a]: where a is in lock.c or in its critical section
          copy,         \* copy[a]: what a read of data in its critical section
          version       \* history: the version written last, in program order

vars == <<lock_state, data, buf, pc, copy, version>>

Data == 0 .. (Versions - 1)
Bump(v) == (v + 1) % Versions

\* Stores waiting in a buffer.
DataStore(v) == [to |-> "data", val |-> v]
Unlock       == [to |-> "lock", val |-> 0]
Stores       == {DataStore(v) : v \in Data} \cup {Unlock}

PCs == {"idle", "cmpxchg", "spin", "critical", "loaded", "stored"}

Init == /\ lock_state = 0
        /\ data = 0
        /\ version = 0
        /\ buf = [a \in Actors |-> <<>>]
        /\ pc = [a \in Actors |-> "idle"]
        /\ copy = [a \in Actors |-> 0]

Goto(a, l) == pc' = [pc EXCEPT ![a] = l]

\* A store instruction of a's CPU.
Store(a, s) == buf' = [buf EXCEPT ![a] = Append(@, s)]

-----------------------------------------------------------------------------
\* lock_acquire is called.
lock_acquire(a) == /\ pc[a] = "idle"
                   /\ Goto(a, "cmpxchg")
                   /\ UNCHANGED <<lock_state, data, buf, copy, version>>

\* The locked compare-and-exchange of lock_acquire: take the lock if it is
\* free, else go and spin.
CmpXchg(a) == /\ pc[a] = "cmpxchg"
              /\ buf[a] = <<>>
              /\ lock_state' = 1
              /\ Goto(a, IF lock_state = 0 THEN "critical" ELSE "spin")
              /\ UNCHANGED <<data, buf, copy, version>>

\* Mistake: the condition of the loop is the wrong way round.
SpinWhileFree(a) == /\ pc[a] = "spin"
                    /\ lock_state = 1
                    /\ Goto(a, "cmpxchg")
                    /\ UNCHANGED <<lock_state, data, buf, copy, version>>

\* do { pause } while (*lock_state): leave the loop once the lock is seen free.
Spin(a) == /\ pc[a] = "spin"
           /\ lock_state = 0
           /\ Goto(a, "cmpxchg")
           /\ UNCHANGED <<lock_state, data, buf, copy, version>>

\* Mistake: the result of the compare-and-exchange is not looked at.
TryAlwaysAcquires(a) == /\ pc[a] = "idle"
                        /\ buf[a] = <<>>
                        /\ lock_state' = 1
                        /\ Goto(a, "critical")
                        /\ UNCHANGED <<data, buf, copy, version>>

\* lock_try_acquire: one compare-and-exchange; on failure it returns 0 and
\* the caller is where it was.
lock_try_acquire(a) == /\ pc[a] = "idle"
                       /\ buf[a] = <<>>
                       /\ lock_state' = 1
                       /\ IF lock_state = 0 THEN Goto(a, "critical") ELSE UNCHANGED pc
                       /\ UNCHANGED <<data, buf, copy, version>>

\* The protected code: read data, then write the next version.
Load(a) == /\ pc[a] = "critical"
           /\ copy' = [copy EXCEPT ![a] = data]
           /\ Goto(a, "loaded")
           /\ UNCHANGED <<lock_state, data, buf, version>>

Write(a) == /\ pc[a] = "loaded"
            /\ version' = Bump(version)
            /\ Store(a, DataStore(Bump(copy[a])))
            /\ Goto(a, "stored")
            /\ UNCHANGED <<lock_state, data, copy>>

\* Mistake: the releasing store overtakes the stores before it.
ReleaseOvertakes(a) == /\ pc[a] = "stored"
                       /\ lock_state' = 0
                       /\ Goto(a, "idle")
                       /\ UNCHANGED <<data, buf, copy, version>>

\* lock_release: a plain store of 0.
lock_release(a) == /\ pc[a] = "stored"
                   /\ Store(a, Unlock)
                   /\ Goto(a, "idle")
                   /\ UNCHANGED <<lock_state, data, copy, version>>

\* The hardware moves the oldest store of a buffer to the memory.
Drain(a) == /\ buf[a] # <<>>
            /\ buf' = [buf EXCEPT ![a] = Tail(@)]
            /\ IF Head(buf[a]).to = "lock"
               THEN /\ lock_state' = Head(buf[a]).val
                    /\ UNCHANGED data
               ELSE /\ data' = Head(buf[a]).val
                    /\ UNCHANGED lock_state
            /\ UNCHANGED <<pc, copy, version>>

\* Steps a CPU takes by itself once lock_acquire has been called.
Step(a) == CmpXchg(a) \/ Spin(a) \/ Load(a) \/ Write(a) \/ lock_release(a)

Next == \E a \in Actors :
            lock_acquire(a) \/ lock_try_acquire(a) \/ Step(a) \/ Drain(a)

Spec == Init /\ [][Next]_vars

\* A CPU inside lock.c or a critical section keeps executing (no interrupt
\* handler of the kernel takes the lock or fails to return), and store buffers
\* drain.  Nothing is assumed of who wins a race for the lock.
Fairness == \A a \in Actors : WF_vars(Step(a)) /\ WF_vars(Drain(a))

FairSpec == Spec /\ Fairness
-----------------------------------------------------------------------------
TypeOK == /\ lock_state \in {0, 1}
          /\ data \in Data
          /\ version \in Data
          /\ buf \in [Actors -> Seq(Stores)]
          /\ pc \in [Actors -> PCs]
          /\ copy \in [Actors -> Data]

InCritical(a) == pc[a] \in {"critical", "loaded", "stored"}

\* a has the lock as the memory sees it: a is in its critical section, or its
\* releasing store has not left the buffer yet.
Releasing(a) == \E i \in DOMAIN buf[a] : buf[a][i] = Unlock
Holds(a)     == InCritical(a) \/ Releasing(a)

\* lock.c: a CPU that enters the critical section sees every write of the
\* critical sections before it ("make sure all memory operations have been
\* done before unlocking the lock"), although the release is a plain store.
SeesEarlierSections == \A a \in Actors : pc[a] = "critical" => data = version

\* lock.c: no update made under the lock is ever lost, including those still in
\* a store buffer: once all buffers are drained and nobody is inside, the
\* memory holds the last version.
NoLostUpdate == (\A a \in Actors : buf[a] = <<>> /\ ~InCritical(a))
                    => data = version /\ lock_state = 0

\* The lock that the memory shows, for the refinement.
HolderOf == IF \E a \in Actors : Holds(a) THEN CHOOSE a \in Actors : Holds(a)
                                          ELSE NoActor

\* lock.h: the spin lock implements the atomic lock of Mutex; a releasing store
\* releases when it reaches the memory.
M == INSTANCE Mutex WITH holder <- HolderOf
ImplementsMutex == M!MutexSpec

\* Deadlock freedom of lock_acquire: whenever somebody waits, somebody gets in.
\* (Which one is not promised: a CPU can lose every race.)
SomeoneGetsIn == (\E a \in Actors : pc[a] \in {"cmpxchg", "spin"})
                     ~> (\E a \in Actors : InCritical(a))
=============================================================================
