------------------------------- MODULE Mutex -------------------------------
(***************************************************************************)
(* What lock.h promises of a lock: lock_acquire "waits until the current   *)
(* CPU has acquired the lock", and the lock is released by the CPU that    *)
(* acquired it.  An acquisition is one atomic step here; SpinLock shows    *)
(* that the instructions of lock.c implement this module on an x86 memory. *)
(***************************************************************************)

CONSTANTS Actors,     \* the CPUs (or preempted processes) that call the kernel
          NoActor     \* "the lock is free"

ASSUME NoActorAssumption == NoActor \notin Actors

VARIABLE holder       \* the actor that holds the lock, or NoActor

MutexInit == holder = NoActor

\* lock_acquire returns (or lock_try_acquire returns non-zero).
Acquire(a) == /\ holder = NoActor
              /\ holder' = a

\* lock_release.
Release(a) == /\ holder = a
              /\ holder' = NoActor

MutexNext == \E a \in Actors : Acquire(a) \/ Release(a)

MutexSpec == MutexInit /\ [][MutexNext]_holder
=============================================================================
