----------------------------- MODULE Scheduler -----------------------------
(***************************************************************************)
(* The scheduler of one CPU, scheduler.c and schedule.asm: a ring of       *)
(* processes, a one-shot timer whose interrupt switches to the next one,   *)
(* and scheduler_execute, which links a new process behind the running one *)
(* and can itself be interrupted.                                          *)
(*                                                                         *)
(* A context (instruction and stack pointer, flags and the registers that  *)
(* schedule.asm pushes) is the process it belongs to and a step that       *)
(* changes as the process runs.  The other registers, r12 to r15, are just *)
(* the process that wrote them last.  The interrupt stack has room for one *)
(* frame: the processor starts at its top at every interrupt.              *)
(***************************************************************************)
EXTENDS Naturals, FiniteSets

CONSTANTS Procs,         \* processes, created and to be created
          Dummy,         \* the process cpu_initialize makes for the running code
          NoProc,
          Steps,         \* bound: steps of a context are counted modulo Steps
          LateReturn     \* the timer may expire before the handler has returned

ASSUME SchedulerAssumption == /\ Dummy \in Procs
                              /\ NoProc \notin Procs
                              /\ Steps \in Nat \ {0}
                              /\ LateReturn \in BOOLEAN

VARIABLES current_process,
          next, previous,      \* the pointers of struct scheduler_process
          saved,               \* its saved_* fields
          id,                  \* its id
          current_process_id,  \* the static counter
          linked,              \* the processes in the ring
          live,                \* the context in the processor
          others,              \* r12..r15 in the processor: who wrote them
          cr3,                 \* whose level 4 table is loaded
          frame,               \* the frame on the interrupt stack
          mode,                \* "user", or where the handler is
          enabled,             \* the interrupt flag
          timer,               \* "off", "running" or "expired"
          exec, making, loaded, \* each process in scheduler_execute: its step, the
                               \* process it makes and the id it read
          real,                \* history: each process's own context
          wrote                \* history: whether it has written r12..r15

machine == <<live, others, cr3, frame, mode, enabled, timer>>
ring    == <<next, previous, linked>>
creating == <<exec, making, loaded, id, current_process_id>>
scheduler_vars == <<current_process, ring, saved, machine, creating, real, wrote>>

Context(p, s) == [owner |-> p, step |-> s]
Contexts == [owner : Procs \cup {NoProc}, step : 0 .. (Steps - 1)]
\* The end of scheduler_interrupt, which pops the frame and returns.
HandlerEnd == Context(NoProc, 0)

\* cpu_initialize makes the running code a process, alone in the ring, then
\* scheduler_initialize starts the timer.
SchedulerInit == /\ current_process = Dummy
                 /\ next = [p \in Procs |-> IF p = Dummy THEN Dummy ELSE NoProc]
                 /\ previous = next
                 /\ linked = {Dummy}
                 /\ saved = [p \in Procs |-> HandlerEnd]
                 /\ id = [p \in Procs |-> IF p = Dummy THEN 20 ELSE 0]
                 /\ current_process_id = 0
                 /\ live = Context(Dummy, 0)
                 /\ others = Dummy
                 /\ cr3 = Dummy
                 /\ frame = HandlerEnd
                 /\ mode = "user"
                 /\ enabled = TRUE
                 /\ timer = "running"
                 /\ exec = [p \in Procs |-> "none"]
                 /\ making = [p \in Procs |-> NoProc]
                 /\ loaded = [p \in Procs |-> 0]
                 /\ real = [p \in Procs |-> Context(p, 0)]
                 /\ wrote = [p \in Procs |-> FALSE]
-----------------------------------------------------------------------------
\* The running process computes, with every register.
Run == /\ mode = "user"
       /\ live' = [live EXCEPT !.step = (@ + 1) % Steps]
       /\ real' = [real EXCEPT ![current_process] = live']
       /\ others' = live.owner
       /\ wrote' = [wrote EXCEPT ![current_process] = TRUE]
       /\ UNCHANGED <<current_process, ring, saved, cr3, frame, mode, enabled, timer, creating>>

TimerExpires == /\ timer = "running"
                /\ mode = "user" \/ LateReturn
                /\ timer' = "expired"
                /\ UNCHANGED <<current_process, ring, saved, live, others, cr3, frame, mode,
                               enabled, creating, real, wrote>>

\* The processor pushes its frame on the interrupt stack and scheduler_interrupt
\* the registers.  A trap gate leaves interrupts enabled, so the handler itself
\* can be interrupted, once it has restarted the timer.
Interrupt == /\ timer = "expired"
             /\ enabled
             /\ mode \in {"user", "return"}
             /\ frame' = IF mode = "user" THEN live ELSE HandlerEnd
             /\ timer' = "off"
             /\ mode' = "switch"
             /\ UNCHANGED <<current_process, ring, saved, live, others, cr3, enabled,
                            creating, real, wrote>>

\* Mistake: the frame is saved after the next context was put in its place.
SaveTooLate ==
    /\ mode = "switch"
    /\ LET n == next[current_process]
       IN  IF n # current_process
           THEN /\ saved' = [saved EXCEPT ![current_process] = saved[n]]
                /\ frame' = saved[n]
                /\ cr3' = n
                /\ current_process' = n
           ELSE UNCHANGED <<saved, frame, cr3, current_process>>
    /\ mode' = "restart"
    /\ UNCHANGED <<ring, live, others, enabled, timer, creating, real, wrote>>

\* scheduler_handle_interrupt: save the frame in the current process, put the
\* next one's in its place.  Registers that are not in the frame stay as they are.
SwitchProcess ==
    /\ mode = "switch"
    /\ LET n == next[current_process]
       IN  IF n # current_process
           THEN /\ saved' = [saved EXCEPT ![current_process] = frame]
                /\ frame' = saved[n]
                /\ cr3' = n
                /\ current_process' = n
           ELSE UNCHANGED <<saved, frame, cr3, current_process>>
    /\ mode' = "restart"
    /\ UNCHANGED <<ring, live, others, enabled, timer, creating, real, wrote>>

\* Mistake: the one-shot timer is not started again.
TimerLeftOff == /\ mode = "restart"
                /\ mode' = "return"
                /\ UNCHANGED <<current_process, ring, saved, live, others, cr3, frame, enabled,
                               timer, creating, real, wrote>>

RestartTimer == /\ mode = "restart"
                /\ timer' = "running"
                /\ mode' = "return"
                /\ UNCHANGED <<current_process, ring, saved, live, others, cr3, frame, enabled,
                               creating, real, wrote>>

\* The registers are popped and iretq resumes what the frame says.
ReturnFromInterrupt ==
    /\ mode = "return"
    /\ live' = frame
    /\ mode' = IF frame = HandlerEnd THEN "return" ELSE "user"
    /\ UNCHANGED <<current_process, ring, saved, others, cr3, frame, enabled, timer,
                   creating, real, wrote>>
-----------------------------------------------------------------------------
\* scheduler_execute, called by the running process p to make q: the statement
\* current_process_id++ is a load and a store.
Running(p, step) == mode = "user" /\ live.owner = p /\ exec[p] = step

LoadId(p, q) ==
    /\ Running(p, "none")
    /\ q \notin linked /\ \A r \in Procs : making[r] # q
    /\ making' = [making EXCEPT ![p] = q]
    /\ loaded' = [loaded EXCEPT ![p] = current_process_id]
    /\ exec' = [exec EXCEPT ![p] = "id"]
    /\ UNCHANGED <<current_process, ring, saved, machine, id, current_process_id, real, wrote>>

\* Then q gets its page table, stack and first context; cli.
StoreId(p) ==
    /\ Running(p, "id")
    /\ current_process_id' = loaded[p] + 1
    /\ id' = [id EXCEPT ![making[p]] = loaded[p]]
    /\ exec' = [exec EXCEPT ![p] = "prepared"]
    /\ UNCHANGED <<current_process, ring, saved, machine, making, loaded, real, wrote>>

Prepare(p) ==
    /\ Running(p, "prepared")
    /\ saved' = [saved EXCEPT ![making[p]] = Context(making[p], 0)]
    /\ enabled' = FALSE
    /\ exec' = [exec EXCEPT ![p] = "cli"]
    /\ UNCHANGED <<current_process, ring, live, others, cr3, frame, mode, timer, making, loaded,
                   id, current_process_id, real, wrote>>

\* Mistake: the new process points back to the current one instead of to the
\* one that followed it.
LinkBack(p) ==
    /\ Running(p, "cli")
    /\ next' = [next EXCEPT ![making[p]] = current_process]
    /\ previous' = [previous EXCEPT ![making[p]] = current_process]
    /\ exec' = [exec EXCEPT ![p] = "link"]
    /\ UNCHANGED <<current_process, linked, saved, machine, making, loaded, id,
                   current_process_id, real, wrote>>

\* The new process points to its neighbours; then the current one to it.  The
\* previous pointer of the process behind it is left as it was.
LinkNew(p) ==
    /\ Running(p, "cli")
    /\ next' = [next EXCEPT ![making[p]] = next[current_process]]
    /\ previous' = [previous EXCEPT ![making[p]] = current_process]
    /\ exec' = [exec EXCEPT ![p] = "link"]
    /\ UNCHANGED <<current_process, linked, saved, machine, making, loaded, id,
                   current_process_id, real, wrote>>

LinkCurrent(p) ==
    /\ Running(p, "link")
    /\ next' = [next EXCEPT ![current_process] = making[p]]
    /\ linked' = linked \cup {making[p]}
    /\ exec' = [exec EXCEPT ![p] = "sti"]
    /\ UNCHANGED <<current_process, previous, saved, machine, making, loaded, id,
                   current_process_id, real, wrote>>

EnableInterrupts(p) ==
    /\ Running(p, "sti")
    /\ enabled' = TRUE
    /\ exec' = [exec EXCEPT ![p] = "none"]
    /\ making' = [making EXCEPT ![p] = NoProc]
    /\ UNCHANGED <<current_process, ring, saved, live, others, cr3, frame, mode, timer, loaded,
                   id, current_process_id, real, wrote>>

\* What scheduler_execute does once it has been called.
ExecuteStep(p) == \/ StoreId(p) \/ Prepare(p) \/ LinkNew(p) \/ LinkCurrent(p)
                  \/ EnableInterrupts(p)

Handle == Interrupt \/ SwitchProcess \/ RestartTimer \/ ReturnFromInterrupt

SchedulerNext == \/ Run \/ TimerExpires \/ Handle
                 \/ \E p \in Procs : ExecuteStep(p) \/ \E q \in Procs : LoadId(p, q)

SchedulerSpec == SchedulerInit /\ [][SchedulerNext]_scheduler_vars

\* The timer expires and is served, and a process in scheduler_execute goes on
\* while it runs; it has to run often enough, however rarely, so strong fairness.
SchedulerFairSpec == /\ SchedulerSpec
                     /\ WF_scheduler_vars(TimerExpires) /\ WF_scheduler_vars(Handle)
                     /\ \A p \in Procs : SF_scheduler_vars(ExecuteStep(p))
-----------------------------------------------------------------------------
SchedulerTypeOK ==
    /\ current_process \in Procs
    /\ next \in [Procs -> Procs \cup {NoProc}]
    /\ previous \in [Procs -> Procs \cup {NoProc}]
    /\ linked \subseteq Procs
    /\ \A p \in linked : next[p] \in Procs /\ previous[p] \in Procs
    /\ saved \in [Procs -> Contexts] /\ real \in [Procs -> Contexts]
    /\ id \in [Procs -> Nat] /\ current_process_id \in Nat
    /\ live \in Contexts /\ frame \in Contexts
    /\ others \in Procs \cup {NoProc} /\ cr3 \in Procs
    /\ mode \in {"user", "switch", "restart", "return"}
    /\ enabled \in BOOLEAN
    /\ timer \in {"off", "running", "expired"}
    /\ exec \in [Procs -> {"none", "id", "prepared", "cli", "link", "sti"}]
    /\ making \in [Procs -> Procs \cup {NoProc}]
    /\ loaded \in [Procs -> Nat]
    /\ wrote \in [Procs -> BOOLEAN]

\* scheduler.c: the ring is one cycle through all its processes, whenever an
\* interrupt may follow it: no set of processes is closed under next but all.
OneRing == /\ current_process \in linked
           /\ \A p \in linked : next[p] \in linked
           /\ \A S \in SUBSET linked : S # {} /\ (\A p \in S : next[p] \in S) => S = linked

\* scheduler.c: every process gets back, in its own address space, exactly the
\* context it was interrupted with.
ContextsKept == /\ mode = "user" => live = real[current_process] /\ cr3 = current_process
                /\ \A p \in linked \ {current_process} : saved[p] = real[p]

\* scheduler.h: the registers are saved during a task switch: r12 to r15 too.
AllRegistersKept == mode = "user" /\ wrote[current_process] => others = current_process

\* scheduler.h: previous points to the previous process of the ring, when no
\* insertion is half way.
PreviousIsInverse == (\A p \in Procs : exec[p] # "link") =>
                        \A p \in linked : next[previous[p]] = p

\* scheduler.h: the id is the process's own.
UniqueIds == \A p, q \in linked : p # q => id[p] # id[q]

\* scheduler.c: round robin: every process of the ring runs again and again.
EveryoneRuns == \A p \in Procs : p \in linked ~> mode = "user" /\ current_process = p
=============================================================================
