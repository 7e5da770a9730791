------------------------------ MODULE CpuSetup ------------------------------
(***************************************************************************)
(* A processor's way from apic_disable_pic to the end of cpu_initialize    *)
(* (cpu.c), with gdt_initialize (gdt.c), idt_initialize (idt.c),           *)
(* scheduler_initialize (scheduler.c) and root_program (main.c), and the   *)
(* interrupts and exceptions that come once they are enabled.              *)
(*                                                                         *)
(* The processor runs the last of frames, the activations of handlers, or  *)
(* else the code at pc.  An address that a descriptor holds in parts is    *)
(* its low and its high part.  An interrupt whose descriptor is not usable *)
(* becomes a general protection exception, that a double fault, and that   *)
(* resets the machine.  The other processors have tables of their own.     *)
(***************************************************************************)
EXTENDS Integers, SequencesExt, FiniteSetsExt

CONSTANTS Machines,   \* what the machine may be like
          Noise,      \* numbers of the interrupt requests that noise may cause
          Faults,     \* exceptions that a program may cause
          MaxNoise,   \* bound: interrupts caused by noise
          Prompt      \* the timer takes longer than the few instructions behind its start

Machine == [apic : BOOLEAN,   \* its local APIC is enabled
            free : BOOLEAN]   \* nothing is mapped at CPU_APIC_ADDRESS

ASSUME CpuAssumption ==
    /\ Machines \subseteq Machine
    /\ Noise \subseteq 0 .. 16
    /\ Faults \subseteq (0 .. 31) \ {2}
    /\ MaxNoise \in Nat
    /\ Prompt \in BOOLEAN

VARIABLES machine,
          pc, breakpoints,       \* the code that is not a handler's
          frames, enabled,       \* activations; the interrupt flag
          pic_base,              \* the first vector of the two PICs
          fs, tss, cr3,          \* whether FS_BASE, TR and CR3 have been loaded
          idt, idtr,             \* the descriptors that are not zero; IDTR loaded
          registering, half,     \* calls of idt_register_interrupt to come; in one
          current_process, mapped,
          apic_enabled, timer, timer_vector, in_service,   \* the local APIC
          noise, raised          \* what the environment has done

tables == <<fs, tss, cr3, idt, idtr, registering, half, current_process, mapped>>
apic   == <<apic_enabled, timer, timer_vector, in_service>>
environment == <<noise, raised>>
vars == <<machine, pc, breakpoints, frames, enabled, pic_base, tables, apic, environment>>

Masked == -1

\* main.asm has disabled interrupts; the PICs have the vectors of the firmware.
Init == /\ machine \in Machines
        /\ pc = "pic" /\ breakpoints = 0
        /\ frames = <<>> /\ enabled = FALSE
        /\ pic_base = [master |-> 8, slave |-> 112]
        /\ fs = FALSE /\ tss = FALSE /\ cr3 = FALSE
        /\ idt = <<>> /\ idtr = FALSE
        /\ registering = <<>> /\ half = FALSE
        /\ current_process = FALSE /\ mapped = {}
        /\ apic_enabled = FALSE /\ timer = "off" /\ timer_vector = Masked /\ in_service = FALSE
        /\ noise = 0 /\ raised = {}
-----------------------------------------------------------------------------
\* The interrupt descriptor table.
GENERAL_PROTECTION == 13
DOUBLE_FAULT       == 8

Call(vector, handler, gate, stack) ==
    [vector |-> vector % 256, handler |-> handler, gate |-> gate, stack |-> stack]

\* The handlers that return, and all others, which execute cli and hlt.
ExceptionHandler(v) == CASE v = 1 -> "debug" [] v = 3 -> "breakpoint" [] OTHER -> "fatal"

ExceptionCall(v) == Call(v, ExceptionHandler(v),
                         IF v \in {2, DOUBLE_FAULT} THEN "interrupt" ELSE "trap",
                         IF v = DOUBLE_FAULT THEN 1 ELSE 0)
\* The vectors 0 to 14 and 16 to 19.
ExceptionCalls == [k \in 1 .. 19 |-> ExceptionCall(IF k <= 15 THEN k - 1 ELSE k)]

\* Mistake: the loop leaves the last vector out.
SpuriousButLast == [k \in 1 .. 17 |-> Call(255 - 17 + (k - 1), "spurious", "trap", 0)]

\* The vectors 0xff - 17 to 0xff.
SpuriousCalls == [k \in 1 .. 18 |-> Call(255 - 17 + (k - 1), "spurious", "trap", 0)]

SchedulerCall == Call(35, "scheduler", "trap", 2)

Usable(v) == /\ idtr
             /\ v \in DOMAIN idt
             /\ idt[v].low = idt[v].high
             /\ idt[v].stack # 0 => tss

Taken(v) == IF Usable(v) THEN {v} ELSE {w \in {GENERAL_PROTECTION, DOUBLE_FAULT} : Usable(w)}

\* hlt waits for an interrupt; execution goes on behind it.
Woken(fs0) == IF fs0 # <<>> /\ Last(fs0).step = "hlt"
              THEN [fs0 EXCEPT ![Len(fs0)].step = "leave"] ELSE fs0

\* The processor enters the handler of v.
Enter(v) ==
    IF Taken(v) = {}
    THEN pc' = "reset" /\ UNCHANGED <<frames, enabled>>
    ELSE LET d == idt[Max(Taken(v))]
         IN  /\ frames' = Append(Woken(frames), [handler |-> d.low, stack |-> d.stack,
                                                 step |-> "enter", enabled |-> enabled])
             /\ enabled' = (enabled /\ d.gate = "trap")
             /\ UNCHANGED pc
-----------------------------------------------------------------------------
\* The set-up.
At(p) == frames = <<>> /\ pc = p
Goto(p) == pc' = p /\ UNCHANGED <<machine, breakpoints, frames, environment>>

apic_disable_pic == /\ At("pic") /\ Goto("fs")
                    /\ pic_base' = [master |-> 247, slave |-> 239]
                    /\ UNCHANGED <<enabled, tables, apic>>

SetCurrent == /\ At("fs") /\ Goto("gdt")
              /\ fs' = TRUE
              /\ UNCHANGED <<enabled, pic_base, tss, cr3, idt, idtr, registering, half,
                             current_process, mapped, apic>>

gdt_initialize == /\ At("gdt") /\ Goto("idt")
                  /\ tss' = TRUE
                  /\ UNCHANGED <<enabled, pic_base, fs, cr3, idt, idtr, registering, half,
                                 current_process, mapped, apic>>

\* The table is loaded before it is filled.
idt_initialize == /\ At("idt") /\ Goto("exceptions")
                  /\ idt' = <<>> /\ idtr' = TRUE
                  /\ registering' = ExceptionCalls \o SpuriousCalls
                  /\ UNCHANGED <<enabled, pic_base, fs, tss, cr3, half, current_process, mapped, apic>>

\* idt_register_interrupt writes the first part of the address and sets present ...
RegisterFirst ==
    /\ frames = <<>> /\ registering # <<>> /\ ~half
    /\ LET c == Head(registering)
           d == [low |-> c.handler, gate |-> c.gate, stack |-> c.stack,
                 high |-> IF c.vector \in DOMAIN idt THEN idt[c.vector].high ELSE "null"]
       IN  idt' = [v \in DOMAIN idt \cup {c.vector} |-> IF v = c.vector THEN d ELSE idt[v]]
    /\ half' = TRUE
    /\ UNCHANGED <<machine, pc, breakpoints, frames, enabled, pic_base, fs, tss, cr3, idtr,
                   registering, current_process, mapped, apic, environment>>

\* ... then the rest of it.
RegisterRest ==
    /\ frames = <<>> /\ half
    /\ idt' = [idt EXCEPT ![Head(registering).vector].high = Head(registering).handler]
    /\ half' = FALSE
    /\ registering' = Tail(registering)
    /\ UNCHANGED <<machine, pc, breakpoints, frames, enabled, pic_base, fs, tss, cr3, idtr,
                   current_process, mapped, apic, environment>>

\* The process that stands for the running code, with an empty page table.
MakeProcess == /\ At("exceptions") /\ registering = <<>> /\ Goto("identity")
               /\ current_process' = TRUE /\ mapped' = {}
               /\ UNCHANGED <<enabled, pic_base, fs, tss, cr3, idt, idtr, registering, half, apic>>

MapMemory == /\ At("identity") /\ Goto("apic")
             /\ mapped' = mapped \cup {"memory"}
             /\ UNCHANGED <<enabled, pic_base, fs, tss, cr3, idt, idtr, registering, half,
                            current_process, apic>>

\* Mistake: it is not noticed that the address is taken.
MapApicAnyway ==
    /\ At("apic")
    /\ Goto(IF machine.apic THEN "cr3" ELSE "panic")
    /\ mapped' = IF machine.apic /\ machine.free THEN mapped \cup {"apic"} ELSE mapped
    /\ UNCHANGED <<enabled, pic_base, fs, tss, cr3, idt, idtr, registering, half, current_process, apic>>

\* cpu_panic unless the local APIC is enabled and can be mapped.
MapApic ==
    /\ At("apic")
    /\ Goto(IF machine.apic /\ machine.free THEN "cr3" ELSE "panic")
    /\ mapped' = IF machine.apic /\ machine.free THEN mapped \cup {"apic"} ELSE mapped
    /\ UNCHANGED <<enabled, pic_base, fs, tss, cr3, idt, idtr, registering, half, current_process, apic>>

LoadPageTable == /\ At("cr3") /\ Goto("enable")
                 /\ cr3' = current_process
                 /\ UNCHANGED <<enabled, pic_base, fs, tss, idt, idtr, registering, half,
                                current_process, mapped, apic>>

\* spurious_interrupt_vector = 0x1FF; then the stack is exchanged.
EnableApic == /\ At("enable") /\ Goto("scheduler")
              /\ apic_enabled' = TRUE
              /\ UNCHANGED <<enabled, pic_base, tables, timer, timer_vector, in_service>>

scheduler_initialize == /\ At("scheduler") /\ Goto("start timer")
                        /\ registering' = <<SchedulerCall>>
                        /\ UNCHANGED <<enabled, pic_base, fs, tss, cr3, idt, idtr, half,
                                       current_process, mapped, apic>>

\* It starts the timer before it sets the timer's vector.
StartTimer == /\ At("start timer") /\ registering = <<>> /\ Goto("vector")
              /\ timer' = "running"
              /\ UNCHANGED <<enabled, pic_base, tables, apic_enabled, timer_vector, in_service>>

SetTimerVector == /\ At("vector") /\ Goto("sti")
                  /\ timer_vector' = SchedulerCall.vector
                  /\ UNCHANGED <<enabled, pic_base, tables, apic_enabled, timer, in_service>>

EnableInterrupts == /\ At("sti") /\ Goto("program")
                    /\ enabled' = TRUE
                    /\ UNCHANGED <<pic_base, tables, apic>>

\* root_program executes int3 five times.
Breakpoint == /\ At("program") /\ breakpoints < 5
              /\ breakpoints' = breakpoints + 1
              /\ Enter(3)
              /\ UNCHANGED <<machine, pic_base, tables, apic, environment>>

\* It returns to the loop of hlt at the end of cpu_initialize.
Idle == /\ At("program") /\ breakpoints = 5 /\ Goto("idle")
        /\ UNCHANGED <<enabled, pic_base, tables, apic>>
-----------------------------------------------------------------------------
\* The handlers.
Top == Last(frames)
Step(f) == frames' = [frames EXCEPT ![Len(frames)].step = f]

Return == /\ frames # <<>>
          /\ \/ Top.step = "enter" /\ Top.handler \in {"debug", "breakpoint", "spurious"}
             \/ Top.step = "leave"
          /\ frames' = Front(frames)
          /\ enabled' = Top.enabled
          /\ UNCHANGED <<machine, pc, breakpoints, pic_base, tables, apic, environment>>

\* Mistake: the handler halts with interrupts enabled.
HaltOnly == /\ frames # <<>> /\ Top.handler = "fatal" /\ Top.step = "enter"
            /\ Step("hlt")
            /\ UNCHANGED <<machine, pc, breakpoints, enabled, pic_base, tables, apic, environment>>

\* The message is printed; then cli and hlt.
Halt == /\ frames # <<>> /\ Top.handler = "fatal" /\ Top.step = "enter"
        /\ Step("hlt")
        /\ enabled' = FALSE
        /\ UNCHANGED <<machine, pc, breakpoints, pic_base, tables, apic, environment>>

\* Mistake: the interrupt is not acknowledged.
SwitchUnacknowledged ==
    /\ frames # <<>> /\ Top.handler = "scheduler" /\ Top.step = "enter"
    /\ Step("switch")
    /\ UNCHANGED <<machine, pc, breakpoints, enabled, pic_base, tables, apic, environment>>

\* scheduler_handle_interrupt: end_of_interrupt; with one process, nothing to switch to.
Acknowledge ==
    /\ frames # <<>> /\ Top.handler = "scheduler" /\ Top.step = "enter"
    /\ in_service' = FALSE
    /\ Step("switch")
    /\ UNCHANGED <<machine, pc, breakpoints, enabled, pic_base, tables, apic_enabled, timer,
                   timer_vector, environment>>

Restart == /\ frames # <<>> /\ Top.handler = "scheduler" /\ Top.step = "switch"
           /\ timer' = "running"
           /\ Step("leave")
           /\ UNCHANGED <<machine, pc, breakpoints, enabled, pic_base, tables, apic_enabled,
                          timer_vector, in_service, environment>>
-----------------------------------------------------------------------------
\* The environment.
Starting == \/ pc = "vector"
            \/ \E k \in DOMAIN frames : frames[k].handler = "scheduler" /\ frames[k].step = "leave"

\* The timer is one-shot, and an interrupt for which there is no vector is lost.
TimerExpires == /\ timer = "running" /\ (Prompt => ~Starting)
                /\ timer' = IF timer_vector = Masked THEN "off" ELSE "expired"
                /\ UNCHANGED <<machine, pc, breakpoints, frames, enabled, pic_base, tables,
                               apic_enabled, timer_vector, in_service, environment>>

TimerInterrupt == /\ enabled /\ pc # "reset"
                  /\ apic_enabled /\ timer = "expired" /\ ~in_service
                  /\ timer' = "off" /\ in_service' = TRUE
                  /\ Enter(timer_vector)
                  /\ UNCHANGED <<machine, breakpoints, pic_base, tables, apic_enabled,
                                 timer_vector, environment>>

\* Requests 0 to 15 are the PICs', 16 is the local APIC's.
NoiseVector(irq) == CASE irq < 8  -> pic_base.master + irq
                      [] irq = 16 -> 255
                      [] OTHER    -> pic_base.slave + irq - 8

NoiseInterrupt(irq) == /\ enabled /\ pc # "reset" /\ noise < MaxNoise
                       /\ irq = 16 => apic_enabled
                       /\ noise' = noise + 1
                       /\ Enter(NoiseVector(irq))
                       /\ UNCHANGED <<machine, breakpoints, pic_base, tables, apic, raised>>

Fault(v) == /\ frames = <<>> /\ pc \in {"program", "idle"}
            /\ raised \subseteq {2}
            /\ raised' = raised \cup {v}
            /\ Enter(v)
            /\ UNCHANGED <<machine, breakpoints, pic_base, tables, apic, noise>>

NonMaskable == /\ pc \in {"program", "idle"} /\ 2 \notin raised
               /\ raised' = raised \cup {2}
               /\ Enter(2)
               /\ UNCHANGED <<machine, breakpoints, pic_base, tables, apic, noise>>

SetUp ==
    \/ apic_disable_pic \/ SetCurrent \/ gdt_initialize \/ idt_initialize
    \/ RegisterFirst \/ RegisterRest \/ MakeProcess \/ MapMemory \/ MapApic \/ LoadPageTable
    \/ EnableApic \/ scheduler_initialize \/ StartTimer \/ SetTimerVector \/ EnableInterrupts
    \/ Breakpoint \/ Idle
Handle == Return \/ Halt \/ Acknowledge \/ Restart

\* What the timer's handler may interrupt.
Interruptible == SetUp \/ (Handle /\ Top.handler # "scheduler")

Next == \/ SetUp \/ Handle
        \/ TimerExpires \/ TimerInterrupt
        \/ \E irq \in Noise : NoiseInterrupt(irq)
        \/ \E v \in Faults : Fault(v)
        \/ NonMaskable

Spec == Init /\ [][Next]_vars

\* The processor executes and takes interrupts; the timer counts, for longer than its
\* handler takes, so that the interrupted code goes on between two of its interrupts.
\* Noise ends.
FairSpec == /\ Spec
            /\ SF_vars(Interruptible) /\ WF_vars(Handle)
            /\ WF_vars(TimerExpires) /\ WF_vars(TimerInterrupt)
-----------------------------------------------------------------------------
Handlers == {"debug", "breakpoint", "fatal", "spurious", "scheduler"}
HasFatal == \E k \in DOMAIN frames : frames[k].handler = "fatal"

TypeOK ==
    /\ machine \in Machines
    /\ pc \in {"pic", "fs", "gdt", "idt", "exceptions", "identity", "apic", "cr3", "enable",
               "scheduler", "start timer", "vector", "sti", "program", "idle", "panic", "reset"}
    /\ breakpoints \in 0 .. 5
    /\ \A k \in DOMAIN frames :
           frames[k] \in [handler : Handlers, stack : 0 .. 2, enabled : BOOLEAN,
                          step : {"enter", "switch", "hlt", "leave"}]
    /\ {enabled, fs, tss, cr3, idtr, half, current_process, apic_enabled, in_service} \subseteq BOOLEAN
    /\ pic_base \in [master : 0 .. 248, slave : 0 .. 248]
    /\ \A v \in DOMAIN idt :
           /\ v \in 0 .. 255
           /\ idt[v] \in [low : Handlers, high : Handlers \cup {"null"}, stack : 0 .. 2,
                          gate : {"interrupt", "trap"}]
    /\ mapped \subseteq {"memory", "apic"}
    /\ timer \in {"off", "running", "expired"}
    /\ timer_vector \in {Masked} \cup (0 .. 255)
    /\ noise \in 0 .. MaxNoise
    /\ raised \subseteq 0 .. 31

\* cpu.h, idt.h, "cpu_initialize must be called first!!": what the code uses when it
\* writes a descriptor or accesses CPU_APIC, in the set-up and in the timer's
\* handler, is there: FS_BASE, the current process and the loaded page table.
NothingMissing ==
    /\ registering # <<>> => fs /\ idtr
    /\ \/ pc \in {"enable", "scheduler", "start timer", "vector", "sti", "program", "idle"}
       \/ \E k \in DOMAIN frames : frames[k].handler = "scheduler"
       => fs /\ current_process /\ cr3 /\ {"memory", "apic"} \subseteq mapped

\* apic.c, "so it does not trigger random system interrupts (like exception
\* interrupts at worst)": whenever noise, the timer and int3 come, the machine is not
\* reset, and no exception's handler stops it that no program caused.
NoUnexpected == pc # "reset" /\ (HasFatal => raised \ {1, 3} # {})

\* idt.h, "the stack cannot be used by multiple interrupts at the same time".
IstExclusive == \A k, l \in DOMAIN frames :
    k # l => frames[k].stack = 0 \/ frames[k].stack # frames[l].stack

\* idt.c: what caused a fatal exception never goes on, whatever interrupts come.
FatalStops == [][HasFatal => HasFatal']_vars

Stopped == HasFatal \/ pc = "panic"

\* scheduler.c, "when an scheduler interrupt is done, it re-enables the one-shot
\* mode": the timer keeps interrupting until the processor is stopped.
Ticks == []<>(Stopped \/ \E k \in DOMAIN frames : frames[k].handler = "scheduler")
=============================================================================
