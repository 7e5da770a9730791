--------------------------- MODULE CpuSetupProofs ---------------------------
(***************************************************************************)
(* Proofs about CpuSetup, for any machines, any noise and any exceptions.  *)
(*                                                                         *)
(* The set-up is a line of steps, each of which leaves behind what later   *)
(* ones need (PhaseInv).  The table of descriptors only ever contains what *)
(* the calls of idt_register_interrupt write, and each descriptor that is  *)
(* due is complete or its call is still to come (TableInv); so the table   *)
(* is complete once interrupts can come, and the processor enters the      *)
(* handler that was meant.  A handler that has stopped is on the top with  *)
(* interrupts disabled, or only the non-maskable interrupt is above it,    *)
(* which is the last one (FrameInv).                                       *)
(***************************************************************************)
EXTENDS CpuSetup, TLAPS

Frame == [handler : Handlers, stack : 0 .. 2, enabled : BOOLEAN,
          step : {"enter", "switch", "hlt", "leave"}]

\* The vectors that are registered, and the call for each.
Vectors == (0 .. 14) \cup (16 .. 19) \cup (238 .. 255) \cup {35}
CallOf(v) == IF v = 35 THEN SchedulerCall
             ELSE IF v >= 238 THEN Call(v, "spurious", "trap", 0) ELSE ExceptionCall(v)

\* The descriptor of v, with this high part of the address.
Descriptor(v, high) == [low |-> CallOf(v).handler, gate |-> CallOf(v).gate,
                        stack |-> CallOf(v).stack, high |-> high]
Written(v) == v \in DOMAIN idt /\ idt[v] = Descriptor(v, CallOf(v).handler)
ToCome(v)  == \E j \in DOMAIN registering : registering[j] = CallOf(v)

\* Where the set-up is.
Running  == {"program", "idle"}
AfterReg == {"vector", "sti"} \cup Running
AfterSch == {"start timer"} \cup AfterReg
AfterCr3 == {"enable", "scheduler"} \cup AfterSch
AfterApic == {"cr3"} \cup AfterCr3
AfterMap == {"apic", "panic"} \cup AfterApic
AfterPro == {"identity"} \cup AfterMap
AfterIdt == {"exceptions"} \cup AfterPro
AfterGdt == {"idt"} \cup AfterIdt
AfterFs  == {"gdt"} \cup AfterGdt
AfterPic == {"fs"} \cup AfterFs

\* Where apic_disable_pic puts the PICs' vectors.
Remapped == [master |-> 247, slave |-> 239]

\* What the steps of the set-up leave behind.
PhaseInv ==
    /\ pc \in {"pic"} \cup AfterPic
    /\ pc \in AfterPic => pic_base = Remapped
    /\ pc \in AfterFs => fs
    /\ pc \in AfterGdt => tss
    /\ pc \in AfterIdt => idtr
    /\ pc \in AfterPro => current_process
    /\ pc \in AfterMap => "memory" \in mapped
    /\ pc \in AfterApic => "apic" \in mapped
    /\ pc \in AfterCr3 => cr3
    /\ enabled \/ frames # <<>> => pc \in Running
    /\ registering # <<>> => pc \in {"exceptions", "start timer"}
    /\ timer_vector \in {Masked, 35}
    /\ timer = "expired" => timer_vector = 35

\* The descriptors.
TableInv ==
    /\ registering \in Seq({CallOf(v) : v \in Vectors})
    /\ \A v \in DOMAIN idt : v \in Vectors /\ idt[v] \in {Descriptor(v, CallOf(v).handler),
                                                         Descriptor(v, "null")}
    /\ half => registering # <<>> /\ Head(registering).vector \in DOMAIN idt
    /\ \A v \in Vectors : pc \in (IF v = 35 THEN AfterSch ELSE AfterIdt)
                          => Written(v) \/ ToCome(v)

\* The handlers.
FrameInv ==
    /\ frames \in Seq(Frame)
    /\ HasFatal => raised \ {1, 3} # {}
    /\ \A k \in DOMAIN frames : frames[k].step = "hlt" =>
           k = Len(frames) /\ ~enabled /\ frames[k].handler = "fatal"
    /\ \A k \in DOMAIN frames : frames[k].handler = "fatal" /\ frames[k].step = "leave" =>
           /\ k < Len(frames) /\ 2 \in raised /\ ~enabled
           /\ frames[Len(frames)].handler = "fatal"
           /\ frames[Len(frames)].step # "leave"

\* The timer is not running, or has just been started, while its handler runs.
TimerInv ==
    /\ \A k \in DOMAIN frames : frames[k].handler = "scheduler" =>
           /\ timer # "expired"
           /\ frames[k].step \in {"enter", "switch"} => timer = "off"
    /\ \A k \in DOMAIN frames : /\ frames[k].stack = 2 => frames[k].handler = "scheduler"
                                /\ frames[k].stack = 1 => k = 1
    /\ \A k, l \in DOMAIN frames :
           frames[k].handler = "scheduler" /\ frames[l].handler = "scheduler" => k = l

Inv == TypeOK /\ PhaseInv /\ TableInv /\ FrameInv /\ (Prompt => TimerInv)
-----------------------------------------------------------------------------
\* The calls of idt_register_interrupt.
CallType == [vector : 0 .. 255, handler : Handlers, gate : {"interrupt", "trap"}, stack : 0 .. 2]

LEMMA CallFacts ==
    ASSUME NEW v \in Vectors
    PROVE  /\ CallOf(v) \in CallType
           /\ CallOf(v).vector = v
<1>0. v \in 0 .. 255 /\ v % 256 = v
  BY DEF Vectors
<1>1. CASE v = 35
  BY <1>0, <1>1 DEF CallOf, SchedulerCall, Call, CallType, Handlers
<1>2. CASE v # 35 /\ v >= 238
  BY <1>0, <1>2 DEF CallOf, Call, CallType, Handlers
<1>3. CASE v # 35 /\ ~(v >= 238)
  <2>1. ExceptionHandler(v) \in Handlers
    BY DEF ExceptionHandler, Handlers
  <2>2. CallOf(v) = ExceptionCall(v)
    BY <1>3 DEF CallOf
  <2>3. QED
    BY <1>0, <2>1, <2>2 DEF ExceptionCall, Call, CallType, DOUBLE_FAULT
<1>4. QED
  BY <1>1, <1>2, <1>3

\* What matters of the descriptors to the handlers: which ones stop the processor,
\* which ones use a stack of their own, and how the non-maskable interrupt enters.
LEMMA HandlerFacts ==
    /\ \A v \in Vectors : CallOf(v).handler = "fatal" => v \in (0 .. 31) \ {1, 3}
    /\ \A v \in Vectors : CallOf(v).handler = "scheduler" <=> v = 35
    /\ \A v \in Vectors : CallOf(v).stack = 2 <=> v = 35
    /\ \A v \in Vectors : CallOf(v).stack = 1 <=> v = 8
    /\ CallOf(2).handler = "fatal" /\ CallOf(2).gate = "interrupt"
<1> SUFFICES ASSUME NEW v \in Vectors
             PROVE  /\ CallOf(v).handler = "fatal" => v \in (0 .. 31) \ {1, 3}
                    /\ CallOf(v).handler = "scheduler" <=> v = 35
                    /\ CallOf(v).stack = 2 <=> v = 35
                    /\ CallOf(v).stack = 1 <=> v = 8
                    /\ v = 2 => CallOf(v).handler = "fatal" /\ CallOf(v).gate = "interrupt"
  <2>1. 2 \in Vectors
    BY DEF Vectors
  <2>2. QED
    BY <2>1
<1>0. v \in 0 .. 255
  BY DEF Vectors
<1>1. CASE v = 35
  BY <1>0, <1>1 DEF CallOf, SchedulerCall, Call
<1>2. CASE v # 35 /\ v >= 238
  BY <1>0, <1>2 DEF CallOf, Call
<1>3. CASE v # 35 /\ ~(v >= 238)
  <2>1. v \in 0 .. 31
    BY <1>3 DEF Vectors
  <2>2. CallOf(v) = ExceptionCall(v)
    BY <1>3 DEF CallOf
  <2>3. QED
    BY <1>3, <2>1, <2>2 DEF ExceptionCall, ExceptionHandler, Call, DOUBLE_FAULT
<1>4. QED
  BY <1>1, <1>2, <1>3

LEMMA ConcatFacts ==
    ASSUME NEW S, NEW s \in Seq(S), NEW t \in Seq(S)
    PROVE  /\ s \o t \in Seq(S) /\ Len(s \o t) = Len(s) + Len(t)
           /\ \A k \in 1 .. Len(s) : (s \o t)[k] = s[k]
           /\ \A k \in 1 .. Len(t) : (s \o t)[Len(s) + k] = t[k]
OBVIOUS

\* The calls of idt_initialize, and that there is one for each vector but the timer's.
LEMMA AllCalls ==
    LET calls == ExceptionCalls \o SpuriousCalls
    IN  /\ calls \in Seq({CallOf(v) : v \in Vectors}) /\ calls # <<>>
        /\ \A v \in Vectors \ {35} : \E j \in DOMAIN calls : calls[j] = CallOf(v)
<1> DEFINE calls == ExceptionCalls \o SpuriousCalls
           C == {CallOf(v) : v \in Vectors}
<1>1. \A k \in 1 .. 19 : ExceptionCalls[k] = CallOf(IF k <= 15 THEN k - 1 ELSE k)
  BY DEF ExceptionCalls, CallOf
<1>2. \A k \in 1 .. 18 : SpuriousCalls[k] = CallOf(237 + k)
  BY DEF SpuriousCalls, CallOf
<1>3. ExceptionCalls \in Seq(C)
  <2>1. \A k \in 1 .. 19 : (IF k <= 15 THEN k - 1 ELSE k) \in Vectors
    BY DEF Vectors
  <2>2. \A k \in 1 .. 19 : ExceptionCalls[k] \in C
    BY <1>1, <2>1
  <2>3. ExceptionCalls = [k \in 1 .. 19 |-> ExceptionCalls[k]]
    BY DEF ExceptionCalls
  <2>4. QED
    BY <2>2, <2>3
<1>4. SpuriousCalls \in Seq(C)
  <2>1. \A k \in 1 .. 18 : 237 + k \in Vectors
    BY DEF Vectors
  <2>2. \A k \in 1 .. 18 : SpuriousCalls[k] \in C
    BY <1>2, <2>1
  <2>3. SpuriousCalls = [k \in 1 .. 18 |-> SpuriousCalls[k]]
    BY DEF SpuriousCalls
  <2>4. QED
    BY <2>2, <2>3
<1>5. Len(ExceptionCalls) = 19 /\ Len(SpuriousCalls) = 18
  <2>1. DOMAIN ExceptionCalls = 1 .. 19 /\ DOMAIN SpuriousCalls = 1 .. 18
    BY DEF ExceptionCalls, SpuriousCalls
  <2>2. QED
    BY <1>3, <1>4, <2>1
<1> HIDE DEF C
<1>6. /\ calls \in Seq(C) /\ Len(calls) = 37
      /\ \A k \in 1 .. 19 : calls[k] = ExceptionCalls[k]
      /\ \A k \in 1 .. 18 : calls[19 + k] = SpuriousCalls[k]
  <2>1. /\ calls \in Seq(C) /\ Len(calls) = Len(ExceptionCalls) + Len(SpuriousCalls)
        /\ \A k \in 1 .. Len(ExceptionCalls) : calls[k] = ExceptionCalls[k]
        /\ \A k \in 1 .. Len(SpuriousCalls) : calls[Len(ExceptionCalls) + k] = SpuriousCalls[k]
    BY <1>3, <1>4, ConcatFacts
  <2> HIDE DEF calls
  <2>2. QED
    BY <1>5, <2>1
<1>7. ASSUME NEW v \in Vectors \ {35}
      PROVE  \E j \in DOMAIN calls : calls[j] = CallOf(v)
  <2> HIDE DEF calls
  <2>0. DOMAIN calls = 1 .. 37
    BY <1>6
  <2>1. CASE v \in 0 .. 14
    <3>1. v + 1 \in 1 .. 19 /\ v + 1 <= 15 /\ (v + 1) - 1 = v
      BY <2>1
    <3>2. calls[v + 1] = CallOf(v)
      BY <1>1, <1>6, <3>1
    <3>3. QED
      BY <2>0, <3>1, <3>2
  <2>2. CASE v \in 16 .. 19
    <3>1. v \in 1 .. 19 /\ ~(v <= 15) /\ v \in 1 .. 37
      BY <2>2
    <3>2. ExceptionCalls[v] = CallOf(IF v <= 15 THEN v - 1 ELSE v)
      BY <1>1, <3>1
    <3>3. calls[v] = CallOf(v)
      BY <1>6, <3>1, <3>2
    <3>4. QED
      BY <2>0, <3>1, <3>3
  <2>3. CASE v \in 238 .. 255
    <3>1. v - 237 \in 1 .. 18 /\ 237 + (v - 237) = v /\ 19 + (v - 237) \in 1 .. 37
      BY <2>3
    <3>2. calls[19 + (v - 237)] = CallOf(v)
      <4>1. SpuriousCalls[v - 237] = CallOf(237 + (v - 237))
        BY <1>2, <3>1
      <4>2. calls[19 + (v - 237)] = SpuriousCalls[v - 237]
        BY <1>6, <3>1
      <4>3. QED
        BY <3>1, <4>1, <4>2
    <3>3. QED
      BY <2>0, <3>1, <3>2
  <2>4. QED
    BY <2>1, <2>2, <2>3 DEF Vectors
<1>8. calls # <<>>
  BY <1>6
<1>9. QED
  BY <1>6, <1>7, <1>8 DEF C
-----------------------------------------------------------------------------
\* Once the program runs, the table is complete.
LEMMA Complete ==
    ASSUME PhaseInv, TableInv, pc \in Running
    PROVE  /\ \A v \in Vectors : Written(v) /\ Usable(v)
           /\ \A v : v \notin Vectors => ~Usable(v)
<1>1. idtr /\ tss /\ registering = <<>>
  BY DEF PhaseInv, Running, AfterReg, AfterSch, AfterCr3, AfterApic, AfterMap, AfterPro,
         AfterIdt, AfterGdt
<1>2. ASSUME NEW v \in Vectors
      PROVE  Written(v) /\ Usable(v)
  <2>1. pc \in AfterSch /\ pc \in AfterIdt
    BY DEF Running, AfterReg, AfterSch, AfterCr3, AfterApic, AfterMap, AfterPro, AfterIdt
  <2>2. Written(v) \/ ToCome(v)
    BY <2>1 DEF TableInv
  <2>3. Written(v)
    BY <1>1, <2>2 DEF ToCome
  <2>4. Usable(v)
    BY <1>1, <2>3 DEF Written, Usable, Descriptor
  <2>5. QED
    BY <2>3, <2>4
<1>3. ASSUME NEW v, v \notin Vectors
      PROVE  ~Usable(v)
  BY <1>3 DEF TableInv, Usable
<1>4. QED
  BY <1>2, <1>3

\* The handler of w is entered instead of that of v: the one that was meant, if there
\* is a descriptor, and that of an exception otherwise.
EnteredBy(v, w) ==
    /\ v \in Vectors => w = v
    /\ v \notin Vectors => w \in {GENERAL_PROTECTION, DOUBLE_FAULT}
    /\ pc' = pc
    /\ frames' = Append(Woken(frames), [handler |-> CallOf(w).handler, stack |-> CallOf(w).stack,
                                        step |-> "enter", enabled |-> enabled])
    /\ enabled' = (enabled /\ CallOf(w).gate = "trap")

LEMMA EnterFacts ==
    ASSUME PhaseInv, TableInv, pc \in Running, NEW v, Enter(v)
    PROVE  \E w \in Vectors : EnteredBy(v, w)
<1>0. {8, 13} \subseteq Vectors
  BY DEF Vectors
<1>1. /\ v \in Vectors => Taken(v) = {v}
      /\ v \notin Vectors => Taken(v) = {8, 13}
  BY <1>0, Complete DEF Taken, GENERAL_PROTECTION, DOUBLE_FAULT
<1>2. /\ Taken(v) # {} /\ Max(Taken(v)) \in Taken(v)
  <2>1. CASE v \in Vectors
    <3>1. v \in Nat
      BY <2>1 DEF Vectors
    <3>2. QED
      BY <1>1, <2>1, <3>1 DEF Max
  <2>2. CASE v \notin Vectors
    <3>1. \E x \in {8, 13} : \A y \in {8, 13} : x >= y
      OBVIOUS
    <3>2. QED
      BY <1>1, <2>2, <3>1 DEF Max
  <2>3. QED
    BY <2>1, <2>2
<1> DEFINE w == Max(Taken(v))
<1>3. /\ w \in Vectors
      /\ v \in Vectors => w = v
      /\ v \notin Vectors => w \in {8, 13}
  BY <1>0, <1>1, <1>2
<1> HIDE DEF w
<1>4. idt[w] = Descriptor(w, CallOf(w).handler)
  BY <1>3, Complete DEF Written
<1>5. /\ pc' = pc
      /\ frames' = Append(Woken(frames), [handler |-> idt[w].low, stack |-> idt[w].stack,
                                          step |-> "enter", enabled |-> enabled])
      /\ enabled' = (enabled /\ idt[w].gate = "trap")
  BY <1>2 DEF Enter, w
<1>6. EnteredBy(v, w)
  BY <1>3, <1>4, <1>5 DEF EnteredBy, Descriptor, GENERAL_PROTECTION, DOUBLE_FAULT
<1>7. QED
  BY <1>3, <1>6

\* The steps that enter a handler, by the vector.
Entering(v) == \/ Breakpoint /\ v = 3
               \/ TimerInterrupt /\ v = timer_vector
               \/ \E irq \in Noise : NoiseInterrupt(irq) /\ v = NoiseVector(irq)
               \/ Fault(v) /\ v \in Faults
               \/ NonMaskable /\ v = 2

LEMMA EnteringFacts ==
    ASSUME PhaseInv, TableInv, NEW v, Entering(v)
    PROVE  /\ pc \in Running
           /\ \E w \in Vectors : EnteredBy(v, w)
           /\ UNCHANGED <<machine, pic_base, tables, apic_enabled, timer_vector>>
<1>1. /\ pc \in Running
      /\ Enter(v)
      /\ UNCHANGED <<machine, pic_base, tables, apic_enabled, timer_vector>>
  <2>1. CASE Breakpoint /\ v = 3
    BY <2>1 DEF Breakpoint, At, Running, apic
  <2>2. CASE TimerInterrupt /\ v = timer_vector
    BY <2>2 DEF TimerInterrupt, PhaseInv
  <2>3. CASE \E irq \in Noise : NoiseInterrupt(irq) /\ v = NoiseVector(irq)
    BY <2>3 DEF NoiseInterrupt, PhaseInv, apic
  <2>4. CASE Fault(v) /\ v \in Faults
    BY <2>4 DEF Fault, Running, apic
  <2>5. CASE NonMaskable /\ v = 2
    BY <2>5 DEF NonMaskable, Running, apic
  <2>6. QED
    BY <2>1, <2>2, <2>3, <2>4, <2>5 DEF Entering
<1>2. QED
  BY <1>1, EnterFacts

\* The other steps.
SetUpStep == \/ apic_disable_pic \/ SetCurrent \/ gdt_initialize \/ idt_initialize
             \/ RegisterFirst \/ RegisterRest \/ MakeProcess \/ MapMemory \/ MapApic
             \/ LoadPageTable \/ EnableApic \/ scheduler_initialize \/ StartTimer
             \/ SetTimerVector \/ EnableInterrupts \/ Idle

LEMMA NextSteps ==
    ASSUME [Next]_vars
    PROVE  \/ SetUpStep \/ Handle \/ TimerExpires
           \/ \E v : Entering(v)
           \/ UNCHANGED vars
<1>1. CASE Breakpoint
  BY <1>1 DEF Entering
<1>2. CASE TimerInterrupt
  BY <1>2 DEF Entering
<1>3. CASE \E irq \in Noise : NoiseInterrupt(irq)
  <2>1. PICK irq \in Noise : NoiseInterrupt(irq)
    BY <1>3
  <2>2. Entering(NoiseVector(irq))
    BY <2>1 DEF Entering
  <2>3. QED
    BY <2>2
<1>4. CASE \E v \in Faults : Fault(v)
  BY <1>4 DEF Entering
<1>5. CASE NonMaskable
  BY <1>5 DEF Entering
<1>6. QED
  BY <1>1, <1>2, <1>3, <1>4, <1>5 DEF Next, SetUp, SetUpStep

\* They leave the handlers alone.
LEMMA SetUpFacts ==
    ASSUME SetUpStep
    PROVE  /\ frames = <<>> /\ frames' = frames
           /\ machine' = machine /\ breakpoints' = breakpoints
           /\ noise' = noise /\ raised' = raised
BY DEF SetUpStep, apic_disable_pic, SetCurrent, gdt_initialize, idt_initialize, RegisterFirst,
       RegisterRest, MakeProcess, MapMemory, MapApic, LoadPageTable, EnableApic,
       scheduler_initialize, StartTimer, SetTimerVector, EnableInterrupts, Idle, At, Goto,
       environment
-----------------------------------------------------------------------------
\* PhaseInv.  A step that stays where the set-up is.
LEMMA PhaseStays ==
    ASSUME PhaseInv, pc' = pc, UNCHANGED <<pic_base, tables, timer_vector>>,
           enabled' \/ frames' # <<>> => pc \in Running,
           timer' = "expired" => timer_vector = 35
    PROVE  PhaseInv'
<1>1. /\ pc' = pc /\ pic_base' = pic_base /\ fs' = fs /\ tss' = tss /\ cr3' = cr3
      /\ idtr' = idtr /\ registering' = registering /\ current_process' = current_process
      /\ mapped' = mapped /\ timer_vector' = timer_vector
  BY DEF tables
<1>2. /\ pc' \in {"pic"} \cup AfterPic
      /\ pc' \in AfterPic => pic_base' = Remapped
      /\ pc' \in AfterMap => "memory" \in mapped'
      /\ pc' \in AfterApic => "apic" \in mapped'
      /\ timer_vector' \in {Masked, 35}
  <2>1. pc' \in {"pic"} \cup AfterPic
    BY <1>1 DEF PhaseInv
  <2>2. pc' \in AfterPic => pic_base' = Remapped
    BY <1>1 DEF PhaseInv
  <2>3. /\ pc' \in AfterMap => "memory" \in mapped'
        /\ pc' \in AfterApic => "apic" \in mapped'
    BY <1>1 DEF PhaseInv
  <2>4. timer_vector' \in {Masked, 35}
    BY <1>1 DEF PhaseInv
  <2>5. QED
    BY <2>1, <2>2, <2>3, <2>4
<1>3. /\ pc' \in AfterFs => fs'
      /\ pc' \in AfterGdt => tss'
      /\ pc' \in AfterIdt => idtr'
      /\ pc' \in AfterPro => current_process'
      /\ pc' \in AfterCr3 => cr3'
  BY <1>1, Zenon DEF PhaseInv
<1>4. /\ enabled' \/ frames' # <<>> => pc' \in Running
      /\ registering' # <<>> => pc' \in {"exceptions", "start timer"}
      /\ timer' = "expired" => timer_vector' = 35
  BY <1>1, Zenon DEF PhaseInv
<1>5. QED
  BY <1>2, <1>3, <1>4, Zenon DEF PhaseInv

LEMMA PhaseStep ==
    ASSUME TypeOK, PhaseInv, TableInv, [Next]_vars
    PROVE  PhaseInv'
<1> USE DEF Running, AfterReg, AfterSch, AfterCr3, AfterApic, AfterMap, AfterPro, AfterIdt,
            AfterGdt, AfterFs, AfterPic, At, Goto, tables, apic
<1>1. CASE apic_disable_pic
  BY <1>1 DEF apic_disable_pic, PhaseInv, Remapped
<1>2. CASE SetCurrent
  BY <1>2 DEF SetCurrent, PhaseInv
<1>3. CASE gdt_initialize
  BY <1>3 DEF gdt_initialize, PhaseInv
<1>4. CASE idt_initialize
  BY <1>4 DEF idt_initialize, PhaseInv
<1>5. CASE RegisterFirst
  BY <1>5 DEF RegisterFirst, PhaseInv
<1>6. CASE RegisterRest
  <2>1. registering # <<>>
    BY <1>6 DEF RegisterRest, TableInv
  <2>2. pc \in {"exceptions", "start timer"}
    BY <2>1 DEF PhaseInv
  <2>3. UNCHANGED <<pc, frames, enabled, pic_base, fs, tss, cr3, idtr, current_process, mapped,
                    apic>>
    BY <1>6 DEF RegisterRest
  <2>4. QED
    BY <2>2, <2>3 DEF PhaseInv
<1>7. CASE MakeProcess
  BY <1>7 DEF MakeProcess, PhaseInv
<1>8. CASE MapMemory
  BY <1>8 DEF MapMemory, PhaseInv
<1>9. CASE MapApic
  BY <1>9 DEF MapApic, PhaseInv
<1>10. CASE LoadPageTable
  BY <1>10 DEF LoadPageTable, PhaseInv
<1>11. CASE EnableApic
  BY <1>11 DEF EnableApic, PhaseInv
<1>12. CASE scheduler_initialize
  BY <1>12 DEF scheduler_initialize, PhaseInv
<1>13. CASE StartTimer
  BY <1>13 DEF StartTimer, PhaseInv
<1>14. CASE SetTimerVector
  <2>1. SchedulerCall.vector = 35
    BY DEF SchedulerCall, Call
  <2>2. QED
    BY <1>14, <2>1 DEF SetTimerVector, PhaseInv
<1>15. CASE EnableInterrupts
  BY <1>15 DEF EnableInterrupts, PhaseInv
<1>16. CASE Idle
  BY <1>16 DEF Idle, PhaseInv
<1>17. CASE Handle
  <2>1. /\ frames # <<>> /\ pc' = pc
        /\ UNCHANGED <<pic_base, tables, timer_vector>>
        /\ timer' = timer \/ timer' = "running"
    BY <1>17 DEF Handle, Return, Halt, Acknowledge, Restart
  <2>2. pc \in Running /\ (timer' = "expired" => timer_vector = 35)
    BY <2>1 DEF PhaseInv
  <2>3. QED
    BY ONLY <2>1, <2>2, PhaseInv, PhaseStays
<1>18. CASE TimerExpires
  <2>1. timer' = "expired" => timer_vector # Masked
    BY <1>18 DEF TimerExpires
  <2>2. UNCHANGED <<pc, frames, enabled, pic_base, tables, timer_vector>>
    BY <1>18 DEF TimerExpires
  <2>3. /\ enabled' \/ frames' # <<>> => pc \in Running
        /\ timer' = "expired" => timer_vector = 35
    BY <2>1, <2>2 DEF PhaseInv
  <2>4. QED
    BY ONLY <2>2, <2>3, PhaseInv, PhaseStays
<1>19. CASE \E v : Entering(v)
  <2>1. PICK v : Entering(v)
    BY <1>19
  <2>2. pc \in Running /\ pc' = pc /\ UNCHANGED <<pic_base, tables, timer_vector>>
    BY <2>1, EnteringFacts DEF EnteredBy
  <2>3. timer' = timer \/ timer' = "off"
    BY <2>1 DEF Entering, Breakpoint, TimerInterrupt, NoiseInterrupt, Fault, NonMaskable
  <2>4. timer' = "expired" => timer_vector = 35
    BY <2>3 DEF PhaseInv
  <2>5. QED
    BY ONLY <2>2, <2>4, PhaseInv, PhaseStays
<1>20. CASE UNCHANGED vars
  <2>1. pc' = pc /\ UNCHANGED <<pic_base, tables, timer_vector, timer, enabled, frames>>
    BY <1>20 DEF vars
  <2>2. /\ enabled' \/ frames' # <<>> => pc \in Running
        /\ timer' = "expired" => timer_vector = 35
    BY <2>1 DEF PhaseInv
  <2>3. QED
    BY ONLY <2>1, <2>2, PhaseInv, PhaseStays
<1>21. QED
  BY <1>1, <1>2, <1>3, <1>4, <1>5, <1>6, <1>7, <1>8, <1>9, <1>10, <1>11, <1>12, <1>13, <1>14,
     <1>15, <1>16, <1>17, <1>18, <1>19, <1>20, NextSteps DEF SetUpStep
-----------------------------------------------------------------------------
\* TableInv.
LEMMA HeadFacts ==
    ASSUME NEW S, NEW s \in Seq(S), s # <<>>
    PROVE  /\ Head(s) \in S /\ Head(s) = s[1]
           /\ Tail(s) \in Seq(S)
           /\ \A j \in DOMAIN s : j # 1 => \E k \in DOMAIN Tail(s) : Tail(s)[k] = s[j]
<1>1. Head(s) \in S /\ Head(s) = s[1] /\ Tail(s) \in Seq(S)
  OBVIOUS
<1>2. ASSUME NEW j \in DOMAIN s, j # 1
      PROVE  \E k \in DOMAIN Tail(s) : Tail(s)[k] = s[j]
  <2>1. Len(s) \in Nat /\ DOMAIN s = 1 .. Len(s) /\ DOMAIN Tail(s) = 1 .. (Len(s) - 1)
    OBVIOUS
  <2>2. j - 1 \in DOMAIN Tail(s) /\ Tail(s)[j - 1] = s[(j - 1) + 1]
    BY <1>2, <2>1
  <2>3. (j - 1) + 1 = j
    BY <2>1
  <2>4. QED
    BY <2>2, <2>3
<1>3. QED
  BY <1>1, <1>2

\* A call that is registered fills the descriptor of its own vector.
LEMMA FirstCall ==
    ASSUME TableInv, registering # <<>>
    PROVE  LET c == Head(registering)
           IN  c.vector \in Vectors /\ c = CallOf(c.vector) /\ c \in CallType
<1>1. Head(registering) \in {CallOf(v) : v \in Vectors}
  BY HeadFacts DEF TableInv
<1>2. PICK v \in Vectors : Head(registering) = CallOf(v)
  BY <1>1
<1>3. QED
  BY <1>2, CallFacts

LEMMA RegisterFirstKeeps ==
    ASSUME PhaseInv, TableInv, RegisterFirst
    PROVE  TableInv'
<1> DEFINE c == Head(registering)
           u == c.vector
           high == IF u \in DOMAIN idt THEN idt[u].high ELSE "null"
<1>1. /\ u \in Vectors /\ c = CallOf(u)
      /\ registering # <<>>
  BY FirstCall DEF RegisterFirst
<1>2. /\ DOMAIN idt' = DOMAIN idt \cup {u}
      /\ \A v \in DOMAIN idt \ {u} : idt'[v] = idt[v]
      /\ idt'[u] = Descriptor(u, high)
  BY <1>1 DEF RegisterFirst, Descriptor
<1>3. high = CallOf(u).handler \/ high = "null"
  BY <1>1 DEF TableInv, Descriptor
<1>4. u \in DOMAIN idt => idt[u] = Descriptor(u, high)
  BY <1>1 DEF TableInv, Descriptor
<1>5. pc' = pc /\ registering' = registering
  BY DEF RegisterFirst
<1> HIDE DEF high
<1>6. \A v \in DOMAIN idt' : v \in Vectors /\ idt'[v] \in {Descriptor(v, CallOf(v).handler),
                                                          Descriptor(v, "null")}
  BY <1>1, <1>2, <1>3 DEF TableInv
<1>7. \A v \in Vectors : Written(v) => Written(v)'
  BY <1>1, <1>2, <1>4 DEF Written
<1>8. QED
  BY <1>1, <1>2, <1>5, <1>6, <1>7 DEF TableInv, ToCome

LEMMA RegisterRestKeeps ==
    ASSUME PhaseInv, TableInv, RegisterRest
    PROVE  TableInv'
<1> DEFINE c == Head(registering)
           u == c.vector
<1>1. registering # <<>> /\ u \in DOMAIN idt
  BY DEF TableInv, RegisterRest
<1>2. u \in Vectors /\ c = CallOf(u)
  BY <1>1, FirstCall
<1>3. /\ DOMAIN idt' = DOMAIN idt
      /\ \A v \in DOMAIN idt \ {u} : idt'[v] = idt[v]
      /\ idt'[u] = [idt[u] EXCEPT !.high = c.handler]
  BY <1>1 DEF RegisterRest
<1>4. idt'[u] = Descriptor(u, CallOf(u).handler)
  BY <1>1, <1>2, <1>3 DEF TableInv, Descriptor
<1>5. pc' = pc /\ registering' = Tail(registering) /\ ~half'
  BY DEF RegisterRest
<1>6. registering' \in Seq({CallOf(v) : v \in Vectors})
  BY <1>1, <1>5, HeadFacts DEF TableInv
<1>7. \A v \in DOMAIN idt' : v \in Vectors /\ idt'[v] \in {Descriptor(v, CallOf(v).handler),
                                                          Descriptor(v, "null")}
  BY <1>3, <1>4 DEF TableInv
<1>8. \A v \in Vectors : Written(v) => Written(v)'
  BY <1>3, <1>4 DEF Written
<1>9. ASSUME NEW v \in Vectors, ToCome(v)
      PROVE  Written(v)' \/ ToCome(v)'
  <2>1. PICK j \in DOMAIN registering : registering[j] = CallOf(v)
    BY <1>9 DEF ToCome
  <2>2. CASE j = 1
    <3>1. CallOf(v) = CallOf(u)
      BY <1>1, <1>2, <2>1, <2>2, HeadFacts DEF TableInv
    <3>2. v = u
      BY <1>2, <3>1, CallFacts
    <3>3. QED
      BY <1>1, <1>3, <1>4, <3>2 DEF Written
  <2>3. CASE j # 1
    BY <1>1, <1>5, <2>1, <2>3, HeadFacts DEF ToCome, TableInv
  <2>4. QED
    BY <2>2, <2>3
<1>10. QED
  BY <1>5, <1>6, <1>7, <1>8, <1>9 DEF TableInv

LEMMA TableStep ==
    ASSUME TypeOK, PhaseInv, TableInv, [Next]_vars
    PROVE  TableInv'
<1> USE DEF Running, AfterReg, AfterSch, AfterCr3, AfterApic, AfterMap, AfterPro, AfterIdt
<1>1. CASE idt_initialize
  <2>1. /\ idt' = <<>> /\ registering' = ExceptionCalls \o SpuriousCalls
        /\ pc = "idt" /\ pc' = "exceptions" /\ half' = half
    BY <1>1 DEF idt_initialize, At, Goto
  <2>2. ~half
    BY <2>1 DEF TableInv, PhaseInv
  <2>3. \A v \in Vectors \ {35} : ToCome(v)'
    BY <2>1, AllCalls DEF ToCome
  <2>4. registering' \in Seq({CallOf(v) : v \in Vectors})
    BY <2>1, AllCalls
  <2>5. DOMAIN idt' = {}
    BY <2>1
  <2>6. QED
    BY <2>1, <2>2, <2>3, <2>4, <2>5 DEF TableInv
<1>2. CASE scheduler_initialize
  <2>1. /\ pc = "scheduler" /\ pc' = "start timer"
        /\ idt' = idt /\ half' = half
        /\ registering' = <<SchedulerCall>>
    BY <1>2 DEF scheduler_initialize, At, Goto
  <2>2. registering = <<>> /\ ~half
    BY <2>1 DEF TableInv, PhaseInv
  <2>3. 35 \in Vectors /\ CallOf(35) = SchedulerCall
    BY DEF Vectors, CallOf
  <2>4. ASSUME NEW v \in Vectors \ {35}
        PROVE  Written(v)'
    <3>1. Written(v) \/ ToCome(v)
      BY <2>1 DEF TableInv
    <3>2. ~ToCome(v)
      BY <2>2 DEF ToCome
    <3>3. QED
      BY <2>1, <3>1, <3>2 DEF Written
  <2>5. ToCome(35)'
    <3>1. \A x : 1 \in DOMAIN <<x>> /\ <<x>>[1] = x
      OBVIOUS
    <3>2. 1 \in DOMAIN registering' /\ registering'[1] = SchedulerCall
      BY <2>1, <3>1
    <3>3. QED
      BY <2>3, <3>2 DEF ToCome
  <2>6. registering' \in Seq({CallOf(v) : v \in Vectors})
    <3>1. SchedulerCall \in {CallOf(v) : v \in Vectors}
      BY <2>3
    <3> DEFINE C == {CallOf(v) : v \in Vectors}
    <3> HIDE DEF C
    <3>2. \A x \in C : <<x>> \in Seq(C)
      OBVIOUS
    <3>3. QED
      BY <2>1, <3>1, <3>2 DEF C
  <2>7. QED
    BY <2>1, <2>2, <2>4, <2>5, <2>6 DEF TableInv
<1>3. CASE UNCHANGED <<idt, registering, half>> /\ (pc' \in AfterIdt => pc \in AfterIdt)
                                               /\ (pc' \in AfterSch => pc \in AfterSch)
  BY <1>3 DEF TableInv, Written, ToCome
<1>4. CASE SetUpStep /\ ~RegisterFirst /\ ~RegisterRest /\ ~idt_initialize /\ ~scheduler_initialize
  BY <1>3, <1>4
     DEF SetUpStep, apic_disable_pic, SetCurrent, gdt_initialize, MakeProcess, MapMemory, MapApic,
         LoadPageTable, EnableApic, StartTimer, SetTimerVector, EnableInterrupts, Idle, At, Goto,
         tables
<1>5. CASE Handle \/ TimerExpires
  BY <1>3, <1>5 DEF Handle, Return, Halt, Acknowledge, Restart, TimerExpires, tables
<1>6. CASE \E v : Entering(v)
  <2>1. UNCHANGED <<pc, tables>>
    BY <1>6, EnteringFacts DEF EnteredBy
  <2>2. QED
    BY <1>3, <2>1 DEF tables
<1>7. CASE UNCHANGED vars
  BY <1>3, <1>7 DEF vars, tables
<1>8. QED
  BY <1>1, <1>2, <1>4, <1>5, <1>6, <1>7, NextSteps, RegisterFirstKeeps, RegisterRestKeeps
     DEF SetUpStep
-----------------------------------------------------------------------------
\* The frames.
LEMMA WokenFacts ==
    ASSUME frames \in Seq(Frame)
    PROVE  LET w == Woken(frames)
           IN  /\ w \in Seq(Frame) /\ Len(w) = Len(frames)
               /\ \A k \in 1 .. Len(frames) :
                      /\ w[k].handler = frames[k].handler /\ w[k].stack = frames[k].stack
                      /\ w[k].step = IF k = Len(frames) /\ frames[k].step = "hlt"
                                     THEN "leave" ELSE frames[k].step
<1> DEFINE n == Len(frames)
<1>1. n \in Nat /\ DOMAIN frames = 1 .. n /\ \A k \in 1 .. n : frames[k] \in Frame
  OBVIOUS
<1>2. CASE frames # <<>> /\ Last(frames).step = "hlt"
  <2>1. n \in 1 .. n
    BY <1>1, <1>2
  <2>2. Woken(frames) = [frames EXCEPT ![n].step = "leave"]
    BY <1>2 DEF Woken
  <2>3. Woken(frames) = [k \in 1 .. n |-> IF k = n THEN [frames[k] EXCEPT !.step = "leave"]
                                          ELSE frames[k]]
    BY <1>1, <2>1, <2>2
  <2>4. \A k \in 1 .. n : Woken(frames)[k] \in Frame
    BY <1>1, <2>3 DEF Frame
  <2>5. Woken(frames) \in Seq(Frame) /\ Len(Woken(frames)) = n
    BY <1>1, <2>3, <2>4
  <2>6. frames[n].step = "hlt"
    BY <1>2 DEF Last
  <2>7. QED
    BY <1>1, <2>3, <2>5, <2>6 DEF Frame
<1>3. CASE frames = <<>>
  BY <1>3 DEF Woken
<1>4. CASE frames # <<>> /\ Last(frames).step # "hlt"
  BY <1>1, <1>4 DEF Woken, Last
<1>5. QED
  BY <1>2, <1>3, <1>4

\* Entering puts a frame on the top.
LEMMA PushFacts ==
    ASSUME FrameInv, TypeOK, NEW v, NEW w \in Vectors, EnteredBy(v, w)
    PROVE  LET n == Len(frames)
           IN  /\ n \in Nat
               /\ frames' \in Seq(Frame) /\ Len(frames') = n + 1
               /\ DOMAIN frames = 1 .. n /\ DOMAIN frames' = 1 .. (n + 1)
               /\ \A k \in 1 .. n :
                      /\ frames'[k].handler = frames[k].handler
                      /\ frames'[k].stack = frames[k].stack
                      /\ frames'[k].step = IF k = n /\ frames[k].step = "hlt"
                                           THEN "leave" ELSE frames[k].step
               /\ frames'[n + 1].handler = CallOf(w).handler
               /\ frames'[n + 1].stack = CallOf(w).stack
               /\ frames'[n + 1].step = "enter"
<1> DEFINE n == Len(frames)
           f == [handler |-> CallOf(w).handler, stack |-> CallOf(w).stack,
                 step |-> "enter", enabled |-> enabled]
           old == Woken(frames)
<1>1. frames \in Seq(Frame)
  BY DEF FrameInv
<1>2. f \in Frame
  <2>1. enabled \in BOOLEAN
    BY Zenon DEF TypeOK
  <2>2. CallOf(w).handler \in Handlers /\ CallOf(w).stack \in 0 .. 2
    BY CallFacts DEF CallType
  <2>3. QED
    BY <2>1, <2>2 DEF Frame
<1>3. frames' = Append(old, f)
  BY DEF EnteredBy
<1>4. old \in Seq(Frame) /\ Len(old) = n
  BY <1>1, WokenFacts
<1>5. /\ \A k \in 1 .. n :
             /\ old[k].handler = frames[k].handler /\ old[k].stack = frames[k].stack
             /\ old[k].step = IF k = n /\ frames[k].step = "hlt" THEN "leave" ELSE frames[k].step
  BY <1>1, WokenFacts
<1>6. /\ n \in Nat /\ DOMAIN frames = 1 .. n
      /\ f.handler = CallOf(w).handler /\ f.stack = CallOf(w).stack /\ f.step = "enter"
  BY <1>1
<1> HIDE DEF old, f, n
<1>7. /\ frames' \in Seq(Frame) /\ Len(frames') = n + 1
      /\ DOMAIN frames' = 1 .. (n + 1)
      /\ \A k \in 1 .. n : frames'[k] = old[k]
      /\ frames'[n + 1] = f
  BY <1>2, <1>3, <1>4, <1>6
<1>8. \A k \in 1 .. n :
          /\ frames'[k].handler = frames[k].handler
          /\ frames'[k].stack = frames[k].stack
          /\ frames'[k].step = IF k = n /\ frames[k].step = "hlt"
                               THEN "leave" ELSE frames[k].step
  BY <1>5, <1>7
<1>9. QED
  BY <1>6, <1>7, <1>8 DEF n

\* A step of the handler on the top.
LEMMA TopFacts ==
    ASSUME FrameInv, frames # <<>>, NEW s \in {"enter", "switch", "hlt", "leave"}, Step(s)
    PROVE  LET n == Len(frames)
           IN  /\ n \in Nat /\ n \in 1 .. n
               /\ frames' \in Seq(Frame) /\ Len(frames') = n
               /\ DOMAIN frames = 1 .. n /\ DOMAIN frames' = 1 .. n
               /\ \A k \in 1 .. n :
                      /\ frames'[k].handler = frames[k].handler
                      /\ frames'[k].stack = frames[k].stack
                      /\ frames'[k].step = IF k = n THEN s ELSE frames[k].step
<1> DEFINE n == Len(frames)
<1>1. /\ n \in Nat /\ n \in 1 .. n /\ DOMAIN frames = 1 .. n
      /\ \A k \in 1 .. n : frames[k] \in Frame
  BY DEF FrameInv
<1>2. frames' = [k \in 1 .. n |-> IF k = n THEN [frames[k] EXCEPT !.step = s] ELSE frames[k]]
  BY <1>1 DEF Step, FrameInv
<1>3. \A k \in 1 .. n : frames'[k] \in Frame
  BY <1>1, <1>2 DEF Frame
<1>4. frames' \in Seq(Frame) /\ Len(frames') = n
  BY <1>1, <1>2, <1>3
<1>5. QED
  BY <1>1, <1>2, <1>4 DEF Frame

\* Returning takes the top away.
LEMMA PopFacts ==
    ASSUME FrameInv, frames # <<>>, frames' = Front(frames)
    PROVE  LET n == Len(frames)
           IN  /\ n \in Nat /\ n \in 1 .. n
               /\ frames' \in Seq(Frame) /\ Len(frames') = n - 1
               /\ DOMAIN frames = 1 .. n /\ DOMAIN frames' = 1 .. (n - 1)
               /\ \A k \in 1 .. (n - 1) : frames'[k] = frames[k]
<1> DEFINE n == Len(frames)
<1>1. frames \in Seq(Frame)
  BY DEF FrameInv
<1> HIDE DEF Frame
<1>2. n \in Nat /\ n \in 1 .. n /\ DOMAIN frames = 1 .. n
  BY <1>1
<1>3. frames' = SubSeq(frames, 1, n - 1)
  BY DEF Front
<1>4. /\ frames' \in Seq(Frame) /\ Len(frames') = n - 1
      /\ \A k \in 1 .. (n - 1) : frames'[k] = frames[k]
  BY <1>1, <1>2, <1>3
<1>5. DOMAIN frames' = 1 .. (n - 1)
  BY <1>4
<1>6. QED
  BY <1>2, <1>4, <1>5

\* The vector that noise comes with is one of those for spurious interrupts.
LEMMA NoiseFacts ==
    ASSUME NEW irq \in Noise, pic_base = Remapped
    PROVE  NoiseVector(irq) \in 238 .. 255 /\ NoiseVector(irq) \in Vectors
<1>1. irq \in 0 .. 16
  BY CpuAssumption
<1>2. NoiseVector(irq) \in 238 .. 255
  BY <1>1 DEF NoiseVector, Remapped
<1>3. QED
  BY <1>2 DEF Vectors

\* What entering does not tell: what was raised, and when the top may be stopped.
LEMMA EnteringCauses ==
    ASSUME TypeOK, PhaseInv, TableInv, FrameInv, NEW v, NEW w \in Vectors,
           Entering(v), EnteredBy(v, w)
    PROVE  /\ raised \subseteq raised'
           /\ CallOf(w).handler = "fatal" => raised' \ {1, 3} # {}
           /\ enabled \/ frames = <<>> \/ (w = 2 /\ 2 \notin raised /\ 2 \in raised')
<1>1. CASE Breakpoint /\ v = 3
  <2>1. w = 3
    BY <1>1 DEF EnteredBy, Vectors
  <2>2. raised' = raised /\ frames = <<>>
    BY <1>1 DEF Breakpoint, environment, At
  <2>3. QED
    BY <2>1, <2>2, HandlerFacts
<1>2. CASE TimerInterrupt /\ v = timer_vector
  <2>1. w = 35
    BY <1>2 DEF TimerInterrupt, PhaseInv, EnteredBy, Vectors
  <2>2. raised' = raised /\ enabled
    BY <1>2 DEF TimerInterrupt, environment
  <2>3. QED
    BY <2>1, <2>2, HandlerFacts
<1>3. CASE \E irq \in Noise : NoiseInterrupt(irq) /\ v = NoiseVector(irq)
  <2>1. PICK irq \in Noise : NoiseInterrupt(irq) /\ v = NoiseVector(irq)
    BY <1>3
  <2>2. enabled /\ raised' = raised
    BY <2>1 DEF NoiseInterrupt
  <2>3. pic_base = Remapped
    BY <2>2 DEF PhaseInv, Running, AfterReg, AfterSch, AfterCr3, AfterApic, AfterMap, AfterPro,
               AfterIdt, AfterGdt, AfterFs, AfterPic
  <2>4. w \in 238 .. 255
    BY <2>1, <2>3, NoiseFacts DEF EnteredBy
  <2>5. QED
    BY <2>2, <2>4, HandlerFacts
<1>4. CASE Fault(v) /\ v \in Faults
  <2>1. frames = <<>> /\ raised' = raised \cup {v}
    BY <1>4 DEF Fault
  <2>2. v \notin {1, 3} => raised' \ {1, 3} # {}
    BY <2>1
  <2>3. v \in {1, 3} => w = v
    BY DEF EnteredBy, Vectors
  <2>4. QED
    BY <2>1, <2>2, <2>3, HandlerFacts
<1>5. CASE NonMaskable /\ v = 2
  <2>1. raised' = raised \cup {2} /\ 2 \notin raised
    BY <1>5 DEF NonMaskable
  <2>2. w = 2
    BY <1>5 DEF EnteredBy, Vectors
  <2>3. QED
    BY <2>1, <2>2
<1>6. QED
  BY <1>1, <1>2, <1>3, <1>4, <1>5 DEF Entering
-----------------------------------------------------------------------------
\* FrameInv.
LEMMA EnteringKeeps ==
    ASSUME TypeOK, PhaseInv, TableInv, FrameInv, NEW v, Entering(v)
    PROVE  FrameInv'
<1>1. PICK w \in Vectors : EnteredBy(v, w)
  BY EnteringFacts
<1> DEFINE n == Len(frames)
<1>2. /\ n \in Nat
      /\ frames' \in Seq(Frame) /\ Len(frames') = n + 1
      /\ DOMAIN frames = 1 .. n /\ DOMAIN frames' = 1 .. (n + 1)
      /\ \A k \in 1 .. n :
             /\ frames'[k].handler = frames[k].handler
             /\ frames'[k].stack = frames[k].stack
             /\ frames'[k].step = IF k = n /\ frames[k].step = "hlt"
                                  THEN "leave" ELSE frames[k].step
      /\ frames'[n + 1].handler = CallOf(w).handler
      /\ frames'[n + 1].stack = CallOf(w).stack
      /\ frames'[n + 1].step = "enter"
  BY <1>1, PushFacts
<1>3. /\ raised \subseteq raised'
      /\ CallOf(w).handler = "fatal" => raised' \ {1, 3} # {}
      /\ enabled \/ frames = <<>> \/ (w = 2 /\ 2 \notin raised /\ 2 \in raised')
  BY <1>1, EnteringCauses
<1>4. enabled' = (enabled /\ CallOf(w).gate = "trap")
  BY <1>1 DEF EnteredBy
<1>5. frames = <<>> => n = 0
  OBVIOUS
<1> HIDE DEF n
<1>6. HasFatal' => raised' \ {1, 3} # {}
  <2>1. SUFFICES ASSUME NEW k \in 1 .. (n + 1), frames'[k].handler = "fatal"
                 PROVE  raised' \ {1, 3} # {}
    BY <1>2 DEF HasFatal
  <2>2. CASE k = n + 1
    BY <1>2, <1>3, <2>1, <2>2
  <2>3. CASE k \in 1 .. n
    <3>1. HasFatal
      BY <1>2, <2>1, <2>3 DEF HasFatal
    <3>2. QED
      BY <1>3, <3>1 DEF FrameInv
  <2>4. QED
    BY <1>2, <2>2, <2>3
<1>7. \A k \in 1 .. (n + 1) : frames'[k].step # "hlt"
  <2>1. \A k \in 1 .. n : frames[k].step = "hlt" => k = n
    BY <1>2 DEF FrameInv, n
  <2>2. QED
    BY <1>2, <2>1
<1>8. ASSUME NEW k \in 1 .. (n + 1), frames'[k].handler = "fatal", frames'[k].step = "leave"
      PROVE  /\ k < n + 1 /\ 2 \in raised' /\ ~enabled'
             /\ frames'[n + 1].handler = "fatal"
             /\ frames'[n + 1].step # "leave"
  <2>1. k \in 1 .. n
    BY <1>2, <1>8
  <2>2. frames[k].handler = "fatal"
    BY <1>2, <1>8, <2>1
  <2>3. frames # <<>>
    BY <1>5, <2>1
  <2>4. CASE frames[k].step = "leave"
    <3>1. 2 \in raised /\ ~enabled
      BY <1>2, <2>1, <2>2, <2>4 DEF FrameInv
    <3>2. QED
      BY <1>3, <2>3, <3>1
  <2>5. CASE frames[k].step = "hlt"
    <3>1. ~enabled
      BY <1>2, <2>1, <2>5 DEF FrameInv
    <3>2. w = 2 /\ 2 \in raised'
      BY <1>3, <2>3, <3>1
    <3>3. CallOf(2).handler = "fatal"
      BY HandlerFacts
    <3>4. ~enabled'
      BY <1>4, <3>1, Zenon
    <3>5. k < n + 1
      BY <1>2, <2>1
    <3>6. QED
      BY <1>2, <3>2, <3>3, <3>4, <3>5
  <2>6. QED
    BY <1>2, <1>8, <2>1, <2>4, <2>5
<1>9. QED
  BY <1>2, <1>6, <1>7, <1>8 DEF FrameInv

LEMMA HaltKeeps ==
    ASSUME FrameInv, Halt
    PROVE  FrameInv'
<1> DEFINE n == Len(frames)
<1>1. /\ frames # <<>> /\ frames[n].handler = "fatal" /\ frames[n].step = "enter"
      /\ Step("hlt") /\ enabled' = FALSE /\ raised' = raised
  BY DEF Halt, Top, Last, environment
<1>2. /\ n \in Nat /\ n \in 1 .. n
      /\ frames' \in Seq(Frame) /\ Len(frames') = n
      /\ DOMAIN frames = 1 .. n /\ DOMAIN frames' = 1 .. n
      /\ \A k \in 1 .. n :
             /\ frames'[k].handler = frames[k].handler
             /\ frames'[k].stack = frames[k].stack
             /\ frames'[k].step = IF k = n THEN "hlt" ELSE frames[k].step
  BY <1>1, TopFacts
<1>3. HasFatal' => raised' \ {1, 3} # {}
  BY <1>1, <1>2 DEF HasFatal, FrameInv
<1>4. ASSUME NEW k \in 1 .. n, frames'[k].step = "hlt"
      PROVE  k = n /\ frames'[k].handler = "fatal"
  BY <1>1, <1>2, <1>4 DEF FrameInv
<1>5. ASSUME NEW k \in 1 .. n, frames'[k].handler = "fatal", frames'[k].step = "leave"
      PROVE  k < n /\ 2 \in raised'
  BY <1>1, <1>2, <1>5 DEF FrameInv
<1>6. frames'[n].handler = "fatal" /\ frames'[n].step = "hlt"
  BY <1>1, <1>2
<1> HIDE DEF n
<1>7. QED
  BY <1>1, <1>2, <1>3, <1>4, <1>5, <1>6 DEF FrameInv

\* A step of the timer's handler.
LEMMA SchedulerKeeps ==
    ASSUME FrameInv, Acknowledge \/ Restart
    PROVE  FrameInv'
<1> DEFINE n == Len(frames)
<1>1. PICK s \in {"switch", "leave"} : Step(s)
  BY DEF Acknowledge, Restart
<1>2. frames # <<>> /\ frames[n].handler = "scheduler" /\ enabled' = enabled /\ raised' = raised
  BY DEF Acknowledge, Restart, Top, Last, environment
<1>3. /\ n \in Nat /\ n \in 1 .. n
      /\ frames' \in Seq(Frame) /\ Len(frames') = n
      /\ DOMAIN frames = 1 .. n /\ DOMAIN frames' = 1 .. n
      /\ \A k \in 1 .. n :
             /\ frames'[k].handler = frames[k].handler
             /\ frames'[k].stack = frames[k].stack
             /\ frames'[k].step = IF k = n THEN s ELSE frames[k].step
  BY <1>1, <1>2, TopFacts
<1>4. HasFatal' => raised' \ {1, 3} # {}
  BY <1>2, <1>3 DEF HasFatal, FrameInv
<1>5. \A k \in 1 .. n : frames'[k].step = "hlt" => frames[k].step = "hlt"
  BY <1>3
<1>6. ASSUME NEW k \in 1 .. n, frames'[k].handler = "fatal", frames'[k].step = "leave"
      PROVE  FALSE
  <2>1. frames[k].handler = "fatal" /\ frames[k].step = "leave"
    BY <1>2, <1>3, <1>6
  <2>2. frames[n].handler = "fatal"
    BY <1>3, <2>1 DEF FrameInv
  <2>3. QED
    BY <1>2, <2>2
<1>7. \A k \in 1 .. n : frames'[k].step = "hlt" =>
          k = Len(frames') /\ ~enabled' /\ frames'[k].handler = "fatal"
  BY <1>2, <1>3, <1>5 DEF FrameInv
<1> HIDE DEF n
<1>8. QED
  BY <1>3, <1>4, <1>6, <1>7 DEF FrameInv

LEMMA ReturnKeeps ==
    ASSUME FrameInv, Return
    PROVE  FrameInv' /\ (HasFatal => HasFatal')
<1> DEFINE n == Len(frames)
<1>1. /\ frames # <<>> /\ frames' = Front(frames) /\ raised' = raised
      /\ \/ frames[n].step = "enter" /\ frames[n].handler # "fatal"
         \/ frames[n].step = "leave"
  BY DEF Return, Top, Last, environment
<1>2. /\ n \in Nat /\ n \in 1 .. n
      /\ frames' \in Seq(Frame) /\ Len(frames') = n - 1
      /\ DOMAIN frames = 1 .. n /\ DOMAIN frames' = 1 .. (n - 1)
      /\ \A k \in 1 .. (n - 1) : frames'[k] = frames[k]
  BY <1>1, PopFacts
<1>3. frames[n].handler # "fatal"
  BY <1>1, <1>2 DEF FrameInv
<1>4. HasFatal => HasFatal'
  <2>1. SUFFICES ASSUME NEW k \in 1 .. n, frames[k].handler = "fatal"
                 PROVE  HasFatal'
    BY <1>2 DEF HasFatal
  <2>2. k \in 1 .. (n - 1)
    BY <1>2, <1>3, <2>1
  <2>3. QED
    BY <1>2, <2>1, <2>2 DEF HasFatal
<1>5. HasFatal' => HasFatal
  BY <1>2 DEF HasFatal
<1>6. \A k \in 1 .. (n - 1) : frames'[k].step # "hlt"
  BY <1>2 DEF FrameInv
<1>7. \A k \in 1 .. (n - 1) : ~(frames'[k].handler = "fatal" /\ frames'[k].step = "leave")
  BY <1>2, <1>3 DEF FrameInv
<1> HIDE DEF n
<1>8. QED
  BY <1>1, <1>2, <1>4, <1>5, <1>6, <1>7 DEF FrameInv

\* The step preserves FrameInv, and no handler that stops the processor goes away.
LEMMA FrameStep ==
    ASSUME TypeOK, PhaseInv, TableInv, FrameInv, [Next]_vars
    PROVE  FrameInv' /\ (HasFatal => HasFatal')
<1>1. CASE SetUpStep
  <2>1. frames = <<>> /\ frames' = <<>> /\ DOMAIN frames = {} /\ DOMAIN frames' = {}
    BY <1>1, SetUpFacts
  <2>2. ~HasFatal /\ ~HasFatal'
    BY <2>1 DEF HasFatal
  <2>3. frames' \in Seq(Frame)
    BY <2>1 DEF FrameInv
  <2>4. QED
    BY <2>1, <2>2, <2>3 DEF FrameInv
<1>2. CASE \E v : Entering(v)
  <2>1. PICK v : Entering(v)
    BY <1>2
  <2>2. FrameInv'
    BY <2>1, EnteringKeeps
  <2>3. HasFatal => HasFatal'
    <3>1. PICK w \in Vectors : EnteredBy(v, w)
      BY <2>1, EnteringFacts
    <3> DEFINE n == Len(frames)
    <3>2. /\ n \in Nat
          /\ DOMAIN frames = 1 .. n /\ DOMAIN frames' = 1 .. (n + 1)
          /\ \A k \in 1 .. n : frames'[k].handler = frames[k].handler
      BY <3>1, PushFacts
    <3>3. QED
      BY <3>2 DEF HasFatal
  <2>4. QED
    BY <2>2, <2>3
<1>3. CASE Halt \/ Acknowledge \/ Restart
  <2>1. FrameInv'
    BY <1>3, HaltKeeps, SchedulerKeeps
  <2>2. frames # <<>> /\ \E s \in {"hlt", "switch", "leave"} : Step(s)
    BY <1>3 DEF Halt, Acknowledge, Restart
  <2>3. /\ DOMAIN frames' = DOMAIN frames
        /\ \A k \in DOMAIN frames : frames'[k].handler = frames[k].handler
    BY <2>2, TopFacts
  <2>4. QED
    BY <2>1, <2>3 DEF HasFatal
<1>4. CASE Return
  BY <1>4, ReturnKeeps
<1>5. CASE TimerExpires \/ UNCHANGED vars
  BY <1>5 DEF TimerExpires, vars, environment, FrameInv, HasFatal
<1>6. QED
  BY <1>1, <1>2, <1>3, <1>4, <1>5, NextSteps DEF Handle
-----------------------------------------------------------------------------
\* TypeOK.
LEMMA TypeStep ==
    ASSUME TypeOK, PhaseInv, TableInv, FrameInv, PhaseInv', TableInv', FrameInv', [Next]_vars
    PROVE  TypeOK'
<1>1. machine' \in Machines
  <2>1. machine' = machine
    BY NextSteps, SetUpFacts, EnteringFacts
       DEF Handle, Return, Halt, Acknowledge, Restart, TimerExpires, vars
  <2>2. QED
    BY <2>1 DEF TypeOK
<1>2. pc' \in {"pic", "fs", "gdt", "idt", "exceptions", "identity", "apic", "cr3", "enable",
               "scheduler", "start timer", "vector", "sti", "program", "idle", "panic", "reset"}
  BY DEF PhaseInv, Running, AfterReg, AfterSch, AfterCr3, AfterApic, AfterMap, AfterPro,
         AfterIdt, AfterGdt, AfterFs, AfterPic
<1>3. breakpoints' \in 0 .. 5 /\ noise' \in 0 .. MaxNoise
  <2>1. breakpoints \in 0 .. 5 /\ noise \in 0 .. MaxNoise /\ MaxNoise \in Nat
    BY CpuAssumption DEF TypeOK
  <2>2. \/ UNCHANGED <<breakpoints, noise>>
        \/ breakpoints < 5 /\ breakpoints' = breakpoints + 1 /\ noise' = noise
        \/ noise < MaxNoise /\ noise' = noise + 1 /\ breakpoints' = breakpoints
    BY NextSteps, SetUpFacts
       DEF Handle, Return, Halt, Acknowledge, Restart, TimerExpires, vars, environment,
           Entering, Breakpoint, TimerInterrupt, NoiseInterrupt, Fault, NonMaskable
  <2>3. QED
    BY <2>1, <2>2
<1>4. raised' \subseteq 0 .. 31
  <2>1. \/ raised' = raised \/ raised' = raised \cup {2}
        \/ \E v \in Faults : raised' = raised \cup {v}
    BY NextSteps, SetUpFacts
       DEF Handle, Return, Halt, Acknowledge, Restart, TimerExpires, vars, environment,
           Entering, Breakpoint, TimerInterrupt, NoiseInterrupt, Fault, NonMaskable
  <2>2. QED
    <3>1. raised \subseteq 0 .. 31 /\ Faults \subseteq 0 .. 31
      BY CpuAssumption DEF TypeOK
    <3>2. \A v \in 0 .. 31 : raised \cup {v} \subseteq 0 .. 31
      BY <3>1
    <3>3. 2 \in 0 .. 31
      OBVIOUS
    <3>4. QED
      BY <2>1, <3>1, <3>2, <3>3, Zenon
<1>5. \A k \in DOMAIN frames' :
          frames'[k] \in [handler : Handlers, stack : 0 .. 2, enabled : BOOLEAN,
                          step : {"enter", "switch", "hlt", "leave"}]
  <2>1. frames' \in Seq(Frame)
    BY DEF FrameInv
  <2>2. \A k \in DOMAIN frames' : frames'[k] \in Frame
    BY <2>1
  <2>3. QED
    BY <2>2 DEF Frame
<1>6. \A v \in DOMAIN idt' :
          /\ v \in 0 .. 255
          /\ idt'[v] \in [low : Handlers, high : Handlers \cup {"null"}, stack : 0 .. 2,
                          gate : {"interrupt", "trap"}]
  <2>1. SUFFICES ASSUME NEW v \in DOMAIN idt'
                 PROVE  /\ v \in 0 .. 255
                        /\ idt'[v] \in [low : Handlers, high : Handlers \cup {"null"},
                                        stack : 0 .. 2, gate : {"interrupt", "trap"}]
    OBVIOUS
  <2>2. v \in Vectors /\ idt'[v] \in {Descriptor(v, CallOf(v).handler), Descriptor(v, "null")}
    BY DEF TableInv
  <2>3. CallOf(v) \in CallType
    BY <2>2, CallFacts
  <2>4. QED
    BY <2>2, <2>3 DEF Descriptor, CallType, Vectors
<1>7. pic_base' \in [master : 0 .. 248, slave : 0 .. 248]
  <2>1. pic_base' = pic_base \/ pic_base' = Remapped
    BY NextSteps, EnteringFacts
       DEF SetUpStep, apic_disable_pic, SetCurrent, gdt_initialize, idt_initialize, RegisterFirst,
           RegisterRest, MakeProcess, MapMemory, MapApic, LoadPageTable, EnableApic,
           scheduler_initialize, StartTimer, SetTimerVector, EnableInterrupts, Idle,
           Handle, Return, Halt, Acknowledge, Restart, TimerExpires, vars, Remapped
  <2>2. QED
    <3>1. pic_base \in [master : 0 .. 248, slave : 0 .. 248]
      BY DEF TypeOK
    <3>2. QED
      BY <2>1, <3>1 DEF Remapped
<1>8. mapped' \subseteq {"memory", "apic"}
  <2>1. mapped' \subseteq mapped \cup {"memory", "apic"}
    BY NextSteps, EnteringFacts
       DEF SetUpStep, apic_disable_pic, SetCurrent, gdt_initialize, idt_initialize, RegisterFirst,
           RegisterRest, MakeProcess, MapMemory, MapApic, LoadPageTable, EnableApic,
           scheduler_initialize, StartTimer, SetTimerVector, EnableInterrupts, Idle,
           Handle, Return, Halt, Acknowledge, Restart, TimerExpires, vars, tables
  <2>2. QED
    BY <2>1 DEF TypeOK
<1>9. timer' \in {"off", "running", "expired"}
  BY NextSteps DEF SetUpStep, apic_disable_pic, SetCurrent, gdt_initialize, idt_initialize,
     RegisterFirst, RegisterRest, MakeProcess, MapMemory, MapApic, LoadPageTable, EnableApic,
     scheduler_initialize, StartTimer, SetTimerVector, EnableInterrupts, Idle,
     Handle, Return, Halt, Acknowledge, Restart, TimerExpires, vars, apic, TypeOK,
     Entering, Breakpoint, TimerInterrupt, NoiseInterrupt, Fault, NonMaskable
<1>10. timer_vector' \in {Masked} \cup (0 .. 255)
  <2>1. timer_vector' \in {Masked, 35}
    BY DEF PhaseInv
  <2>2. QED
    BY <2>1
<1>11. enabled' \in BOOLEAN
  <2>0. enabled \in BOOLEAN
    BY Zenon DEF TypeOK
  <2>1. CASE SetUpStep
    BY <2>0, <2>1
       DEF SetUpStep, apic_disable_pic, SetCurrent, gdt_initialize, idt_initialize, RegisterFirst,
           RegisterRest, MakeProcess, MapMemory, MapApic, LoadPageTable, EnableApic,
           scheduler_initialize, StartTimer, SetTimerVector, EnableInterrupts, Idle, Goto
  <2>2. CASE Return
    <3>1. frames # <<>> /\ enabled' = frames[Len(frames)].enabled
      BY <2>2 DEF Return, Top, Last
    <3>2. frames[Len(frames)] \in Frame
      BY <3>1 DEF FrameInv
    <3>3. QED
      BY <3>1, <3>2 DEF Frame
  <2>3. CASE Halt \/ Acknowledge \/ Restart \/ TimerExpires \/ UNCHANGED vars
    BY <2>0, <2>3, Zenon DEF Halt, Acknowledge, Restart, TimerExpires, vars
  <2>4. CASE \E v : Entering(v)
    <3>1. PICK v : Entering(v)
      BY <2>4
    <3>2. PICK w \in Vectors : EnteredBy(v, w)
      BY <3>1, EnteringFacts
    <3>3. enabled' = (enabled /\ CallOf(w).gate = "trap")
      BY <3>2 DEF EnteredBy
    <3>4. QED
      BY <3>3, Zenon
  <2>5. QED
    BY <2>1, <2>2, <2>3, <2>4, NextSteps DEF Handle
<1>12. /\ fs' \in BOOLEAN /\ tss' \in BOOLEAN /\ cr3' \in BOOLEAN /\ idtr' \in BOOLEAN
       /\ half' \in BOOLEAN /\ current_process' \in BOOLEAN
       /\ apic_enabled' \in BOOLEAN /\ in_service' \in BOOLEAN
  <2>0. /\ fs \in BOOLEAN /\ tss \in BOOLEAN /\ cr3 \in BOOLEAN /\ idtr \in BOOLEAN
        /\ half \in BOOLEAN /\ current_process \in BOOLEAN
        /\ apic_enabled \in BOOLEAN /\ in_service \in BOOLEAN
    BY Zenon DEF TypeOK
  <2>1. CASE SetUpStep
    <3>1. /\ fs' = fs \/ fs' = TRUE
          /\ tss' = tss \/ tss' = TRUE
          /\ cr3' = cr3 \/ cr3' = current_process
          /\ idtr' = idtr \/ idtr' = TRUE
          /\ half' = half \/ half' = TRUE \/ half' = FALSE
          /\ current_process' = current_process \/ current_process' = TRUE
          /\ apic_enabled' = apic_enabled \/ apic_enabled' = TRUE
          /\ in_service' = in_service
      BY <2>1
         DEF SetUpStep, apic_disable_pic, SetCurrent, gdt_initialize, idt_initialize,
             RegisterFirst, RegisterRest, MakeProcess, MapMemory, MapApic, LoadPageTable,
             EnableApic, scheduler_initialize, StartTimer, SetTimerVector, EnableInterrupts, Idle,
             tables, apic
    <3>2. QED
      BY <2>0, <3>1, Zenon
  <2>2. CASE Handle \/ TimerExpires \/ UNCHANGED vars
    BY <2>0, <2>2
       DEF Handle, Return, Halt, Acknowledge, Restart, TimerExpires, vars, tables, apic
  <2>3. CASE \E v : Entering(v)
    <3>1. UNCHANGED <<tables, apic_enabled>>
      BY <2>3, EnteringFacts
    <3>2. in_service' = in_service \/ in_service' = TRUE
      BY <2>3 DEF Entering, Breakpoint, TimerInterrupt, NoiseInterrupt, Fault, NonMaskable, apic
    <3>3. QED
      BY <2>0, <3>1, <3>2 DEF tables
  <2>4. QED
    BY <2>1, <2>2, <2>3, NextSteps
<1>13. {enabled, fs, tss, cr3, idtr, half, current_process, apic_enabled, in_service}'
           \subseteq BOOLEAN
  BY <1>11, <1>12, Zenon
<1>14. QED
  BY <1>1, <1>2, <1>3, <1>4, <1>5, <1>6, <1>7, <1>8, <1>9, <1>10, <1>13 DEF TypeOK
-----------------------------------------------------------------------------
\* TimerInv, if the timer takes longer than the instructions behind its start.
LEMMA TimerStep ==
    ASSUME TypeOK, PhaseInv, TableInv, FrameInv, TimerInv, Prompt, [Next]_vars
    PROVE  TimerInv'
<1> DEFINE n == Len(frames)
<1>0. n \in Nat /\ DOMAIN frames = 1 .. n
  BY DEF FrameInv
<1>1. CASE SetUpStep
  <2>1. DOMAIN frames' = {}
    BY <1>1, SetUpFacts
  <2>2. QED
    BY <2>1 DEF TimerInv
<1>2. CASE Return
  <2>1. frames # <<>> /\ frames' = Front(frames) /\ timer' = timer
    BY <1>2 DEF Return, apic
  <2>2. /\ DOMAIN frames' = 1 .. (n - 1)
        /\ \A k \in 1 .. (n - 1) : frames'[k] = frames[k]
    BY <2>1, PopFacts
  <2>3. \A k \in DOMAIN frames' : k \in DOMAIN frames /\ frames'[k] = frames[k]
    BY <1>0, <2>2
  <2>4. QED
    BY <2>1, <2>3 DEF TimerInv
<1>3. CASE Halt \/ Acknowledge
  <2>1. PICK s \in {"hlt", "switch"} : Step(s)
    BY <1>3 DEF Halt, Acknowledge
  <2>2. /\ frames # <<>> /\ timer' = timer
        /\ frames[n].step = "enter"
    BY <1>3 DEF Halt, Acknowledge, apic, Top, Last
  <2>3. /\ DOMAIN frames' = DOMAIN frames
        /\ \A k \in DOMAIN frames :
               /\ frames'[k].handler = frames[k].handler
               /\ frames'[k].stack = frames[k].stack
               /\ frames'[k].step = IF k = n THEN s ELSE frames[k].step
    BY <2>1, <2>2, TopFacts
  <2>4. QED
    BY <2>2, <2>3 DEF TimerInv
<1>4. CASE Restart
  <2>1. /\ frames # <<>> /\ timer' = "running" /\ Step("leave")
        /\ frames[n].handler = "scheduler"
    BY <1>4 DEF Restart, Top, Last
  <2>2. /\ n \in DOMAIN frames
        /\ DOMAIN frames' = DOMAIN frames
        /\ \A k \in DOMAIN frames :
               /\ frames'[k].handler = frames[k].handler
               /\ frames'[k].stack = frames[k].stack
               /\ frames'[k].step = IF k = n THEN "leave" ELSE frames[k].step
    BY <2>1, TopFacts
  <2>3. \A k \in DOMAIN frames : frames[k].handler = "scheduler" => k = n
    BY <2>1, <2>2 DEF TimerInv
  <2> HIDE DEF n
  <2>4. QED
    BY <2>1, <2>2, <2>3 DEF TimerInv
<1>5. CASE TimerExpires
  <2>1. /\ timer = "running" /\ ~Starting /\ frames' = frames
    BY <1>5 DEF TimerExpires
  <2>2. ASSUME NEW k \in DOMAIN frames, frames[k].handler = "scheduler"
        PROVE  FALSE
    <3>1. frames[k].step \in {"enter", "switch", "hlt", "leave"}
      BY DEF TypeOK
    <3>2. frames[k].step # "leave"
      BY <2>1, <2>2 DEF Starting
    <3>3. frames[k].step # "hlt"
      BY <2>2 DEF FrameInv
    <3>4. QED
      BY <2>1, <2>2, <3>1, <3>2, <3>3 DEF TimerInv
  <2>3. QED
    BY <2>1, <2>2 DEF TimerInv
<1>6. CASE \E v : Entering(v)
  <2>1. PICK v : Entering(v)
    BY <1>6
  <2>2. PICK w \in Vectors : EnteredBy(v, w)
    BY <2>1, EnteringFacts
  <2>3. /\ DOMAIN frames' = 1 .. (n + 1)
        /\ \A k \in 1 .. n :
               /\ frames'[k].handler = frames[k].handler
               /\ frames'[k].stack = frames[k].stack
               /\ frames'[k].step = IF k = n /\ frames[k].step = "hlt"
                                    THEN "leave" ELSE frames[k].step
        /\ frames'[n + 1].handler = CallOf(w).handler
        /\ frames'[n + 1].stack = CallOf(w).stack
        /\ frames'[n + 1].step = "enter"
    BY <2>2, PushFacts
  <2>4. w = 8 => n = 0
    <3>1. ASSUME w = 8 PROVE v = 8 \/ v \notin Vectors
      BY <2>2, <3>1 DEF EnteredBy
    <3>2. ASSUME w = 8 PROVE Fault(v)
      <4>1. CASE Breakpoint /\ v = 3
        BY <3>1, <3>2, <4>1 DEF Vectors
      <4>2. CASE TimerInterrupt /\ v = timer_vector
        <5>1. v = 35
          BY <4>2 DEF TimerInterrupt, PhaseInv
        <5>2. QED
          BY <3>1, <3>2, <5>1 DEF Vectors
      <4>3. CASE \E irq \in Noise : NoiseInterrupt(irq) /\ v = NoiseVector(irq)
        <5>1. PICK irq \in Noise : NoiseInterrupt(irq) /\ v = NoiseVector(irq)
          BY <4>3
        <5>2. pic_base = Remapped
          BY <5>1 DEF NoiseInterrupt, PhaseInv, Running, AfterReg, AfterSch, AfterCr3,
                     AfterApic, AfterMap, AfterPro, AfterIdt, AfterGdt, AfterFs, AfterPic
        <5>3. QED
          BY <3>1, <3>2, <5>1, <5>2, NoiseFacts
      <4>4. CASE NonMaskable /\ v = 2
        BY <3>1, <3>2, <4>4 DEF Vectors
      <4>5. QED
        BY <2>1, <4>1, <4>2, <4>3, <4>4 DEF Entering
    <3>3. QED
      BY <3>2 DEF Fault
  <2>5. w = 35 => timer = "expired" /\ timer' = "off"
    <3>1. ASSUME w = 35 PROVE v = 35
      BY <2>2, <3>1 DEF EnteredBy, GENERAL_PROTECTION, DOUBLE_FAULT
    <3>2. ASSUME w = 35 PROVE TimerInterrupt
      <4>1. CASE \E irq \in Noise : NoiseInterrupt(irq) /\ v = NoiseVector(irq)
        <5>1. PICK irq \in Noise : NoiseInterrupt(irq) /\ v = NoiseVector(irq)
          BY <4>1
        <5>2. pic_base = Remapped
          BY <5>1 DEF NoiseInterrupt, PhaseInv, Running, AfterReg, AfterSch, AfterCr3,
                     AfterApic, AfterMap, AfterPro, AfterIdt, AfterGdt, AfterFs, AfterPic
        <5>3. QED
          BY <3>1, <3>2, <5>1, <5>2, NoiseFacts
      <4>2. QED
        BY <2>1, <3>1, <3>2, <4>1, CpuAssumption DEF Entering
    <3>3. QED
      BY <3>2 DEF TimerInterrupt
  <2>6. timer' = timer \/ timer' = "off"
    BY <2>1 DEF Entering, Breakpoint, TimerInterrupt, NoiseInterrupt, Fault, NonMaskable, apic
  <2> HIDE DEF n
  <2>7. ASSUME NEW k \in 1 .. (n + 1), frames'[k].handler = "scheduler"
        PROVE  /\ timer' # "expired"
               /\ frames'[k].step \in {"enter", "switch"} => timer' = "off"
               /\ w = 35 => k = n + 1
               /\ w # 35 => k \in 1 .. n
    <3>1. CASE k \in 1 .. n
      <4>1. frames[k].handler = "scheduler"
        BY <2>3, <2>7, <3>1
      <4>2. timer # "expired" /\ (frames[k].step \in {"enter", "switch"} => timer = "off")
        BY <1>0, <3>1, <4>1 DEF TimerInv
      <4>3. frames'[k].step \in {"enter", "switch"} => frames[k].step \in {"enter", "switch"}
        BY <2>3, <3>1
      <4>4. QED
        BY <2>5, <2>6, <3>1, <4>2, <4>3
    <3>2. CASE k = n + 1
      <4>1. w = 35
        BY <2>3, <2>7, <3>2, HandlerFacts
      <4>2. QED
        BY <2>5, <3>2, <4>1
    <3>3. QED
      BY <1>0, <3>1, <3>2
  <2>8. ASSUME NEW k \in 1 .. (n + 1)
        PROVE  /\ frames'[k].stack = 2 => frames'[k].handler = "scheduler"
               /\ frames'[k].stack = 1 => k = 1
    <3>1. CASE k \in 1 .. n
      BY <1>0, <2>3, <3>1 DEF TimerInv
    <3>2. CASE k = n + 1
      BY <1>0, <2>3, <2>4, <3>2, HandlerFacts
    <3>3. QED
      BY <1>0, <3>1, <3>2
  <2>9. ASSUME NEW k \in 1 .. (n + 1), NEW l \in 1 .. (n + 1),
               frames'[k].handler = "scheduler", frames'[l].handler = "scheduler"
        PROVE  k = l
    <3>1. CASE w = 35
      BY <2>7, <2>9, <3>1
    <3>2. CASE w # 35
      <4>1. k \in 1 .. n /\ l \in 1 .. n
        BY <2>7, <2>9, <3>2
      <4>2. QED
        BY <1>0, <2>3, <2>9, <4>1 DEF TimerInv
    <3>3. QED
      BY <3>1, <3>2
  <2>10. QED
    BY <2>3, <2>7, <2>8, <2>9 DEF TimerInv
<1>7. CASE UNCHANGED vars
  BY <1>7 DEF vars, apic, TimerInv
<1>8. QED
  BY <1>1, <1>2, <1>3, <1>4, <1>5, <1>6, <1>7, NextSteps DEF Handle
-----------------------------------------------------------------------------
LEMMA InitInv == Init => Inv
<1> SUFFICES ASSUME Init PROVE Inv
  OBVIOUS
<1>1. frames = <<>> /\ DOMAIN frames = {} /\ DOMAIN idt = {} /\ DOMAIN registering = {}
  BY DEF Init
<1>2. TypeOK
  <2>1. {enabled, fs, tss, cr3, idtr, half, current_process, apic_enabled, in_service}
            \subseteq BOOLEAN
    BY Zenon DEF Init
  <2>2. noise \in 0 .. MaxNoise
    BY CpuAssumption DEF Init
  <2>3. pic_base \in [master : 0 .. 248, slave : 0 .. 248]
    BY DEF Init
  <2>4. /\ machine \in Machines /\ pc = "pic" /\ breakpoints \in 0 .. 5
        /\ mapped = {} /\ timer = "off" /\ timer_vector = Masked /\ raised = {}
    BY DEF Init
  <2>5. QED
    BY <1>1, <2>1, <2>2, <2>3, <2>4 DEF TypeOK
<1>3. PhaseInv
  BY DEF Init, PhaseInv, Running, AfterReg, AfterSch, AfterCr3, AfterApic, AfterMap, AfterPro,
         AfterIdt, AfterGdt, AfterFs, AfterPic
<1>4. TableInv
  <2>1. registering = <<>> /\ ~half /\ pc = "pic"
    BY DEF Init
  <2>2. \A S : <<>> \in Seq(S)
    OBVIOUS
  <2>3. QED
    BY <1>1, <2>1, <2>2 DEF TableInv, Running, AfterReg, AfterSch, AfterCr3, AfterApic, AfterMap,
                            AfterPro, AfterIdt
<1>5. FrameInv
  <2>1. \A S : <<>> \in Seq(S)
    OBVIOUS
  <2>2. QED
    BY <1>1, <2>1 DEF FrameInv, HasFatal
<1>6. TimerInv
  BY <1>1 DEF TimerInv
<1>7. QED
  BY <1>2, <1>3, <1>4, <1>5, <1>6 DEF Inv

LEMMA NextInv == Inv /\ [Next]_vars => Inv'
<1> SUFFICES ASSUME Inv, [Next]_vars PROVE Inv'
  OBVIOUS
<1>1. TypeOK /\ PhaseInv /\ TableInv /\ FrameInv /\ (Prompt => TimerInv)
  BY DEF Inv
<1>2. PhaseInv' /\ TableInv' /\ FrameInv'
  BY <1>1, PhaseStep, TableStep, FrameStep
<1>3. TypeOK'
  BY <1>1, <1>2, TypeStep
<1>4. Prompt => TimerInv'
  BY <1>1, TimerStep
<1>5. QED
  BY <1>2, <1>3, <1>4 DEF Inv

\* The inductive invariant holds.
THEOREM InvHolds == Spec => []Inv
<1>1. QED
  BY InitInv, NextInv, PTL DEF Spec

\* cpu.c, idt.c, scheduler.c: every variable has its type.
THEOREM TypeCorrect == Spec => []TypeOK
<1>1. Inv => TypeOK
  BY DEF Inv
<1>2. QED
  BY <1>1, InvHolds, PTL

\* cpu.h, idt.h, "cpu_initialize must be called first!!": whatever interrupts come and
\* on whatever machine, what the set-up and the timer's handler use is there.
THEOREM NeverMissing == Spec => []NothingMissing
<1>1. Inv => NothingMissing
  <2> SUFFICES ASSUME Inv PROVE NothingMissing
    OBVIOUS
  <2>1. PhaseInv
    BY DEF Inv
  <2>2. registering # <<>> => fs /\ idtr
    BY <2>1 DEF PhaseInv, Running, AfterReg, AfterSch, AfterCr3, AfterApic, AfterMap, AfterPro,
                AfterIdt, AfterGdt, AfterFs
  <2>3. (\E k \in DOMAIN frames : frames[k].handler = "scheduler") => pc \in Running
    <3>1. frames = <<>> => DOMAIN frames = {}
      OBVIOUS
    <3>2. QED
      BY <2>1, <3>1 DEF PhaseInv
  <2>4. pc \in AfterCr3 => fs /\ current_process /\ cr3 /\ {"memory", "apic"} \subseteq mapped
    BY <2>1 DEF PhaseInv, Running, AfterReg, AfterSch, AfterCr3, AfterApic, AfterMap, AfterPro,
                AfterIdt, AfterGdt, AfterFs
  <2>5. QED
    BY <2>2, <2>3, <2>4 DEF NothingMissing, AfterCr3, AfterSch, AfterReg, Running
<1>2. QED
  BY <1>1, InvHolds, PTL

\* apic.c, idt.c: noise, the timer and int3 never reset the machine and never stop it,
\* whichever of the requests come, how often they come, and wherever they interrupt.
THEOREM NeverUnexpected == Spec => []NoUnexpected
<1>1. Inv => NoUnexpected
  BY DEF Inv, PhaseInv, FrameInv, NoUnexpected, Running, AfterReg, AfterSch, AfterCr3, AfterApic,
         AfterMap, AfterPro, AfterIdt, AfterGdt, AfterFs, AfterPic
<1>2. QED
  BY <1>1, InvHolds, PTL

\* idt.c: what caused a fatal exception never goes on.
THEOREM FatalStaysStopped == Spec => FatalStops
<1>1. Inv /\ [Next]_vars => [HasFatal => HasFatal']_vars
  BY FrameStep DEF Inv
<1>2. QED
  BY <1>1, InvHolds, PTL DEF Spec, FatalStops

\* idt.h, "the stack cannot be used by multiple interrupts at the same time": it is not,
\* as long as the timer takes longer than the instructions between its restart and the
\* end of its handler.
THEOREM StacksExclusive == ASSUME Prompt PROVE Spec => []IstExclusive
<1>1. Inv => IstExclusive
  <2> SUFFICES ASSUME TypeOK, TimerInv PROVE IstExclusive
    BY DEF Inv
  <2>1. SUFFICES ASSUME NEW k \in DOMAIN frames, NEW l \in DOMAIN frames, k # l,
                        frames[k].stack # 0, frames[k].stack = frames[l].stack
                 PROVE  FALSE
    BY DEF IstExclusive
  <2>2. frames[k].stack \in 0 .. 2
    BY DEF TypeOK
  <2>3. CASE frames[k].stack = 1
    BY <2>1, <2>3 DEF TimerInv
  <2>4. CASE frames[k].stack = 2
    BY <2>1, <2>4 DEF TimerInv
  <2>5. QED
    BY <2>1, <2>2, <2>3, <2>4
<1>2. QED
  BY <1>1, InvHolds, PTL
=============================================================================
