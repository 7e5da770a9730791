----------------------------- MODULE SmpStartup -----------------------------
(***************************************************************************)
(* Starting the other processors: the part of kernel_main (main.c) behind  *)
(* cpu_initialize, cpu_startup16 (cpu.asm) and cpu_entrypoint              *)
(* (entrypoint.c).  The boot processor looks the ACPI tables up, takes the *)
(* first I/O APIC and starts each processor of the MADT with an INIT and   *)
(* two SIPIs, waiting for cpu_startup_increment in between.                *)
(*                                                                         *)
(* A started processor uses the one stack of cpu.asm until it halts in     *)
(* cpu_entrypoint.  Interprocessor interrupts are delivered in order, some *)
(* time after they are sent.  A SIPI is ignored by a processor that is not *)
(* waiting for one.  One byte of one of the tables may be corrupt.         *)
(***************************************************************************)
EXTENDS Acpi

CONSTANTS Processors,     \* APIC ids
          BootProcessor,  \* the id of the boot processor's APIC
          Machines,       \* what the firmware may have left in memory
          Madts,          \* the entries the MADT may have
          MaxVector,      \* 255
          Vectors         \* where the linker may have put cpu_startup16

\* low: the structures in low memory; rsdt: the root table's bytes; tables: the
\* tables it points to; dsdt: the DSDT, <<>> if the FADT has no pointer to it.  Only
\* the MADT has its signature, which differs from the others in more than one byte.
IsMadt(table) == Signature(table) = ACPI_MADT_SIGNATURE
Machine == {m \in [low : Seq(Table), rsdt : Table, tables : Seq(Table), dsdt : Seq(Bytes),
                   apic : BOOLEAN] :
              \A i, j \in DOMAIN m.tables : IsMadt(m.tables[i]) /\ IsMadt(m.tables[j]) => i = j}

ASSUME SmpAssumption ==
    /\ BootProcessor \in Processors
    /\ Machines \subseteq Machine
    /\ Madts \subseteq Seq(MadtEntry(Processors)) \ {<<>>}
    /\ MaxVector \in Nat
    /\ Vectors \subseteq Nat

VARIABLES machine, madt, cpu_startup_vector,
          pc,       \* the boot processor
          current,  \* current_ioapic, then current_processor
          ioapic,
          cpu_startup_increment, cpu_startup_done,
          interrupt_command1,   \* the destination register of its APIC
          ap,       \* each processor
          ipis      \* interrupts on their way to it

given == <<machine, madt, cpu_startup_vector>>
flags == <<cpu_startup_increment, cpu_startup_done>>
vars  == <<given, pc, current, ioapic, flags, interrupt_command1, ap, ipis>>

rsdtp      == acpi_find_rsdt_pointer(machine.low)
fadt       == acpi_rsdt_get_table(machine.tables, ACPI_FADT_SIGNATURE)
madt_table == acpi_rsdt_get_table(machine.tables, ACPI_MADT_SIGNATURE)

\* A table whose bytes add up to a multiple of 256; one that is missing, or that is
\* such a table but for one byte.
Sound(table) ==
    LET total[i \in 0 .. Len(table)] == IF i = 0 THEN 0 ELSE total[i - 1] + table[i]
    IN  total[Len(table)] % Byte = 0
Damaged(table) ==
    \/ table = <<>>
    \/ \E i \in DOMAIN table : \E b \in Bytes \ {table[i]} : Sound([table EXCEPT ![i] = b])

\* A wrong length of an entry is a wrong byte of the MADT.
Init == /\ machine \in Machines
        /\ madt \in Madts
        /\ Proper(madt) \/ Damaged(madt_table)
        /\ cpu_startup_vector \in Vectors
        /\ pc = "rsdtp"
        /\ current = 0 /\ ioapic = 0
        /\ cpu_startup_increment = 0 /\ cpu_startup_done = 0
        /\ interrupt_command1 = BootProcessor
        /\ ap = [p \in Processors |-> "off"]
        /\ ipis = [p \in Processors |-> <<>>]

Entry == EntryAt(madt, current)
Id    == Entry.id
-----------------------------------------------------------------------------
\* The boot processor.  When something is missing or invalid, kernel_main returns.
Check(at, ok, next) == /\ pc = at
                       /\ pc' = IF ok THEN next ELSE "returned"
                       /\ UNCHANGED <<given, current, ioapic, flags, interrupt_command1, ap, ipis>>

Valid(table) == table # <<>> /\ acpi_validate_sdt(table) = 0

FindRsdtp == Check("rsdtp", rsdtp # <<>> /\ acpi_validate_rsdt_pointer(rsdtp) = 0, "rsdt")
CheckRsdt == Check("rsdt", acpi_validate_sdt(machine.rsdt) = 0, "print")

\* acpi_print_rsdt prints the tables, before they are checked.  One iteration of the
\* loop of acpi_print_madt, which goes on by what the length byte says, 0 or not.
acpi_print_rsdt ==
    /\ pc = "print"
    /\ \E i \in IF current = 0 THEN {MadtHeader}
                ELSE {current + n : n \in LengthsAt(madt, current)} :
          IF madt_table # <<>> /\ i < EndOf(madt)
          THEN current' = i /\ pc' = "print"
          ELSE current' = 0 /\ pc' = "fadt"
    /\ UNCHANGED <<given, ioapic, flags, interrupt_command1, ap, ipis>>

FindFadt  == Check("fadt", Valid(fadt), "dsdt")
CheckDsdt == Check("dsdt", Valid(machine.dsdt), "madt")
FindMadt  == Check("madt", Valid(madt_table), "apic")
apic_check_supported == Check("apic", machine.apic, "ioapics")

\* acpi_madt_iterate_type, one iteration, for the I/O APICs: the first is mapped.
NextIoApic ==
    /\ pc = "ioapics"
    /\ current' = acpi_madt_iterate(madt, current)
    /\ pc' = IF current' = 0 THEN "vector" ELSE "ioapics"
    /\ ioapic' = IF /\ ioapic = 0
                    /\ current' # 0
                    /\ EntryAt(madt, current').type = ACPI_MADT_TYPE_IO_APIC
                 THEN current' ELSE ioapic
    /\ UNCHANGED <<given, flags, interrupt_command1, ap, ipis>>

CheckVector == Check("vector", cpu_startup_vector <= MaxVector, "processors")

\* A processor to start: not a disabled one, not the boot processor.
Wanted(e) == /\ e.type = ACPI_MADT_TYPE_LOCAL_APIC
             /\ e.enabled
             /\ e.id # BootProcessor

\* Mistake: the flag is not reset for the next processor.
NextWithoutReset ==
    /\ pc = "processors"
    /\ current' = acpi_madt_iterate(madt, current)
    /\ pc' = IF current' = 0 THEN "done"
             ELSE IF Wanted(EntryAt(madt, current')) THEN "init" ELSE "processors"
    /\ cpu_startup_done' = IF current' = 0 THEN 1 ELSE cpu_startup_done
    /\ UNCHANGED <<given, ioapic, cpu_startup_increment, interrupt_command1, ap, ipis>>

\* acpi_madt_iterate_type, one iteration, for the processors.
NextProcessor ==
    /\ pc = "processors"
    /\ current' = acpi_madt_iterate(madt, current)
    /\ pc' = IF current' = 0 THEN "done"
             ELSE IF Wanted(EntryAt(madt, current')) THEN "init" ELSE "processors"
    /\ cpu_startup_increment' = IF pc' = "init" THEN 0 ELSE cpu_startup_increment
    /\ cpu_startup_done' = IF current' = 0 THEN 1 ELSE cpu_startup_done
    /\ UNCHANGED <<given, ioapic, interrupt_command1, ap, ipis>>

\* interrupt_command1 is the destination; writing interrupt_command0 sends.
Send(ipi) ==
    /\ interrupt_command1' = Id
    /\ ipis' = [ipis EXCEPT ![interrupt_command1'] = Append(@, ipi)]
    /\ UNCHANGED <<given, current, ioapic, flags, ap>>

SendInit  == pc = "init" /\ pc' = "sipi" /\ Send("INIT")
SendSipi  == pc = "sipi" /\ pc' = "sipi again" /\ Send("SIPI")

\* Mistake: one SIPI has to do.
SendOnce == pc = "sipi again" /\ pc' = "wait"
            /\ UNCHANGED <<given, current, ioapic, flags, interrupt_command1, ap, ipis>>

\* Two milliseconds after the INIT the processor is ready for a SIPI.  After one
\* millisecond it may not be.
Ready(p)  == ap[p] # "initializing" /\ \A i \in DOMAIN ipis[p] : ipis[p][i] # "INIT"
SendAgain == pc = "sipi again" /\ Ready(Id) /\ pc' = "wait" /\ Send("SIPI")

\* Mistake: nobody waits for the processor.
GoOn == /\ pc = "wait"
        /\ pc' = "processors"
        /\ UNCHANGED <<given, current, ioapic, flags, interrupt_command1, ap, ipis>>

WaitForIncrement ==
    /\ pc = "wait"
    /\ cpu_startup_increment # 0
    /\ pc' = "processors"
    /\ UNCHANGED <<given, current, ioapic, flags, interrupt_command1, ap, ipis>>

BootStep == \/ FindRsdtp \/ CheckRsdt \/ acpi_print_rsdt \/ FindFadt \/ CheckDsdt \/ FindMadt
            \/ apic_check_supported \/ NextIoApic \/ CheckVector \/ NextProcessor
            \/ SendInit \/ SendSipi \/ SendAgain \/ WaitForIncrement
-----------------------------------------------------------------------------
\* Another processor.
Become(p, from, to) == ap[p] = from /\ ap' = [ap EXCEPT ![p] = to]
Rest == <<given, pc, current, ioapic, interrupt_command1>>

Deliver(p) ==
    /\ ipis[p] # <<>>
    /\ ipis' = [ipis EXCEPT ![p] = Tail(@)]
    /\ ap' = [ap EXCEPT ![p] = IF Head(ipis[p]) = "INIT" THEN "initializing"
                               ELSE IF @ = "waiting" THEN "starting" ELSE @]
    /\ UNCHANGED <<Rest, flags>>

Initialized(p) == Become(p, "initializing", "waiting") /\ UNCHANGED <<Rest, flags, ipis>>

\* cpu_startup16 and cpu_startup32: protected mode, long mode, the shared stack.
cpu_startup16(p) == Become(p, "starting", "entered") /\ UNCHANGED <<Rest, flags, ipis>>

cpu_entrypoint(p) == /\ Become(p, "entered", "halted")
                     /\ cpu_startup_increment' = 1
                     /\ UNCHANGED <<Rest, cpu_startup_done, ipis>>

ProcessorStep(p) == Deliver(p) \/ Initialized(p) \/ cpu_startup16(p) \/ cpu_entrypoint(p)

Next == BootStep \/ \E p \in Processors : ProcessorStep(p)

Spec == Init /\ [][Next]_vars

\* Every processor goes on executing, and interrupts arrive.
FairSpec == Spec /\ WF_vars(BootStep) /\ \A p \in Processors : WF_vars(ProcessorStep(p))
-----------------------------------------------------------------------------
TypeOK ==
    /\ machine \in Machines /\ madt \in Madts /\ cpu_startup_vector \in Vectors
    /\ pc \in {"rsdtp", "rsdt", "print", "fadt", "dsdt", "madt", "apic", "ioapics", "vector",
               "processors", "init", "sipi", "sipi again", "wait", "done", "returned"}
    /\ current \in Nat
    /\ ioapic \in Nat
    /\ cpu_startup_increment \in {0, 1}
    /\ cpu_startup_done \in {0, 1}
    /\ interrupt_command1 \in Processors
    /\ ap \in [Processors -> {"off", "initializing", "waiting", "starting", "entered", "halted"}]
    /\ ipis \in [Processors -> Seq({"INIT", "SIPI"})]

\* cpu.asm, "mov esp, stack_top": all processors start on the same stack, and only
\* one of them uses it at a time, although a SIPI may start it late.
OnStack(p) == ap[p] \in {"starting", "entered"}
StackExclusive == \A p, q \in Processors : OnStack(p) /\ OnStack(q) => p = q

\* The processors that the MADT lists as enabled.
Listed == {madt[i].id : i \in {j \in DOMAIN madt : madt[j].type = 0 /\ madt[j].enabled}}
              \ {BootProcessor}

\* main.c: a processor that is disabled, or the boot processor, is never interrupted;
\* and when cpu_startup_done is set, every other one is halted in cpu_entrypoint, and
\* not reset or started again by the second SIPI.
OnlyListedStart ==
    /\ \A p \in Processors \ Listed : ap[p] = "off" /\ ipis[p] = <<>>
    /\ cpu_startup_done = 1 => \A p \in Listed : ap[p] = "halted"

\* acpi.c: if one of the tables that it needs is missing, or has one wrong byte,
\* kernel_main uses nothing of the MADT.
CorruptionStops ==
    (\E table \in {rsdtp, machine.rsdt, fadt, machine.dsdt, madt_table} : Damaged(table))
        => ioapic = 0 /\ \A p \in Processors : ap[p] = "off"

\* main.c: the boot processor does not wait or loop for ever.
AlwaysEnds == <>(pc \in {"done", "returned"})

\* main.c: it does not, even if the first SIPI came too early, and whatever byte is
\* corrupt, except the length of an entry of the MADT: acpi_print_madt goes on by it
\* unchecked, and never ends when it reads 0.
StartupEnds == Proper(madt) => AlwaysEnds
=============================================================================
