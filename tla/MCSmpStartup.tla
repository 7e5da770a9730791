---------------------------- MODULE MCSmpStartup ----------------------------
(***************************************************************************)
(* Machines with a boot processor and two others.                          *)
(***************************************************************************)
EXTENDS SmpStartup, SequencesExt

Local(id, enabled) == [type |-> 0, size |-> 2, length |-> 2, id |-> id, enabled |-> enabled]
IoApic             == [type |-> 1, size |-> 3, length |-> 3, id |-> 0, enabled |-> FALSE]
Other              == [type |-> 2, size |-> 1, length |-> 1, id |-> 0, enabled |-> FALSE]

\* A machine without faults, with the tables in this order.
Good(tables) == [low |-> <<<<0, 0>>, <<1, 7, 0>>, <<1, 0>>>>, rsdt |-> <<5, 3, 0>>,
                 tables |-> tables, dsdt |-> <<4, 4, 0>>, apic |-> TRUE]
Fadt == <<2, 6, 0>>
Madt == <<3, 5, 0>>
GoodMachine == Good(<<<<6, 2>>, Fadt, Madt>>)

\* One byte of a table has changed, which makes no other signature of it.
Corruptions(table) ==
    {t \in {[table EXCEPT ![i] = b] : i \in DOMAIN table, b \in 0 .. (Byte - 1)} \ {table} :
        t[1] = table[1] \/ t[1] \notin {ACPI_FADT_SIGNATURE, ACPI_MADT_SIGNATURE}}

CorruptMachines ==
         {[GoodMachine EXCEPT !.low[2] = t] : t \in {<<1, 6, 0>>, <<1, 7, 1>>}}
    \cup {[GoodMachine EXCEPT !.rsdt = t] : t \in Corruptions(GoodMachine.rsdt)}
    \cup {[GoodMachine EXCEPT !.dsdt = t] : t \in Corruptions(GoodMachine.dsdt)}
    \cup {[GoodMachine EXCEPT !.tables[2] = t] : t \in Corruptions(Fadt)}
    \cup {[GoodMachine EXCEPT !.tables[3] = t] : t \in Corruptions(Madt)}

\* A table is missing, or the processor has no APIC.
PoorMachines == {Good(<<Fadt>>), Good(<<Madt>>), Good(<<Madt, Fadt>>),
                 [GoodMachine EXCEPT !.low = <<<<0, 0>>>>],
                 [GoodMachine EXCEPT !.dsdt = <<>>], [GoodMachine EXCEPT !.apic = FALSE]}

MCMachines == {GoodMachine} \cup CorruptMachines \cup PoorMachines

\* The length of one entry is wrong: 0, or into the middle of an entry.
Badly(m) == {[m EXCEPT ![i].length = n] : i \in DOMAIN m, n \in {0, 1}}

\* Some MADTs list a processor twice, some only the boot processor.
MCMadts == {<<Local(0, TRUE)>>, <<Local(1, TRUE), Local(2, TRUE), IoApic, Local(1, TRUE)>>}
           \cup SetToSeqs({Local(0, TRUE), Local(1, TRUE), Local(2, TRUE), IoApic})
           \cup SetToSeqs({Local(1, FALSE), Local(2, TRUE), IoApic, Other})
           \cup Badly(<<Local(0, TRUE)>>) \cup Badly(<<Local(1, TRUE), IoApic, Local(2, TRUE)>>)
=============================================================================
