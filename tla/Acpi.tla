-------------------------------- MODULE Acpi --------------------------------
(***************************************************************************)
(* The ACPI tables, acpi.c: finding the root pointer in low memory, the    *)
(* checksums, looking a table up by its signature, and walking through the *)
(* entries of the MADT.                                                    *)
(*                                                                         *)
(* A table is the sequence of its bytes, the first of which stands for the *)
(* signature.  A byte has Byte values (256).  The length field is not one  *)
(* of the bytes: a table always says how long it is.  The entries of the   *)
(* MADT are kept apart, as they are reached by addresses: an address is    *)
(* relative to the table, and 0 is the null pointer.                       *)
(***************************************************************************)
EXTENDS Integers, Sequences, FiniteSetsExt

CONSTANTS Byte,         \* 256
          MadtHeader,   \* sizeof(struct acpi_madt)
          StrayLengths  \* what may be read as a length where no entry starts

ASSUME AcpiAssumption == /\ Byte \in Nat \ {0, 1}
                         /\ MadtHeader \in Nat \ {0}
                         /\ StrayLengths \subseteq Nat

\* The signatures, and what else low memory contains at a multiple of 16.
ACPI_RSDTP_SIGNATURE == 1
ACPI_FADT_SIGNATURE  == 2
ACPI_MADT_SIGNATURE  == 3

ACPI_MADT_TYPE_LOCAL_APIC == 0
ACPI_MADT_TYPE_IO_APIC    == 1

Bytes == 0 .. (Byte - 1)
Table == Seq(Bytes) \ {<<>>}
Signature(table) == table[1]

\* The first of the structures in low memory with the signature; the empty
\* sequence stands for the null pointer.
acpi_find_rsdt_pointer(low) ==
    LET found == {i \in DOMAIN low : Signature(low[i]) = ACPI_RSDTP_SIGNATURE}
    IN  IF found = {} THEN <<>> ELSE low[Min(found)]

\* Mistake: the loop ends one byte early.
SumButLast(table) ==
    LET sum[i \in 0 .. Len(table)] == IF i = 0 THEN 0 ELSE (sum[i - 1] + table[i]) % Byte
    IN  sum[Len(table) - 1]

\* 0 if the table is valid; sum[i] is the sum after i bytes.
acpi_validate_sdt(table) ==
    LET sum[i \in 0 .. Len(table)] == IF i = 0 THEN 0 ELSE (sum[i - 1] + table[i]) % Byte
    IN  sum[Len(table)]
acpi_validate_rsdt_pointer(rsdp) == acpi_validate_sdt(rsdp)

\* The first table with the signature.
acpi_rsdt_get_table(root_table, table_signature) ==
    LET found == {i \in DOMAIN root_table : Signature(root_table[i]) = table_signature}
    IN  IF found = {} THEN <<>> ELSE root_table[Min(found)]
-----------------------------------------------------------------------------
\* An entry of the MADT: its header, and of its body the APIC id and whether the
\* processor is enabled (local APIC), or the address (I/O APIC).  It takes size bytes;
\* its length byte says so too, unless that is the corrupt one.
MadtEntry(ids) == [type : 0 .. 9, size : Nat \ {0}, length : Nat, id : ids, enabled : BOOLEAN]
Proper(madt)   == \A i \in DOMAIN madt : madt[i].length = madt[i].size

\* Where the entries start, and where the table ends.
StartOf(madt, i) ==
    LET end[k \in 0 .. Len(madt)] == IF k = 0 THEN MadtHeader ELSE end[k - 1] + madt[k].size
    IN  end[i - 1]
EndOf(madt)  == StartOf(madt, Len(madt) + 1)
Starts(madt) == {StartOf(madt, i) : i \in DOMAIN madt}

EntryAt(madt, a) == madt[CHOOSE i \in DOMAIN madt : StartOf(madt, i) = a]

\* The length byte at a, which is anything where no entry starts.
LengthsAt(madt, a) == IF a \in Starts(madt) THEN {EntryAt(madt, a).length} ELSE StrayLengths

\* The first entry is returned whether there is one or not.
acpi_madt_iterate(madt, previous) ==
    IF previous = 0 THEN MadtHeader
    ELSE LET next == previous + EntryAt(madt, previous).length
         IN  IF next >= EndOf(madt) THEN 0 ELSE next
=============================================================================
