----------------------------- MODULE MCCpuSetup -----------------------------
(* The first and the last request of each PIC and the APIC's; exceptions with *)
(* and without a handler.                                                     *)
EXTENDS CpuSetup

MCMachines == Machine
MCNoise    == {0, 7, 8, 15, 16}
MCFaults   == {0, 1, 8, 14, 19, 21}
=============================================================================
