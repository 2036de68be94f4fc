------------------------------- MODULE MCMpBoot -------------------------------
(***************************************************************************)
(* Three application processors and one that is listed but not present,    *)
(* with the bootstrap core between them and an I/O APIC.  apList has room  *)
(* for two, and there are frames for two: depending on the order, either   *)
(* the assertion, a core or the bootstrap core fails first.  The timer is  *)
(* scaled to seven samples.                                                *)
(***************************************************************************)
EXTENDS MpBoot

MCMadt == << [type |-> "lapic", apicId |-> 1], [type |-> "ioapic", apicId |-> 0],
             [type |-> "lapic", apicId |-> 0], [type |-> "lapic", apicId |-> 2],
             [type |-> "lapic", apicId |-> 4], [type |-> "lapic", apicId |-> 3] >>
===============================================================================
