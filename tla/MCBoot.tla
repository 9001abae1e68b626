------------------------------- MODULE MCBoot -------------------------------
(***************************************************************************)
(* Machines for Boot: firmware with and without what the code looks for.   *)
(***************************************************************************)
EXTENDS Boot

Ioapic(addr) == [type |-> 1, length |-> 12, ioapic_addr |-> addr]
Override(irq, gsi, flags) ==
  [type |-> 2, length |-> 10, irq |-> irq, gsi |-> gsi, flags |-> flags]
LapicAt(addr) == [type |-> 5, length |-> 12, lapic_addr |-> addr]
Short == [type |-> 2, length |-> 0, irq |-> 1, gsi |-> 0, flags |-> 0]

Madt(entries) == [signature |-> "APIC", local_apic_addr |-> 1, entries |-> entries]
Fadt == [signature |-> "FACP"]
Root(sum_ok, tables) == [signature |-> "XSDT", sum_ok |-> sum_ok, entries |-> tables]
Rsdp(revision, rsdt, xsdt) ==
  [signature |-> "RSD PTR ", revision |-> revision, rsdt |-> rsdt, xsdt |-> xsdt]
Other == [signature |-> "other"]

\* The pointer lies in the BIOS area, behind something else.
Tables1(entries) ==
  [ebda |-> << >>,
   bios |-> <<Other, Rsdp(0, Root(TRUE, <<Fadt, Madt(entries)>>), NULL)>>]

\* ... or in the EBDA, and names an XSDT.
Tables2(sum_ok, entries) ==
  [ebda |-> <<Rsdp(2, Root(TRUE, <<Fadt>>), Root(sum_ok, <<Madt(entries)>>))>>,
   bios |-> <<Other>>]

Machine(firmware, pin) ==
  [firmware |-> firmware, wire |-> <<1, pin>>, active |-> "high", cpuid |-> TRUE,
   unmapped |-> {}, rate |-> 2, left |-> {pin, PINS - 1}, cfg |-> {0, 1, 6},
   resets |-> FALSE, shell |-> FALSE, keys |-> 0, faults |-> 0]

Usual == Machine(Tables1(<<Ioapic(1), Override(0, 2, 0)>>), 1)
Moved == Machine(Tables2(TRUE, <<Override(0, 0, 0), Ioapic(1), LapicAt(ADDRESSES + 3),
                                 Override(1, 2, 5), Short, Override(1, 0, 0)>>), 2)

Typist == [Usual EXCEPT !.keys = 2]
Slow == [Moved EXCEPT !.keys = 1, !.faults = 1, !.resets = TRUE, !.cfg = {0, 2, 4, 6}]
Refusing == [Usual EXCEPT !.faults = 3]
Shelled == [Usual EXCEPT !.keys = 1, !.shell = TRUE]

\* Machines on which set-up is not complete.
NoPointer == [Usual EXCEPT !.firmware = [ebda |-> <<Other>>, bios |-> << >>]]
BadSum == [Usual EXCEPT !.firmware = Tables2(FALSE, <<Ioapic(1)>>)]
NoIoapic == [Usual EXCEPT !.firmware = Tables1(<< >>)]
NoLapic == [Usual EXCEPT !.cpuid = FALSE]
Unmapped == [Usual EXCEPT !.unmapped = {"lapic", "ioapic"}]

Machines == {Usual, Moved, Typist, Slow, Refusing, Shelled,
             NoPointer, BadSum, NoIoapic, NoLapic, Unmapped}
=============================================================================
