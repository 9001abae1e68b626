-------------------------------- MODULE Acpi --------------------------------
(***************************************************************************)
(* The search of the firmware's tables (acpi.c): the root pointer, the     *)
(* table with a given signature, and what the MADT says of the local APIC, *)
(* the IO APIC and the wiring of the ISA interrupts.                       *)
(*                                                                         *)
(* An area of memory is the sequence of what lies in its 16-byte slots, a  *)
(* root table holds its entries and whether its bytes add up to zero, and  *)
(* the MADT is the sequence of its entries with their length fields.       *)
(***************************************************************************)
EXTENDS Integers, Sequences, SequencesExt

CONSTANTS
  ADDRESSES,               \* 2^32, in units of APIC address ranges
  ACPI_MAX_ISA_OVERRIDES

ASSUME AcpiAssumption ==
  /\ ADDRESSES \in Nat \ {0}
  /\ ACPI_MAX_ISA_OVERRIDES \in Nat

NULL == [signature |-> "null"]

FirstOf(s) == IF s = << >> THEN NULL ELSE Head(s)

-----------------------------------------------------------------------------
search_rsdp(area) ==
  FirstOf(SelectSeq(area, LAMBDA r : r.signature = "RSD PTR "))

\* The segment word at 0x40E is zero when there is no EBDA: an empty area.
acpi_find_rsdp(fw) ==
  IF search_rsdp(fw.ebda) # NULL THEN search_rsdp(fw.ebda)
                                 ELSE search_rsdp(fw.bios)

\* The XSDT is the root from revision 2 on, and there is no way back to the
\* RSDT when its checksum is wrong.
acpi_find_table(rsdp, sig) ==
  LET root == IF rsdp.revision >= 2 /\ rsdp.xsdt # NULL THEN rsdp.xsdt
                                                        ELSE rsdp.rsdt
  IN IF root = NULL \/ ~root.sum_ok THEN NULL
     ELSE FirstOf(SelectSeq(root.entries, LAMBDA t : t.signature = sig))

\* The entries the two loops over the MADT reach.  Two bytes are the header
\* of an entry; a shorter one ends the walk.
Walked(madt) ==
  LET short == {i \in DOMAIN madt.entries : madt.entries[i].length < 2}
  IN IF short = {} THEN madt.entries
     ELSE SubSeq(madt.entries, 1, (CHOOSE i \in short : \A j \in short : i <= j) - 1)

OfType(madt, type) == SelectSeq(Walked(madt), LAMBDA x : x.type = type)

\* The last IO APIC and the last address override count; the 64-bit address
\* of the override is cut to 32 bits.
acpi_parse_madt(madt) ==
  LET ioapics   == OfType(madt, 1)
      overrides == OfType(madt, 5)
  IN [lapic_addr   |-> IF overrides = << >> THEN madt.local_apic_addr
                       ELSE Last(overrides).lapic_addr % ADDRESSES,
      ioapic_found |-> ioapics # << >>,
      ioapic_addr  |-> IF ioapics = << >> THEN 0 ELSE Last(ioapics).ioapic_addr]

acpi_parse_isa_overrides(madt) ==
  LET found == OfType(madt, 2)
  IN IF Len(found) <= ACPI_MAX_ISA_OVERRIDES THEN found
     ELSE SubSeq(found, 1, ACPI_MAX_ISA_OVERRIDES)

\* The first override for the interrupt; without one it keeps its number.
acpi_get_isa_override(isa_overrides, irq) ==
  LET found == SelectSeq(isa_overrides, LAMBDA x : x.irq = irq)
  IN IF found = << >> THEN [gsi |-> irq, flags |-> 0]
     ELSE [gsi |-> Head(found).gsi, flags |-> Head(found).flags]
=============================================================================
