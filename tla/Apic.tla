-------------------------------- MODULE Apic --------------------------------
(***************************************************************************)
(* The words that pic.c and apic.c write to the interrupt hardware, and    *)
(* what the hardware makes of a write: the two 8259s and an IO APIC.       *)
(***************************************************************************)
EXTENDS Acpi

CONSTANT PINS       \* redirection entries of an IO APIC

ASSUME ApicAssumption == PINS \in 2..255

IRQ_APIC_TIMER == 32
IRQ_KEYBOARD == 33

Pins == 0..(PINS - 1)

-----------------------------------------------------------------------------
(* The 8259s *)

Out(port, value) == [op |-> "out", port |-> port, value |-> value]

pic_init ==
  << Out("PIC1_COMMAND", "ICW1"), Out("PIC2_COMMAND", "ICW1"),
     Out("PIC1_DATA", "0x20"),    Out("PIC2_DATA", "0x28"),
     Out("PIC1_DATA", "slave 2"), Out("PIC2_DATA", "slave 2"),
     Out("PIC1_DATA", "8086"),    Out("PIC2_DATA", "8086"),
     Out("PIC1_DATA", "all"),     Out("PIC2_DATA", "all"),
     Out("IMCR", "apic") >>

\* A chip expects the rest of the initialisation words after the first, and
\* takes any other write to the data port for the mask.
Command(chip) == [chip EXCEPT !.expects = 2, !.masked = "none"]

Data(chip, value) ==
  CASE chip.expects = 2 -> [chip EXCEPT !.expects = 3, !.vectors = value]
    [] chip.expects = 3 -> [chip EXCEPT !.expects = 4]
    [] chip.expects = 4 -> [chip EXCEPT !.expects = 0]
    [] OTHER            -> [chip EXCEPT !.masked = value]

\* The chips and the switch after a write.
PicAfter(pic, out) ==
  CASE out.port = "PIC1_COMMAND" -> [pic EXCEPT !.master = Command(@)]
    [] out.port = "PIC2_COMMAND" -> [pic EXCEPT !.slave = Command(@)]
    [] out.port = "PIC1_DATA"    -> [pic EXCEPT !.master = Data(@, out.value)]
    [] out.port = "PIC2_DATA"    -> [pic EXCEPT !.slave = Data(@, out.value)]
    [] out.port = "IMCR"         -> [pic EXCEPT !.imcr = out.value]

-----------------------------------------------------------------------------
(* The IO APIC: entry p has its low word in register IOAPIC_REDIR_BASE + 2p *)
(* and its destination in the next.                                        *)

IOAPIC_REDIR_BASE == 16

Low(vector, masked, polarity, trigger) ==
  [vector |-> vector, masked |-> masked, polarity |-> polarity, trigger |-> trigger]

MaskWord == Low(0, TRUE, "high", "edge")

\* Mutant: the number of the last entry is taken for their count.
MaxRedir_Last == PINS - 1

\* max_redir, from the version register, which has the last entry's number.
MaxRedir == (PINS - 1) + 1

ioapic_write(redir, reg, word) ==
  LET pin == (reg - IOAPIC_REDIR_BASE) \div 2
  IN IF pin \notin Pins THEN redir
     ELSE IF reg % 2 = 0 THEN [redir EXCEPT ![pin].low = word]
                         ELSE [redir EXCEPT ![pin].dest = word]

\* The low word of ioapic_set_redirection.  The trigger mode has two bits, so
\* it is never 4.
RedirectionLow(vector, masked, flags) ==
  LET polarity == flags % 4
      trigger  == (flags \div 4) % 4
  IN Low(vector, masked, IF polarity = 2 THEN "low" ELSE "high",
                         IF trigger = 4 THEN "level" ELSE "edge")

\* Its register: the interrupt number is cut to 8 bits.
RedirectionReg(gsi) == IOAPIC_REDIR_BASE + (gsi % 256) * 2
=============================================================================
