-------------------------------- MODULE Boot --------------------------------
(***************************************************************************)
(* How init_kernel brings up interrupts: pic_init, apic_init, the          *)
(* calibration and start of the LAPIC timer, the dialogue of keyboard_init *)
(* with the 8042 and the keyboard, the route of IRQ1 through the IO APIC,  *)
(* keyboard_reenable_irq, and what runs beside them once interrupts are on:*)
(* the IRQ1 handler, and the shell when the timer has taken the processor  *)
(* from the boot thread.                                                   *)
(*                                                                         *)
(* A function is the sequence of its accesses to the hardware (Script); the*)
(* boot thread takes a step per access, and an early return leaves the     *)
(* sequence.  A byte is the set of its one bits.                           *)
(*                                                                         *)
(* External, modelled from how the drivers use them: the firmware's tables,*)
(* the APICs, the PIT, the 8042 and the keyboard behind it.                *)
(***************************************************************************)
EXTENDS Apic

CONSTANTS
  TIMER_WORD,       \* 2^32, the range of the LAPIC timer's counters
  PIT_WORD,         \* 2^16, the range of the PIT's counter
  PIT_TARGET,       \* PIT_FREQ_HZ / 100
  TIMER_HZ,         \* 100
  TIMER_DIVIDE,     \* 16
  PIT_LATE,         \* bound: counts that pass between two looks at the PIT
  Setups            \* the machines and users considered, see Setup

IoapicAddresses == {1, 2}

\* A machine: its firmware; the IO APIC and pin where IRQ1 arrives, and the
\* level that is active there; whether the processor has a
\* local APIC; what cannot be mapped; how many LAPIC counts one PIT count
\* takes; the IO APIC entries and the 8042's configuration that the firmware
\* leaves behind; whether the self-test of the 8042 resets that configuration;
\* whether there is an /ISHELL to load.  Its bounds: keys typed, time-outs and
\* RESENDs.
Setup ==
  [firmware : {"tables"}, wire : IoapicAddresses \X Pins, cpuid : BOOLEAN,
   unmapped : SUBSET {"lapic", "ioapic"}, rate : Nat,
   active   : {"high", "low"}, left : SUBSET Pins, cfg : SUBSET (0..7), resets : BOOLEAN,
   shell    : BOOLEAN, keys : Nat, faults : Nat]

ASSUME BootAssumption ==
  /\ {TIMER_WORD, PIT_WORD, TIMER_HZ, TIMER_DIVIDE} \subseteq Nat \ {0}
  /\ PIT_TARGET \in 1..(PIT_WORD - 2) /\ PIT_LATE \in Nat
  /\ \A s \in Setups : [s EXCEPT !.firmware = "tables"] \in Setup

\* What apic_init finds: the MADT, or NULL where the RSDP or the table is not
\* to be found.
MadtOf(firmware) ==
  LET rsdp == acpi_find_rsdp(firmware)
  IN IF rsdp = NULL THEN NULL ELSE acpi_find_table(rsdp, "APIC")

\* IRQ1 in the overrides of a MADT.
KeyboardLine(madt) == acpi_get_isa_override(acpi_parse_isa_overrides(madt), 1)

\* The firmware describes the machine it runs on: where the MADT names an IO
\* APIC, what is read there of IRQ1 is the keyboard's wire.  A second IO APIC,
\* or an override beyond those acpi.c keeps, is thereby left out.
ASSUME FirmwareAssumption ==
  \A s \in Setups :
    LET madt == MadtOf(s.firmware)
    IN madt # NULL =>
         /\ KeyboardLine(madt).gsi \in Nat
         /\ acpi_parse_madt(madt).ioapic_found =>
              <<acpi_parse_madt(madt).ioapic_addr, KeyboardLine(madt).gsi % 256>> = s.wire

VARIABLES
  setup,    \* the member of Setups at hand
  thread,   \* the boot thread: function, place in its script, its locals
  cpu,      \* interrupts on, who has the processor, MSR, irq_handlers
  apic,     \* apic_lapic_base, apic_ioapic_base, isa_overrides, the MADT info
  pic,      \* the 8259s and the IMCR
  redir,    \* the redirection entries of each IO APIC
  lapic,    \* the local APIC: on, pending, in service, its timer
  pit,      \* channel 0
  ctl,      \* the 8042: configuration, output buffer, answers to come
  kbd,      \* bytes the keyboard has still to send
  typed,    \* keys typed so far
  faults,   \* time-outs and RESENDs so far
  robbed,   \* history: somebody took an answer the thread waits for
  stray     \* history: a register was accessed through a NULL base

vars == <<setup, thread, cpu, apic, pic, redir, lapic, pit, ctl, kbd, typed,
          faults, robbed, stray>>

-----------------------------------------------------------------------------
(* Bytes *)

PS2_CFG_IRQ1 == 0
PS2_CFG_IRQ12 == 1
PS2_CFG_SYSFLAG == 2
PS2_CFG_CLK1 == 4
PS2_CFG_CLK2 == 5
PS2_CFG_TRANSLATE == 6

ACK == {1, 3, 4, 5, 6, 7}          \* 0xFA
RESEND == {1, 2, 3, 4, 5, 6, 7}    \* 0xFE
BAT_OK == {1, 3, 5, 7}             \* 0xAA
CTRL_OK == {0, 2, 4, 6}            \* 0x55
PORT_OK == {}                      \* 0x00
KeyA == {1, 2, 3, 4}               \* 0x1E

\* What the self-test leaves in the configuration where it resets it.
PowerOn == {PS2_CFG_IRQ1, PS2_CFG_CLK1, PS2_CFG_CLK2, PS2_CFG_TRANSLATE}

Byte(bits, from) == [bits |-> bits, from |-> from]

-----------------------------------------------------------------------------
(* The functions, as the accesses they make *)

Do(op) == [op |-> op]
Cmd(c) == [op |-> "cmd", arg |-> c]
Read(x) == [op |-> "read", arg |-> x]
Send(c) == [op |-> "send", arg |-> c]

\* The answer to a byte sent: on RESEND the command starts again "back"
\* places earlier, on failure it is given up and the thread goes "skip" on.
\* The answer is the last of its command or not.
Ack(back, skip, last) == [op |-> "ack", back |-> back, skip |-> skip, last |-> last]

apic_init == <<Do("tables")>>

lapic_init == <<Do("msr"), Do("map lapic"), Do("svr")>>

ioapic_init == <<Do("map ioapic"), Do("mask")>>

apic_timer_init ==
  <<Do("count"), Do("pit"), Do("start"), Do("wait"), Do("stop"), Do("elapsed"),
    Do("arm")>>

Route == <<Do("low"), Do("high")>>

\* The commands to the keyboard: reset, typematic rate, scanning, lights.
KeyboardCommands ==
  <<Send("RESET"), Ack(1, 3, TRUE), Read("bat"), Do("flush"),
    Send("SET_RATE"), Ack(1, 3, FALSE), Send("rate"), Ack(3, 1, TRUE),
    Send("ENABLE"), Ack(1, 1, TRUE),
    Send("SET_LEDS"), Ack(1, 3, FALSE), Send("lights"), Ack(3, 1, TRUE),
    Do("flush")>>

ControllerTests ==
  <<Cmd("TEST_CTRL"), Read("self"), Cmd("WRITE_CFG"), Do("data"),
    Cmd("TEST_PORT1"), Read("port"), Cmd("ENABLE_PORT1")>>

\* Mutant: the output buffer is not emptied before the configuration is read.
keyboard_init_NoFlush ==
  <<Cmd("DISABLE_PORT1"), Cmd("DISABLE_PORT2"),
    Cmd("READ_CFG"), Read("cfg"), Cmd("WRITE_CFG"), Do("data")>>
  \o ControllerTests \o KeyboardCommands \o Route
  \o <<Do("irq on"), Do("put"), Do("flush")>>

\* Mutant: IRQ1 is routed first.
keyboard_init_RouteFirst ==
  Route \o <<Cmd("DISABLE_PORT1"), Cmd("DISABLE_PORT2"), Do("flush"),
    Cmd("READ_CFG"), Read("cfg"), Cmd("WRITE_CFG"), Do("data")>>
  \o ControllerTests \o KeyboardCommands
  \o <<Do("irq on"), Do("put"), Do("flush")>>

keyboard_init ==
  <<Cmd("DISABLE_PORT1"), Cmd("DISABLE_PORT2"), Do("flush"),
    Cmd("READ_CFG"), Read("cfg"), Cmd("WRITE_CFG"), Do("data")>>
  \o ControllerTests \o KeyboardCommands \o Route
  \o <<Do("irq on"), Do("put"), Do("flush")>>

\* Mutant: only the 8042 is told to interrupt again.
keyboard_reenable_irq_NoRoute ==
  <<Do("ask"), Do("await"), Do("irq on"), Do("put"), Do("flush")>>

keyboard_reenable_irq ==
  Route \o <<Do("ask"), Do("await"), Do("irq on"), Do("put"), Do("flush")>>

Script(f) ==
  CASE f = "pic_init"              -> pic_init
    [] f = "apic_init"             -> apic_init
    [] f = "lapic_init"            -> lapic_init
    [] f = "ioapic_init"           -> ioapic_init
    [] f = "scheduler_init"        -> <<Do("sti")>>
    [] f = "timer handler"         -> <<Do("register")>>
    [] f = "apic_timer_init"       -> apic_timer_init
    [] f = "keyboard handler"      -> <<Do("register")>>
    [] f = "keyboard_init"         -> keyboard_init
    [] f = "keyboard_reenable_irq" -> keyboard_reenable_irq

\* The order in which kernel_main and init_kernel call them.
init_kernel(f) ==
  CASE f = "pic_init"         -> "apic_init"
    [] f = "apic_init"        -> "lapic_init"
    [] f = "lapic_init"       -> "ioapic_init"
    [] f = "ioapic_init"      -> "scheduler_init"
    [] f = "scheduler_init"   -> "timer handler"
    [] f = "timer handler"    -> "apic_timer_init"
    [] f = "apic_timer_init"  -> "keyboard handler"
    [] f = "keyboard handler" -> "keyboard_init"
    [] f = "keyboard_init"    -> "keyboard_reenable_irq"
    [] OTHER                  -> "done"

-----------------------------------------------------------------------------
(* The boot thread *)

Entry(low, dest) == [low |-> low, dest |-> dest]

Init ==
  /\ setup \in Setups
  /\ thread = [fn |-> "pic_init", at |-> 1, i |-> 0, retry |-> 0, base |-> 0,
               start |-> 0, bus |-> 0, cfg |-> {}]
  /\ cpu = [if |-> FALSE, mode |-> "main", handlers |-> {},
            msr |-> [addr |-> 1, enabled |-> FALSE]]
  /\ apic = [lapic_base |-> 0, ioapic_base |-> 0, isa_overrides |-> << >>,
             info |-> [lapic_addr |-> 0, ioapic_found |-> FALSE, ioapic_addr |-> 0]]
  /\ LET chip == [expects |-> 0, vectors |-> "0x08", masked |-> "none"]
     IN pic = [master |-> chip, slave |-> chip, imcr |-> "pic"]
  /\ redir = [a \in IoapicAddresses |->
                [p \in Pins |-> Entry(Low(48, p \notin setup.left, "high", "edge"), 1)]]
  /\ lapic = [on |-> FALSE, irr |-> {}, isr |-> {}, armed |-> FALSE, init |-> 0, cur |-> 0]
  /\ pit = 0
  /\ ctl = [cfg |-> setup.cfg, full |-> FALSE, out |-> Byte({}, "key"),
            ans |-> << >>, next |-> "kbd"]
  /\ kbd = << >>
  /\ typed = 0 /\ faults = 0 /\ robbed = FALSE /\ stray = FALSE

Here == Script(thread.fn)[thread.at]

At(op) == cpu.mode = "main" /\ thread.fn # "done" /\ Here.op = op

\* The thread after n more places of the function, and after its return.
Return(t) == [t EXCEPT !.fn = init_kernel(@), !.at = 1, !.i = 0]

Forward(t, n) ==
  IF t.at + n <= Len(Script(t.fn)) THEN [t EXCEPT !.at = @ + n] ELSE Return(t)

Step == thread' = Forward(thread, 1)

hardware == <<pic, redir, lapic, pit, ctl, kbd>>
others == <<setup, typed, faults, robbed>>

PicOut ==
  /\ At("out") /\ Step
  /\ pic' = PicAfter(pic, Here)
  /\ UNCHANGED <<cpu, apic, redir, lapic, pit, ctl, kbd, others, stray>>

\* apic_init up to the call of lapic_init: without an RSDP or a MADT it
\* returns, and neither APIC is set up.
Tables ==
  LET madt == MadtOf(setup.firmware)
  IN /\ At("tables")
     /\ IF madt = NULL
        THEN /\ thread' = [thread EXCEPT !.fn = init_kernel("ioapic_init")]
             /\ UNCHANGED apic
        ELSE /\ Step
             /\ apic' = [apic EXCEPT !.info = acpi_parse_madt(madt),
                                     !.isa_overrides = acpi_parse_isa_overrides(madt)]
     /\ UNCHANGED <<cpu, hardware, others, stray>>

\* lapic_init: CPUID, and IA32_APIC_BASE made to agree with the MADT.
Msr ==
  LET addr == apic.info.lapic_addr
      base == IF addr # 0 /\ addr # cpu.msr.addr THEN addr ELSE cpu.msr.addr
  IN /\ At("msr")
     /\ IF setup.cpuid
        THEN /\ thread' = [Forward(thread, 1) EXCEPT !.base = base]
             /\ cpu' = [cpu EXCEPT !.msr = [addr |-> base, enabled |-> TRUE]]
        ELSE thread' = Return(thread) /\ UNCHANGED cpu
     /\ UNCHANGED <<apic, hardware, others, stray>>

MapLapic ==
  /\ At("map lapic")
  /\ IF "lapic" \in setup.unmapped
     THEN thread' = Return(thread) /\ UNCHANGED apic
     ELSE Step /\ apic' = [apic EXCEPT !.lapic_base = thread.base]
  /\ UNCHANGED <<cpu, hardware, others, stray>>

\* The spurious vector register: the local APIC takes interrupts from now on.
Svr ==
  /\ At("svr") /\ Step
  /\ lapic' = [lapic EXCEPT !.on = (apic.lapic_base = cpu.msr.addr)]
  /\ UNCHANGED <<cpu, apic, pic, redir, pit, ctl, kbd, others, stray>>

MapIoapic ==
  /\ At("map ioapic")
  /\ IF ~apic.info.ioapic_found \/ "ioapic" \in setup.unmapped
     THEN thread' = Return(thread) /\ UNCHANGED apic
     ELSE Step /\ apic' = [apic EXCEPT !.ioapic_base = apic.info.ioapic_addr]
  /\ UNCHANGED <<cpu, hardware, others, stray>>

\* A write to the IO APIC; through a NULL base it reaches memory instead.
IoapicWrite(reg, word) ==
  IF apic.ioapic_base = 0
  THEN stray' = TRUE /\ UNCHANGED redir
  ELSE /\ redir' = [redir EXCEPT ![apic.ioapic_base] = ioapic_write(@, reg, word)]
       /\ UNCHANGED stray

\* The loop of ioapic_init, a register at a time.
Mask ==
  /\ At("mask")
  /\ IF thread.i < 2 * MaxRedir
     THEN /\ IoapicWrite(IOAPIC_REDIR_BASE + thread.i,
                         IF thread.i % 2 = 0 THEN MaskWord ELSE 0)
          /\ thread' = [thread EXCEPT !.i = @ + 1]
     ELSE Step /\ UNCHANGED <<redir, stray>>
  /\ UNCHANGED <<cpu, apic, pic, lapic, pit, ctl, kbd, others>>

\* unlock of the first kmalloc turns interrupts on: in fat32_mount or, when
\* there is no disk, in scheduler_init.  Nothing here lies between the two.
Sti ==
  /\ At("sti") /\ Step
  /\ cpu' = [cpu EXCEPT !.if = TRUE]
  /\ UNCHANGED <<apic, hardware, others, stray>>

irq_register_handler ==
  /\ At("register") /\ Step
  /\ cpu' = [cpu EXCEPT !.handlers = @ \cup
               {IF thread.fn = "timer handler" THEN 0 ELSE 1}]
  /\ UNCHANGED <<apic, hardware, others, stray>>

-----------------------------------------------------------------------------
(* apic_timer_init *)

\* A register of the local APIC, written through its base.
LapicWrite(after) ==
  IF apic.lapic_base = 0 THEN stray' = TRUE /\ UNCHANGED lapic
                         ELSE lapic' = after /\ UNCHANGED stray

CountDown ==
  /\ At("count") /\ Step
  /\ LapicWrite([lapic EXCEPT !.armed = FALSE, !.cur = TIMER_WORD - 1])
  /\ UNCHANGED <<cpu, apic, pic, redir, pit, ctl, kbd, others>>

pit_channel0_setup ==
  /\ At("pit") /\ Step
  /\ pit' = PIT_WORD - 1
  /\ UNCHANGED <<cpu, apic, pic, redir, lapic, ctl, kbd, others, stray>>

PitStart ==
  /\ At("start")
  /\ thread' = [Forward(thread, 1) EXCEPT !.start = pit]
  /\ UNCHANGED <<cpu, apic, hardware, others, stray>>

Delta == (thread.start - pit) % PIT_WORD

\* The loop ends when PIT_TARGET counts have passed.
PitWait ==
  /\ At("wait") /\ Delta >= PIT_TARGET /\ Step
  /\ UNCHANGED <<cpu, apic, hardware, others, stray>>

\* Writing 0 to the initial count stops the timer and clears the current one.
CountStop ==
  /\ At("stop") /\ Step
  /\ LapicWrite([lapic EXCEPT !.cur = 0])
  /\ UNCHANGED <<cpu, apic, pic, redir, pit, ctl, kbd, others>>

\* ticks_elapsed and the bus frequency, in 32 bits.  Read through a NULL base
\* the count is whatever memory holds there.
BusFrequency ==
  /\ At("elapsed")
  /\ \E cur \in IF apic.lapic_base = 0 THEN {0, TIMER_WORD - 1} ELSE {lapic.cur} :
       LET elapsed == TIMER_WORD - 1 - cur
           bus     == (elapsed * TIMER_HZ * TIMER_DIVIDE) % TIMER_WORD
       IN thread' = IF bus = 0 THEN Return(thread)
                    ELSE [Forward(thread, 1) EXCEPT !.bus = bus]
  /\ UNCHANGED <<cpu, apic, hardware, others, stray>>

InitCount(bus) == (bus \div TIMER_DIVIDE) \div TIMER_HZ

Arm ==
  /\ At("arm") /\ Step
  /\ LapicWrite([lapic EXCEPT !.armed = TRUE,
        !.init = IF InitCount(thread.bus) = 0 THEN 1 ELSE InitCount(thread.bus)])
  /\ UNCHANGED <<cpu, apic, pic, redir, pit, ctl, kbd, others>>

\* The clocks: channel 0 counts from PIT_WORD - 1 down to 1.
Elapse ==
  /\ At("wait") /\ Delta < PIT_TARGET + PIT_LATE
  /\ pit' = IF pit = 1 THEN PIT_WORD - 1 ELSE pit - 1
  /\ lapic' = [lapic EXCEPT !.cur = IF @ > setup.rate THEN @ - setup.rate ELSE 0]
  /\ UNCHANGED <<thread, cpu, apic, pic, redir, ctl, kbd, others, stray>>

\* init_kernel has put the shell in the ready queue: proc_create_from_elf
\* comes after the set-up and before keyboard_reenable_irq.
Queued == setup.shell /\ thread.fn \in {"keyboard_reenable_irq", "done"}

\* A timer interrupt.  Without another process schedule() returns, and the
\* interrupt is over between two steps of the thread.  With the shell in the
\* queue it switches to it and irq_handler is not gone back to: the interrupt
\* stays in service (see Sched), and the thread in the ready queue.
TimerInterrupt ==
  /\ lapic.armed /\ lapic.on /\ cpu.if /\ cpu.mode = "main" /\ lapic.isr = {}
  /\ Queued
  /\ lapic' = [lapic EXCEPT !.isr = {IRQ_APIC_TIMER}]
  /\ cpu' = [cpu EXCEPT !.mode = "away"]
  /\ UNCHANGED <<thread, apic, pic, redir, pit, ctl, kbd, others, stray>>

\* The shell calls exit, and schedule() finds the thread in the queue.
Resume ==
  /\ cpu.mode = "away"
  /\ cpu' = [cpu EXCEPT !.mode = "main"]
  /\ UNCHANGED <<thread, apic, hardware, others, stray>>

-----------------------------------------------------------------------------
(* The 8042 *)

Line(c) == c.full /\ PS2_CFG_IRQ1 \in c.cfg

\* The IO APIC passes the edge it is set to see, if the pin is not masked.
Edge(c) ==
  LET low == redir[setup.wire[1]][setup.wire[2]].low
  IN /\ pic.imcr = "apic" /\ lapic.on /\ ~low.masked
     /\ Line(ctl) # Line(c)
     /\ Line(c) <=> (low.polarity = setup.active)

\* The 8042 becomes c, and IRQ1 with it.
Ctl(c) ==
  /\ ctl' = c
  /\ lapic' = IF Edge(c)
              THEN [lapic EXCEPT !.irr = @ \cup
                      {redir[setup.wire[1]][setup.wire[2]].low.vector}]
              ELSE lapic

Answer(c, bits) == [c EXCEPT !.ans = Append(@, Byte(bits, "answer"))]

\* The effect of a command; a data byte still awaited is forgotten.
Commanded(cmd) ==
  LET c == [ctl EXCEPT !.next = "kbd"]
  IN CASE cmd = "DISABLE_PORT1" -> [c EXCEPT !.cfg = @ \cup {PS2_CFG_CLK1}]
       [] cmd = "DISABLE_PORT2" -> [c EXCEPT !.cfg = @ \cup {PS2_CFG_CLK2}]
       [] cmd = "ENABLE_PORT1"  -> [c EXCEPT !.cfg = @ \ {PS2_CFG_CLK1}]
       [] cmd = "READ_CFG"      -> Answer(c, c.cfg)
       [] cmd = "WRITE_CFG"     -> [c EXCEPT !.next = "cfg"]
       [] cmd = "TEST_PORT1"    -> Answer(c, PORT_OK)
       [] cmd = "TEST_CTRL"     ->
            Answer([c EXCEPT !.cfg = IF setup.resets THEN PowerOn ELSE @], CTRL_OK)

\* What the keyboard has to send once a command byte reached it.
Reply(cmd) ==
  CASE cmd = "RESET" -> <<Byte(ACK, "answer"), Byte(BAT_OK, "answer")>>
    [] cmd = "data"  -> <<Byte(RESEND, "answer")>> \o kbd
    [] OTHER         -> <<Byte(ACK, "answer")>> \o kbd

\* A byte for the data port: the configuration after WRITE_CFG, else the
\* keyboard's, which may ask for it again.
DataPort(bits, cmd) ==
  IF ctl.next = "cfg"
  THEN Ctl([ctl EXCEPT !.cfg = bits, !.next = "kbd"]) /\ UNCHANGED <<kbd, faults>>
  ELSE /\ \/ kbd' = Reply(cmd) /\ UNCHANGED faults
          \/ /\ faults < setup.faults /\ faults' = faults + 1
             /\ kbd' = <<Byte(RESEND, "answer")>> \o kbd
       /\ UNCHANGED <<ctl, lapic>>

Taken == [ctl EXCEPT !.full = FALSE]

Clocked == kbd # << >> /\ PS2_CFG_CLK1 \notin ctl.cfg

DeviceByte ==
  /\ ~ctl.full
  /\ \/ /\ ctl.ans # << >>
        /\ Ctl([ctl EXCEPT !.full = TRUE, !.out = Head(ctl.ans), !.ans = Tail(@)])
        /\ UNCHANGED kbd
     \/ /\ Clocked
        /\ Ctl([ctl EXCEPT !.full = TRUE, !.out = Head(kbd)])
        /\ kbd' = Tail(kbd)
  /\ UNCHANGED <<thread, cpu, apic, pic, redir, pit, others, stray>>

Type ==
  /\ typed < setup.keys
  /\ typed' = typed + 1
  /\ kbd' = Append(kbd, Byte(KeyA, "key"))
  /\ UNCHANGED <<setup, thread, cpu, apic, pic, redir, lapic, pit, ctl, faults,
                 robbed, stray>>

-----------------------------------------------------------------------------
(* keyboard_init and keyboard_reenable_irq *)

untouched == <<cpu, apic, pic, redir, pit, setup, typed, robbed, stray>>

TimeOut == faults < setup.faults /\ faults' = faults + 1

\* ps2_send_controller_cmd.  Only the two tests look at its result: the first
\* skips its answer, the second ends keyboard_init.
ps2_send_controller_cmd ==
  /\ At("cmd")
  /\ \/ Step /\ Ctl(Commanded(Here.arg)) /\ UNCHANGED faults
     \/ /\ TimeOut
        /\ thread' = CASE Here.arg = "TEST_CTRL"  -> Forward(thread, 2)
                       [] Here.arg = "TEST_PORT1" -> Return(thread)
                       [] OTHER                   -> Forward(thread, 1)
        /\ UNCHANGED <<ctl, lapic>>
  /\ UNCHANGED <<untouched, kbd>>

Cleared == {PS2_CFG_IRQ1, PS2_CFG_IRQ12, PS2_CFG_TRANSLATE, PS2_CFG_CLK1}

\* The thread once the byte it asked for is there.
Received(bits) ==
  CASE Here.arg = "cfg"  -> [Forward(thread, 1) EXCEPT !.cfg = bits \ Cleared]
    [] Here.arg = "port" -> IF bits = PORT_OK THEN Forward(thread, 1) ELSE Return(thread)
    [] OTHER             -> Forward(thread, 1)

\* ps2_read_data, whatever byte it is that comes.
ps2_read_data ==
  /\ At("read") /\ ctl.full
  /\ thread' = Received(ctl.out.bits)
  /\ Ctl(Taken)
  /\ UNCHANGED <<untouched, kbd, faults>>

\* Mutant: ps2_wait_read has no limit.
ReadTimeOut_Never == FALSE /\ UNCHANGED vars

\* ps2_wait_read gives up: nothing is on its way, or it is too slow.
ReadTimeOut ==
  /\ At("read") /\ ~ctl.full
  /\ IF ctl.ans # << >> \/ Clocked THEN TimeOut ELSE UNCHANGED faults
  /\ thread' = CASE Here.arg = "cfg"  -> [Forward(thread, 1) EXCEPT !.cfg = {}]
                 [] Here.arg = "port" -> Return(thread)
                 [] OTHER             -> Forward(thread, 1)
  /\ UNCHANGED <<untouched, ctl, lapic, kbd>>

ps2_flush ==
  /\ At("flush")
  /\ IF ctl.full THEN Ctl(Taken) /\ UNCHANGED thread
                 ELSE Step /\ UNCHANGED <<ctl, lapic>>
  /\ UNCHANGED <<untouched, kbd, faults>>

\* ps2_send_device(cfg): its result is not looked at.
SendConfig ==
  /\ At("data") /\ Step
  /\ \/ DataPort(thread.cfg, "data")
     \/ TimeOut /\ UNCHANGED <<ctl, lapic, kbd>>
  /\ UNCHANGED untouched

\* The byte of a command or its parameter; when it cannot be sent the command
\* has failed.
kbd_send_command ==
  /\ At("send")
  /\ \/ Step /\ DataPort({}, Here.arg)
     \/ /\ TimeOut
        /\ thread' = [Forward(thread, Script(thread.fn)[thread.at + 1].skip + 1)
                       EXCEPT !.retry = 0]
        /\ UNCHANGED <<ctl, lapic, kbd>>
  /\ UNCHANGED untouched

PS2_RETRIES == 3

GiveUp == [Forward(thread, Here.skip) EXCEPT !.retry = 0]

\* The answer, whatever byte it is: go on, start again, or give up.
Acknowledged ==
  /\ At("ack") /\ ctl.full
  /\ thread' =
       CASE ctl.out.bits = ACK ->
              [Forward(thread, 1) EXCEPT !.retry = IF Here.last THEN 0 ELSE @]
         [] ctl.out.bits = RESEND /\ thread.retry + 1 < PS2_RETRIES ->
              [thread EXCEPT !.at = @ - Here.back, !.retry = @ + 1]
         [] OTHER -> GiveUp
  /\ Ctl(Taken)
  /\ UNCHANGED <<untouched, kbd, faults>>

AckTimeOut ==
  /\ At("ack") /\ ~ctl.full
  /\ IF ctl.ans # << >> \/ Clocked THEN TimeOut ELSE UNCHANGED faults
  /\ thread' = GiveUp
  /\ UNCHANGED <<untouched, ctl, lapic, kbd>>

\* ioapic_set_redirection for ISA interrupt 1, where the firmware has it.
ioapic_set_redirection ==
  LET route == acpi_get_isa_override(apic.isa_overrides, 1)
  IN /\ At("low") \/ At("high")
     /\ Step
     /\ IF At("low")
        THEN IoapicWrite(RedirectionReg(route.gsi),
                         RedirectionLow(IRQ_KEYBOARD, FALSE, route.flags))
        ELSE IoapicWrite(RedirectionReg(route.gsi) + 1, 0)
     /\ UNCHANGED <<cpu, apic, pic, lapic, pit, ctl, kbd, others>>

\* The loops of the last part wait without a limit until the 8042 takes the
\* command, the byte, or has an answer.
WaitAndCommand(op, cmd) ==
  /\ At(op) /\ Step
  /\ Ctl(Commanded(cmd))
  /\ UNCHANGED <<untouched, kbd, faults>>

Put ==
  /\ At("put") /\ Step
  /\ DataPort(thread.cfg \cup {PS2_CFG_IRQ1, PS2_CFG_TRANSLATE}, "data")
  /\ UNCHANGED untouched

\* keyboard_reenable_irq takes the next byte for the configuration.
Await ==
  /\ At("await") /\ ctl.full
  /\ thread' = [Forward(thread, 1) EXCEPT !.cfg = ctl.out.bits]
  /\ Ctl(Taken)
  /\ UNCHANGED <<untouched, kbd, faults>>

-----------------------------------------------------------------------------
(* irq_handler and keyboard_irq_handler *)

Eoi(l) == IF apic.lapic_base # 0 THEN [l EXCEPT !.isr = {}] ELSE l

IrqEnter ==
  /\ cpu.if /\ cpu.mode = "main" /\ lapic.isr = {} /\ IRQ_KEYBOARD \in lapic.irr
  /\ IF 1 \in cpu.handlers
     THEN /\ cpu' = [cpu EXCEPT !.mode = "irq"]
          /\ lapic' = [lapic EXCEPT !.irr = @ \ {IRQ_KEYBOARD}, !.isr = {IRQ_KEYBOARD}]
     ELSE /\ lapic' = Eoi([lapic EXCEPT !.irr = @ \ {IRQ_KEYBOARD}])
          /\ UNCHANGED cpu
  /\ UNCHANGED <<thread, apic, pic, redir, pit, ctl, kbd, others, stray>>

Waiting == thread.fn # "done" /\ Here.op \in {"read", "ack", "await"}

IrqByte ==
  /\ cpu.mode = "irq" /\ ctl.full
  /\ Ctl(Taken)
  /\ robbed' = (robbed \/ (ctl.out.from = "answer" /\ Waiting))
  /\ UNCHANGED <<setup, thread, cpu, apic, pic, redir, pit, kbd, typed, faults, stray>>

\* Mutant: the end of the interrupt is not signalled.
IrqReturn_NoEoi ==
  /\ cpu.mode = "irq" /\ ~ctl.full
  /\ cpu' = [cpu EXCEPT !.mode = "main"]
  /\ UNCHANGED <<thread, apic, hardware, others, stray>>

IrqReturn ==
  /\ cpu.mode = "irq" /\ ~ctl.full
  /\ cpu' = [cpu EXCEPT !.mode = "main"]
  /\ lapic' = Eoi(lapic)
  /\ UNCHANGED <<thread, apic, pic, redir, pit, ctl, kbd, others, stray>>

\* keyboard_getchar_blocking, called by the shell when it has the processor,
\* polls the 8042 and takes any byte for a scan code.
Poll ==
  /\ Queued /\ ctl.full
  /\ cpu.mode = "away" \/ (cpu.mode = "main" /\ thread.fn = "done")
  /\ Ctl(Taken)
  /\ robbed' = (robbed \/ (ctl.out.from = "answer" /\ Waiting))
  /\ UNCHANGED <<setup, thread, cpu, apic, pic, redir, pit, kbd, typed, faults, stray>>

-----------------------------------------------------------------------------
SetUpApics ==
  PicOut \/ Tables \/ Msr \/ MapLapic \/ Svr \/ MapIoapic \/ Mask

StartTimer ==
  CountDown \/ pit_channel0_setup \/ PitStart \/ PitWait \/ CountStop \/ BusFrequency
  \/ Arm

SetUpKeyboard ==
  \/ ps2_send_controller_cmd \/ ps2_read_data \/ ReadTimeOut \/ ps2_flush
  \/ SendConfig \/ kbd_send_command \/ Acknowledged \/ AckTimeOut
  \/ ioapic_set_redirection \/ Put \/ Await
  \/ WaitAndCommand("irq on", "WRITE_CFG")
  \/ WaitAndCommand("ask", "READ_CFG")

Thread == SetUpApics \/ Sti \/ irq_register_handler \/ StartTimer \/ SetUpKeyboard

Handler == IrqByte \/ IrqReturn

Next ==
  \/ Thread \/ Elapse \/ TimerInterrupt \/ Resume \/ Poll
  \/ DeviceByte \/ Type \/ IrqEnter \/ Handler

\* The processor goes on with the handler, and with the thread as long as that
\* has it, takes interrupts that are pending, time passes, and bytes on their
\* way arrive.  Nothing says that the shell reads or ever exits.
Spec == Init /\ [][Next]_vars /\ WF_vars(Thread) /\ WF_vars(Elapse)
             /\ WF_vars(DeviceByte) /\ WF_vars(IrqEnter) /\ WF_vars(Handler)

-----------------------------------------------------------------------------
(* Properties *)

Bytes == [bits : SUBSET (0..7), from : {"key", "answer"}]

\* Types: no loop of a function runs past its script, its retries or the
\* entries of the IO APIC, and the counters stay in their width.
TypeOK ==
  /\ setup \in Setups
  /\ thread.fn = "done" \/ thread.at \in DOMAIN Script(thread.fn)
  /\ thread.retry \in 0..(PS2_RETRIES - 1) /\ thread.cfg \subseteq 0..7
  /\ thread.i \in 0..(2 * PINS) /\ thread.start \in 0..(PIT_WORD - 1)
  /\ thread.bus \in 0..(TIMER_WORD - 1)
  /\ cpu.if \in BOOLEAN /\ cpu.mode \in {"main", "irq", "away"} /\ cpu.handlers \subseteq {0, 1}
  /\ apic.ioapic_base \in IoapicAddresses \cup {0}
  /\ \A a \in IoapicAddresses, p \in Pins : redir[a][p].dest \in {0, 1}
  /\ lapic.irr \cup lapic.isr \subseteq {IRQ_APIC_TIMER, IRQ_KEYBOARD, 48}
  /\ lapic.cur \in 0..(TIMER_WORD - 1) /\ lapic.init \in 0..(TIMER_WORD - 1)
  /\ pit \in 0..(PIT_WORD - 1)
  /\ ctl.cfg \subseteq 0..7 /\ ctl.out \in Bytes /\ ctl.next \in {"kbd", "cfg"}
  /\ ctl.ans \in Seq(Bytes) /\ kbd \in Seq(Bytes)
  /\ typed \in 0..setup.keys /\ faults \in 0..setup.faults
  /\ robbed \in BOOLEAN /\ stray \in BOOLEAN

\* When interrupts come on, by the first kmalloc, the 8259s have taken the
\* whole initialisation of pic_init: their vectors are clear of the
\* exceptions, all their lines are masked, and ISA interrupts go to the APIC.
LegacyQuiet ==
  cpu.if => /\ pic.master = [expects |-> 0, vectors |-> "0x20", masked |-> "all"]
            /\ pic.slave = [expects |-> 0, vectors |-> "0x28", masked |-> "all"]
            /\ pic.imcr = "apic"

\* Where lapic_init maps the local APIC's registers is where the processor has
\* them, whatever the MADT and IA32_APIC_BASE said before.
LapicWhereMapped ==
  apic.lapic_base # 0 => cpu.msr = [addr |-> apic.lapic_base, enabled |-> TRUE]

\* While interrupts are on, the IO APIC passes on nothing but IRQ1, from the
\* pin it is wired to, to vector 0x21 of the first processor: what the
\* firmware left unmasked is masked by ioapic_init, and the overrides of the
\* MADT are followed.
OnlyKeyboardRouted ==
  (cpu.if /\ apic.ioapic_base # 0) =>
    \A p \in Pins :
      LET entry == redir[apic.ioapic_base][p]
      IN ~entry.low.masked =>
           /\ <<apic.ioapic_base, p>> = setup.wire
           /\ entry.low.vector = IRQ_KEYBOARD /\ entry.dest = 0

\* No interrupt is on its way for which irq_handlers has no handler yet.
HandlersReady ==
  /\ IRQ_KEYBOARD \in lapic.irr \cup lapic.isr => 1 \in cpu.handlers
  /\ lapic.armed => 0 \in cpu.handlers

\* keyboard_init polls for its answers ("IRQ1 still off, so that the handler
\* does not race for the data port"): the IRQ1 handler takes none of them,
\* and the shell is not there yet, even while the firmware's configuration has IRQ1 on.
AnswersKept ==
  robbed => thread.fn \in {"keyboard_reenable_irq", "done"}

\* keyboard_init takes no scan code for the configuration: where nothing timed
\* out, the system flag is the firmware's and the keyboard's port is on.
ConfigKept ==
  (thread.fn = "keyboard_reenable_irq" /\ thread.at = 1 /\ faults = 0) =>
    /\ PS2_CFG_SYSFLAG \in ctl.cfg <=> PS2_CFG_SYSFLAG \in setup.cfg
    /\ PS2_CFG_CLK1 \notin ctl.cfg /\ PS2_CFG_IRQ12 \notin ctl.cfg

\* When the scheduler starts IRQ1 is enabled in the 8042 and in the IO APIC,
\* even after a keyboard_init that failed or answers that were lost.
Irq1Enabled ==
  thread.fn = "done" =>
    /\ {PS2_CFG_IRQ1, PS2_CFG_TRANSLATE} \subseteq ctl.cfg
    /\ apic.ioapic_base = setup.wire[1] =>
         LET low == redir[setup.wire[1]][setup.wire[2]].low
         IN ~low.masked /\ low.vector = IRQ_KEYBOARD

\* The boot reaches scheduler_start, unless it waits in keyboard_reenable_irq
\* for a configuration byte that the IRQ1 handler or the shell has taken, or a
\* tick has given the processor to the shell for good.
StopsOnlyRobbedOrPreempted ==
  <>[](\/ thread.fn = "done"
       \/ robbed /\ At("await")
       \/ cpu.mode = "away")

\* A byte in the 8042 does not stay there once the system runs: the handler
\* is called and takes it, if interrupts from the keyboard can arrive at all
\* and no tick was left in service by the switch to another process.
BytesTaken ==
  (/\ thread.fn = "done" /\ ctl.full
   /\ lapic.on /\ apic.ioapic_base = setup.wire[1])
    ~> (~ctl.full \/ IRQ_APIC_TIMER \in lapic.isr)

\* Not so in general, see the README: the keyboard's clock is on, the timer
\* ticks TIMER_HZ times a second, no register is accessed through NULL, the
\* boot ends.
ClockOn == thread.fn = "done" => PS2_CFG_CLK1 \notin ctl.cfg
TickRate ==
  lapic.armed => lapic.init \in setup.rate * PIT_TARGET .. setup.rate * (PIT_TARGET + PIT_LATE)
NoStrayAccess == ~stray
BootEnds == <>(thread.fn = "done")
=============================================================================
