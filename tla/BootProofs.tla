----------------------------- MODULE BootProofs -----------------------------
(***************************************************************************)
(* Proofs about the interrupt set-up of init_kernel, for every machine in  *)
(* Setups: any firmware that says where IRQ1 goes, any contents of the     *)
(* 8042 and the IO APICs at power-on, any number of keys and time-outs.    *)
(*                                                                         *)
(* The functions are scripts, so the invariant says what holds at which    *)
(* place: until keyboard_init opens the entry of IRQ1 its vector is        *)
(* nowhere (NoEarlyIrq), the loop of ioapic_init has masked what it has    *)
(* passed (Masked), and the bytes on their way from the 8042 are those the *)
(* function asked for (Dialogue).  First what the scripts have at each     *)
(* place, then one lemma per action.                                       *)
(***************************************************************************)
EXTENDS Boot, TLAPS

\* The functions the boot thread runs, and those before the IO APIC is masked.
Functions ==
  {"pic_init", "apic_init", "lapic_init", "ioapic_init", "scheduler_init", "timer handler",
   "apic_timer_init", "keyboard handler", "keyboard_init", "keyboard_reenable_irq", "done"}
Early == {"pic_init", "apic_init", "lapic_init", "ioapic_init"}

Lows == [vector : {0, IRQ_KEYBOARD, 48}, masked : BOOLEAN,
         polarity : {"high", "low"}, trigger : {"edge", "level"}]
Entries == [low : Lows, dest : {0, 1}]

\* The records have their fields, and the thread is at a place of its script.
IsThread(t) ==
  /\ t = [fn |-> t.fn, at |-> t.at, i |-> t.i, retry |-> t.retry, base |-> t.base,
          start |-> t.start, bus |-> t.bus, cfg |-> t.cfg]
  /\ t.fn \in Functions
  /\ t.fn # "done" => t.at \in 1 .. Len(Script(t.fn))
  /\ t.i \in 0 .. 2 * PINS
  /\ t.i # 0 => t.fn = "ioapic_init" /\ t.at = 2
IsCpu(c) == c = [if |-> c.if, mode |-> c.mode, handlers |-> c.handlers, msr |-> c.msr]
IsApic(a) ==
  a = [lapic_base |-> a.lapic_base, ioapic_base |-> a.ioapic_base,
       isa_overrides |-> a.isa_overrides, info |-> a.info]
IsLapic(l) ==
  l = [on |-> l.on, irr |-> l.irr, isr |-> l.isr, armed |-> l.armed, init |-> l.init,
       cur |-> l.cur]
IsCtl(c) ==
  c = [cfg |-> c.cfg, full |-> c.full, out |-> c.out, ans |-> c.ans, next |-> c.next]

Shapes ==
  /\ setup \in Setups /\ IsThread(thread) /\ IsCpu(cpu) /\ IsApic(apic)
  /\ IsLapic(lapic) /\ IsCtl(ctl) /\ faults \in Nat
  /\ redir \in [IoapicAddresses -> [Pins -> Entries]]

\* From the moment IRQ1 is routed on, keyboard_init polls for nothing.
Routed ==
  \/ thread.fn \in {"keyboard_reenable_irq", "done"}
  \/ thread.fn = "keyboard_init" /\ thread.at > 30

\* Until then the vector of the keyboard is nowhere: in no entry of an IO
\* APIC, not pending, and its handler does not run.
NoEarlyIrq ==
  /\ \A a \in IoapicAddresses, p \in Pins : redir[a][p].low.vector = IRQ_KEYBOARD => Routed
  /\ IRQ_KEYBOARD \in lapic.irr => Routed
  /\ cpu.mode = "irq" => Routed

\* What the drivers know of the IO APIC is what the MADT says.
FromMadt ==
  LET madt == MadtOf(setup.firmware)
  IN /\ \/ ~apic.info.ioapic_found
        \/ /\ madt # NULL
           /\ apic.info = acpi_parse_madt(madt)
           /\ apic.isa_overrides = acpi_parse_isa_overrides(madt)
     /\ apic.ioapic_base # 0 =>
          /\ apic.info.ioapic_found /\ apic.ioapic_base = apic.info.ioapic_addr
          /\ thread.fn \notin {"pic_init", "apic_init", "lapic_init"}
          /\ thread.fn = "ioapic_init" => thread.at = 2

\* The entries of the IO APIC in use: masked as far as the loop has come, and
\* all of them when interrupts come on, until the keyboard's is opened.
Masked ==
  /\ cpu.if => thread.fn \notin Early \cup {"scheduler_init"}
  /\ apic.ioapic_base # 0 =>
       \A p \in Pins :
         LET entry == redir[apic.ioapic_base][p]
         IN /\ thread.fn = "ioapic_init" =>
                 /\ 2 * p < thread.i => entry.low.masked
                 /\ 2 * p + 1 < thread.i => entry.dest = 0
            /\ thread.fn \notin Early =>
                 /\ entry.dest = 0
                 /\ ~entry.low.masked =>
                      <<apic.ioapic_base, p>> = setup.wire /\ entry.low.vector = IRQ_KEYBOARD

\* keyboard_reenable_irq: the entry is open from its first step on, the byte
\* it sends is the configuration, and nothing comes after it.
KeyboardOn ==
  /\ (thread.fn = "done" \/ (thread.fn = "keyboard_reenable_irq" /\ thread.at > 1)) =>
       (apic.ioapic_base = setup.wire[1] =>
          LET low == redir[setup.wire[1]][setup.wire[2]].low
          IN ~low.masked /\ low.vector = IRQ_KEYBOARD)
  /\ (thread.fn = "keyboard_reenable_irq" /\ thread.at = 6) => ctl.next = "cfg"
  /\ (thread.fn = "done" \/ (thread.fn = "keyboard_reenable_irq" /\ thread.at = 7)) =>
       {PS2_CFG_IRQ1, PS2_CFG_TRANSLATE} \subseteq ctl.cfg

\* A configuration with the firmware's system flag and the keyboard's clock on.
Good(cfg) ==
  /\ PS2_CFG_SYSFLAG \in cfg <=> PS2_CFG_SYSFLAG \in setup.cfg
  /\ PS2_CFG_CLK1 \notin cfg /\ PS2_CFG_IRQ12 \notin cfg

\* The configuration is asked for with the clock off and the buffer empty, so
\* the one byte on its way is the answer; it is written back before the thread
\* can leave keyboard_init.
Dialogue ==
  LET at == thread.at
      SameFlag == PS2_CFG_SYSFLAG \in ctl.cfg <=> PS2_CFG_SYSFLAG \in setup.cfg
      Answered == Byte(ctl.cfg, "answer")
  IN /\ thread.fn \notin {"keyboard_init", "keyboard_reenable_irq", "done"} =>
          SameFlag /\ ctl.ans = << >>
     /\ thread.fn = "keyboard_init" =>
          /\ at \in 1..5 => SameFlag
          /\ at \in 2..5 => PS2_CFG_CLK1 \in ctl.cfg
          /\ at \in 1..4 => ctl.ans = << >>
          /\ at = 4 => ~ctl.full
          /\ at = 5 => \/ ~ctl.full /\ ctl.ans = <<Answered>>
                       \/ ctl.full /\ ctl.ans = << >> /\ ctl.out = Answered
          /\ at > 5 => Good(thread.cfg)
          /\ at \in {7, 11, 33} => ctl.next = "cfg"
          /\ at \in 12..32 => ctl.next = "kbd"
          /\ at \in 12..34 => Good(ctl.cfg)
     /\ thread.fn = "keyboard_reenable_irq" /\ at = 1 => Good(ctl.cfg)

IInv ==
  /\ Shapes /\ NoEarlyIrq /\ FromMadt /\ Masked /\ KeyboardOn
  /\ AnswersKept
  /\ faults = 0 => Dialogue
-----------------------------------------------------------------------------
(* The scripts *)

\* The accesses the scripts of the keyboard are made of.
Op ==
  {Do("flush"), Do("data"), Do("low"), Do("high"), Do("irq on"), Do("put"), Do("ask"),
   Do("await"), Cmd("DISABLE_PORT1"), Cmd("DISABLE_PORT2"), Cmd("READ_CFG"), Cmd("WRITE_CFG"),
   Cmd("TEST_CTRL"), Cmd("TEST_PORT1"), Cmd("ENABLE_PORT1"), Read("cfg"), Read("self"),
   Read("port"), Read("bat"), Send("RESET"), Send("SET_RATE"), Send("rate"), Send("ENABLE"),
   Send("SET_LEDS"), Send("lights"), Ack(1, 3, TRUE), Ack(1, 3, FALSE), Ack(3, 1, TRUE),
   Ack(1, 1, TRUE)}

\* A script made of two: the places of the first, then those of the second.
IsJoin(s, t, u) ==
  /\ u \in Seq(Op) /\ Len(u) = Len(s) + Len(t)
  /\ \A i \in 1 .. Len(s) : u[i] = s[i]
  /\ \A i \in Len(s) + 1 .. Len(s) + Len(t) : u[i] = t[i - Len(s)]

LEMMA Joined ==
  ASSUME NEW s \in Seq(Op), NEW t \in Seq(Op)
  PROVE  IsJoin(s, t, s \o t)
  BY DEF IsJoin

\* keyboard_init, place by place.
LEMMA InitScript ==
  /\ Len(keyboard_init) = 34
  /\ keyboard_init[1] = Cmd("DISABLE_PORT1") /\ keyboard_init[2] = Cmd("DISABLE_PORT2")
  /\ keyboard_init[3] = Do("flush") /\ keyboard_init[4] = Cmd("READ_CFG")
  /\ keyboard_init[5] = Read("cfg") /\ keyboard_init[6] = Cmd("WRITE_CFG")
  /\ keyboard_init[7] = Do("data") /\ keyboard_init[8] = Cmd("TEST_CTRL")
  /\ keyboard_init[9] = Read("self") /\ keyboard_init[10] = Cmd("WRITE_CFG")
  /\ keyboard_init[11] = Do("data") /\ keyboard_init[12] = Cmd("TEST_PORT1")
  /\ keyboard_init[13] = Read("port") /\ keyboard_init[14] = Cmd("ENABLE_PORT1")
  /\ keyboard_init[15] = Send("RESET") /\ keyboard_init[16] = Ack(1, 3, TRUE)
  /\ keyboard_init[17] = Read("bat") /\ keyboard_init[18] = Do("flush")
  /\ keyboard_init[19] = Send("SET_RATE") /\ keyboard_init[20] = Ack(1, 3, FALSE)
  /\ keyboard_init[21] = Send("rate") /\ keyboard_init[22] = Ack(3, 1, TRUE)
  /\ keyboard_init[23] = Send("ENABLE") /\ keyboard_init[24] = Ack(1, 1, TRUE)
  /\ keyboard_init[25] = Send("SET_LEDS") /\ keyboard_init[26] = Ack(1, 3, FALSE)
  /\ keyboard_init[27] = Send("lights") /\ keyboard_init[28] = Ack(3, 1, TRUE)
  /\ keyboard_init[29] = Do("flush") /\ keyboard_init[30] = Do("low")
  /\ keyboard_init[31] = Do("high") /\ keyboard_init[32] = Do("irq on")
  /\ keyboard_init[33] = Do("put") /\ keyboard_init[34] = Do("flush")
<1> DEFINE a == <<Cmd("DISABLE_PORT1"), Cmd("DISABLE_PORT2"), Do("flush"),
                  Cmd("READ_CFG"), Read("cfg"), Cmd("WRITE_CFG"), Do("data")>>
           b == ControllerTests
           c == KeyboardCommands
           d == Route
           e == <<Do("irq on"), Do("put"), Do("flush")>>
           ab == a \o b
           abc == ab \o c
           abcd == abc \o d
<1>1. a \in Seq(Op) /\ Len(a) = 7
  BY DEF Op
<1>2. b \in Seq(Op) /\ Len(b) = 7
  BY DEF Op, ControllerTests
<1>3. c \in Seq(Op) /\ Len(c) = 15
  BY DEF Op, KeyboardCommands
<1>4. d \in Seq(Op) /\ Len(d) = 2 /\ e \in Seq(Op) /\ Len(e) = 3
  BY DEF Op, Route
<1>5. keyboard_init = abcd \o e
  BY DEF keyboard_init
<1>6. /\ a[1] = Cmd("DISABLE_PORT1") /\ a[2] = Cmd("DISABLE_PORT2") /\ a[3] = Do("flush")
      /\ a[4] = Cmd("READ_CFG") /\ a[5] = Read("cfg") /\ a[6] = Cmd("WRITE_CFG")
      /\ a[7] = Do("data")
  OBVIOUS
<1>7. /\ b[1] = Cmd("TEST_CTRL") /\ b[2] = Read("self") /\ b[3] = Cmd("WRITE_CFG")
      /\ b[4] = Do("data") /\ b[5] = Cmd("TEST_PORT1") /\ b[6] = Read("port")
      /\ b[7] = Cmd("ENABLE_PORT1")
  BY DEF ControllerTests
<1>8. /\ c[1] = Send("RESET") /\ c[2] = Ack(1, 3, TRUE) /\ c[3] = Read("bat")
      /\ c[4] = Do("flush") /\ c[5] = Send("SET_RATE") /\ c[6] = Ack(1, 3, FALSE)
      /\ c[7] = Send("rate") /\ c[8] = Ack(3, 1, TRUE) /\ c[9] = Send("ENABLE")
      /\ c[10] = Ack(1, 1, TRUE) /\ c[11] = Send("SET_LEDS") /\ c[12] = Ack(1, 3, FALSE)
      /\ c[13] = Send("lights") /\ c[14] = Ack(3, 1, TRUE) /\ c[15] = Do("flush")
  BY DEF KeyboardCommands
<1>9. d[1] = Do("low") /\ d[2] = Do("high")
      /\ e[1] = Do("irq on") /\ e[2] = Do("put") /\ e[3] = Do("flush")
  BY DEF Route
<1> HIDE DEF a, b, c, d, e
<1>10. /\ ab \in Seq(Op) /\ Len(ab) = 14
       /\ \A i \in 1 .. 7 : ab[i] = a[i]
       /\ \A i \in 8 .. 14 : ab[i] = b[i - 7]
  <2>1. IsJoin(a, b, ab)
    BY <1>1, <1>2, Joined, Zenon
  <2> HIDE DEF ab
  <2> QED BY <2>1, <1>1, <1>2 DEF IsJoin
<1> HIDE DEF ab
<1>11. /\ abc \in Seq(Op) /\ Len(abc) = 29
       /\ \A i \in 1 .. 14 : abc[i] = ab[i]
       /\ \A i \in 15 .. 29 : abc[i] = c[i - 14]
  <2>1. IsJoin(ab, c, abc)
    BY <1>10, <1>3, Joined, Zenon
  <2> HIDE DEF abc
  <2> QED BY <2>1, <1>10, <1>3 DEF IsJoin
<1> HIDE DEF abc
<1>12. /\ abcd \in Seq(Op) /\ Len(abcd) = 31
       /\ \A i \in 1 .. 29 : abcd[i] = abc[i]
       /\ \A i \in 30 .. 31 : abcd[i] = d[i - 29]
  <2>1. IsJoin(abc, d, abcd)
    BY <1>11, <1>4, Joined, Zenon
  <2> HIDE DEF abcd
  <2> QED BY <2>1, <1>11, <1>4 DEF IsJoin
<1> HIDE DEF abcd
<1>13. /\ Len(keyboard_init) = 34
       /\ \A i \in 1 .. 31 : keyboard_init[i] = abcd[i]
       /\ \A i \in 32 .. 34 : keyboard_init[i] = e[i - 31]
  <2>1. IsJoin(abcd, e, keyboard_init)
    BY <1>5, <1>12, <1>4, Joined, Zenon
  <2> QED BY <2>1, <1>12, <1>4 DEF IsJoin
<1>14. /\ \A i \in 1 .. 7 : keyboard_init[i] = a[i]
       /\ \A i \in 8 .. 14 : keyboard_init[i] = b[i - 7]
       /\ \A i \in 15 .. 29 : keyboard_init[i] = c[i - 14]
       /\ \A i \in 30 .. 31 : keyboard_init[i] = d[i - 29]
       /\ \A i \in 32 .. 34 : keyboard_init[i] = e[i - 31]
  BY <1>10, <1>11, <1>12, <1>13
<1>15. /\ keyboard_init[1] = Cmd("DISABLE_PORT1") /\ keyboard_init[2] = Cmd("DISABLE_PORT2")
      /\ keyboard_init[3] = Do("flush") /\ keyboard_init[4] = Cmd("READ_CFG")
      /\ keyboard_init[5] = Read("cfg") /\ keyboard_init[6] = Cmd("WRITE_CFG")
      /\ keyboard_init[7] = Do("data")
  BY <1>6, <1>14
<1>16. /\ keyboard_init[8] = Cmd("TEST_CTRL") /\ keyboard_init[9] = Read("self")
      /\ keyboard_init[10] = Cmd("WRITE_CFG") /\ keyboard_init[11] = Do("data")
      /\ keyboard_init[12] = Cmd("TEST_PORT1") /\ keyboard_init[13] = Read("port")
      /\ keyboard_init[14] = Cmd("ENABLE_PORT1")
  BY <1>7, <1>14
<1>17. /\ keyboard_init[15] = Send("RESET") /\ keyboard_init[16] = Ack(1, 3, TRUE)
      /\ keyboard_init[17] = Read("bat") /\ keyboard_init[18] = Do("flush")
      /\ keyboard_init[19] = Send("SET_RATE") /\ keyboard_init[20] = Ack(1, 3, FALSE)
      /\ keyboard_init[21] = Send("rate") /\ keyboard_init[22] = Ack(3, 1, TRUE)
      /\ keyboard_init[23] = Send("ENABLE") /\ keyboard_init[24] = Ack(1, 1, TRUE)
      /\ keyboard_init[25] = Send("SET_LEDS") /\ keyboard_init[26] = Ack(1, 3, FALSE)
      /\ keyboard_init[27] = Send("lights") /\ keyboard_init[28] = Ack(3, 1, TRUE)
      /\ keyboard_init[29] = Do("flush")
  <2>1. /\ keyboard_init[15] = c[1] /\ keyboard_init[16] = c[2] /\ keyboard_init[17] = c[3]
        /\ keyboard_init[18] = c[4] /\ keyboard_init[19] = c[5] /\ keyboard_init[20] = c[6]
        /\ keyboard_init[21] = c[7] /\ keyboard_init[22] = c[8] /\ keyboard_init[23] = c[9]
        /\ keyboard_init[24] = c[10] /\ keyboard_init[25] = c[11]
        /\ keyboard_init[26] = c[12] /\ keyboard_init[27] = c[13]
        /\ keyboard_init[28] = c[14] /\ keyboard_init[29] = c[15]
    BY <1>14
  <2> QED BY <2>1, <1>8
<1>18. /\ keyboard_init[30] = Do("low") /\ keyboard_init[31] = Do("high")
      /\ keyboard_init[32] = Do("irq on") /\ keyboard_init[33] = Do("put")
      /\ keyboard_init[34] = Do("flush")
  <2>1. /\ keyboard_init[30] = d[1] /\ keyboard_init[31] = d[2]
        /\ keyboard_init[32] = e[1] /\ keyboard_init[33] = e[2] /\ keyboard_init[34] = e[3]
    BY <1>14
  <2> QED BY <2>1, <1>9
<1> QED BY <1>13, <1>15, <1>16, <1>17, <1>18

\* keyboard_reenable_irq, place by place.
LEMMA ReenableScript ==
  /\ Len(keyboard_reenable_irq) = 7
  /\ keyboard_reenable_irq[1] = Do("low") /\ keyboard_reenable_irq[2] = Do("high")
  /\ keyboard_reenable_irq[3] = Do("ask") /\ keyboard_reenable_irq[4] = Do("await")
  /\ keyboard_reenable_irq[5] = Do("irq on") /\ keyboard_reenable_irq[6] = Do("put")
  /\ keyboard_reenable_irq[7] = Do("flush")
<1> DEFINE a == Route
           b == <<Do("ask"), Do("await"), Do("irq on"), Do("put"), Do("flush")>>
<1>1. a \in Seq(Op) /\ Len(a) = 2 /\ b \in Seq(Op) /\ Len(b) = 5
  BY DEF Op, Route
<1>2. a[1] = Do("low") /\ a[2] = Do("high")
  BY DEF Route
<1>3. b[1] = Do("ask") /\ b[2] = Do("await") /\ b[3] = Do("irq on") /\ b[4] = Do("put")
      /\ b[5] = Do("flush")
  OBVIOUS
<1>4. keyboard_reenable_irq = a \o b
  BY DEF keyboard_reenable_irq
<1> HIDE DEF a, b
<1>5. /\ Len(keyboard_reenable_irq) = 7
      /\ \A i \in 1 .. 2 : keyboard_reenable_irq[i] = a[i]
      /\ \A i \in 3 .. 7 : keyboard_reenable_irq[i] = b[i - 2]
  <2>1. IsJoin(a, b, keyboard_reenable_irq)
    BY <1>1, <1>4, Joined, Zenon
  <2> QED BY <2>1, <1>1 DEF IsJoin
<1>6. /\ keyboard_reenable_irq[1] = a[1] /\ keyboard_reenable_irq[2] = a[2]
      /\ keyboard_reenable_irq[3] = b[1] /\ keyboard_reenable_irq[4] = b[2]
      /\ keyboard_reenable_irq[5] = b[3] /\ keyboard_reenable_irq[6] = b[4]
      /\ keyboard_reenable_irq[7] = b[5]
  BY <1>5
<1> QED BY <1>2, <1>3, <1>5, <1>6

LEMMA OpNames ==
  /\ \A x : Do(x).op = x /\ Cmd(x).op = "cmd" /\ Read(x).op = "read" /\ Send(x).op = "send"
  /\ Ack(1, 3, TRUE).op = "ack" /\ Ack(1, 3, FALSE).op = "ack" /\ Ack(3, 1, TRUE).op = "ack"
  /\ Ack(1, 1, TRUE).op = "ack"
  BY DEF Do, Cmd, Read, Send, Ack

\* The operations of keyboard_init, by their names.
LEMMA InitOps ==
  ASSUME NEW k \in 1 .. 34
  PROVE  LET op == keyboard_init[k].op
         IN \/ op = "cmd" /\ k \in {1, 2, 4, 6, 8, 10, 12, 14}
            \/ op = "read" /\ k \in {5, 9, 13, 17}
            \/ op = "flush" /\ k \in {3, 18, 29, 34}
            \/ op = "data" /\ k \in {7, 11}
            \/ op = "send" /\ k \in {15, 19, 21, 23, 25, 27}
            \/ op = "ack" /\ k \in {16, 20, 22, 24, 26, 28}
            \/ op = "low" /\ k = 30
            \/ op = "high" /\ k = 31
            \/ op = "irq on" /\ k = 32
            \/ op = "put" /\ k = 33
<1>1. CASE k \in 1 .. 7
  <2>0. /\ keyboard_init[1] = Cmd("DISABLE_PORT1")
        /\ keyboard_init[2] = Cmd("DISABLE_PORT2") /\ keyboard_init[3] = Do("flush")
        /\ keyboard_init[4] = Cmd("READ_CFG") /\ keyboard_init[5] = Read("cfg")
        /\ keyboard_init[6] = Cmd("WRITE_CFG") /\ keyboard_init[7] = Do("data")
    BY InitScript
  <2>1. /\ keyboard_init[1].op = "cmd" /\ keyboard_init[2].op = "cmd"
        /\ keyboard_init[3].op = "flush" /\ keyboard_init[4].op = "cmd"
        /\ keyboard_init[5].op = "read" /\ keyboard_init[6].op = "cmd"
        /\ keyboard_init[7].op = "data"
    BY <2>0, OpNames, Zenon
  <2>2. k = 1 \/ k = 2 \/ k = 3 \/ k = 4 \/ k = 5 \/ k = 6 \/ k = 7
    BY <1>1
  <2> QED BY <2>1, <2>2
<1>2. CASE k \in 8 .. 14
  <2>0. /\ keyboard_init[8] = Cmd("TEST_CTRL") /\ keyboard_init[9] = Read("self")
        /\ keyboard_init[10] = Cmd("WRITE_CFG") /\ keyboard_init[11] = Do("data")
        /\ keyboard_init[12] = Cmd("TEST_PORT1") /\ keyboard_init[13] = Read("port")
        /\ keyboard_init[14] = Cmd("ENABLE_PORT1")
    BY InitScript
  <2>1. /\ keyboard_init[8].op = "cmd" /\ keyboard_init[9].op = "read"
        /\ keyboard_init[10].op = "cmd" /\ keyboard_init[11].op = "data"
        /\ keyboard_init[12].op = "cmd" /\ keyboard_init[13].op = "read"
        /\ keyboard_init[14].op = "cmd"
    BY <2>0, OpNames, Zenon
  <2>2. k = 8 \/ k = 9 \/ k = 10 \/ k = 11 \/ k = 12 \/ k = 13 \/ k = 14
    BY <1>2
  <2> QED BY <2>1, <2>2
<1>3. CASE k \in 15 .. 22
  <2>0. /\ keyboard_init[15] = Send("RESET") /\ keyboard_init[16] = Ack(1, 3, TRUE)
        /\ keyboard_init[17] = Read("bat") /\ keyboard_init[18] = Do("flush")
        /\ keyboard_init[19] = Send("SET_RATE") /\ keyboard_init[20] = Ack(1, 3, FALSE)
        /\ keyboard_init[21] = Send("rate") /\ keyboard_init[22] = Ack(3, 1, TRUE)
    BY InitScript
  <2>1. /\ keyboard_init[15].op = "send" /\ keyboard_init[16].op = "ack"
        /\ keyboard_init[17].op = "read" /\ keyboard_init[18].op = "flush"
        /\ keyboard_init[19].op = "send" /\ keyboard_init[20].op = "ack"
        /\ keyboard_init[21].op = "send" /\ keyboard_init[22].op = "ack"
    BY <2>0, OpNames, Zenon
  <2>2. k = 15 \/ k = 16 \/ k = 17 \/ k = 18 \/ k = 19 \/ k = 20 \/ k = 21 \/ k = 22
    BY <1>3
  <2> QED BY <2>1, <2>2
<1>4. CASE k \in 23 .. 29
  <2>0. /\ keyboard_init[23] = Send("ENABLE") /\ keyboard_init[24] = Ack(1, 1, TRUE)
        /\ keyboard_init[25] = Send("SET_LEDS") /\ keyboard_init[26] = Ack(1, 3, FALSE)
        /\ keyboard_init[27] = Send("lights") /\ keyboard_init[28] = Ack(3, 1, TRUE)
        /\ keyboard_init[29] = Do("flush")
    BY InitScript
  <2>1. /\ keyboard_init[23].op = "send" /\ keyboard_init[24].op = "ack"
        /\ keyboard_init[25].op = "send" /\ keyboard_init[26].op = "ack"
        /\ keyboard_init[27].op = "send" /\ keyboard_init[28].op = "ack"
        /\ keyboard_init[29].op = "flush"
    BY <2>0, OpNames, Zenon
  <2>2. k = 23 \/ k = 24 \/ k = 25 \/ k = 26 \/ k = 27 \/ k = 28 \/ k = 29
    BY <1>4
  <2> QED BY <2>1, <2>2
<1>5. CASE k \in 30 .. 34
  <2>0. /\ keyboard_init[30] = Do("low") /\ keyboard_init[31] = Do("high")
        /\ keyboard_init[32] = Do("irq on") /\ keyboard_init[33] = Do("put")
        /\ keyboard_init[34] = Do("flush")
    BY InitScript
  <2>1. /\ keyboard_init[30].op = "low" /\ keyboard_init[31].op = "high"
        /\ keyboard_init[32].op = "irq on" /\ keyboard_init[33].op = "put"
        /\ keyboard_init[34].op = "flush"
    BY <2>0, OpNames, Zenon
  <2>2. k = 30 \/ k = 31 \/ k = 32 \/ k = 33 \/ k = 34
    BY <1>5
  <2> QED BY <2>1, <2>2
<1>6. k \in 1 .. 7 \/ k \in 8 .. 14 \/ k \in 15 .. 22 \/ k \in 23 .. 29 \/ k \in 30 .. 34
  OBVIOUS
<1> QED BY <1>1, <1>2, <1>3, <1>4, <1>5, <1>6, Zenon

LEMMA ReenableOps ==
  /\ keyboard_reenable_irq[1].op = "low" /\ keyboard_reenable_irq[2].op = "high"
  /\ keyboard_reenable_irq[3].op = "ask" /\ keyboard_reenable_irq[4].op = "await"
  /\ keyboard_reenable_irq[5].op = "irq on" /\ keyboard_reenable_irq[6].op = "put"
  /\ keyboard_reenable_irq[7].op = "flush"
  BY ReenableScript, OpNames

\* The other functions.
LEMMA PicOps ==
  Len(pic_init) = 11 /\ \A k \in 1 .. 11 : pic_init[k].op = "out"
<1>1. /\ pic_init[1].op = "out" /\ pic_init[2].op = "out" /\ pic_init[3].op = "out"
      /\ pic_init[4].op = "out" /\ pic_init[5].op = "out" /\ pic_init[6].op = "out"
      /\ pic_init[7].op = "out" /\ pic_init[8].op = "out" /\ pic_init[9].op = "out"
      /\ pic_init[10].op = "out" /\ pic_init[11].op = "out"
  BY DEF pic_init, Out
<1>2. Len(pic_init) = 11
  BY DEF pic_init
<1> QED BY <1>1, <1>2

LEMMA OtherOps ==
  /\ Len(apic_init) = 1
  /\ apic_init[1].op = "tables"
  /\ Len(lapic_init) = 3
  /\ lapic_init[1].op = "msr" /\ lapic_init[2].op = "map lapic" /\ lapic_init[3].op = "svr"
  /\ Len(ioapic_init) = 2
  /\ ioapic_init[1].op = "map ioapic" /\ ioapic_init[2].op = "mask"
  /\ Len(apic_timer_init) = 7
  /\ apic_timer_init[1].op = "count" /\ apic_timer_init[2].op = "pit"
  /\ apic_timer_init[3].op = "start" /\ apic_timer_init[4].op = "wait"
  /\ apic_timer_init[5].op = "stop" /\ apic_timer_init[6].op = "elapsed"
  /\ apic_timer_init[7].op = "arm"
  BY DEF apic_init, lapic_init, ioapic_init, apic_timer_init, Do

LEMMA Scripts ==
  /\ Script("pic_init") = pic_init /\ Script("apic_init") = apic_init
  /\ Script("lapic_init") = lapic_init /\ Script("ioapic_init") = ioapic_init
  /\ Script("apic_timer_init") = apic_timer_init
  /\ Script("keyboard_init") = keyboard_init
  /\ Script("keyboard_reenable_irq") = keyboard_reenable_irq
  BY DEF Script

LEMMA ShortScripts ==
  /\ Len(Script("scheduler_init")) = 1 /\ Script("scheduler_init")[1] = Do("sti")
  /\ Len(Script("timer handler")) = 1 /\ Script("timer handler")[1] = Do("register")
  /\ Len(Script("keyboard handler")) = 1 /\ Script("keyboard handler")[1] = Do("register")
<1>1. /\ Script("scheduler_init") = <<Do("sti")>> /\ Script("timer handler") = <<Do("register")>>
      /\ Script("keyboard handler") = <<Do("register")>>
  BY DEF Script
<1>2. \A x : Len(<<x>>) = 1 /\ <<x>>[1] = x
  OBVIOUS
<1> QED BY <1>1, <1>2, Zenon

LEMMA Lengths ==
  /\ Len(Script("pic_init")) = 11 /\ Len(Script("apic_init")) = 1
  /\ Len(Script("lapic_init")) = 3 /\ Len(Script("ioapic_init")) = 2
  /\ Len(Script("scheduler_init")) = 1 /\ Len(Script("timer handler")) = 1
  /\ Len(Script("apic_timer_init")) = 7 /\ Len(Script("keyboard handler")) = 1
  /\ Len(Script("keyboard_init")) = 34 /\ Len(Script("keyboard_reenable_irq")) = 7
  BY ShortScripts, Scripts, PicOps, OtherOps, InitScript, ReenableScript

LEMMA Order ==
  /\ init_kernel("pic_init") = "apic_init" /\ init_kernel("apic_init") = "lapic_init"
  /\ init_kernel("lapic_init") = "ioapic_init"
  /\ init_kernel("ioapic_init") = "scheduler_init"
  /\ init_kernel("scheduler_init") = "timer handler"
  /\ init_kernel("timer handler") = "apic_timer_init"
  /\ init_kernel("apic_timer_init") = "keyboard handler"
  /\ init_kernel("keyboard handler") = "keyboard_init"
  /\ init_kernel("keyboard_init") = "keyboard_reenable_irq"
  /\ init_kernel("keyboard_reenable_irq") = "done"
  BY DEF init_kernel

\* Where the thread is when it takes a step of a given kind.
LEMMA Places ==
  ASSUME IsThread(thread), thread.fn # "done"
  PROVE  LET op == Here.op
             fn == thread.fn
             at == thread.at
         IN \/ op = "out" /\ fn = "pic_init"
            \/ op = "tables" /\ fn = "apic_init" /\ at = 1
            \/ op = "msr" /\ fn = "lapic_init" /\ at = 1
            \/ op = "map lapic" /\ fn = "lapic_init" /\ at = 2
            \/ op = "svr" /\ fn = "lapic_init" /\ at = 3
            \/ op = "map ioapic" /\ fn = "ioapic_init" /\ at = 1
            \/ op = "mask" /\ fn = "ioapic_init" /\ at = 2
            \/ op = "sti" /\ fn = "scheduler_init" /\ at = 1
            \/ op = "register" /\ fn \in {"timer handler", "keyboard handler"} /\ at = 1
            \/ op \in {"count", "pit", "start", "wait", "stop", "elapsed", "arm"}
               /\ fn = "apic_timer_init"
            \/ fn = "keyboard_init" /\ Here = keyboard_init[at] /\ at \in 1 .. 34
               /\ op \in {"cmd", "read", "flush", "data", "send", "ack", "low", "high",
                         "irq on", "put"}
            \/ fn = "keyboard_reenable_irq" /\ Here = keyboard_reenable_irq[at] /\ at \in 1 .. 7
               /\ op \in {"low", "high", "ask", "await", "irq on", "put", "flush"}
<1>1. thread.at \in 1 .. Len(Script(thread.fn)) /\ thread.fn \in Functions
  BY DEF IsThread
<1>2. /\ \A k \in 1 .. 2 : k = 1 \/ k = 2
      /\ \A k \in 1 .. 3 : k = 1 \/ k = 2 \/ k = 3
      /\ \A k \in 1 .. 7 : k = 1 \/ k = 2 \/ k = 3 \/ k = 4 \/ k = 5 \/ k = 6 \/ k = 7
      /\ \A k \in 1 .. 1 : k = 1
  OBVIOUS
<1>3. CASE thread.fn = "pic_init"
  BY <1>1, <1>3, Scripts, Lengths, PicOps DEF Here
<1>4. CASE thread.fn \in {"apic_init", "lapic_init", "ioapic_init"}
  <2>1. CASE thread.fn = "apic_init"
    <3>1. thread.at = 1 /\ Here = apic_init[thread.at]
      BY <1>1, <1>2, <2>1, Scripts, Lengths DEF Here
    <3> QED BY <3>1, <2>1, OtherOps
  <2>2. CASE thread.fn = "lapic_init"
    <3>1. (thread.at = 1 \/ thread.at = 2 \/ thread.at = 3) /\ Here = lapic_init[thread.at]
      BY <1>1, <1>2, <2>2, Scripts, Lengths DEF Here
    <3> QED BY <3>1, <2>2, OtherOps
  <2>3. CASE thread.fn = "ioapic_init"
    <3>1. (thread.at = 1 \/ thread.at = 2) /\ Here = ioapic_init[thread.at]
      BY <1>1, <1>2, <2>3, Scripts, Lengths DEF Here
    <3> QED BY <3>1, <2>3, OtherOps
  <2> QED BY <1>4, <2>1, <2>2, <2>3
<1>5. CASE thread.fn = "scheduler_init"
  <2>1. thread.at = 1 /\ Here = Do("sti")
    BY <1>1, <1>2, <1>5, ShortScripts DEF Here
  <2> QED BY <2>1, <1>5, OpNames
<1>6. CASE thread.fn \in {"timer handler", "keyboard handler"}
  <2>1. thread.at = 1 /\ Here = Do("register")
    BY <1>1, <1>2, <1>6, ShortScripts DEF Here
  <2> QED BY <2>1, <1>6, OpNames
<1>7. CASE thread.fn = "apic_timer_init"
  <2>1. /\ thread.at \in 1 .. 7 /\ Here = apic_timer_init[thread.at]
    BY <1>1, <1>7, Scripts, Lengths DEF Here
  <2>2. Here.op \in {"count", "pit", "start", "wait", "stop", "elapsed", "arm"}
    BY <1>2, <2>1, OtherOps
  <2> QED BY <2>2, <1>7
<1>8. CASE thread.fn = "keyboard_init"
  <2>1. Here = keyboard_init[thread.at] /\ thread.at \in 1 .. 34
    BY <1>1, <1>8, Scripts, Lengths DEF Here
  <2> QED BY <2>1, <1>8, InitOps
<1>9. CASE thread.fn = "keyboard_reenable_irq"
  <2>1. Here = keyboard_reenable_irq[thread.at] /\ thread.at \in 1 .. 7
    BY <1>1, <1>9, Scripts, Lengths DEF Here
  <2>2. Here.op \in {"low", "high", "ask", "await", "irq on", "put", "flush"}
    BY <1>2, <2>1, ReenableOps
  <2> QED BY <2>1, <2>2, <1>9
<1> QED BY <1>1, <1>3, <1>4, <1>5, <1>6, <1>7, <1>8, <1>9 DEF Functions

\* The same for the functions of the keyboard, with the places.
LEMMA KeyboardPlaces ==
  ASSUME IsThread(thread), thread.fn # "done"
  PROVE  LET op == Here.op
             fn == thread.fn
             at == thread.at
             First(S) == fn = "keyboard_init" /\ at \in S /\ Here = keyboard_init[at]
             Again(k) == fn = "keyboard_reenable_irq" /\ at = k
         IN /\ op = "cmd" => First({1, 2, 4, 6, 8, 10, 12, 14})
            /\ op = "read" => First({5, 9, 13, 17})
            /\ op = "flush" => First({3, 18, 29, 34}) \/ Again(7)
            /\ op = "data" => First({7, 11})
            /\ op = "send" => First({15, 19, 21, 23, 25, 27})
            /\ op = "ack" => First({16, 20, 22, 24, 26, 28})
            /\ op = "low" => First({30}) \/ Again(1)
            /\ op = "high" => First({31}) \/ Again(2)
            /\ op = "irq on" => First({32}) \/ Again(5)
            /\ op = "put" => First({33}) \/ Again(6)
            /\ op = "ask" => Again(3)
            /\ op = "await" => Again(4)
<1>1. CASE thread.fn = "keyboard_init" /\ Here = keyboard_init[thread.at] /\ thread.at \in 1 .. 34
  BY <1>1, InitOps
<1>2. CASE /\ thread.fn = "keyboard_reenable_irq" /\ Here = keyboard_reenable_irq[thread.at]
           /\ thread.at \in 1 .. 7
  <2>1. \/ thread.at = 1 \/ thread.at = 2 \/ thread.at = 3 \/ thread.at = 4 \/ thread.at = 5
        \/ thread.at = 6 \/ thread.at = 7
    <3>1. \A k \in 1 .. 7 : k = 1 \/ k = 2 \/ k = 3 \/ k = 4 \/ k = 5 \/ k = 6 \/ k = 7
      OBVIOUS
    <3> QED BY <3>1, <1>2
  <2> QED BY <2>1, <1>2, ReenableOps
<1>3. CASE thread.fn \notin {"keyboard_init", "keyboard_reenable_irq"}
  BY <1>3, Places
<1> QED BY <1>1, <1>2, <1>3, Places

-----------------------------------------------------------------------------
(* The thread goes on *)

LEMMA Constants ==
  /\ PINS \in Nat /\ PINS >= 2 /\ IRQ_KEYBOARD = 33 /\ 0 \notin IoapicAddresses
  BY ApicAssumption DEF IRQ_KEYBOARD, IoapicAddresses

LEMMA SomeLength ==
  ASSUME NEW f \in Functions, f # "done"
  PROVE  Len(Script(f)) \in Nat /\ Len(Script(f)) >= 1
<1> DEFINE n == Len(Script(f))
<1>1. n = 1 \/ n = 2 \/ n = 3 \/ n = 7 \/ n = 11 \/ n = 34
  BY Lengths, Zenon DEF Functions
<1> HIDE DEF n
<1>2. n \in Nat /\ n >= 1
  BY <1>1
<1> QED BY <1>2 DEF n

LEMMA Returns ==
  ASSUME NEW t, IsThread(t), t.fn # "done"
  PROVE  /\ IsThread(Return(t)) /\ Return(t).fn = init_kernel(t.fn) /\ Return(t).at = 1
         /\ Return(t).cfg = t.cfg /\ Return(t).i = 0
<1>1. init_kernel(t.fn) \in Functions
  BY Order DEF IsThread, Functions
<1>2. init_kernel(t.fn) # "done" => 1 \in 1 .. Len(Script(init_kernel(t.fn)))
  BY <1>1, SomeLength
<1>3. Return(t) = [fn |-> init_kernel(t.fn), at |-> 1, i |-> 0, retry |-> t.retry,
                   base |-> t.base, start |-> t.start, bus |-> t.bus, cfg |-> t.cfg]
  <2>1. t = [fn |-> t.fn, at |-> t.at, i |-> t.i, retry |-> t.retry, base |-> t.base,
             start |-> t.start, bus |-> t.bus, cfg |-> t.cfg]
    BY DEF IsThread
  <2> DEFINE u == [t EXCEPT !.fn = init_kernel(t.fn)]
             v == [u EXCEPT !.at = 1]
  <2>2. u = [fn |-> init_kernel(t.fn), at |-> t.at, i |-> t.i, retry |-> t.retry,
             base |-> t.base, start |-> t.start, bus |-> t.bus, cfg |-> t.cfg]
    BY <2>1
  <2>3. Return(t) = [v EXCEPT !.i = 0]
    BY DEF Return
  <2> HIDE DEF u
  <2>4. v = [fn |-> init_kernel(t.fn), at |-> 1, i |-> t.i, retry |-> t.retry,
             base |-> t.base, start |-> t.start, bus |-> t.bus, cfg |-> t.cfg]
    BY <2>2
  <2> HIDE DEF v
  <2> QED BY <2>3, <2>4
<1> QED BY <1>1, <1>2, <1>3, Constants DEF IsThread

LEMMA Forwards ==
  ASSUME NEW t, IsThread(t), t.fn # "done", NEW n \in Nat \ {0}
  PROVE  /\ IsThread(Forward(t, n)) /\ Forward(t, n).cfg = t.cfg
         /\ IF t.at + n <= Len(Script(t.fn))
            THEN Forward(t, n).fn = t.fn /\ Forward(t, n).at = t.at + n
            ELSE Forward(t, n).fn = init_kernel(t.fn) /\ Forward(t, n).at = 1
<1>1. CASE t.at + n <= Len(Script(t.fn))
  <2>1. t.at \in 1 .. Len(Script(t.fn)) /\ Len(Script(t.fn)) \in Nat
    BY SomeLength DEF IsThread
  <2>2. t.at + n \in 1 .. Len(Script(t.fn))
    BY <1>1, <2>1
  <2>3. t.i = 0
    <3>1. CASE t.fn = "ioapic_init"
      <4>1. Len(Script(t.fn)) = 2
        BY <3>1, Lengths, Zenon
      <4>2. t.at # 2
        BY <4>1, <2>1, <1>1
      <4> QED BY <4>2 DEF IsThread
    <3> QED BY <3>1, Constants DEF IsThread
  <2>4. Forward(t, n) = [fn |-> t.fn, at |-> t.at + n, i |-> t.i, retry |-> t.retry,
                         base |-> t.base, start |-> t.start, bus |-> t.bus, cfg |-> t.cfg]
    BY <1>1 DEF IsThread, Forward
  <2> QED BY <1>1, <2>2, <2>3, <2>4, Constants DEF IsThread
<1>2. CASE ~(t.at + n <= Len(Script(t.fn)))
  BY <1>2, Returns DEF Forward
<1> QED BY <1>1, <1>2

\* Locals other than the place.
LEMMA Locals ==
  ASSUME NEW t, IsThread(t), NEW x
  PROVE  /\ IsThread([t EXCEPT !.cfg = x]) /\ [t EXCEPT !.cfg = x].cfg = x
         /\ [t EXCEPT !.cfg = x].fn = t.fn /\ [t EXCEPT !.cfg = x].at = t.at
         /\ IsThread([t EXCEPT !.retry = x]) /\ [t EXCEPT !.retry = x].cfg = t.cfg
         /\ [t EXCEPT !.retry = x].fn = t.fn /\ [t EXCEPT !.retry = x].at = t.at
         /\ IsThread([t EXCEPT !.base = x]) /\ [t EXCEPT !.base = x].fn = t.fn
         /\ [t EXCEPT !.base = x].at = t.at
         /\ IsThread([t EXCEPT !.start = x]) /\ [t EXCEPT !.start = x].fn = t.fn
         /\ [t EXCEPT !.start = x].at = t.at
         /\ IsThread([t EXCEPT !.bus = x]) /\ [t EXCEPT !.bus = x].fn = t.fn
         /\ [t EXCEPT !.bus = x].at = t.at
<1> DEFINE T(retry, base, start, bus, cfg) ==
             [fn |-> t.fn, at |-> t.at, i |-> t.i, retry |-> retry, base |-> base,
              start |-> start, bus |-> bus, cfg |-> cfg]
<1>1. /\ [t EXCEPT !.cfg = x] = T(t.retry, t.base, t.start, t.bus, x)
      /\ [t EXCEPT !.retry = x] = T(x, t.base, t.start, t.bus, t.cfg)
      /\ [t EXCEPT !.base = x] = T(t.retry, x, t.start, t.bus, t.cfg)
      /\ [t EXCEPT !.start = x] = T(t.retry, t.base, x, t.bus, t.cfg)
      /\ [t EXCEPT !.bus = x] = T(t.retry, t.base, t.start, x, t.cfg)
  BY DEF IsThread
<1>2. ASSUME NEW retry, NEW base, NEW start, NEW bus, NEW cfg
      PROVE  /\ IsThread(T(retry, base, start, bus, cfg)) /\ T(retry, base, start, bus, cfg).cfg = cfg
             /\ T(retry, base, start, bus, cfg).fn = t.fn /\ T(retry, base, start, bus, cfg).at = t.at
  BY DEF IsThread
<1> HIDE DEF T
<1> QED BY <1>1, <1>2

-----------------------------------------------------------------------------
(* What a step leaves alone *)

LEMMA Wired ==
  ASSUME setup \in Setups
  PROVE  setup.wire[1] \in IoapicAddresses /\ setup.wire[2] \in Pins
         /\ setup.wire = <<setup.wire[1], setup.wire[2]>> /\ setup.faults \in Nat
<1>1. [setup EXCEPT !.firmware = "tables"] \in Setup
  BY BootAssumption
<1>2. setup.wire \in IoapicAddresses \X Pins /\ setup.faults \in Nat
  BY <1>1 DEF Setup
<1> QED BY <1>2

\* The 8042 changes: IRQ1 becomes pending by the entry of its pin alone.
LEMMA CtlEffect ==
  ASSUME Shapes, NoEarlyIrq, NEW c, Ctl(c)
  PROVE  /\ ctl' = c /\ IsLapic(lapic') /\ lapic'.isr = lapic.isr
         /\ IRQ_KEYBOARD \in lapic'.irr => Routed
<1>1. setup.wire[1] \in IoapicAddresses /\ setup.wire[2] \in Pins
  BY Wired DEF Shapes
<1> DEFINE v == redir[setup.wire[1]][setup.wire[2]].low.vector
<1>2. v = IRQ_KEYBOARD => Routed
  BY <1>1 DEF NoEarlyIrq
<1>3. IRQ_KEYBOARD \in lapic.irr => Routed
  BY DEF NoEarlyIrq
<1>4. ctl' = c /\ (lapic' = lapic \/ lapic' = [lapic EXCEPT !.irr = @ \cup {v}])
  BY DEF Ctl
<1> HIDE DEF v
<1>5. CASE lapic' = lapic
  BY <1>3, <1>4, <1>5 DEF Shapes
<1>6. CASE lapic' = [lapic EXCEPT !.irr = @ \cup {v}]
  <2>1. lapic' = [on |-> lapic.on, irr |-> lapic.irr \cup {v}, isr |-> lapic.isr,
                  armed |-> lapic.armed, init |-> lapic.init, cur |-> lapic.cur]
    BY <1>6 DEF Shapes, IsLapic
  <2> QED BY <2>1, <1>2, <1>3, <1>4 DEF IsLapic
<1> QED BY <1>4, <1>5, <1>6

\* A step of the thread before keyboard_init, in which the IO APIC is not yet
\* in use, or is left as it is.
LEMMA QuietStep ==
  ASSUME IInv, IsThread(thread'), thread.fn \notin {"keyboard_init", "keyboard_reenable_irq", "done"},
         thread'.fn \notin {"keyboard_reenable_irq", "done"},
         thread'.fn = "keyboard_init" => thread'.at = 1,
         IsCpu(cpu'), cpu'.mode = cpu.mode, IsApic(apic'),
         IsLapic(lapic'), lapic'.irr = lapic.irr, UNCHANGED <<setup, ctl, faults, robbed>>,
         redir' \in [IoapicAddresses -> [Pins -> Entries]],
         \A a \in IoapicAddresses, p \in Pins : redir'[a][p].low.vector # IRQ_KEYBOARD,
         FromMadt', Masked'
  PROVE  IInv'
<1>1. Shapes'
  BY DEF IInv, Shapes
<1>2. ~Routed
  BY DEF Routed
<1>3. NoEarlyIrq'
  BY <1>2 DEF IInv, NoEarlyIrq
<1>4. KeyboardOn'
  BY DEF KeyboardOn
<1>5. AnswersKept'
  BY DEF IInv, AnswersKept
<1>6. faults' = 0 => Dialogue'
  <2> SUFFICES ASSUME faults = 0 PROVE Dialogue'
    OBVIOUS
  <2>1. (PS2_CFG_SYSFLAG \in ctl.cfg <=> PS2_CFG_SYSFLAG \in setup.cfg) /\ ctl.ans = << >>
    BY DEF IInv, Dialogue
  <2> QED BY <2>1 DEF Dialogue
<1> QED BY <1>1, <1>3, <1>4, <1>5, <1>6 DEF IInv

\* Before keyboard_init no entry has the vector of the keyboard.
LEMMA NoVectorYet ==
  ASSUME IInv, thread.fn \notin {"keyboard_init", "keyboard_reenable_irq", "done"}
  PROVE  \A a \in IoapicAddresses, p \in Pins : redir[a][p].low.vector # IRQ_KEYBOARD
<1>1. ~Routed
  BY DEF Routed
<1> QED BY <1>1 DEF IInv, NoEarlyIrq

\* While no IO APIC is in use nothing is said of its entries.
LEMMA NoIoapicYet ==
  ASSUME IInv, apic'.ioapic_base = 0, ~cpu'.if, setup' = setup,
         apic'.info = apic.info /\ apic'.isa_overrides = apic.isa_overrides
  PROVE  FromMadt' /\ Masked'
<1>1. FromMadt'
  BY DEF IInv, FromMadt
<1> QED BY <1>1 DEF Masked

\* Once interrupts may come on, a step that leaves the IO APIC alone.
LEMMA LateStep ==
  ASSUME IInv, thread.fn \notin Early \cup {"scheduler_init"},
         thread'.fn \notin Early \cup {"scheduler_init"}, UNCHANGED <<setup, apic, redir>>
  PROVE  FromMadt' /\ Masked'
<1>1. FromMadt'
  BY DEF IInv, FromMadt, Early
<1> QED BY <1>1 DEF IInv, Masked, Early

\* A step of the thread in keyboard_init or keyboard_reenable_irq that leaves
\* the IO APIC alone.
LEMMA TalkStep ==
  ASSUME IInv, IsThread(thread'),
         \/ /\ thread.fn = "keyboard_init"
            /\ \/ thread'.fn = "keyboard_init"
               \/ thread'.fn = "keyboard_reenable_irq" /\ thread'.at = 1
         \/ /\ thread.fn = "keyboard_reenable_irq" /\ thread.at > 1
            /\ thread'.fn \in {"keyboard_reenable_irq", "done"},
         Routed => Routed', UNCHANGED <<cpu, apic, redir, setup, robbed>>, faults' \in Nat,
         IsLapic(lapic'), IRQ_KEYBOARD \in lapic'.irr => Routed, IsCtl(ctl'),
         (thread'.fn = "keyboard_reenable_irq" /\ thread'.at = 6) => ctl'.next = "cfg",
         (thread'.fn = "done" \/ (thread'.fn = "keyboard_reenable_irq" /\ thread'.at = 7)) =>
           {PS2_CFG_IRQ1, PS2_CFG_TRANSLATE} \subseteq ctl'.cfg,
         faults' = 0 => Dialogue'
  PROVE  IInv'
<1>1. Shapes'
  BY DEF IInv, Shapes
<1>2. NoEarlyIrq'
  BY DEF IInv, NoEarlyIrq
<1>3. FromMadt' /\ Masked'
  BY LateStep DEF Early
<1>4. KeyboardOn'
  BY DEF IInv, KeyboardOn
<1>5. AnswersKept'
  BY DEF IInv, AnswersKept
<1> QED BY <1>1, <1>2, <1>3, <1>4, <1>5 DEF IInv

\* A step that is not the thread's.
LEMMA OtherStep ==
  ASSUME IInv, UNCHANGED <<thread, apic, redir, setup, faults>>,
         IsCpu(cpu'), cpu'.if = cpu.if, cpu'.mode = "irq" => Routed,
         IsLapic(lapic'), IRQ_KEYBOARD \in lapic'.irr => Routed,
         IsCtl(ctl'), ctl'.cfg = ctl.cfg, ctl'.next = ctl.next,
         robbed' => thread.fn \in {"keyboard_reenable_irq", "done"},
         faults = 0 => Dialogue'
  PROVE  IInv'
<1>1. Shapes'
  BY DEF IInv, Shapes
<1>2. Routed' = Routed
  BY DEF Routed
<1>3. NoEarlyIrq'
  BY <1>2 DEF IInv, NoEarlyIrq
<1>4. FromMadt' /\ Masked' /\ KeyboardOn'
  BY DEF IInv, FromMadt, Masked, KeyboardOn
<1>5. AnswersKept'
  BY DEF AnswersKept
<1> QED BY <1>1, <1>3, <1>4, <1>5 DEF IInv

-----------------------------------------------------------------------------
(* The start, and the set-up of the interrupt controllers and the timer *)

LEMMA InitInv == Init => IInv
<1> SUFFICES ASSUME Init PROVE IInv
  OBVIOUS
<1>1. /\ setup \in Setups /\ thread.fn = "pic_init" /\ thread.at = 1 /\ thread.i = 0
      /\ cpu.mode = "main" /\ cpu.if = FALSE /\ apic.ioapic_base = 0
      /\ apic.info.ioapic_found = FALSE /\ lapic.irr = {} /\ ctl.ans = << >>
      /\ ctl.cfg = setup.cfg /\ faults = 0 /\ robbed = FALSE
  BY DEF Init
<1>2. IsThread(thread)
  <2>1. thread = [fn |-> "pic_init", at |-> 1, i |-> 0, retry |-> 0, base |-> 0,
                  start |-> 0, bus |-> 0, cfg |-> {}]
    BY DEF Init
  <2>3. "pic_init" \in Functions /\ 0 \in 0 .. 2 * PINS
    BY Constants DEF Functions
  <2>2. 1 \in 1 .. Len(Script("pic_init"))
    BY <2>3, SomeLength
  <2> QED BY <2>1, <2>2, <2>3 DEF IsThread
<1>3. IsCpu(cpu) /\ IsApic(apic) /\ IsLapic(lapic) /\ IsCtl(ctl)
  BY DEF Init, IsCpu, IsApic, IsLapic, IsCtl
<1>4. redir \in [IoapicAddresses -> [Pins -> Entries]]
  BY DEF Init, Entries, Entry, Lows, Low
<1>5. \A a \in IoapicAddresses, p \in Pins : redir[a][p].low.vector = 48
  BY DEF Init, Entry, Low
<1>6. Shapes
  BY <1>1, <1>2, <1>3, <1>4 DEF Shapes
<1>7. NoEarlyIrq
  BY <1>1, <1>5, Constants DEF NoEarlyIrq
<1>8. FromMadt /\ Masked /\ KeyboardOn /\ AnswersKept
  BY <1>1 DEF FromMadt, Masked, KeyboardOn, AnswersKept
<1>9. Dialogue
  BY <1>1 DEF Dialogue
<1> QED BY <1>6, <1>7, <1>8, <1>9 DEF IInv

\* The thread after one step.
LEMMA Stepped ==
  ASSUME IsThread(thread), thread.fn # "done", Step
  PROVE  /\ IsThread(thread') /\ thread'.cfg = thread.cfg
         /\ \/ thread'.fn = thread.fn /\ thread'.at = thread.at + 1
            \/ thread'.fn = init_kernel(thread.fn) /\ thread'.at = 1
  BY Forwards DEF Step

LEMMA EarlyStep ==
  ASSUME IInv, \/ thread.fn \in {"pic_init", "apic_init", "lapic_init"}
               \/ thread.fn = "ioapic_init" /\ thread.at = 1,
         IsThread(thread'), thread'.fn \in Early \cup {"scheduler_init"},
         UNCHANGED <<setup, ctl, faults, robbed, redir>>,
         IsCpu(cpu'), cpu'.mode = cpu.mode, cpu'.if = cpu.if,
         IsApic(apic'), apic'.ioapic_base = apic.ioapic_base,
         apic'.info = apic.info /\ apic'.isa_overrides = apic.isa_overrides,
         IsLapic(lapic'), lapic'.irr = lapic.irr
  PROVE  IInv'
<1>1. apic.ioapic_base = 0 /\ ~cpu.if
  BY DEF IInv, FromMadt, Masked, Early
<1>2. FromMadt' /\ Masked'
  BY <1>1, NoIoapicYet
<1>3. \A a \in IoapicAddresses, p \in Pins : redir[a][p].low.vector # IRQ_KEYBOARD
  BY NoVectorYet
<1> QED BY <1>2, <1>3, QuietStep DEF IInv, Shapes, Early

LEMMA TimerStep ==
  ASSUME IInv, thread.fn \in {"timer handler", "apic_timer_init", "keyboard handler"},
         IsThread(thread'),
         \/ thread'.fn = thread.fn
         \/ thread'.fn = init_kernel(thread.fn) /\ thread'.at = 1,
         UNCHANGED <<setup, ctl, faults, robbed, redir, apic>>,
         IsCpu(cpu'), cpu'.mode = cpu.mode, IsLapic(lapic'), lapic'.irr = lapic.irr
  PROVE  IInv'
<1>1. /\ thread'.fn \in {"timer handler", "apic_timer_init", "keyboard handler", "keyboard_init"}
      /\ thread'.fn = "keyboard_init" => thread'.at = 1
  BY Order
<1>2. FromMadt' /\ Masked'
  BY <1>1, LateStep DEF Early
<1>3. \A a \in IoapicAddresses, p \in Pins : redir[a][p].low.vector # IRQ_KEYBOARD
  BY NoVectorYet
<1> QED BY <1>1, <1>2, <1>3, QuietStep DEF IInv, Shapes

LEMMA PicOutKeeps ==
  ASSUME IInv, PicOut
  PROVE  IInv'
<1>1. thread.fn = "pic_init" /\ thread.fn # "done" /\ IsThread(thread)
  BY Places DEF PicOut, At, IInv, Shapes
<1>2. IsThread(thread') /\ thread'.fn \in {"pic_init", "apic_init"}
  BY <1>1, Stepped, Order DEF PicOut
<1> QED BY <1>1, <1>2, EarlyStep DEF PicOut, others, Early, IInv, Shapes

LEMMA TablesKeeps ==
  ASSUME IInv, Tables
  PROVE  IInv'
<1> DEFINE madt == MadtOf(setup.firmware)
<1>1. thread.fn = "apic_init" /\ thread.at = 1 /\ IsThread(thread)
  BY Places DEF Tables, At, IInv, Shapes
<1>2. CASE madt = NULL
  <2>1. thread' = [thread EXCEPT !.fn = "scheduler_init"] /\ apic' = apic
    BY <1>2, Order DEF Tables
  <2>2. thread' = [fn |-> "scheduler_init", at |-> thread.at, i |-> thread.i,
                   retry |-> thread.retry, base |-> thread.base, start |-> thread.start,
                   bus |-> thread.bus, cfg |-> thread.cfg]
    BY <1>1, <2>1 DEF IsThread
  <2>3. IsThread(thread')
    <3>1. thread.i = 0
      BY <1>1, Constants DEF IsThread
    <3> QED BY <2>2, <1>1, <3>1, Lengths, Constants DEF IsThread, Functions
  <2> QED BY <1>1, <2>1, <2>2, <2>3, EarlyStep DEF Tables, hardware, others, Early, IInv, Shapes
<1>3. CASE madt # NULL
  <2>1. Step /\ apic' = [apic EXCEPT !.info = acpi_parse_madt(madt),
                                     !.isa_overrides = acpi_parse_isa_overrides(madt)]
    BY <1>3 DEF Tables
  <2>2. IsThread(thread') /\ thread'.fn \in {"apic_init", "lapic_init"}
    BY <1>1, <2>1, Stepped, Order
  <2> HIDE DEF madt
  <2>3. /\ IsApic(apic') /\ apic'.ioapic_base = apic.ioapic_base
        /\ apic'.info = acpi_parse_madt(madt)
        /\ apic'.isa_overrides = acpi_parse_isa_overrides(madt)
    <3>1. apic' = [lapic_base |-> apic.lapic_base, ioapic_base |-> apic.ioapic_base,
                   isa_overrides |-> acpi_parse_isa_overrides(madt),
                   info |-> acpi_parse_madt(madt)]
      BY <2>1 DEF IInv, Shapes, IsApic
    <3> QED BY <3>1 DEF IsApic
  <2>4. apic.ioapic_base = 0 /\ ~cpu.if
    BY <1>1 DEF IInv, FromMadt, Masked, Early
  <2>5. UNCHANGED <<cpu, redir, lapic, ctl, setup, faults, robbed>>
    BY DEF Tables, hardware, others
  <2>6. FromMadt' /\ Masked'
    BY <1>3, <2>3, <2>4, <2>5 DEF FromMadt, Masked, madt
  <2>7. \A a \in IoapicAddresses, p \in Pins : redir[a][p].low.vector # IRQ_KEYBOARD
    BY <1>1, NoVectorYet
  <2> QED BY <1>1, <2>2, <2>3, <2>5, <2>6, <2>7, QuietStep DEF IInv, Shapes
<1> QED BY <1>2, <1>3

LEMMA LapicInitKeeps ==
  ASSUME IInv, Msr \/ MapLapic \/ Svr
  PROVE  IInv'
<1>1. /\ thread.fn = "lapic_init" /\ IsThread(thread) /\ IsCpu(cpu) /\ IsApic(apic)
      /\ IsLapic(lapic)
  BY Places DEF Msr, MapLapic, Svr, At, IInv, Shapes
<1>2. /\ IsThread(Return(thread)) /\ Return(thread).fn = "ioapic_init"
      /\ IsThread(Forward(thread, 1)) /\ Forward(thread, 1).fn \in {"lapic_init", "ioapic_init"}
  <2>1. IsThread(Return(thread)) /\ Return(thread).fn = "ioapic_init"
    BY <1>1, Returns, Order
  <2>2. 1 \in Nat \ {0}
    OBVIOUS
  <2> QED BY <1>1, <2>1, <2>2, Forwards, Order
<1>3. CASE Msr
  <2>1. IsThread(thread') /\ thread'.fn \in {"lapic_init", "ioapic_init"}
    <3>1. thread' = Return(thread) \/ \E x : thread' = [Forward(thread, 1) EXCEPT !.base = x]
      BY <1>3 DEF Msr
    <3>2. ASSUME NEW x, thread' = [Forward(thread, 1) EXCEPT !.base = x]
          PROVE  IsThread(thread') /\ thread'.fn = Forward(thread, 1).fn
      BY <1>2, <3>2, Locals
    <3> QED BY <1>2, <3>1, <3>2
  <2>2. IsCpu(cpu') /\ cpu'.if = cpu.if /\ cpu'.mode = cpu.mode
    <3>1. ASSUME NEW x
          PROVE  [cpu EXCEPT !.msr = x] = [if |-> cpu.if, mode |-> cpu.mode,
                                           handlers |-> cpu.handlers, msr |-> x]
      BY <1>1 DEF IsCpu
    <3>2. cpu' = cpu \/ \E x : cpu' = [cpu EXCEPT !.msr = x]
      BY <1>3 DEF Msr
    <3> QED BY <1>1, <3>1, <3>2 DEF IsCpu
  <2> QED BY <1>1, <2>1, <2>2, <1>3, EarlyStep DEF Msr, hardware, others, Early
<1>4. CASE MapLapic
  <2>1. IsThread(thread') /\ thread'.fn \in {"lapic_init", "ioapic_init"}
    BY <1>2, <1>4 DEF MapLapic, Step
  <2>2. /\ IsApic(apic') /\ apic'.ioapic_base = apic.ioapic_base
        /\ apic'.info = apic.info /\ apic'.isa_overrides = apic.isa_overrides
    <3>1. [apic EXCEPT !.lapic_base = thread.base] =
            [lapic_base |-> thread.base, ioapic_base |-> apic.ioapic_base,
             isa_overrides |-> apic.isa_overrides, info |-> apic.info]
      BY <1>1 DEF IsApic
    <3> QED BY <1>1, <1>4, <3>1 DEF MapLapic, IsApic
  <2> QED BY <1>1, <2>1, <2>2, <1>4, EarlyStep DEF MapLapic, hardware, others, Early
<1>5. CASE Svr
  <2>1. IsThread(thread') /\ thread'.fn \in {"lapic_init", "ioapic_init"}
    BY <1>2, <1>5 DEF Svr, Step
  <2>2. IsLapic(lapic') /\ lapic'.irr = lapic.irr
    <3>1. ASSUME NEW x
          PROVE  [lapic EXCEPT !.on = x] =
                   [on |-> x, irr |-> lapic.irr, isr |-> lapic.isr, armed |-> lapic.armed,
                    init |-> lapic.init, cur |-> lapic.cur]
      BY <1>1 DEF IsLapic
    <3> QED BY <1>5, <3>1 DEF Svr, IsLapic
  <2> QED BY <1>1, <2>1, <2>2, <1>5, EarlyStep DEF Svr, others, Early
<1> QED BY <1>3, <1>4, <1>5

\* The IO APIC in use is the one the keyboard is wired to, and the override
\* of IRQ1 is its pin.
LEMMA BaseIsWire ==
  ASSUME IInv, apic.ioapic_base # 0
  PROVE  LET route == acpi_get_isa_override(apic.isa_overrides, 1)
         IN /\ apic.ioapic_base = setup.wire[1] /\ apic.ioapic_base \in IoapicAddresses
            /\ route.gsi \in Nat /\ route.gsi % 256 = setup.wire[2] /\ setup.wire[2] \in Pins
<1> DEFINE madt == MadtOf(setup.firmware)
<1>1. /\ madt # NULL /\ apic.info = acpi_parse_madt(madt)
      /\ apic.isa_overrides = acpi_parse_isa_overrides(madt)
      /\ apic.info.ioapic_found /\ apic.ioapic_base = apic.info.ioapic_addr
  BY DEF IInv, FromMadt
<1>2. setup \in Setups
  BY DEF IInv, Shapes
<1>3. /\ KeyboardLine(madt).gsi \in Nat
      /\ <<acpi_parse_madt(madt).ioapic_addr, KeyboardLine(madt).gsi % 256>> = setup.wire
  BY <1>1, <1>2, FirmwareAssumption
<1>4. KeyboardLine(madt) = acpi_get_isa_override(apic.isa_overrides, 1)
  BY <1>1 DEF KeyboardLine
<1>5. setup.wire[1] \in IoapicAddresses /\ setup.wire[2] \in Pins
  BY <1>2, Wired
<1> HIDE DEF madt
<1>6. /\ setup.wire[1] = acpi_parse_madt(madt).ioapic_addr
      /\ setup.wire[2] = KeyboardLine(madt).gsi % 256
  BY <1>3
<1> QED BY <1>1, <1>3, <1>4, <1>5, <1>6

\* The register of an entry: the even one is its low word, the odd one its
\* destination.
LEMMA EntryWritten ==
  ASSUME NEW regs \in [Pins -> Entries], NEW p \in Pins
  PROVE  /\ \A w \in Lows : ioapic_write(regs, IOAPIC_REDIR_BASE + 2 * p, w) =
              [regs EXCEPT ![p] = [low |-> w, dest |-> regs[p].dest]]
         /\ ioapic_write(regs, IOAPIC_REDIR_BASE + 2 * p + 1, 0) =
              [regs EXCEPT ![p] = [low |-> regs[p].low, dest |-> 0]]
<1>1. p \in Nat
  BY Constants DEF Pins
<1>2. /\ (16 + 2 * p - 16) \div 2 = p /\ (16 + 2 * p) % 2 = 0
      /\ (16 + 2 * p + 1 - 16) \div 2 = p /\ (16 + 2 * p + 1) % 2 = 1
  BY <1>1
<1> DEFINE even == IOAPIC_REDIR_BASE + 2 * p
           odd == IOAPIC_REDIR_BASE + 2 * p + 1
<1>3. /\ (even - IOAPIC_REDIR_BASE) \div 2 = p /\ even % 2 = 0
      /\ (odd - IOAPIC_REDIR_BASE) \div 2 = p /\ odd % 2 # 0
  BY <1>1, <1>2 DEF IOAPIC_REDIR_BASE
<1> HIDE DEF even, odd
<1>4. regs[p] \in Entries
  OBVIOUS
<1>5. ASSUME NEW w \in Lows
      PROVE  ioapic_write(regs, even, w) = [regs EXCEPT ![p] = [low |-> w, dest |-> regs[p].dest]]
  <2>1. ioapic_write(regs, even, w) = [regs EXCEPT ![p] = [regs[p] EXCEPT !.low = w]]
    BY <1>3 DEF ioapic_write
  <2>2. [regs[p] EXCEPT !.low = w] = [low |-> w, dest |-> regs[p].dest]
    BY <1>4 DEF Entries
  <2> QED BY <2>1, <2>2, Zenon
<1>6. ioapic_write(regs, odd, 0) = [regs EXCEPT ![p] = [low |-> regs[p].low, dest |-> 0]]
  <2>1. ioapic_write(regs, odd, 0) = [regs EXCEPT ![p] = [regs[p] EXCEPT !.dest = 0]]
    BY <1>3 DEF ioapic_write
  <2>2. [regs[p] EXCEPT !.dest = 0] = [low |-> regs[p].low, dest |-> 0]
    BY <1>4 DEF Entries
  <2> QED BY <2>1, <2>2, Zenon
<1> QED BY <1>5, <1>6 DEF even, odd

\* A write to either word of entry p of IO APIC a, and its effect.
SetLow(a, p, w) == redir' = [redir EXCEPT ![a] = ioapic_write(@, IOAPIC_REDIR_BASE + 2 * p, w)]
SetDest(a, p) == redir' = [redir EXCEPT ![a] = ioapic_write(@, IOAPIC_REDIR_BASE + 2 * p + 1, 0)]
Becomes(a, p, low, dest) ==
  /\ redir' \in [IoapicAddresses -> [Pins -> Entries]]
  /\ redir'[a][p].low = low /\ redir'[a][p].dest = dest
  /\ \A b \in IoapicAddresses, q \in Pins : b # a \/ q # p => redir'[b][q] = redir[b][q]

LEMMA LowWritten ==
  ASSUME redir \in [IoapicAddresses -> [Pins -> Entries]], NEW a \in IoapicAddresses,
         NEW p \in Pins, NEW w \in Lows, SetLow(a, p, w)
  PROVE  Becomes(a, p, w, redir[a][p].dest)
<1> DEFINE regs == redir[a]
           new == ioapic_write(regs, IOAPIC_REDIR_BASE + 2 * p, w)
<1>1. regs \in [Pins -> Entries]
  OBVIOUS
<1>2. redir' = [redir EXCEPT ![a] = new]
  BY DEF SetLow
<1> HIDE DEF regs
<1>3. new = [regs EXCEPT ![p] = [low |-> w, dest |-> regs[p].dest]]
  <2>1. \A x \in Lows : ioapic_write(regs, IOAPIC_REDIR_BASE + 2 * p, x) =
           [regs EXCEPT ![p] = [low |-> x, dest |-> regs[p].dest]]
    BY <1>1, EntryWritten
  <2> QED BY <2>1, Zenon
<1> HIDE DEF new
<1>4. [low |-> w, dest |-> regs[p].dest] \in Entries
  BY <1>1 DEF Entries
<1>5. /\ new \in [Pins -> Entries] /\ new[p] = [low |-> w, dest |-> regs[p].dest]
      /\ \A q \in Pins : q # p => new[q] = regs[q]
  BY <1>1, <1>3, <1>4
<1> QED BY <1>2, <1>4, <1>5 DEF regs, Becomes

LEMMA DestWritten ==
  ASSUME redir \in [IoapicAddresses -> [Pins -> Entries]], NEW a \in IoapicAddresses,
         NEW p \in Pins, SetDest(a, p)
  PROVE  Becomes(a, p, redir[a][p].low, 0)
<1> DEFINE regs == redir[a]
           new == ioapic_write(regs, IOAPIC_REDIR_BASE + 2 * p + 1, 0)
<1>1. regs \in [Pins -> Entries]
  OBVIOUS
<1>2. redir' = [redir EXCEPT ![a] = new]
  BY DEF SetDest
<1> HIDE DEF regs
<1>3. new = [regs EXCEPT ![p] = [low |-> regs[p].low, dest |-> 0]]
  BY <1>1, EntryWritten
<1> HIDE DEF new
<1>4. [low |-> regs[p].low, dest |-> 0] \in Entries
  BY <1>1 DEF Entries
<1>5. /\ new \in [Pins -> Entries] /\ new[p] = [low |-> regs[p].low, dest |-> 0]
      /\ \A q \in Pins : q # p => new[q] = regs[q]
  BY <1>1, <1>3, <1>4
<1> QED BY <1>2, <1>4, <1>5 DEF regs, Becomes

LEMMA MapIoapicKeeps ==
  ASSUME IInv, MapIoapic
  PROVE  IInv'
<1>1. thread.fn = "ioapic_init" /\ thread.at = 1 /\ IsThread(thread) /\ IsApic(apic)
  BY Places DEF MapIoapic, At, IInv, Shapes
<1>2. UNCHANGED <<cpu, redir, lapic, ctl, setup, faults, robbed>>
  BY DEF MapIoapic, hardware, others
<1>3. CASE thread' = Return(thread) /\ apic' = apic
  <2>1. IsThread(thread') /\ thread'.fn = "scheduler_init"
    BY <1>1, <1>3, Returns, Order
  <2> QED BY <1>1, <1>2, <1>3, <2>1, EarlyStep DEF IInv, Shapes, Early
<1>4. CASE /\ apic.info.ioapic_found /\ Step
           /\ apic' = [apic EXCEPT !.ioapic_base = apic.info.ioapic_addr]
  <2>1. apic' = [lapic_base |-> apic.lapic_base, ioapic_base |-> apic.info.ioapic_addr,
                 isa_overrides |-> apic.isa_overrides, info |-> apic.info]
    BY <1>1, <1>4 DEF IsApic
  <2>2. /\ IsApic(apic') /\ apic'.ioapic_base = apic.info.ioapic_addr
        /\ apic'.info = apic.info /\ apic'.isa_overrides = apic.isa_overrides
    BY <2>1 DEF IsApic
  <2>3. thread' = [thread EXCEPT !.at = 2]
    <3>1. Len(Script(thread.fn)) = 2
      BY <1>1, Lengths, Zenon
    <3> QED BY <1>1, <1>4, <3>1 DEF Step, Forward
  <2>4. IsThread(thread') /\ thread'.fn = "ioapic_init" /\ thread'.at = 2 /\ thread'.i = 0
    <3>1. thread' = [fn |-> thread.fn, at |-> 2, i |-> thread.i,
                     retry |-> thread.retry, base |-> thread.base, start |-> thread.start,
                     bus |-> thread.bus, cfg |-> thread.cfg]
      BY <1>1, <2>3 DEF IsThread
    <3>2. thread.i = 0
      BY <1>1 DEF IsThread
    <3> QED BY <1>1, <1>4, <3>1, <3>2, Stepped
  <2>5. ~cpu.if
    BY <1>1 DEF IInv, Masked, Early
  <2>6. FromMadt'
    BY <1>2, <1>4, <2>2, <2>4 DEF IInv, FromMadt
  <2>7. Masked'
    <3>1. \A p \in Pins : ~(2 * p < 0) /\ ~(2 * p + 1 < 0)
      BY Constants DEF Pins
    <3> QED BY <1>2, <2>4, <2>5, <3>1 DEF Masked, Early
  <2>8. \A a \in IoapicAddresses, p \in Pins : redir[a][p].low.vector # IRQ_KEYBOARD
    BY <1>1, NoVectorYet
  <2> QED BY <1>1, <1>2, <2>2, <2>4, <2>6, <2>7, <2>8, QuietStep DEF IInv, Shapes
<1> QED BY <1>3, <1>4 DEF MapIoapic

\* The loop of ioapic_init masks one entry after the other.
LEMMA MaskKeeps ==
  ASSUME IInv, Mask
  PROVE  IInv'
<1>1. thread.fn = "ioapic_init" /\ thread.at = 2 /\ IsThread(thread)
  BY Places DEF Mask, At, IInv, Shapes
<1>2. UNCHANGED <<cpu, apic, lapic, ctl, setup, faults, robbed>>
  BY DEF Mask, others
<1>3. redir \in [IoapicAddresses -> [Pins -> Entries]]
  BY DEF IInv, Shapes
<1>4. \A a \in IoapicAddresses, p \in Pins : redir[a][p].low.vector # IRQ_KEYBOARD
  BY <1>1, NoVectorYet
<1>5. PINS \in Nat /\ MaxRedir = PINS
  BY Constants DEF MaxRedir
<1>6. ~cpu.if
  BY <1>1 DEF IInv, Masked, Early
<1>7. CASE thread.i < 2 * MaxRedir
  <2>1. thread' = [thread EXCEPT !.i = @ + 1]
    BY <1>7 DEF Mask
  <2>2. thread.i \in Nat /\ thread.i + 1 \in 0 .. 2 * PINS
    BY <1>1, <1>5, <1>7 DEF IsThread
  <2>3. /\ IsThread(thread') /\ thread'.fn = "ioapic_init" /\ thread'.at = 2
        /\ thread'.i = thread.i + 1
    <3>1. thread' = [fn |-> thread.fn, at |-> thread.at, i |-> thread.i + 1,
                     retry |-> thread.retry, base |-> thread.base, start |-> thread.start,
                     bus |-> thread.bus, cfg |-> thread.cfg]
      BY <1>1, <2>1 DEF IsThread
    <3> QED BY <1>1, <2>2, <3>1 DEF IsThread
  <2>4. FromMadt'
    BY <1>1, <1>2, <2>3 DEF IInv, FromMadt
  <2>5. CASE apic.ioapic_base = 0
    <3>1. redir' = redir
      BY <1>7, <2>5 DEF Mask, IoapicWrite
    <3>2. Masked'
      BY <1>2, <1>6, <2>5 DEF Masked
    <3> QED BY <1>1, <1>2, <1>3, <1>4, <2>3, <2>4, <3>1, <3>2, QuietStep DEF IInv, Shapes
  <2>6. CASE apic.ioapic_base # 0
    <3> DEFINE a == apic.ioapic_base
               w == IF thread.i % 2 = 0 THEN MaskWord ELSE 0
    <3>1. a \in IoapicAddresses
      BY <2>6, BaseIsWire
    <3>2. redir' = [redir EXCEPT ![a] = ioapic_write(@, IOAPIC_REDIR_BASE + thread.i, w)]
      BY <1>7, <2>6 DEF Mask, IoapicWrite
    <3>3. \A q \in Pins : /\ 2 * q < thread.i => redir[a][q].low.masked
                          /\ 2 * q + 1 < thread.i => redir[a][q].dest = 0
      BY <1>1, <2>6 DEF IInv, Masked
    <3>4. PICK p \in Pins : \/ thread.i = 2 * p /\ thread.i % 2 = 0
                            \/ thread.i = 2 * p + 1 /\ thread.i % 2 # 0
      <4>1. thread.i \div 2 \in Pins
        BY <1>5, <1>7, <2>2 DEF Pins
      <4>2. \/ thread.i = 2 * (thread.i \div 2) /\ thread.i % 2 = 0
            \/ thread.i = 2 * (thread.i \div 2) + 1 /\ thread.i % 2 # 0
        BY <2>2
      <4> QED BY <4>1, <4>2
    <3>5. p \in Nat /\ \A q \in Pins : q \in Nat
      BY <1>5 DEF Pins
    <3>6. MaskWord \in Lows /\ MaskWord.masked /\ MaskWord.vector # IRQ_KEYBOARD
      BY Constants DEF MaskWord, Low, Lows
    <3> HIDE DEF a
    <3>7. /\ redir' \in [IoapicAddresses -> [Pins -> Entries]]
          /\ \A b \in IoapicAddresses, q \in Pins : redir'[b][q].low.vector # IRQ_KEYBOARD
          /\ \A q \in Pins : /\ 2 * q < thread.i + 1 => redir'[a][q].low.masked
                             /\ 2 * q + 1 < thread.i + 1 => redir'[a][q].dest = 0
      <4>1. CASE thread.i = 2 * p /\ thread.i % 2 = 0
        <5>1. SetLow(a, p, MaskWord)
          BY <3>2, <4>1 DEF SetLow
        <5>2. /\ redir' \in [IoapicAddresses -> [Pins -> Entries]]
              /\ redir'[a][p].low = MaskWord /\ redir'[a][p].dest = redir[a][p].dest
              /\ \A b \in IoapicAddresses, q \in Pins :
                   b # a \/ q # p => redir'[b][q] = redir[b][q]
          <6>1. Becomes(a, p, MaskWord, redir[a][p].dest)
            BY <1>3, <3>1, <3>6, <5>1, LowWritten, Zenon
          <6> QED BY <6>1 DEF Becomes
        <5>3. \A b \in IoapicAddresses, q \in Pins : redir'[b][q].low.vector # IRQ_KEYBOARD
          BY <1>4, <3>6, <5>2
        <5>4. ASSUME NEW q \in Pins
              PROVE  /\ 2 * q < thread.i + 1 => redir'[a][q].low.masked
                     /\ 2 * q + 1 < thread.i + 1 => redir'[a][q].dest = 0
          <6>1. CASE q = p
            BY <3>5, <3>6, <4>1, <5>2, <6>1
          <6>2. CASE q # p
            <7>1. redir'[a][q] = redir[a][q]
              BY <3>1, <5>2, <6>2
            <7>2. /\ 2 * q < thread.i + 1 => 2 * q < thread.i
                  /\ 2 * q + 1 < thread.i + 1 => 2 * q + 1 < thread.i
              BY <3>5, <4>1, <6>2
            <7> QED BY <3>3, <7>1, <7>2
          <6> QED BY <6>1, <6>2
        <5> QED BY <5>2, <5>3, <5>4
      <4>2. CASE thread.i = 2 * p + 1 /\ thread.i % 2 # 0
        <5>1. SetDest(a, p)
          <6>1. IOAPIC_REDIR_BASE + thread.i = IOAPIC_REDIR_BASE + 2 * p + 1
            BY <3>5, <4>2 DEF IOAPIC_REDIR_BASE
          <6> QED BY <3>2, <4>2, <6>1 DEF SetDest
        <5>2. /\ redir' \in [IoapicAddresses -> [Pins -> Entries]]
              /\ redir'[a][p].low = redir[a][p].low /\ redir'[a][p].dest = 0
              /\ \A b \in IoapicAddresses, q \in Pins :
                   b # a \/ q # p => redir'[b][q] = redir[b][q]
          <6>1. Becomes(a, p, redir[a][p].low, 0)
            BY <1>3, <3>1, <5>1, DestWritten, Zenon
          <6> QED BY <6>1 DEF Becomes
        <5>3. \A b \in IoapicAddresses, q \in Pins : redir'[b][q].low.vector # IRQ_KEYBOARD
          BY <1>4, <5>2
        <5>4. ASSUME NEW q \in Pins
              PROVE  /\ 2 * q < thread.i + 1 => redir'[a][q].low.masked
                     /\ 2 * q + 1 < thread.i + 1 => redir'[a][q].dest = 0
          <6>1. CASE q = p
            <7>1. 2 * p < thread.i
              BY <3>5, <4>2
            <7> QED BY <3>3, <5>2, <6>1, <7>1
          <6>2. CASE q # p
            <7>1. redir'[a][q] = redir[a][q]
              BY <3>1, <5>2, <6>2
            <7>2. /\ 2 * q < thread.i + 1 => 2 * q < thread.i
                  /\ 2 * q + 1 < thread.i + 1 => 2 * q + 1 < thread.i
              BY <3>5, <4>2, <6>2
            <7> QED BY <3>3, <7>1, <7>2
          <6> QED BY <6>1, <6>2
        <5> QED BY <5>2, <5>3, <5>4
      <4> QED BY <3>4, <4>1, <4>2
    <3>8. Masked'
      <4>1. apic'.ioapic_base = a /\ thread'.fn = "ioapic_init" /\ ~cpu'.if
        BY <1>2, <1>6, <2>3 DEF a
      <4> QED BY <2>3, <3>7, <4>1 DEF Masked, Early
    <3> QED BY <1>1, <1>2, <2>3, <2>4, <3>7, <3>8, QuietStep DEF IInv, Shapes
  <2> QED BY <2>5, <2>6
<1>8. CASE ~(thread.i < 2 * MaxRedir)
  <2>1. Step /\ redir' = redir
    BY <1>8 DEF Mask
  <2>2. thread' = Return(thread)
    <3>1. Len(Script(thread.fn)) = 2
      BY <1>1, Lengths, Zenon
    <3>2. thread.at = 2
      BY <1>1
    <3> QED BY <2>1, <3>1, <3>2 DEF Step, Forward
  <2>3. IsThread(thread') /\ thread'.fn = "scheduler_init"
    BY <1>1, <2>2, Returns, Order
  <2>4. thread.i = 2 * PINS
    BY <1>1, <1>5, <1>8 DEF IsThread
  <2>5. FromMadt'
    BY <1>2, <2>3 DEF IInv, FromMadt
  <2>6. Masked'
    <3>1. apic.ioapic_base # 0 =>
            \A p \in Pins : redir[apic.ioapic_base][p].low.masked /\ redir[apic.ioapic_base][p].dest = 0
      <4>1. \A p \in Pins : 2 * p < thread.i /\ 2 * p + 1 < thread.i
        BY <1>5, <2>4 DEF Pins
      <4> QED BY <1>1, <4>1 DEF IInv, Masked
    <3> QED BY <1>2, <1>6, <2>1, <2>3, <3>1 DEF Masked, Early
  <2> QED BY <1>1, <1>2, <1>3, <1>4, <2>1, <2>3, <2>5, <2>6, QuietStep DEF IInv, Shapes
<1> QED BY <1>7, <1>8

LEMMA StiKeeps ==
  ASSUME IInv, Sti
  PROVE  IInv'
<1>1. thread.fn = "scheduler_init" /\ IsThread(thread) /\ IsCpu(cpu)
  BY Places DEF Sti, At, IInv, Shapes
<1>2. UNCHANGED <<apic, redir, lapic, ctl, setup, faults, robbed>>
  BY DEF Sti, hardware, others
<1>3. thread' = Return(thread)
  <2>1. Len(Script(thread.fn)) = 1 /\ thread.at \in 1 .. Len(Script(thread.fn))
    <3>1. Len(Script(thread.fn)) = 1
      BY <1>1, Lengths, Zenon
    <3> QED BY <1>1, <3>1 DEF IsThread
  <2> QED BY <2>1 DEF Sti, Step, Forward
<1>4. IsThread(thread') /\ thread'.fn = "timer handler"
  BY <1>1, <1>3, Returns, Order
<1>5. IsCpu(cpu') /\ cpu'.mode = cpu.mode
  <2>1. cpu' = [if |-> TRUE, mode |-> cpu.mode, handlers |-> cpu.handlers, msr |-> cpu.msr]
    BY <1>1 DEF Sti, IsCpu
  <2> QED BY <2>1 DEF IsCpu
<1>6. FromMadt'
  BY <1>2, <1>4 DEF IInv, FromMadt
<1>7. Masked'
  BY <1>1, <1>2, <1>4 DEF IInv, Masked, Early
<1>8. \A a \in IoapicAddresses, p \in Pins : redir[a][p].low.vector # IRQ_KEYBOARD
  BY <1>1, NoVectorYet
<1> QED BY <1>1, <1>2, <1>4, <1>5, <1>6, <1>7, <1>8, QuietStep DEF IInv, Shapes

LEMMA RegisterKeeps ==
  ASSUME IInv, irq_register_handler
  PROVE  IInv'
<1>1. /\ thread.fn \in {"timer handler", "keyboard handler"} /\ IsThread(thread) /\ IsCpu(cpu)
      /\ thread.fn # "done"
  BY Places DEF irq_register_handler, At, IInv, Shapes
<1>2. /\ IsThread(thread')
      /\ \/ thread'.fn = thread.fn
         \/ thread'.fn = init_kernel(thread.fn) /\ thread'.at = 1
  <2>1. Step
    BY DEF irq_register_handler
  <2> QED BY <1>1, <2>1, Stepped, Zenon
<1>3. IsCpu(cpu') /\ cpu'.mode = cpu.mode
  <2>1. ASSUME NEW x
        PROVE  [cpu EXCEPT !.handlers = x] = [if |-> cpu.if, mode |-> cpu.mode,
                                              handlers |-> x, msr |-> cpu.msr]
    <3>1. IsCpu(cpu)
      BY <1>1
    <3> QED BY <3>1 DEF IsCpu
  <2> QED BY <2>1 DEF irq_register_handler, IsCpu
<1>4. UNCHANGED <<setup, ctl, faults, robbed, redir, apic, lapic>>
  BY DEF irq_register_handler, hardware, others
<1> QED BY <1>1, <1>2, <1>3, <1>4, TimerStep DEF IInv, Shapes

\* apic_timer_init leaves the IO APIC and what is pending alone.
LEMMA TimerKeeps ==
  ASSUME IInv, StartTimer
  PROVE  IInv'
<1>1. /\ thread.fn = "apic_timer_init" /\ IsThread(thread) /\ IsLapic(lapic)
  BY Places DEF StartTimer, CountDown, pit_channel0_setup, PitStart, PitWait, CountStop,
                BusFrequency, Arm, At, IInv, Shapes
<1>2. 1 \in Nat \ {0}
  OBVIOUS
<1> DEFINE Ok(t) == IsThread(t) /\ (t.fn = thread.fn \/ (t.fn = init_kernel(thread.fn) /\ t.at = 1))
<1>3. Ok(Forward(thread, 1)) /\ Ok(Return(thread))
  BY <1>1, <1>2, Forwards, Returns
<1>4. \A x : Ok([Forward(thread, 1) EXCEPT !.start = x]) /\ Ok([Forward(thread, 1) EXCEPT !.bus = x])
  <2> DEFINE t == Forward(thread, 1)
  <2> HIDE DEF t
  <2>1. Ok(t)
    BY <1>3 DEF t
  <2>2. ASSUME NEW x
        PROVE  Ok([t EXCEPT !.start = x]) /\ Ok([t EXCEPT !.bus = x])
    <3>1. IsThread(t)
      BY <2>1
    <3>2. /\ IsThread([t EXCEPT !.start = x]) /\ [t EXCEPT !.start = x].fn = t.fn
          /\ [t EXCEPT !.start = x].at = t.at
          /\ IsThread([t EXCEPT !.bus = x]) /\ [t EXCEPT !.bus = x].fn = t.fn
          /\ [t EXCEPT !.bus = x].at = t.at
      BY <3>1, Locals, Zenon
    <3> QED BY <2>1, <3>2, Zenon
  <2> QED BY <2>2 DEF t
<1>5. Ok(thread')
  <2>1. CASE BusFrequency
    <3>1. thread' = Return(thread) \/ \E x : thread' = [Forward(thread, 1) EXCEPT !.bus = x]
      BY <2>1 DEF BusFrequency
    <3> HIDE DEF Ok
    <3> QED BY <1>3, <1>4, <3>1
  <2>2. CASE PitStart
    <3> HIDE DEF Ok
    <3> QED BY <1>4, <2>2 DEF PitStart
  <2>3. CASE CountDown \/ pit_channel0_setup \/ PitWait \/ CountStop \/ Arm
    <3> HIDE DEF Ok
    <3> QED BY <1>3, <2>3 DEF CountDown, pit_channel0_setup, PitWait, CountStop, Arm, Step
  <2> QED BY <2>1, <2>2, <2>3 DEF StartTimer
<1>6. IsLapic(lapic') /\ lapic'.irr = lapic.irr
  <2>0. IsLapic(lapic)
    BY <1>1
  <2>1. ASSUME NEW x, NEW y
        PROVE  /\ IsLapic([lapic EXCEPT !.cur = x]) /\ [lapic EXCEPT !.cur = x].irr = lapic.irr
               /\ IsLapic([lapic EXCEPT !.armed = x, !.cur = y])
               /\ [lapic EXCEPT !.armed = x, !.cur = y].irr = lapic.irr
               /\ IsLapic([lapic EXCEPT !.armed = x, !.init = y])
               /\ [lapic EXCEPT !.armed = x, !.init = y].irr = lapic.irr
    <3>1. [lapic EXCEPT !.cur = x] =
            [on |-> lapic.on, irr |-> lapic.irr, isr |-> lapic.isr,
             armed |-> lapic.armed, init |-> lapic.init, cur |-> x]
      BY <2>0 DEF IsLapic
    <3>2. [lapic EXCEPT !.armed = x, !.cur = y] =
            [on |-> lapic.on, irr |-> lapic.irr, isr |-> lapic.isr,
             armed |-> x, init |-> lapic.init, cur |-> y]
      <4> DEFINE u == [lapic EXCEPT !.armed = x]
      <4>1. u = [on |-> lapic.on, irr |-> lapic.irr, isr |-> lapic.isr,
                 armed |-> x, init |-> lapic.init, cur |-> lapic.cur]
        BY <2>0 DEF IsLapic
      <4>2. [lapic EXCEPT !.armed = x, !.cur = y] = [u EXCEPT !.cur = y]
        OBVIOUS
      <4> HIDE DEF u
      <4> QED BY <4>1, <4>2
    <3>3. [lapic EXCEPT !.armed = x, !.init = y] =
            [on |-> lapic.on, irr |-> lapic.irr, isr |-> lapic.isr,
             armed |-> x, init |-> y, cur |-> lapic.cur]
      <4> DEFINE u == [lapic EXCEPT !.armed = x]
      <4>1. u = [on |-> lapic.on, irr |-> lapic.irr, isr |-> lapic.isr,
                 armed |-> x, init |-> lapic.init, cur |-> lapic.cur]
        BY <2>0 DEF IsLapic
      <4>2. [lapic EXCEPT !.armed = x, !.init = y] = [u EXCEPT !.init = y]
        OBVIOUS
      <4> HIDE DEF u
      <4> QED BY <4>1, <4>2
    <3>4. IsLapic([lapic EXCEPT !.cur = x]) /\ [lapic EXCEPT !.cur = x].irr = lapic.irr
      BY <3>1 DEF IsLapic
    <3>5. /\ IsLapic([lapic EXCEPT !.armed = x, !.cur = y])
          /\ [lapic EXCEPT !.armed = x, !.cur = y].irr = lapic.irr
      BY <3>2 DEF IsLapic
    <3>6. /\ IsLapic([lapic EXCEPT !.armed = x, !.init = y])
          /\ [lapic EXCEPT !.armed = x, !.init = y].irr = lapic.irr
      BY <3>3 DEF IsLapic
    <3> QED BY <3>4, <3>5, <3>6
  <2>2. \/ lapic' = lapic
        \/ \E x : lapic' = [lapic EXCEPT !.cur = x]
        \/ \E x, y : lapic' = [lapic EXCEPT !.armed = x, !.cur = y]
        \/ \E x, y : lapic' = [lapic EXCEPT !.armed = x, !.init = y]
    BY DEF StartTimer, CountDown, pit_channel0_setup, PitStart, PitWait, CountStop,
           BusFrequency, Arm, LapicWrite, hardware
  <2>3. CASE lapic' = lapic
    BY <2>0, <2>3
  <2>4. ASSUME NEW x, lapic' = [lapic EXCEPT !.cur = x]
        PROVE  IsLapic(lapic') /\ lapic'.irr = lapic.irr
    BY <2>1, <2>4
  <2>5. ASSUME NEW x, NEW y, lapic' = [lapic EXCEPT !.armed = x, !.cur = y]
        PROVE  IsLapic(lapic') /\ lapic'.irr = lapic.irr
    BY <2>1, <2>5, Zenon
  <2>6. ASSUME NEW x, NEW y, lapic' = [lapic EXCEPT !.armed = x, !.init = y]
        PROVE  IsLapic(lapic') /\ lapic'.irr = lapic.irr
    BY <2>1, <2>6, Zenon
  <2> QED BY <2>2, <2>3, <2>4, <2>5, <2>6
<1>7. UNCHANGED <<setup, ctl, faults, robbed, redir, apic, cpu>>
  BY DEF StartTimer, CountDown, pit_channel0_setup, PitStart, PitWait, CountStop,
         BusFrequency, Arm, hardware, others
<1>8. IsCpu(cpu') /\ cpu'.mode = cpu.mode
  BY <1>7 DEF IInv, Shapes
<1> QED BY <1>1, <1>5, <1>6, <1>7, <1>8, TimerStep

-----------------------------------------------------------------------------
(* The dialogue with the 8042 and the keyboard *)

\* The thread after n more places of keyboard_init, or after its return.
LEMMA InitForward ==
  ASSUME IsThread(thread), thread.fn = "keyboard_init", NEW n \in Nat \ {0}
  PROVE  LET t == Forward(thread, n)
         IN /\ IsThread(t) /\ t.cfg = thread.cfg
            /\ thread.at + n <= 34 => t.fn = "keyboard_init" /\ t.at = thread.at + n
            /\ thread.at + n > 34 => t.fn = "keyboard_reenable_irq" /\ t.at = 1
            /\ thread.at \in 1 .. 34
<1>1. Len(Script(thread.fn)) = 34
  BY Lengths, Zenon
<1>2. init_kernel(thread.fn) = "keyboard_reenable_irq"
  BY Order
<1>3. thread.fn # "done" /\ thread.at \in 1 .. 34
  BY <1>1 DEF IsThread
<1> DEFINE t == Forward(thread, n)
<1>4. /\ IsThread(t) /\ t.cfg = thread.cfg
      /\ IF thread.at + n <= Len(Script(thread.fn))
         THEN t.fn = thread.fn /\ t.at = thread.at + n
         ELSE t.fn = init_kernel(thread.fn) /\ t.at = 1
  BY <1>3, Forwards, Zenon
<1> HIDE DEF t
<1>5. /\ IsThread(t) /\ t.cfg = thread.cfg
      /\ IF thread.at + n <= 34
         THEN t.fn = "keyboard_init" /\ t.at = thread.at + n
         ELSE t.fn = "keyboard_reenable_irq" /\ t.at = 1
  BY <1>1, <1>2, <1>4, Zenon
<1>6. /\ thread.at + n <= 34 => t.fn = "keyboard_init" /\ t.at = thread.at + n
      /\ thread.at + n > 34 => t.fn = "keyboard_reenable_irq" /\ t.at = 1
  BY <1>3, <1>5
<1> QED BY <1>3, <1>5, <1>6 DEF t

\* keyboard_init gives up.
LEMMA InitReturn ==
  ASSUME IsThread(thread), thread.fn = "keyboard_init"
  PROVE  LET t == Return(thread)
         IN IsThread(t) /\ t.fn = "keyboard_reenable_irq" /\ t.at = 1
  BY Returns, Order

\* The same for keyboard_reenable_irq.
LEMMA AgainForward ==
  ASSUME IsThread(thread), thread.fn = "keyboard_reenable_irq"
  PROVE  LET t == Forward(thread, 1)
         IN /\ IsThread(t) /\ t.cfg = thread.cfg /\ thread.at \in 1 .. 7
            /\ thread.at < 7 => t.fn = "keyboard_reenable_irq" /\ t.at = thread.at + 1
            /\ thread.at = 7 => t.fn = "done"
<1>1. Len(Script(thread.fn)) = 7
  BY Lengths, Zenon
<1>2. init_kernel(thread.fn) = "done"
  BY Order
<1>3. thread.fn # "done" /\ thread.at \in 1 .. 7 /\ 1 \in Nat \ {0}
  <2>1. thread.at \in 1 .. Len(Script(thread.fn))
    BY DEF IsThread
  <2>2. thread.at \in 1 .. 7
    BY <1>1, <2>1, Zenon
  <2> QED BY <2>2
<1> DEFINE t == Forward(thread, 1)
<1>4. /\ IsThread(t) /\ t.cfg = thread.cfg
      /\ IF thread.at + 1 <= Len(Script(thread.fn))
         THEN t.fn = thread.fn /\ t.at = thread.at + 1
         ELSE t.fn = init_kernel(thread.fn) /\ t.at = 1
  BY <1>3, Forwards, Zenon
<1> HIDE DEF t
<1>5. /\ IsThread(t) /\ t.cfg = thread.cfg
      /\ IF thread.at + 1 <= 7
         THEN t.fn = "keyboard_reenable_irq" /\ t.at = thread.at + 1
         ELSE t.fn = "done" /\ t.at = 1
  BY <1>1, <1>2, <1>4, Zenon
<1>6. /\ thread.at < 7 => t.fn = "keyboard_reenable_irq" /\ t.at = thread.at + 1
      /\ thread.at = 7 => t.fn = "done"
  BY <1>3, <1>5
<1> QED BY <1>3, <1>5, <1>6 DEF t

\* The 8042 after a byte is taken, and after a data byte.
LEMMA CtlRecords ==
  ASSUME IsCtl(ctl)
  PROVE  /\ Taken = [cfg |-> ctl.cfg, full |-> FALSE, out |-> ctl.out, ans |-> ctl.ans,
                     next |-> ctl.next]
         /\ \A bits : [ctl EXCEPT !.cfg = bits, !.next = "kbd"] =
              [cfg |-> bits, full |-> ctl.full, out |-> ctl.out, ans |-> ctl.ans, next |-> "kbd"]
<1>1. Taken = [cfg |-> ctl.cfg, full |-> FALSE, out |-> ctl.out, ans |-> ctl.ans,
               next |-> ctl.next]
  <2>1. ASSUME NEW x
        PROVE  [ctl EXCEPT !.full = x] =
                 [cfg |-> ctl.cfg, full |-> x, out |-> ctl.out, ans |-> ctl.ans,
                  next |-> ctl.next]
    BY DEF IsCtl
  <2> QED BY <2>1, Zenon DEF Taken
<1>2. ASSUME NEW bits
      PROVE  [ctl EXCEPT !.cfg = bits, !.next = "kbd"] =
              [cfg |-> bits, full |-> ctl.full, out |-> ctl.out, ans |-> ctl.ans, next |-> "kbd"]
  <2> DEFINE u == [ctl EXCEPT !.cfg = bits]
  <2>1. u = [cfg |-> bits, full |-> ctl.full, out |-> ctl.out, ans |-> ctl.ans,
             next |-> ctl.next]
    BY DEF IsCtl
  <2>2. [ctl EXCEPT !.cfg = bits, !.next = "kbd"] = [u EXCEPT !.next = "kbd"]
    OBVIOUS
  <2> HIDE DEF u
  <2> QED BY <2>1, <2>2
<1> QED BY <1>1, <1>2

LEMMA TakenParts ==
  ASSUME IsCtl(ctl)
  PROVE  IsCtl(Taken) /\ Taken.cfg = ctl.cfg /\ Taken.next = ctl.next /\ Taken.ans = ctl.ans
         /\ Taken.full = FALSE
<1>1. Taken = [cfg |-> ctl.cfg, full |-> FALSE, out |-> ctl.out, ans |-> ctl.ans,
               next |-> ctl.next]
  BY CtlRecords
<1> QED BY <1>1 DEF IsCtl

\* The 8042 after a command.
LEMMA CommandParts ==
  ASSUME IsCtl(ctl)
  PROVE  LET C(cfg, ans, next) == [cfg |-> cfg, full |-> ctl.full, out |-> ctl.out,
                                   ans |-> ans, next |-> next]
         IN /\ Commanded("DISABLE_PORT1") = C(ctl.cfg \cup {PS2_CFG_CLK1}, ctl.ans, "kbd")
            /\ Commanded("DISABLE_PORT2") = C(ctl.cfg \cup {PS2_CFG_CLK2}, ctl.ans, "kbd")
            /\ Commanded("ENABLE_PORT1") = C(ctl.cfg \ {PS2_CFG_CLK1}, ctl.ans, "kbd")
            /\ Commanded("READ_CFG") =
                 C(ctl.cfg, Append(ctl.ans, Byte(ctl.cfg, "answer")), "kbd")
            /\ Commanded("WRITE_CFG") = C(ctl.cfg, ctl.ans, "cfg")
            /\ Commanded("TEST_PORT1") =
                 C(ctl.cfg, Append(ctl.ans, Byte(PORT_OK, "answer")), "kbd")
            /\ Commanded("TEST_CTRL") =
                 C(IF setup.resets THEN PowerOn ELSE ctl.cfg,
                   Append(ctl.ans, Byte(CTRL_OK, "answer")), "kbd")
<1> DEFINE C(cfg, ans, next) == [cfg |-> cfg, full |-> ctl.full, out |-> ctl.out,
                                 ans |-> ans, next |-> next]
           c == [ctl EXCEPT !.next = "kbd"]
<1>1. c = C(ctl.cfg, ctl.ans, "kbd")
  BY DEF IsCtl
<1>2. /\ Commanded("DISABLE_PORT1") = [c EXCEPT !.cfg = @ \cup {PS2_CFG_CLK1}]
      /\ Commanded("DISABLE_PORT2") = [c EXCEPT !.cfg = @ \cup {PS2_CFG_CLK2}]
      /\ Commanded("ENABLE_PORT1") = [c EXCEPT !.cfg = @ \ {PS2_CFG_CLK1}]
      /\ Commanded("READ_CFG") = Answer(c, c.cfg)
      /\ Commanded("WRITE_CFG") = [c EXCEPT !.next = "cfg"]
      /\ Commanded("TEST_PORT1") = Answer(c, PORT_OK)
      /\ Commanded("TEST_CTRL") =
           Answer([c EXCEPT !.cfg = IF setup.resets THEN PowerOn ELSE @], CTRL_OK)
  BY DEF Commanded
<1> HIDE DEF c
<1>3. /\ c.cfg = ctl.cfg /\ c.ans = ctl.ans
  BY <1>1
<1>4. ASSUME NEW x
      PROVE  /\ [c EXCEPT !.cfg = x] = C(x, ctl.ans, "kbd")
             /\ [c EXCEPT !.next = x] = C(ctl.cfg, ctl.ans, x)
             /\ [c EXCEPT !.ans = x] = C(ctl.cfg, x, "kbd")
  BY <1>1
<1>5. ASSUME NEW x, NEW y
      PROVE  [C(x, ctl.ans, "kbd") EXCEPT !.ans = y] = C(x, y, "kbd")
  OBVIOUS
<1>6. /\ Answer(c, c.cfg) = C(ctl.cfg, Append(ctl.ans, Byte(ctl.cfg, "answer")), "kbd")
      /\ Answer(c, PORT_OK) = C(ctl.cfg, Append(ctl.ans, Byte(PORT_OK, "answer")), "kbd")
  <2>1. \A x : Answer(c, x) = [c EXCEPT !.ans = Append(c.ans, Byte(x, "answer"))]
    BY DEF Answer
  <2> HIDE DEF C
  <2> QED BY <1>3, <1>4, <2>1, Zenon
<1>7. Answer([c EXCEPT !.cfg = IF setup.resets THEN PowerOn ELSE @], CTRL_OK) =
        C(IF setup.resets THEN PowerOn ELSE ctl.cfg,
          Append(ctl.ans, Byte(CTRL_OK, "answer")), "kbd")
  <2> DEFINE x == IF setup.resets THEN PowerOn ELSE ctl.cfg
             d == [c EXCEPT !.cfg = IF setup.resets THEN PowerOn ELSE @]
  <2>1. d = [c EXCEPT !.cfg = x]
    BY <1>3
  <2> HIDE DEF x, d
  <2>2. d = C(x, ctl.ans, "kbd")
    BY <1>4, <2>1, Zenon
  <2>3. d.ans = ctl.ans
    BY <2>2
  <2>4. Answer(d, CTRL_OK) = [d EXCEPT !.ans = Append(ctl.ans, Byte(CTRL_OK, "answer"))]
    BY <2>3 DEF Answer
  <2>5. Answer(d, CTRL_OK) = C(x, Append(ctl.ans, Byte(CTRL_OK, "answer")), "kbd")
    BY <1>5, <2>2, <2>4, Zenon
  <2> QED BY <2>5 DEF x, d
<1>8. /\ Commanded("DISABLE_PORT1") = C(ctl.cfg \cup {PS2_CFG_CLK1}, ctl.ans, "kbd")
      /\ Commanded("DISABLE_PORT2") = C(ctl.cfg \cup {PS2_CFG_CLK2}, ctl.ans, "kbd")
      /\ Commanded("ENABLE_PORT1") = C(ctl.cfg \ {PS2_CFG_CLK1}, ctl.ans, "kbd")
      /\ Commanded("WRITE_CFG") = C(ctl.cfg, ctl.ans, "cfg")
  <2> HIDE DEF C
  <2> QED BY <1>2, <1>3, <1>4, Zenon
<1>9. /\ Commanded("READ_CFG") = C(ctl.cfg, Append(ctl.ans, Byte(ctl.cfg, "answer")), "kbd")
      /\ Commanded("TEST_PORT1") = C(ctl.cfg, Append(ctl.ans, Byte(PORT_OK, "answer")), "kbd")
      /\ Commanded("TEST_CTRL") = C(IF setup.resets THEN PowerOn ELSE ctl.cfg,
                                    Append(ctl.ans, Byte(CTRL_OK, "answer")), "kbd")
  BY <1>2, <1>6, <1>7, Zenon
<1> QED BY <1>8, <1>9, Zenon

\* What a step that changes the 8042, or leaves it, does to IRQ1.
Quiet == IsLapic(lapic') /\ (IRQ_KEYBOARD \in lapic'.irr => Routed) /\ IsCtl(ctl')

LEMMA CtlMoves ==
  ASSUME IInv, NEW c, IsCtl(c), Ctl(c)
  PROVE  Quiet /\ ctl' = c
<1>1. Shapes /\ NoEarlyIrq
  BY DEF IInv
<1>2. /\ ctl' = c /\ IsLapic(lapic') /\ lapic'.isr = lapic.isr
      /\ IRQ_KEYBOARD \in lapic'.irr => Routed
  BY <1>1, CtlEffect, Zenon
<1> QED BY <1>2 DEF Quiet

LEMMA CtlStays ==
  ASSUME IInv, ctl' = ctl, lapic' = lapic
  PROVE  Quiet
  BY DEF IInv, Shapes, NoEarlyIrq, Quiet

\* A step of keyboard_init that leaves the IO APIC alone.
LEMMA InitTalk ==
  ASSUME IInv, thread.fn = "keyboard_init", IsThread(thread'),
         \/ thread'.fn = "keyboard_init" /\ (thread.at > 30 => thread'.at > 30)
         \/ thread'.fn = "keyboard_reenable_irq" /\ thread'.at = 1,
         UNCHANGED untouched, faults' \in Nat, Quiet, faults' = 0 => Dialogue'
  PROVE  IInv'
<1>1. Routed => Routed'
  BY DEF Routed
<1>2. UNCHANGED <<cpu, apic, redir, setup, robbed>>
  BY DEF untouched
<1> QED BY <1>1, <1>2, TalkStep DEF Quiet

\* A step of keyboard_reenable_irq that leaves it alone.
LEMMA AgainTalk ==
  ASSUME IInv, thread.fn = "keyboard_reenable_irq", thread.at > 1, IsThread(thread'),
         (thread'.fn = "keyboard_reenable_irq" /\ thread'.at > 1) \/ thread'.fn = "done",
         UNCHANGED untouched, faults' \in Nat, Quiet,
         (thread'.fn = "keyboard_reenable_irq" /\ thread'.at = 6) => ctl'.next = "cfg",
         (thread'.fn = "done" \/ (thread'.fn = "keyboard_reenable_irq" /\ thread'.at = 7)) =>
           {PS2_CFG_IRQ1, PS2_CFG_TRANSLATE} \subseteq ctl'.cfg
  PROVE  IInv'
<1>1. Routed => Routed'
  BY DEF Routed
<1>2. UNCHANGED <<cpu, apic, redir, setup, robbed>>
  BY DEF untouched
<1>3. Dialogue'
  BY DEF Dialogue
<1> QED BY <1>1, <1>2, <1>3, TalkStep DEF Quiet

LEMMA Bits ==
  /\ PS2_CFG_SYSFLAG \notin {PS2_CFG_IRQ1, PS2_CFG_IRQ12, PS2_CFG_CLK1, PS2_CFG_CLK2,
                             PS2_CFG_TRANSLATE}
  /\ PS2_CFG_CLK1 \notin {PS2_CFG_IRQ1, PS2_CFG_IRQ12, PS2_CFG_CLK2, PS2_CFG_TRANSLATE}
  /\ PS2_CFG_IRQ12 \notin {PS2_CFG_IRQ1, PS2_CFG_CLK1, PS2_CFG_CLK2, PS2_CFG_TRANSLATE}
  BY DEF PS2_CFG_SYSFLAG, PS2_CFG_IRQ1, PS2_CFG_IRQ12, PS2_CFG_CLK1, PS2_CFG_CLK2,
         PS2_CFG_TRANSLATE

\* Which command keyboard_init sends where.
LEMMA CommandAt ==
  ASSUME IsThread(thread), thread.fn # "done", Here.op = "cmd"
  PROVE  /\ thread.fn = "keyboard_init"
         /\ \/ thread.at = 1 /\ Here.arg = "DISABLE_PORT1"
            \/ thread.at = 2 /\ Here.arg = "DISABLE_PORT2"
            \/ thread.at = 4 /\ Here.arg = "READ_CFG"
            \/ thread.at = 6 /\ Here.arg = "WRITE_CFG"
            \/ thread.at = 8 /\ Here.arg = "TEST_CTRL"
            \/ thread.at = 10 /\ Here.arg = "WRITE_CFG"
            \/ thread.at = 12 /\ Here.arg = "TEST_PORT1"
            \/ thread.at = 14 /\ Here.arg = "ENABLE_PORT1"
<1>1. /\ thread.fn = "keyboard_init" /\ thread.at \in {1, 2, 4, 6, 8, 10, 12, 14}
      /\ Here = keyboard_init[thread.at]
  BY KeyboardPlaces
<1>2. /\ keyboard_init[1] = Cmd("DISABLE_PORT1") /\ keyboard_init[2] = Cmd("DISABLE_PORT2")
      /\ keyboard_init[4] = Cmd("READ_CFG") /\ keyboard_init[6] = Cmd("WRITE_CFG")
      /\ keyboard_init[8] = Cmd("TEST_CTRL") /\ keyboard_init[10] = Cmd("WRITE_CFG")
      /\ keyboard_init[12] = Cmd("TEST_PORT1") /\ keyboard_init[14] = Cmd("ENABLE_PORT1")
  BY InitScript
<1>3. \A x : Cmd(x).arg = x
  BY DEF Cmd
<1>4. /\ keyboard_init[1].arg = "DISABLE_PORT1" /\ keyboard_init[2].arg = "DISABLE_PORT2"
      /\ keyboard_init[4].arg = "READ_CFG" /\ keyboard_init[6].arg = "WRITE_CFG"
      /\ keyboard_init[8].arg = "TEST_CTRL" /\ keyboard_init[10].arg = "WRITE_CFG"
      /\ keyboard_init[12].arg = "TEST_PORT1" /\ keyboard_init[14].arg = "ENABLE_PORT1"
  BY <1>2, <1>3, Zenon
<1> QED BY <1>1, <1>4

LEMMA ReadAt ==
  ASSUME IsThread(thread), thread.fn # "done", Here.op = "read"
  PROVE  /\ thread.fn = "keyboard_init"
         /\ \/ thread.at = 5 /\ Here.arg = "cfg"
            \/ thread.at = 9 /\ Here.arg = "self"
            \/ thread.at = 13 /\ Here.arg = "port"
            \/ thread.at = 17 /\ Here.arg = "bat"
<1>1. /\ thread.fn = "keyboard_init" /\ thread.at \in {5, 9, 13, 17}
      /\ Here = keyboard_init[thread.at]
  BY KeyboardPlaces
<1>2. /\ keyboard_init[5] = Read("cfg") /\ keyboard_init[9] = Read("self")
      /\ keyboard_init[13] = Read("port") /\ keyboard_init[17] = Read("bat")
  BY InitScript
<1>3. \A x : Read(x).arg = x
  BY DEF Read
<1> QED BY <1>1, <1>2, <1>3, Zenon

\* The answers to the commands: how far a retry goes back and a failure on.
LEMMA AckAt ==
  ASSUME NEW k \in {16, 20, 22, 24, 26, 28}
  PROVE  /\ keyboard_init[k].skip \in {1, 3} /\ keyboard_init[k].back \in {1, 3}
         /\ k - keyboard_init[k].back \in 15 .. 28
         /\ k + keyboard_init[k].skip \in 15 .. 30
<1>1. /\ keyboard_init[16] = Ack(1, 3, TRUE) /\ keyboard_init[20] = Ack(1, 3, FALSE)
      /\ keyboard_init[22] = Ack(3, 1, TRUE) /\ keyboard_init[24] = Ack(1, 1, TRUE)
      /\ keyboard_init[26] = Ack(1, 3, FALSE) /\ keyboard_init[28] = Ack(3, 1, TRUE)
  BY InitScript
<1>2. /\ Ack(1, 3, TRUE).back = 1 /\ Ack(1, 3, TRUE).skip = 3
      /\ Ack(1, 3, FALSE).back = 1 /\ Ack(1, 3, FALSE).skip = 3
      /\ Ack(3, 1, TRUE).back = 3 /\ Ack(3, 1, TRUE).skip = 1
      /\ Ack(1, 1, TRUE).back = 1 /\ Ack(1, 1, TRUE).skip = 1
  BY DEF Ack
<1>3. /\ keyboard_init[16].back = 1 /\ keyboard_init[16].skip = 3
      /\ keyboard_init[20].back = 1 /\ keyboard_init[20].skip = 3
      /\ keyboard_init[22].back = 3 /\ keyboard_init[22].skip = 1
      /\ keyboard_init[24].back = 1 /\ keyboard_init[24].skip = 1
      /\ keyboard_init[26].back = 1 /\ keyboard_init[26].skip = 3
      /\ keyboard_init[28].back = 3 /\ keyboard_init[28].skip = 1
  BY <1>1, <1>2, Zenon
<1> QED BY <1>3

\* A time-out leaves the run without a promise on the configuration.
LEMMA Faulted ==
  ASSUME IInv, TimeOut
  PROVE  faults' \in Nat /\ faults' # 0
  BY DEF IInv, Shapes, TimeOut

\* What is to be shown of the dialogue after a step, by the place it leads to:
\* before the configuration is asked for, when it is, before it is written
\* back, after that, and after keyboard_init.
LEMMA FirstPlaces ==
  ASSUME NEW k \in 2 .. 4
  PROVE  /\ k \in 1 .. 5 /\ k \in 2 .. 5 /\ k # 5 /\ ~(k > 5)
         /\ k \notin {7, 11, 33} /\ k \notin 12 .. 32 /\ k \notin 12 .. 34
  OBVIOUS

LEMMA SayEarly ==
  ASSUME thread'.fn = "keyboard_init", thread'.at \in 2 .. 4, setup' = setup,
         PS2_CFG_SYSFLAG \in ctl'.cfg <=> PS2_CFG_SYSFLAG \in setup.cfg,
         PS2_CFG_CLK1 \in ctl'.cfg, ctl'.ans = << >>, thread'.at = 4 => ~ctl'.full
  PROVE  Dialogue'
<1>1. /\ thread'.at \in 1 .. 5 /\ thread'.at \in 2 .. 5 /\ thread'.at # 5 /\ ~(thread'.at > 5)
      /\ thread'.at \notin {7, 11, 33} /\ thread'.at \notin 12 .. 32 /\ thread'.at \notin 12 .. 34
  BY FirstPlaces, Zenon
<1> QED BY <1>1, Zenon DEF Dialogue

LEMMA SayAsked ==
  ASSUME thread'.fn = "keyboard_init", thread'.at = 5, setup' = setup,
         PS2_CFG_SYSFLAG \in ctl'.cfg <=> PS2_CFG_SYSFLAG \in setup.cfg,
         PS2_CFG_CLK1 \in ctl'.cfg,
         \/ ~ctl'.full /\ ctl'.ans = <<Byte(ctl'.cfg, "answer")>>
         \/ ctl'.full /\ ctl'.ans = << >> /\ ctl'.out = Byte(ctl'.cfg, "answer")
  PROVE  Dialogue'
<1>1. /\ thread'.at # 4 /\ thread'.at \notin 1 .. 4 /\ ~(thread'.at > 5)
      /\ thread'.at \notin {7, 11, 33} /\ thread'.at \notin 12 .. 32 /\ thread'.at \notin 12 .. 34
  OBVIOUS
<1> QED BY <1>1, Zenon DEF Dialogue

LEMMA SayMiddle ==
  ASSUME thread'.fn = "keyboard_init", thread'.at \in 6 .. 11, Good(thread.cfg)',
         thread'.at \in {7, 11} => ctl'.next = "cfg"
  PROVE  Dialogue'
<1>1. /\ thread'.at \notin 1 .. 5 /\ thread'.at \notin 2 .. 5 /\ thread'.at \notin 1 .. 4
      /\ thread'.at # 4 /\ thread'.at # 5 /\ thread'.at # 33
      /\ thread'.at \notin 12 .. 32 /\ thread'.at \notin 12 .. 34
  OBVIOUS
<1> QED BY <1>1, Zenon DEF Dialogue

LEMMA SayLate ==
  ASSUME thread'.fn = "keyboard_init", thread'.at \in 12 .. 34, Good(thread.cfg)',
         Good(ctl.cfg)', thread'.at \in 12 .. 32 => ctl'.next = "kbd",
         thread'.at = 33 => ctl'.next = "cfg"
  PROVE  Dialogue'
<1>1. /\ thread'.at \notin 1 .. 5 /\ thread'.at \notin 2 .. 5 /\ thread'.at \notin 1 .. 4
      /\ thread'.at # 4 /\ thread'.at # 5 /\ thread'.at # 7 /\ thread'.at # 11
  OBVIOUS
<1> QED BY <1>1, Zenon DEF Dialogue

LEMMA SayReturn ==
  ASSUME thread'.fn = "keyboard_reenable_irq", Good(ctl.cfg)'
  PROVE  Dialogue'
  BY DEF Dialogue

\* A configuration is good after a step as it was before.
LEMMA GoodStays ==
  ASSUME setup' = setup
  PROVE  /\ thread'.cfg = thread.cfg /\ Good(thread.cfg) => Good(thread.cfg)'
         /\ ctl'.cfg = ctl.cfg /\ Good(ctl.cfg) => Good(ctl.cfg)'
  BY DEF Good

LEMMA SendControllerKeeps ==
  ASSUME IInv, ps2_send_controller_cmd
  PROVE  IInv'
<1>0. /\ IsThread(thread) /\ IsCtl(ctl) /\ faults \in Nat /\ thread.fn # "done"
      /\ Here.op = "cmd" /\ UNCHANGED untouched /\ setup' = setup
  BY DEF IInv, Shapes, ps2_send_controller_cmd, At, untouched
<1>1. /\ thread.fn = "keyboard_init"
      /\ \/ thread.at = 1 /\ Here.arg = "DISABLE_PORT1"
         \/ thread.at = 2 /\ Here.arg = "DISABLE_PORT2"
         \/ thread.at = 4 /\ Here.arg = "READ_CFG"
         \/ thread.at = 6 /\ Here.arg = "WRITE_CFG"
         \/ thread.at = 8 /\ Here.arg = "TEST_CTRL"
         \/ thread.at = 10 /\ Here.arg = "WRITE_CFG"
         \/ thread.at = 12 /\ Here.arg = "TEST_PORT1"
         \/ thread.at = 14 /\ Here.arg = "ENABLE_PORT1"
  BY <1>0, CommandAt
<1>2. 1 \in Nat \ {0} /\ 2 \in Nat \ {0}
  OBVIOUS
<1>3. thread.at \in {1, 2, 4, 6, 8, 10, 12, 14}
  BY <1>1
<1>4. /\ IsThread(Forward(thread, 1)) /\ Forward(thread, 1).fn = "keyboard_init"
      /\ Forward(thread, 1).at = thread.at + 1 /\ Forward(thread, 1).cfg = thread.cfg
  <2> DEFINE t == Forward(thread, 1)
  <2>1. /\ IsThread(t) /\ t.cfg = thread.cfg
        /\ thread.at + 1 <= 34 => t.fn = "keyboard_init" /\ t.at = thread.at + 1
    BY <1>0, <1>1, <1>2, InitForward, Zenon
  <2> HIDE DEF t
  <2>2. IsThread(t) /\ t.cfg = thread.cfg /\ t.fn = "keyboard_init" /\ t.at = thread.at + 1
    BY <1>3, <2>1
  <2> QED BY <2>2 DEF t
<1>5. IsThread(Forward(thread, 2)) /\ Forward(thread, 2).fn = "keyboard_init"
  <2> DEFINE t == Forward(thread, 2)
  <2>1. /\ IsThread(t)
        /\ thread.at + 2 <= 34 => t.fn = "keyboard_init" /\ t.at = thread.at + 2
    BY <1>0, <1>1, <1>2, InitForward, Zenon
  <2> HIDE DEF t
  <2>2. IsThread(t) /\ t.fn = "keyboard_init"
    BY <1>3, <2>1
  <2> QED BY <2>2 DEF t
<1>6. /\ IsThread(Return(thread)) /\ Return(thread).fn = "keyboard_reenable_irq"
      /\ Return(thread).at = 1
  BY <1>0, <1>1, InitReturn
<1>7. CASE /\ TimeOut
           /\ thread' \in {Forward(thread, 1), Forward(thread, 2), Return(thread)}
           /\ UNCHANGED <<ctl, lapic>>
  <2>1. Quiet /\ faults' \in Nat /\ faults' # 0
    BY <1>7, CtlStays, Faulted
  <2>2. IsThread(thread') /\ \/ thread'.fn = "keyboard_init"
                             \/ thread'.fn = "keyboard_reenable_irq" /\ thread'.at = 1
    BY <1>4, <1>5, <1>6, <1>7
  <2>3. ~(thread.at > 30)
    BY <1>3
  <2> QED BY <1>0, <1>1, <2>1, <2>2, <2>3, InitTalk
<1>8. CASE Step /\ Ctl(Commanded(Here.arg)) /\ UNCHANGED faults
  <2>1. /\ IsThread(thread') /\ thread'.fn = "keyboard_init" /\ thread'.at = thread.at + 1
        /\ thread'.cfg = thread.cfg
    BY <1>4, <1>8 DEF Step
  <2> DEFINE C(cfg, ans, next) == [cfg |-> cfg, full |-> ctl.full, out |-> ctl.out,
                                   ans |-> ans, next |-> next]
  <2>2. \E cfg, ans, next : Commanded(Here.arg) = C(cfg, ans, next)
    <3> HIDE DEF C
    <3>1. /\ \E cfg, ans, next : Commanded("DISABLE_PORT1") = C(cfg, ans, next)
          /\ \E cfg, ans, next : Commanded("DISABLE_PORT2") = C(cfg, ans, next)
          /\ \E cfg, ans, next : Commanded("ENABLE_PORT1") = C(cfg, ans, next)
          /\ \E cfg, ans, next : Commanded("READ_CFG") = C(cfg, ans, next)
          /\ \E cfg, ans, next : Commanded("WRITE_CFG") = C(cfg, ans, next)
          /\ \E cfg, ans, next : Commanded("TEST_PORT1") = C(cfg, ans, next)
          /\ \E cfg, ans, next : Commanded("TEST_CTRL") = C(cfg, ans, next)
      BY <1>0, CommandParts, Zenon DEF C
    <3>2. \/ Here.arg = "DISABLE_PORT1" \/ Here.arg = "DISABLE_PORT2" \/ Here.arg = "ENABLE_PORT1"
          \/ Here.arg = "READ_CFG" \/ Here.arg = "WRITE_CFG" \/ Here.arg = "TEST_PORT1"
          \/ Here.arg = "TEST_CTRL"
      BY <1>1, Zenon
    <3>3. CASE Here.arg = "DISABLE_PORT1" \/ Here.arg = "DISABLE_PORT2"
               \/ Here.arg = "ENABLE_PORT1"
      BY <3>1, <3>3
    <3>4. CASE Here.arg = "READ_CFG" \/ Here.arg = "WRITE_CFG"
      BY <3>1, <3>4
    <3>5. CASE Here.arg = "TEST_PORT1" \/ Here.arg = "TEST_CTRL"
      BY <3>1, <3>5
    <3> QED BY <3>2, <3>3, <3>4, <3>5, Zenon
  <2>3. IsCtl(Commanded(Here.arg))
    <3>1. ASSUME NEW cfg, NEW ans, NEW next PROVE IsCtl(C(cfg, ans, next))
      BY DEF IsCtl
    <3> HIDE DEF C
    <3> QED BY <2>2, <3>1, Zenon
  <2>4. Quiet /\ ctl' = Commanded(Here.arg)
    BY <1>8, <2>3, CtlMoves, Zenon
  <2>5. ASSUME faults = 0 PROVE Dialogue'
    <3>1. Dialogue
      BY <2>5 DEF IInv
    <3>2. CASE thread.at = 1
      <4>1. ctl'.cfg = ctl.cfg \cup {PS2_CFG_CLK1} /\ ctl'.ans = ctl.ans /\ thread'.at = 2
        BY <1>0, <1>1, <2>1, <2>4, <3>2, CommandParts
      <4>2. (PS2_CFG_SYSFLAG \in ctl.cfg <=> PS2_CFG_SYSFLAG \in setup.cfg) /\ ctl.ans = << >>
        BY <1>1, <3>1, <3>2 DEF Dialogue
      <4>3. /\ PS2_CFG_SYSFLAG \in ctl'.cfg <=> PS2_CFG_SYSFLAG \in setup.cfg
            /\ PS2_CFG_CLK1 \in ctl'.cfg /\ ctl'.ans = << >>
        BY <4>1, <4>2, Bits
      <4> QED BY <1>0, <2>1, <4>1, <4>3, SayEarly
    <3>3. CASE thread.at = 2
      <4>1. ctl'.cfg = ctl.cfg \cup {PS2_CFG_CLK2} /\ ctl'.ans = ctl.ans /\ thread'.at = 3
        BY <1>0, <1>1, <2>1, <2>4, <3>3, CommandParts
      <4>2. /\ PS2_CFG_SYSFLAG \in ctl.cfg <=> PS2_CFG_SYSFLAG \in setup.cfg
            /\ ctl.ans = << >> /\ PS2_CFG_CLK1 \in ctl.cfg
        BY <1>1, <3>1, <3>3 DEF Dialogue
      <4>3. /\ PS2_CFG_SYSFLAG \in ctl'.cfg <=> PS2_CFG_SYSFLAG \in setup.cfg
            /\ PS2_CFG_CLK1 \in ctl'.cfg /\ ctl'.ans = << >>
        BY <4>1, <4>2, Bits
      <4> QED BY <1>0, <2>1, <4>1, <4>3, SayEarly
    <3>4. CASE thread.at = 4
      <4>1. /\ ctl'.cfg = ctl.cfg /\ ctl'.ans = Append(ctl.ans, Byte(ctl.cfg, "answer"))
            /\ ctl'.full = ctl.full /\ thread'.at = 5
        BY <1>0, <1>1, <2>1, <2>4, <3>4, CommandParts
      <4>2. /\ PS2_CFG_SYSFLAG \in ctl.cfg <=> PS2_CFG_SYSFLAG \in setup.cfg
            /\ ctl.ans = << >> /\ PS2_CFG_CLK1 \in ctl.cfg /\ ~ctl.full
        BY <1>1, <3>1, <3>4 DEF Dialogue
      <4>3. \A x : Append(<< >>, x) = <<x>>
        OBVIOUS
      <4>4. ctl'.ans = <<Byte(ctl.cfg, "answer")>>
        BY <4>1, <4>2, <4>3, Zenon
      <4> QED BY <1>0, <2>1, <4>1, <4>2, <4>4, SayAsked
    <3>5. CASE thread.at = 6
      <4>1. ctl'.next = "cfg" /\ thread'.at = 7
        BY <1>0, <1>1, <2>1, <2>4, <3>5, CommandParts
      <4>2. Good(thread.cfg)
        BY <1>1, <3>1, <3>5 DEF Dialogue
      <4>3. Good(thread.cfg)'
        BY <1>0, <2>1, <4>2, GoodStays
      <4> QED BY <2>1, <4>1, <4>3, SayMiddle
    <3>6. CASE thread.at = 8
      <4>1. Good(thread.cfg) /\ thread'.at = 9
        BY <1>1, <2>1, <3>1, <3>6 DEF Dialogue
      <4>3. Good(thread.cfg)'
        BY <1>0, <2>1, <4>1, GoodStays
      <4> QED BY <2>1, <4>1, <4>3, SayMiddle
    <3>7. CASE thread.at = 10
      <4>1. ctl'.next = "cfg" /\ thread'.at = 11
        BY <1>0, <1>1, <2>1, <2>4, <3>7, CommandParts
      <4>2. Good(thread.cfg)
        BY <1>1, <3>1, <3>7 DEF Dialogue
      <4>3. Good(thread.cfg)'
        BY <1>0, <2>1, <4>2, GoodStays
      <4> QED BY <2>1, <4>1, <4>3, SayMiddle
    <3>8. CASE thread.at = 12
      <4>1. ctl'.next = "kbd" /\ ctl'.cfg = ctl.cfg /\ thread'.at = 13
        BY <1>0, <1>1, <2>1, <2>4, <3>8, CommandParts
      <4>2. Good(thread.cfg) /\ Good(ctl.cfg)
        BY <1>1, <3>1, <3>8 DEF Dialogue
      <4>3. Good(thread.cfg)' /\ Good(ctl.cfg)'
        BY <1>0, <2>1, <4>1, <4>2, GoodStays
      <4> QED BY <2>1, <4>1, <4>3, SayLate
    <3>9. CASE thread.at = 14
      <4>1. ctl'.next = "kbd" /\ ctl'.cfg = ctl.cfg \ {PS2_CFG_CLK1} /\ thread'.at = 15
        BY <1>0, <1>1, <2>1, <2>4, <3>9, CommandParts
      <4>2. Good(thread.cfg) /\ Good(ctl.cfg)
        BY <1>1, <3>1, <3>9 DEF Dialogue
      <4>3. Good(thread.cfg)'
        BY <1>0, <2>1, <4>2, GoodStays
      <4>4. Good(ctl.cfg)'
        BY <1>0, <4>1, <4>2, Bits DEF Good
      <4> QED BY <2>1, <4>1, <4>3, <4>4, SayLate
    <3> QED BY <1>3, <3>2, <3>3, <3>4, <3>5, <3>6, <3>7, <3>8, <3>9
  <2>6. ~(thread.at > 30)
    BY <1>3
  <2>7. faults' \in Nat /\ (faults' = 0 => Dialogue')
    BY <1>0, <1>8, <2>5
  <2> QED BY <1>0, <1>1, <2>1, <2>4, <2>6, <2>7, InitTalk
<1> QED BY <1>7, <1>8 DEF ps2_send_controller_cmd

\* Before place 30 the thread goes on in keyboard_init.
LEMMA GoesOn ==
  ASSUME IsThread(thread), thread.fn = "keyboard_init", NEW n \in Nat \ {0}, thread.at + n <= 34
  PROVE  /\ IsThread(Forward(thread, n)) /\ Forward(thread, n).fn = "keyboard_init"
         /\ Forward(thread, n).at = thread.at + n /\ Forward(thread, n).cfg = thread.cfg
<1> DEFINE t == Forward(thread, n)
<1>1. /\ IsThread(t) /\ t.cfg = thread.cfg
      /\ thread.at + n <= 34 => t.fn = "keyboard_init" /\ t.at = thread.at + n
  BY InitForward, Zenon
<1> HIDE DEF t
<1>2. IsThread(t) /\ t.cfg = thread.cfg /\ t.fn = "keyboard_init" /\ t.at = thread.at + n
  BY <1>1
<1> QED BY <1>2 DEF t

LEMMA ReadKeeps ==
  ASSUME IInv, ps2_read_data
  PROVE  IInv'
<1>0. /\ IsThread(thread) /\ IsCtl(ctl) /\ faults \in Nat /\ thread.fn # "done"
      /\ Here.op = "read" /\ UNCHANGED untouched /\ setup' = setup /\ faults' = faults
  BY DEF IInv, Shapes, ps2_read_data, At, untouched
<1>1. /\ thread.fn = "keyboard_init"
      /\ \/ thread.at = 5 /\ Here.arg = "cfg"
         \/ thread.at = 9 /\ Here.arg = "self"
         \/ thread.at = 13 /\ Here.arg = "port"
         \/ thread.at = 17 /\ Here.arg = "bat"
  BY <1>0, ReadAt
<1>2. thread.at \in {5, 9, 13, 17} /\ 1 \in Nat \ {0} /\ thread.at + 1 <= 34
      /\ ~(thread.at > 30)
  BY <1>1
<1>3. /\ IsThread(Forward(thread, 1)) /\ Forward(thread, 1).fn = "keyboard_init"
      /\ Forward(thread, 1).at = thread.at + 1 /\ Forward(thread, 1).cfg = thread.cfg
  BY <1>0, <1>1, <1>2, GoesOn, Zenon
<1>4. /\ IsThread(Return(thread)) /\ Return(thread).fn = "keyboard_reenable_irq"
      /\ Return(thread).at = 1
  BY <1>0, <1>1, InitReturn
<1>5. ctl.full /\ thread' = Received(ctl.out.bits) /\ Ctl(Taken)
  BY DEF ps2_read_data
<1>6. /\ Quiet /\ ctl' = Taken /\ ctl'.cfg = ctl.cfg /\ ctl'.next = ctl.next
  <2>1. IsCtl(Taken) /\ Taken.cfg = ctl.cfg /\ Taken.next = ctl.next
    BY <1>0, TakenParts
  <2>2. Quiet /\ ctl' = Taken
    BY <1>5, <2>1, CtlMoves, Zenon
  <2> QED BY <2>1, <2>2
<1>7. CASE thread.at = 5
  <2>1. thread' = [Forward(thread, 1) EXCEPT !.cfg = ctl.out.bits \ Cleared]
    BY <1>1, <1>5, <1>7 DEF Received
  <2>2. /\ IsThread(thread') /\ thread'.fn = "keyboard_init" /\ thread'.at = 6
        /\ thread'.cfg = ctl.out.bits \ Cleared
    <3> DEFINE t == Forward(thread, 1)
               x == ctl.out.bits \ Cleared
    <3> HIDE DEF t, x
    <3>1. /\ IsThread([t EXCEPT !.cfg = x]) /\ [t EXCEPT !.cfg = x].cfg = x
          /\ [t EXCEPT !.cfg = x].fn = t.fn /\ [t EXCEPT !.cfg = x].at = t.at
      <4>1. IsThread(t)
        BY <1>3 DEF t
      <4> QED BY <4>1, Locals, Zenon
    <3>2. thread' = [t EXCEPT !.cfg = x]
      BY <2>1 DEF t, x
    <3>3. t.fn = "keyboard_init" /\ t.at = 6
      BY <1>3, <1>7 DEF t
    <3>4. /\ IsThread(thread') /\ thread'.fn = "keyboard_init" /\ thread'.at = 6
          /\ thread'.cfg = x
      BY <3>1, <3>2, <3>3, Zenon
    <3> QED BY <3>4 DEF x
  <2>3. ASSUME faults = 0 PROVE Dialogue'
    <3>1. /\ ctl.out = Byte(ctl.cfg, "answer")
          /\ PS2_CFG_SYSFLAG \in ctl.cfg <=> PS2_CFG_SYSFLAG \in setup.cfg
      BY <1>1, <1>5, <1>7, <2>3 DEF IInv, Dialogue
    <3>2. ctl.out.bits = ctl.cfg
      BY <3>1 DEF Byte
    <3>3. Good(thread.cfg)'
      BY <1>0, <2>2, <3>1, <3>2, Bits DEF Good, Cleared
    <3> QED BY <2>2, <3>3, SayMiddle
  <2> QED BY <1>0, <1>1, <1>2, <1>6, <2>2, <2>3, InitTalk
<1>8. CASE thread.at # 5
  <2>1. thread' = Forward(thread, 1) \/ (thread' = Return(thread) /\ thread.at = 13)
    BY <1>1, <1>5, <1>8 DEF Received
  <2>2. IsThread(thread') /\ \/ thread'.fn = "keyboard_init"
                             \/ thread'.fn = "keyboard_reenable_irq" /\ thread'.at = 1
    BY <1>3, <1>4, <2>1
  <2>3. ASSUME faults = 0 PROVE Dialogue'
    <3>1. Dialogue
      BY <2>3 DEF IInv
    <3>2. Good(thread.cfg) /\ (thread.at > 12 => Good(ctl.cfg) /\ ctl.next = "kbd")
      BY <1>1, <1>2, <1>8, <3>1 DEF Dialogue
    <3>3. thread.at > 12 => Good(ctl.cfg)' /\ ctl'.next = "kbd"
      BY <1>0, <1>6, <3>2, GoodStays
    <3>4. CASE thread' = Forward(thread, 1)
      <4>1. thread'.fn = "keyboard_init" /\ thread'.at = thread.at + 1 /\ Good(thread.cfg)'
        BY <1>0, <1>3, <3>2, <3>4, GoodStays
      <4>2. CASE thread.at = 9
        BY <4>1, <4>2, SayMiddle
      <4>3. CASE thread.at \in {13, 17}
        BY <4>1, <4>3, <3>3, SayLate
      <4> QED BY <1>2, <1>8, <4>2, <4>3
    <3>5. CASE thread' = Return(thread) /\ thread.at = 13
      BY <1>4, <3>3, <3>5, SayReturn
    <3> QED BY <2>1, <3>4, <3>5
  <2> QED BY <1>0, <1>1, <1>2, <1>6, <2>2, <2>3, InitTalk
<1> QED BY <1>7, <1>8

LEMMA ReadTimeOutKeeps ==
  ASSUME IInv, ReadTimeOut
  PROVE  IInv'
<1>0. /\ IsThread(thread) /\ IsCtl(ctl) /\ faults \in Nat /\ thread.fn # "done"
      /\ Here.op = "read" /\ UNCHANGED untouched /\ setup' = setup
      /\ UNCHANGED <<ctl, lapic>> /\ ~ctl.full
  BY DEF IInv, Shapes, ReadTimeOut, At, untouched
<1>1. /\ thread.fn = "keyboard_init"
      /\ \/ thread.at = 5 /\ Here.arg = "cfg"
         \/ thread.at = 9 /\ Here.arg = "self"
         \/ thread.at = 13 /\ Here.arg = "port"
         \/ thread.at = 17 /\ Here.arg = "bat"
  BY <1>0, ReadAt
<1>2. thread.at \in {5, 9, 13, 17} /\ 1 \in Nat \ {0} /\ thread.at + 1 <= 34
      /\ ~(thread.at > 30)
  BY <1>1
<1>3. /\ IsThread(Forward(thread, 1)) /\ Forward(thread, 1).fn = "keyboard_init"
      /\ Forward(thread, 1).at = thread.at + 1 /\ Forward(thread, 1).cfg = thread.cfg
  BY <1>0, <1>1, <1>2, GoesOn, Zenon
<1>4. /\ IsThread(Return(thread)) /\ Return(thread).fn = "keyboard_reenable_irq"
      /\ Return(thread).at = 1
  BY <1>0, <1>1, InitReturn
<1>5. Quiet
  BY <1>0, CtlStays
<1>6. /\ faults' \in Nat /\ (faults' = 0 => faults = 0)
      /\ ctl.ans # << >> => faults' # 0
  <2>1. TimeOut => faults' \in Nat /\ faults' # 0
    BY Faulted
  <2>2. TimeOut \/ (faults' = faults /\ ctl.ans = << >>)
    BY DEF ReadTimeOut
  <2> QED BY <1>0, <2>1, <2>2
<1>7. CASE thread.at = 5
  <2>1. thread' = [Forward(thread, 1) EXCEPT !.cfg = {}]
    BY <1>1, <1>7 DEF ReadTimeOut
  <2>2. IsThread(thread') /\ thread'.fn = "keyboard_init"
    <3> DEFINE t == Forward(thread, 1)
               x == {}
    <3> HIDE DEF t, x
    <3>1. IsThread([t EXCEPT !.cfg = x]) /\ [t EXCEPT !.cfg = x].fn = t.fn
      <4>1. IsThread(t)
        BY <1>3 DEF t
      <4> QED BY <4>1, Locals, Zenon
    <3>2. thread' = [t EXCEPT !.cfg = x]
      BY <2>1 DEF t, x
    <3>3. t.fn = "keyboard_init"
      BY <1>3 DEF t
    <3> QED BY <3>1, <3>2, <3>3, Zenon
  <2>3. faults' # 0
    <3> SUFFICES ASSUME faults' = 0 PROVE FALSE
      OBVIOUS
    <3>1. faults = 0 /\ ctl.ans = << >>
      BY <1>6
    <3>2. ctl.ans = <<Byte(ctl.cfg, "answer")>>
      BY <1>0, <1>1, <1>7, <3>1 DEF IInv, Dialogue
    <3>3. << >> # <<Byte(ctl.cfg, "answer")>>
      OBVIOUS
    <3> QED BY <3>1, <3>2, <3>3
  <2> QED BY <1>0, <1>1, <1>2, <1>5, <1>6, <2>2, <2>3, InitTalk
<1>8. CASE thread.at # 5
  <2>1. thread' = Forward(thread, 1) \/ (thread' = Return(thread) /\ thread.at = 13)
    BY <1>1, <1>8 DEF ReadTimeOut
  <2>2. IsThread(thread') /\ \/ thread'.fn = "keyboard_init"
                             \/ thread'.fn = "keyboard_reenable_irq" /\ thread'.at = 1
    BY <1>3, <1>4, <2>1
  <2>3. ASSUME faults = 0 PROVE Dialogue'
    <3>1. Dialogue
      BY <2>3 DEF IInv
    <3>2. Good(thread.cfg) /\ (thread.at > 12 => Good(ctl.cfg) /\ ctl.next = "kbd")
      BY <1>1, <1>2, <1>8, <3>1 DEF Dialogue
    <3>3. thread.at > 12 => Good(ctl.cfg)' /\ ctl'.next = "kbd"
      BY <1>0, <3>2, GoodStays
    <3>4. CASE thread' = Forward(thread, 1)
      <4>1. thread'.fn = "keyboard_init" /\ thread'.at = thread.at + 1 /\ Good(thread.cfg)'
        BY <1>0, <1>3, <3>2, <3>4, GoodStays
      <4>2. CASE thread.at = 9
        BY <4>1, <4>2, SayMiddle
      <4>3. CASE thread.at \in {13, 17}
        BY <4>1, <4>3, <3>3, SayLate
      <4> QED BY <1>2, <1>8, <4>2, <4>3
    <3>5. CASE thread' = Return(thread) /\ thread.at = 13
      BY <1>4, <3>3, <3>5, SayReturn
    <3> QED BY <2>1, <3>4, <3>5
  <2> QED BY <1>0, <1>1, <1>2, <1>5, <1>6, <2>2, <2>3, InitTalk
<1> QED BY <1>7, <1>8

LEMMA FlushKeeps ==
  ASSUME IInv, ps2_flush
  PROVE  IInv'
<1>0. /\ IsThread(thread) /\ IsCtl(ctl) /\ faults \in Nat /\ thread.fn # "done"
      /\ Here.op = "flush" /\ UNCHANGED untouched /\ setup' = setup /\ faults' = faults
  BY DEF IInv, Shapes, ps2_flush, At, untouched
<1>1. \/ thread.fn = "keyboard_init" /\ thread.at \in {3, 18, 29, 34}
      \/ thread.fn = "keyboard_reenable_irq" /\ thread.at = 7
  BY <1>0, KeyboardPlaces
<1>2. \/ Ctl(Taken) /\ thread' = thread
      \/ Step /\ UNCHANGED <<ctl, lapic>> /\ ~ctl.full
  BY DEF ps2_flush
<1>3. /\ Quiet /\ ctl'.cfg = ctl.cfg /\ ctl'.next = ctl.next /\ ctl'.ans = ctl.ans /\ ~ctl'.full
  <2>1. CASE Ctl(Taken)
    <3>1. IsCtl(Taken) /\ Taken.cfg = ctl.cfg /\ Taken.next = ctl.next /\ Taken.ans = ctl.ans
          /\ ~Taken.full
      BY <1>0, TakenParts
    <3>2. Quiet /\ ctl' = Taken
      BY <2>1, <3>1, CtlMoves, Zenon
    <3> QED BY <3>1, <3>2
  <2>2. CASE UNCHANGED <<ctl, lapic>> /\ ~ctl.full
    BY <2>2, CtlStays
  <2> QED BY <1>2, <2>1, <2>2
<1>4. CASE thread.fn = "keyboard_init"
  <2>0. thread.at \in {3, 18, 29, 34} /\ 1 \in Nat \ {0}
    BY <1>1, <1>4
  <2>1. /\ IsThread(thread') /\ thread'.cfg = thread.cfg
        /\ \/ thread'.fn = "keyboard_init" /\ thread'.at = thread.at
           \/ thread'.fn = "keyboard_init" /\ thread'.at = thread.at + 1 /\ thread.at # 34
           \/ thread'.fn = "keyboard_reenable_irq" /\ thread'.at = 1 /\ thread.at = 34
    <3>1. CASE thread' = thread
      BY <1>0, <1>4, <3>1
    <3>2. CASE Step
      <4> DEFINE t == Forward(thread, 1)
      <4>1. /\ IsThread(t) /\ t.cfg = thread.cfg
            /\ thread.at + 1 <= 34 => t.fn = "keyboard_init" /\ t.at = thread.at + 1
            /\ thread.at + 1 > 34 => t.fn = "keyboard_reenable_irq" /\ t.at = 1
        BY <1>0, <1>4, <2>0, InitForward, Zenon
      <4>2. thread' = t
        BY <3>2 DEF Step
      <4> HIDE DEF t
      <4> QED BY <2>0, <4>1, <4>2
    <3> QED BY <1>2, <3>1, <3>2
  <2>2. ASSUME faults = 0 PROVE Dialogue'
    <3>1. Dialogue
      BY <2>2 DEF IInv
    <3>2. CASE thread.at = 3
      <4>1. /\ PS2_CFG_SYSFLAG \in ctl.cfg <=> PS2_CFG_SYSFLAG \in setup.cfg
            /\ PS2_CFG_CLK1 \in ctl.cfg /\ ctl.ans = << >>
        BY <1>4, <3>1, <3>2 DEF Dialogue
      <4>2. thread'.fn = "keyboard_init" /\ thread'.at \in 2 .. 4
        BY <2>1, <3>2
      <4> QED BY <1>0, <1>3, <4>1, <4>2, SayEarly
    <3>3. CASE thread.at \in {18, 29, 34}
      <4>1. Good(thread.cfg) /\ Good(ctl.cfg) /\ (thread.at # 34 => ctl.next = "kbd")
        BY <1>4, <3>1, <3>3 DEF Dialogue
      <4>2. Good(thread.cfg)' /\ Good(ctl.cfg)' /\ (thread.at # 34 => ctl'.next = "kbd")
        BY <1>0, <1>3, <2>1, <4>1, GoodStays
      <4>3. CASE thread'.fn = "keyboard_init"
        <5>1. /\ thread'.at \in 12 .. 34 /\ thread'.at # 33
              /\ thread'.at \in 12 .. 32 => thread.at # 34
          BY <2>1, <3>3, <4>3
        <5> QED BY <4>2, <4>3, <5>1, SayLate
      <4>4. CASE thread'.fn = "keyboard_reenable_irq"
        BY <4>2, <4>4, SayReturn
      <4> QED BY <2>1, <4>3, <4>4
    <3> QED BY <2>0, <3>2, <3>3
  <2>3. \/ thread'.fn = "keyboard_init" /\ (thread.at > 30 => thread'.at > 30)
        \/ thread'.fn = "keyboard_reenable_irq" /\ thread'.at = 1
    BY <2>0, <2>1
  <2> QED BY <1>0, <1>3, <1>4, <2>1, <2>2, <2>3, InitTalk
<1>5. CASE thread.fn = "keyboard_reenable_irq" /\ thread.at = 7
  <2>1. {PS2_CFG_IRQ1, PS2_CFG_TRANSLATE} \subseteq ctl'.cfg
    BY <1>3, <1>5 DEF IInv, KeyboardOn
  <2>2. /\ IsThread(thread')
        /\ (thread'.fn = "keyboard_reenable_irq" /\ thread'.at = 7) \/ thread'.fn = "done"
    BY <1>0, <1>2, <1>5, AgainForward DEF Step
  <2> QED BY <1>0, <1>3, <1>5, <2>1, <2>2, AgainTalk
<1> QED BY <1>1, <1>4, <1>5

\* A byte for the data port: it is the configuration when one is awaited, and
\* the 8042 passes it on otherwise.
LEMMA DataEffect ==
  ASSUME IInv, NEW bits, NEW cmd, DataPort(bits, cmd)
  PROVE  /\ Quiet /\ faults' \in Nat /\ (faults' = 0 => faults = 0)
         /\ ctl.next = "cfg" => ctl'.cfg = bits /\ ctl'.next = "kbd"
         /\ ctl.next # "cfg" => ctl' = ctl
<1>0. IsCtl(ctl) /\ faults \in Nat
  BY DEF IInv, Shapes
<1>1. CASE ctl.next = "cfg"
  <2> DEFINE c == [ctl EXCEPT !.cfg = bits, !.next = "kbd"]
  <2>1. c = [cfg |-> bits, full |-> ctl.full, out |-> ctl.out, ans |-> ctl.ans, next |-> "kbd"]
    BY <1>0, CtlRecords
  <2>2. Ctl(c) /\ faults' = faults
    BY <1>1 DEF DataPort
  <2> HIDE DEF c
  <2>3. IsCtl(c) /\ c.cfg = bits /\ c.next = "kbd"
    BY <2>1 DEF IsCtl
  <2>4. Quiet /\ ctl' = c
    BY <2>2, <2>3, CtlMoves, Zenon
  <2> QED BY <1>0, <1>1, <2>2, <2>3, <2>4
<1>2. CASE ctl.next # "cfg"
  <2>1. /\ faults' = faults \/ faults' = faults + 1
        /\ ctl' = ctl /\ lapic' = lapic
    BY <1>2 DEF DataPort
  <2>2. Quiet
    BY <2>1, CtlStays
  <2> QED BY <1>0, <1>2, <2>1, <2>2
<1> QED BY <1>1, <1>2

LEMMA SendConfigKeeps ==
  ASSUME IInv, SendConfig
  PROVE  IInv'
<1>0. /\ IsThread(thread) /\ IsCtl(ctl) /\ faults \in Nat /\ thread.fn # "done"
      /\ Here.op = "data" /\ UNCHANGED untouched /\ setup' = setup /\ Step
  BY DEF IInv, Shapes, SendConfig, At, untouched
<1>1. thread.fn = "keyboard_init" /\ thread.at \in {7, 11}
  BY <1>0, KeyboardPlaces
<1>2. 1 \in Nat \ {0} /\ thread.at + 1 <= 34 /\ ~(thread.at > 30)
  BY <1>1
<1>3. /\ IsThread(Forward(thread, 1)) /\ Forward(thread, 1).fn = "keyboard_init"
      /\ Forward(thread, 1).at = thread.at + 1 /\ Forward(thread, 1).cfg = thread.cfg
  BY <1>0, <1>1, <1>2, GoesOn, Zenon
<1>4. /\ IsThread(thread') /\ thread'.fn = "keyboard_init"
      /\ thread'.at = thread.at + 1 /\ thread'.cfg = thread.cfg
  BY <1>0, <1>3 DEF Step
<1>5. CASE DataPort(thread.cfg, "data")
  <2>1. /\ Quiet /\ faults' \in Nat /\ (faults' = 0 => faults = 0)
        /\ ctl.next = "cfg" => ctl'.cfg = thread.cfg /\ ctl'.next = "kbd"
    BY <1>5, DataEffect, Zenon
  <2>2. ASSUME faults = 0 PROVE Dialogue'
    <3>1. Good(thread.cfg) /\ ctl.next = "cfg"
      BY <1>1, <2>2 DEF IInv, Dialogue
    <3>2. Good(thread.cfg)'
      BY <1>0, <1>4, <3>1, GoodStays
    <3>3. CASE thread.at = 7
      BY <1>4, <3>2, <3>3, SayMiddle
    <3>4. CASE thread.at = 11
      <4>1. ctl'.next = "kbd" /\ ctl'.cfg = thread.cfg
        BY <2>1, <3>1
      <4>2. Good(ctl.cfg)'
        BY <1>0, <3>1, <4>1 DEF Good
      <4> QED BY <1>4, <3>2, <3>4, <4>1, <4>2, SayLate
    <3> QED BY <1>1, <3>3, <3>4
  <2> QED BY <1>0, <1>1, <1>2, <1>4, <2>1, <2>2, InitTalk
<1>6. CASE TimeOut /\ UNCHANGED <<ctl, lapic, kbd>>
  <2>1. Quiet /\ faults' \in Nat /\ faults' # 0
    BY <1>6, CtlStays, Faulted
  <2> QED BY <1>0, <1>1, <1>2, <1>4, <2>1, InitTalk
<1> QED BY <1>5, <1>6 DEF SendConfig

\* The commands to the keyboard: the configuration stays as it was written.
LEMMA CommandStep ==
  ASSUME IInv, thread.fn = "keyboard_init", thread.at \in 15 .. 28, IsThread(thread'),
         thread'.fn = "keyboard_init", thread'.at \in 15 .. 32, thread'.cfg = thread.cfg,
         UNCHANGED untouched, faults' \in Nat, Quiet, faults' = 0 => faults = 0,
         faults' = 0 /\ ctl.next = "kbd" => ctl'.cfg = ctl.cfg /\ ctl'.next = "kbd"
  PROVE  IInv'
<1>1. setup' = setup /\ ~(thread.at > 30)
  BY DEF untouched
<1>2. ASSUME faults' = 0 PROVE Dialogue'
  <2>1. Good(thread.cfg) /\ Good(ctl.cfg) /\ ctl.next = "kbd"
    <3>1. Dialogue
      BY <1>2 DEF IInv
    <3>2. thread.at > 5 /\ thread.at \in 12 .. 32 /\ thread.at \in 12 .. 34
      OBVIOUS
    <3> QED BY <3>1, <3>2, Zenon DEF Dialogue
  <2>2. Good(thread.cfg)' /\ Good(ctl.cfg)' /\ ctl'.next = "kbd"
    BY <1>1, <1>2, <2>1, GoodStays
  <2>3. thread'.at \in 12 .. 34 /\ thread'.at # 33
    OBVIOUS
  <2> QED BY <2>2, <2>3, SayLate
<1> QED BY <1>1, <1>2, InitTalk

\* The thread gives a command up, n places further on.
LEMMA GivesUp ==
  ASSUME IsThread(thread), thread.fn = "keyboard_init", NEW n \in Nat \ {0}, thread.at + n <= 34,
         NEW x
  PROVE  LET t == [Forward(thread, n) EXCEPT !.retry = x]
         IN /\ IsThread(t) /\ t.fn = "keyboard_init" /\ t.at = thread.at + n
            /\ t.cfg = thread.cfg
<1> DEFINE u == Forward(thread, n)
<1>1. IsThread(u) /\ u.fn = "keyboard_init" /\ u.at = thread.at + n /\ u.cfg = thread.cfg
  BY GoesOn, Zenon
<1> HIDE DEF u
<1>2. /\ IsThread([u EXCEPT !.retry = x]) /\ [u EXCEPT !.retry = x].cfg = u.cfg
      /\ [u EXCEPT !.retry = x].fn = u.fn /\ [u EXCEPT !.retry = x].at = u.at
  BY <1>1, Locals, Zenon
<1>3. /\ IsThread([u EXCEPT !.retry = x]) /\ [u EXCEPT !.retry = x].cfg = thread.cfg
      /\ [u EXCEPT !.retry = x].fn = "keyboard_init"
      /\ [u EXCEPT !.retry = x].at = thread.at + n
  BY <1>1, <1>2, Zenon
<1> QED BY <1>3 DEF u

LEMMA SendCommandKeeps ==
  ASSUME IInv, kbd_send_command
  PROVE  IInv'
<1>0. /\ IsThread(thread) /\ IsCtl(ctl) /\ faults \in Nat /\ thread.fn # "done"
      /\ Here.op = "send" /\ UNCHANGED untouched
  BY DEF IInv, Shapes, kbd_send_command, At, untouched
<1>1. thread.fn = "keyboard_init" /\ thread.at \in {15, 19, 21, 23, 25, 27}
  BY <1>0, KeyboardPlaces
<1>2. 1 \in Nat \ {0} /\ thread.at + 1 <= 34 /\ thread.at \in 15 .. 28
  BY <1>1
<1>3. CASE Step /\ DataPort({}, Here.arg)
  <2>1. /\ IsThread(Forward(thread, 1)) /\ Forward(thread, 1).fn = "keyboard_init"
        /\ Forward(thread, 1).at = thread.at + 1 /\ Forward(thread, 1).cfg = thread.cfg
    BY <1>0, <1>1, <1>2, GoesOn, Zenon
  <2>2. /\ IsThread(thread') /\ thread'.fn = "keyboard_init"
        /\ thread'.at = thread.at + 1 /\ thread'.cfg = thread.cfg
    BY <1>3, <2>1 DEF Step
  <2>3. /\ Quiet /\ faults' \in Nat /\ (faults' = 0 => faults = 0)
        /\ ctl.next # "cfg" => ctl' = ctl
    BY <1>3, DataEffect, Zenon
  <2>4. thread'.at \in 15 .. 32
    BY <1>2, <2>2
  <2>5. ctl.next = "kbd" => ctl'.cfg = ctl.cfg /\ ctl'.next = "kbd"
    BY <2>3
  <2> QED BY <1>0, <1>1, <1>2, <2>2, <2>3, <2>4, <2>5, CommandStep
<1>4. CASE /\ TimeOut
           /\ thread' = [Forward(thread, Script(thread.fn)[thread.at + 1].skip + 1)
                          EXCEPT !.retry = 0]
           /\ UNCHANGED <<ctl, lapic, kbd>>
  <2>1. Quiet /\ faults' \in Nat /\ faults' # 0
    BY <1>4, CtlStays, Faulted
  <2> DEFINE k == thread.at + 1
             n == keyboard_init[k].skip + 1
  <2>2. Script(thread.fn)[thread.at + 1].skip + 1 = n
    BY <1>1, Scripts, Zenon
  <2>3. k \in {16, 20, 22, 24, 26, 28}
    BY <1>1
  <2>4. keyboard_init[k].skip \in {1, 3} /\ k + keyboard_init[k].skip \in 15 .. 30
    <3> HIDE DEF k
    <3> QED BY <2>3, AckAt, Zenon
  <2>5. n \in Nat \ {0} /\ thread.at + n <= 34 /\ thread.at + n \in 15 .. 32
    <3> DEFINE m == keyboard_init[k].skip
    <3>1. m \in {1, 3} /\ thread.at + 1 + m \in 15 .. 30
      BY <2>4
    <3> HIDE DEF m
    <3>2. m + 1 \in Nat \ {0} /\ thread.at + (m + 1) <= 34 /\ thread.at + (m + 1) \in 15 .. 32
      BY <1>2, <3>1
    <3> QED BY <3>2 DEF m
  <2> HIDE DEF n
  <2>6. thread' = [Forward(thread, n) EXCEPT !.retry = 0]
    BY <1>4, <2>2, Zenon
  <2>7. /\ IsThread(thread') /\ thread'.fn = "keyboard_init"
        /\ thread'.at = thread.at + n /\ thread'.cfg = thread.cfg
    BY <1>0, <1>1, <2>5, <2>6, GivesUp, Zenon
  <2> QED BY <1>0, <1>1, <1>2, <2>1, <2>5, <2>7, CommandStep
<1> QED BY <1>3, <1>4 DEF kbd_send_command

\* The places an answer leads to.
LEMMA AnswerPlaces ==
  ASSUME IsThread(thread), thread.fn # "done", Here.op = "ack"
  PROVE  /\ thread.fn = "keyboard_init" /\ thread.at \in 15 .. 28
         /\ IsThread(GiveUp) /\ GiveUp.fn = "keyboard_init" /\ GiveUp.at \in 15 .. 32
         /\ GiveUp.cfg = thread.cfg
         /\ Here.back \in {1, 3} /\ thread.at - Here.back \in 15 .. 28
<1>1. /\ thread.fn = "keyboard_init" /\ thread.at \in {16, 20, 22, 24, 26, 28}
      /\ Here = keyboard_init[thread.at]
  BY KeyboardPlaces
<1>2. /\ keyboard_init[thread.at].skip \in {1, 3} /\ keyboard_init[thread.at].back \in {1, 3}
      /\ thread.at - keyboard_init[thread.at].back \in 15 .. 28
      /\ thread.at + keyboard_init[thread.at].skip \in 15 .. 30
  BY <1>1, AckAt, Zenon
<1> DEFINE n == Here.skip
<1>3. /\ n \in {1, 3} /\ thread.at + n \in 15 .. 30
      /\ Here.back \in {1, 3} /\ thread.at - Here.back \in 15 .. 28
  BY <1>1, <1>2, Zenon
<1> HIDE DEF n
<1>4. n \in Nat \ {0} /\ thread.at + n <= 34 /\ thread.at + n \in 15 .. 32
      /\ thread.at \in 15 .. 28
  BY <1>1, <1>3
<1>5. GiveUp = [Forward(thread, n) EXCEPT !.retry = 0]
  BY DEF GiveUp, n
<1>6. /\ IsThread(GiveUp) /\ GiveUp.fn = "keyboard_init" /\ GiveUp.at = thread.at + n
      /\ GiveUp.cfg = thread.cfg
  BY <1>1, <1>4, <1>5, GivesUp, Zenon
<1> QED BY <1>1, <1>3, <1>4, <1>6

LEMMA AcknowledgedKeeps ==
  ASSUME IInv, Acknowledged
  PROVE  IInv'
<1>0. /\ IsThread(thread) /\ IsCtl(ctl) /\ faults \in Nat /\ thread.fn # "done"
      /\ Here.op = "ack" /\ UNCHANGED untouched /\ faults' = faults /\ Ctl(Taken)
  BY DEF IInv, Shapes, Acknowledged, At, untouched
<1>1. /\ thread.fn = "keyboard_init" /\ thread.at \in 15 .. 28
      /\ IsThread(GiveUp) /\ GiveUp.fn = "keyboard_init" /\ GiveUp.at \in 15 .. 32
      /\ GiveUp.cfg = thread.cfg
      /\ Here.back \in {1, 3} /\ thread.at - Here.back \in 15 .. 28
  BY <1>0, AnswerPlaces, Zenon
<1>2. 1 \in Nat \ {0} /\ thread.at + 1 <= 34 /\ thread.at + 1 \in 15 .. 32
  BY <1>1
<1>3. \/ \E x : thread' = [Forward(thread, 1) EXCEPT !.retry = x]
      \/ \E x : thread' = [thread EXCEPT !.at = thread.at - Here.back, !.retry = x]
      \/ thread' = GiveUp
  <2>1. \/ thread' = [Forward(thread, 1) EXCEPT !.retry = IF Here.last THEN 0 ELSE @]
        \/ thread' = [thread EXCEPT !.at = @ - Here.back, !.retry = @ + 1]
        \/ thread' = GiveUp
    BY DEF Acknowledged
  <2>2. CASE thread' = [Forward(thread, 1) EXCEPT !.retry = IF Here.last THEN 0 ELSE @]
    <3> DEFINE x == IF Here.last THEN 0 ELSE Forward(thread, 1).retry
    <3>1. thread' = [Forward(thread, 1) EXCEPT !.retry = x]
      BY <2>2
    <3> HIDE DEF x
    <3> QED BY <3>1, Zenon
  <2>3. CASE thread' = [thread EXCEPT !.at = @ - Here.back, !.retry = @ + 1]
    <3> DEFINE x == thread.retry + 1
               k == thread.at - Here.back
    <3>1. thread' = [thread EXCEPT !.at = k, !.retry = x]
      BY <2>3
    <3> HIDE DEF x
    <3> QED BY <3>1, Zenon
  <2> QED BY <2>1, <2>2, <2>3, Zenon
<1>4. /\ IsThread(thread') /\ thread'.fn = "keyboard_init" /\ thread'.at \in 15 .. 32
      /\ thread'.cfg = thread.cfg
  <2>1. ASSUME NEW x, thread' = [Forward(thread, 1) EXCEPT !.retry = x]
        PROVE  /\ IsThread(thread') /\ thread'.fn = "keyboard_init" /\ thread'.at \in 15 .. 32
               /\ thread'.cfg = thread.cfg
    <3>1. /\ IsThread(thread') /\ thread'.fn = "keyboard_init" /\ thread'.at = thread.at + 1
          /\ thread'.cfg = thread.cfg
      BY <1>0, <1>1, <1>2, <2>1, GivesUp, Zenon
    <3> QED BY <1>2, <3>1
  <2>2. ASSUME NEW x, thread' = [thread EXCEPT !.at = thread.at - Here.back, !.retry = x]
        PROVE  /\ IsThread(thread') /\ thread'.fn = "keyboard_init" /\ thread'.at \in 15 .. 32
               /\ thread'.cfg = thread.cfg
    <3> DEFINE k == thread.at - Here.back
               u == [thread EXCEPT !.at = k]
    <3>1. k \in 15 .. 28
      BY <1>1
    <3> HIDE DEF k
    <3>2. u = [fn |-> thread.fn, at |-> k, i |-> thread.i, retry |-> thread.retry,
               base |-> thread.base, start |-> thread.start, bus |-> thread.bus,
               cfg |-> thread.cfg]
      BY <1>0 DEF IsThread
    <3>3. thread' = [u EXCEPT !.retry = x]
      BY <2>2 DEF k
    <3> HIDE DEF u
    <3>4. thread' = [fn |-> thread.fn, at |-> k, i |-> thread.i, retry |-> x,
               base |-> thread.base, start |-> thread.start, bus |-> thread.bus,
               cfg |-> thread.cfg]
      BY <3>2, <3>3
    <3>5. Len(Script("keyboard_init")) = 34
      BY Lengths
    <3>6. k \in 1 .. Len(Script(thread.fn))
      <4>1. k \in 1 .. 34
        BY <3>1
      <4> QED BY <1>1, <3>5, <4>1, Zenon
    <3>7. thread.i = 0
      BY <1>0, <1>1 DEF IsThread
    <3>8. IsThread(thread')
      BY <1>0, <1>1, <3>4, <3>6, <3>7 DEF IsThread
    <3> QED BY <1>1, <3>1, <3>4, <3>8
  <2>3. CASE thread' = GiveUp
    BY <1>1, <2>3
  <2> QED BY <1>3, <2>1, <2>2, <2>3
<1>5. Quiet /\ ctl'.cfg = ctl.cfg /\ ctl'.next = ctl.next
  <2>1. IsCtl(Taken) /\ Taken.cfg = ctl.cfg /\ Taken.next = ctl.next
    BY <1>0, TakenParts
  <2>2. Quiet /\ ctl' = Taken
    BY <1>0, <2>1, CtlMoves, Zenon
  <2> QED BY <2>1, <2>2
<1> QED BY <1>0, <1>1, <1>4, <1>5, CommandStep

LEMMA AckTimeOutKeeps ==
  ASSUME IInv, AckTimeOut
  PROVE  IInv'
<1>0. /\ IsThread(thread) /\ IsCtl(ctl) /\ faults \in Nat /\ thread.fn # "done"
      /\ Here.op = "ack" /\ UNCHANGED untouched /\ UNCHANGED <<ctl, lapic>> /\ thread' = GiveUp
      /\ TimeOut \/ faults' = faults
  BY DEF IInv, Shapes, AckTimeOut, At, untouched
<1>1. /\ thread.fn = "keyboard_init" /\ thread.at \in 15 .. 28
      /\ IsThread(GiveUp) /\ GiveUp.fn = "keyboard_init" /\ GiveUp.at \in 15 .. 32
      /\ GiveUp.cfg = thread.cfg
  BY <1>0, AnswerPlaces, Zenon
<1>2. Quiet
  BY <1>0, CtlStays
<1>3. faults' \in Nat /\ (faults' = 0 => faults = 0)
  <2>1. TimeOut => faults' \in Nat /\ faults' # 0
    BY Faulted
  <2> QED BY <1>0, <2>1
<1> QED BY <1>0, <1>1, <1>2, <1>3, CommandStep

\* A step of the last part of keyboard_init or of keyboard_reenable_irq.
LEMMA LastPlaces ==
  ASSUME IsThread(thread), Step, \/ thread.fn = "keyboard_init" /\ thread.at \in {32, 33}
                                 \/ thread.fn = "keyboard_reenable_irq" /\ thread.at \in 1 .. 6
  PROVE  /\ IsThread(thread') /\ thread'.fn = thread.fn /\ thread'.at = thread.at + 1
         /\ thread'.cfg = thread.cfg
<1> DEFINE t == Forward(thread, 1)
<1>1. CASE thread.fn = "keyboard_init" /\ thread.at \in {32, 33}
  <2>1. 1 \in Nat \ {0} /\ thread.at + 1 <= 34
    BY <1>1
  <2>2. IsThread(t) /\ t.fn = "keyboard_init" /\ t.at = thread.at + 1 /\ t.cfg = thread.cfg
    BY <1>1, <2>1, GoesOn, Zenon
  <2>3. thread' = t
    BY DEF Step
  <2> HIDE DEF t
  <2> QED BY <1>1, <2>2, <2>3
<1>2. CASE thread.fn = "keyboard_reenable_irq" /\ thread.at \in 1 .. 6
  <2>1. thread.at < 7
    BY <1>2
  <2>2. /\ IsThread(t) /\ t.cfg = thread.cfg
        /\ thread.at < 7 => t.fn = "keyboard_reenable_irq" /\ t.at = thread.at + 1
    BY <1>2, AgainForward, Zenon
  <2>3. thread' = t
    BY DEF Step
  <2> HIDE DEF t
  <2> QED BY <1>2, <2>1, <2>2, <2>3
<1> QED BY <1>1, <1>2

LEMMA PutKeeps ==
  ASSUME IInv, Put
  PROVE  IInv'
<1> DEFINE bits == thread.cfg \cup {PS2_CFG_IRQ1, PS2_CFG_TRANSLATE}
<1>0. /\ IsThread(thread) /\ IsCtl(ctl) /\ faults \in Nat /\ thread.fn # "done"
      /\ Here.op = "put" /\ UNCHANGED untouched /\ setup' = setup /\ Step
  BY DEF IInv, Shapes, Put, At, untouched
<1>1. \/ thread.fn = "keyboard_init" /\ thread.at = 33
      \/ thread.fn = "keyboard_reenable_irq" /\ thread.at = 6
  BY <1>0, KeyboardPlaces
<1>2. DataPort(bits, "data")
  BY DEF Put
<1>3. PS2_CFG_IRQ1 \in bits /\ PS2_CFG_TRANSLATE \in bits
  OBVIOUS
<1>4. Good(thread.cfg) => Good(bits)
  BY Bits DEF Good
<1> HIDE DEF bits
<1>5. /\ Quiet /\ faults' \in Nat /\ (faults' = 0 => faults = 0)
      /\ ctl.next = "cfg" => ctl'.cfg = bits /\ ctl'.next = "kbd"
  BY <1>2, DataEffect, Zenon
<1>6. /\ IsThread(thread') /\ thread'.fn = thread.fn /\ thread'.at = thread.at + 1
      /\ thread'.cfg = thread.cfg
  BY <1>0, <1>1, LastPlaces
<1>7. CASE thread.fn = "keyboard_init" /\ thread.at = 33
  <2>1. ASSUME faults = 0 PROVE Dialogue'
    <3>1. Good(thread.cfg) /\ ctl.next = "cfg"
      BY <1>7, <2>1 DEF IInv, Dialogue
    <3>2. Good(thread.cfg)'
      BY <1>0, <1>6, <3>1, GoodStays
    <3>3. Good(ctl.cfg)'
      BY <1>0, <1>4, <1>5, <3>1 DEF Good
    <3> QED BY <1>6, <1>7, <3>2, <3>3, SayLate
  <2> QED BY <1>0, <1>5, <1>6, <1>7, <2>1, InitTalk
<1>8. CASE thread.fn = "keyboard_reenable_irq" /\ thread.at = 6
  <2>1. ctl.next = "cfg"
    BY <1>8 DEF IInv, KeyboardOn
  <2>2. {PS2_CFG_IRQ1, PS2_CFG_TRANSLATE} \subseteq ctl'.cfg
    BY <1>3, <1>5, <2>1
  <2> QED BY <1>0, <1>5, <1>6, <1>8, <2>2, AgainTalk
<1> QED BY <1>1, <1>7, <1>8

LEMMA AwaitKeeps ==
  ASSUME IInv, Await
  PROVE  IInv'
<1>0. /\ IsThread(thread) /\ IsCtl(ctl) /\ faults \in Nat /\ thread.fn # "done"
      /\ Here.op = "await" /\ UNCHANGED untouched /\ faults' = faults /\ Ctl(Taken)
      /\ thread' = [Forward(thread, 1) EXCEPT !.cfg = ctl.out.bits]
  BY DEF IInv, Shapes, Await, At, untouched
<1>1. thread.fn = "keyboard_reenable_irq" /\ thread.at = 4
  BY <1>0, KeyboardPlaces
<1>2. IsThread(thread') /\ thread'.fn = "keyboard_reenable_irq" /\ thread'.at = 5
  <2> DEFINE t == Forward(thread, 1)
             x == ctl.out.bits
  <2>1. thread' = [t EXCEPT !.cfg = x]
    BY <1>0
  <2>2. /\ IsThread(t)
        /\ thread.at < 7 => t.fn = "keyboard_reenable_irq" /\ t.at = thread.at + 1
    BY <1>0, <1>1, AgainForward, Zenon
  <2> HIDE DEF t, x
  <2>3. IsThread(t) /\ t.fn = "keyboard_reenable_irq" /\ t.at = 5
    BY <1>1, <2>2
  <2>4. /\ IsThread([t EXCEPT !.cfg = x]) /\ [t EXCEPT !.cfg = x].fn = t.fn
        /\ [t EXCEPT !.cfg = x].at = t.at
    BY <2>3, Locals, Zenon
  <2> QED BY <2>1, <2>3, <2>4, Zenon
<1>3. Quiet
  <2>1. IsCtl(Taken)
    BY <1>0, TakenParts
  <2> QED BY <1>0, <2>1, CtlMoves, Zenon
<1> QED BY <1>0, <1>1, <1>2, <1>3, AgainTalk

\* The command that tells the 8042 a configuration comes.
LEMMA WriteStep ==
  ASSUME IInv, UNCHANGED untouched, Step, faults' = faults, Ctl(Commanded("WRITE_CFG")),
         \/ thread.fn = "keyboard_init" /\ thread.at = 32
         \/ thread.fn = "keyboard_reenable_irq" /\ thread.at = 5
  PROVE  IInv'
<1>0. /\ IsThread(thread) /\ IsCtl(ctl) /\ faults \in Nat /\ setup' = setup
      /\ UNCHANGED untouched /\ Step /\ faults' = faults
  BY DEF IInv, Shapes, untouched
<1>1. \/ thread.fn = "keyboard_init" /\ thread.at = 32
      \/ thread.fn = "keyboard_reenable_irq" /\ thread.at = 5
  OBVIOUS
<1>2. Quiet /\ ctl'.cfg = ctl.cfg /\ ctl'.next = "cfg"
  <2> DEFINE c == Commanded("WRITE_CFG")
  <2>1. c = [cfg |-> ctl.cfg, full |-> ctl.full, out |-> ctl.out, ans |-> ctl.ans,
             next |-> "cfg"]
    BY <1>0, CommandParts
  <2>2. Ctl(c)
    OBVIOUS
  <2> HIDE DEF c
  <2>3. IsCtl(c) /\ c.cfg = ctl.cfg /\ c.next = "cfg"
    BY <2>1 DEF IsCtl
  <2>4. Quiet /\ ctl' = c
    BY <2>2, <2>3, CtlMoves, Zenon
  <2> QED BY <2>3, <2>4
<1>3. /\ IsThread(thread') /\ thread'.fn = thread.fn /\ thread'.at = thread.at + 1
      /\ thread'.cfg = thread.cfg
  BY <1>0, <1>1, LastPlaces
<1>4. CASE thread.fn = "keyboard_init" /\ thread.at = 32
  <2>1. ASSUME faults = 0 PROVE Dialogue'
    <3>1. Good(thread.cfg) /\ Good(ctl.cfg)
      BY <1>4, <2>1 DEF IInv, Dialogue
    <3>2. Good(thread.cfg)' /\ Good(ctl.cfg)'
      BY <1>0, <1>2, <1>3, <3>1, GoodStays
    <3> QED BY <1>2, <1>3, <1>4, <3>2, SayLate
  <2> QED BY <1>0, <1>2, <1>3, <1>4, <2>1, InitTalk
<1>5. CASE thread.fn = "keyboard_reenable_irq" /\ thread.at = 5
  BY <1>0, <1>2, <1>3, <1>5, AgainTalk
<1> QED BY <1>1, <1>4, <1>5

LEMMA IrqOnKeeps ==
  ASSUME IInv, WaitAndCommand("irq on", "WRITE_CFG")
  PROVE  IInv'
<1>1. /\ IsThread(thread) /\ thread.fn # "done" /\ Here.op = "irq on"
      /\ UNCHANGED untouched /\ Step /\ faults' = faults /\ Ctl(Commanded("WRITE_CFG"))
  BY DEF IInv, Shapes, WaitAndCommand, At
<1>2. \/ thread.fn = "keyboard_init" /\ thread.at = 32
      \/ thread.fn = "keyboard_reenable_irq" /\ thread.at = 5
  BY <1>1, KeyboardPlaces
<1> QED BY <1>1, <1>2, WriteStep, Zenon

LEMMA AskKeeps ==
  ASSUME IInv, WaitAndCommand("ask", "READ_CFG")
  PROVE  IInv'
<1>0. /\ IsThread(thread) /\ IsCtl(ctl) /\ faults \in Nat /\ thread.fn # "done"
      /\ Here.op = "ask" /\ UNCHANGED untouched /\ Step
      /\ faults' = faults /\ Ctl(Commanded("READ_CFG"))
  BY DEF IInv, Shapes, WaitAndCommand, At, untouched
<1>1. thread.fn = "keyboard_reenable_irq" /\ thread.at = 3
  BY <1>0, KeyboardPlaces
<1>2. Quiet
  <2> DEFINE c == Commanded("READ_CFG")
             a == Append(ctl.ans, Byte(ctl.cfg, "answer"))
  <2>1. c = [cfg |-> ctl.cfg, full |-> ctl.full, out |-> ctl.out, ans |-> a, next |-> "kbd"]
    BY <1>0, CommandParts
  <2>2. Ctl(c)
    BY <1>0
  <2> HIDE DEF c, a
  <2>3. IsCtl(c)
    BY <2>1 DEF IsCtl
  <2> QED BY <2>2, <2>3, CtlMoves, Zenon
<1>3. /\ IsThread(thread') /\ thread'.fn = thread.fn /\ thread'.at = thread.at + 1
      /\ thread'.cfg = thread.cfg
  BY <1>0, <1>1, LastPlaces
<1> QED BY <1>0, <1>1, <1>2, <1>3, AgainTalk

-----------------------------------------------------------------------------
(* The route of IRQ1 *)

\* The thread when it sets the entry up, in either function.
LEMMA RoutePlaces ==
  ASSUME IInv, ioapic_set_redirection
  PROVE  /\ IsThread(thread) /\ IsThread(thread') /\ thread'.fn = thread.fn
         /\ thread'.at = thread.at + 1 /\ thread'.cfg = thread.cfg
         /\ \/ /\ At("low")
               /\ \/ thread.fn = "keyboard_init" /\ thread.at = 30
                  \/ thread.fn = "keyboard_reenable_irq" /\ thread.at = 1
            \/ /\ ~At("low")
               /\ \/ thread.fn = "keyboard_init" /\ thread.at = 31
                  \/ thread.fn = "keyboard_reenable_irq" /\ thread.at = 2
<1>1. IsThread(thread) /\ thread.fn # "done" /\ Step /\ (At("low") \/ At("high"))
  BY DEF IInv, Shapes, ioapic_set_redirection, At
<1>2. /\ Here.op = "low" => \/ thread.fn = "keyboard_init" /\ thread.at = 30
                            \/ thread.fn = "keyboard_reenable_irq" /\ thread.at = 1
      /\ Here.op = "high" => \/ thread.fn = "keyboard_init" /\ thread.at = 31
                             \/ thread.fn = "keyboard_reenable_irq" /\ thread.at = 2
  BY <1>1, KeyboardPlaces
<1>3. (At("low") => Here.op = "low") /\ (~At("low") => Here.op = "high")
  BY <1>1 DEF At
<1>4. \/ /\ At("low")
         /\ \/ thread.fn = "keyboard_init" /\ thread.at = 30
            \/ thread.fn = "keyboard_reenable_irq" /\ thread.at = 1
      \/ /\ ~At("low")
         /\ \/ thread.fn = "keyboard_init" /\ thread.at = 31
            \/ thread.fn = "keyboard_reenable_irq" /\ thread.at = 2
  BY <1>2, <1>3, Zenon
<1> DEFINE t == Forward(thread, 1)
<1>5. thread' = t
  BY <1>1 DEF Step
<1>6. IsThread(t) /\ t.fn = thread.fn /\ t.at = thread.at + 1 /\ t.cfg = thread.cfg
  <2>1. CASE thread.fn = "keyboard_init" /\ thread.at \in {30, 31}
    <3>1. 1 \in Nat \ {0} /\ thread.at + 1 <= 34
      BY <2>1
    <3>2. IsThread(t) /\ t.fn = "keyboard_init" /\ t.at = thread.at + 1 /\ t.cfg = thread.cfg
      BY <1>1, <2>1, <3>1, GoesOn, Zenon
    <3> QED BY <2>1, <3>2
  <2>2. CASE thread.fn = "keyboard_reenable_irq" /\ thread.at \in {1, 2}
    <3>1. thread.at < 7
      BY <2>2
    <3>2. /\ IsThread(t) /\ t.cfg = thread.cfg
          /\ thread.at < 7 => t.fn = "keyboard_reenable_irq" /\ t.at = thread.at + 1
      BY <1>1, <2>2, AgainForward, Zenon
    <3> HIDE DEF t
    <3> QED BY <2>2, <3>1, <3>2
  <2> QED BY <1>4, <2>1, <2>2
<1> HIDE DEF t
<1> QED BY <1>1, <1>4, <1>5, <1>6, Zenon

\* A step that sets the entry up, in terms of the entries it leaves.
LEMMA RouteStep ==
  ASSUME IInv, IsThread(thread'), thread'.fn = thread.fn, thread'.at = thread.at + 1,
         thread'.cfg = thread.cfg,
         \/ thread.fn = "keyboard_init" /\ thread.at \in {30, 31}
         \/ thread.fn = "keyboard_reenable_irq" /\ thread.at \in {1, 2},
         UNCHANGED <<cpu, apic, lapic, ctl, setup, faults, robbed>>,
         redir' \in [IoapicAddresses -> [Pins -> Entries]],
         apic.ioapic_base # 0 =>
           \A p \in Pins :
             LET entry == redir'[apic.ioapic_base][p]
             IN /\ entry.dest = 0
                /\ ~entry.low.masked =>
                     <<apic.ioapic_base, p>> = setup.wire /\ entry.low.vector = IRQ_KEYBOARD,
         thread.fn = "keyboard_reenable_irq" /\ apic.ioapic_base = setup.wire[1] =>
           LET low == redir'[setup.wire[1]][setup.wire[2]].low
           IN ~low.masked /\ low.vector = IRQ_KEYBOARD
  PROVE  IInv'
<1>1. Shapes'
  BY DEF IInv, Shapes
<1>2. Routed'
  BY DEF Routed
<1>3. NoEarlyIrq'
  BY <1>2 DEF NoEarlyIrq
<1>4. FromMadt'
  BY DEF IInv, FromMadt
<1>5. Masked'
  BY DEF IInv, Masked, Early
<1>6. KeyboardOn'
  BY DEF KeyboardOn
<1>7. AnswersKept'
  BY DEF IInv, AnswersKept
<1>8. ASSUME faults = 0 PROVE Dialogue'
  <2>1. CASE thread.fn = "keyboard_init" /\ thread.at \in {30, 31}
    <3>1. Good(thread.cfg) /\ Good(ctl.cfg) /\ ctl.next = "kbd"
      <4>1. Dialogue
        BY <1>8 DEF IInv
      <4>2. thread.at > 5 /\ thread.at \in 12 .. 32 /\ thread.at \in 12 .. 34
        BY <2>1
      <4> QED BY <2>1, <4>1, <4>2, Zenon DEF Dialogue
    <3>2. Good(thread.cfg)' /\ Good(ctl.cfg)' /\ ctl'.next = "kbd"
      BY <3>1, GoodStays
    <3>3. thread'.fn = "keyboard_init" /\ thread'.at \in 12 .. 34 /\ thread'.at # 33
      BY <2>1
    <3> QED BY <3>2, <3>3, SayLate
  <2>2. CASE thread.fn = "keyboard_reenable_irq" /\ thread.at \in {1, 2}
    <3>1. thread'.fn = "keyboard_reenable_irq" /\ thread'.at # 1
      BY <2>2
    <3> QED BY <3>1 DEF Dialogue
  <2> QED BY <2>1, <2>2
<1> QED BY <1>1, <1>3, <1>4, <1>5, <1>6, <1>7, <1>8 DEF IInv

\* Either write reaches the pin the keyboard is wired to, on the IO APIC that
\* is in use, and the entry ends open with the keyboard's vector.
LEMMA RouteKeeps ==
  ASSUME IInv, ioapic_set_redirection
  PROVE  IInv'
<1> DEFINE route == acpi_get_isa_override(apic.isa_overrides, 1)
           w == RedirectionLow(IRQ_KEYBOARD, FALSE, route.flags)
           a == apic.ioapic_base
           p == setup.wire[2]
<1>1. /\ IsThread(thread') /\ thread'.fn = thread.fn /\ thread'.at = thread.at + 1
      /\ thread'.cfg = thread.cfg
      /\ \/ /\ At("low")
            /\ \/ thread.fn = "keyboard_init" /\ thread.at = 30
               \/ thread.fn = "keyboard_reenable_irq" /\ thread.at = 1
         \/ /\ ~At("low")
            /\ \/ thread.fn = "keyboard_init" /\ thread.at = 31
               \/ thread.fn = "keyboard_reenable_irq" /\ thread.at = 2
  BY RoutePlaces, Zenon
<1>2. \/ thread.fn = "keyboard_init" /\ thread.at \in {30, 31}
      \/ thread.fn = "keyboard_reenable_irq" /\ thread.at \in {1, 2}
  BY <1>1
<1>3. UNCHANGED <<cpu, apic, lapic, ctl, setup, faults, robbed>>
  BY DEF ioapic_set_redirection, others
<1>4. /\ redir \in [IoapicAddresses -> [Pins -> Entries]] /\ setup.wire[1] \in IoapicAddresses
      /\ p \in Pins /\ setup.wire = <<setup.wire[1], p>> /\ 0 \notin IoapicAddresses
  BY Wired, Constants DEF IInv, Shapes
<1>5. /\ At("low") => IoapicWrite(RedirectionReg(route.gsi), w)
      /\ ~At("low") => IoapicWrite(RedirectionReg(route.gsi) + 1, 0)
  BY DEF ioapic_set_redirection
<1>6. CASE a = 0
  <2>1. redir' = redir
    BY <1>5, <1>6 DEF IoapicWrite
  <2>2. apic.ioapic_base # setup.wire[1]
    BY <1>4, <1>6
  <2> QED BY <1>1, <1>2, <1>3, <1>4, <1>6, <2>1, <2>2, RouteStep
<1>7. CASE a # 0
  <2>1. /\ a = setup.wire[1] /\ a \in IoapicAddresses /\ route.gsi \in Nat
        /\ route.gsi % 256 = p
    BY <1>7, BaseIsWire
  <2>2. w \in Lows /\ w.masked = FALSE /\ w.vector = IRQ_KEYBOARD
    BY DEF RedirectionLow, Low, Lows
  <2>3. RedirectionReg(route.gsi) = IOAPIC_REDIR_BASE + 2 * p
    <3>1. p \in Nat
      BY <1>4, Constants DEF Pins
    <3>2. RedirectionReg(route.gsi) = IOAPIC_REDIR_BASE + p * 2
      BY <2>1 DEF RedirectionReg
    <3> HIDE DEF p
    <3> QED BY <3>1, <3>2
  <2>4. \A q \in Pins :
          LET entry == redir[a][q]
          IN /\ entry.dest = 0
             /\ ~entry.low.masked => <<a, q>> = setup.wire /\ entry.low.vector = IRQ_KEYBOARD
    BY <1>2, <1>7 DEF IInv, Masked, Early
  <2>5. <<a, p>> = setup.wire
    BY <1>4, <2>1
  <2> HIDE DEF w, a, p
  <2>6. CASE At("low")
    <3>1. SetLow(a, p, w)
      <4>1. IoapicWrite(IOAPIC_REDIR_BASE + 2 * p, w)
        BY <1>5, <2>3, <2>6, Zenon
      <4> QED BY <1>7, <4>1 DEF IoapicWrite, SetLow, a
    <3>2. Becomes(a, p, w, redir[a][p].dest)
      BY <1>4, <2>1, <2>2, <3>1, LowWritten, Zenon
    <3>3. /\ redir' \in [IoapicAddresses -> [Pins -> Entries]]
          /\ redir'[a][p].low = w /\ redir'[a][p].dest = 0
          /\ \A q \in Pins : q # p => redir'[a][q] = redir[a][q]
      BY <1>4, <2>1, <2>4, <3>2 DEF Becomes
    <3>4. ASSUME NEW q \in Pins
          PROVE  /\ redir'[a][q].dest = 0
                 /\ ~redir'[a][q].low.masked =>
                      <<a, q>> = setup.wire /\ redir'[a][q].low.vector = IRQ_KEYBOARD
      <4>1. CASE q = p
        BY <2>2, <2>5, <3>3, <4>1
      <4>2. CASE q # p
        BY <2>4, <3>3, <4>2
      <4> QED BY <4>1, <4>2
    <3>5. ~redir'[a][p].low.masked /\ redir'[a][p].low.vector = IRQ_KEYBOARD
      BY <2>2, <3>3
    <3> QED BY <1>1, <1>2, <1>3, <2>1, <3>3, <3>4, <3>5, RouteStep DEF a, p
  <2>7. CASE ~At("low")
    <3>1. SetDest(a, p)
      <4>1. IoapicWrite(IOAPIC_REDIR_BASE + 2 * p + 1, 0)
        BY <1>5, <2>3, <2>7, Zenon
      <4> QED BY <1>7, <4>1 DEF IoapicWrite, SetDest, a
    <3>2. Becomes(a, p, redir[a][p].low, 0)
      BY <1>4, <2>1, <3>1, DestWritten, Zenon
    <3>3. /\ redir' \in [IoapicAddresses -> [Pins -> Entries]]
          /\ redir'[a][p].low = redir[a][p].low /\ redir'[a][p].dest = 0
          /\ \A q \in Pins : q # p => redir'[a][q] = redir[a][q]
      BY <2>1, <3>2 DEF Becomes
    <3>4. ASSUME NEW q \in Pins
          PROVE  /\ redir'[a][q].dest = 0
                 /\ ~redir'[a][q].low.masked =>
                      <<a, q>> = setup.wire /\ redir'[a][q].low.vector = IRQ_KEYBOARD
      <4>1. CASE q = p
        BY <2>4, <3>3, <4>1
      <4>2. CASE q # p
        BY <2>4, <3>3, <4>2
      <4> QED BY <4>1, <4>2
    <3>5. thread.fn = "keyboard_reenable_irq" =>
            ~redir'[a][p].low.masked /\ redir'[a][p].low.vector = IRQ_KEYBOARD
      <4>1. thread.fn = "keyboard_reenable_irq" => thread.at > 1
        BY <1>1, <2>7
      <4>2. apic.ioapic_base = setup.wire[1] /\ a = setup.wire[1] /\ p = setup.wire[2]
        BY <2>1 DEF a, p
      <4>3. thread.fn = "keyboard_reenable_irq" =>
              LET low == redir[setup.wire[1]][setup.wire[2]].low
              IN ~low.masked /\ low.vector = IRQ_KEYBOARD
        BY <4>1, <4>2 DEF IInv, KeyboardOn
      <4> QED BY <3>3, <4>2, <4>3
    <3> QED BY <1>1, <1>2, <1>3, <2>1, <3>3, <3>4, <3>5, RouteStep DEF a, p
  <2> QED BY <2>6, <2>7
<1> QED BY <1>6, <1>7

-----------------------------------------------------------------------------
(* The steps beside the thread *)

\* The local APIC, with one of its registers changed.
LEMMA LapicParts ==
  ASSUME IsLapic(lapic), NEW x
  PROVE  /\ IsLapic([lapic EXCEPT !.cur = x]) /\ [lapic EXCEPT !.cur = x].irr = lapic.irr
         /\ IsLapic([lapic EXCEPT !.isr = x]) /\ [lapic EXCEPT !.isr = x].irr = lapic.irr
         /\ IsLapic([lapic EXCEPT !.irr = x]) /\ [lapic EXCEPT !.irr = x].irr = x
<1>1. [lapic EXCEPT !.cur = x] =
        [on |-> lapic.on, irr |-> lapic.irr, isr |-> lapic.isr,
         armed |-> lapic.armed, init |-> lapic.init, cur |-> x]
  BY DEF IsLapic
<1>2. [lapic EXCEPT !.isr = x] =
        [on |-> lapic.on, irr |-> lapic.irr, isr |-> x,
         armed |-> lapic.armed, init |-> lapic.init, cur |-> lapic.cur]
  BY DEF IsLapic
<1>3. [lapic EXCEPT !.irr = x] =
        [on |-> lapic.on, irr |-> x, isr |-> lapic.isr,
         armed |-> lapic.armed, init |-> lapic.init, cur |-> lapic.cur]
  BY DEF IsLapic
<1>4. IsLapic([lapic EXCEPT !.cur = x]) /\ [lapic EXCEPT !.cur = x].irr = lapic.irr
  BY <1>1 DEF IsLapic
<1>5. IsLapic([lapic EXCEPT !.isr = x]) /\ [lapic EXCEPT !.isr = x].irr = lapic.irr
  BY <1>2 DEF IsLapic
<1>6. IsLapic([lapic EXCEPT !.irr = x]) /\ [lapic EXCEPT !.irr = x].irr = x
  BY <1>3 DEF IsLapic
<1> QED BY <1>4, <1>5, <1>6

\* The dialogue is about the configuration and the byte on its way alone.
LEMMA SayOther ==
  ASSUME Dialogue, thread' = thread, setup' = setup, ctl'.cfg = ctl.cfg, ctl'.next = ctl.next,
         thread.fn \notin {"keyboard_init", "keyboard_reenable_irq", "done"} => ctl'.ans = << >>,
         thread.fn = "keyboard_init" =>
           /\ thread.at \in 1 .. 4 => ctl'.ans = << >>
           /\ thread.at = 4 => ~ctl'.full
           /\ thread.at = 5 =>
                \/ ~ctl'.full /\ ctl'.ans = <<Byte(ctl.cfg, "answer")>>
                \/ ctl'.full /\ ctl'.ans = << >> /\ ctl'.out = Byte(ctl.cfg, "answer")
  PROVE  Dialogue'
<1>1. /\ Good(thread.cfg) => Good(thread.cfg)'
      /\ Good(ctl.cfg) => Good(ctl.cfg)'
  BY DEF Good
<1> QED BY <1>1, Zenon DEF Dialogue

\* What leaves the 8042 alone leaves the dialogue alone.
LEMMA SilentStep ==
  ASSUME IInv, UNCHANGED <<thread, apic, redir, setup, faults, robbed, ctl>>,
         IsCpu(cpu'), cpu'.if = cpu.if, cpu'.mode = "irq" => Routed,
         IsLapic(lapic'), IRQ_KEYBOARD \in lapic'.irr => Routed
  PROVE  IInv'
<1>1. faults = 0 => Dialogue'
  BY DEF IInv, Dialogue, Good
<1>2. IsCtl(ctl) /\ (robbed => thread.fn \in {"keyboard_reenable_irq", "done"})
  BY DEF IInv, Shapes, AnswersKept
<1> QED BY <1>1, <1>2, OtherStep

LEMMA ClockKeeps ==
  ASSUME IInv, Elapse \/ Type
  PROVE  IInv'
<1>1. /\ IsLapic(lapic) /\ IsCpu(cpu) /\ (cpu.mode = "irq" => Routed)
      /\ IRQ_KEYBOARD \in lapic.irr => Routed
  BY DEF IInv, Shapes, NoEarlyIrq
<1>2. UNCHANGED <<thread, cpu, apic, redir, setup, faults, robbed, ctl>>
  BY DEF Elapse, Type, others
<1>3. \/ lapic' = lapic
      \/ \E x : lapic' = [lapic EXCEPT !.cur = x]
  BY DEF Elapse, Type
<1>4. IsLapic(lapic') /\ lapic'.irr = lapic.irr
  <2>1. ASSUME NEW x, lapic' = [lapic EXCEPT !.cur = x]
        PROVE  IsLapic(lapic') /\ lapic'.irr = lapic.irr
    BY <1>1, <2>1, LapicParts, Zenon
  <2> QED BY <1>1, <1>3, <2>1
<1> QED BY <1>1, <1>2, <1>4, SilentStep

LEMMA CpuMode ==
  ASSUME IsCpu(cpu), NEW x
  PROVE  /\ IsCpu([cpu EXCEPT !.mode = x]) /\ [cpu EXCEPT !.mode = x].if = cpu.if
         /\ [cpu EXCEPT !.mode = x].mode = x
<1>1. [cpu EXCEPT !.mode = x] = [if |-> cpu.if, mode |-> x, handlers |-> cpu.handlers,
                                 msr |-> cpu.msr]
  BY DEF IsCpu
<1> QED BY <1>1 DEF IsCpu

\* A tick takes the processor from the thread, and the thread gets it back.
LEMMA PreemptKeeps ==
  ASSUME IInv, TimerInterrupt \/ Resume
  PROVE  IInv'
<1>1. /\ IsLapic(lapic) /\ IsCpu(cpu)
      /\ IRQ_KEYBOARD \in lapic.irr => Routed
  BY DEF IInv, Shapes, NoEarlyIrq
<1>2. UNCHANGED <<thread, apic, redir, setup, faults, robbed, ctl>>
  BY DEF TimerInterrupt, Resume, others, hardware
<1>3. IsCpu(cpu') /\ cpu'.if = cpu.if /\ (cpu'.mode = "irq" => Routed)
  <2>1. cpu' = [cpu EXCEPT !.mode = "away"] \/ cpu' = [cpu EXCEPT !.mode = "main"]
    BY DEF TimerInterrupt, Resume
  <2>2. IsCpu(cpu') /\ cpu'.if = cpu.if /\ (cpu'.mode = "away" \/ cpu'.mode = "main")
    BY <1>1, <2>1, CpuMode, Zenon
  <2> QED BY <2>2
<1>4. IsLapic(lapic') /\ lapic'.irr = lapic.irr
  <2>1. lapic' = lapic \/ lapic' = [lapic EXCEPT !.isr = {IRQ_APIC_TIMER}]
    BY DEF TimerInterrupt, Resume, hardware
  <2> QED BY <1>1, <2>1, LapicParts, Zenon
<1> QED BY <1>1, <1>2, <1>3, <1>4, SilentStep

\* A byte arrives in the 8042.
LEMMA DeviceByteKeeps ==
  ASSUME IInv, DeviceByte
  PROVE  IInv'
<1>1. /\ IsCtl(ctl) /\ IsCpu(cpu) /\ (cpu.mode = "irq" => Routed)
      /\ robbed => thread.fn \in {"keyboard_reenable_irq", "done"}
  BY DEF IInv, Shapes, NoEarlyIrq, AnswersKept
<1>2. UNCHANGED <<thread, cpu, apic, redir, setup, faults, robbed>> /\ ~ctl.full
  BY DEF DeviceByte, others
<1> DEFINE C(out, ans) == [cfg |-> ctl.cfg, full |-> TRUE, out |-> out, ans |-> ans,
                           next |-> ctl.next]
<1>3. \/ ctl.ans # << >> /\ Ctl(C(Head(ctl.ans), Tail(ctl.ans)))
      \/ PS2_CFG_CLK1 \notin ctl.cfg /\ Ctl(C(Head(kbd), ctl.ans))
  <2>1. ASSUME NEW x, NEW y
        PROVE  /\ [ctl EXCEPT !.full = TRUE, !.out = x, !.ans = y] = C(x, y)
               /\ [ctl EXCEPT !.full = TRUE, !.out = x] = C(x, ctl.ans)
    <3> DEFINE T == TRUE
               u == [ctl EXCEPT !.full = T]
               v == [u EXCEPT !.out = x]
    <3>1. /\ [ctl EXCEPT !.full = TRUE, !.out = x, !.ans = y] = [v EXCEPT !.ans = y]
          /\ [ctl EXCEPT !.full = TRUE, !.out = x] = v
      OBVIOUS
    <3>2. C(x, y) = [cfg |-> ctl.cfg, full |-> T, out |-> x, ans |-> y, next |-> ctl.next]
          /\ C(x, ctl.ans) = [cfg |-> ctl.cfg, full |-> T, out |-> x, ans |-> ctl.ans,
                              next |-> ctl.next]
      OBVIOUS
    <3> HIDE DEF T, C
    <3>3. u = [cfg |-> ctl.cfg, full |-> T, out |-> ctl.out, ans |-> ctl.ans,
               next |-> ctl.next]
      BY <1>1 DEF IsCtl
    <3> HIDE DEF u
    <3>4. v = [cfg |-> ctl.cfg, full |-> T, out |-> x, ans |-> ctl.ans, next |-> ctl.next]
      BY <3>3
    <3> HIDE DEF v
    <3>5. [v EXCEPT !.ans = y] = [cfg |-> ctl.cfg, full |-> T, out |-> x, ans |-> y,
                                  next |-> ctl.next]
      BY <3>4
    <3> QED BY <3>1, <3>2, <3>4, <3>5, Zenon
  <2>2. \/ /\ ctl.ans # << >>
           /\ Ctl([ctl EXCEPT !.full = TRUE, !.out = Head(ctl.ans), !.ans = Tail(ctl.ans)])
        \/ /\ PS2_CFG_CLK1 \notin ctl.cfg
           /\ Ctl([ctl EXCEPT !.full = TRUE, !.out = Head(kbd)])
    BY DEF DeviceByte, Clocked
  <2> HIDE DEF C
  <2> QED BY <2>1, <2>2, Zenon
<1>4. ASSUME NEW x, NEW y
      PROVE  /\ IsCtl(C(x, y)) /\ C(x, y).cfg = ctl.cfg /\ C(x, y).next = ctl.next
             /\ C(x, y).full = TRUE /\ C(x, y).out = x /\ C(x, y).ans = y
  BY DEF IsCtl
<1> HIDE DEF C
<1>5. CASE ctl.ans # << >> /\ Ctl(C(Head(ctl.ans), Tail(ctl.ans)))
  <2>1. Quiet /\ ctl' = C(Head(ctl.ans), Tail(ctl.ans))
    BY <1>4, <1>5, CtlMoves, Zenon
  <2>2. /\ ctl'.cfg = ctl.cfg /\ ctl'.next = ctl.next /\ ctl'.full = TRUE
        /\ ctl'.out = Head(ctl.ans) /\ ctl'.ans = Tail(ctl.ans)
    <3> DEFINE c == C(Head(ctl.ans), Tail(ctl.ans))
    <3>1. /\ c.cfg = ctl.cfg /\ c.next = ctl.next /\ c.full = TRUE
          /\ c.out = Head(ctl.ans) /\ c.ans = Tail(ctl.ans)
      BY DEF C
    <3>2. ctl' = c
      BY <2>1
    <3> HIDE DEF c
    <3> QED BY <3>1, <3>2
  <2>3. ASSUME faults = 0 PROVE Dialogue'
    <3>1. Dialogue
      BY <2>3 DEF IInv
    <3>2. \/ thread.fn \in {"keyboard_reenable_irq", "done"}
          \/ thread.fn = "keyboard_init" /\ thread.at \notin 1 .. 4
      BY <1>5, <3>1 DEF Dialogue
    <3>3. CASE thread.fn = "keyboard_init" /\ thread.at = 5
      <4>1. ctl.ans = <<Byte(ctl.cfg, "answer")>>
        BY <1>2, <3>1, <3>3 DEF Dialogue
      <4>2. \A x : Head(<<x>>) = x /\ Tail(<<x>>) = << >>
        OBVIOUS
      <4>3. ctl'.out = Byte(ctl.cfg, "answer") /\ ctl'.ans = << >>
        BY <2>2, <4>1, <4>2, Zenon
      <4>4. thread' = thread /\ setup' = setup /\ ctl'.cfg = ctl.cfg /\ ctl'.next = ctl.next
        BY <1>2, <2>2
      <4>5. /\ thread.fn \notin {"keyboard_init", "keyboard_reenable_irq", "done"} =>
                 ctl'.ans = << >>
            /\ thread.at # 4 /\ ctl'.full
        BY <2>2, <3>3
      <4> QED BY <3>1, <4>3, <4>4, <4>5, SayOther, Zenon
    <3>4. CASE ~(thread.fn = "keyboard_init" /\ thread.at = 5)
      <4>1. thread.fn = "keyboard_init" => thread.at \notin 1 .. 4 /\ thread.at # 4 /\ thread.at # 5
        BY <3>2, <3>4
      <4> QED BY <1>2, <2>2, <3>1, <3>2, <4>1, SayOther
    <3> QED BY <3>3, <3>4
  <2> QED BY <1>1, <1>2, <2>1, <2>2, <2>3, OtherStep DEF Quiet
<1>6. CASE PS2_CFG_CLK1 \notin ctl.cfg /\ Ctl(C(Head(kbd), ctl.ans))
  <2>1. Quiet /\ ctl' = C(Head(kbd), ctl.ans)
    BY <1>4, <1>6, CtlMoves, Zenon
  <2>2. ctl'.cfg = ctl.cfg /\ ctl'.next = ctl.next /\ ctl'.ans = ctl.ans
    <3> DEFINE c == C(Head(kbd), ctl.ans)
    <3>1. c.cfg = ctl.cfg /\ c.next = ctl.next /\ c.ans = ctl.ans
      BY DEF C
    <3>2. ctl' = c
      BY <2>1
    <3> HIDE DEF c
    <3> QED BY <3>1, <3>2
  <2>3. ASSUME faults = 0 PROVE Dialogue'
    <3>1. Dialogue
      BY <2>3 DEF IInv
    <3>2. thread.fn = "keyboard_init" => thread.at \notin 2 .. 5
      BY <1>6, <3>1 DEF Dialogue
    <3>3. thread.fn = "keyboard_init" => thread.at # 4 /\ thread.at # 5
      BY <3>2
    <3>4. /\ thread.fn \notin {"keyboard_init", "keyboard_reenable_irq", "done"} => ctl.ans = << >>
          /\ thread.fn = "keyboard_init" /\ thread.at \in 1 .. 4 => ctl.ans = << >>
      BY <3>1 DEF Dialogue
    <3> QED BY <1>2, <2>2, <3>1, <3>3, <3>4, SayOther
  <2> QED BY <1>1, <1>2, <2>1, <2>2, <2>3, OtherStep DEF Quiet
<1> QED BY <1>3, <1>5, <1>6

\* The handler of IRQ1 is entered and left.
LEMMA IrqEnterKeeps ==
  ASSUME IInv, IrqEnter \/ IrqReturn
  PROVE  IInv'
<1>1. /\ IsLapic(lapic) /\ IsCpu(cpu) /\ (cpu.mode = "irq" => Routed)
      /\ IRQ_KEYBOARD \in lapic.irr => Routed
  BY DEF IInv, Shapes, NoEarlyIrq
<1>2. UNCHANGED <<thread, apic, redir, setup, faults, robbed, ctl>>
  BY DEF IrqEnter, IrqReturn, others
<1>3. IsCpu(cpu') /\ cpu'.if = cpu.if /\ (cpu'.mode = "irq" => Routed)
  <2>2. \/ cpu' = cpu
        \/ cpu' = [cpu EXCEPT !.mode = "irq"] /\ IRQ_KEYBOARD \in lapic.irr
        \/ cpu' = [cpu EXCEPT !.mode = "main"]
    BY DEF IrqEnter, IrqReturn
  <2>3. CASE cpu' = cpu
    BY <1>1, <2>3
  <2>4. CASE cpu' = [cpu EXCEPT !.mode = "irq"] /\ IRQ_KEYBOARD \in lapic.irr
    BY <1>1, <2>4, CpuMode, Zenon
  <2>5. CASE cpu' = [cpu EXCEPT !.mode = "main"]
    <3>1. IsCpu(cpu') /\ cpu'.if = cpu.if /\ cpu'.mode = "main"
      BY <1>1, <2>5, CpuMode, Zenon
    <3> QED BY <3>1
  <2> QED BY <2>2, <2>3, <2>4, <2>5
<1>4. IsLapic(lapic') /\ (IRQ_KEYBOARD \in lapic'.irr => Routed)
  <2> DEFINE less == lapic.irr \ {IRQ_KEYBOARD}
             u == [lapic EXCEPT !.irr = less]
  <2>1. /\ \/ lapic' = [u EXCEPT !.isr = {IRQ_KEYBOARD}]
           \/ lapic' = [u EXCEPT !.isr = {}]
           \/ lapic' = u
           \/ lapic' = [lapic EXCEPT !.isr = {}]
           \/ lapic' = lapic
    BY DEF IrqEnter, IrqReturn, Eoi
  <2>2. ASSUME NEW l, IsLapic(l), NEW x
        PROVE  IsLapic([l EXCEPT !.isr = x]) /\ [l EXCEPT !.isr = x].irr = l.irr
    <3>1. [l EXCEPT !.isr = x] = [on |-> l.on, irr |-> l.irr, isr |-> x,
                                  armed |-> l.armed, init |-> l.init, cur |-> l.cur]
      BY <2>2 DEF IsLapic
    <3> QED BY <3>1 DEF IsLapic
  <2>3. IRQ_KEYBOARD \notin less
    OBVIOUS
  <2> HIDE DEF less
  <2>4. IsLapic(u) /\ u.irr = less
    BY <1>1, LapicParts, Zenon
  <2> HIDE DEF u
  <2>5. CASE lapic' = u \/ \E x : lapic' = [u EXCEPT !.isr = x]
    <3>1. IsLapic(lapic') /\ lapic'.irr = less
      <4>1. ASSUME NEW x, lapic' = [u EXCEPT !.isr = x]
            PROVE  IsLapic(lapic') /\ lapic'.irr = less
        <5>1. IsLapic([u EXCEPT !.isr = x]) /\ [u EXCEPT !.isr = x].irr = less
          BY <2>2, <2>4
        <5> QED BY <4>1, <5>1, Zenon
      <4> QED BY <2>4, <2>5, <4>1
    <3> QED BY <2>3, <3>1
  <2>6. CASE lapic' = lapic \/ \E x : lapic' = [lapic EXCEPT !.isr = x]
    <3>1. IsLapic(lapic') /\ lapic'.irr = lapic.irr
      <4>1. ASSUME NEW x, lapic' = [lapic EXCEPT !.isr = x]
            PROVE  IsLapic(lapic') /\ lapic'.irr = lapic.irr
        <5>1. IsLapic([lapic EXCEPT !.isr = x]) /\ [lapic EXCEPT !.isr = x].irr = lapic.irr
          BY <1>1, <2>2
        <5> QED BY <4>1, <5>1, Zenon
      <4> QED BY <1>1, <2>6, <4>1
    <3> QED BY <1>1, <3>1
  <2>7. \/ lapic' = u \/ \E x : lapic' = [u EXCEPT !.isr = x]
        \/ lapic' = lapic \/ \E x : lapic' = [lapic EXCEPT !.isr = x]
    BY <2>1, Zenon
  <2> QED BY <2>5, <2>6, <2>7, Zenon
<1> QED BY <1>2, <1>3, <1>4, SilentStep

\* The handler or the shell takes a byte: from the moment they can run, no
\* function but keyboard_reenable_irq waits for one.
LEMMA IrqByteKeeps ==
  ASSUME IInv, IrqByte \/ Poll
  PROVE  IInv'
<1>1. /\ IsThread(thread) /\ IsCtl(ctl) /\ IsCpu(cpu) /\ Routed
      /\ robbed => thread.fn \in {"keyboard_reenable_irq", "done"}
  BY DEF IInv, Shapes, NoEarlyIrq, AnswersKept, IrqByte, Poll, Queued, Routed
<1>2. UNCHANGED <<thread, cpu, apic, redir, setup, faults>> /\ Ctl(Taken)
      /\ (robbed' => robbed \/ Waiting)
  BY DEF IrqByte, Poll
<1>3. Waiting => thread.fn \in {"keyboard_reenable_irq", "done"}
  <2> SUFFICES ASSUME Waiting, thread.fn \notin {"keyboard_reenable_irq", "done"} PROVE FALSE
    OBVIOUS
  <2>1. thread.fn = "keyboard_init" /\ thread.at > 30
    BY <1>1 DEF Routed
  <2>2. Here.op = "read" \/ Here.op = "ack" \/ Here.op = "await"
    BY DEF Waiting
  <2>3. thread.at \in {5, 9, 13, 17} \/ thread.at \in {16, 20, 22, 24, 26, 28}
    BY <1>1, <2>1, <2>2, KeyboardPlaces
  <2> QED BY <2>1, <2>3
<1>4. Quiet /\ ctl'.cfg = ctl.cfg /\ ctl'.next = ctl.next
  <2>1. IsCtl(Taken) /\ Taken.cfg = ctl.cfg /\ Taken.next = ctl.next
    BY <1>1, TakenParts
  <2>2. Quiet /\ ctl' = Taken
    BY <1>2, <2>1, CtlMoves, Zenon
  <2> QED BY <2>1, <2>2
<1>5. ASSUME faults = 0 PROVE Dialogue'
  <2>1. Dialogue
    BY <1>5 DEF IInv
  <2>2. /\ thread.fn \in {"keyboard_init", "keyboard_reenable_irq", "done"}
        /\ thread.fn = "keyboard_init" => thread.at \notin 1 .. 4 /\ thread.at # 4 /\ thread.at # 5
    BY <1>1 DEF Routed
  <2> QED BY <1>2, <1>4, <2>1, <2>2, SayOther
<1> QED BY <1>1, <1>2, <1>3, <1>4, <1>5, OtherStep DEF Quiet

-----------------------------------------------------------------------------
(* The theorems *)

LEMMA NextStep == IInv /\ [Next]_vars => IInv'
<1> SUFFICES ASSUME IInv, [Next]_vars PROVE IInv'
  OBVIOUS
<1>1. CASE SetUpApics
  BY <1>1, PicOutKeeps, TablesKeeps, LapicInitKeeps, MapIoapicKeeps, MaskKeeps, Zenon
     DEF SetUpApics
<1>2. CASE Sti \/ irq_register_handler \/ StartTimer
  BY <1>2, StiKeeps, RegisterKeeps, TimerKeeps, Zenon
<1>3. CASE SetUpKeyboard
  BY <1>3, SendControllerKeeps, ReadKeeps, ReadTimeOutKeeps, FlushKeeps, SendConfigKeeps,
     SendCommandKeeps, AcknowledgedKeeps, AckTimeOutKeeps, RouteKeeps, PutKeeps, AwaitKeeps,
     IrqOnKeeps, AskKeeps, Zenon DEF SetUpKeyboard
<1>4. CASE Elapse \/ TimerInterrupt \/ Resume \/ Type \/ DeviceByte
  BY <1>4, ClockKeeps, PreemptKeeps, DeviceByteKeeps, Zenon
<1>5. CASE IrqEnter \/ Handler \/ Poll
  BY <1>5, IrqEnterKeeps, IrqByteKeeps, Zenon DEF Handler
<1>6. CASE UNCHANGED vars
  <2>1. /\ UNCHANGED <<thread, apic, redir, setup, faults, robbed, ctl>>
        /\ UNCHANGED <<cpu, lapic>>
    BY <1>6 DEF vars
  <2>2. /\ IsLapic(lapic) /\ IsCpu(cpu) /\ (cpu.mode = "irq" => Routed)
        /\ IRQ_KEYBOARD \in lapic.irr => Routed
    BY DEF IInv, Shapes, NoEarlyIrq
  <2> QED BY <2>1, <2>2, SilentStep
<1> QED BY <1>1, <1>2, <1>3, <1>4, <1>5, <1>6, Zenon DEF Next, Thread

\* The invariant the properties of the boot rest on holds for every machine.
THEOREM InvHolds == Spec => []IInv
<1>1. Init => IInv
  BY InitInv
<1>2. IInv /\ [Next]_vars => IInv'
  BY NextStep
<1> QED BY <1>1, <1>2, PTL DEF Spec

\* Whatever the firmware left in the 8042 and the IO APIC, and whatever is
\* typed or times out: neither the handler of IRQ1 nor the shell takes any of
\* the bytes keyboard_init polls for.
THEOREM AnswersAreKept == Spec => []AnswersKept
<1>1. IInv => AnswersKept
  BY DEF IInv
<1> QED BY <1>1, InvHolds, PTL

\* Where nothing timed out, keyboard_init leaves the firmware's system flag and
\* the keyboard's port on: no scan code is taken for the configuration.
THEOREM ConfigIsKept == Spec => []ConfigKept
<1>1. IInv => ConfigKept
  <2> SUFFICES ASSUME IInv, thread.fn = "keyboard_reenable_irq", thread.at = 1, faults = 0
               PROVE  Good(ctl.cfg)
    BY DEF ConfigKept, Good
  <2> QED BY DEF IInv, Dialogue
<1> QED BY <1>1, InvHolds, PTL

\* While interrupts are on, the IO APIC in use passes on IRQ1 alone, from the
\* pin the keyboard is wired to, to its vector on the first processor.
THEOREM OnlyIrq1Routed == Spec => []OnlyKeyboardRouted
<1>1. IInv => OnlyKeyboardRouted
  BY DEF IInv, Masked, OnlyKeyboardRouted
<1> QED BY <1>1, InvHolds, PTL

\* When the scheduler starts, IRQ1 is enabled in the 8042 and its entry in the
\* IO APIC is open, also after a keyboard_init that failed.
THEOREM Irq1IsEnabled == Spec => []Irq1Enabled
<1>1. IInv => Irq1Enabled
  BY DEF IInv, KeyboardOn, Irq1Enabled
<1> QED BY <1>1, InvHolds, PTL
=============================================================================
