------------------------------ MODULE Keyboard ------------------------------
(***************************************************************************)
(* The PS/2 keyboard driver (keyboard.c): the scan code decoder, the       *)
(* modifier and lock state, the software key repeat, the ring buffer of    *)
(* characters, the light (LED) commands, the interrupt handler, the timer  *)
(* callback and the two readers: the loop around keyboard_getchar_nb and,  *)
(* when Polling, the read system call, keyboard_getchar_blocking, which    *)
(* empties the data port itself with interrupts on.                        *)
(*                                                                         *)
(* External, modelled from how the driver uses it: the keyboard and the    *)
(* 8042.  The keyboard queues bytes on the wire; an answer to a command    *)
(* goes before queued scan codes.  The 8042 holds one byte and latches     *)
(* IRQ1 when it arrives; a read of the empty data port gives the last byte *)
(* again.                                                                  *)
(*                                                                         *)
(* An interrupt handler runs with interrupts off, but the device goes on   *)
(* beside it: it takes a step per access to the data port.  A reader runs  *)
(* with interrupts on and takes a step per access to shared state, except  *)
(* that decoding one byte is one step.                                     *)
(***************************************************************************)
EXTENDS Integers, Sequences, SequencesExt

CONSTANTS
  KBD_BUFFER_SIZE,
  REPEAT_DELAY,     \* REPEAT_DELAY_TICKS and REPEAT_RATE_TICKS
  REPEAT_RATE,
  Setups            \* the machines and users considered, see Setup

\* A machine and its user.  IRQ1 may reach the processor or not, and the
\* reader may be keyboard_getchar_blocking or not.
Setup ==
  [keys    : SUBSET {"A", "LShift", "Right", "Caps", "KpMul", "PrtSc", "Pause"},
   irq     : BOOLEAN,
   polling : BOOLEAN,
   events  : Nat,      \* bound: presses, releases and typematic repeats
   ticks   : Nat]      \* bound: timer ticks counted while a key repeats

ASSUME KeyboardAssumption ==
  /\ KBD_BUFFER_SIZE \in Nat \ {0, 1}
  /\ REPEAT_DELAY \in Nat /\ REPEAT_RATE \in Nat \ {0}
  /\ Setups \subseteq Setup

VARIABLES
  setup,    \* the member of Setups at hand
  kbd,      \* scancode_st, modifiers, locks, led_cache and the repeat state
  ring,     \* kbd_buffer
  mode,     \* "irq" inside keyboard_irq_handler, else "main"
  led,      \* the light command in progress, in each context
  reader,   \* where the reader is, with its locals
  port,     \* the 8042: the byte it holds, whether it is new, IRQ1 latched
  wire,     \* bytes the keyboard has still to send
  lit,      \* the lights that shine
  held,     \* the keys that are down
  events,   \* key events so far
  typed,    \* history: the characters the key presses stand for
  made,     \* history: the characters the decoder made of presses
  pending   \* the promise: a queue that drops what comes when it is full

driver == <<kbd, ring, mode, led, reader>>
device == <<port, wire, lit>>
user == <<setup, held, events, typed>>
vars == <<driver, device, user, made, pending>>

Keys == setup.keys
Irq == setup.irq
Polling == setup.polling
MaxEvents == setup.events
MaxTicks == setup.ticks

-----------------------------------------------------------------------------
None == "none"
ACK == 250
RESEND == 254
PS2_RETRIES == 3
NoLights == {"unset"}                  \* led_cache = 0xFF

Modifiers == {"LShift", "LCtrl"}
Locks == {"Caps", "Num"}
Chars == {"a", "A", "6"}

States == {"normal", "e0_data", "e0_release", "e1_data_1", "e1_data_2",
           "e1_release_1", "e1_release_2"}

\* The rows of the two tables that the bytes of Keys reach.
set1_make_to_keycode(b) ==
  CASE b = 30 -> "A"       []  b = 42 -> "LShift"  []  b = 55 -> "KpMul"
    [] b = 58 -> "Caps"    []  b = 69 -> "Num"     []  b = 29 -> "LCtrl"
    [] b = 77 -> "Kp6"     []  OTHER -> None

e0_make_to_keycode(b) == IF b = 77 THEN "Right" ELSE None

KeyCodes == Modifiers \cup Locks \cup
            {"A", "KpMul", "Kp6", "Right", "PrtSc", "Pause", None}

\* What the 8042 hands over for a key, in the format of Scan Code Set 1.
Make(k) ==
  CASE k = "A" -> <<30>>             [] k = "LShift" -> <<42>>
    [] k = "Right" -> <<224, 77>>    [] k = "Caps" -> <<58>>
    [] k = "KpMul" -> <<55>>         [] k = "PrtSc" -> <<224, 42, 224, 55>>
    [] k = "Pause" -> <<225, 29, 69, 225, 157, 197>>

Break(k) ==
  CASE k = "PrtSc" -> <<224, 183, 224, 170>>
    [] k = "Pause" -> << >>
    [] k = "Right" -> <<224, 205>>
    [] OTHER -> <<Make(k)[1] + 128>>

\* What a press means to the user: letters with Shift, the keypad operators
\* as the comment on keyboard.c:569 has them.
CharOf(k, down) ==
  CASE k = "A" -> <<IF "LShift" \in down THEN "A" ELSE "a">>
    [] k = "KpMul" -> <<"*">>
    [] OTHER -> << >>

-----------------------------------------------------------------------------
(* The ring buffer *)

is_empty(r) == r.head = r.tail

\* Mutant: the wrap-around is forgotten.
is_full_NoWrap(r) == r.head + 1 = r.tail

is_full(r) == (r.head + 1) % KBD_BUFFER_SIZE = r.tail

push(r, c) ==
  IF is_full(r) THEN r
  ELSE [data |-> [r.data EXCEPT ![r.head] = c],
        head |-> (r.head + 1) % KBD_BUFFER_SIZE, tail |-> r.tail]

\* A bounded queue that drops a character offered when it is full.
Offer(cs) ==
  IF Len(pending) >= KBD_BUFFER_SIZE - 1 THEN pending ELSE pending \o cs

(* keyboard_process_scancode: the next state, and the event if there is one *)

Event(st, key, type) == [st |-> st, key |-> key, type |-> type]

Quiet(st) == Event(st, None, "no event")

\* Mutant: the state is not reset after an extended key.
decode_StaysExtended(st, b) ==
  IF st = "normal"
  THEN IF b = 224 THEN Quiet("e0_data")
       ELSE Event("normal", set1_make_to_keycode(b % 128),
                  IF b >= 128 THEN "release" ELSE "press")
  ELSE Event("e0_data", e0_make_to_keycode(b % 128),
             IF b >= 128 THEN "release" ELSE "press")

decode(st, b) ==
  LET PressOrRelease(table(_)) ==
        IF b >= 128 THEN Event("normal", table(b - 128), "release")
                    ELSE Event("normal", table(b), "press")
  IN CASE st = "normal" ->
            IF b = 224 THEN Quiet("e0_data")
            ELSE IF b = 225 THEN Quiet("e1_data_1")
            ELSE PressOrRelease(set1_make_to_keycode)
       [] st = "e0_data" ->
            IF b = 42 THEN Quiet("e0_release")
            ELSE PressOrRelease(e0_make_to_keycode)
       [] st = "e0_release" -> Event("normal", "PrtSc", "press")
       [] st = "e1_data_1" -> Quiet("e1_data_2")
       [] st = "e1_data_2" -> Quiet("e1_release_1")
       [] st = "e1_release_1" ->
            Quiet(IF b = 225 THEN "e1_release_2" ELSE "normal")
       [] st = "e1_release_2" -> Event("normal", "Pause", "press")

keycode_to_ascii_char(k, key) ==
  CASE key = "A" ->
         <<IF ("Caps" \in k.locks) # ("LShift" \in k.mods) THEN "A" ELSE "a">>
    [] key = "Kp6" -> IF "Num" \in k.locks THEN <<"6">> ELSE << >>
    [] OTHER -> << >>    \* KEY_KP_MULTIPLY has no entry in keycode_to_ascii

Toggled(S, x) == IF x \in S THEN S \ {x} ELSE S \cup {x}

\* Mutant: a release does not stop the repeat.
handle_event_RepeatGoesOn(k, ev) ==
  IF ev.type = "press"
  THEN [k EXCEPT !.st = ev.st, !.mods = @ \cup ({ev.key} \cap Modifiers),
                 !.repeat_key = ev.key, !.repeat_timer = 0]
  ELSE [k EXCEPT !.st = ev.st, !.mods = @ \ {ev.key}]

\* keyboard_handle_event, without the lights and the push.
handle_event(k, ev) ==
  IF ev.type = "press"
  THEN [st |-> ev.st,
        mods |-> k.mods \cup ({ev.key} \cap Modifiers),
        locks |-> IF ev.key \in Locks THEN Toggled(k.locks, ev.key) ELSE k.locks,
        led_cache |-> k.led_cache,
        repeat_key |-> ev.key, repeat_timer |-> 0]
  ELSE IF ev.type = "release"
  THEN [st |-> ev.st, mods |-> k.mods \ {ev.key},
        locks |-> k.locks, led_cache |-> k.led_cache,
        repeat_key |-> IF ev.key = k.repeat_key THEN None ELSE k.repeat_key,
        repeat_timer |-> IF ev.key = k.repeat_key THEN 0 ELSE k.repeat_timer]
  ELSE [k EXCEPT !.st = ev.st]

Ascii(k, ev) == IF ev.type = "press" THEN keycode_to_ascii_char(k, ev.key)
                                     ELSE << >>

\* kbd_update_leds is called, and finds that the lights changed.
NeedsLights(k, ev) ==
  ev.type = "press" /\ ev.key \in Locks /\ k.locks # k.led_cache

Contexts == {"irq", "main"}

Idle == [ph |-> "idle", retry |-> 0, val |-> {}]

Init ==
  /\ setup \in Setups
  /\ \E cache \in {{"Num"}, NoLights} :       \* the first light command may fail
       /\ kbd = [st |-> "normal", mods |-> {}, locks |-> {"Num"},
                 led_cache |-> cache, repeat_key |-> None, repeat_timer |-> 0]
       /\ lit = cache \ NoLights
  /\ ring = [data |-> [i \in 0..KBD_BUFFER_SIZE-1 |-> None], head |-> 0, tail |-> 0]
  /\ mode = "main"
  /\ led = [x \in Contexts |-> Idle]
  /\ reader = [pc |-> "call", b |-> 0, c |-> None]
  /\ port = [data |-> 0, full |-> FALSE, irq |-> FALSE]
  /\ wire = << >>
  /\ held = {} /\ events = 0
  /\ typed = << >> /\ made = << >> /\ pending = << >>

-----------------------------------------------------------------------------
(* The user and the device *)

Typing(k, down, bytes, cs) ==
  /\ events < MaxEvents
  /\ events' = events + 1
  /\ held' = down
  /\ wire' = wire \o bytes
  /\ typed' = typed \o cs
  /\ UNCHANGED <<setup, driver, port, lit, made, pending>>

Press == \E k \in Keys \ held :
  Typing(k, IF k = "Pause" THEN held ELSE held \cup {k}, Make(k), CharOf(k, held))

Typematic == \E k \in held \ {"LShift"} :
  Typing(k, held, Make(k), CharOf(k, held))

Release == \E k \in held : Typing(k, held \ {k}, Break(k), << >>)

\* The 8042 takes the next byte and raises IRQ1.
DeviceByte ==
  /\ ~port.full /\ wire # << >>
  /\ port' = [data |-> Head(wire), full |-> TRUE, irq |-> TRUE]
  /\ wire' = Tail(wire)
  /\ UNCHANGED <<driver, lit, user, made, pending>>

-----------------------------------------------------------------------------
(* Light commands: kbd_send_command_with_param, in either context *)

\* The keyboard answers a byte it is sent: it took it, or asks for it again.
Answered(ans) == wire' = <<ans>> \o wire

LedSend(x) ==
  /\ led[x].ph = "send"
  /\ \E ans \in {ACK, RESEND} : Answered(ans)
  /\ led' = [led EXCEPT ![x].ph = "cmd"]
  /\ UNCHANGED <<kbd, ring, mode, reader, port, lit, user, made, pending>>

\* Mutant: the rounds are not counted.
Again_Forever(l) == [l EXCEPT !.ph = "send"]

\* The loop over PS2_RETRIES: another round, or the end of it.
Again(l) ==
  IF l.retry + 1 < PS2_RETRIES
  THEN [ph |-> "send", retry |-> l.retry + 1, val |-> l.val]
  ELSE Idle

\* The answer to the command byte, whatever byte it is; on ACK the parameter
\* is sent, and shows in the lights unless the keyboard wants it again.
LedAck(x) ==
  /\ led[x].ph = "cmd" /\ port.full
  /\ port' = [port EXCEPT !.full = FALSE]
  /\ IF port.data = ACK
     THEN /\ led' = [led EXCEPT ![x].ph = "param"]
          /\ \E ans \in {ACK, RESEND} :
               /\ Answered(ans)
               /\ lit' = IF ans = ACK THEN led[x].val ELSE lit
     ELSE /\ led' = [led EXCEPT ![x] = IF port.data = RESEND THEN Again(@) ELSE Idle]
          /\ UNCHANGED <<wire, lit>>
  /\ UNCHANGED <<kbd, ring, mode, reader, user, made, pending>>

LedParamAck(x) ==
  /\ led[x].ph = "param" /\ port.full
  /\ port' = [port EXCEPT !.full = FALSE]
  /\ led' = [led EXCEPT ![x] = IF port.data = RESEND THEN Again(@) ELSE Idle]
  /\ kbd' = IF port.data = ACK THEN [kbd EXCEPT !.led_cache = led[x].val] ELSE kbd
  /\ UNCHANGED <<ring, mode, reader, wire, lit, user, made, pending>>

\* ps2_send_device or ps2_read_data gives up: the command has failed.
LedTimeout(x) ==
  /\ \/ led[x].ph = "send"
     \/ led[x].ph \in {"cmd", "param"} /\ ~port.full
  /\ led' = [led EXCEPT ![x] = Idle]
  /\ UNCHANGED <<kbd, ring, mode, reader, device, user, made, pending>>

Exchange(x) == LedSend(x) \/ LedAck(x) \/ LedParamAck(x) \/ LedTimeout(x)

\* The command that keyboard_handle_event starts in context x.
StartLights(x, k, ev) ==
  led' = IF NeedsLights(k, ev)
         THEN [led EXCEPT ![x] = [ph |-> "send", retry |-> 0, val |-> k.locks]]
         ELSE led

-----------------------------------------------------------------------------
(* Interrupts *)

IrqEnter ==
  /\ Irq /\ mode = "main" /\ port.irq
  /\ mode' = "irq"
  /\ port' = [port EXCEPT !.irq = FALSE]
  /\ UNCHANGED <<kbd, ring, led, reader, wire, lit, user, made, pending>>

IrqByte ==
  LET ev == decode(kbd.st, port.data)
      k  == handle_event(kbd, ev)
      cs == Ascii(k, ev)
  IN /\ mode = "irq" /\ led["irq"].ph = "idle" /\ port.full
     /\ port' = [port EXCEPT !.full = FALSE]
     /\ kbd' = k
     /\ ring' = IF cs = << >> THEN ring ELSE push(ring, cs[1])
     /\ made' = made \o cs
     /\ pending' = Offer(cs)
     /\ StartLights("irq", k, ev)
     /\ UNCHANGED <<mode, reader, wire, lit, user>>

IrqReturn ==
  /\ mode = "irq" /\ led["irq"].ph = "idle" /\ ~port.full
  /\ mode' = "main"
  /\ UNCHANGED <<kbd, ring, led, reader, device, user, made, pending>>

Handler == IrqByte \/ IrqReturn \/ (mode = "irq" /\ Exchange("irq"))

keyboard_timer_tick ==
  LET t  == kbd.repeat_timer + 1
      e  == t - REPEAT_DELAY
      cs == IF e > 0 /\ e % REPEAT_RATE = 0
            THEN keycode_to_ascii_char(kbd, kbd.repeat_key) ELSE << >>
  IN /\ mode = "main"
     /\ kbd.repeat_key # None /\ kbd.repeat_timer < MaxTicks
     /\ kbd' = [kbd EXCEPT !.repeat_timer = t]
     /\ ring' = IF cs = << >> THEN ring ELSE push(ring, cs[1])
     /\ pending' = Offer(cs)
     /\ UNCHANGED <<mode, led, reader, device, user, made>>

-----------------------------------------------------------------------------
(* The readers *)

\* keyboard_getchar_nb, up to the read of the character.
PopTake ==
  /\ mode = "main" /\ reader.pc = "call" /\ ~is_empty(ring)
  /\ reader' = [pc |-> "took", b |-> reader.b, c |-> ring.data[ring.tail]]
  /\ UNCHANGED <<kbd, ring, mode, led, device, user, made, pending>>

\* ... and the store of tail; the character is returned and read again.
PopReturn ==
  /\ mode = "main" /\ reader.pc = "took"
  /\ ring' = [ring EXCEPT !.tail = (@ + 1) % KBD_BUFFER_SIZE]
  /\ pending' = IF pending = << >> THEN pending ELSE Tail(pending)
  /\ reader' = [pc |-> "call", b |-> reader.b, c |-> None]
  /\ UNCHANGED <<kbd, mode, led, device, user, made>>

\* The buffer is empty: keyboard_getchar_blocking turns to the data port.
PollStart ==
  /\ Polling /\ mode = "main" /\ reader.pc = "call" /\ is_empty(ring)
  /\ reader' = [reader EXCEPT !.pc = "status"]
  /\ UNCHANGED <<kbd, ring, mode, led, device, user, made, pending>>

\* Mutant: the port is not looked at.
PollStatus_Skipped ==
  /\ mode = "main" /\ reader.pc = "status"
  /\ reader' = [reader EXCEPT !.pc = "call"]
  /\ UNCHANGED <<kbd, ring, mode, led, device, user, made, pending>>

PollStatus ==
  /\ mode = "main" /\ reader.pc = "status"
  /\ reader' = [reader EXCEPT !.pc = IF port.full THEN "data" ELSE "call"]
  /\ UNCHANGED <<kbd, ring, mode, led, device, user, made, pending>>

PollData ==
  /\ mode = "main" /\ reader.pc = "data"
  /\ reader' = [pc |-> "decode", b |-> port.data, c |-> reader.c]
  /\ port' = [port EXCEPT !.full = FALSE]
  /\ UNCHANGED <<kbd, ring, mode, led, wire, lit, user, made, pending>>

PollDecode ==
  LET ev == decode(kbd.st, reader.b)
      k  == handle_event(kbd, ev)
      cs == Ascii(k, ev)
  IN /\ mode = "main" /\ reader.pc = "decode"
     /\ kbd' = k
     /\ made' = made \o cs
     /\ StartLights("main", k, ev)
     /\ reader' = IF cs = << >> THEN [pc |-> "status", b |-> 0, c |-> None]
                                ELSE [pc |-> "store", b |-> 0, c |-> cs[1]]
     /\ UNCHANGED <<ring, mode, device, user, pending>>

\* ring_buffer_push in the reader: the store of the character ...
PollStore ==
  /\ mode = "main" /\ led["main"].ph = "idle" /\ reader.pc = "store"
  /\ pending' = Offer(<<reader.c>>)
  /\ ring' = IF is_full(ring) THEN ring ELSE [ring EXCEPT !.data[ring.head] = reader.c]
  /\ reader' = [pc |-> IF is_full(ring) THEN "status" ELSE "advance",
                b |-> reader.b, c |-> None]
  /\ UNCHANGED <<kbd, mode, led, device, user, made>>

\* ... and the store of head.
PollAdvance ==
  /\ mode = "main" /\ reader.pc = "advance"
  /\ ring' = [ring EXCEPT !.head = (@ + 1) % KBD_BUFFER_SIZE]
  /\ reader' = [reader EXCEPT !.pc = "status"]
  /\ UNCHANGED <<kbd, mode, led, device, user, made, pending>>

Reader ==
  \/ led["main"].ph = "idle" /\ (PopTake \/ PopReturn \/ PollStart \/ PollStatus
                                 \/ PollData \/ PollDecode \/ PollStore \/ PollAdvance)
  \/ mode = "main" /\ Exchange("main")

Next == Press \/ Typematic \/ Release \/ DeviceByte \/ IrqEnter \/ Handler
        \/ keyboard_timer_tick \/ Reader

\* The 8042 delivers, the processor runs a handler to its end and takes a
\* latched interrupt, and the reader is scheduled again and again.
Spec == /\ Init /\ [][Next]_vars
        /\ WF_vars(DeviceByte) /\ WF_vars(IrqEnter) /\ WF_vars(Handler)
        /\ WF_vars(Reader)

-----------------------------------------------------------------------------
Bytes == 0..255

\* Types: indices of the ring stay in it, and kbd_send_command_with_param makes
\* at most PS2_RETRIES rounds.
TypeOK ==
  /\ setup \in Setups
  /\ kbd \in [st : States, mods : SUBSET Modifiers, locks : SUBSET Locks,
             led_cache : (SUBSET Locks) \cup {NoLights},
             repeat_key : KeyCodes, repeat_timer : 0..MaxTicks]
  /\ ring \in [data : [0..KBD_BUFFER_SIZE-1 -> Chars \cup {None}],
              head : 0..KBD_BUFFER_SIZE-1, tail : 0..KBD_BUFFER_SIZE-1]
  /\ mode \in {"main", "irq"}
  /\ led \in [Contexts -> [ph : {"idle", "send", "cmd", "param"},
                          retry : 0..PS2_RETRIES-1, val : SUBSET Locks]]
  /\ reader \in [pc : {"call", "took", "status", "data", "decode", "store", "advance"},
                b : Bytes, c : Chars \cup {None}]
  /\ port \in [data : Bytes, full : BOOLEAN, irq : BOOLEAN]
  /\ wire \in Seq(Bytes) /\ lit \subseteq Locks
  /\ held \subseteq Keys /\ events \in 0..MaxEvents

\* The characters in the ring buffer, oldest first.  A reader between the two
\* stores of its push has stored one more.
Buffered ==
  LET n == ((ring.head - ring.tail) % KBD_BUFFER_SIZE)
             + IF reader.pc = "advance" THEN 1 ELSE 0
  IN [i \in 1..n |-> ring.data[(ring.tail + i - 1) % KBD_BUFFER_SIZE]]

\* The ring buffer is a queue: the characters in it are those that were put
\* in and not yet read, in order, one is dropped only when KBD_BUFFER_SIZE-1
\* are waiting, and the reader holds the oldest.  It must hold although the
\* interrupt handlers push between the two halves of ring_buffer_pop.
RingIsQueue ==
  /\ Buffered = pending
  /\ reader.pc = "took" => pending # << >> /\ reader.c = Head(pending)

\* Every byte that was sent has been decoded.
Drained == wire = << >> /\ ~port.full /\ reader.pc \notin {"data", "decode"}

\* keyboard_process_scancode makes of the bytes, which arrive one at a time
\* and carry no key boundaries, the characters that were typed: none extra,
\* none out of order, none in the wrong case, and none missing once all bytes
\* are in.
DecodesTyped ==
  /\ IsPrefix(made, typed)
  /\ Drained => made = typed

\* With all bytes in, the driver's Shift is the key's, and the decoder is
\* not in the middle of a sequence (kbd_state and scancode_st follow the
\* keyboard).
FollowsKeyboard ==
  Drained => /\ kbd.st = "normal"
             /\ ("LShift" \in kbd.mods) = ("LShift" \in held)

\* "Stop the repeat when the key is released" (keyboard.c:633): with all bytes
\* in, keyboard_timer_tick repeats only a key that is held; Pause has no
\* release code and no character.  A light command takes whatever byte comes
\* for its answer, the release of the key too, so lock keys are left out.
RepeatStops ==
  (Drained /\ Keys \cap Locks = {}) => kbd.repeat_key \in held \cup {None, "Pause"}

\* keyboard_irq_handler waits for the answers to its light commands with
\* interrupts off; a command that fails, is refused again and again or is
\* answered by a scan code still lets it return.
HandlerReturns == (mode = "irq") ~> (mode = "main")

\* Every character typed reaches the reader, by interrupt or, as the comment
\* on keyboard_getchar_blocking promises, by polling alone.
TypedIsRead ==
  (made # typed \/ pending # << >>) ~> (made = typed /\ pending = << >>)

-----------------------------------------------------------------------------
(* What the sources say and the code does not keep in every case (README,  *)
(* "Where the code differs").                                              *)

\* kbd_update_leds sends nothing when led_cache has the value wanted already
\* ("only when it really changes", keyboard.c:518): then the lights show it.
LightsFollow ==
  (led["irq"].ph = "idle" /\ led["main"].ph = "idle" /\ kbd.led_cache = kbd.locks)
    => lit = kbd.locks
=============================================================================
