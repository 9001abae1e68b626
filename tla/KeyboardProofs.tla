--------------------------- MODULE KeyboardProofs ---------------------------
(***************************************************************************)
(* The ring buffer of keyboard.c is a queue for every KBD_BUFFER_SIZE and  *)
(* whatever is typed, as long as one context pushes at a time; and the     *)
(* decoder makes of the bytes what was typed and follows the keys, as long *)
(* as one context takes the bytes.                                         *)
(***************************************************************************)
EXTENDS Keyboard, TLAPS

Size == KBD_BUFFER_SIZE

Rings == [data : [0..Size-1 -> Chars \cup {None}], head : 0..Size-1, tail : 0..Size-1]

\* The slot i places after slot t, and how many slots lie between two.
Slot(t, i) == IF t + i < Size THEN t + i ELSE t + i - Size
Between(t, h) == IF t <= h THEN h - t ELSE h - t + Size

\* The ring r holds the characters of q, of which the last one is stored and
\* not yet counted in head when extra is 1.
Holds(r, q, extra) ==
  /\ r \in Rings /\ q \in Seq(Chars)
  /\ Len(q) = Between(r.tail, r.head) + extra
  /\ Len(q) < Size
  /\ \A i \in 1..Len(q) : q[i] = r.data[Slot(r.tail, i - 1)]

LEMMA SizeType == Size \in Nat /\ Size >= 2
  BY KeyboardAssumption DEF Size

LEMMA SlotMod ==
  ASSUME NEW t \in 0..Size-1, NEW i \in 0..Size-1
  PROVE  /\ (t + i) % KBD_BUFFER_SIZE = Slot(t, i)
         /\ Slot(t, i) \in 0..Size-1
<1>1. CASE t + i < Size
  BY <1>1, SizeType DEF Slot, Size
<1>2. CASE ~(t + i < Size)
  <2>1. (t + i) \in Size..(2*Size - 1)
    BY <1>2, SizeType
  <2>2. (t + i) % Size = t + i - Size
    BY <2>1, SizeType
  <2> QED BY <2>1, <2>2, <1>2, SizeType DEF Slot, Size
<1> QED BY <1>1, <1>2

LEMMA NextMod ==
  ASSUME NEW t \in 0..Size-1
  PROVE  /\ (t + 1) % KBD_BUFFER_SIZE = Slot(t, 1)
         /\ Slot(t, 1) \in 0..Size-1
BY SlotMod, SizeType

LEMMA BetweenMod ==
  ASSUME NEW t \in 0..Size-1, NEW h \in 0..Size-1
  PROVE  /\ (h - t) % KBD_BUFFER_SIZE = Between(t, h)
         /\ Between(t, h) \in 0..Size-1
<1>1. CASE t <= h
  BY <1>1, SizeType DEF Between, Size
<1>2. CASE ~(t <= h)
  <2>1. h - t \in (1 - Size)..(-1)
    BY <1>2, SizeType
  <2>2. (h - t) % Size = h - t + Size
    BY <2>1, SizeType
  <2> QED BY <2>1, <2>2, <1>2, SizeType DEF Between, Size
<1> QED BY <1>1, <1>2

-----------------------------------------------------------------------------
(* The ring buffer *)

LEMMA SlotInto ==
  ASSUME NEW t \in 0..Size-1, NEW h \in 0..Size-1
  PROVE  Slot(t, Between(t, h)) = h
BY SizeType DEF Slot, Between

LEMMA SlotApart ==
  ASSUME NEW t \in 0..Size-1, NEW i \in 0..Size-1, NEW j \in 0..Size-1, i # j
  PROVE  Slot(t, i) # Slot(t, j)
BY SizeType DEF Slot

LEMMA BetweenNext ==
  ASSUME NEW t \in 0..Size-1, NEW h \in 0..Size-1, Between(t, h) >= 1
  PROVE  Between(Slot(t, 1), h) = Between(t, h) - 1
<1>1. t # h
  BY SizeType DEF Between
<1>2. CASE t + 1 < Size
  <2>1. Slot(t, 1) = t + 1
    BY <1>2 DEF Slot
  <2> QED BY <1>1, <2>1, SizeType DEF Between
<1>3. CASE ~(t + 1 < Size)
  <2>1. t = Size - 1 /\ Slot(t, 1) = 0
    BY <1>3, SizeType DEF Slot
  <2> QED BY <1>1, <2>1, SizeType DEF Between
<1> QED BY <1>2, <1>3

LEMMA FullIs ==
  ASSUME NEW r \in Rings
  PROVE  is_full(r) <=> Between(r.tail, r.head) = Size - 1
BY SizeType, NextMod DEF is_full, Slot, Between, Rings

LEMMA EmptyIs ==
  ASSUME NEW r \in Rings
  PROVE  is_empty(r) <=> Between(r.tail, r.head) = 0
BY SizeType DEF is_empty, Between, Rings

\* What Holds says of a ring with nothing half pushed.
LEMMA HoldsFacts ==
  ASSUME NEW r, NEW q, Holds(r, q, 0)
  PROVE  /\ r \in Rings /\ q \in Seq(Chars) /\ Len(q) = Between(r.tail, r.head)
         /\ Len(q) < Size /\ Len(q) \in Nat
         /\ r.tail \in 0..Size-1 /\ r.head \in 0..Size-1
         /\ \A i \in 1..Len(q) : q[i] = r.data[Slot(r.tail, i - 1)]
<1>1. r \in Rings /\ q \in Seq(Chars) /\ Len(q) = Between(r.tail, r.head) + 0
  BY DEF Holds
<1>2. r.tail \in 0..Size-1 /\ r.head \in 0..Size-1
  BY <1>1 DEF Rings
<1>3. Between(r.tail, r.head) \in 0..Size-1
  BY <1>2, BetweenMod
<1>4. Len(q) \in Nat /\ Len(q) = Between(r.tail, r.head)
  BY <1>1, <1>3, SizeType
<1> QED BY <1>1, <1>2, <1>4 DEF Holds

\* Storing a character after the last one.
LEMMA StoreHolds ==
  ASSUME NEW r, NEW q, Holds(r, q, 0), ~is_full(r), NEW c \in Chars
  PROVE  Holds([r EXCEPT !.data[r.head] = c], Append(q, c), 1)
<1> DEFINE t == r.tail
           n == Len(q)
           d == [r.data EXCEPT ![r.head] = c]
           s == [r EXCEPT !.data[r.head] = c]
<1>1. /\ r \in Rings /\ q \in Seq(Chars) /\ n = Between(t, r.head)
      /\ n < Size /\ n \in Nat /\ t \in 0..Size-1 /\ r.head \in 0..Size-1
      /\ \A i \in 1..n : q[i] = r.data[Slot(t, i - 1)]
  BY HoldsFacts
<1>2. n < Size - 1
  BY <1>1, FullIs, SizeType
<1>3. s \in Rings /\ s.data = d /\ s.head = r.head /\ s.tail = t
  BY <1>1 DEF Rings
<1>4. /\ Append(q, c) \in Seq(Chars) /\ Len(Append(q, c)) = n + 1
      /\ \A i \in 1..n : Append(q, c)[i] = q[i]
      /\ Append(q, c)[n + 1] = c
  BY <1>1
<1>5. Slot(t, n) = r.head
  BY <1>1, SlotInto
<1>6. ASSUME NEW i \in 1..n+1
      PROVE  Append(q, c)[i] = d[Slot(t, i - 1)]
  <2>1. CASE i = n + 1
    <3>1. i - 1 = n
      BY <2>1, <1>1
    <3>2. r.data \in [0..Size-1 -> Chars \cup {None}] /\ r.head \in 0..Size-1
      BY <1>1 DEF Rings
    <3>3. d[r.head] = c
      BY <3>2
    <3> QED BY <2>1, <3>1, <3>3, <1>4, <1>5
  <2>2. CASE i # n + 1
    <3>1. i \in 1..n /\ i - 1 \in 0..Size-1 /\ n \in 0..Size-1 /\ i - 1 # n
      BY <2>2, <1>1, <1>2, SizeType
    <3>2. Slot(t, i - 1) # r.head /\ Slot(t, i - 1) \in 0..Size-1
      <4> DEFINE j == i - 1
      <4>1. j \in 0..Size-1 /\ j # n
        BY <3>1
      <4> HIDE DEF j, n, t
      <4>2. Slot(t, j) # Slot(t, n) /\ Slot(t, j) \in 0..Size-1
        BY <3>1, <4>1, <1>1, SlotApart, SlotMod
      <4> QED BY <4>2, <1>5 DEF j, t
    <3> QED BY <3>1, <3>2, <1>1, <1>4 DEF Rings
  <2> QED BY <2>1, <2>2
<1> QED
  <2>1. Len(Append(q, c)) = Between(s.tail, s.head) + 1
    BY <1>1, <1>3, <1>4
  <2>2. Len(Append(q, c)) < Size
    BY <1>1, <1>2, <1>4, SizeType
  <2>3. \A i \in 1..Len(Append(q, c)) : Append(q, c)[i] = s.data[Slot(s.tail, i - 1)]
    BY <1>3, <1>4, <1>6
  <2> HIDE DEF s
  <2>4. Holds(s, Append(q, c), 1)
    BY <1>3, <1>4, <2>1, <2>2, <2>3 DEF Holds
  <2> QED BY <2>4 DEF s

\* Moving head past the character stored.
LEMMA AdvanceHolds ==
  ASSUME NEW r, NEW q, Holds(r, q, 1)
  PROVE  Holds([r EXCEPT !.head = (@ + 1) % KBD_BUFFER_SIZE], q, 0)
<1>1. r \in Rings /\ r.head \in 0..Size-1 /\ r.tail \in 0..Size-1
  BY DEF Holds, Rings
<1>2. (r.head + 1) % KBD_BUFFER_SIZE = Slot(r.head, 1) /\ Slot(r.head, 1) \in 0..Size-1
  BY <1>1, NextMod
<1> DEFINE s == [r EXCEPT !.head = (@ + 1) % KBD_BUFFER_SIZE]
<1>3. s \in Rings /\ s.data = r.data /\ s.tail = r.tail /\ s.head = Slot(r.head, 1)
  BY <1>1, <1>2 DEF Rings
<1>4. Between(r.tail, r.head) + 1 < Size
  BY DEF Holds
<1>5. Between(r.tail, Slot(r.head, 1)) = Between(r.tail, r.head) + 1
  BY <1>1, <1>4, SizeType DEF Between, Slot
<1> HIDE DEF s
<1>6. Holds(s, q, 0)
  BY <1>3, <1>5 DEF Holds
<1> QED BY <1>6 DEF s

\* ring_buffer_push as a whole.
LEMMA PushHolds ==
  ASSUME NEW r, NEW q, Holds(r, q, 0), NEW c \in Chars
  PROVE  Holds(push(r, c),
               IF Len(q) >= KBD_BUFFER_SIZE - 1 THEN q ELSE q \o <<c>>, 0)
<1>1. /\ r \in Rings /\ q \in Seq(Chars) /\ Len(q) = Between(r.tail, r.head)
      /\ Len(q) < Size /\ Len(q) \in Nat
  BY HoldsFacts
<1>2. CASE is_full(r)
  <2>1. Len(q) >= KBD_BUFFER_SIZE - 1
    BY <1>1, <1>2, FullIs, SizeType DEF Size
  <2> QED BY <1>2, <2>1 DEF push
<1>3. CASE ~is_full(r)
  <2>1. ~(Len(q) >= KBD_BUFFER_SIZE - 1)
    BY <1>1, <1>3, FullIs, SizeType DEF Size
  <2>2. q \o <<c>> = Append(q, c)
    BY <1>1
  <2> DEFINE s == [r EXCEPT !.data[r.head] = c]
             u == [s EXCEPT !.head = (@ + 1) % KBD_BUFFER_SIZE]
  <2>3. Holds(s, Append(q, c), 1)
    BY <1>3, StoreHolds
  <2>4. Holds(u, Append(q, c), 0)
    <3> HIDE DEF s
    <3> QED BY <2>3, AdvanceHolds
  <2>5. /\ s.data = [r.data EXCEPT ![r.head] = c]
        /\ s.head = r.head /\ s.tail = r.tail
    BY <1>1 DEF Rings
  <2>6. u = push(r, c)
    <3>1. s \in Rings
      BY <2>3 DEF Holds
    <3> HIDE DEF s
    <3>2. u = [data |-> s.data, head |-> (s.head + 1) % KBD_BUFFER_SIZE, tail |-> s.tail]
      BY <3>1 DEF Rings
    <3> QED BY <1>3, <2>5, <3>2 DEF push
  <2> HIDE DEF u
  <2> QED BY <2>1, <2>2, <2>4, <2>6
<1> QED BY <1>2, <1>3

\* ring_buffer_pop: the character at tail is the oldest, and moving tail past
\* it leaves the others.
LEMMA PopHolds ==
  ASSUME NEW r, NEW q, Holds(r, q, 0), q # << >>
  PROVE  /\ r.data[r.tail] = Head(q)
         /\ Holds([r EXCEPT !.tail = (@ + 1) % KBD_BUFFER_SIZE], Tail(q), 0)
<1> DEFINE t == r.tail
           n == Len(q)
           s == [r EXCEPT !.tail = (@ + 1) % KBD_BUFFER_SIZE]
<1>1. /\ r \in Rings /\ q \in Seq(Chars) /\ n = Between(t, r.head)
      /\ n < Size /\ n \in Nat /\ t \in 0..Size-1 /\ r.head \in 0..Size-1
      /\ \A i \in 1..n : q[i] = r.data[Slot(t, i - 1)]
  BY HoldsFacts
<1>2. n >= 1
  BY <1>1
<1>3. Slot(t, 0) = t
  BY <1>1, SizeType DEF Slot
<1>4. r.data[t] = Head(q)
  BY <1>1, <1>2, <1>3
<1>5. (t + 1) % KBD_BUFFER_SIZE = Slot(t, 1) /\ Slot(t, 1) \in 0..Size-1
  BY <1>1, NextMod
<1>6. s \in Rings /\ s.data = r.data /\ s.tail = Slot(t, 1) /\ s.head = r.head
  BY <1>1, <1>5 DEF Rings
<1>7. /\ Tail(q) \in Seq(Chars) /\ Len(Tail(q)) = n - 1
      /\ \A i \in 1..n-1 : Tail(q)[i] = q[i + 1]
  BY <1>1, <1>2
<1>8. Between(Slot(t, 1), r.head) = n - 1
  BY <1>1, <1>2, BetweenNext
<1>9. ASSUME NEW i \in 1..n-1
      PROVE  Slot(Slot(t, 1), i - 1) = Slot(t, i)
  <2> HIDE DEF t, n
  <2> QED BY <1>1, <1>2, SizeType DEF Slot
<1>10. ASSUME NEW i \in 1..n-1
       PROVE  Tail(q)[i] = r.data[Slot(Slot(t, 1), i - 1)]
  <2>1. i + 1 \in 1..n /\ (i + 1) - 1 = i
    BY <1>1
  <2> QED BY <2>1, <1>1, <1>7, <1>9
<1> HIDE DEF s
<1>11. Holds(s, Tail(q), 0)
  BY <1>1, <1>2, <1>6, <1>7, <1>8, <1>10, SizeType DEF Holds
<1> QED BY <1>4, <1>11 DEF s

\* Holds says what RingIsQueue says of the buffer.
LEMMA HeldIsBuffered ==
  ASSUME NEW r, NEW q, NEW x \in {0, 1}, Holds(r, q, x)
  PROVE  [i \in 1..((r.head - r.tail) % KBD_BUFFER_SIZE) + x |->
            r.data[(r.tail + i - 1) % KBD_BUFFER_SIZE]] = q
<1>1. /\ r.head \in 0..Size-1 /\ r.tail \in 0..Size-1 /\ q \in Seq(Chars)
      /\ Len(q) \in Nat /\ Len(q) < Size
  BY DEF Holds, Rings
<1>2. ((r.head - r.tail) % KBD_BUFFER_SIZE) + x = Len(q)
  BY <1>1, BetweenMod DEF Holds
<1>3. ASSUME NEW i \in 1..Len(q)
      PROVE  r.data[(r.tail + i - 1) % KBD_BUFFER_SIZE] = q[i]
  <2>1. i - 1 \in 0..Size-1 /\ r.tail + i - 1 = r.tail + (i - 1)
    BY <1>1, SizeType
  <2>2. (r.tail + (i - 1)) % KBD_BUFFER_SIZE = Slot(r.tail, i - 1)
    BY <1>1, <2>1, SlotMod
  <2> QED BY <2>1, <2>2 DEF Holds
<1>4. q = [i \in 1..Len(q) |-> q[i]]
  BY <1>1
<1>5. [i \in 1..Len(q) |-> r.data[(r.tail + i - 1) % KBD_BUFFER_SIZE]]
        = [i \in 1..Len(q) |-> q[i]]
  BY <1>3
<1> QED BY <1>2, <1>4, <1>5

-----------------------------------------------------------------------------
(* Types *)

KbdStates == [st : States, mods : SUBSET Modifiers, locks : SUBSET Locks,
              led_cache : (SUBSET Locks) \cup {NoLights},
              repeat_key : KeyCodes, repeat_timer : 0..MaxTicks]

Commands == [ph : {"idle", "send", "cmd", "param"}, retry : 0..PS2_RETRIES-1,
             val : SUBSET Locks]

Events == [st : States, key : KeyCodes, type : {"press", "release", "no event"}]

LEMMA TableTypes ==
  ASSUME NEW b
  PROVE  set1_make_to_keycode(b) \in KeyCodes /\ e0_make_to_keycode(b) \in KeyCodes
BY DEF set1_make_to_keycode, e0_make_to_keycode, KeyCodes, Modifiers, Locks, None

LEMMA DecodeType ==
  ASSUME NEW st \in States, NEW b
  PROVE  decode(st, b) \in Events
<1>1. None \in KeyCodes /\ "PrtSc" \in KeyCodes /\ "Pause" \in KeyCodes
  BY DEF KeyCodes
<1> QED
  BY <1>1, TableTypes DEF decode, Event, Quiet, Events, States

LEMMA HandleType ==
  ASSUME NEW k \in KbdStates, NEW ev \in Events, MaxTicks \in Nat
  PROVE  handle_event(k, ev) \in KbdStates
<1>1. None \in KeyCodes
  BY DEF KeyCodes
<1> DEFINE h == handle_event(k, ev)
<1>5. /\ ev.st \in States /\ ev.key \in KeyCodes
      /\ k.mods \subseteq Modifiers /\ k.locks \subseteq Locks
      /\ k.led_cache \in (SUBSET Locks) \cup {NoLights}
      /\ k.repeat_key \in KeyCodes /\ k.repeat_timer \in 0..MaxTicks
  BY DEF KbdStates, Events
<1>2. CASE ev.type = "press"
  <2> DEFINE mods == k.mods \cup ({ev.key} \cap Modifiers)
             locks == IF ev.key \in Locks THEN Toggled(k.locks, ev.key) ELSE k.locks
  <2>1. mods \in SUBSET Modifiers
    BY <1>5
  <2>2. locks \in SUBSET Locks
    BY <1>5 DEF Toggled
  <2>3. h = [st |-> ev.st, mods |-> mods, locks |-> locks, led_cache |-> k.led_cache,
             repeat_key |-> ev.key, repeat_timer |-> 0]
    BY <1>2 DEF handle_event
  <2>4. 0 \in 0..MaxTicks
    OBVIOUS
  <2> HIDE DEF mods, locks
  <2> QED BY <1>5, <2>1, <2>2, <2>3, <2>4 DEF KbdStates
<1>3. CASE ev.type = "release"
  <2> DEFINE mods == k.mods \ {ev.key}
             key == IF ev.key = k.repeat_key THEN None ELSE k.repeat_key
             timer == IF ev.key = k.repeat_key THEN 0 ELSE k.repeat_timer
  <2>1. mods \in SUBSET Modifiers
    BY <1>5
  <2>2. key \in KeyCodes /\ timer \in 0..MaxTicks
    BY <1>1, <1>5
  <2>3. k.locks \in SUBSET Locks
    BY <1>5
  <2>4. h = [st |-> ev.st, mods |-> mods, locks |-> k.locks, led_cache |-> k.led_cache,
             repeat_key |-> key, repeat_timer |-> timer]
    BY <1>3 DEF handle_event
  <2> HIDE DEF mods, key, timer
  <2> QED BY <1>5, <2>1, <2>2, <2>3, <2>4 DEF KbdStates
<1>4. CASE ev.type = "no event"
  BY <1>4 DEF handle_event, KbdStates, Events
<1> QED BY <1>2, <1>3, <1>4 DEF Events

\* At most one character is made of a press.
LEMMA AsciiType ==
  ASSUME NEW k, NEW key
  PROVE  \/ keycode_to_ascii_char(k, key) = << >>
         \/ \E c \in Chars : keycode_to_ascii_char(k, key) = <<c>>
BY DEF keycode_to_ascii_char, Chars

LEMMA PushType ==
  ASSUME NEW r \in Rings, NEW c \in Chars
  PROVE  push(r, c) \in Rings
<1>1. (r.head + 1) % KBD_BUFFER_SIZE \in 0..Size-1
  BY NextMod DEF Rings
<1> QED BY <1>1 DEF push, Rings

LEMMA MakeType ==
  ASSUME NEW k \in {"A", "LShift", "Right", "Caps", "KpMul", "PrtSc", "Pause"}
  PROVE  Make(k) \in Seq(Bytes) /\ Break(k) \in Seq(Bytes)
<1> USE DEF Make, Break, Bytes
<1>1. CASE k = "A"        BY <1>1
<1>2. CASE k = "LShift"   BY <1>2
<1>3. CASE k = "Right"    BY <1>3
<1>4. CASE k = "Caps"     BY <1>4
<1>5. CASE k = "KpMul"    BY <1>5
<1>6. CASE k = "PrtSc"    BY <1>6
<1>7. CASE k = "Pause"
  <2>1. Break(k) \in Seq(Bytes)
    BY <1>7
  <2>2. Make(k) = <<225, 29, 69, 225, 157, 197>>
    BY <1>7
  <2>3. <<225, 29, 69, 225, 157, 197>> \in Seq(Bytes)
    OBVIOUS
  <2> HIDE DEF Make, Break, Bytes
  <2> QED BY <2>1, <2>2, <2>3
<1> QED BY <1>1, <1>2, <1>3, <1>4, <1>5, <1>6, <1>7

LEMMA SetupType ==
  ASSUME setup \in Setups
  PROVE  /\ MaxTicks \in Nat /\ MaxEvents \in Nat
         /\ Keys \subseteq {"A", "LShift", "Right", "Caps", "KpMul", "PrtSc", "Pause"}
         /\ Irq \in BOOLEAN /\ Polling \in BOOLEAN
BY KeyboardAssumption DEF MaxTicks, MaxEvents, Keys, Irq, Polling, Setup

\* The parts of the state that only types are needed of.
Scene ==
  /\ mode \in {"main", "irq"}
  /\ port \in [data : Bytes, full : BOOLEAN, irq : BOOLEAN]
  /\ wire \in Seq(Bytes) /\ lit \subseteq Locks
  /\ held \subseteq Keys /\ events \in 0..MaxEvents

Readers == [pc : {"call", "took", "status", "data", "decode", "store", "advance"},
            b : Bytes, c : Chars \cup {None}]

LEMMA TypeParts ==
  TypeOK <=> /\ setup \in Setups /\ Scene
             /\ kbd \in KbdStates /\ ring \in Rings
             /\ led \in [Contexts -> Commands] /\ reader \in Readers
BY DEF TypeOK, Scene, KbdStates, Rings, Commands, Readers, Size

LEMMA TypePartsNext ==
  TypeOK' <=> /\ setup' \in Setups /\ Scene'
              /\ kbd' \in KbdStates' /\ ring' \in Rings
              /\ led' \in [Contexts -> Commands] /\ reader' \in Readers
BY DEF TypeOK, Scene, KbdStates, Rings, Commands, Readers, Size

LEMMA InitTypes == Init => TypeOK
<1> SUFFICES ASSUME Init PROVE TypeOK
  OBVIOUS
<1>1. setup \in Setups /\ MaxTicks \in Nat /\ MaxEvents \in Nat
  BY SetupType DEF Init
<1>2. Scene
  BY <1>1 DEF Init, Scene, Bytes, Locks, NoLights
<1>3. kbd \in KbdStates
  BY <1>1 DEF Init, KbdStates, States, KeyCodes, NoLights, Locks
<1>4. ring \in Rings
  BY SizeType DEF Init, Rings, Size
<1>5. led \in [Contexts -> Commands] /\ reader \in Readers
  BY DEF Init, Commands, Idle, PS2_RETRIES, Readers, Bytes
<1> QED BY <1>1, <1>2, <1>3, <1>4, <1>5, TypeParts

\* The light commands, in either context.
LEMMA ExchangeTypes ==
  ASSUME TypeOK, NEW x \in Contexts, Exchange(x)
  PROVE  /\ TypeOK'
         /\ UNCHANGED <<setup, ring, mode, reader, pending>>
         /\ kbd'.repeat_timer = kbd.repeat_timer
<1>1. /\ setup \in Setups /\ Scene /\ kbd \in KbdStates /\ ring \in Rings
      /\ led \in [Contexts -> Commands] /\ reader \in Readers
  BY TypeParts
<1>2. UNCHANGED <<setup, held, events, ring, mode, reader, pending>>
  BY DEF Exchange, LedSend, LedAck, LedParamAck, LedTimeout, user, device
<1>3. led[x] \in Commands /\ led[x].retry \in 0..2 /\ led[x].val \subseteq Locks
  BY <1>1 DEF Commands, PS2_RETRIES
<1>4. Idle \in Commands
  BY DEF Idle, Commands, PS2_RETRIES
<1>5. Again(led[x]) \in Commands
  BY <1>3, <1>4 DEF Again, Commands, PS2_RETRIES
<1>6. <<ACK>> \o wire \in Seq(Bytes) /\ <<RESEND>> \o wire \in Seq(Bytes)
  BY <1>1 DEF Scene, Bytes, ACK, RESEND
<1>7. KbdStates' = KbdStates /\ Keys' = Keys /\ MaxEvents' = MaxEvents
  BY <1>2 DEF KbdStates, MaxTicks, Keys, MaxEvents
<1>8. led' \in [Contexts -> Commands] /\ Scene' /\ kbd' \in KbdStates
      /\ kbd'.repeat_timer = kbd.repeat_timer
  <2>1. CASE LedSend(x)
    <3>1. [led EXCEPT ![x].ph = "cmd"] \in [Contexts -> Commands]
      BY <1>1 DEF Commands
    <3> QED BY <2>1, <3>1, <1>1, <1>2, <1>6, <1>7 DEF LedSend, Answered, Scene
  <2>2. CASE LedAck(x)
    <3>1. [led EXCEPT ![x].ph = "param"] \in [Contexts -> Commands]
      BY <1>1 DEF Commands
    <3>2. [led EXCEPT ![x] = IF port.data = RESEND THEN Again(@) ELSE Idle]
            \in [Contexts -> Commands]
      BY <1>1, <1>4, <1>5
    <3>3. [port EXCEPT !.full = FALSE] \in [data : Bytes, full : BOOLEAN, irq : BOOLEAN]
      BY <1>1 DEF Scene
    <3> QED BY <2>2, <3>1, <3>2, <3>3, <1>1, <1>2, <1>3, <1>6, <1>7
            DEF LedAck, Answered, Scene
  <2>3. CASE LedParamAck(x)
    <3>1. [led EXCEPT ![x] = IF port.data = RESEND THEN Again(@) ELSE Idle]
            \in [Contexts -> Commands]
      BY <1>1, <1>4, <1>5
    <3>2. [port EXCEPT !.full = FALSE] \in [data : Bytes, full : BOOLEAN, irq : BOOLEAN]
      BY <1>1 DEF Scene
    <3>3. /\ [kbd EXCEPT !.led_cache = led[x].val] \in KbdStates
          /\ [kbd EXCEPT !.led_cache = led[x].val].repeat_timer = kbd.repeat_timer
      BY <1>1, <1>3 DEF KbdStates
    <3> QED BY <2>3, <3>1, <3>2, <3>3, <1>1, <1>2, <1>7 DEF LedParamAck, Scene
  <2>4. CASE LedTimeout(x)
    <3>1. [led EXCEPT ![x] = Idle] \in [Contexts -> Commands]
      BY <1>1, <1>4
    <3> QED BY <2>4, <3>1, <1>1, <1>2, <1>7 DEF LedTimeout, Scene, device
  <2> QED BY <2>1, <2>2, <2>3, <2>4 DEF Exchange
<1> QED BY <1>1, <1>2, <1>7, <1>8, TypePartsNext

\* Decoding a byte and handling the event there is.
LEMMA DecodeStep ==
  ASSUME TypeOK, NEW b, NEW x \in Contexts, NEW ev, NEW k, NEW cs,
         ev = decode(kbd.st, b), k = handle_event(kbd, ev), cs = Ascii(k, ev),
         StartLights(x, k, ev)
  PROVE  /\ k \in KbdStates /\ led' \in [Contexts -> Commands]
         /\ cs = << >> \/ \E c \in Chars : cs = <<c>>
<1>1. /\ setup \in Setups /\ kbd \in KbdStates /\ led \in [Contexts -> Commands]
  BY TypeParts
<1>2. ev \in Events
  BY <1>1, DecodeType DEF KbdStates
<1>3. k \in KbdStates
  BY <1>1, <1>2, HandleType, SetupType
<1>4. cs = << >> \/ \E c \in Chars : cs = <<c>>
  BY AsciiType DEF Ascii
<1>5. led' \in [Contexts -> Commands]
  <2>1. [ph |-> "send", retry |-> 0, val |-> k.locks] \in Commands
    BY <1>3 DEF Commands, KbdStates, PS2_RETRIES
  <2> QED BY <1>1, <2>1 DEF StartLights
<1> QED BY <1>3, <1>4, <1>5

-----------------------------------------------------------------------------
(* The invariant *)

\* One context pushes at a time: the characters come by interrupt and from the
\* timer, both with interrupts off, or all of them from the polling reader,
\* which is the case when IRQ1 does not arrive and no key is held long enough
\* to repeat.
OneWriter == ~Polling \/ (~Irq /\ MaxTicks <= REPEAT_DELAY)

HalfPushed == IF reader.pc = "advance" THEN 1 ELSE 0

Queue ==
  /\ Holds(ring, pending, HalfPushed)
  /\ reader.pc = "took" => pending # << >> /\ reader.c = Head(pending)
  /\ reader.pc = "store" => reader.c \in Chars

\* RingIsQueue is not inductive: it says nothing of a character on its way
\* from the decoder to the buffer, nor which contexts can be at work.
IInv ==
  /\ TypeOK
  /\ ~Irq => mode = "main"
  /\ ~Polling => reader.pc \in {"call", "took"}
  /\ OneWriter => Queue

LEMMA InitInv == Init => IInv
<1> SUFFICES ASSUME Init PROVE IInv
  OBVIOUS
<1>1. TypeOK
  BY InitTypes
<1>2. Holds(ring, pending, HalfPushed)
  <2>1. ring \in Rings
    BY <1>1, TypeParts
  <2>2. HalfPushed = 0 /\ pending = << >> /\ ring.head = 0 /\ ring.tail = 0
    BY DEF Init, HalfPushed
  <2> QED BY <2>1, <2>2, SizeType DEF Holds, Between
<1> QED BY <1>1, <1>2 DEF IInv, Queue, Init

\* A step that leaves the ring, the reader and the promise alone.
LEMMA Elsewhere ==
  ASSUME IInv, TypeOK', UNCHANGED <<setup, ring, reader, pending>>,
         mode' = mode \/ Irq
  PROVE  IInv'
<1>1. (Irq' <=> Irq) /\ (Polling' <=> Polling) /\ (OneWriter' <=> OneWriter)
  BY DEF Irq, Polling, OneWriter, MaxTicks
<1>2. Queue' <=> Queue
  BY DEF Queue, HalfPushed
<1> QED BY <1>1, <1>2 DEF IInv

LEMMA UserSteps ==
  ASSUME IInv, Press \/ Typematic \/ Release \/ DeviceByte
  PROVE  IInv'
<1>1. /\ TypeOK /\ setup \in Setups /\ Scene /\ kbd \in KbdStates /\ ring \in Rings
      /\ led \in [Contexts -> Commands] /\ reader \in Readers
  BY TypeParts DEF IInv
<1>2. UNCHANGED <<setup, kbd, ring, mode, led, reader, pending, lit>>
  BY DEF Press, Typematic, Release, DeviceByte, Typing, driver, user
<1>3. KbdStates' = KbdStates /\ Keys' = Keys /\ MaxEvents' = MaxEvents
  BY <1>2 DEF KbdStates, MaxTicks, Keys, MaxEvents
<1>4. ASSUME NEW k \in Keys, NEW down, down \subseteq Keys, NEW bytes \in Seq(Bytes),
             NEW cs, Typing(k, down, bytes, cs)
      PROVE  Scene'
  <2>1. wire \o bytes \in Seq(Bytes)
    BY <1>1 DEF Scene
  <2>2. events + 1 \in 0..MaxEvents
    BY <1>1, <1>4, SetupType DEF Scene, Typing
  <2> QED BY <1>1, <1>2, <1>3, <1>4, <2>1, <2>2 DEF Scene, Typing
<1>5. Scene'
  <2>1. CASE Press
    <3>1. PICK k \in Keys \ held :
            Typing(k, IF k = "Pause" THEN held ELSE held \cup {k}, Make(k), CharOf(k, held))
      BY <2>1 DEF Press
    <3>2. Make(k) \in Seq(Bytes)
      BY <1>1, MakeType, SetupType
    <3>3. (IF k = "Pause" THEN held ELSE held \cup {k}) \subseteq Keys
      BY <1>1 DEF Scene
    <3> QED BY <3>1, <3>2, <3>3, <1>4
  <2>2. CASE Typematic
    <3>1. PICK k \in held \ {"LShift"} : Typing(k, held, Make(k), CharOf(k, held))
      BY <2>2 DEF Typematic
    <3>2. k \in Keys /\ Make(k) \in Seq(Bytes) /\ held \subseteq Keys
      BY <1>1, MakeType, SetupType DEF Scene
    <3> QED BY <3>1, <3>2, <1>4
  <2>3. CASE Release
    <3>1. PICK k \in held : Typing(k, held \ {k}, Break(k), << >>)
      BY <2>3 DEF Release
    <3>2. k \in Keys /\ Break(k) \in Seq(Bytes) /\ held \ {k} \subseteq Keys
      BY <1>1, MakeType, SetupType DEF Scene
    <3> QED BY <3>1, <3>2, <1>4
  <2>4. CASE DeviceByte
    <3>1. Head(wire) \in Bytes /\ Tail(wire) \in Seq(Bytes)
      BY <1>1, <2>4 DEF DeviceByte, Scene
    <3>2. UNCHANGED <<held, events>>
      BY <2>4 DEF DeviceByte, user
    <3> QED BY <1>1, <1>2, <1>3, <2>4, <3>1, <3>2 DEF DeviceByte, Scene
  <2> QED BY <2>1, <2>2, <2>3, <2>4
<1>6. TypeOK'
  BY <1>1, <1>2, <1>3, <1>5, TypePartsNext
<1> QED BY <1>2, <1>6, Elsewhere

LEMMA IrqEdges ==
  ASSUME IInv, IrqEnter \/ IrqReturn
  PROVE  IInv'
<1>1. /\ TypeOK /\ setup \in Setups /\ Scene /\ kbd \in KbdStates /\ ring \in Rings
      /\ led \in [Contexts -> Commands] /\ reader \in Readers
  BY TypeParts DEF IInv
<1>2. UNCHANGED <<setup, held, events, kbd, ring, led, reader, wire, lit, pending>>
  BY DEF IrqEnter, IrqReturn, user, device
<1>3. KbdStates' = KbdStates /\ Keys' = Keys /\ MaxEvents' = MaxEvents
  BY <1>2 DEF KbdStates, MaxTicks, Keys, MaxEvents
<1>4. Scene'
  <2>1. [port EXCEPT !.irq = FALSE] \in [data : Bytes, full : BOOLEAN, irq : BOOLEAN]
    BY <1>1 DEF Scene
  <2> QED BY <1>1, <1>2, <1>3, <2>1 DEF Scene, IrqEnter, IrqReturn, device
<1>5. TypeOK'
  BY <1>1, <1>2, <1>3, <1>4, TypePartsNext
<1>6. Irq
  <2>1. CASE IrqEnter
    BY <2>1 DEF IrqEnter
  <2>2. CASE IrqReturn
    BY <2>2, SetupType, <1>1 DEF IrqReturn, IInv
  <2> QED BY <2>1, <2>2
<1> QED BY <1>2, <1>5, <1>6, Elsewhere

LEMMA Exchanges ==
  ASSUME IInv, NEW x \in Contexts, Exchange(x)
  PROVE  IInv'
BY ExchangeTypes, Elsewhere DEF IInv

\* Pushing from an interrupt handler.
LEMMA PushStep ==
  ASSUME IInv, TypeOK', NEW cs, cs = << >> \/ \E c \in Chars : cs = <<c>>,
         ring' = IF cs = << >> THEN ring ELSE push(ring, cs[1]),
         pending' = Offer(cs), UNCHANGED <<setup, mode, reader>>,
         cs = << >> \/ ~Polling \/ ~OneWriter
  PROVE  IInv'
<1>1. (Irq' <=> Irq) /\ (Polling' <=> Polling) /\ (OneWriter' <=> OneWriter)
  BY DEF Irq, Polling, OneWriter, MaxTicks
<1>2. ASSUME OneWriter PROVE Queue'
  <2>0. Queue
    BY <1>2 DEF IInv
  <2>1. pending \in Seq(Chars)
    BY <2>0 DEF Queue, Holds
  <2>2. CASE cs = << >>
    <3>1. pending' = pending /\ ring' = ring
      BY <2>1, <2>2 DEF Offer
    <3> QED BY <2>0, <3>1 DEF Queue, HalfPushed
  <2>3. CASE cs # << >>
    <3>1. PICK c \in Chars : cs = <<c>>
      BY <2>3
    <3>2. reader.pc \in {"call", "took"} /\ HalfPushed = 0
      BY <1>2, <2>3 DEF IInv, HalfPushed
    <3>3. Holds(ring, pending, 0)
      BY <2>0, <3>2 DEF Queue
    <3>4. ring' = push(ring, c)
      BY <2>3, <3>1
    <3>5. pending' = IF Len(pending) >= KBD_BUFFER_SIZE - 1 THEN pending
                                                           ELSE pending \o <<c>>
      BY <3>1 DEF Offer
    <3>6. Holds(ring', pending', 0)
      BY <3>3, <3>4, <3>5, PushHolds
    <3>7. HalfPushed' = 0
      BY <3>2 DEF HalfPushed
    <3>8. pending # << >> => pending' # << >> /\ Head(pending') = Head(pending)
      BY <2>1, <3>5
    <3> QED BY <2>0, <3>2, <3>6, <3>7, <3>8 DEF Queue
  <2> QED BY <2>2, <2>3
<1> QED BY <1>1, <1>2 DEF IInv

LEMMA IrqByteStep ==
  ASSUME IInv, IrqByte
  PROVE  IInv'
<1> DEFINE ev == decode(kbd.st, port.data)
           k == handle_event(kbd, ev)
           cs == Ascii(k, ev)
<1>1. /\ TypeOK /\ setup \in Setups /\ Scene /\ kbd \in KbdStates /\ ring \in Rings
      /\ led \in [Contexts -> Commands] /\ reader \in Readers
  BY TypeParts DEF IInv
<1>2. /\ UNCHANGED <<setup, held, events, mode, reader, wire, lit>>
      /\ mode = "irq" /\ kbd' = k /\ pending' = Offer(cs)
      /\ port' = [port EXCEPT !.full = FALSE] /\ StartLights("irq", k, ev)
      /\ ring' = IF cs = << >> THEN ring ELSE push(ring, cs[1])
  BY DEF IrqByte, user
<1>3. KbdStates' = KbdStates /\ Keys' = Keys /\ MaxEvents' = MaxEvents
  BY <1>2 DEF KbdStates, MaxTicks, Keys, MaxEvents
<1>4. "irq" \in Contexts
  BY DEF Contexts
<1>5. /\ k \in KbdStates /\ led' \in [Contexts -> Commands]
      /\ cs = << >> \/ \E c \in Chars : cs = <<c>>
  <2> HIDE DEF ev, k, cs
  <2>1. ev = decode(kbd.st, port.data) /\ k = handle_event(kbd, ev) /\ cs = Ascii(k, ev)
    BY DEF ev, k, cs
  <2> QED BY <1>1, <1>2, <1>4, <2>1, DecodeStep
<1> HIDE DEF ev, k, cs
<1>6. ring' \in Rings
  BY <1>1, <1>2, <1>5, PushType
<1>7. Scene'
  <2>1. [port EXCEPT !.full = FALSE] \in [data : Bytes, full : BOOLEAN, irq : BOOLEAN]
    BY <1>1 DEF Scene
  <2> QED BY <1>1, <1>2, <1>3, <2>1 DEF Scene
<1>8. TypeOK'
  BY <1>1, <1>2, <1>3, <1>5, <1>6, <1>7, TypePartsNext
<1>9. ~Polling \/ ~OneWriter
  BY <1>2 DEF IInv, OneWriter
<1> QED BY <1>2, <1>5, <1>8, <1>9, PushStep

LEMMA TimerStep ==
  ASSUME IInv, keyboard_timer_tick
  PROVE  IInv'
<1> DEFINE t == kbd.repeat_timer + 1
           e == t - REPEAT_DELAY
           cs == IF e > 0 /\ e % REPEAT_RATE = 0
                 THEN keycode_to_ascii_char(kbd, kbd.repeat_key) ELSE << >>
<1>1. /\ TypeOK /\ setup \in Setups /\ Scene /\ kbd \in KbdStates /\ ring \in Rings
      /\ led \in [Contexts -> Commands] /\ reader \in Readers
  BY TypeParts DEF IInv
<1>2. /\ UNCHANGED <<setup, held, events, mode, led, reader, port, wire, lit>>
      /\ kbd.repeat_timer < MaxTicks /\ kbd' = [kbd EXCEPT !.repeat_timer = t]
      /\ ring' = IF cs = << >> THEN ring ELSE push(ring, cs[1])
      /\ pending' = Offer(cs)
  BY DEF keyboard_timer_tick, user, device
<1>3. KbdStates' = KbdStates /\ Keys' = Keys /\ MaxEvents' = MaxEvents
  BY <1>2 DEF KbdStates, MaxTicks, Keys, MaxEvents
<1>4. /\ MaxTicks \in Nat /\ REPEAT_DELAY \in Nat /\ REPEAT_RATE \in Nat
      /\ kbd.repeat_timer \in 0..MaxTicks
  BY <1>1, SetupType, KeyboardAssumption DEF KbdStates
<1>5. t \in 0..MaxTicks
  BY <1>2, <1>4
<1>6. kbd' \in KbdStates
  <2> HIDE DEF t
  <2> QED BY <1>1, <1>2, <1>5 DEF KbdStates
<1>7. cs = << >> \/ \E c \in Chars : cs = <<c>>
  BY AsciiType
<1>8. MaxTicks <= REPEAT_DELAY => cs = << >>
  <2> SUFFICES ASSUME MaxTicks <= REPEAT_DELAY PROVE ~(e > 0)
    OBVIOUS
  <2> QED BY <1>4, <1>5
<1> HIDE DEF t, e, cs
<1>9. ring' \in Rings
  BY <1>1, <1>2, <1>7, PushType
<1>10. Scene'
  BY <1>1, <1>2, <1>3 DEF Scene
<1>11. TypeOK'
  BY <1>1, <1>2, <1>3, <1>6, <1>9, <1>10, TypePartsNext
<1>12. cs = << >> \/ ~Polling \/ ~OneWriter
  BY <1>8 DEF OneWriter
<1> QED BY <1>2, <1>7, <1>11, <1>12, PushStep

\* The reader's steps, without the light commands.
LEMMA ReaderTypes ==
  ASSUME TypeOK,
         PopTake \/ PopReturn \/ PollStart \/ PollStatus \/ PollData
         \/ PollDecode \/ PollStore \/ PollAdvance
  PROVE  TypeOK' /\ UNCHANGED <<setup, mode>>
<1>1. /\ TypeOK /\ setup \in Setups /\ Scene /\ kbd \in KbdStates /\ ring \in Rings
      /\ led \in [Contexts -> Commands] /\ reader \in Readers
  BY TypeParts
<1>2. UNCHANGED <<setup, held, events, mode, wire, lit>>
  BY DEF PopTake, PopReturn, PollStart, PollStatus, PollData, PollDecode, PollStore,
         PollAdvance, user, device
<1>3. KbdStates' = KbdStates /\ Keys' = Keys /\ MaxEvents' = MaxEvents
  BY <1>2 DEF KbdStates, MaxTicks, Keys, MaxEvents
<1>4. /\ reader.b \in Bytes /\ reader.c \in Chars \cup {None} /\ 0 \in Bytes
      /\ port.data \in Bytes /\ ring.data[ring.tail] \in Chars \cup {None}
  <2>1. reader.b \in Bytes /\ reader.c \in Chars \cup {None}
    BY <1>1 DEF Readers
  <2>2. port.data \in Bytes
    BY <1>1 DEF Scene
  <2>3. ring.data[ring.tail] \in Chars \cup {None}
    BY <1>1 DEF Rings
  <2>4. 0 \in Bytes
    BY DEF Bytes
  <2> QED BY <2>1, <2>2, <2>3, <2>4
<1>5. CASE PopTake \/ PollStart \/ PollStatus
  <2>1. UNCHANGED <<kbd, ring, led, port>>
    BY <1>5 DEF PopTake, PollStart, PollStatus, device
  <2>2. reader' \in Readers
    BY <1>1, <1>4, <1>5 DEF PopTake, PollStart, PollStatus, Readers
  <2>3. Scene'
    BY <1>1, <1>2, <1>3, <2>1 DEF Scene
  <2> QED BY <1>1, <1>2, <1>3, <2>1, <2>2, <2>3, TypePartsNext
<1>6. CASE PopReturn
  <2>1. (ring.tail + 1) % KBD_BUFFER_SIZE \in 0..Size-1
    BY <1>1, NextMod DEF Rings
  <2>2. ring' \in Rings
    BY <1>1, <1>6, <2>1 DEF PopReturn, Rings
  <2>3. reader' \in Readers
    BY <1>4, <1>6 DEF PopReturn, Readers
  <2>4. UNCHANGED <<kbd, led, port>>
    BY <1>6 DEF PopReturn, device
  <2>5. Scene'
    BY <1>1, <1>2, <1>3, <2>4 DEF Scene
  <2> QED BY <1>1, <1>2, <1>3, <2>2, <2>3, <2>4, <2>5, TypePartsNext
<1>7. CASE PollData
  <2>1. [port EXCEPT !.full = FALSE] \in [data : Bytes, full : BOOLEAN, irq : BOOLEAN]
    BY <1>1 DEF Scene
  <2>2. Scene'
    BY <1>1, <1>2, <1>3, <1>7, <2>1 DEF Scene, PollData
  <2>3. reader' \in Readers
    BY <1>4, <1>7 DEF PollData, Readers
  <2>4. UNCHANGED <<kbd, ring, led>>
    BY <1>7 DEF PollData
  <2> QED BY <1>1, <1>2, <1>3, <2>2, <2>3, <2>4, TypePartsNext
<1>8. CASE PollDecode
  <2> DEFINE ev == decode(kbd.st, reader.b)
             k == handle_event(kbd, ev)
             cs == Ascii(k, ev)
  <2>1. /\ kbd' = k /\ StartLights("main", k, ev) /\ ring' = ring /\ port' = port
        /\ reader' = IF cs = << >> THEN [pc |-> "status", b |-> 0, c |-> None]
                                   ELSE [pc |-> "store", b |-> 0, c |-> cs[1]]
    BY <1>8 DEF PollDecode, device
  <2>2. "main" \in Contexts
    BY DEF Contexts
  <2>3. /\ k \in KbdStates /\ led' \in [Contexts -> Commands]
        /\ cs = << >> \/ \E c \in Chars : cs = <<c>>
    <3> HIDE DEF ev, k, cs
    <3>1. ev = decode(kbd.st, reader.b) /\ k = handle_event(kbd, ev) /\ cs = Ascii(k, ev)
      BY DEF ev, k, cs
    <3> QED BY <1>1, <2>1, <2>2, <3>1, DecodeStep
  <2> HIDE DEF ev, k, cs
  <2>4. reader' \in Readers
    BY <1>4, <2>1, <2>3 DEF Readers
  <2>5. Scene'
    BY <1>1, <1>2, <1>3, <2>1 DEF Scene
  <2> QED BY <1>1, <1>2, <1>3, <2>1, <2>3, <2>4, <2>5, TypePartsNext
<1>9. CASE PollStore
  <2>1. ring' \in Rings
    BY <1>1, <1>4, <1>9 DEF PollStore, Rings
  <2>2. reader' \in Readers
    BY <1>4, <1>9 DEF PollStore, Readers
  <2>3. UNCHANGED <<kbd, led, port>>
    BY <1>9 DEF PollStore, device
  <2>4. Scene'
    BY <1>1, <1>2, <1>3, <2>3 DEF Scene
  <2> QED BY <1>1, <1>2, <1>3, <2>1, <2>2, <2>3, <2>4, TypePartsNext
<1>10. CASE PollAdvance
  <2>1. (ring.head + 1) % KBD_BUFFER_SIZE \in 0..Size-1
    BY <1>1, NextMod DEF Rings
  <2>2. ring' \in Rings
    BY <1>1, <1>10, <2>1 DEF PollAdvance, Rings
  <2>3. reader' \in Readers
    BY <1>1, <1>10 DEF PollAdvance, Readers
  <2>4. UNCHANGED <<kbd, led, port>>
    BY <1>10 DEF PollAdvance, device
  <2>5. Scene'
    BY <1>1, <1>2, <1>3, <2>4 DEF Scene
  <2> QED BY <1>1, <1>2, <1>3, <2>2, <2>3, <2>4, <2>5, TypePartsNext
<1> QED BY <1>2, <1>5, <1>6, <1>7, <1>8, <1>9, <1>10

LEMMA ReaderStep ==
  ASSUME IInv,
         PopTake \/ PopReturn \/ PollStart \/ PollStatus \/ PollData
         \/ PollDecode \/ PollStore \/ PollAdvance
  PROVE  IInv'
<1>1. TypeOK' /\ UNCHANGED <<setup, mode>> /\ TypeOK
  BY ReaderTypes DEF IInv
<1>2. (Irq' <=> Irq) /\ (Polling' <=> Polling) /\ (OneWriter' <=> OneWriter)
  BY <1>1 DEF Irq, Polling, OneWriter, MaxTicks
<1>3. reader \in Readers /\ ring \in Rings
  BY <1>1, TypeParts
<1>4. ASSUME ~Polling PROVE reader'.pc \in {"call", "took"}
  <2>1. reader.pc \in {"call", "took"}
    BY <1>4 DEF IInv
  <2>2. PopTake \/ PopReturn
    BY <1>4, <2>1 DEF PollStart, PollStatus, PollData, PollDecode, PollStore, PollAdvance
  <2> QED BY <2>2 DEF PopTake, PopReturn
<1>5. ASSUME OneWriter PROVE Queue'
  <2>0. Queue /\ pending \in Seq(Chars)
    BY <1>5 DEF IInv, Queue, Holds
  <2>1. CASE PopTake
    <3>1. HalfPushed = 0 /\ HalfPushed' = 0
      BY <2>1 DEF PopTake, HalfPushed
    <3>2. Holds(ring, pending, 0) /\ ring' = ring /\ pending' = pending
      BY <2>0, <2>1, <3>1 DEF Queue, PopTake
    <3>3. pending # << >>
      <4>1. Len(pending) = Between(ring.tail, ring.head)
        BY <3>2, HoldsFacts
      <4>2. Between(ring.tail, ring.head) # 0
        BY <1>3, <2>1, EmptyIs DEF PopTake
      <4> QED BY <4>1, <4>2, <2>0
    <3>4. ring.data[ring.tail] = Head(pending)
      BY <3>2, <3>3, PopHolds
    <3>5. reader' = [pc |-> "took", b |-> reader.b, c |-> ring.data[ring.tail]]
      BY <2>1 DEF PopTake
    <3> QED BY <3>1, <3>2, <3>3, <3>4, <3>5 DEF Queue
  <2>2. CASE PopReturn
    <3>1. HalfPushed = 0 /\ HalfPushed' = 0 /\ reader.pc = "took"
      BY <2>2 DEF PopReturn, HalfPushed
    <3>2. Holds(ring, pending, 0) /\ pending # << >>
      BY <2>0, <3>1 DEF Queue
    <3>3. /\ ring' = [ring EXCEPT !.tail = (@ + 1) % KBD_BUFFER_SIZE]
          /\ pending' = Tail(pending)
          /\ reader' = [pc |-> "call", b |-> reader.b, c |-> None]
      BY <2>2, <3>2 DEF PopReturn
    <3>4. Holds(ring', pending', 0)
      BY <3>2, <3>3, PopHolds
    <3> QED BY <3>1, <3>3, <3>4 DEF Queue
  <2>3. CASE PollStart \/ PollStatus \/ PollData
    <3>1. /\ ring' = ring /\ pending' = pending /\ HalfPushed = 0
          /\ reader'.pc \in {"status", "data", "call", "decode"}
      BY <1>3, <2>3 DEF PollStart, PollStatus, PollData, HalfPushed, Readers
    <3>2. HalfPushed' = 0
      BY <3>1 DEF HalfPushed
    <3> QED BY <2>0, <3>1, <3>2 DEF Queue
  <2>4. CASE PollDecode
    <3> DEFINE ev == decode(kbd.st, reader.b)
               k == handle_event(kbd, ev)
               cs == Ascii(k, ev)
    <3>1. cs = << >> \/ \E c \in Chars : cs = <<c>>
      BY AsciiType DEF Ascii
    <3>2. /\ reader' = IF cs = << >> THEN [pc |-> "status", b |-> 0, c |-> None]
                                     ELSE [pc |-> "store", b |-> 0, c |-> cs[1]]
          /\ ring' = ring /\ pending' = pending /\ reader.pc = "decode"
      BY <2>4 DEF PollDecode
    <3> HIDE DEF ev, k, cs
    <3>3. /\ reader'.pc \in {"status", "store"}
          /\ reader'.pc = "store" => reader'.c \in Chars
      BY <3>1, <3>2
    <3>4. HalfPushed = 0 /\ HalfPushed' = 0
      BY <3>2, <3>3 DEF HalfPushed
    <3> QED BY <2>0, <3>2, <3>3, <3>4 DEF Queue
  <2>5. CASE PollStore
    <3>1. HalfPushed = 0 /\ reader.c \in Chars
      BY <2>0, <2>5 DEF PollStore, HalfPushed, Queue
    <3>2. Holds(ring, pending, 0)
      BY <2>0, <3>1 DEF Queue
    <3>3. Len(pending) = Between(ring.tail, ring.head) /\ Len(pending) < Size
          /\ Len(pending) \in Nat
      BY <3>2, HoldsFacts
    <3>4. CASE is_full(ring)
      <4>1. Len(pending) >= KBD_BUFFER_SIZE - 1
        BY <1>3, <3>3, <3>4, FullIs, SizeType DEF Size
      <4>2. /\ ring' = ring /\ pending' = pending
            /\ reader' = [pc |-> "status", b |-> reader.b, c |-> None]
        BY <2>5, <3>4, <4>1 DEF PollStore, Offer
      <4>3. HalfPushed' = 0
        BY <4>2 DEF HalfPushed
      <4> QED BY <3>2, <4>2, <4>3 DEF Queue
    <3>5. CASE ~is_full(ring)
      <4>1. ~(Len(pending) >= KBD_BUFFER_SIZE - 1)
        BY <1>3, <3>3, <3>5, FullIs, SizeType DEF Size
      <4>2. /\ ring' = [ring EXCEPT !.data[ring.head] = reader.c]
            /\ pending' = pending \o <<reader.c>>
            /\ reader' = [pc |-> "advance", b |-> reader.b, c |-> None]
        BY <2>5, <3>5, <4>1 DEF PollStore, Offer
      <4>3. pending' = Append(pending, reader.c)
        BY <2>0, <3>1, <4>2
      <4>4. Holds(ring', pending', 1)
        BY <3>1, <3>2, <3>5, <4>2, <4>3, StoreHolds
      <4>5. HalfPushed' = 1
        BY <4>2 DEF HalfPushed
      <4> QED BY <4>2, <4>4, <4>5 DEF Queue
    <3> QED BY <3>4, <3>5
  <2>6. CASE PollAdvance
    <3>1. /\ ring' = [ring EXCEPT !.head = (@ + 1) % KBD_BUFFER_SIZE]
          /\ pending' = pending /\ reader'.pc = "status" /\ HalfPushed = 1
      BY <1>3, <2>6 DEF PollAdvance, HalfPushed, Readers
    <3>2. Holds(ring, pending, 1)
      BY <2>0, <3>1 DEF Queue
    <3>3. Holds(ring', pending', 0)
      BY <3>1, <3>2, AdvanceHolds
    <3>4. HalfPushed' = 0
      BY <3>1 DEF HalfPushed
    <3> QED BY <3>1, <3>3, <3>4 DEF Queue
  <2> QED BY <2>1, <2>2, <2>3, <2>4, <2>5, <2>6
<1> QED BY <1>1, <1>2, <1>4, <1>5 DEF IInv

-----------------------------------------------------------------------------
\* IInv holds in every reachable state, for every buffer size, repeat setting,
\* machine and user.
THEOREM InvHolds == Spec => []IInv
<1>1. IInv /\ [Next]_vars => IInv'
  <2> SUFFICES ASSUME IInv, [Next]_vars PROVE IInv'
    OBVIOUS
  <2>1. CASE UNCHANGED vars
    <3>1. UNCHANGED <<setup, kbd, ring, mode, led, reader, port, wire, lit, held,
                      events, pending>>
      BY <2>1 DEF vars, driver, device, user
    <3>2. TypeOK'
      BY <3>1 DEF IInv, TypeOK, Keys, MaxTicks, MaxEvents
    <3> QED BY <3>1, <3>2, Elsewhere
  <2>2. CASE Press \/ Typematic \/ Release \/ DeviceByte
    BY <2>2, UserSteps
  <2>3. CASE IrqEnter \/ IrqReturn
    BY <2>3, IrqEdges
  <2>4. CASE IrqByte
    BY <2>4, IrqByteStep
  <2>5. CASE Exchange("irq") \/ Exchange("main")
    BY <2>5, Exchanges DEF Contexts
  <2>6. CASE keyboard_timer_tick
    BY <2>6, TimerStep
  <2>7. CASE PopTake \/ PopReturn \/ PollStart \/ PollStatus \/ PollData
             \/ PollDecode \/ PollStore \/ PollAdvance
    BY <2>7, ReaderStep
  <2> QED BY <2>1, <2>2, <2>3, <2>4, <2>5, <2>6, <2>7 DEF Next, Handler, Reader
<1> QED BY <1>1, InitInv, PTL DEF Spec

\* For every KBD_BUFFER_SIZE the ring buffer is a queue while one context
\* pushes at a time: nothing is lost, repeated or reordered between
\* ring_buffer_push and ring_buffer_pop, and a character is dropped only when
\* KBD_BUFFER_SIZE-1 are waiting, although the handlers push between the two
\* halves of a pop.
THEOREM BufferIsQueue == Spec => [](OneWriter => RingIsQueue)
<1>1. IInv => (OneWriter => RingIsQueue)
  <2> SUFFICES ASSUME Queue PROVE RingIsQueue
    BY DEF IInv
  <2> DEFINE x == IF reader.pc = "advance" THEN 1 ELSE 0
  <2>1. x \in {0, 1} /\ Holds(ring, pending, x)
    BY DEF Queue, HalfPushed
  <2> HIDE DEF x
  <2>2. [i \in 1..((ring.head - ring.tail) % KBD_BUFFER_SIZE) + x |->
           ring.data[(ring.tail + i - 1) % KBD_BUFFER_SIZE]] = pending
    BY <2>1, HeldIsBuffered
  <2>3. Buffered = pending
    BY <2>2 DEF Buffered, x
  <2> QED BY <2>3 DEF RingIsQueue, Queue
<1> QED BY <1>1, InvHolds, PTL

\* The type invariant: the indices of the ring stay in it for every
\* KBD_BUFFER_SIZE, and kbd_send_command_with_param makes at most PS2_RETRIES
\* rounds, whatever the keyboard answers and in whichever context it runs.
THEOREM TypeCorrect == Spec => []TypeOK
<1>1. IInv => TypeOK
  BY DEF IInv
<1> QED BY <1>1, InvHolds, PTL

-----------------------------------------------------------------------------
(***************************************************************************)
(* Decoding.  What the driver will make of the bytes still on their way is *)
(* a function of its state and of those bytes; the invariant says that it  *)
(* completes the text typed and ends at the keys as they are held.  A run  *)
(* of the decoder over the bytes (Leads) gives that function without       *)
(* recursion: the states and the places in the text behind each byte.      *)
(***************************************************************************)


\* What decoding a byte depends on and changes: the driver's state without
\* the timer and the lights.
Plain(k) == [st |-> k.st, mods |-> k.mods, locks |-> k.locks, led_cache |-> NoLights,
             repeat_key |-> k.repeat_key, repeat_timer |-> 0]

PlainStates ==
  [st : States, mods : SUBSET Modifiers, locks : {{"Num"}}, led_cache : {NoLights},
   repeat_key : KeyCodes, repeat_timer : {0}]

After(k, b) == handle_event(k, decode(k.st, b))
Makes(k, b) == Ascii(After(k, b), decode(k.st, b))

\* The byte b presses a lock key.
Locking(k, b) == decode(k.st, b).type = "press" /\ decode(k.st, b).key \in Locks

\* The byte b takes the driver from k to l and makes of it the character of t
\* between the places p and q, if there is one between them.
Reads(k, b, l, p, q, t) ==
  /\ ~Locking(k, b)
  /\ l = After(k, b)
  /\ \/ Makes(k, b) = << >> /\ q = p
     \/ q = p + 1 /\ q <= Len(t) /\ Makes(k, b) = <<t[q]>>

\* The bytes of s take the driver from k to f, and what it makes of them is
\* what t has behind its first n characters.
Leads(s, k, n, f, t) ==
  \E run \in [0..Len(s) -> PlainStates], place \in [0..Len(s) -> Nat] :
    /\ run[0] = k /\ run[Len(s)] = f
    /\ place[0] = n /\ place[Len(s)] = Len(t)
    /\ \A i \in 1..Len(s) : Reads(run[i-1], s[i], run[i], place[i-1], place[i], t)

LEMMA LeadsTypes ==
  ASSUME NEW s \in Seq(Bytes), NEW k, NEW n, NEW f, NEW t, Leads(s, k, n, f, t)
  PROVE  k \in PlainStates /\ f \in PlainStates /\ n \in Nat
BY DEF Leads

LEMMA LeadsNowhere ==
  ASSUME NEW k \in PlainStates, NEW t \in Seq(Chars)
  PROVE  Leads(<< >>, k, Len(t), k, t)
<1> DEFINE run == [i \in 0..0 |-> k]
           place == [i \in 0..0 |-> Len(t)]
<1>1. Len(<< >>) = 0
  OBVIOUS
<1>2. /\ run \in [0..0 -> PlainStates] /\ place \in [0..0 -> Nat]
      /\ run[0] = k /\ place[0] = Len(t)
  OBVIOUS
<1>3. 1..Len(<< >>) = {}
  BY <1>1
<1> HIDE DEF run, place
<1> QED BY <1>1, <1>2, <1>3 DEF Leads

LEMMA AfterPlain ==
  ASSUME NEW k \in PlainStates, NEW b, ~Locking(k, b)
  PROVE  After(k, b) \in PlainStates
<1> DEFINE ev == decode(k.st, b)
<1>1. ev \in Events
  BY DecodeType DEF PlainStates
<1>2. /\ k.mods \subseteq Modifiers /\ k.locks = {"Num"} /\ k.led_cache = NoLights
      /\ k.repeat_key \in KeyCodes /\ k.repeat_timer = 0 /\ None \in KeyCodes
  BY DEF PlainStates, KeyCodes
<1>3. ev.st \in States /\ ev.key \in KeyCodes
  BY <1>1 DEF Events
<1> HIDE DEF ev
<1>4. CASE ev.type = "press"
  <2> DEFINE mods == k.mods \cup ({ev.key} \cap Modifiers)
  <2>1. mods \in SUBSET Modifiers
    BY <1>2
  <2>2. handle_event(k, ev) =
          [st |-> ev.st, mods |-> mods, locks |-> {"Num"}, led_cache |-> NoLights,
           repeat_key |-> ev.key, repeat_timer |-> 0]
    BY <1>2, <1>4 DEF handle_event, ev, Locking
  <2> HIDE DEF mods
  <2> QED BY <2>1, <2>2, <1>3 DEF After, ev, PlainStates
<1>5. CASE ev.type = "release"
  <2> DEFINE mods == k.mods \ {ev.key}
             key == IF ev.key = k.repeat_key THEN None ELSE k.repeat_key
  <2>1. mods \in SUBSET Modifiers /\ key \in KeyCodes
    BY <1>2
  <2>2. handle_event(k, ev) =
          [st |-> ev.st, mods |-> mods, locks |-> {"Num"}, led_cache |-> NoLights,
           repeat_key |-> key, repeat_timer |-> 0]
    BY <1>2, <1>5 DEF handle_event
  <2> HIDE DEF mods, key
  <2> QED BY <2>1, <2>2, <1>3 DEF After, ev, PlainStates
<1>6. CASE ev.type = "no event"
  <2>1. handle_event(k, ev) = [k EXCEPT !.st = ev.st]
    BY <1>6 DEF handle_event
  <2> QED BY <2>1, <1>3 DEF After, ev, PlainStates
<1> QED BY <1>1, <1>4, <1>5, <1>6 DEF Events

\* One more byte behind the others.
LEMMA LeadsAppend ==
  ASSUME NEW s \in Seq(Bytes), NEW k, NEW n, NEW f, NEW t \in Seq(Chars),
         Leads(s, k, n, f, t), NEW b \in Bytes, NEW u \in Seq(Chars),
         ~Locking(f, b),
         \/ Makes(f, b) = << >> /\ u = t
         \/ \E c \in Chars : Makes(f, b) = <<c>> /\ u = Append(t, c)
  PROVE  Leads(Append(s, b), k, n, After(f, b), u)
<1>1. PICK run \in [0..Len(s) -> PlainStates], place \in [0..Len(s) -> Nat] :
        /\ run[0] = k /\ run[Len(s)] = f
        /\ place[0] = n /\ place[Len(s)] = Len(t)
        /\ \A i \in 1..Len(s) : Reads(run[i-1], s[i], run[i], place[i-1], place[i], t)
  BY DEF Leads
<1> DEFINE N == Len(s)
           g == After(f, b)
           run2 == [i \in 0..N+1 |-> IF i = N + 1 THEN g ELSE run[i]]
           place2 == [i \in 0..N+1 |-> IF i = N + 1 THEN Len(u) ELSE place[i]]
<1>2. N \in Nat /\ Len(Append(s, b)) = N + 1 /\ Append(s, b)[N + 1] = b
      /\ \A i \in 1..N : Append(s, b)[i] = s[i]
  OBVIOUS
<1>3. g \in PlainStates
  <2>1. f \in PlainStates
    BY LeadsTypes
  <2> QED BY <2>1, AfterPlain
<1>4. Len(t) \in Nat /\ Len(u) \in Nat
      /\ Len(t) <= Len(u) /\ \A j \in 1..Len(t) : u[j] = t[j]
      /\ \/ Makes(f, b) = << >> /\ Len(u) = Len(t)
         \/ Len(u) = Len(t) + 1 /\ Makes(f, b) = <<u[Len(u)]>>
  <2>1. CASE Makes(f, b) = << >> /\ u = t
    BY <2>1
  <2>2. ASSUME NEW c \in Chars, Makes(f, b) = <<c>>, u = Append(t, c)
        PROVE  /\ Len(t) \in Nat /\ Len(u) = Len(t) + 1 /\ u[Len(u)] = c
               /\ \A j \in 1..Len(t) : u[j] = t[j]
    BY <2>2
  <2> QED BY <2>1, <2>2
<1>5. run2 \in [0..N+1 -> PlainStates] /\ place2 \in [0..N+1 -> Nat]
  BY <1>1, <1>2, <1>3, <1>4
<1>6. run2[0] = k /\ run2[N+1] = g /\ place2[0] = n /\ place2[N+1] = Len(u)
  BY <1>1, <1>2
<1>7. ASSUME NEW i \in 1..N+1
      PROVE  Reads(run2[i-1], Append(s, b)[i], run2[i], place2[i-1], place2[i], u)
  <2>1. CASE i = N + 1
    <3>1. /\ run2[i-1] = f /\ place2[i-1] = Len(t)
          /\ run2[i] = g /\ place2[i] = Len(u) /\ Append(s, b)[i] = b
      BY <1>1, <1>2, <2>1
    <3> HIDE DEF run2, place2, g, N
    <3> QED BY <3>1, <1>4 DEF Reads, g
  <2>2. CASE i # N + 1
    <3>1. /\ i \in 1..N /\ i - 1 \in 0..N
          /\ run2[i-1] = run[i-1] /\ place2[i-1] = place[i-1]
          /\ run2[i] = run[i] /\ place2[i] = place[i] /\ Append(s, b)[i] = s[i]
      BY <1>2, <2>2
    <3>2. Reads(run[i-1], s[i], run[i], place[i-1], place[i], t)
      BY <1>1, <3>1
    <3>3. place \in [0..N -> Nat] /\ i \in 0..N
      BY <1>1, <3>1, <1>2
    <3>4. place[i] \in Nat /\ place[i-1] \in Nat
      BY <3>1, <3>3
    <3> HIDE DEF run2, place2, g, N
    <3> QED BY <3>1, <3>2, <3>4, <1>4 DEF Reads
  <2> QED BY <2>1, <2>2
<1> HIDE DEF run2, place2, g, N
<1>8. /\ run2 \in [0..Len(Append(s, b)) -> PlainStates]
      /\ place2 \in [0..Len(Append(s, b)) -> Nat]
      /\ run2[0] = k /\ run2[Len(Append(s, b))] = g
      /\ place2[0] = n /\ place2[Len(Append(s, b))] = Len(u)
      /\ \A i \in 1..Len(Append(s, b)) :
           Reads(run2[i-1], Append(s, b)[i], run2[i], place2[i-1], place2[i], u)
  BY <1>2, <1>5, <1>6, <1>7
<1>9. Leads(Append(s, b), k, n, g, u)
  BY <1>8 DEF Leads
<1> QED BY <1>9 DEF g

\* The first byte is decoded.
LEMMA LeadsTail ==
  ASSUME NEW s \in Seq(Bytes), NEW k, NEW n, NEW f, NEW t \in Seq(Chars),
         Leads(s, k, n, f, t), s # << >>
  PROVE  LET b == s[1]
         IN /\ ~Locking(k, b)
            /\ \/ Makes(k, b) = << >> /\ Leads(Tail(s), After(k, b), n, f, t)
               \/ /\ n + 1 <= Len(t) /\ Makes(k, b) = <<t[n + 1]>>
                  /\ Leads(Tail(s), After(k, b), n + 1, f, t)
<1>1. PICK run \in [0..Len(s) -> PlainStates], place \in [0..Len(s) -> Nat] :
        /\ run[0] = k /\ run[Len(s)] = f
        /\ place[0] = n /\ place[Len(s)] = Len(t)
        /\ \A i \in 1..Len(s) : Reads(run[i-1], s[i], run[i], place[i-1], place[i], t)
  BY DEF Leads
<1> DEFINE N == Len(s)
           r == Tail(s)
           run2 == [i \in 0..N-1 |-> run[i+1]]
           place2 == [i \in 0..N-1 |-> place[i+1]]
<1>2. /\ N \in Nat /\ N >= 1 /\ Len(r) = N - 1 /\ r \in Seq(Bytes)
      /\ \A i \in 1..N-1 : r[i] = s[i+1]
  OBVIOUS
<1>3. run2 \in [0..N-1 -> PlainStates] /\ place2 \in [0..N-1 -> Nat]
  BY <1>1, <1>2
<1>4. run2[0] = run[1] /\ run2[N-1] = f /\ place2[0] = place[1] /\ place2[N-1] = Len(t)
  BY <1>1, <1>2
<1>5. ASSUME NEW i \in 1..N-1
      PROVE  Reads(run2[i-1], r[i], run2[i], place2[i-1], place2[i], t)
  <2>1. /\ i + 1 \in 1..N /\ i - 1 \in 0..N-1 /\ i \in 0..N-1
        /\ run2[i-1] = run[i] /\ place2[i-1] = place[i]
        /\ run2[i] = run[i+1] /\ place2[i] = place[i+1] /\ r[i] = s[i+1]
    BY <1>2
  <2>2. Reads(run[(i+1)-1], s[i+1], run[i+1], place[(i+1)-1], place[i+1], t)
    BY <1>1, <2>1
  <2>3. (i+1)-1 = i
    OBVIOUS
  <2> HIDE DEF run2, place2, r, N
  <2> QED BY <2>1, <2>2, <2>3
<1> HIDE DEF run2, place2
<1>6. Leads(r, run[1], place[1], f, t)
  BY <1>2, <1>3, <1>4, <1>5 DEF Leads
<1>7. Reads(run[0], s[1], run[1], place[0], place[1], t)
  <2>1. 1 \in 1..N /\ 1 - 1 = 0
    BY <1>2
  <2> QED BY <1>1, <2>1
<1> QED BY <1>1, <1>6, <1>7 DEF Reads

\* What the decoder makes of the bytes a key sends.
LEMMA Decoding ==
  /\ decode("normal", 30) = Event("normal", "A", "press")
  /\ decode("normal", 42) = Event("normal", "LShift", "press")
  /\ decode("normal", 55) = Event("normal", "KpMul", "press")
  /\ decode("normal", 158) = Event("normal", "A", "release")
  /\ decode("normal", 170) = Event("normal", "LShift", "release")
  /\ decode("normal", 183) = Event("normal", "KpMul", "release")
  /\ decode("normal", 197) = Event("normal", "Num", "release")
  /\ decode("normal", 224) = Quiet("e0_data")
  /\ decode("normal", 225) = Quiet("e1_data_1")
  /\ decode("e0_data", 77) = Event("normal", "Right", "press")
  /\ decode("e0_data", 205) = Event("normal", "Right", "release")
  /\ decode("e0_data", 183) = Event("normal", None, "release")
  /\ decode("e0_data", 170) = Event("normal", None, "release")
  /\ decode("e0_data", 42) = Quiet("e0_release")
  /\ decode("e0_release", 224) = Event("normal", "PrtSc", "press")
  /\ decode("e1_data_1", 29) = Quiet("e1_data_2")
  /\ decode("e1_data_2", 69) = Quiet("e1_release_1")
  /\ decode("e1_release_1", 225) = Quiet("e1_release_2")
  /\ decode("e1_release_2", 157) = Event("normal", "Pause", "press")
BY DEF decode, set1_make_to_keycode, e0_make_to_keycode

\* The bytes of s lead to the state st of the decoder, to the modifiers mods
\* and to the key that repeats.
Reaches(k, n, s, t, st, mods, key) ==
  /\ s \in Seq(Bytes) /\ t \in Seq(Chars)
  /\ \E f : /\ Leads(s, k, n, f, t)
            /\ f.st = st /\ f.mods = mods /\ f.repeat_key = key

\* A byte that is no event changes the decoder's state only.
LEMMA QuietByte ==
  ASSUME NEW k, NEW n, NEW s, NEW t, NEW st, NEW mods, NEW rep, NEW b \in Bytes, NEW to,
         Reaches(k, n, s, t, st, mods, rep), decode(st, b) = Quiet(to)
  PROVE  Reaches(k, n, Append(s, b), t, to, mods, rep)
<1>1. PICK f : Leads(s, k, n, f, t) /\ f.st = st /\ f.mods = mods /\ f.repeat_key = rep
  BY DEF Reaches
<1>2. s \in Seq(Bytes) /\ t \in Seq(Chars) /\ Append(s, b) \in Seq(Bytes)
  BY DEF Reaches
<1>3. f \in PlainStates
  BY <1>1, <1>2, LeadsTypes
<1>4. decode(f.st, b).type = "no event" /\ decode(f.st, b).st = to
  <2>1. Quiet(to).type = "no event" /\ Quiet(to).st = to
    BY DEF Quiet, Event
  <2> QED BY <2>1, <1>1
<1>5. After(f, b) = [f EXCEPT !.st = to] /\ Makes(f, b) = << >> /\ ~Locking(f, b)
  BY <1>4 DEF After, Makes, Ascii, handle_event, Locking
<1>6. Leads(Append(s, b), k, n, After(f, b), t)
  BY <1>1, <1>2, <1>5, LeadsAppend
<1>7. [f EXCEPT !.st = to].st = to /\ [f EXCEPT !.st = to].mods = f.mods
      /\ [f EXCEPT !.st = to].repeat_key = f.repeat_key
  BY <1>3 DEF PlainStates
<1> QED BY <1>1, <1>2, <1>5, <1>6, <1>7 DEF Reaches

UserKeys == {"A", "LShift", "KpMul", "Right", "PrtSc", "Pause"}

\* The character a press makes, where Shift is as in mods.
Typed(key, mods) ==
  IF key = "A" THEN <<IF "LShift" \in mods THEN "A" ELSE "a">> ELSE << >>

LEMMA PressByte ==
  ASSUME NEW k, NEW n, NEW s, NEW t, NEW st, NEW mods, NEW rep, NEW b \in Bytes,
         NEW key \in UserKeys, Reaches(k, n, s, t, st, mods, rep),
         decode(st, b) = Event("normal", key, "press")
  PROVE  Reaches(k, n, Append(s, b), t \o Typed(key, mods), "normal",
                 mods \cup ({key} \cap {"LShift"}), key)
<1>0. PICK f : Leads(s, k, n, f, t) /\ f.st = st /\ f.mods = mods /\ f.repeat_key = rep
  BY DEF Reaches
<1>s. s \in Seq(Bytes) /\ t \in Seq(Chars) /\ Append(s, b) \in Seq(Bytes)
  BY DEF Reaches
<1>1. f \in PlainStates /\ f.locks = {"Num"}
  BY <1>0, <1>s, LeadsTypes DEF PlainStates
<1> DEFINE more == f.mods \cup ({key} \cap {"LShift"})
           g == [st |-> "normal", mods |-> more, locks |-> f.locks,
                 led_cache |-> f.led_cache, repeat_key |-> key, repeat_timer |-> 0]
<1>2. /\ decode(f.st, b).type = "press" /\ decode(f.st, b).key = key
      /\ decode(f.st, b).st = "normal"
  BY <1>0 DEF Event
<1>3. key \notin Locks /\ {key} \cap Modifiers = {key} \cap {"LShift"}
  BY DEF Locks, Modifiers, UserKeys
<1>4. After(f, b) = g /\ ~Locking(f, b)
  BY <1>2, <1>3 DEF After, handle_event, Locking
<1>5. Makes(f, b) = Typed(key, f.mods)
  <2>1. Makes(f, b) = keycode_to_ascii_char(g, key)
    BY <1>2, <1>4 DEF Makes, Ascii
  <2>2. keycode_to_ascii_char(g, key) = Typed(key, f.mods)
    BY <1>1 DEF keycode_to_ascii_char, Typed, UserKeys
  <2> QED BY <2>1, <2>2
<1>g. g.st = "normal" /\ g.mods = mods \cup ({key} \cap {"LShift"}) /\ g.repeat_key = key
  BY <1>0
<1> HIDE DEF g, more
<1>6. \/ Typed(key, f.mods) = << >> /\ t \o Typed(key, f.mods) = t
      \/ \E c \in Chars : /\ Typed(key, f.mods) = <<c>>
                         /\ t \o Typed(key, f.mods) = Append(t, c)
  BY <1>s DEF Typed, Chars
<1>7. t \o Typed(key, f.mods) \in Seq(Chars)
  <2>1. \A c \in Chars : Append(t, c) \in Seq(Chars)
    BY <1>s
  <2> QED BY <1>6, <2>1, <1>s, Zenon
<1>8. Leads(Append(s, b), k, n, After(f, b), t \o Typed(key, f.mods))
  BY <1>0, <1>s, <1>4, <1>5, <1>6, <1>7, LeadsAppend
<1>9. Leads(Append(s, b), k, n, g, t \o Typed(key, mods)) /\ t \o Typed(key, mods) \in Seq(Chars)
  BY <1>0, <1>4, <1>7, <1>8
<1> QED BY <1>9, <1>s, <1>g, Zenon DEF Reaches

LEMMA ReleaseByte ==
  ASSUME NEW k, NEW n, NEW s, NEW t, NEW st, NEW mods, NEW rep, NEW b \in Bytes, NEW key,
         Reaches(k, n, s, t, st, mods, rep),
         decode(st, b) = Event("normal", key, "release")
  PROVE  Reaches(k, n, Append(s, b), t, "normal", mods \ {key},
                 IF key = rep THEN None ELSE rep)
<1>1. PICK f : Leads(s, k, n, f, t) /\ f.st = st /\ f.mods = mods /\ f.repeat_key = rep
  BY DEF Reaches
<1>s. s \in Seq(Bytes) /\ t \in Seq(Chars) /\ Append(s, b) \in Seq(Bytes)
  BY DEF Reaches
<1> DEFINE g == [st |-> "normal", mods |-> f.mods \ {key}, locks |-> f.locks,
                 led_cache |-> f.led_cache,
                 repeat_key |-> IF key = f.repeat_key THEN None ELSE f.repeat_key,
                 repeat_timer |-> IF key = f.repeat_key THEN 0 ELSE f.repeat_timer]
<1>2. /\ decode(f.st, b).type = "release" /\ decode(f.st, b).key = key
      /\ decode(f.st, b).st = "normal"
  BY <1>1 DEF Event
<1>3. After(f, b) = g /\ ~Locking(f, b) /\ Makes(f, b) = << >>
  BY <1>2 DEF After, handle_event, Locking, Makes, Ascii
<1>g. /\ g.st = "normal" /\ g.mods = mods \ {key}
      /\ g.repeat_key = IF key = rep THEN None ELSE rep
  BY <1>1
<1> HIDE DEF g
<1>4. Leads(Append(s, b), k, n, After(f, b), t)
  BY <1>1, <1>s, <1>3, LeadsAppend
<1>5. Leads(Append(s, b), k, n, g, t)
  BY <1>3, <1>4
<1> QED BY <1>5, <1>s, <1>g, Zenon DEF Reaches

LEMMA Appended ==
  ASSUME NEW s \in Seq(Bytes), NEW a \in Bytes, NEW b \in Bytes
  PROVE  /\ s \o << >> = s
         /\ s \o <<a>> = Append(s, a) /\ Append(s, a) \in Seq(Bytes)
         /\ s \o <<a, b>> = Append(Append(s, a), b)
OBVIOUS

LEMMA AppendedFour ==
  ASSUME NEW s \in Seq(Bytes), NEW a \in Bytes, NEW b \in Bytes, NEW c \in Bytes,
         NEW d \in Bytes
  PROVE  s \o <<a, b, c, d>> = Append(Append(Append(Append(s, a), b), c), d)
OBVIOUS

LEMMA KeyBytes ==
  /\ 29 \in Bytes /\ 30 \in Bytes /\ 42 \in Bytes /\ 55 \in Bytes /\ 69 \in Bytes
  /\ 77 \in Bytes /\ 157 \in Bytes /\ 158 \in Bytes /\ 170 \in Bytes /\ 183 \in Bytes
  /\ 197 \in Bytes /\ 205 \in Bytes /\ 224 \in Bytes /\ 225 \in Bytes
BY DEF Bytes

\* The key that repeats once a key was pressed: of PrintScreen's bytes the
\* last one is taken for the keypad's.
Repeats(key) == IF key = "PrtSc" THEN "KpMul" ELSE key

\* The bytes of a press, behind bytes after which the decoder is at rest.
LEMMA MakeLeads ==
  ASSUME NEW k, NEW n, NEW s, NEW t, NEW mods \in SUBSET Modifiers, NEW rep,
         NEW key \in UserKeys, Reaches(k, n, s, t, "normal", mods, rep)
  PROVE  Reaches(k, n, s \o Make(key), t \o Typed(key, mods), "normal",
                 mods \cup ({key} \cap {"LShift"}), Repeats(key))
<1>0. s \in Seq(Bytes) /\ t \in Seq(Chars)
  BY DEF Reaches
<1>t. key # "A" => t = t \o Typed(key, mods)
  BY <1>0 DEF Typed, UserKeys
<1>u. "LShift" \notin {"Right", "PrtSc", "KpMul", "Pause"}
      /\ \A x : x # "LShift" => mods \cup ({x} \cap {"LShift"}) = mods
  OBVIOUS
<1>1. ASSUME NEW b \in Bytes, Make(key) = <<b>>, key # "PrtSc",
             decode("normal", b) = Event("normal", key, "press")
      PROVE  Reaches(k, n, s \o Make(key), t \o Typed(key, mods), "normal",
                     mods \cup ({key} \cap {"LShift"}), Repeats(key))
  <2>1. s \o Make(key) = Append(s, b) /\ Repeats(key) = key
    BY <1>0, <1>1, Appended DEF Repeats
  <2> QED BY <1>1, <2>1, PressByte
<1>2. CASE key = "A"
  <2>1. Make(key) = <<30>> /\ decode("normal", 30) = Event("normal", key, "press")
    BY <1>2, Decoding DEF Make
  <2> QED BY <1>1, <1>2, KeyBytes, <2>1
<1>3. CASE key = "LShift"
  <2>1. Make(key) = <<42>> /\ decode("normal", 42) = Event("normal", key, "press")
    BY <1>3, Decoding DEF Make
  <2> QED BY <1>1, <1>3, KeyBytes, <2>1
<1>4. CASE key = "KpMul"
  <2>1. Make(key) = <<55>> /\ decode("normal", 55) = Event("normal", key, "press")
    BY <1>4, Decoding DEF Make
  <2> QED BY <1>1, <1>4, KeyBytes, <2>1
<1>5. CASE key = "Right"
  <2>0. s \o Make(key) = Append(Append(s, 224), 77)
    BY <1>0, <1>5, Appended, KeyBytes DEF Make
  <2>1. Reaches(k, n, Append(s, 224), t, "e0_data", mods, rep)
    BY QuietByte, Decoding, KeyBytes
  <2>2. Reaches(k, n, Append(Append(s, 224), 77), t \o Typed(key, mods), "normal",
                mods \cup ({key} \cap {"LShift"}), key)
    BY <1>5, <2>1, PressByte, Decoding, KeyBytes
  <2> QED BY <1>5, <2>0, <2>2 DEF Repeats
<1>6. CASE key = "PrtSc"
  <2> DEFINE s1 == Append(s, 224)
             s2 == Append(s1, 42)
             s3 == Append(s2, 224)
  <2>0. s \o Make(key) = Append(s3, 55)
    <3>1. Make(key) = <<224, 42, 224, 55>>
      BY <1>6 DEF Make
    <3>2. s \o <<224, 42, 224, 55>> = Append(Append(Append(Append(s, 224), 42), 224), 55)
      <4>1. \A a, b, c, d \in Bytes :
              s \o <<a, b, c, d>> = Append(Append(Append(Append(s, a), b), c), d)
        BY <1>0, AppendedFour
      <4>2. 224 \in Bytes /\ 42 \in Bytes /\ 55 \in Bytes
        BY KeyBytes
      <4> QED BY <4>1, <4>2
    <3> QED BY <3>1, <3>2
  <2>1. Reaches(k, n, s1, t, "e0_data", mods, rep)
    BY QuietByte, Decoding, KeyBytes
  <2> HIDE DEF s1
  <2>2. Reaches(k, n, s2, t, "e0_release", mods, rep)
    BY <2>1, QuietByte, Decoding, KeyBytes
  <2> HIDE DEF s2
  <2>3. Reaches(k, n, s3, t, "normal", mods, "PrtSc")
    <3>1. Reaches(k, n, s3, t \o Typed("PrtSc", mods), "normal",
                  mods \cup ({"PrtSc"} \cap {"LShift"}), "PrtSc")
      BY <1>6, <2>2, PressByte, Decoding, KeyBytes
    <3> QED BY <1>6, <1>t, <1>u, <3>1
  <2> HIDE DEF s3
  <2>4. Reaches(k, n, Append(s3, 55), t \o Typed("KpMul", mods), "normal",
                mods \cup ({"KpMul"} \cap {"LShift"}), "KpMul")
    <3>1. "KpMul" \in UserKeys
      BY DEF UserKeys
    <3> QED BY <3>1, <2>3, PressByte, Decoding, KeyBytes
  <2>5. Typed("KpMul", mods) = Typed(key, mods) /\ Repeats(key) = "KpMul"
    BY <1>6 DEF Typed, Repeats
  <2> QED BY <1>6, <1>u, <2>0, <2>4, <2>5
<1>7. CASE key = "Pause"
  <2> DEFINE s1 == Append(s, 225)
             s2 == Append(s1, 29)
             s3 == Append(s2, 69)
             s4 == Append(s3, 225)
             s5 == Append(s4, 157)
  <2>0. s \o Make(key) = Append(s5, 197)
    <3>1. Make(key) = <<225, 29, 69, 225, 157, 197>>
      BY <1>7 DEF Make
    <3>2. s \o <<225, 29, 69, 225, 157, 197>> =
            Append(Append(Append(Append(Append(Append(s, 225), 29), 69), 225), 157), 197)
      <4> DEFINE a == 225
                 b == 29
                 c == 69
                 d == 157
                 e == 197
      <4>1. a \in Bytes /\ b \in Bytes /\ c \in Bytes /\ d \in Bytes /\ e \in Bytes
        BY KeyBytes
      <4> HIDE DEF a, b, c, d, e
      <4>2. s \o <<a, b, c, a, d, e>> =
              Append(Append(Append(Append(Append(Append(s, a), b), c), a), d), e)
        BY <1>0, <4>1
      <4> QED BY <4>2 DEF a, b, c, d, e
    <3> QED BY <3>1, <3>2
  <2>1. Reaches(k, n, s1, t, "e1_data_1", mods, rep)
    BY QuietByte, Decoding, KeyBytes
  <2> HIDE DEF s1
  <2>2. Reaches(k, n, s2, t, "e1_data_2", mods, rep)
    BY <2>1, QuietByte, Decoding, KeyBytes
  <2> HIDE DEF s2
  <2>3. Reaches(k, n, s3, t, "e1_release_1", mods, rep)
    BY <2>2, QuietByte, Decoding, KeyBytes
  <2> HIDE DEF s3
  <2>4. Reaches(k, n, s4, t, "e1_release_2", mods, rep)
    BY <2>3, QuietByte, Decoding, KeyBytes
  <2> HIDE DEF s4
  <2>5. Reaches(k, n, s5, t, "normal", mods, "Pause")
    <3>1. Reaches(k, n, s5, t \o Typed("Pause", mods), "normal",
                  mods \cup ({"Pause"} \cap {"LShift"}), "Pause")
      BY <1>7, <2>4, PressByte, Decoding, KeyBytes
    <3> QED BY <1>7, <1>t, <1>u, <3>1
  <2> HIDE DEF s5
  <2>6. Reaches(k, n, Append(s5, 197), t, "normal", mods \ {"Num"},
                IF "Num" = "Pause" THEN None ELSE "Pause")
    BY <2>5, ReleaseByte, Decoding, KeyBytes
  <2>7. mods \ {"Num"} = mods /\ (IF "Num" = "Pause" THEN None ELSE "Pause") = Repeats(key)
    BY <1>7 DEF Modifiers, Repeats
  <2> QED BY <1>7, <1>t, <1>u, <2>0, <2>6, <2>7
<1> QED BY <1>2, <1>3, <1>4, <1>5, <1>6, <1>7 DEF UserKeys

\* The bytes of a release.  PrintScreen's two stand for keys that do not exist.
LEMMA BreakLeads ==
  ASSUME NEW k, NEW n, NEW s, NEW t, NEW mods \in SUBSET Modifiers, NEW rep,
         NEW key \in UserKeys \ {"Pause"}, Reaches(k, n, s, t, "normal", mods, rep)
  PROVE  Reaches(k, n, s \o Break(key), t, "normal", mods \ {key},
                 IF key = rep /\ key # "PrtSc" THEN None ELSE rep)
<1> DEFINE kept == IF key = rep /\ key # "PrtSc" THEN None ELSE rep
<1>0. s \in Seq(Bytes)
  BY DEF Reaches
<1>1. ASSUME NEW b \in Bytes, Break(key) = <<b>>, key # "PrtSc",
             decode("normal", b) = Event("normal", key, "release")
      PROVE  Reaches(k, n, s \o Break(key), t, "normal", mods \ {key}, kept)
  <2>1. s \o Break(key) = Append(s, b) /\ kept = IF key = rep THEN None ELSE rep
    BY <1>0, <1>1, Appended
  <2> HIDE DEF kept
  <2>2. Reaches(k, n, Append(s, b), t, "normal", mods \ {key}, IF key = rep THEN None ELSE rep)
    BY <1>1, ReleaseByte
  <2> QED BY <2>1, <2>2
<1>2. CASE key = "A"
  <2>1. Break(key) = <<158>> /\ decode("normal", 158) = Event("normal", key, "release")
    BY <1>2, Decoding DEF Make, Break
  <2> QED BY <1>1, <1>2, KeyBytes, <2>1
<1>3. CASE key = "LShift"
  <2>1. Break(key) = <<170>> /\ decode("normal", 170) = Event("normal", key, "release")
    BY <1>3, Decoding DEF Make, Break
  <2> QED BY <1>1, <1>3, KeyBytes, <2>1
<1>4. CASE key = "KpMul"
  <2>1. Break(key) = <<183>> /\ decode("normal", 183) = Event("normal", key, "release")
    BY <1>4, Decoding DEF Make, Break
  <2> QED BY <1>1, <1>4, KeyBytes, <2>1
<1>5. CASE key = "Right"
  <2>0. s \o Break(key) = Append(Append(s, 224), 205)
    BY <1>0, <1>5, Appended, KeyBytes DEF Break
  <2>1. Reaches(k, n, Append(s, 224), t, "e0_data", mods, rep)
    BY QuietByte, Decoding, KeyBytes
  <2>2. Reaches(k, n, Append(Append(s, 224), 205), t, "normal", mods \ {key},
                IF key = rep THEN None ELSE rep)
    BY <1>5, <2>1, ReleaseByte, Decoding, KeyBytes
  <2> QED BY <1>5, <2>0, <2>2
<1>6. CASE key = "PrtSc"
  <2> DEFINE s1 == Append(s, 224)
             s2 == Append(s1, 183)
             s3 == Append(s2, 224)
  <2>0. s \o Break(key) = Append(s3, 170)
    <3>1. Break(key) = <<224, 183, 224, 170>>
      BY <1>6 DEF Break
    <3>2. s \o <<224, 183, 224, 170>> = Append(Append(Append(Append(s, 224), 183), 224), 170)
      <4>1. \A a, b, c, d \in Bytes :
              s \o <<a, b, c, d>> = Append(Append(Append(Append(s, a), b), c), d)
        BY <1>0, AppendedFour
      <4>2. 224 \in Bytes /\ 183 \in Bytes /\ 170 \in Bytes
        BY KeyBytes
      <4> QED BY <4>1, <4>2
    <3> QED BY <3>1, <3>2
  <2>r. /\ mods \ {None} = mods /\ mods \ {key} = mods /\ kept = rep
        /\ (IF None = rep THEN None ELSE rep) = rep
    BY <1>6 DEF Modifiers, None
  <2> HIDE DEF kept
  <2>1. Reaches(k, n, s1, t, "e0_data", mods, rep)
    BY QuietByte, Decoding, KeyBytes
  <2> HIDE DEF s1
  <2>2. Reaches(k, n, s2, t, "normal", mods, rep)
    <3>1. Reaches(k, n, s2, t, "normal", mods \ {None}, IF None = rep THEN None ELSE rep)
      BY <2>1, ReleaseByte, Decoding, KeyBytes
    <3> QED BY <3>1, <2>r
  <2> HIDE DEF s2
  <2>3. Reaches(k, n, s3, t, "e0_data", mods, rep)
    BY <2>2, QuietByte, Decoding, KeyBytes
  <2> HIDE DEF s3
  <2>4. Reaches(k, n, Append(s3, 170), t, "normal", mods \ {None}, IF None = rep THEN None ELSE rep)
    BY <2>3, ReleaseByte, Decoding, KeyBytes
  <2> QED BY <2>0, <2>4, <2>r DEF kept
<1> QED BY <1>2, <1>3, <1>4, <1>5, <1>6 DEF UserKeys

\* Decoding the first byte of those that are on their way.
LEMMA ReachesTail ==
  ASSUME NEW k, NEW n, NEW s, NEW t, NEW st, NEW mods, NEW rep,
         Reaches(k, n, s, t, st, mods, rep), s # << >>
  PROVE  /\ ~Locking(k, s[1]) /\ Tail(s) \in Seq(Bytes)
         /\ \/ /\ Makes(k, s[1]) = << >>
               /\ Reaches(After(k, s[1]), n, Tail(s), t, st, mods, rep)
            \/ /\ n + 1 <= Len(t) /\ Makes(k, s[1]) = <<t[n + 1]>>
               /\ Reaches(After(k, s[1]), n + 1, Tail(s), t, st, mods, rep)
<1>1. PICK f : Leads(s, k, n, f, t) /\ f.st = st /\ f.mods = mods /\ f.repeat_key = rep
  BY DEF Reaches
<1>2. s \in Seq(Bytes) /\ t \in Seq(Chars)
  BY DEF Reaches
<1>3. Tail(s) \in Seq(Bytes)
  BY <1>2
<1>4. /\ ~Locking(k, s[1])
      /\ \/ Makes(k, s[1]) = << >> /\ Leads(Tail(s), After(k, s[1]), n, f, t)
         \/ /\ n + 1 <= Len(t) /\ Makes(k, s[1]) = <<t[n + 1]>>
            /\ Leads(Tail(s), After(k, s[1]), n + 1, f, t)
  BY <1>1, <1>2, LeadsTail
<1> QED BY <1>1, <1>2, <1>3, <1>4 DEF Reaches

\* With nothing on its way the driver is where the bytes led.
LEMMA ReachesEnd ==
  ASSUME NEW k, NEW n, NEW t, NEW st, NEW mods, NEW rep,
         Reaches(k, n, << >>, t, st, mods, rep)
  PROVE  n = Len(t) /\ k.st = st /\ k.mods = mods /\ k.repeat_key = rep
<1>1. PICK f : Leads(<< >>, k, n, f, t) /\ f.st = st /\ f.mods = mods /\ f.repeat_key = rep
  BY DEF Reaches
<1>2. Len(<< >>) = 0
  OBVIOUS
<1>3. f = k /\ n = Len(t)
  BY <1>1, <1>2 DEF Leads
<1> QED BY <1>1, <1>3

\* The timer and the lights do not change what decoding does.
LEMMA PlainEvent ==
  ASSUME NEW k \in KbdStates, NEW b, k.locks = {"Num"}, ~Locking(Plain(k), b),
         NEW ev, ev = decode(k.st, b)
  PROVE  /\ Plain(handle_event(k, ev)) = After(Plain(k), b)
         /\ Ascii(handle_event(k, ev), ev) = Makes(Plain(k), b)
         /\ ~NeedsLights(handle_event(k, ev), ev)
<1>1. Plain(k) = [st |-> k.st, mods |-> k.mods, locks |-> k.locks, led_cache |-> NoLights,
                  repeat_key |-> k.repeat_key, repeat_timer |-> 0]
  BY DEF Plain
<1>2. decode(Plain(k).st, b) = ev
  BY <1>1
<1>3. ev \in Events
  BY DecodeType DEF KbdStates
<1>4. ~(ev.type = "press" /\ ev.key \in Locks)
  BY <1>2 DEF Locking
<1>5. After(Plain(k), b) = handle_event(Plain(k), ev)
      /\ Makes(Plain(k), b) = Ascii(handle_event(Plain(k), ev), ev)
  BY <1>2 DEF After, Makes
<1>6. Plain(handle_event(k, ev)) = handle_event(Plain(k), ev)
  <2>1. CASE ev.type = "press"
    BY <1>1, <1>4, <2>1 DEF handle_event, Plain
  <2>2. CASE ev.type = "release"
    BY <1>1, <2>2 DEF handle_event, Plain
  <2>3. CASE ev.type = "no event"
    <3>1. /\ handle_event(k, ev) = [k EXCEPT !.st = ev.st]
          /\ handle_event(Plain(k), ev) = [Plain(k) EXCEPT !.st = ev.st]
      BY <2>3 DEF handle_event
    <3> QED BY <3>1 DEF Plain, KbdStates
  <2> QED BY <1>3, <2>1, <2>2, <2>3 DEF Events
<1>7. Ascii(handle_event(k, ev), ev) = Ascii(handle_event(Plain(k), ev), ev)
  <2>1. CASE ev.type = "press"
    <3>1. /\ handle_event(k, ev).locks = handle_event(Plain(k), ev).locks
          /\ handle_event(k, ev).mods = handle_event(Plain(k), ev).mods
      BY <1>1, <1>4, <2>1 DEF handle_event
    <3> QED BY <3>1 DEF Ascii, keycode_to_ascii_char
  <2>2. CASE ev.type # "press"
    BY <2>2 DEF Ascii
  <2> QED BY <2>1, <2>2
<1>8. ~NeedsLights(handle_event(k, ev), ev)
  BY <1>4 DEF NeedsLights
<1> QED BY <1>5, <1>6, <1>7, <1>8

-----------------------------------------------------------------------------
\* The bytes the driver has still to decode, the next one first.
Stream ==
  (IF reader.pc = "decode" THEN <<reader.b>> ELSE << >>)
    \o ((IF port.full THEN <<port.data>> ELSE << >>) \o wire)

\* Only one of the interrupt handler and the polling reader takes bytes, and no
\* lock key makes a light command take one.
OneDecoder == ~(Irq /\ Polling) /\ "Caps" \notin Keys

\* What the driver will make of the bytes on their way completes what it made
\* so far to the text typed, and brings it to the keys as they are held.
Caught ==
  \E t, rep :
    /\ Reaches(Plain(kbd), Len(made), Stream, t, "normal", held \cap {"LShift"}, rep)
    /\ made \in Seq(Chars) /\ Len(made) <= Len(t)
    /\ \A j \in 1..Len(made) : made[j] = t[j]
    /\ "PrtSc" \notin Keys => rep \in held \cup {None, "Pause"}
    /\ "KpMul" \notin Keys => t = typed

DecodeInv ==
  OneDecoder => /\ led["irq"].ph = "idle" /\ led["main"].ph = "idle"
                /\ reader.pc = "data" => port.full
                /\ "Pause" \notin held
                /\ Caught

LEMMA InitCaught == Init => DecodeInv
<1> SUFFICES ASSUME Init PROVE DecodeInv
  OBVIOUS
<1>1. led["irq"].ph = "idle" /\ led["main"].ph = "idle" /\ reader.pc # "data"
      /\ "Pause" \notin held
  BY DEF Init, Contexts, Idle
<1>2. Stream = << >>
  BY DEF Init, Stream
<1>3. /\ Plain(kbd) \in PlainStates /\ Plain(kbd).st = "normal" /\ Plain(kbd).mods = {}
      /\ Plain(kbd).repeat_key = None
  BY DEF Init, Plain, PlainStates, States, KeyCodes, NoLights
<1>4. << >> \in Seq(Chars) /\ << >> \in Seq(Bytes) /\ Len(<< >>) = 0
  OBVIOUS
<1>5. Leads(<< >>, Plain(kbd), Len(<< >>), Plain(kbd), << >>)
  BY <1>3, <1>4, LeadsNowhere
<1>6. Reaches(Plain(kbd), Len(<< >>), << >>, << >>, "normal", {}, None)
  BY <1>3, <1>4, <1>5 DEF Reaches
<1>7. made = << >> /\ typed = << >> /\ held = {}
  BY DEF Init
<1>8. Caught
  <2>1. held \cap {"LShift"} = {}
    BY <1>7
  <2>2. Reaches(Plain(kbd), Len(made), Stream, << >>, "normal", held \cap {"LShift"}, None)
    BY <1>2, <1>6, <1>7, <2>1
  <2> QED BY <1>4, <1>7, <2>2 DEF Caught
<1> QED BY <1>1, <1>8 DEF DecodeInv

\* A step that neither makes nor takes bytes.
LEMMA StillCaught ==
  ASSUME Caught, UNCHANGED <<setup, held, typed, made>>, Stream' = Stream,
         Plain(kbd') = Plain(kbd)
  PROVE  Caught'
BY DEF Caught, Keys

\* The bytes bring the driver to the keys that are down, and add to the text.
Extends(bytes, add, down) ==
  \A t, rep :
    Reaches(Plain(kbd), Len(made), Stream, t, "normal", held \cap {"LShift"}, rep)
    => \E r : /\ Reaches(Plain(kbd), Len(made), Stream \o bytes, t \o add, "normal",
                         down \cap {"LShift"}, r)
              /\ ("PrtSc" \notin Keys /\ rep \in held \cup {None, "Pause"})
                   => r \in down \cup {None, "Pause"}

\* The user's keys: more bytes, and perhaps a character.
LEMMA TypingCaught ==
  ASSUME IInv, Caught, NEW key, NEW down, NEW bytes, NEW cs, Typing(key, down, bytes, cs),
         NEW add,
         Extends(bytes, add, down), bytes \in Seq(Bytes), add \in Seq(Chars),
         "KpMul" \notin Keys => cs = add
  PROVE  Caught'
<1>1. PICK t, rep :
        /\ Reaches(Plain(kbd), Len(made), Stream, t, "normal", held \cap {"LShift"}, rep)
        /\ made \in Seq(Chars) /\ Len(made) <= Len(t)
        /\ \A j \in 1..Len(made) : made[j] = t[j]
        /\ "PrtSc" \notin Keys => rep \in held \cup {None, "Pause"}
        /\ "KpMul" \notin Keys => t = typed
  BY DEF Caught
<1>2. /\ held' = down /\ wire' = wire \o bytes /\ typed' = typed \o cs
      /\ UNCHANGED <<setup, kbd, reader, port, made>>
  BY DEF Typing, driver
<1>3. Stream' = Stream \o bytes
  <2> DEFINE a == IF reader.pc = "decode" THEN <<reader.b>> ELSE << >>
             b == IF port.full THEN <<port.data>> ELSE << >>
  <2>1. reader.b \in Bytes /\ port.data \in Bytes /\ wire \in Seq(Bytes)
    BY TypeParts DEF Readers, Scene, IInv
  <2>2. a \in Seq(Bytes) /\ b \in Seq(Bytes)
    BY <2>1
  <2>3. Stream = a \o (b \o wire) /\ Stream' = a \o (b \o (wire \o bytes))
    BY <1>2 DEF Stream
  <2> HIDE DEF a, b
  <2> QED BY <2>1, <2>2, <2>3
<1> DEFINE u == t \o add
<1>4. PICK r : /\ Reaches(Plain(kbd), Len(made), Stream \o bytes, u, "normal",
                          down \cap {"LShift"}, r)
               /\ ("PrtSc" \notin Keys /\ rep \in held \cup {None, "Pause"})
                    => r \in down \cup {None, "Pause"}
  BY <1>1 DEF Extends
<1>5. /\ t \in Seq(Chars) /\ Len(made) <= Len(u)
      /\ \A j \in 1..Len(made) : made[j] = u[j]
  <2>1. t \in Seq(Chars)
    BY <1>1 DEF Reaches
  <2>2. Len(u) = Len(t) + Len(add) /\ \A j \in 1..Len(t) : u[j] = t[j]
    BY <2>1
  <2> HIDE DEF u
  <2> QED BY <1>1, <2>1, <2>2
<1>6. Keys' = Keys
  BY <1>2 DEF Keys
<1>7. /\ Reaches(Plain(kbd'), Len(made'), Stream', u, "normal", held' \cap {"LShift"}, r)
      /\ made' \in Seq(Chars) /\ Len(made') <= Len(u)
      /\ \A j \in 1..Len(made') : made'[j] = u[j]
      /\ "PrtSc" \notin Keys' => r \in held' \cup {None, "Pause"}
      /\ "KpMul" \notin Keys' => u = typed'
  <2>4. "KpMul" \notin Keys' => u = typed'
    BY <1>1, <1>2, <1>6
  <2> HIDE DEF u
  <2>1. Reaches(Plain(kbd'), Len(made'), Stream', u, "normal", held' \cap {"LShift"}, r)
    BY <1>2, <1>3, <1>4
  <2>2. /\ made' \in Seq(Chars) /\ Len(made') <= Len(u)
        /\ \A j \in 1..Len(made') : made'[j] = u[j]
    BY <1>1, <1>2, <1>5
  <2>3. "PrtSc" \notin Keys' => r \in held' \cup {None, "Pause"}
    BY <1>1, <1>2, <1>4, <1>6
  <2> QED BY <2>1, <2>2, <2>3, <2>4
<1> HIDE DEF u
<1> QED BY <1>7 DEF Caught

LEMMA ReachesMods ==
  ASSUME NEW k, NEW n, NEW s, NEW t, NEW st, NEW mods, NEW rep,
         Reaches(k, n, s, t, st, mods, rep)
  PROVE  mods \in SUBSET Modifiers /\ k \in PlainStates
<1>1. PICK f : Leads(s, k, n, f, t) /\ f.mods = mods
  BY DEF Reaches
<1>2. f \in PlainStates /\ k \in PlainStates
  BY <1>1, LeadsTypes DEF Reaches
<1> QED BY <1>1, <1>2 DEF PlainStates

\* Press and Typematic.
LEMMA MakeCaught ==
  ASSUME IInv, Caught, NEW key \in UserKeys, NEW down, key = "Pause" \/ key \in down,
         held \subseteq down, down \subseteq held \cup {key}, key \in Keys,
         Typing(key, down, Make(key), CharOf(key, held))
  PROVE  Caught'
<1> DEFINE mods == held \cap {"LShift"}
           add == Typed(key, mods)
<1>1. Make(key) \in Seq(Bytes) /\ add \in Seq(Chars)
  <2>1. Make(key) \in Seq(Bytes)
    BY MakeType DEF UserKeys
  <2>2. add = << >> \/ \E c \in Chars : add = <<c>>
    BY DEF Typed, Chars
  <2> HIDE DEF add
  <2>3. << >> \in Seq(Chars) /\ \A c \in Chars : <<c>> \in Seq(Chars)
    OBVIOUS
  <2>4. add \in Seq(Chars)
    BY <2>2, <2>3, Zenon
  <2> QED BY <2>1, <2>4
<1>2. "KpMul" \notin Keys => CharOf(key, held) = add
  BY DEF CharOf, Typed, UserKeys
<1>3. mods \cup ({key} \cap {"LShift"}) = down \cap {"LShift"}
  BY DEF UserKeys
<1>4. ASSUME NEW t, NEW rep, Reaches(Plain(kbd), Len(made), Stream, t, "normal", mods, rep)
      PROVE  \E r : /\ Reaches(Plain(kbd), Len(made), Stream \o Make(key), t \o add, "normal",
                               down \cap {"LShift"}, r)
                    /\ ("PrtSc" \notin Keys /\ rep \in held \cup {None, "Pause"})
                         => r \in down \cup {None, "Pause"}
  <2>1. mods \in SUBSET Modifiers
    BY DEF Modifiers
  <2>2. Reaches(Plain(kbd), Len(made), Stream \o Make(key), t \o add, "normal",
                mods \cup ({key} \cap {"LShift"}), Repeats(key))
    BY <1>4, <2>1, MakeLeads
  <2>3. "PrtSc" \notin Keys => Repeats(key) \in down \cup {None, "Pause"}
    BY DEF Repeats
  <2> HIDE DEF mods, add
  <2> QED BY <1>3, <2>2, <2>3
<1> HIDE DEF add
<1>5. Extends(Make(key), add, down)
  BY <1>4 DEF Extends
<1> QED BY <1>1, <1>2, <1>5, TypingCaught

LEMMA BreakCaught ==
  ASSUME IInv, Caught, NEW key \in UserKeys \ {"Pause"}, key \in held,
         Typing(key, held \ {key}, Break(key), << >>)
  PROVE  Caught'
<1> SUFFICES ASSUME NEW down, down = held \ {key}, NEW none, none = << >> PROVE Caught'
  OBVIOUS
<1> DEFINE mods == held \cap {"LShift"}
<1>1. Break(key) \in Seq(Bytes) /\ none \in Seq(Chars)
  BY MakeType DEF UserKeys
<1>3. mods \ {key} = down \cap {"LShift"}
  BY DEF UserKeys
<1>4. ASSUME NEW t, NEW rep, Reaches(Plain(kbd), Len(made), Stream, t, "normal", mods, rep)
      PROVE  \E r : /\ Reaches(Plain(kbd), Len(made), Stream \o Break(key), t \o none, "normal",
                               down \cap {"LShift"}, r)
                    /\ ("PrtSc" \notin Keys /\ rep \in held \cup {None, "Pause"})
                         => r \in down \cup {None, "Pause"}
  <2> DEFINE r == IF key = rep /\ key # "PrtSc" THEN None ELSE rep
  <2>1. mods \in SUBSET Modifiers
    BY DEF Modifiers
  <2>2. Reaches(Plain(kbd), Len(made), Stream \o Break(key), t, "normal", mods \ {key}, r)
    BY <1>4, <2>1, BreakLeads
  <2>3. ("PrtSc" \notin Keys /\ rep \in held \cup {None, "Pause"})
          => r \in down \cup {None, "Pause"}
    <3>1. held \subseteq Keys
      BY TypeParts DEF IInv, Scene
    <3> QED BY <3>1
  <2>4. t \o none = t
    BY <1>4 DEF Reaches
  <2> HIDE DEF mods, r
  <2> QED BY <1>3, <2>2, <2>3, <2>4
<1>5. Typing(key, down, Break(key), none)
  OBVIOUS
<1>6. Extends(Break(key), none, down)
  BY <1>4 DEF Extends
<1>7. "KpMul" \notin Keys => none = none
  OBVIOUS
<1> QED BY <1>1, <1>5, <1>6, <1>7, TypingCaught

\* A context decodes the next byte.
LEMMA DecodeCaught ==
  ASSUME IInv, Caught, Stream # << >>, Stream' = Tail(Stream), NEW ev,
         ev = decode(kbd.st, Stream[1]), kbd' = handle_event(kbd, ev),
         made' = made \o Ascii(handle_event(kbd, ev), ev), UNCHANGED <<setup, held, typed>>
  PROVE  Caught' /\ ~NeedsLights(handle_event(kbd, ev), ev)
<1>1. PICK t, rep :
        /\ Reaches(Plain(kbd), Len(made), Stream, t, "normal", held \cap {"LShift"}, rep)
        /\ made \in Seq(Chars) /\ Len(made) <= Len(t)
        /\ \A j \in 1..Len(made) : made[j] = t[j]
        /\ "PrtSc" \notin Keys => rep \in held \cup {None, "Pause"}
        /\ "KpMul" \notin Keys => t = typed
  BY DEF Caught
<1> DEFINE b == Stream[1]
           k == Plain(kbd)
           m == held \cap {"LShift"}
<1>2. kbd \in KbdStates /\ kbd.locks = {"Num"}
  <2>1. k \in PlainStates
    BY <1>1, ReachesMods
  <2>2. kbd.locks = {"Num"}
    BY <2>1 DEF Plain, PlainStates
  <2> QED BY <2>2, TypeParts DEF IInv
<1> HIDE DEF b, k, m
<1>3. /\ ~Locking(k, b)
      /\ \/ /\ Makes(k, b) = << >>
            /\ Reaches(After(k, b), Len(made), Tail(Stream), t, "normal", m, rep)
         \/ /\ Len(made) + 1 <= Len(t) /\ Makes(k, b) = <<t[Len(made) + 1]>>
            /\ Reaches(After(k, b), Len(made) + 1, Tail(Stream), t, "normal", m, rep)
  BY <1>1, ReachesTail DEF b, k, m
<1>4. /\ Plain(kbd') = After(k, b) /\ made' = made \o Makes(k, b)
      /\ ~NeedsLights(handle_event(kbd, ev), ev)
  BY <1>2, <1>3, PlainEvent DEF k, b
<1>5. Keys' = Keys /\ m' = m
  BY DEF Keys, m
<1>t. t \in Seq(Chars)
  BY <1>1 DEF Reaches
<1>6. CASE /\ Makes(k, b) = << >>
           /\ Reaches(After(k, b), Len(made), Tail(Stream), t, "normal", m, rep)
  <2>1. made' = made
    BY <1>1, <1>4, <1>6
  <2>2. Reaches(Plain(kbd'), Len(made'), Stream', t, "normal", (held \cap {"LShift"})', rep)
    BY <1>4, <1>5, <1>6, <2>1 DEF m
  <2> QED BY <1>1, <1>4, <1>5, <2>1, <2>2 DEF Caught
<1>7. CASE /\ Len(made) + 1 <= Len(t) /\ Makes(k, b) = <<t[Len(made) + 1]>>
           /\ Reaches(After(k, b), Len(made) + 1, Tail(Stream), t, "normal", m, rep)
  <2> DEFINE c == t[Len(made) + 1]
  <2>0. Len(made) \in Nat /\ Len(t) \in Nat
    BY <1>1, <1>t
  <2>1. c \in Chars
    BY <1>7, <1>t, <2>0
  <2> HIDE DEF c
  <2>2. made' = Append(made, c)
    <3>1. made' = made \o <<c>>
      BY <1>4, <1>7 DEF c
    <3> QED BY <1>1, <2>1, <3>1
  <2>3. /\ made' \in Seq(Chars) /\ Len(made') = Len(made) + 1
        /\ made'[Len(made) + 1] = c
        /\ \A j \in 1..Len(made) : made'[j] = made[j]
    BY <1>1, <2>1, <2>2
  <2>4. \A j \in 1..Len(made') : made'[j] = t[j]
    BY <1>1, <2>0, <2>3 DEF c
  <2>5. Reaches(Plain(kbd'), Len(made'), Stream', t, "normal", (held \cap {"LShift"})', rep)
    BY <1>4, <1>5, <1>7, <2>3 DEF m
  <2>6. Len(made') <= Len(t)
    BY <1>7, <2>3
  <2> QED BY <1>1, <1>4, <1>5, <2>3, <2>4, <2>5, <2>6 DEF Caught
<1> QED BY <1>3, <1>6, <1>7

LEMMA UserCaught ==
  ASSUME IInv, OneDecoder, "Pause" \notin held, Caught, Press \/ Typematic \/ Release
  PROVE  Caught'
<1>1. /\ held \subseteq Keys /\ Keys \subseteq UserKeys
  BY TypeParts, SetupType DEF IInv, Scene, OneDecoder, UserKeys
<1>2. CASE Press
  <2>1. PICK k \in Keys \ held :
          Typing(k, IF k = "Pause" THEN held ELSE held \cup {k}, Make(k), CharOf(k, held))
    BY <1>2 DEF Press
  <2> SUFFICES ASSUME NEW down, down = IF k = "Pause" THEN held ELSE held \cup {k}
               PROVE  Caught'
    OBVIOUS
  <2>2. /\ k = "Pause" \/ k \in down
        /\ held \subseteq down /\ down \subseteq held \cup {k} /\ k \in UserKeys /\ k \in Keys
        /\ Typing(k, down, Make(k), CharOf(k, held))
    BY <1>1, <2>1
  <2> QED BY <2>2, MakeCaught
<1>3. CASE Typematic
  <2>1. PICK k \in held \ {"LShift"} : Typing(k, held, Make(k), CharOf(k, held))
    BY <1>3 DEF Typematic
  <2> SUFFICES ASSUME NEW down, down = held PROVE Caught'
    OBVIOUS
  <2>2. /\ k = "Pause" \/ k \in down
        /\ held \subseteq down /\ down \subseteq held \cup {k} /\ k \in UserKeys /\ k \in Keys
        /\ Typing(k, down, Make(k), CharOf(k, held))
    BY <1>1, <2>1
  <2> QED BY <2>2, MakeCaught
<1>4. CASE Release
  <2>1. PICK k \in held : Typing(k, held \ {k}, Break(k), << >>)
    BY <1>4 DEF Release
  <2> QED BY <1>1, <2>1, BreakCaught
<1> QED BY <1>2, <1>3, <1>4

\* The bytes on their way, where the first of them is.
LEMMA StreamParts ==
  ASSUME TypeOK
  PROVE  /\ reader.pc = "decode" =>
              /\ Stream # << >> /\ Stream[1] = reader.b
              /\ Tail(Stream) = (IF port.full THEN <<port.data>> ELSE << >>) \o wire
         /\ (reader.pc # "decode" /\ port.full) =>
              /\ Stream # << >> /\ Stream[1] = port.data /\ Tail(Stream) = wire
         /\ (reader.pc # "decode" /\ ~port.full) => Stream = wire
<1>1. reader.b \in Bytes /\ port.data \in Bytes /\ wire \in Seq(Bytes)
  BY TypeParts DEF Readers, Scene
<1> DEFINE q == (IF port.full THEN <<port.data>> ELSE << >>) \o wire
<1>2. q \in Seq(Bytes)
  BY <1>1
<1>3. ASSUME NEW c \in Bytes, NEW r \in Seq(Bytes)
      PROVE  <<c>> \o r # << >> /\ (<<c>> \o r)[1] = c /\ Tail(<<c>> \o r) = r
             /\ << >> \o r = r
  OBVIOUS
<1>4. CASE reader.pc = "decode"
  <2>1. Stream = <<reader.b>> \o q
    BY <1>4 DEF Stream
  <2> HIDE DEF q
  <2>2. Stream # << >> /\ Stream[1] = reader.b /\ Tail(Stream) = q
    BY <1>1, <1>2, <1>3, <2>1
  <2> QED BY <1>4, <2>2 DEF q
<1>5. CASE reader.pc # "decode" /\ port.full
  <2>1. Stream = << >> \o (<<port.data>> \o wire) /\ <<port.data>> \o wire \in Seq(Bytes)
    BY <1>1, <1>5 DEF Stream
  <2>2. Stream = <<port.data>> \o wire
    BY <2>1, <1>3
  <2> QED BY <1>1, <1>3, <1>5, <2>2
<1>6. CASE reader.pc # "decode" /\ ~port.full
  <2>1. Stream = << >> \o (<< >> \o wire)
    BY <1>6 DEF Stream
  <2> QED BY <1>1, <1>3, <1>6, <2>1
<1> QED BY <1>4, <1>5, <1>6

\* Every step, of either machine.
LEMMA DecodeStepInv ==
  ASSUME IInv, IInv', DecodeInv, [Next]_vars
  PROVE  DecodeInv'
<1> SUFFICES ASSUME OneDecoder' PROVE DecodeInv'
  BY DEF DecodeInv
<1>1. UNCHANGED setup
  BY DEF Next, Press, Typematic, Release, DeviceByte, Typing, vars, user, IrqEnter, Handler,
         IrqByte, IrqReturn, Exchange, LedSend, LedAck, LedParamAck, LedTimeout,
         keyboard_timer_tick, Reader, PopTake, PopReturn, PollStart, PollStatus, PollData,
         PollDecode, PollStore, PollAdvance
<1>2. OneDecoder
  BY <1>1 DEF OneDecoder, Irq, Polling, Keys
<1>3. /\ led["irq"].ph = "idle" /\ led["main"].ph = "idle"
      /\ reader.pc = "data" => port.full
      /\ "Pause" \notin held /\ Caught
  BY <1>2 DEF DecodeInv
<1>4. TypeOK /\ TypeOK' /\ (~Irq => mode = "main") /\ (~Polling => reader.pc \in {"call", "took"})
      /\ Irq \in BOOLEAN /\ Polling \in BOOLEAN
  BY SetupType DEF IInv, TypeOK
<1>5. /\ reader.b \in Bytes /\ port.data \in Bytes /\ wire \in Seq(Bytes)
      /\ port.full \in BOOLEAN /\ reader \in Readers
      /\ port \in [data : Bytes, full : BOOLEAN, irq : BOOLEAN]
  BY <1>4, TypeParts DEF Readers, Scene
<1> DEFINE Fine == /\ led'["irq"].ph = "idle" /\ led'["main"].ph = "idle"
                   /\ reader'.pc = "data" => port'.full
                   /\ "Pause" \notin held'
<1> SUFFICES Fine /\ Caught'
  BY DEF DecodeInv
<1> HIDE DEF Fine
<1>6. CASE UNCHANGED vars
  <2>1. UNCHANGED <<setup, held, typed, made, kbd, reader, port, wire, led>>
    BY <1>6 DEF vars, driver, device, user
  <2> QED BY <1>3, <2>1, StillCaught DEF Stream, Fine
<1>7. CASE Press \/ Typematic \/ Release
  <2>1. UNCHANGED <<led, reader, port>>
    BY <1>7 DEF Press, Typematic, Release, Typing, driver
  <2>2. "Pause" \notin held'
    BY <1>3, <1>7 DEF Press, Typematic, Release, Typing
  <2>3. Fine
    BY <1>3, <2>1, <2>2 DEF Fine
  <2> QED BY <2>3, <1>2, <1>3, <1>7, UserCaught
<1>8. CASE DeviceByte
  <2>1. /\ ~port.full /\ wire # << >> /\ wire' = Tail(wire)
        /\ port' = [data |-> Head(wire), full |-> TRUE, irq |-> TRUE]
        /\ UNCHANGED <<kbd, led, reader, held, typed, made>>
    BY <1>8 DEF DeviceByte, driver, user
  <2>2. Stream' = Stream
    <3>1. <<Head(wire)>> \o Tail(wire) = wire /\ << >> \o wire = wire
      BY <1>5, <2>1
    <3> QED BY <2>1, <3>1 DEF Stream
  <2>3. Fine
    BY <1>3, <2>1 DEF Fine
  <2> QED BY <1>1, <1>3, <2>1, <2>2, <2>3, StillCaught
<1>9. CASE IrqEnter \/ IrqReturn
  <2>1. /\ UNCHANGED <<kbd, led, reader, held, typed, made, wire>>
        /\ port'.full = port.full /\ port'.data = port.data
    BY <1>5, <1>9 DEF IrqEnter, IrqReturn, user, device
  <2>2. Stream' = Stream
    BY <2>1 DEF Stream
  <2> QED BY <1>1, <1>3, <2>1, <2>2, StillCaught DEF Fine
<1>10. CASE IrqByte
  <2> DEFINE ev == decode(kbd.st, port.data)
             k == handle_event(kbd, ev)
  <2>1. /\ mode = "irq" /\ port.full /\ port' = [port EXCEPT !.full = FALSE]
        /\ kbd' = k /\ made' = made \o Ascii(k, ev)
        /\ StartLights("irq", k, ev) /\ UNCHANGED <<reader, wire, held, typed>>
    BY <1>10 DEF IrqByte, user
  <2>2. reader.pc \in {"call", "took"}
    BY <1>2, <1>4, <2>1 DEF OneDecoder
  <2>3. Stream # << >> /\ Stream[1] = port.data /\ Tail(Stream) = wire
    BY <1>4, <2>1, <2>2, StreamParts
  <2>4. Stream' = wire
    <3>1. ~port'.full /\ reader'.pc # "decode" /\ wire' = wire
      BY <1>5, <2>1, <2>2
    <3>2. Stream' = << >> \o (<< >> \o wire)
      BY <3>1 DEF Stream
    <3> QED BY <1>5, <3>2
  <2> HIDE DEF k, ev
  <2>5. Caught' /\ ~NeedsLights(k, ev)
    BY <1>1, <1>3, <2>1, <2>3, <2>4, DecodeCaught DEF k, ev
  <2>6. Fine
    BY <1>3, <2>1, <2>2, <2>5 DEF StartLights, Fine
  <2> QED BY <2>5, <2>6
<1>11. CASE Exchange("irq") \/ Exchange("main")
  BY <1>3, <1>11 DEF Exchange, LedSend, LedAck, LedParamAck, LedTimeout
<1>12. CASE keyboard_timer_tick
  <2>1. /\ UNCHANGED <<led, reader, held, typed, made, wire, port>>
        /\ kbd' = [kbd EXCEPT !.repeat_timer = kbd.repeat_timer + 1] /\ kbd \in KbdStates
    BY <1>4, <1>12, TypeParts DEF keyboard_timer_tick, user, device
  <2>2. Plain(kbd') = Plain(kbd)
    BY <2>1 DEF Plain, KbdStates
  <2>3. Stream' = Stream
    BY <2>1 DEF Stream
  <2> QED BY <1>1, <1>3, <2>1, <2>2, <2>3, StillCaught DEF Fine
<1>13. CASE PopTake \/ PopReturn \/ PollStart \/ PollStatus \/ PollStore \/ PollAdvance
  <2>1. UNCHANGED <<kbd, led, held, typed, made, wire, port>>
    BY <1>13 DEF PopTake, PopReturn, PollStart, PollStatus, PollStore, PollAdvance, user, device
  <2>2. reader.pc # "decode" /\ reader'.pc # "decode" /\ (reader'.pc = "data" => port.full)
    BY <1>5, <1>13 DEF PopTake, PopReturn, PollStart, PollStatus, PollStore, PollAdvance, Readers
  <2>3. Stream' = Stream
    BY <2>1, <2>2 DEF Stream
  <2> QED BY <1>1, <1>3, <2>1, <2>2, <2>3, StillCaught DEF Fine
<1>14. CASE PollData
  <2>1. /\ reader.pc = "data" /\ port' = [port EXCEPT !.full = FALSE]
        /\ reader' = [pc |-> "decode", b |-> port.data, c |-> reader.c]
        /\ UNCHANGED <<kbd, led, held, typed, made, wire>>
    BY <1>14 DEF PollData, user
  <2>2. ~port'.full /\ reader'.pc = "decode" /\ reader'.b = port.data /\ port.full
    BY <1>3, <1>5, <2>1
  <2>3. Stream = << >> \o (<<port.data>> \o wire) /\ Stream' = <<port.data>> \o (<< >> \o wire)
    BY <2>1, <2>2 DEF Stream
  <2>4. Stream' = Stream
    BY <1>5, <2>3
  <2> QED BY <1>1, <1>3, <2>1, <2>2, <2>4, StillCaught DEF Fine
<1>15. CASE PollDecode
  <2> DEFINE ev == decode(kbd.st, reader.b)
             k == handle_event(kbd, ev)
  <2>1. /\ mode = "main" /\ reader.pc = "decode"
        /\ kbd' = k /\ made' = made \o Ascii(k, ev)
        /\ StartLights("main", k, ev) /\ UNCHANGED <<port, wire, held, typed>>
        /\ reader'.pc \in {"status", "store"}
    BY <1>15 DEF PollDecode, user, device
  <2>3. Stream # << >> /\ Stream[1] = reader.b
        /\ Tail(Stream) = (IF port.full THEN <<port.data>> ELSE << >>) \o wire
    BY <1>4, <2>1, StreamParts
  <2>4. Stream' = Tail(Stream)
    <3> DEFINE q == (IF port.full THEN <<port.data>> ELSE << >>) \o wire
    <3>0. reader'.pc # "decode" /\ port' = port /\ wire' = wire
      BY <2>1
    <3>1. Stream' = << >> \o q
      BY <3>0 DEF Stream
    <3>a. q \in Seq(Bytes)
      BY <1>5
    <3> HIDE DEF q
    <3>2. Stream' = q
      BY <3>1, <3>a
    <3> QED BY <2>3, <3>2 DEF q
  <2> HIDE DEF k, ev
  <2>5. Caught' /\ ~NeedsLights(k, ev)
    BY <1>1, <1>3, <2>1, <2>3, <2>4, DecodeCaught DEF k, ev
  <2>6. Fine
    BY <1>3, <2>1, <2>5 DEF StartLights, Fine
  <2> QED BY <2>5, <2>6
<1> QED BY <1>6, <1>7, <1>8, <1>9, <1>10, <1>11, <1>12, <1>13, <1>14, <1>15
        DEF Next, Handler, Reader

\* While one context takes the bytes and no light command takes one, the bytes
\* on their way lead the driver to the text typed and to the keys held.
THEOREM DecodeInvHolds == Spec => []DecodeInv
<1>1. IInv /\ IInv' /\ DecodeInv /\ [Next]_vars => DecodeInv'
  BY DecodeStepInv
<1> QED BY <1>1, InitCaught, InvHolds, PTL DEF Spec

LEMMA CaughtDrained ==
  ASSUME IInv, DecodeInv, OneDecoder, Drained
  PROVE  /\ kbd.st = "normal" /\ kbd.mods = held \cap {"LShift"}
         /\ "KpMul" \notin Keys => made = typed
         /\ "PrtSc" \notin Keys => kbd.repeat_key \in held \cup {None, "Pause"}
<1>1. Caught
  BY DEF DecodeInv
<1>2. Stream = << >>
  BY StreamParts DEF IInv, Drained
<1>3. PICK t, rep :
        /\ Reaches(Plain(kbd), Len(made), << >>, t, "normal", held \cap {"LShift"}, rep)
        /\ made \in Seq(Chars) /\ Len(made) <= Len(t)
        /\ \A j \in 1..Len(made) : made[j] = t[j]
        /\ "PrtSc" \notin Keys => rep \in held \cup {None, "Pause"}
        /\ "KpMul" \notin Keys => t = typed
  BY <1>1, <1>2 DEF Caught
<1>4. /\ Len(made) = Len(t) /\ Plain(kbd).st = "normal"
      /\ Plain(kbd).mods = held \cap {"LShift"} /\ Plain(kbd).repeat_key = rep
  BY <1>3, ReachesEnd
<1>5. kbd.st = "normal" /\ kbd.mods = held \cap {"LShift"} /\ kbd.repeat_key = rep
  BY <1>4 DEF Plain
<1>6. made = t
  <2>1. t \in Seq(Chars)
    BY <1>3 DEF Reaches
  <2> QED BY <1>3, <1>4, <2>1
<1> QED BY <1>3, <1>5, <1>6

\* keyboard_process_scancode makes of the bytes what was typed, in order and in
\* the right case, whatever is typed and however the bytes, the interrupts, the
\* timer and the reader interleave: as long as only the interrupt handler or
\* only the polling reader takes bytes, and no Caps Lock (its light command may
\* take a scan code for its answer) and no keypad star (it has no character in
\* keycode_to_ascii) is pressed.
THEOREM TypedIsDecoded == Spec => []((OneDecoder /\ "KpMul" \notin Keys) => DecodesTyped)
<1>1. IInv /\ DecodeInv => ((OneDecoder /\ "KpMul" \notin Keys) => DecodesTyped)
  <2> SUFFICES ASSUME IInv, DecodeInv, OneDecoder, "KpMul" \notin Keys PROVE DecodesTyped
    OBVIOUS
  <2>1. PICK t, rep :
          /\ Reaches(Plain(kbd), Len(made), Stream, t, "normal", held \cap {"LShift"}, rep)
          /\ made \in Seq(Chars) /\ Len(made) <= Len(t)
          /\ \A j \in 1..Len(made) : made[j] = t[j]
          /\ t = typed
    BY DEF DecodeInv, Caught
  <2>2. t \in Seq(Chars)
    BY <2>1 DEF Reaches
  <2>3. SubSeq(made, 1, Len(made)) = SubSeq(typed, 1, Len(made))
    BY <2>1, <2>2
  <2>4. IsPrefix(made, typed)
    BY <2>1, <2>3 DEF IsPrefix
  <2>5. Drained => made = typed
    BY CaughtDrained
  <2> QED BY <2>4, <2>5 DEF DecodesTyped
<1> QED BY <1>1, InvHolds, DecodeInvHolds, PTL

\* With all bytes in, kbd_state's Shift is the key's and scancode_st is at rest:
\* no sequence of presses, repeats and releases, PrintScreen and Pause included,
\* leaves the decoder in the middle of one.
THEOREM KeyboardFollowed == Spec => [](OneDecoder => FollowsKeyboard)
<1>1. IInv /\ DecodeInv => (OneDecoder => FollowsKeyboard)
  BY CaughtDrained DEF FollowsKeyboard
<1> QED BY <1>1, InvHolds, DecodeInvHolds, PTL

\* With all bytes in, keyboard_timer_tick repeats only a key that is held, on a
\* keyboard without PrintScreen (its last make byte is taken for the keypad
\* star's, whose release never comes).
THEOREM RepeatEnds == Spec => []((OneDecoder /\ "PrtSc" \notin Keys) => RepeatStops)
<1>1. IInv /\ DecodeInv => ((OneDecoder /\ "PrtSc" \notin Keys) => RepeatStops)
  BY CaughtDrained DEF RepeatStops
<1> QED BY <1>1, InvHolds, DecodeInvHolds, PTL
=============================================================================
