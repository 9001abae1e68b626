----------------------------- MODULE MCKeyboard -----------------------------
(***************************************************************************)
(* Instances of Keyboard for TLC.                                          *)
(***************************************************************************)
EXTENDS Keyboard

\* The driver as it is meant to run: letters, Shift and an E0 key arrive by
\* interrupt, and a key held long enough repeats.
ByInterrupt ==
  [keys |-> {"A", "LShift", "Right"}, irq |-> TRUE, polling |-> FALSE,
   events |-> 4, ticks |-> 3]

\* IRQ1 never arrives and keyboard_getchar_blocking polls; Pause, an E1 key,
\* is pressed too, and no key is held long enough to repeat.
ByPolling ==
  [keys |-> {"A", "LShift", "Right", "Pause"}, irq |-> FALSE, polling |-> TRUE,
   events |-> 3, ticks |-> 1]

\* CapsLock, with both readers of the data port at work and a light command
\* for each press.
Lights ==
  [keys |-> {"Caps"}, irq |-> TRUE, polling |-> TRUE, events |-> 3, ticks |-> 1]

MCSetups == {ByInterrupt, ByPolling, Lights}
=============================================================================
