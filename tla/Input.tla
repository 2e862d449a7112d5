-------------------------------- MODULE Input --------------------------------
(***************************************************************************)
(* The modifier tracking of src/src/bridge/input.rs, for one modifier key, *)
(* as operators on a record i:                                             *)
(*   pressed  the key's bit in `pressed`                                   *)
(*   held     the compositor has the key down on our virtual keyboard      *)
(*   xkb      how often the xkb state has it down, or NoState              *)
(*   x        where the X thread is in fake_input                          *)
(*   w, saw   where the Wayland thread is in set_modifier_keymap, and what *)
(*            it read of `pressed`                                         *)
(*   overlap  a keymap was loaded while the key was going down or up       *)
(* xkb counts presses: a key pressed twice needs two releases.             *)
(***************************************************************************)
EXTENDS Integers

NoState == -1

NewInput == [pressed |-> FALSE, held |-> FALSE, xkb |-> NoState, x |-> "idle",
             w |-> "idle", saw |-> FALSE, overlap |-> FALSE]

\* track_key: whether the press or release changes anything.
TrackKey(i, press) == i.pressed # press

\* fake_input: the key is tracked...
FakeKey(i, press) ==
    [i EXCEPT !.pressed = press, !.x = "key", !.overlap = @ \/ i.w # "idle"]

\* ...sent...
SendKey(i) == [i EXCEPT !.held = i.pressed, !.x = "modifiers"]

\* ...and replayed into the xkb state, if there is one: update_modifiers.
UpdateModifiers(i) ==
    [i EXCEPT !.x = "idle", !.overlap = @ \/ i.w # "idle",
              !.xkb = IF @ = NoState THEN @
                      ELSE IF i.pressed THEN @ + 1 ELSE IF @ = 0 THEN 0 ELSE @ - 1]

\* set_modifier_keymap: the keys held are read...
KeymapLoads(i) == [i EXCEPT !.w = "read"]
ReadPressed(i) == [i EXCEPT !.w = "install", !.saw = i.pressed, !.overlap = @ \/ i.x # "idle"]

\* Mutant: the new state starts with no key down.
InstallBare(i) == [i EXCEPT !.w = "idle", !.xkb = 0]

\* ...and the new state is installed with them down.
InstallState(i) == [i EXCEPT !.w = "idle", !.xkb = IF i.saw THEN 1 ELSE 0]
=============================================================================
