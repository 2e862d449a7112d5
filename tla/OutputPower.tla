----------------------------- MODULE OutputPower -----------------------------
(***************************************************************************)
(* One output's power control (src/src/bridge/wayland/output_power.rs), as *)
(* operators on a record s of it and of the compositor's side:             *)
(*   made    the control has been requested                                *)
(*   ctl     its proxy: FALSE once the compositor sent `failed`            *)
(*   on      the last mode: "unknown", "on" or "off"                       *)
(*   lit     whether the output is really on                               *)
(*   heard   whether the compositor still serves the control               *)
(*   refused it was asked to turn the output on and did not                *)
(*   q       the events on their way, in order                             *)
(***************************************************************************)
EXTENDS Integers, Sequences

NewPower == [made |-> FALSE, ctl |-> FALSE, on |-> "unknown", lit |-> TRUE,
             heard |-> FALSE, refused |-> FALSE, q |-> <<>>]

Mode(lit) == IF lit THEN "on" ELSE "off"

\* The compositor announces the output's mode to its control, if there is one.
Announced(s) == IF s.heard THEN [s EXCEPT !.q = Append(@, Mode(s.lit))] ELSE s

\* ensure_output_power: once both the output and the manager exist; the
\* compositor answers with the current mode.
EnsurePower(s, present, mgr) ==
    IF ~mgr \/ ~present \/ s.made THEN s
    ELSE Announced([s EXCEPT !.made = TRUE, !.ctl = TRUE, !.heard = TRUE])

\* wake_output: set_mode(On) if the output was last said to be off.  The
\* compositor may refuse, and then it stays off; one that is on already says
\* nothing.
WakeOutput(s, refuses) ==
    IF ~s.made \/ ~s.ctl \/ s.on # "off" \/ ~s.heard THEN s
    ELSE IF s.lit THEN s
    ELSE IF refuses THEN [s EXCEPT !.refused = TRUE]
    ELSE Announced([s EXCEPT !.lit = TRUE])

\* Mutant: only an output that was on before is woken.
PowerEventFromOn(s, active, refuses) ==
    LET e == Head(s.q)
        t == [s EXCEPT !.q = Tail(@)]
        u == [t EXCEPT !.on = e]
    IN  IF ~t.made THEN t
        ELSE IF e = "failed" THEN [t EXCEPT !.ctl = FALSE]
        ELSE IF t.on = "on" /\ e = "off" /\ active THEN WakeOutput(u, refuses) ELSE u

\* The oldest event of the control.  An output that went off while the screen is
\* being watched is woken, on the transition only: a compositor that refuses and
\* repeats itself is not asked again.
PowerEvent(s, active, refuses) ==
    LET e == Head(s.q)
        t == [s EXCEPT !.q = Tail(@)]
        u == [t EXCEPT !.on = e]
    IN  IF ~t.made THEN t
        ELSE IF e = "failed" THEN [t EXCEPT !.ctl = FALSE]
        ELSE IF t.on # e /\ e = "off" /\ active THEN WakeOutput(u, refuses) ELSE u

\* drop_output_power.
DropPower(s) == [s EXCEPT !.made = FALSE, !.ctl = FALSE, !.on = "unknown", !.heard = FALSE]

\* The compositor turns the output off or on for its own reasons, repeats the
\* mode, or gives up the control.
Turns(s, lit) == Announced([s EXCEPT !.lit = lit, !.refused = FALSE])
GivesUp(s) == [s EXCEPT !.heard = FALSE, !.q = Append(@, "failed")]

=============================================================================
