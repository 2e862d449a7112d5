------------------------------- MODULE MCSeats -------------------------------
\* Two seats of the compositor's own, and managers some of which may be missing
\* at first, or altogether.
EXTENDS Seats

MCMayBeLate == {<<"seat", 1>>, <<"manager", "transient">>, <<"manager", "vkbd">>}
=============================================================================
