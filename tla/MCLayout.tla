------------------------------ MODULE MCLayout ------------------------------
\* Two outputs, each either upright at scale 1 or turned, at scale 2 and to the
\* left of the origin.
EXTENDS Layout

Config(mode, turn, scale, at) == [mode |-> mode, turn |-> turn, scale |-> scale, at |-> at]

MCConfigs == {Config(<<2, 1>>, "normal", 1, <<0, 0>>), Config(<<2, 4>>, "90", 2, <<-2, 0>>)}
MCSizes == {<<2, 1>>}
MCPlaces == {<<2, 0>>}
MCFirstSize == <<3, 2>>
MCMade == <<<<4, 2>>>>
MCSymmetry == Permutations(Outs)
=============================================================================
