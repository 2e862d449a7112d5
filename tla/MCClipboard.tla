----------------------------- MODULE MCClipboard -----------------------------
EXTENDS Clipboard, TLC

MCSymmetry == Permutations(Clients) \cup Permutations(AppItems)
=============================================================================
