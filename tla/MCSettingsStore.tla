--------------------------- MODULE MCSettingsStore ---------------------------
(* Instances of SettingsStore for TLC: the cfg files name the model values. *)
EXTENDS SettingsStore, TLC

CONSTANTS a1, a2, four, eight, reg, demo, url1, nokey, key1

\* A new installation: registration open, no upstream.
Fresh ==
    [runtime |-> four, site |-> [t \in Toggles |-> t = reg], upstream |-> [url |-> url1, key |-> nokey]]

Symm == Permutations(Admins)
==============================================================================
