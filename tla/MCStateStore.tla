---------------------------- MODULE MCStateStore ----------------------------
(* A small instance of StateStore for TLC. *)
EXTENDS StateStore, TLC

CONSTANTS
    k0, k1, k2,          \* keys
    small, large, huge   \* values that fit, that fill the file, and that set refuses

\* The bridge's namespace has one key, the plugin's has two.
MCEntries == {<<"bridge.plugins", k0>>, <<"plugin", k1>>, <<"plugin", k2>>}

MCPluginEntries == {<<"plugin", k1>>}

MCBytes == [v \in Values |-> CASE v = small -> 1 [] v = large -> 2 [] v = huge -> 9]

KeySymmetry == Permutations({k1, k2})

=============================================================================
