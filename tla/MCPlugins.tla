----------------------------- MODULE MCPlugins ------------------------------
(* A small instance of Plugins for TLC. *)
EXTENDS Plugins

CONSTANTS
    a,  b,              \* plugins
    k1, k2,             \* keys
    a1, a2, a3, a4, b1  \* trees

MCPluginOf == [t \in Trees |-> IF t = b1 THEN b ELSE a]

\* a1, a2 and a4 by one author, a3 after its repository changed hands.
MCKeyOf == [t \in Trees |-> IF t = a3 THEN k2 ELSE k1]

\* a4 has a later version than a2, signed before it.
MCVersionOf == [t \in Trees |-> CASE t = a2 -> 2 [] t \in {a3, a4} -> 3 [] OTHER -> 1]
MCSignedAt == [t \in Trees |-> CASE t = a2 -> 3 [] t = a3 -> 4 [] t = a4 -> 2 [] OTHER -> 1]

=============================================================================
