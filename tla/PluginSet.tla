----------------------------- MODULE PluginSet ------------------------------
(***************************************************************************)
(* What the plugins service promises, without saying how: a set of         *)
(* installed plugins and the bundle the page loads, in which each          *)
(* operation is a single step.  An install or an update happens, with the  *)
(* bundle, or not at all; an update never goes back.  A removal takes the  *)
(* plugin out of the bundle too, unless the bundle cannot be rebuilt.      *)
(***************************************************************************)
EXTENDS Integers

CONSTANTS
    Ids,        \* plugin ids
    Trees,      \* signed source trees
    None,
    PluginOf, VersionOf, SignedAt,   \* what a tree declares
    Compiles    \* the trees a bundle builds with

VARIABLES
    installed,  \* the tree of each installed plugin
    bundle      \* the trees the live bundle was built from

setVars == <<installed, bundle>>

Nothing == [id \in Ids |-> None]

SetInit == installed = Nothing /\ bundle = Nothing

NotOlder(t, was) == VersionOf[t] >= VersionOf[was] /\ SignedAt[t] >= SignedAt[was]

Install(id, t) ==
    /\ installed[id] = None
    /\ PluginOf[t] = id /\ t \in Compiles
    /\ installed' = [installed EXCEPT ![id] = t]
    /\ bundle' = installed'

Update(id, t) ==
    /\ installed[id] # None
    /\ PluginOf[t] = id /\ t \in Compiles /\ NotOlder(t, installed[id])
    /\ installed' = [installed EXCEPT ![id] = t]
    /\ bundle' = installed'

Uninstall(id) ==
    /\ installed[id] # None
    /\ installed' = [installed EXCEPT ![id] = None]
    /\ bundle' \in {installed', bundle}

Build ==
    /\ bundle' = installed
    /\ UNCHANGED installed

SetNext ==
    \/ \E id \in Ids, t \in Trees : Install(id, t) \/ Update(id, t)
    \/ \E id \in Ids : Uninstall(id)
    \/ Build

SetSpec == SetInit /\ [][SetNext]_setVars

=============================================================================
