------------------------------ MODULE Plugins -------------------------------
(***************************************************************************)
(* The plugins service of vrcnext-bridge-plugins (service.rs) with the     *)
(* signing keys the user trusts (trust.rs): install, update, uninstall,    *)
(* forget_key and build, over the plugin directories, the state store and  *)
(* the bundle.                                                             *)
(*                                                                         *)
(* One mutex serialises the operations, so at most one is in flight; its   *)
(* steps are separate actions, between which a page may write a plugin's   *)
(* settings and the process may be killed.  Faults is the set of kinds of  *)
(* failure that can happen; a prompt may always be denied and a clone may  *)
(* always fail.  The store is the map of StateStore: a set that fails      *)
(* changes nothing, a delete that fails is undone only by a restart.       *)
(***************************************************************************)
EXTENDS Integers, FiniteSets

CONSTANTS
    Ids,        \* plugin ids
    Trees,      \* the signed, valid trees that a clone can bring
    Keys,       \* signing keys
    PluginOf, KeyOf, VersionOf, SignedAt,   \* what a tree declares
    Compiles,   \* the trees a bundle builds with
    None,
    Wreck,      \* a directory that was only partly removed
    Faults      \* the failures that may happen

FaultKinds == {"temp", "rename", "remove", "save", "delete", "build", "crash"}

ASSUME ConstantsOK ==
    /\ PluginOf \in [Trees -> Ids]
    /\ KeyOf \in [Trees -> Keys]
    /\ VersionOf \in [Trees -> Nat]
    /\ SignedAt \in [Trees -> Nat]
    /\ Compiles \subseteq Trees
    /\ None \notin Trees \cup Ids \cup Keys \cup {Wreck}
    /\ Wreck \notin Trees
    /\ Faults \subseteq FaultKinds

MayFail(fault) == fault \in Faults

VARIABLES
    tree,      \* what is in plugins/<id>
    rec,       \* the record of each plugin in the store: the tree it describes
    keys,      \* the trusted keys in the store
    settings,  \* the plugins that have settings in the store
    saved,     \* rec, keys and settings as state.json holds them
    bundle,    \* the trees the live bundle was built from
    pushed,    \* the installed plugins last announced to the pages
    pc,        \* the next step of the operation in flight
    op,        \* that operation
    cand,      \* the candidate clone, in its temporary directory
    retired,   \* the tree an update moved out of the way
    failed,    \* the tree a rolled back update moved out of the way
    grants,    \* the prompts the user confirmed in this operation
    accepted,  \* history: the keys accepted and not forgotten since
    answer     \* what the last operation answered

storeVars == <<rec, keys, settings, saved>>
dirVars == <<tree, cand, retired, failed>>
vars == <<storeVars, dirVars, bundle, pushed, pc, op, grants, accepted, answer>>

Kinds == {"none", "install", "update", "uninstall", "forget_key", "build"}
NoOp == [kind |-> "none", id |-> None, was |-> None, key |-> None]

\* The steps, in the order an operation takes them.
Steps == {"idle", "ask", "fetch", "check", "rotate", "trust", "remember",
          "move", "retire", "swap", "save", "build", "clean",
          "undo_tree", "undo_rec", "undo_settings",
          "undo_out", "undo_in", "undo_save", "undo_clean", "rebuild",
          "remove", "drop_rec", "drop_settings", "forget"}

Prompts == {"install", "update", "uninstall", "forget_key", "trust_key", "rotate_key"}

Nothing == [id \in Ids |-> None]
Saved(r, k, s) == [rec |-> r, keys |-> k, settings |-> s]

Init ==
    /\ tree = Nothing /\ cand = None /\ retired = None /\ failed = None
    /\ rec = Nothing /\ keys = {} /\ settings = {} /\ saved = Saved(rec, keys, settings)
    /\ bundle = Nothing /\ pushed = Nothing
    /\ pc = "idle" /\ op = NoOp /\ grants = {} /\ accepted = {} /\ answer = "none"

-----------------------------------------------------------------------------
(* Helpers *)

At(step) == pc = step
Goto(step) == pc' = step /\ UNCHANGED <<op, answer>>
End(result) == pc' = "idle" /\ answer' = result /\ UNCHANGED op

\* A write of the store, and the part of a failed delete that memory keeps.
Put(r, k, s) == rec' = r /\ keys' = k /\ settings' = s /\ saved' = Saved(r, k, s)
Lose(r, k, s) == rec' = r /\ keys' = k /\ settings' = s /\ UNCHANGED saved

\* StateStore::delete: nothing to delete is no write; a failed one changes memory.
Delete(r, k, s, ok) ==
    IF <<r, k, s>> = <<rec, keys, settings>> THEN ok /\ UNCHANGED storeVars
    ELSE \/ ok /\ Put(r, k, s)
         \/ ~ok /\ MayFail("delete") /\ Lose(r, k, s)

Without(f, id) == [f EXCEPT ![id] = None]

\* What a removal of the directory holding t can leave: nothing, or on an error
\* whatever was not removed.
Removal(t) ==
    IF t = None THEN {None} ELSE {None} \cup IF MayFail("remove") THEN {t, Wreck} ELSE {}

\* entry: a plugin is listed if it has a record and a manifest that can be read.
Listed(r, d) == [id \in Ids |-> IF r[id] # None /\ d[id] \in Trees THEN r[id] ELSE None]
PushInstalled(r, d) == pushed' = Listed(r, d)

-----------------------------------------------------------------------------
(* Taking the mutex.  was is the record the operation starts from. *)

Start(kind, id, key, step) ==
    /\ At("idle")
    /\ pc' = step
    /\ op' = [kind |-> kind, id |-> id, key |-> key,
              was |-> IF id = None THEN None ELSE rec[id]]
    /\ grants' = {}
    /\ cand' = None /\ retired' = None /\ failed' = None
    /\ answer' = "none"
    /\ UNCHANGED <<storeVars, tree, bundle, pushed, accepted>>

StartInstall == Start("install", None, None, "ask")
StartUpdate(id) == rec[id] # None /\ Start("update", id, None, "ask")
StartUninstall(id) == rec[id] # None /\ Start("uninstall", id, None, "ask")
StartForget(k) == k \in keys /\ Start("forget_key", None, k, "ask")
StartBuild == Start("build", None, None, "build")

\* confirm: the native prompt, which the user approves or which refuses.
Grant(prompt, step) ==
    /\ grants' = grants \cup {prompt}
    /\ Goto(step)
    /\ UNCHANGED <<storeVars, dirVars, bundle, pushed, accepted>>

Confirm ==
    /\ At("ask")
    /\ \/ op.kind \in {"install", "update"} /\ Grant(op.kind, "fetch")
       \/ op.kind = "uninstall" /\ Grant(op.kind, "remove")
       \/ op.kind = "forget_key" /\ Grant(op.kind, "forget")

Deny ==
    /\ At("ask")
    /\ End("error")
    /\ UNCHANGED <<storeVars, dirVars, bundle, pushed, grants, accepted>>

-----------------------------------------------------------------------------
(* The candidate *)

\* The clone arrived and its manifest, policy and signature hold.
Fetch ==
    /\ At("fetch")
    /\ \E t \in Trees :
          /\ cand' = t
          /\ pc' = "check"
          /\ op' = IF op.kind = "install"
                   THEN [op EXCEPT !.id = PluginOf[t], !.was = rec[PluginOf[t]]]
                   ELSE op
    /\ UNCHANGED <<storeVars, tree, retired, failed, bundle, pushed, grants, accepted, answer>>

\* No temporary directory, no clone, or a clone that is not valid.
FetchFails ==
    /\ At("fetch")
    /\ cand' \in Removal(Wreck)
    /\ End("error")
    /\ UNCHANGED <<storeVars, tree, retired, failed, bundle, pushed, grants, accepted>>

\* The operation is refused and the candidate removed.
Refuse ==
    /\ cand' \in Removal(cand)
    /\ End("error")
    /\ UNCHANGED <<storeVars, tree, retired, failed, bundle, pushed, grants, accepted>>

Vacant == tree[op.id] = None /\ rec[op.id] = None

CheckInstall ==
    /\ At("check") /\ op.kind = "install"
    /\ \/ ~Vacant /\ Refuse
       \/ /\ Vacant
          /\ Goto("trust")
          /\ UNCHANGED <<storeVars, dirVars, bundle, pushed, grants, accepted>>

\* check_update up to the prompts.  A partly removed directory may or may not
\* still have a manifest to compare versions with.
NotDowngraded ==
    /\ tree[op.id] \in Trees => VersionOf[cand] >= VersionOf[tree[op.id]]
    /\ SignedAt[cand] >= SignedAt[op.was]

\* Variant: a changed key is confirmed only if it is not trusted.
CheckUpdateTrustsAny ==
    /\ At("check") /\ op.kind = "update"
    /\ PluginOf[cand] = op.id
    /\ NotDowngraded
    /\ Goto(IF KeyOf[cand] # KeyOf[op.was] /\ KeyOf[cand] \notin keys THEN "rotate" ELSE "trust")
    /\ UNCHANGED <<storeVars, dirVars, bundle, pushed, grants, accepted>>

CheckUpdate ==
    /\ At("check") /\ op.kind = "update"
    /\ \/ /\ PluginOf[cand] # op.id \/ ~NotDowngraded \/ tree[op.id] = Wreck
          /\ Refuse
       \/ /\ PluginOf[cand] = op.id
          /\ NotDowngraded
          /\ Goto(IF KeyOf[cand] # KeyOf[op.was] THEN "rotate" ELSE "trust")
          /\ UNCHANGED <<storeVars, dirVars, bundle, pushed, grants, accepted>>

\* confirm_key_change: asked whether or not the new key is already trusted.
RotateKey ==
    /\ At("rotate")
    /\ Grant("rotate_key", "trust") \/ Refuse

\* Variant: the key of an installed plugin is taken to be trusted.
TrustKeyAssumed ==
    /\ At("trust")
    /\ Goto("remember")
    /\ accepted' = IF op.kind = "install" THEN accepted \cup {KeyOf[cand]} ELSE accepted
    /\ UNCHANGED <<storeVars, dirVars, bundle, pushed, grants>>

\* ensure_trusted: a key that is not trusted is asked about, once.
TrustKey ==
    /\ At("trust")
    /\ \/ KeyOf[cand] \notin keys /\ Refuse
       \/ /\ KeyOf[cand] \notin keys
          /\ Goto("remember")
          /\ grants' = grants \cup {"trust_key"}
          /\ accepted' = accepted \cup {KeyOf[cand]}
          /\ UNCHANGED <<storeVars, dirVars, bundle, pushed>>
       \/ /\ KeyOf[cand] \in keys
          /\ Goto("remember")
          /\ UNCHANGED <<storeVars, dirVars, bundle, pushed, grants, accepted>>

\* TrustStore::record
RememberKey ==
    /\ At("remember")
    /\ \/ MayFail("save") /\ Refuse
       \/ /\ Put(rec, keys \cup {KeyOf[cand]}, settings)
          /\ Goto(IF op.kind = "install" THEN "move" ELSE "retire")
          /\ UNCHANGED <<dirVars, bundle, pushed, grants, accepted>>

-----------------------------------------------------------------------------
(* Moving it into place *)

MoveIn ==
    /\ At("move")
    /\ \/ MayFail("rename") /\ Refuse
       \/ /\ tree' = [tree EXCEPT ![op.id] = cand]
          /\ cand' = None
          /\ Goto("save")
          /\ UNCHANGED <<storeVars, retired, failed, bundle, pushed, grants, accepted>>

\* The first rename of an update.  It also fails if there is no tree to move.
Retire ==
    /\ At("retire")
    /\ \/ /\ MayFail("temp")   \* no second temporary directory: the candidate stays
          /\ End("error")
          /\ UNCHANGED <<storeVars, dirVars, bundle, pushed, grants, accepted>>
       \/ MayFail("rename") /\ Refuse
       \/ tree[op.id] = None /\ Refuse
       \/ /\ tree[op.id] # None
          /\ retired' = tree[op.id]
          /\ tree' = Without(tree, op.id)
          /\ Goto("swap")
          /\ UNCHANGED <<storeVars, cand, failed, bundle, pushed, grants, accepted>>

\* Variant: if it fails the old tree goes back and both renames are tried again.
SwapRetries ==
    /\ At("swap")
    /\ \/ /\ tree' = [tree EXCEPT ![op.id] = cand]
          /\ cand' = None
          /\ Goto("save")
          /\ UNCHANGED retired
       \/ /\ MayFail("rename")
          /\ tree' = [tree EXCEPT ![op.id] = retired]
          /\ retired' = None
          /\ Goto("retire")
          /\ UNCHANGED cand
    /\ UNCHANGED <<storeVars, failed, bundle, pushed, grants, accepted>>

\* The second.  If it fails the old tree goes back, unless that fails too.
Swap ==
    /\ At("swap")
    /\ \/ /\ tree' = [tree EXCEPT ![op.id] = cand]
          /\ cand' = None
          /\ Goto("save")
          /\ UNCHANGED retired
       \/ /\ MayFail("rename")
          /\ \/ tree' = [tree EXCEPT ![op.id] = retired] /\ retired' = None
             \/ UNCHANGED <<tree, retired>>
          /\ cand' \in Removal(cand)
          /\ End("error")
    /\ UNCHANGED <<storeVars, failed, bundle, pushed, grants, accepted>>

\* The record describes the tree now in place.
SaveRecord ==
    /\ At("save")
    /\ \/ /\ MayFail("save")
          /\ End("error")
          /\ UNCHANGED <<storeVars, pushed>>
       \/ /\ Put([rec EXCEPT ![op.id] = tree[op.id]], keys, settings)
          /\ PushInstalled(rec', tree)
          /\ Goto("build")
    /\ UNCHANGED <<dirVars, bundle, grants, accepted>>

-----------------------------------------------------------------------------
(* Building *)

InBundle == [id \in Ids |-> IF rec[id] # None THEN tree[id] ELSE None]

\* A partly removed tree may or may not build.
MayBuild == \A id \in Ids : rec[id] # None => tree[id] \in Compiles \cup {Wreck}
MayNotBuild ==
    \/ MayFail("build")
    \/ \E id \in Ids : rec[id] # None /\ tree[id] \notin Compiles

\* Variant: the bundle is replaced before the build is judged.
NotBuiltPromoted == MayNotBuild /\ bundle' = InBundle

Built == MayBuild /\ bundle' = InBundle
NotBuilt == MayNotBuild /\ UNCHANGED bundle

BuildOk ==
    /\ At("build")
    /\ Built
    /\ IF op.kind = "update" THEN Goto("clean") ELSE End("ok")
    /\ UNCHANGED <<storeVars, dirVars, pushed, grants, accepted>>

\* Variant: nobody looks at the report.
BuildFailsIgnored ==
    /\ At("build")
    /\ NotBuilt
    /\ End("ok")
    /\ UNCHANGED <<storeVars, dirVars, pushed, grants, accepted>>

\* Only an install or an update looks at the report; it is rolled back.
BuildFails ==
    /\ At("build")
    /\ NotBuilt
    /\ \/ op.kind = "install" /\ Goto("undo_tree") /\ UNCHANGED failed
       \/ op.kind = "update" /\ Goto("undo_out") /\ UNCHANGED failed
       \/ op.kind = "update" /\ MayFail("temp") /\ End("error") /\ UNCHANGED failed
       \/ op.kind \in {"uninstall", "build"} /\ End("ok") /\ UNCHANGED failed
    /\ UNCHANGED <<storeVars, tree, cand, retired, pushed, grants, accepted>>

\* An update that built: the old tree goes.
Clean ==
    /\ At("clean")
    /\ retired' \in Removal(retired)
    /\ End("ok")
    /\ UNCHANGED <<storeVars, tree, cand, failed, bundle, pushed, grants, accepted>>

-----------------------------------------------------------------------------
(* Rolling back an install *)

UndoTree ==
    /\ At("undo_tree")
    /\ \E left \in Removal(tree[op.id]) : tree' = [tree EXCEPT ![op.id] = left]
    /\ Goto("undo_rec")
    /\ UNCHANGED <<storeVars, cand, retired, failed, bundle, pushed, grants, accepted>>

UndoRec ==
    /\ At("undo_rec")
    /\ \E ok \in BOOLEAN : Delete(Without(rec, op.id), keys, settings, ok)
    /\ Goto("undo_settings")
    /\ UNCHANGED <<dirVars, bundle, pushed, grants, accepted>>

UndoSettings ==
    /\ At("undo_settings")
    /\ \E ok \in BOOLEAN : Delete(rec, keys, settings \ {op.id}, ok)
    /\ PushInstalled(rec, tree)
    /\ Goto("rebuild")
    /\ UNCHANGED <<dirVars, bundle, grants, accepted>>

\* The bundle without it; the operation failed either way.
Rebuild ==
    /\ At("rebuild")
    /\ Built \/ NotBuilt
    /\ End("error")
    /\ UNCHANGED <<storeVars, dirVars, pushed, grants, accepted>>

-----------------------------------------------------------------------------
(* Rolling back an update *)

UndoOut ==
    /\ At("undo_out")
    /\ \/ /\ failed' = tree[op.id]
          /\ tree' = Without(tree, op.id)
          /\ Goto("undo_in")
       \/ /\ MayFail("rename")
          /\ Goto("undo_clean")
          /\ UNCHANGED <<tree, failed>>
    /\ UNCHANGED <<storeVars, cand, retired, bundle, pushed, grants, accepted>>

UndoIn ==
    /\ At("undo_in")
    /\ \/ /\ tree' = [tree EXCEPT ![op.id] = retired]
          /\ retired' = None
          /\ Goto("undo_save")
       \/ /\ MayFail("rename")
          /\ Goto("undo_clean")
          /\ UNCHANGED <<tree, retired>>
    /\ UNCHANGED <<storeVars, cand, failed, bundle, pushed, grants, accepted>>

\* Variant: the tree is put back, the record is not.
UndoSaveSkipped ==
    /\ At("undo_save")
    /\ Goto("undo_clean")
    /\ UNCHANGED <<storeVars, dirVars, bundle, pushed, grants, accepted>>

UndoSave ==
    /\ At("undo_save")
    /\ \/ Put([rec EXCEPT ![op.id] = op.was], keys, settings)
       \/ MayFail("save") /\ UNCHANGED storeVars
    /\ Goto("undo_clean")
    /\ UNCHANGED <<dirVars, bundle, pushed, grants, accepted>>

UndoClean ==
    /\ At("undo_clean")
    /\ failed' \in Removal(failed)
    /\ retired' \in Removal(retired)
    /\ PushInstalled(rec, tree)
    /\ Goto("rebuild")
    /\ UNCHANGED <<storeVars, tree, cand, bundle, grants, accepted>>

-----------------------------------------------------------------------------
(* Uninstalling, forgetting a key *)

RemoveTree ==
    /\ At("remove")
    /\ \E left \in Removal(tree[op.id]) :
          /\ tree' = [tree EXCEPT ![op.id] = left]
          /\ IF left = None THEN Goto("drop_rec") ELSE End("error")
    /\ UNCHANGED <<storeVars, cand, retired, failed, bundle, pushed, grants, accepted>>

DropRec ==
    /\ At("drop_rec")
    /\ \E ok \in BOOLEAN :
          /\ Delete(Without(rec, op.id), keys, settings, ok)
          /\ IF ok THEN Goto("drop_settings") ELSE End("error")
    /\ UNCHANGED <<dirVars, bundle, pushed, grants, accepted>>

DropSettings ==
    /\ At("drop_settings")
    /\ \E ok \in BOOLEAN :
          /\ Delete(rec, keys, settings \ {op.id}, ok)
          /\ IF ok THEN Goto("build") /\ PushInstalled(rec, tree)
             ELSE End("error") /\ UNCHANGED pushed
    /\ UNCHANGED <<dirVars, bundle, grants, accepted>>

\* Variant: the key is forgotten in memory only.
ForgetInMemory ==
    /\ At("forget")
    /\ Lose(rec, keys \ {op.key}, settings)
    /\ accepted' = accepted \ {op.key}
    /\ End("ok")
    /\ UNCHANGED <<dirVars, bundle, pushed, grants>>

\* TrustStore::forget
ForgetKey ==
    /\ At("forget")
    /\ \E ok \in BOOLEAN :
          /\ Delete(rec, keys \ {op.key}, settings, ok)
          /\ accepted' = IF ok THEN accepted \ {op.key} ELSE accepted
          /\ End(IF ok THEN "ok" ELSE "error")
    /\ UNCHANGED <<dirVars, bundle, pushed, grants>>

-----------------------------------------------------------------------------
(* Everything else *)

\* The page stores a plugin's settings; this does not take the mutex.
PageSet(id) ==
    /\ Put(rec, keys, settings \cup {id})
    /\ UNCHANGED <<dirVars, bundle, pushed, pc, op, grants, accepted, answer>>

\* The daemon is killed and started again.  A removal may be half done.
Crash ==
    /\ MayFail("crash")
    /\ rec' = saved.rec /\ keys' = saved.keys /\ settings' = saved.settings
    /\ UNCHANGED saved
    /\ \/ UNCHANGED tree
       \/ /\ pc \in {"remove", "undo_tree"} /\ tree[op.id] # None
          /\ tree' = [tree EXCEPT ![op.id] = Wreck]
    /\ cand' = None /\ retired' = None /\ failed' = None
    /\ pushed' = Listed(rec', tree')   \* a page that connects asks for the list
    /\ pc' = "idle" /\ op' = NoOp /\ grants' = {} /\ answer' = "none"
    /\ UNCHANGED <<bundle, accepted>>

Begin ==
    \/ StartInstall
    \/ \E id \in Ids : StartUpdate(id) \/ StartUninstall(id)
    \/ \E k \in Keys : StartForget(k)
    \/ StartBuild

Step ==
    \/ Confirm \/ Deny
    \/ Fetch \/ FetchFails \/ CheckInstall \/ CheckUpdate
    \/ RotateKey \/ TrustKey \/ RememberKey
    \/ MoveIn \/ Retire \/ Swap \/ SaveRecord
    \/ BuildOk \/ BuildFails \/ Clean
    \/ UndoTree \/ UndoRec \/ UndoSettings \/ Rebuild
    \/ UndoOut \/ UndoIn \/ UndoSave \/ UndoClean
    \/ RemoveTree \/ DropRec \/ DropSettings
    \/ ForgetKey

Next ==
    \/ Begin
    \/ Step
    \/ \E id \in Ids : PageSet(id)
    \/ Crash

Spec == Init /\ [][Next]_vars

\* confirm is under way.
Prompting == At("ask") \/ At("rotate") \/ (At("trust") /\ KeyOf[cand] \notin keys)

\* Every step of an operation is taken in the end but the answer to a prompt: a clone and a
\* build have a deadline, and the rest is file system calls; the calls on the bus around a
\* prompt have none (sinks/approve.rs:102).
FairSpec == Spec /\ WF_vars(~Prompting /\ Step)

-----------------------------------------------------------------------------
(* Properties that hold whatever fails *)

(***************************************************************************)
(* Types.  A candidate that is being checked or moved is a whole tree.     *)
(***************************************************************************)
Installable == Trees \cup {None}
OnDisk == Trees \cup {None, Wreck}

TypeOK ==
    /\ tree \in [Ids -> OnDisk] /\ cand \in OnDisk /\ retired \in OnDisk /\ failed \in OnDisk
    /\ rec \in [Ids -> Installable] /\ keys \subseteq Keys /\ settings \subseteq Ids
    /\ saved \in [rec : [Ids -> Installable], keys : SUBSET Keys, settings : SUBSET Ids]
    /\ bundle \in [Ids -> OnDisk] /\ pushed \in [Ids -> Installable]
    /\ pc \in Steps
    /\ op \in [kind : Kinds, id : Ids \cup {None}, was : Installable, key : Keys \cup {None}]
    /\ grants \subseteq Prompts /\ accepted \subseteq Keys
    /\ answer \in {"none", "ok", "error"}
    /\ pc \in {"check", "rotate", "trust", "remember", "move", "retire", "swap"} => cand \in Trees

(***************************************************************************)
(* A key is trusted, now or by the daemon that starts next, only if the    *)
(* user accepted it and no forget_key of it has succeeded since (trust.rs, *)
(* forget: "The next tree it signs is treated as a new author again").     *)
(***************************************************************************)
ForgottenStaysForgotten == keys \cup saved.keys \subseteq accepted

(***************************************************************************)
(* A tree comes under plugins/<id> only from a candidate that declares     *)
(* that id and is signed by a key the user has accepted and not forgotten  *)
(* (service.rs, the pipeline).                                             *)
(***************************************************************************)
MovedIn(id) == cand \in Trees /\ tree'[id] = cand /\ tree[id] # cand

OnlyTrustedMovesIn ==
    [][\A id \in Ids : MovedIn(id) => PluginOf[cand] = id /\ KeyOf[cand] \in accepted]_vars

(***************************************************************************)
(* The key a plugin is recorded under changes only in an operation in      *)
(* which the user confirmed exactly that, whatever was trusted before and  *)
(* across failed writes and restarts (service.rs, confirm_key_change).     *)
(***************************************************************************)
KeyChanges(id) == rec[id] # None /\ rec'[id] # None /\ KeyOf[rec'[id]] # KeyOf[rec[id]]

KeyContinuity == [][\A id \in Ids : KeyChanges(id) => "rotate_key" \in grants]_vars

(***************************************************************************)
(* An install or update that answers with success is in place, recorded    *)
(* and in the bundle (service.rs: "only finished once the bundle builds    *)
(* with it").                                                              *)
(***************************************************************************)
SuccessMeansBuilt ==
    pc = "idle" /\ answer = "ok" /\ op.kind \in {"install", "update"} =>
        /\ tree[op.id] \in Trees
        /\ rec[op.id] = tree[op.id]
        /\ bundle[op.id] = tree[op.id]

(***************************************************************************)
(* The mutex is always released: every operation ends, with an answer or   *)
(* in a crash, as long as every prompt is answered (which is what Approval *)
(* is about).                                                              *)
(***************************************************************************)
OperationEnds == []<>~Prompting => (pc # "idle" ~> pc = "idle")

-----------------------------------------------------------------------------
(* Properties that hold while the file system does not fail *)

(***************************************************************************)
(* Between operations, however they ended, the record of each plugin       *)
(* describes the tree in its directory, there is no directory without a    *)
(* record (lib.rs: "the record matches the disk"), no scratch directory is *)
(* left, and the list last announced to the pages is the list a page would *)
(* get by asking (service.rs, push_installed).                             *)
(***************************************************************************)
AllAgree ==
    pc = "idle" =>
        /\ rec = tree
        /\ cand = None /\ retired = None /\ failed = None
        /\ pushed = Listed(rec, tree)

(***************************************************************************)
(* The service implements the plugin set: a plugin counts as installed in  *)
(* the version the operation found until the operation's build has run.    *)
(* So every installed plugin is one the bundle builds with ("a plugin that *)
(* cannot compile never wedges every later build"), and none goes back to  *)
(* a lower version or an older signature.                                  *)
(***************************************************************************)
Committed == pc \in {"idle", "clean"}
installedTrees == [id \in Ids |-> IF ~Committed /\ id = op.id THEN op.was ELSE tree[id]]

Plugs == INSTANCE PluginSet WITH installed <- installedTrees

ImplementsPluginSet == Plugs!SetSpec

=============================================================================
