------------------------------ MODULE Bundle ------------------------------
(***************************************************************************)
(* How the builder turns the installed plugins into the live bundle        *)
(* (build.rs): the generated import table, the esbuild process and its     *)
(* deadline, the check of what it bundled, the staging directory and the   *)
(* two renames.  Everything between them is on disk under fixed names, so  *)
(* it outlives a process that is killed, an esbuild process that nobody    *)
(* waits for goes on writing there, and two processes (the daemon, and     *)
(* --build-plugins beside it) share it.                                    *)
(*                                                                         *)
(* Within a process builds come one after the other: the service calls     *)
(* the builder with its mutex held.  A process that is killed does not     *)
(* come back; another one stands for the restart.  What a file holds is    *)
(* abstracted to the build whose esbuild wrote it, the plugins in its      *)
(* table, and the imports it was made from.  An input is known by whose it *)
(* is (a plugin's, the API's, the rest of the host's, the generated table, *)
(* any other file) and what the scan makes of it: scanned, a test, or      *)
(* exempt by its name.  A file that esbuild was killed over is not whole;  *)
(* that a second process may read one while it is being written is left    *)
(* out.  MaxBuilds bounds the builds.                                      *)
(***************************************************************************)
EXTENDS Integers, FiniteSets

CONSTANTS
    Processes,
    Ids,         \* plugin ids
    Wanted,      \* the sets of plugins a build may be asked for
    Sources,     \* what the sources may import: each a set of pairs of inputs
    MaxBuilds,
    Faults,      \* the steps that may fail, see Fails
    None

\* What esbuild writes.
Outputs == {"bundle", "map", "meta"}

Places == {"host", "api", "table", "other"}
Inputs == [of : Places \cup Ids, kind : {"scanned", "test", "exempt"}]
File(owner) == [of |-> owner, kind |-> "scanned"]

\* A file.  lone is a history field: the build
\* that moved the file to its place had no other beside it.
Files == [run : Nat, plugins : SUBSET Ids, imports : SUBSET (Inputs \X Inputs),
          whole : BOOLEAN, lone : BOOLEAN]

Steps == {"verify", "table", "spawn", "wait", "check", "info", "map", "bundle", "clean"}

\* A process of esbuild that has started, has read its inputs, or is done.
NoChild == [at |-> "none", run |-> 0, file |-> None, left |-> {}]

ASSUME ConstantsOK ==
    /\ MaxBuilds \in Nat
    /\ None \notin Files
    /\ Ids \cap Places = {}
    /\ Wanted \subseteq SUBSET Ids
    /\ Sources \subseteq SUBSET (Inputs \X Inputs)

VARIABLES
    pc,        \* where each process is in a build
    run,       \* the number of its build
    want,      \* the plugins of its build
    child,     \* its esbuild process
    builds,    \* builds begun so far
    table,     \* static-plugins.ts: the plugins in it
    staged,    \* the files in the staging directory
    live,      \* the live bundle and its map
    alone,     \* history: nothing else was at work since its build began
    was,       \* history: the live bundle when its build began
    report     \* history: whether its last build reported success

procVars == <<run, want, builds, alone, was>>
vars == <<pc, child, procVars, table, staged, live, report>>

Goto(p, from, to) == pc[p] = from /\ pc' = [pc EXCEPT ![p] = to]
Fails(step) == step \in Faults

Building(p) == pc[p] \in Steps
AtWork(p) == Building(p) \/ child[p] # NoChild

Init ==
    /\ pc = [p \in Processes |-> "idle"]
    /\ run = [p \in Processes |-> 0]
    /\ want = [p \in Processes |-> {}]
    /\ child = [p \in Processes |-> NoChild]
    /\ builds = 0
    /\ table = {}
    /\ staged = [f \in Outputs |-> None]
    /\ live = [f \in {"bundle", "map"} |-> None]
    /\ alone = [p \in Processes |-> TRUE]
    /\ was = [p \in Processes |-> None]
    /\ report = [p \in Processes |-> "none"]

-----------------------------------------------------------------------------
(* EsbuildBuilder::run up to esbuild *)

Begin(p, plugins) ==
    /\ Goto(p, "idle", "verify")
    /\ child[p] = NoChild
    /\ builds < MaxBuilds
    /\ builds' = builds + 1
    /\ run' = [run EXCEPT ![p] = builds']
    /\ want' = [want EXCEPT ![p] = plugins]
    /\ was' = [was EXCEPT ![p] = live["bundle"]]
    /\ report' = [report EXCEPT ![p] = "none"]
    /\ alone' = [q \in Processes |->
                   IF q = p THEN \A o \in Processes : ~AtWork(o)
                   ELSE alone[q] /\ ~AtWork(q)]
    /\ UNCHANGED <<child, table, staged, live>>

End(p, from, outcome) ==
    /\ Goto(p, from, "idle")
    /\ report' = [report EXCEPT ![p] = outcome]

\* The checksum of esbuild, and the host sources.
Verify(p) ==
    /\ \/ Goto(p, "verify", "table") /\ UNCHANGED report
       \/ End(p, "verify", "failed") /\ Fails("verify")
    /\ UNCHANGED <<child, procVars, table, staged, live>>

WriteTable(p) ==
    /\ \/ /\ Goto(p, "table", "spawn")
          /\ table' = want[p]
          /\ UNCHANGED report
       \/ End(p, "table", "failed") /\ Fails("table") /\ UNCHANGED table
    /\ UNCHANGED <<child, procVars, staged, live>>

\* The staging directory is made, or is there already, with what is in it.
Spawn(p) ==
    /\ \/ /\ Goto(p, "spawn", "wait")
          /\ child' = [child EXCEPT ![p] = [NoChild EXCEPT !.at = "started", !.run = run[p]]]
       \/ Goto(p, "spawn", "clean") /\ Fails("spawn") /\ UNCHANGED child
    /\ UNCHANGED <<procVars, table, staged, live, report>>

-----------------------------------------------------------------------------
(* esbuild *)

\* The host imports the table, the table its plugins, and these what their sources say.
Bundled(plugins, sources) ==
    {<<File("host"), File("table")>>}
    \cup {<<File("table"), File(id)>> : id \in plugins}
    \cup {e \in sources : e[1].of \in plugins \cup {"host", "api"}}

\* It reads the table and what that imports, or fails.
ChildReads(p) ==
    /\ child[p].at = "started"
    /\ \/ \E sources \in Sources :
           child' = [child EXCEPT ![p] =
                        [at |-> "read", run |-> child[p].run, left |-> Outputs,
                         file |-> [run |-> child[p].run, plugins |-> table,
                                   imports |-> Bundled(table, sources),
                                   whole |-> TRUE, lone |-> FALSE]]]
       \/ child' = [child EXCEPT ![p] = [NoChild EXCEPT !.at = "failed"]]
    /\ UNCHANGED <<pc, procVars, table, staged, live, report>>

\* It writes its files in any order.
ChildWrites(p) ==
    /\ child[p].at = "read"
    /\ \E f \in child[p].left :
        /\ staged' = [staged EXCEPT ![f] = child[p].file]
        /\ child' = [child EXCEPT ![p].left = @ \ {f}]
    /\ UNCHANGED <<pc, procVars, table, live, report>>

\* One that nobody waits for is gone with its exit.
ChildExits(p) ==
    /\ \/ child[p].at = "read" /\ child[p].left = {}
       \/ child[p].at = "failed" /\ pc[p] # "wait"
    /\ child' = [child EXCEPT ![p] =
                    IF pc[p] = "wait" THEN [NoChild EXCEPT !.at = "done"] ELSE NoChild]
    /\ UNCHANGED <<pc, procVars, table, staged, live, report>>

-----------------------------------------------------------------------------
(* run_esbuild's wait, the checks, promote *)

Waited(p) ==
    /\ \/ child[p].at = "done" /\ Goto(p, "wait", "check")
       \/ child[p].at = "failed" /\ Goto(p, "wait", "clean")
    /\ child' = [child EXCEPT ![p] = NoChild]
    /\ UNCHANGED <<procVars, table, staged, live, report>>

\* It is killed at its deadline, with a file half written or not.
Timeout(p) ==
    /\ child[p].at \in {"started", "read"}
    /\ Goto(p, "wait", "clean")
    /\ child' = [child EXCEPT ![p] = NoChild]
    /\ \/ UNCHANGED staged
       \/ \E f \in child[p].left :
            staged' = [staged EXCEPT ![f] = [child[p].file EXCEPT !.whole = FALSE]]
    /\ UNCHANGED <<procVars, table, live, report>>

\* try_wait fails; nothing stops the child.
WaitFails(p) ==
    /\ Fails("wait")
    /\ child[p] # NoChild
    /\ Goto(p, "wait", "clean")
    /\ UNCHANGED <<child, procVars, table, staged, live, report>>

\* The plugins are those of the build.  Of their files only tests are refused.
Allowed(i, plugins) ==
    i.of \in {"host", "api", "table"} \/ (i.of \in plugins /\ i.kind # "test")

\* Variant: the API may import the host.
ReachableOverApi(i, target, plugins) ==
    i.of \in plugins => target.of \in {"api", i.of}

Reachable(i, target, plugins) ==
    /\ i.of \in plugins => target.of \in {"api", i.of}
    /\ i.of = "api" => target.of = "api"

check_inputs(imports, plugins) ==
    \A e \in imports :
        /\ Allowed(e[1], plugins) /\ Allowed(e[2], plugins)
        /\ Reachable(e[1], e[2], plugins)

Check(p) ==
    LET meta == staged["meta"]
        ok == meta # None /\ meta.whole /\ check_inputs(meta.imports, want[p])
    IN
    /\ Goto(p, "check", IF ok THEN "info" ELSE "clean")
    /\ UNCHANGED <<child, procVars, table, staged, live, report>>

WriteInfo(p) ==
    /\ \/ Goto(p, "info", "map")
       \/ Goto(p, "info", "clean") /\ Fails("info")
    /\ UNCHANGED <<child, procVars, table, staged, live, report>>

Move(p, f) ==
    /\ staged[f] # None
    /\ live' = [live EXCEPT ![f] = [staged[f] EXCEPT !.lone = alone[p]]]
    /\ staged' = [staged EXCEPT ![f] = None]

\* Variant: the map is left for last.
RenameMapLater(p) ==
    /\ Goto(p, "map", "bundle")
    /\ UNCHANGED <<child, procVars, table, staged, live, report>>

RenameMap(p) ==
    /\ \/ Goto(p, "map", "bundle") /\ Move(p, "map")
       \/ /\ Goto(p, "map", "clean")
          /\ Fails("map") \/ staged["map"] = None
          /\ UNCHANGED <<staged, live>>
    /\ UNCHANGED <<child, procVars, table, report>>

\* Variant: the old bundle is taken away first.
RenameBundleOver(p) ==
    /\ \/ /\ Goto(p, "bundle", "clean") /\ Move(p, "bundle")
          /\ report' = [report EXCEPT ![p] = "ok"]
       \/ /\ Goto(p, "bundle", "clean")
          /\ Fails("bundle") \/ staged["bundle"] = None
          /\ live' = [live EXCEPT !["bundle"] = None]
          /\ UNCHANGED <<staged, report>>
    /\ UNCHANGED <<child, procVars, table>>

RenameBundle(p) ==
    /\ \/ /\ Goto(p, "bundle", "clean") /\ Move(p, "bundle")
          /\ report' = [report EXCEPT ![p] = "ok"]
       \/ /\ Goto(p, "bundle", "clean")
          /\ Fails("bundle") \/ staged["bundle"] = None
          /\ UNCHANGED <<staged, live, report>>
    /\ UNCHANGED <<child, procVars, table>>

\* The staging directory is removed, if it can be; the build is reported.
Clean(p) ==
    /\ End(p, "clean", IF report[p] = "ok" THEN "ok" ELSE "failed")
    /\ \/ staged' = [f \in Outputs |-> None]
       \/ Fails("clean") /\ UNCHANGED staged
    /\ UNCHANGED <<child, procVars, table, live>>

\* The process is killed; its esbuild goes on.
Kill(p) ==
    /\ pc[p] # "dead"
    /\ pc' = [pc EXCEPT ![p] = "dead"]
    /\ run' = [run EXCEPT ![p] = 0]
    /\ want' = [want EXCEPT ![p] = {}]
    /\ alone' = [alone EXCEPT ![p] = FALSE]
    /\ was' = [was EXCEPT ![p] = None]
    /\ report' = [report EXCEPT ![p] = "none"]
    /\ UNCHANGED <<child, builds, table, staged, live>>

Build(p) ==
    \/ Verify(p) \/ WriteTable(p) \/ Spawn(p) \/ Waited(p) \/ Timeout(p) \/ WaitFails(p)
    \/ Check(p) \/ WriteInfo(p) \/ RenameMap(p) \/ RenameBundle(p) \/ Clean(p)

Esbuild(p) == ChildReads(p) \/ ChildWrites(p) \/ ChildExits(p)

Next ==
    \E p \in Processes :
        \/ \E plugins \in Wanted : Begin(p, plugins)
        \/ Build(p) \/ Esbuild(p) \/ Kill(p)

Spec == Init /\ [][Next]_vars

-----------------------------------------------------------------------------
(* Properties *)

(***************************************************************************)
(* Types; a process has an esbuild that it waits for only in that step.    *)
(***************************************************************************)
TypeOK ==
    /\ pc \in [Processes -> {"idle", "dead"} \cup Steps]
    /\ run \in [Processes -> Nat] /\ builds \in Nat
    /\ \A p \in Processes : run[p] <= builds
    /\ want \in [Processes -> SUBSET Ids]
    /\ child \in [Processes ->
                    [at : {"none", "started", "read", "failed", "done"},
                     run : Nat, file : Files \cup {None}, left : SUBSET Outputs]]
    /\ table \subseteq Ids
    /\ staged \in [Outputs -> Files \cup {None}]
    /\ live \in [{"bundle", "map"} -> Files \cup {None}]
    /\ alone \in [Processes -> BOOLEAN]
    /\ was \in [Processes -> Files \cup {None}]
    /\ report \in [Processes -> {"none", "ok", "failed"}]
    /\ \A p \in Processes : pc[p] = "wait" => child[p] # NoChild

\* What is imported from a set, over any number of imports, is within another.
StaysIn(imports, from, within) ==
    \E reached \in SUBSET within :
        /\ from \subseteq reached
        /\ \A e \in imports : e[1] \in reached => e[2] \in reached

OwnOrApi(inputs, id) == {i \in inputs : i.of = "api" \/ (i.of = id /\ i.kind # "test")}

(***************************************************************************)
(* What the page loads is whole and, if no other build was at work beside  *)
(* the one that put it there, holds no file but of the host and of its own *)
(* plugins; and whatever a plugin imports, directly or by way of others,   *)
(* is a file of its own that is no test, or the API's.  It may be one that *)
(* the scan passes over: to keep those out is left to the scan.  So it is  *)
(* whatever a build that was killed, or that failed at any step, left in   *)
(* the staging directory (build.rs:10-19 and check_inputs).                *)
(***************************************************************************)
LiveWasChecked ==
    LET file == live["bundle"]
        inputs == UNION {{e[1], e[2]} : e \in file.imports}
    IN
    file # None /\ file.lone =>
        /\ file.whole
        /\ \A i \in inputs : i.of \in {"host", "api", "table"} \cup file.plugins
        /\ \A id \in file.plugins :
              StaysIn(file.imports, {i \in inputs : i.of = id},
                      OwnOrApi(inputs, id))

(***************************************************************************)
(* A build on its own reports what it did: it says ok only if the live     *)
(* bundle is the one it built, with its plugins, and when it failed the    *)
(* bundle is as it was (build.rs:10-12).                                   *)
(***************************************************************************)
ReportIsTrue ==
    \A p \in Processes :
        pc[p] = "idle" /\ alone[p] /\ run[p] = builds =>
            /\ report[p] = "ok" =>
                /\ live["bundle"].run = run[p]
                /\ live["bundle"].plugins = want[p]
            /\ report[p] = "failed" => live["bundle"] = was[p]

(***************************************************************************)
(* A bundle is never newer than the map it refers to (build.rs:144-145),   *)
(* wherever a build stops.                                                 *)
(***************************************************************************)
MapNotOlder ==
    live["bundle"] # None /\ live["bundle"].lone =>
        live["map"] # None /\ (live["map"].lone => live["map"].run >= live["bundle"].run)

=============================================================================
