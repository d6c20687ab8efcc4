---------------------------- MODULE BundleProofs ----------------------------
(***************************************************************************)
(* Proofs about Bundle, for any processes, plugins, sources, builds and    *)
(* faults.  A build that is alone finds in the staging directory what its  *)
(* own esbuild wrote, from its check to its renames: Staging says so at    *)
(* each of its steps.  That it may rely on it is Undisturbed: as long as   *)
(* no other build has begun, no other process is at work.                  *)
(***************************************************************************)
EXTENDS Bundle, TLAPS

\* The last build to begin has nothing beside it, if it is alone.
Undisturbed ==
    /\ \A p \in Processes :
          alone[p] /\ run[p] = builds => \A q \in Processes : q # p => ~AtWork(q)
    /\ \A p \in Processes : alone[p] /\ AtWork(p) => run[p] = builds

\* No file is of a build that has not begun.
Begun ==
    /\ \A p \in Processes :
          /\ child[p].run <= builds
          /\ child[p].file # None => child[p].file.run <= builds
    /\ \A f \in Outputs : staged[f] # None => staged[f].run <= builds
    /\ \A f \in {"bundle", "map"} : live[f] # None => live[f].run <= builds

ChildHolds ==
    \A p \in Processes :
        /\ child[p].at = "read" => child[p].file # None
        /\ child[p].at # "read" => child[p].left = {}

\* A file that is of the build at hand.
Mine(p, file) ==
    file # None /\ file.run = run[p] /\ file.plugins = want[p] /\ file.whole

Writing(p) ==
    /\ child[p].at \in {"started", "read"} => child[p].run = run[p]
    /\ child[p].at = "read" =>
          /\ Mine(p, child[p].file)
          /\ \A f \in Outputs \ child[p].left : staged[f] = child[p].file
    /\ child[p].at = "done" =>
          Mine(p, staged["bundle"]) /\ \A f \in Outputs : staged[f] = staged["bundle"]

\* What a build that is alone finds at its steps.
Staging(p) ==
    /\ pc[p] \in Steps \ {"wait", "clean"} => child[p] = NoChild
    /\ pc[p] \in {"spawn", "wait"} => table = want[p]
    /\ pc[p] = "wait" => Writing(p)
    /\ pc[p] \in {"check", "info", "map"} =>
          Mine(p, staged["bundle"]) /\ \A f \in Outputs : staged[f] = staged["bundle"]
    /\ pc[p] \in {"info", "map", "bundle"} =>
          Mine(p, staged["bundle"]) /\ check_inputs(staged["bundle"].imports, want[p])
    /\ pc[p] = "bundle" => live["map"] # None /\ live["map"].lone /\ live["map"].run = run[p]

\* What it has to report.
Reporting(p) ==
    /\ Building(p) /\ report[p] # "ok" => live["bundle"] = was[p]
    /\ Building(p) => report[p] # "failed"
    /\ Building(p) /\ report[p] = "ok" =>
          /\ pc[p] = "clean"
          /\ live["bundle"].run = run[p] /\ live["bundle"].plugins = want[p]

ReportOf(p) ==
    pc[p] = "idle" /\ run[p] = builds =>
        /\ report[p] = "ok" =>
            live["bundle"].run = run[p] /\ live["bundle"].plugins = want[p]
        /\ report[p] = "failed" => live["bundle"] = was[p]

LiveChecked ==
    LET file == live["bundle"]
    IN  file # None /\ file.lone => file.whole /\ check_inputs(file.imports, file.plugins)

IInv ==
    /\ TypeOK /\ Undisturbed /\ Begun /\ ChildHolds
    /\ \A p \in Processes : alone[p] => Staging(p) /\ Reporting(p) /\ ReportOf(p)
    /\ LiveChecked /\ MapNotOlder

-----------------------------------------------------------------------------

LEMMA InitIInv == Init => IInv
<1> SUFFICES ASSUME Init PROVE IInv
  OBVIOUS
<1> USE ConstantsOK DEF Init, NoChild
<1>1. TypeOK
  BY DEF TypeOK, Steps
<1>2. Undisturbed
  BY DEF Undisturbed, AtWork, Building, Steps
<1>3. Begun /\ ChildHolds
  BY DEF Begun, ChildHolds, Outputs
<1>4. \A p \in Processes : Staging(p) /\ Reporting(p) /\ ReportOf(p)
  BY DEF Staging, Reporting, ReportOf, Building, Steps
<1> QED BY <1>1, <1>2, <1>3, <1>4 DEF IInv, LiveChecked, MapNotOlder

(* A step of a process at work that leaves the others alone: none of them is *)
(* an undisturbed build, so that only p's own facts have to be shown.        *)
LEMMA AtWorkIInv ==
    ASSUME IInv, NEW p \in Processes, AtWork(p), UNCHANGED procVars,
           \A q \in Processes : q # p => pc'[q] = pc[q] /\ child'[q] = child[q],
           TypeOK', Begun', ChildHolds', LiveChecked', MapNotOlder',
           alone[p] => Staging(p)' /\ Reporting(p)' /\ ReportOf(p)'
    PROVE  IInv'
<1> USE DEF procVars
<1>1. \A q \in Processes : q # p /\ alone[q] => run[q] # builds /\ ~AtWork(q)
  BY DEF IInv, Undisturbed
<1>2. \A q \in Processes : q # p => (AtWork(q)' <=> AtWork(q))
  BY DEF AtWork, Building
<1>3. alone[p] => run[p] = builds /\ \A q \in Processes : q # p => ~AtWork(q)
  BY DEF IInv, Undisturbed
<1>4. Undisturbed'
  BY <1>1, <1>2, <1>3 DEF Undisturbed
<1>5. \A q \in Processes : q # p /\ alone'[q] => ~Building(q)' /\ run'[q] # builds'
  BY <1>1, <1>2 DEF AtWork
<1>6. ASSUME NEW q \in Processes, q # p, alone'[q]
      PROVE  Staging(q)' /\ Reporting(q)' /\ ReportOf(q)'
  BY <1>5, <1>6 DEF Staging, Reporting, ReportOf, Building, Steps
<1> QED BY <1>4, <1>6 DEF IInv

-----------------------------------------------------------------------------

Children ==
    [at : {"none", "started", "read", "failed", "done"},
     run : Nat, file : Files \cup {None}, left : SUBSET Outputs]

\* What a step may make of p's esbuild.
ChildOK(p, c) ==
    /\ c \in Children
    /\ c.run <= builds
    /\ c.file # None => c.file.run <= builds
    /\ c.at = "read" => c.file # None
    /\ c.at # "read" => c.left = {}

LEMMA NewChild ==
    ASSUME IInv, NEW p \in Processes, NEW c, ChildOK(p, c),
           child' = [child EXCEPT ![p] = c],
           UNCHANGED <<procVars, table, staged, live, report>>,
           pc' \in [Processes -> {"idle", "dead"} \cup Steps],
           \A q \in Processes : q # p => pc'[q] = pc[q],
           pc'[p] = "wait" => c # NoChild
    PROVE  /\ TypeOK' /\ Begun' /\ ChildHolds' /\ LiveChecked' /\ MapNotOlder'
           /\ child'[p] = c
<1>1. child' \in [Processes -> Children] /\ child'[p] = c
      /\ \A q \in Processes : q # p => child'[q] = child[q]
  BY DEF IInv, TypeOK, Children, ChildOK
<1>2. TypeOK'
  BY <1>1 DEF IInv, TypeOK, Children, ChildOK, procVars
<1>3. Begun' /\ ChildHolds'
  BY <1>1 DEF IInv, Begun, ChildHolds, ChildOK, procVars
<1>4. LiveChecked' /\ MapNotOlder'
  BY DEF IInv, LiveChecked, MapNotOlder
<1> QED BY <1>1, <1>2, <1>3, <1>4

LEMMA NoChildOK == ASSUME NEW p, IInv PROVE ChildOK(p, NoChild)
<1>1. NoChild \in Children /\ 0 <= builds
  BY DEF NoChild, Children, IInv, TypeOK
<1>2. NoChild.at = "none" /\ NoChild.run = 0 /\ NoChild.file = None /\ NoChild.left = {}
  BY DEF NoChild
<1> QED BY <1>1, <1>2 DEF ChildOK

LEMMA VerifyIInv ==
    ASSUME IInv, NEW p \in Processes, Verify(p)
    PROVE  IInv'
<1> USE ConstantsOK DEF Verify, End, Goto, procVars
<1>1. AtWork(p)
  BY DEF AtWork, Building, Steps, NoChild
<1>2. /\ UNCHANGED procVars
      /\ \A q \in Processes : q # p => pc'[q] = pc[q] /\ child'[q] = child[q]
  BY DEF IInv, TypeOK
<1>3. TypeOK'
  BY DEF IInv, TypeOK, Steps
<1>4. Begun' /\ ChildHolds' /\ LiveChecked' /\ MapNotOlder'
  BY DEF IInv, Begun, ChildHolds, LiveChecked, MapNotOlder
<1>5. alone[p] => Staging(p)' /\ Reporting(p)' /\ ReportOf(p)'
  BY DEF IInv, TypeOK, Staging, Reporting, ReportOf, Building, Steps
<1> QED BY <1>1, <1>2, <1>3, <1>4, <1>5, AtWorkIInv

LEMMA WriteTableIInv ==
    ASSUME IInv, NEW p \in Processes, WriteTable(p)
    PROVE  IInv'
<1> USE ConstantsOK DEF WriteTable, End, Goto, procVars
<1>1. AtWork(p)
  BY DEF AtWork, Building, Steps, NoChild
<1>2. /\ UNCHANGED procVars
      /\ \A q \in Processes : q # p => pc'[q] = pc[q] /\ child'[q] = child[q]
  BY DEF IInv, TypeOK
<1>3. TypeOK'
  BY DEF IInv, TypeOK, Steps
<1>4. Begun' /\ ChildHolds' /\ LiveChecked' /\ MapNotOlder'
  BY DEF IInv, Begun, ChildHolds, LiveChecked, MapNotOlder
<1>5. alone[p] => Staging(p)' /\ Reporting(p)' /\ ReportOf(p)'
  BY DEF IInv, TypeOK, Staging, Reporting, ReportOf, Building, Steps
<1> QED BY <1>1, <1>2, <1>3, <1>4, <1>5, AtWorkIInv

LEMMA SpawnIInv ==
    ASSUME IInv, NEW p \in Processes, Spawn(p)
    PROVE  IInv'
<1> USE DEF Spawn, Goto, procVars
<1>1. AtWork(p)
  BY DEF AtWork, Building, Steps, NoChild
<1>2. /\ UNCHANGED procVars
      /\ pc' \in [Processes -> {"idle", "dead"} \cup Steps]
      /\ \A q \in Processes : q # p => pc'[q] = pc[q] /\ child'[q] = child[q]
  BY DEF IInv, TypeOK, Steps
<1>3. CASE Goto(p, "spawn", "clean") /\ UNCHANGED child
  <2>1. TypeOK' /\ Begun' /\ ChildHolds' /\ LiveChecked' /\ MapNotOlder'
    BY <1>3 DEF IInv, TypeOK, Steps, Begun, ChildHolds, LiveChecked, MapNotOlder, NoChild
  <2>2. alone[p] => Staging(p)' /\ Reporting(p)' /\ ReportOf(p)'
    BY <1>3 DEF IInv, TypeOK, Staging, Reporting, ReportOf, Building, Steps, NoChild
  <2> QED BY <1>1, <1>2, <2>1, <2>2, AtWorkIInv
<1>4. CASE /\ Goto(p, "spawn", "wait")
           /\ child' = [child EXCEPT ![p] = [NoChild EXCEPT !.at = "started", !.run = run[p]]]
  <2> DEFINE c == [at |-> "started", run |-> run[p], file |-> None, left |-> {}]
  <2>1. child' = [child EXCEPT ![p] = c] /\ c # NoChild /\ Goto(p, "spawn", "wait")
    BY <1>4 DEF NoChild
  <2>2. ChildOK(p, c)
    BY DEF ChildOK, Children, IInv, TypeOK
  <2>3. /\ TypeOK' /\ Begun' /\ ChildHolds' /\ LiveChecked' /\ MapNotOlder'
        /\ child'[p] = c
    BY <1>2, <2>1, <2>2, NewChild
  <2>4. alone[p] => Staging(p)' /\ Reporting(p)' /\ ReportOf(p)'
    BY <2>1, <2>3
       DEF IInv, TypeOK, Staging, Writing, Reporting, ReportOf, Building, Steps
  <2> QED BY <1>1, <1>2, <2>3, <2>4, AtWorkIInv
<1> QED BY <1>3, <1>4

LEMMA BundledType ==
    ASSUME IInv, NEW sources \in Sources, NEW n \in Nat
    PROVE  [run |-> n, plugins |-> table, imports |-> Bundled(table, sources),
            whole |-> TRUE, lone |-> FALSE] \in Files
<1>1. table \subseteq Ids /\ sources \subseteq Inputs \X Inputs
  BY ConstantsOK DEF IInv, TypeOK
<1>2. \A owner \in Places \cup Ids : File(owner) \in Inputs
  BY DEF File, Inputs
<1>3. "host" \in Places /\ "table" \in Places
  BY DEF Places
<1>4. Bundled(table, sources) \subseteq Inputs \X Inputs
  BY <1>1, <1>2, <1>3 DEF Bundled
<1> QED BY <1>1, <1>4 DEF Files

LEMMA ChildReadsIInv ==
    ASSUME IInv, NEW p \in Processes, ChildReads(p)
    PROVE  IInv'
<1> USE DEF ChildReads, procVars
<1>1. AtWork(p)
  BY DEF AtWork, Building, Steps, NoChild
<1>2. /\ UNCHANGED procVars
      /\ pc' \in [Processes -> {"idle", "dead"} \cup Steps]
      /\ \A q \in Processes : q # p => pc'[q] = pc[q] /\ child'[q] = child[q]
  BY DEF IInv, TypeOK, Steps
<1>3. PICK c \in Children :
        /\ child' = [child EXCEPT ![p] = c]
        /\ ChildOK(p, c) /\ c # NoChild
        /\ \/ c.at = "failed"
           \/ /\ c.at = "read" /\ c.left = Outputs /\ c.run = child[p].run
              /\ c.file # None /\ c.file.run = child[p].run
              /\ c.file.plugins = table /\ c.file.whole
  <2>1. child[p].run \in Nat /\ child[p].run <= builds /\ builds \in Nat
    BY DEF IInv, TypeOK, Begun
  <2>2. ASSUME NEW sources \in Sources,
               child' = [child EXCEPT ![p] =
                  [at |-> "read", run |-> child[p].run, left |-> Outputs,
                   file |-> [run |-> child[p].run, plugins |-> table,
                             imports |-> Bundled(table, sources),
                             whole |-> TRUE, lone |-> FALSE]]]
        PROVE  \E c \in Children :
                  /\ child' = [child EXCEPT ![p] = c]
                  /\ ChildOK(p, c) /\ c # NoChild
                  /\ \/ c.at = "failed"
                     \/ /\ c.at = "read" /\ c.left = Outputs /\ c.run = child[p].run
                        /\ c.file # None /\ c.file.run = child[p].run
                        /\ c.file.plugins = table /\ c.file.whole
    <3> DEFINE file == [run |-> child[p].run, plugins |-> table,
                        imports |-> Bundled(table, sources), whole |-> TRUE, lone |-> FALSE]
               c == [at |-> "read", run |-> child[p].run, left |-> Outputs, file |-> file]
    <3>1. file \in Files /\ file # None
      BY <2>1, BundledType, ConstantsOK
    <3>2. file.run = child[p].run /\ file.plugins = table /\ file.whole
      OBVIOUS
    <3> HIDE DEF file
    <3>3. c \in Children /\ c # NoChild
      BY <2>1, <3>1 DEF Children, NoChild
    <3>4. ChildOK(p, c)
      BY <2>1, <3>1, <3>2, <3>3 DEF ChildOK
    <3> QED BY <2>2, <3>1, <3>2, <3>3, <3>4 DEF file
  <2>3. ASSUME child' = [child EXCEPT ![p] = [NoChild EXCEPT !.at = "failed"]]
        PROVE  \E c \in Children :
                  /\ child' = [child EXCEPT ![p] = c]
                  /\ ChildOK(p, c) /\ c # NoChild
                  /\ \/ c.at = "failed"
                     \/ /\ c.at = "read" /\ c.left = Outputs /\ c.run = child[p].run
                        /\ c.file # None /\ c.file.run = child[p].run
                        /\ c.file.plugins = table /\ c.file.whole
    <3> DEFINE c == [at |-> "failed", run |-> 0, file |-> None, left |-> {}]
    <3>1. [NoChild EXCEPT !.at = "failed"] = c /\ c # NoChild
      BY DEF NoChild
    <3>2. c \in Children /\ ChildOK(p, c)
      BY <2>1 DEF ChildOK, Children
    <3> QED BY <2>3, <3>1, <3>2
  <2> QED BY <2>2, <2>3
<1>4. TypeOK' /\ Begun' /\ ChildHolds' /\ LiveChecked' /\ MapNotOlder' /\ child'[p] = c
  BY <1>2, <1>3, NewChild
<1>5. ASSUME alone[p] PROVE Staging(p)' /\ Reporting(p)' /\ ReportOf(p)'
  <2>1. pc[p] \in {"wait", "clean", "idle", "dead"}
    BY <1>5 DEF IInv, TypeOK, Staging, NoChild
  <2>2. pc[p] = "wait" => Writing(p)'
    BY <1>3, <1>4, <1>5 DEF IInv, Staging, Writing, Mine
  <2>3. Staging(p)'
    BY <1>5, <2>1, <2>2 DEF IInv, Staging, Steps
  <2> QED BY <1>5, <2>1, <2>3 DEF IInv, Reporting, ReportOf, Building, Steps
<1> QED BY <1>1, <1>2, <1>4, <1>5, AtWorkIInv

LEMMA ChildExitsIInv ==
    ASSUME IInv, NEW p \in Processes, ChildExits(p)
    PROVE  IInv'
<1> USE DEF ChildExits, procVars
<1>1. AtWork(p)
  BY DEF AtWork, Building, Steps, NoChild
<1>2. /\ UNCHANGED procVars
      /\ pc' \in [Processes -> {"idle", "dead"} \cup Steps]
      /\ \A q \in Processes : q # p => pc'[q] = pc[q] /\ child'[q] = child[q]
  BY DEF IInv, TypeOK, Steps
<1> DEFINE c == IF pc[p] = "wait" THEN [NoChild EXCEPT !.at = "done"] ELSE NoChild
<1>3. ChildOK(p, c) /\ (pc[p] = "wait" => c # NoChild /\ c.at = "done")
  <2>1. [NoChild EXCEPT !.at = "done"] = [at |-> "done", run |-> 0, file |-> None, left |-> {}]
    BY DEF NoChild
  <2>2. ChildOK(p, [NoChild EXCEPT !.at = "done"])
    BY <2>1 DEF ChildOK, Children, IInv, TypeOK
  <2> QED BY <2>1, <2>2, NoChildOK DEF NoChild
<1>4. child' = [child EXCEPT ![p] = c]
  OBVIOUS
<1> HIDE DEF c
<1>5. TypeOK' /\ Begun' /\ ChildHolds' /\ LiveChecked' /\ MapNotOlder' /\ child'[p] = c
  BY <1>2, <1>3, <1>4, NewChild
<1>6. alone[p] => Staging(p)' /\ Reporting(p)' /\ ReportOf(p)'
  <2>1. ASSUME pc[p] = "wait", alone[p] PROVE Writing(p)'
    <3>1. child[p].at = "read" /\ child[p].left = {} /\ Writing(p)
      BY <2>1 DEF IInv, Staging
    <3>2. child'[p].at = "done"
      BY <1>3, <1>5, <2>1
    <3>3. Mine(p, child[p].file) /\ \A f \in Outputs : staged[f] = child[p].file
      BY <3>1 DEF Writing
    <3> QED BY <3>2, <3>3 DEF Writing, Mine, Outputs
  <2>2. ASSUME alone[p] PROVE Staging(p)'
    BY <2>1, <2>2 DEF IInv, Staging, Mine
  <2> QED BY <2>2 DEF IInv, Reporting, ReportOf, Building, Steps
<1> QED BY <1>1, <1>2, <1>5, <1>6, AtWorkIInv

LEMMA WaitedIInv ==
    ASSUME IInv, NEW p \in Processes, Waited(p)
    PROVE  IInv'
<1> USE DEF Waited, Goto, procVars
<1>1. AtWork(p)
  BY DEF AtWork, Building, Steps, NoChild
<1>2. /\ UNCHANGED procVars
      /\ pc' \in [Processes -> {"idle", "dead"} \cup Steps]
      /\ \A q \in Processes : q # p => pc'[q] = pc[q] /\ child'[q] = child[q]
  BY DEF IInv, TypeOK, Steps
<1>3. ChildOK(p, NoChild) /\ pc'[p] # "wait"
  BY NoChildOK DEF IInv, TypeOK
<1>4. TypeOK' /\ Begun' /\ ChildHolds' /\ LiveChecked' /\ MapNotOlder'
  BY <1>2, <1>3, NewChild
<1>5. alone[p] => Staging(p)' /\ Reporting(p)' /\ ReportOf(p)'
  BY DEF IInv, TypeOK, Staging, Writing, Mine, Reporting, ReportOf, Building, Steps
<1> QED BY <1>1, <1>2, <1>4, <1>5, AtWorkIInv

LEMMA ChildWritesIInv ==
    ASSUME IInv, NEW p \in Processes, ChildWrites(p)
    PROVE  IInv'
<1> USE DEF ChildWrites, procVars
<1>1. AtWork(p)
  BY DEF AtWork, Building, Steps, NoChild
<1>2. /\ UNCHANGED procVars
      /\ pc' \in [Processes -> {"idle", "dead"} \cup Steps]
      /\ \A q \in Processes : q # p => pc'[q] = pc[q] /\ child'[q] = child[q]
  BY DEF IInv, TypeOK, Steps
<1> PICK f \in child[p].left :
        /\ staged' = [staged EXCEPT ![f] = child[p].file]
        /\ child' = [child EXCEPT ![p].left = @ \ {f}]
  OBVIOUS
<1>3. /\ child \in [Processes -> Children] /\ staged \in [Outputs -> Files \cup {None}]
      /\ child[p].file \in Files /\ child[p].left \subseteq Outputs /\ f \in Outputs
      /\ child[p].run <= builds /\ child[p].file.run <= builds
  BY DEF IInv, TypeOK, ChildHolds, Begun, Children
<1> DEFINE c == [at |-> "read", run |-> child[p].run, left |-> child[p].left \ {f},
                 file |-> child[p].file]
<1>4. c \in Children /\ c # NoChild /\ child[p].file # None
  BY <1>3, ConstantsOK DEF Children, NoChild
<1>5. child' = [child EXCEPT ![p] = c]
  <2>1. child[p] \in Children /\ child[p].at = "read"
    BY <1>3
  <2>2. [child[p] EXCEPT !.left = @ \ {f}] = c
    BY <2>1 DEF Children
  <2> QED BY <2>2
<1>6. c.at = "read" /\ c.run = child[p].run /\ c.file = child[p].file
      /\ c.left = child[p].left \ {f}
  OBVIOUS
<1> HIDE DEF c
<1>7. /\ child' \in [Processes -> Children] /\ child'[p] = c
      /\ staged' \in [Outputs -> Files \cup {None}] /\ staged'[f] = child[p].file
      /\ \A g \in Outputs : g # f => staged'[g] = staged[g]
  BY <1>3, <1>4, <1>5
<1>8. TypeOK'
  <2>1. \A q \in Processes : pc'[q] = "wait" => child'[q] # NoChild
    BY <1>2, <1>4, <1>7 DEF IInv, TypeOK
  <2> QED BY <1>7, <2>1 DEF IInv, TypeOK, Children
<1>9. Begun' /\ ChildHolds' /\ LiveChecked' /\ MapNotOlder'
  <2>1. Begun'
    BY <1>2, <1>3, <1>6, <1>7 DEF IInv, Begun
  <2> QED BY <1>2, <1>4, <1>6, <1>7, <2>1 DEF IInv, ChildHolds, LiveChecked, MapNotOlder
<1>10. ASSUME alone[p] PROVE Staging(p)' /\ Reporting(p)' /\ ReportOf(p)'
  <2>1. run[p] = builds /\ (Building(p) => pc[p] \in Steps)
    BY <1>1, <1>10 DEF IInv, Undisturbed, Building
  <2>2. pc[p] \in {"wait", "clean", "idle", "dead"}
    BY <1>10 DEF IInv, TypeOK, Staging, NoChild
  <2>3. pc[p] = "wait" => Writing(p)'
    BY <1>6, <1>7, <1>10 DEF IInv, Staging, Writing, Mine
  <2> QED BY <1>10, <2>2, <2>3 DEF IInv, Staging, Reporting, ReportOf, Building, Steps
<1> QED BY <1>1, <1>2, <1>8, <1>9, <1>10, AtWorkIInv

LEMMA TimeoutIInv ==
    ASSUME IInv, NEW p \in Processes, Timeout(p)
    PROVE  IInv'
<1> USE DEF Timeout, Goto, procVars
<1>1. AtWork(p)
  BY DEF AtWork, Building, Steps, NoChild
<1>2. /\ UNCHANGED procVars
      /\ pc' \in [Processes -> {"idle", "dead"} \cup Steps]
      /\ \A q \in Processes : q # p => pc'[q] = pc[q] /\ child'[q] = child[q]
  BY DEF IInv, TypeOK, Steps
<1>3. child' = [child EXCEPT ![p] = NoChild] /\ ChildOK(p, NoChild)
  BY NoChildOK
<1>4. child' \in [Processes -> Children] /\ child'[p] = NoChild
  BY <1>3 DEF IInv, TypeOK, Children, ChildOK
<1>5. /\ staged' \in [Outputs -> Files \cup {None}]
      /\ \A f \in Outputs : staged'[f] # None => staged'[f].run <= builds
  <2>1. ASSUME NEW f \in child[p].left,
               staged' = [staged EXCEPT ![f] = [child[p].file EXCEPT !.whole = FALSE]]
        PROVE  <1>5!:
    <3>1. child[p].file \in Files /\ child[p].file.run <= builds /\ f \in Outputs
      BY <2>1 DEF IInv, TypeOK, ChildHolds, Begun
    <3>2. [child[p].file EXCEPT !.whole = FALSE] \in Files
          /\ [child[p].file EXCEPT !.whole = FALSE].run = child[p].file.run
      BY <3>1 DEF Files
    <3> QED BY <2>1, <3>1, <3>2 DEF IInv, TypeOK, Begun
  <2> QED BY <2>1 DEF IInv, TypeOK, Begun
<1>6. TypeOK'
  <2>1. pc'[p] # "wait"
    BY DEF IInv, TypeOK
  <2> QED BY <1>2, <1>4, <1>5, <2>1 DEF IInv, TypeOK, Children
<1>7. Begun' /\ ChildHolds' /\ LiveChecked' /\ MapNotOlder'
  <2>1. Begun' /\ ChildHolds'
    BY <1>2, <1>3, <1>4, <1>5 DEF IInv, Begun, ChildHolds, ChildOK
  <2> QED BY <2>1 DEF IInv, LiveChecked, MapNotOlder
<1>8. alone[p] => Staging(p)' /\ Reporting(p)' /\ ReportOf(p)'
  BY DEF IInv, TypeOK, Staging, Reporting, ReportOf, Building, Steps
<1> QED BY <1>1, <1>2, <1>6, <1>7, <1>8, AtWorkIInv

LEMMA WaitFailsIInv ==
    ASSUME IInv, NEW p \in Processes, WaitFails(p)
    PROVE  IInv'
<1> USE ConstantsOK DEF WaitFails, Goto, procVars
<1>1. AtWork(p)
  BY DEF AtWork, Building, Steps, NoChild
<1>2. /\ UNCHANGED procVars
      /\ \A q \in Processes : q # p => pc'[q] = pc[q] /\ child'[q] = child[q]
  BY DEF IInv, TypeOK
<1>3. TypeOK'
  BY DEF IInv, TypeOK, Steps
<1>4. Begun' /\ ChildHolds' /\ LiveChecked' /\ MapNotOlder'
  BY DEF IInv, Begun, ChildHolds, LiveChecked, MapNotOlder
<1>5. alone[p] => Staging(p)' /\ Reporting(p)' /\ ReportOf(p)'
  BY DEF IInv, TypeOK, Staging, Reporting, ReportOf, Building, Steps
<1> QED BY <1>1, <1>2, <1>3, <1>4, <1>5, AtWorkIInv

LEMMA CheckIInv ==
    ASSUME IInv, NEW p \in Processes, Check(p)
    PROVE  IInv'
<1> USE DEF Check, Goto, procVars
<1>1. AtWork(p)
  BY DEF AtWork, Building, Steps, NoChild
<1>2. /\ UNCHANGED procVars
      /\ pc' \in [Processes -> {"idle", "dead"} \cup Steps]
      /\ \A q \in Processes : q # p => pc'[q] = pc[q] /\ child'[q] = child[q]
  BY DEF IInv, TypeOK, Steps
<1>3. TypeOK' /\ Begun' /\ ChildHolds' /\ LiveChecked' /\ MapNotOlder'
  BY <1>2 DEF IInv, TypeOK, Steps, Begun, ChildHolds, LiveChecked, MapNotOlder
<1>4. ASSUME alone[p] PROVE Staging(p)' /\ Reporting(p)' /\ ReportOf(p)'
  <2>1. pc'[p] \in {"info", "clean"} /\ pc[p] = "check"
    BY DEF IInv, TypeOK
  <2>2. Mine(p, staged["bundle"]) /\ \A f \in Outputs : staged[f] = staged["bundle"]
    BY <1>4, <2>1 DEF IInv, Staging
  <2> child[p] = NoChild
    BY <1>4, <2>1 DEF IInv, Staging, Steps
  <2>3. pc'[p] = "info" => check_inputs(staged["bundle"].imports, want[p])
    BY <2>2 DEF IInv, TypeOK, Outputs
  <2>4. Staging(p)'
    BY <2>1, <2>2, <2>3 DEF Staging, Mine
  <2> QED BY <1>4, <2>1, <2>4 DEF IInv, Reporting, ReportOf, Building, Steps
<1> QED BY <1>1, <1>2, <1>3, <1>4, AtWorkIInv

LEMMA WriteInfoIInv ==
    ASSUME IInv, NEW p \in Processes, WriteInfo(p)
    PROVE  IInv'
<1> USE DEF WriteInfo, Goto, procVars
<1>1. AtWork(p)
  BY DEF AtWork, Building, Steps, NoChild
<1>2. /\ UNCHANGED procVars
      /\ pc' \in [Processes -> {"idle", "dead"} \cup Steps]
      /\ \A q \in Processes : q # p => pc'[q] = pc[q] /\ child'[q] = child[q]
  BY DEF IInv, TypeOK, Steps
<1>3. TypeOK' /\ Begun' /\ ChildHolds' /\ LiveChecked' /\ MapNotOlder'
  BY <1>2 DEF IInv, TypeOK, Steps, Begun, ChildHolds, LiveChecked, MapNotOlder
<1>4. ASSUME alone[p] PROVE Staging(p)' /\ Reporting(p)' /\ ReportOf(p)'
  <2>1. pc'[p] \in {"map", "clean"} /\ pc[p] = "info"
    BY DEF IInv, TypeOK
  <2>2. Staging(p)'
    BY <1>4, <2>1 DEF IInv, Staging, Mine, Steps
  <2> QED BY <1>4, <2>1, <2>2 DEF IInv, Reporting, ReportOf, Building, Steps
<1> QED BY <1>1, <1>2, <1>3, <1>4, AtWorkIInv

LEMMA RenameMapIInv ==
    ASSUME IInv, NEW p \in Processes, RenameMap(p)
    PROVE  IInv'
<1> USE DEF RenameMap, Goto, procVars
<1>1. AtWork(p)
  BY DEF AtWork, Building, Steps, NoChild
<1>2. /\ UNCHANGED procVars
      /\ pc' \in [Processes -> {"idle", "dead"} \cup Steps]
      /\ \A q \in Processes : q # p => pc'[q] = pc[q] /\ child'[q] = child[q]
  BY DEF IInv, TypeOK, Steps
<1>3. CASE Goto(p, "map", "bundle") /\ Move(p, "map")
  <2> DEFINE file == [staged["map"] EXCEPT !.lone = alone[p]]
  <2>1. staged["map"] \in Files /\ staged["map"].run <= builds /\ alone[p] \in BOOLEAN
    BY <1>3 DEF Move, IInv, TypeOK, Begun, Outputs
  <2>2. file \in Files /\ file.run = staged["map"].run /\ file.lone = alone[p]
    BY <2>1 DEF Files
  <2>3. live' = [live EXCEPT !["map"] = file] /\ staged' = [staged EXCEPT !["map"] = None]
    BY <1>3 DEF Move
  <2> HIDE DEF file
  <2>4. /\ staged' \in [Outputs -> Files \cup {None}] /\ live' \in [{"bundle", "map"} -> Files \cup {None}]
        /\ live'["map"] = file /\ live'["bundle"] = live["bundle"] /\ file # None
        /\ staged'["bundle"] = staged["bundle"]
        /\ \A f \in Outputs : staged'[f] # None => staged'[f] = staged[f]
    BY <2>2, <2>3, ConstantsOK DEF IInv, TypeOK, Outputs
  <2>5. TypeOK'
    BY <1>2, <1>3, <2>4 DEF IInv, TypeOK
  <2>6. Begun' /\ ChildHolds'
    BY <1>2, <2>1, <2>2, <2>4 DEF IInv, Begun, ChildHolds
  <2>7. alone[p] => file.run = builds
    BY <1>1, <1>3, <2>2 DEF IInv, Undisturbed, Staging, Mine, Outputs
  <2>8. LiveChecked' /\ MapNotOlder'
    <3>1. live["bundle"] # None => live["bundle"].run <= builds
      BY DEF IInv, Begun
    <3> QED BY <2>2, <2>4, <2>7, <3>1 DEF IInv, LiveChecked, MapNotOlder
  <2>9. ASSUME alone[p] PROVE Staging(p)' /\ Reporting(p)' /\ ReportOf(p)'
    <3>1. pc[p] = "map" /\ pc'[p] = "bundle" /\ run[p] = builds
      BY <1>1, <1>3, <2>9 DEF IInv, TypeOK, Undisturbed
    <3>2. Mine(p, staged["bundle"]) /\ check_inputs(staged["bundle"].imports, want[p])
          /\ child[p] = NoChild
      BY <2>9, <3>1 DEF IInv, Staging, Steps
    <3>3. Staging(p)'
      BY <2>2, <2>4, <2>7, <2>9, <3>1, <3>2 DEF Staging, Mine
    <3> QED BY <2>4, <2>9, <3>1, <3>3 DEF IInv, Reporting, ReportOf, Building, Steps
  <2> QED BY <1>1, <1>2, <2>5, <2>6, <2>8, <2>9, AtWorkIInv
<1>4. CASE Goto(p, "map", "clean") /\ UNCHANGED <<staged, live>>
  <2>1. TypeOK' /\ Begun' /\ ChildHolds' /\ LiveChecked' /\ MapNotOlder'
    BY <1>2, <1>4 DEF IInv, TypeOK, Steps, Begun, ChildHolds, LiveChecked, MapNotOlder
  <2>2. alone[p] => Staging(p)' /\ Reporting(p)' /\ ReportOf(p)'
    BY <1>4 DEF IInv, TypeOK, Staging, Reporting, ReportOf, Building, Steps
  <2> QED BY <1>1, <1>2, <2>1, <2>2, AtWorkIInv
<1> QED BY <1>3, <1>4

LEMMA RenameBundleIInv ==
    ASSUME IInv, NEW p \in Processes, RenameBundle(p)
    PROVE  IInv'
<1> USE DEF RenameBundle, Goto, procVars
<1>1. AtWork(p)
  BY DEF AtWork, Building, Steps, NoChild
<1>2. /\ UNCHANGED procVars
      /\ pc' \in [Processes -> {"idle", "dead"} \cup Steps]
      /\ \A q \in Processes : q # p => pc'[q] = pc[q] /\ child'[q] = child[q]
  BY DEF IInv, TypeOK, Steps
<1>3. CASE /\ Goto(p, "bundle", "clean") /\ Move(p, "bundle")
           /\ report' = [report EXCEPT ![p] = "ok"]
  <2> DEFINE file == [staged["bundle"] EXCEPT !.lone = alone[p]]
  <2>1. staged["bundle"] \in Files /\ staged["bundle"].run <= builds /\ alone[p] \in BOOLEAN
    BY <1>3 DEF Move, IInv, TypeOK, Begun, Outputs
  <2>2. /\ file \in Files /\ file.run = staged["bundle"].run /\ file.lone = alone[p]
        /\ file.plugins = staged["bundle"].plugins /\ file.whole = staged["bundle"].whole
        /\ file.imports = staged["bundle"].imports
    BY <2>1 DEF Files
  <2>3. /\ live' = [live EXCEPT !["bundle"] = file]
        /\ staged' = [staged EXCEPT !["bundle"] = None]
    BY <1>3 DEF Move
  <2> HIDE DEF file
  <2>4. /\ staged' \in [Outputs -> Files \cup {None}] /\ live' \in [{"bundle", "map"} -> Files \cup {None}]
        /\ live'["map"] = live["map"] /\ live'["bundle"] = file /\ file # None
        /\ \A f \in Outputs : staged'[f] # None => staged'[f] = staged[f]
    BY <2>2, <2>3, ConstantsOK DEF IInv, TypeOK, Outputs
  <2>5. TypeOK'
    <3>1. report' \in [Processes -> {"none", "ok", "failed"}]
      BY <1>3 DEF IInv, TypeOK
    <3> QED BY <1>2, <1>3, <2>4, <3>1 DEF IInv, TypeOK
  <2>6. Begun' /\ ChildHolds'
    BY <1>2, <2>1, <2>2, <2>4 DEF IInv, Begun, ChildHolds
  <2>7. alone[p] =>
           /\ Mine(p, staged["bundle"]) /\ check_inputs(staged["bundle"].imports, want[p])
           /\ live["map"] # None /\ live["map"].lone /\ live["map"].run = run[p]
    BY <1>3 DEF IInv, Staging
  <2>8. LiveChecked' /\ MapNotOlder'
    <3>1. run[p] \in Nat
      BY DEF IInv, TypeOK
    <3> QED BY <2>2, <2>4, <2>7, <3>1 DEF LiveChecked, MapNotOlder, Mine
  <2>9. ASSUME alone[p] PROVE Staging(p)' /\ Reporting(p)' /\ ReportOf(p)'
    <3>1. pc'[p] = "clean" /\ report'[p] = "ok"
      BY <1>3 DEF IInv, TypeOK
    <3> QED BY <2>2, <2>4, <2>7, <2>9, <3>1
            DEF Staging, Reporting, ReportOf, Building, Steps, Mine
  <2> QED BY <1>1, <1>2, <2>5, <2>6, <2>8, <2>9, AtWorkIInv
<1>4. CASE Goto(p, "bundle", "clean") /\ UNCHANGED <<staged, live, report>>
  <2>1. TypeOK' /\ Begun' /\ ChildHolds' /\ LiveChecked' /\ MapNotOlder'
    BY <1>2, <1>4 DEF IInv, TypeOK, Steps, Begun, ChildHolds, LiveChecked, MapNotOlder
  <2>2. alone[p] => Staging(p)' /\ Reporting(p)' /\ ReportOf(p)'
    BY <1>4 DEF IInv, TypeOK, Staging, Reporting, ReportOf, Building, Steps
  <2> QED BY <1>1, <1>2, <2>1, <2>2, AtWorkIInv
<1> QED BY <1>3, <1>4

LEMMA CleanIInv ==
    ASSUME IInv, NEW p \in Processes, Clean(p)
    PROVE  IInv'
<1> USE DEF Clean, End, Goto, procVars
<1>1. AtWork(p)
  BY DEF AtWork, Building, Steps, NoChild
<1>2. /\ UNCHANGED procVars
      /\ pc' \in [Processes -> {"idle", "dead"} \cup Steps]
      /\ \A q \in Processes : q # p => pc'[q] = pc[q] /\ child'[q] = child[q]
  BY DEF IInv, TypeOK, Steps
<1>3. TypeOK'
  BY <1>2 DEF IInv, TypeOK
<1>4. Begun' /\ ChildHolds' /\ LiveChecked' /\ MapNotOlder'
  BY DEF IInv, Begun, ChildHolds, LiveChecked, MapNotOlder
<1>5. alone[p] => Staging(p)' /\ Reporting(p)' /\ ReportOf(p)'
  BY DEF IInv, TypeOK, Staging, Reporting, ReportOf, Building, Steps
<1> QED BY <1>1, <1>2, <1>3, <1>4, <1>5, AtWorkIInv

LEMMA BeginIInv ==
    ASSUME IInv, NEW p \in Processes, NEW plugins \in Wanted, Begin(p, plugins)
    PROVE  IInv'
<1> USE DEF Begin, Goto
<1>1. /\ pc \in [Processes -> {"idle", "dead"} \cup Steps] /\ run \in [Processes -> Nat]
      /\ builds \in Nat /\ builds' = builds + 1 /\ plugins \subseteq Ids
      /\ \A q \in Processes : run[q] <= builds
  BY ConstantsOK DEF IInv, TypeOK
<1>2. /\ run'[p] = builds' /\ want'[p] = plugins /\ pc'[p] = "verify"
      /\ was'[p] = live["bundle"] /\ report'[p] = "none"
      /\ \A q \in Processes : q # p => pc'[q] = pc[q] /\ run'[q] = run[q]
  BY <1>1 DEF IInv, TypeOK
<1>3. TypeOK'
  <2>1. pc' \in [Processes -> {"idle", "dead"} \cup Steps]
    BY <1>1 DEF Steps
  <2>2. run' \in [Processes -> Nat] /\ \A q \in Processes : run'[q] <= builds'
    BY <1>1, <1>2
  <2>3. want' \in [Processes -> SUBSET Ids] /\ was' \in [Processes -> Files \cup {None}]
    BY <1>1 DEF IInv, TypeOK
  <2>4. alone' \in [Processes -> BOOLEAN]
    BY DEF IInv, TypeOK, AtWork, Building
  <2>5. report' \in [Processes -> {"none", "ok", "failed"}]
    BY DEF IInv, TypeOK
  <2>6. \A q \in Processes : pc'[q] = "wait" => child'[q] # NoChild
    BY <1>2 DEF IInv, TypeOK
  <2> QED BY <1>1, <2>1, <2>2, <2>3, <2>4, <2>5, <2>6 DEF IInv, TypeOK
<1>4. Begun' /\ ChildHolds' /\ LiveChecked' /\ MapNotOlder'
  <2>1. \A n : n <= builds /\ n \in Nat => n <= builds'
    BY <1>1
  <2>2. \A q \in Processes : child[q].run \in Nat /\ (child[q].file # None => child[q].file.run \in Nat)
    BY DEF IInv, TypeOK, Files
  <2>3. /\ \A f \in Outputs : staged[f] # None => staged[f].run \in Nat
        /\ \A f \in {"bundle", "map"} : live[f] # None => live[f].run \in Nat
    BY DEF IInv, TypeOK, Files
  <2>4. Begun'
    BY <2>1, <2>2, <2>3 DEF IInv, Begun
  <2> QED BY <2>4 DEF IInv, ChildHolds, LiveChecked, MapNotOlder
<1>5. /\ alone'[p] => \A q \in Processes : ~AtWork(q)
      /\ \A q \in Processes : q # p /\ alone'[q] => alone[q] /\ ~AtWork(q)
  OBVIOUS
<1>6. \A q \in Processes : q # p => (AtWork(q)' <=> AtWork(q)) /\ run'[q] # builds'
  BY <1>1, <1>2 DEF AtWork, Building
<1>7. Undisturbed'
  BY <1>2, <1>5, <1>6 DEF Undisturbed
<1>8. Staging(p)' /\ Reporting(p)' /\ ReportOf(p)'
  BY <1>2 DEF Staging, Reporting, ReportOf, Building, Steps
<1>9. ASSUME NEW q \in Processes, q # p, alone'[q]
      PROVE  Staging(q)' /\ Reporting(q)' /\ ReportOf(q)'
  <2>1. ~Building(q)' /\ run'[q] # builds'
    BY <1>5, <1>6, <1>9 DEF AtWork
  <2> QED BY <2>1 DEF Staging, Reporting, ReportOf, Building, Steps
<1> QED BY <1>3, <1>4, <1>7, <1>8, <1>9 DEF IInv

LEMMA KillIInv ==
    ASSUME IInv, NEW p \in Processes, Kill(p)
    PROVE  IInv'
<1> USE DEF Kill
<1>1. /\ pc'[p] = "dead" /\ run'[p] = 0 /\ ~alone'[p]
      /\ \A q \in Processes : q # p =>
            /\ pc'[q] = pc[q] /\ run'[q] = run[q] /\ want'[q] = want[q]
            /\ alone'[q] = alone[q] /\ was'[q] = was[q] /\ report'[q] = report[q]
  BY DEF IInv, TypeOK
<1>2. TypeOK'
  <2>1. \A q \in Processes : run'[q] <= builds'
    BY <1>1 DEF IInv, TypeOK
  <2>2. \A q \in Processes : pc'[q] = "wait" => child'[q] # NoChild
    BY <1>1 DEF IInv, TypeOK
  <2> QED BY <2>1, <2>2 DEF IInv, TypeOK
<1>3. Begun' /\ ChildHolds' /\ LiveChecked' /\ MapNotOlder'
  BY DEF IInv, Begun, ChildHolds, LiveChecked, MapNotOlder
<1>4. \A q \in Processes : AtWork(q)' => AtWork(q)
  BY <1>1 DEF AtWork, Building, Steps
<1>5. Undisturbed'
  BY <1>1, <1>4 DEF IInv, Undisturbed
<1>6. ASSUME NEW q \in Processes, alone'[q]
      PROVE  Staging(q)' /\ Reporting(q)' /\ ReportOf(q)'
  BY <1>1, <1>6 DEF IInv, Staging, Writing, Mine, Reporting, ReportOf, Building
<1> QED BY <1>2, <1>3, <1>5, <1>6 DEF IInv

LEMMA StutterIInv == IInv /\ UNCHANGED vars => IInv'
<1> SUFFICES ASSUME IInv, UNCHANGED vars PROVE IInv'
  OBVIOUS
<1> USE DEF vars, procVars
<1>1. TypeOK' /\ Begun' /\ ChildHolds' /\ LiveChecked' /\ MapNotOlder'
  BY DEF IInv, TypeOK, Begun, ChildHolds, LiveChecked, MapNotOlder
<1>2. Undisturbed'
  BY DEF IInv, Undisturbed, AtWork, Building
<1>3. \A p \in Processes : alone'[p] => Staging(p)' /\ Reporting(p)' /\ ReportOf(p)'
  BY DEF IInv, Staging, Writing, Mine, Reporting, ReportOf, Building
<1> QED BY <1>1, <1>2, <1>3 DEF IInv

LEMMA Inductive == Spec => []IInv
<1>1. IInv /\ [Next]_vars => IInv'
  <2> SUFFICES ASSUME IInv, [Next]_vars PROVE IInv'
    OBVIOUS
  <2>1. ASSUME NEW p \in Processes, NEW plugins \in Wanted, Begin(p, plugins) PROVE IInv'
    BY <2>1, BeginIInv
  <2>2. ASSUME NEW p \in Processes, Build(p) PROVE IInv'
    BY <2>2, VerifyIInv, WriteTableIInv, SpawnIInv, WaitedIInv, TimeoutIInv, WaitFailsIInv,
       CheckIInv, WriteInfoIInv, RenameMapIInv, RenameBundleIInv, CleanIInv DEF Build
  <2>3. ASSUME NEW p \in Processes, Esbuild(p) PROVE IInv'
    BY <2>3, ChildReadsIInv, ChildWritesIInv, ChildExitsIInv DEF Esbuild
  <2>4. ASSUME NEW p \in Processes, Kill(p) PROVE IInv'
    BY <2>4, KillIInv
  <2> QED BY <2>1, <2>2, <2>3, <2>4, StutterIInv DEF Next
<1> QED BY InitIInv, <1>1, PTL DEF Spec

-----------------------------------------------------------------------------
(* The rules of check_inputs are about single imports; what follows from   *)
(* them is about any number of imports.                                    *)

LEMMA ChainsStay ==
    ASSUME NEW imports \in SUBSET (Inputs \X Inputs), NEW plugins \in SUBSET Ids,
           check_inputs(imports, plugins), NEW id \in plugins
    PROVE  LET inputs == UNION {{e[1], e[2]} : e \in imports}
           IN  /\ \A i \in inputs : i.of \in {"host", "api", "table"} \cup plugins
               /\ StaysIn(imports, {i \in inputs : i.of = id}, OwnOrApi(inputs, id))
<1> DEFINE inputs == UNION {{e[1], e[2]} : e \in imports}
           reached == {i \in inputs : i.of \in {id, "api"}}
<1>1. \A e \in imports : e[1] \in inputs /\ e[2] \in inputs
  OBVIOUS
<1>2. \A i \in inputs : i \in Inputs /\ Allowed(i, plugins)
  BY DEF check_inputs
<1>3. id \in Ids /\ id \notin Places
  BY ConstantsOK
<1>4. \A e \in imports : e[1] \in reached => e[2] \in reached
  BY <1>1, <1>3 DEF check_inputs, Reachable
<1>5. \A i \in inputs : i.of = id => i.kind # "test"
  BY <1>2, <1>3 DEF Allowed, Places
<1>6. reached \in SUBSET OwnOrApi(inputs, id)
  BY <1>5 DEF OwnOrApi
<1>7. StaysIn(imports, {i \in inputs : i.of = id}, OwnOrApi(inputs, id))
  BY <1>4, <1>6 DEF StaysIn
<1> QED BY <1>2, <1>7 DEF Allowed

-----------------------------------------------------------------------------

(* Types; a process waits for no esbuild but one that it has started         *)
(* (build.rs, run_esbuild).                                                  *)
THEOREM TypeCorrect == Spec => []TypeOK
<1>1. IInv => TypeOK
  BY DEF IInv
<1> QED BY Inductive, <1>1, PTL

(* What goes live with no other build beside it is whole, and a plugin in    *)
(* it imports, over any number of imports, only files of its own that are no *)
(* tests and the API's, for any plugins and sources, whatever was left       *)
(* behind and wherever a build stops (build.rs, run and check_inputs).       *)
THEOREM OnlyCheckedGoesLive == Spec => []LiveWasChecked
<1>1. IInv => LiveWasChecked
  <2> SUFFICES ASSUME IInv, live["bundle"] # None, live["bundle"].lone PROVE LiveWasChecked
    BY DEF LiveWasChecked
  <2> DEFINE file == live["bundle"]
  <2>1. file.whole /\ check_inputs(file.imports, file.plugins)
    BY DEF IInv, LiveChecked
  <2>2. file.imports \in SUBSET (Inputs \X Inputs) /\ file.plugins \in SUBSET Ids
    BY DEF IInv, TypeOK, Files
  <2>3. \A i \in UNION {{e[1], e[2]} : e \in file.imports} :
           i.of \in {"host", "api", "table"} \cup file.plugins
    BY <2>1, <2>2 DEF check_inputs, Allowed
  <2>4. ASSUME NEW id \in file.plugins
        PROVE  LET inputs == UNION {{e[1], e[2]} : e \in file.imports}
               IN  StaysIn(file.imports, {i \in inputs : i.of = id}, OwnOrApi(inputs, id))
    BY <2>1, <2>2, ChainsStay
  <2> QED BY <2>1, <2>3, <2>4 DEF LiveWasChecked
<1> QED BY Inductive, <1>1, PTL

(* A build with no other beside it says ok only if its own bundle is live,   *)
(* and leaves the old one if it failed (build.rs, EsbuildBuilder::build).    *)
THEOREM ReportsAreTrue == Spec => []ReportIsTrue
<1>1. IInv => ReportIsTrue
  BY DEF IInv, ReportIsTrue, ReportOf
<1> QED BY Inductive, <1>1, PTL

(* A bundle is never newer than its map, wherever a build stops between the  *)
(* two renames (build.rs, promote).                                          *)
THEOREM MapsAreNotOlder == Spec => []MapNotOlder
<1>1. IInv => MapNotOlder
  BY DEF IInv
<1> QED BY Inductive, <1>1, PTL

=============================================================================
