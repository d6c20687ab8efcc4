-------------------------- MODULE StateStoreProofs --------------------------
(***************************************************************************)
(* Proofs about StateStore, for every set of namespaces, keys and values   *)
(* and every size limit.                                                   *)
(***************************************************************************)
EXTENDS StateStore, TLAPS

(***************************************************************************)
(* The inductive invariant.  A call in flight is described by the map it   *)
(* found (before) and the one change it made to it; the temp file holds    *)
(* that map once it is written and is synced when it is renamed; and what  *)
(* is claimed of memory between calls is claimed of before during one.     *)
(***************************************************************************)
InFlight ==
    /\ (pc = "idle") <=> (call = NoCall)
    /\ pc # "idle" =>
        /\ up
        /\ Size(mem) <= MaxFileBytes
        /\ call.op \in {"set", "delete"}
        /\ call.op = "set" =>
            \E e \in Entries, v \in Values :
                /\ call.entries = {e} /\ call.value = v
                /\ mem = Insert(before, e, v)
        /\ call.op = "delete" =>
            /\ call.value = Missing
            /\ mem.at = Erase(before, call.entries)

TempHoldsMap ==
    /\ pc = "sync" => temp.bytes = mem
    /\ pc = "rename" => temp = Whole(mem)

\* The map a reader gets while the daemon is up.
Seen == IF pc = "idle" THEN mem ELSE before

Claims == up => \A e \in Entries : Seen.at[e] # Missing => file.bytes.at[e] = Seen.at[e]

Kept ==
    \A e \in Entries : promised[e] \in Values =>
        /\ file.bytes.at[e] = promised[e]
        /\ up => Seen.at[e] = promised[e]

IInv ==
    /\ TypeOK
    /\ InFlight
    /\ TempHoldsMap
    /\ FileIsWhole
    /\ file.synced
    /\ Claims
    /\ Kept

-----------------------------------------------------------------------------
(* What the helpers return *)

LEMMA EraseAt ==
    ASSUME NEW m \in Maps, NEW gone
    PROVE  /\ Erase(m, gone) \in Contents
           /\ \A e \in Entries : Erase(m, gone)[e] = IF e \in gone THEN Missing ELSE m.at[e]
BY DEF Erase, Maps, Contents

LEMMA EmptyMapType == EmptyMap \in Maps
BY DEF EmptyMap, Maps, Contents

LEMMA InsertType ==
    ASSUME NEW m \in Maps, NEW e \in Entries, NEW v \in Values
    PROVE  /\ Insert(m, e, v) \in Maps
           /\ Insert(m, e, v).at = [m.at EXCEPT ![e] = v]
BY ConstantsOK DEF Insert, Maps, Contents

LEMMA UndoType ==
    ASSUME NEW m \in Maps, NEW old \in Maps, NEW e \in Entries
    PROVE  /\ Undo(m, old, e) \in Maps
           /\ Undo(m, old, e).at = [m.at EXCEPT ![e] = old.at[e]]
BY ConstantsOK DEF Undo, Maps, Contents

\* Undoing an insertion gives every entry its old value.
LEMMA UndoInsert ==
    ASSUME NEW m \in Maps, NEW e \in Entries, NEW v \in Values
    PROVE  /\ Undo(Insert(m, e, v), m, e) \in Maps
           /\ Undo(Insert(m, e, v), m, e).at = m.at
<1>1. Insert(m, e, v) \in Maps /\ Insert(m, e, v).at = [m.at EXCEPT ![e] = v]
  BY InsertType
<1>2. /\ Undo(Insert(m, e, v), m, e) \in Maps
      /\ Undo(Insert(m, e, v), m, e).at = [Insert(m, e, v).at EXCEPT ![e] = m.at[e]]
  BY <1>1, UndoType
<1>3. m.at \in [Entries -> Values \cup {Missing}]
  BY DEF Maps, Contents
<1>4. [[m.at EXCEPT ![e] = v] EXCEPT ![e] = m.at[e]] = m.at
  BY <1>3
<1> QED BY <1>1, <1>2, <1>4

LEMMA WithoutKeyType ==
    ASSUME NEW m \in Maps, NEW e \in Entries
    PROVE  /\ WithoutKey(m, e) \in Maps
           /\ WithoutKey(m, e).at = Erase(m, {e})
<1>1. /\ Erase(m, {e}) \in Contents
      /\ \A d \in Entries : Erase(m, {e})[d] = IF d \in {e} THEN Missing ELSE m.at[d]
  BY EraseAt
<1>2. \A d \in Entries : Erase(m, {e})[d] # Missing => d[1] \in m.ns
  BY <1>1 DEF Maps
<1>3. ASSUME \A d \in Of(e[1]) : Erase(m, {e})[d] = Missing,
             NEW d \in Entries, Erase(m, {e})[d] # Missing
      PROVE  d[1] # e[1]
  BY <1>3 DEF Of
<1> QED BY <1>1, <1>2, <1>3 DEF WithoutKey, Maps

LEMMA WithoutNamespaceType ==
    ASSUME NEW m \in Maps, NEW n \in Namespaces
    PROVE  /\ WithoutNamespace(m, n) \in Maps
           /\ WithoutNamespace(m, n).at = Erase(m, Of(n))
<1>1. /\ Erase(m, Of(n)) \in Contents
      /\ \A d \in Entries :
            Erase(m, Of(n))[d] = IF d \in Of(n) THEN Missing ELSE m.at[d]
  BY EraseAt
<1>2. \A d \in Entries : Erase(m, Of(n))[d] # Missing => d[1] \in m.ns \ {n}
  BY <1>1 DEF Maps, Of
<1> QED BY <1>1, <1>2 DEF WithoutNamespace, Maps

-----------------------------------------------------------------------------
(* The invariant holds initially *)

LEMMA InitIInv == Init => IInv
<1> SUFFICES ASSUME Init PROVE IInv
  OBVIOUS
<1> USE ConstantsOK, TornIsNoMap, UnsureIsNoValue
<1>1. EmptyMap \in Maps
  BY EmptyMapType
<1>2. TypeOK
  BY <1>1 DEF Init, TypeOK, Calls, Ops, NoCall, Files, Whole, Absent
<1>3. InFlight /\ TempHoldsMap /\ file.synced
  BY DEF Init, InFlight, TempHoldsMap, Whole
<1>4. FileIsWhole
  BY <1>1, EmptyMapFits DEF Init, FileIsWhole, Whole
<1>5. Claims /\ Kept
  BY DEF Init, Claims, Kept, Seen, Whole, EmptyMap
<1> QED BY <1>2, <1>3, <1>4, <1>5 DEF IInv

-----------------------------------------------------------------------------
(* Every step preserves it *)

\* What persist refuses or starts writing, for an operation that changes the
\* map to new; es and x are the call's entries and value.
LEMMA PersistIInv ==
    ASSUME IInv, Free, NEW new \in Maps, NEW c \in Calls, Persist(new, c),
           c.op \in {"set", "delete"},
           c.op = "set" =>
               \E e \in Entries, v \in Values :
                   c.entries = {e} /\ c.value = v /\ new = Insert(mem, e, v),
           c.op = "delete" => c.value = Missing /\ new.at = Erase(mem, c.entries)
    PROVE  IInv'
<1>1. TypeOK'
  BY DEF IInv, TypeOK, Persist, diskVars
<1>2. c # NoCall
  BY DEF NoCall
<1>3. InFlight'
  BY <1>2 DEF IInv, InFlight, Persist, Free
<1>4. TempHoldsMap' /\ FileIsWhole' /\ file'.synced
  BY DEF IInv, TempHoldsMap, FileIsWhole, Persist, diskVars
<1>5. Seen' = Seen
  BY DEF Seen, Persist, Free
<1>6. Claims' /\ Kept'
  BY <1>5 DEF IInv, Claims, Kept, Persist, diskVars
<1> QED BY <1>1, <1>3, <1>4, <1>6 DEF IInv

LEMMA SetIInv ==
    ASSUME IInv, NEW by \in Callers, NEW e \in Entries, NEW v \in Values, Set(by, e, v)
    PROVE  IInv'
<1> USE ConstantsOK
<1>0. mem \in Maps /\ Free
  BY DEF IInv, TypeOK, Set
<1>1. CASE SetTooLarge(v)
  <2>1. TypeOK'
    BY <1>1 DEF IInv, TypeOK, SetTooLarge, diskVars
  <2> QED BY <1>1, <2>1 DEF IInv, SetTooLarge, diskVars, InFlight, TempHoldsMap,
             FileIsWhole, Claims, Kept, Seen
<1>2. CASE SetFull(e, v)
  <2>1. mem' \in Maps /\ mem'.at = mem.at
    BY <1>0, <1>2, UndoInsert DEF SetFull
  <2>2. TypeOK'
    BY <1>2, <2>1 DEF IInv, TypeOK, SetFull, diskVars
  <2>3. InFlight' /\ TempHoldsMap' /\ FileIsWhole' /\ file'.synced
    BY <1>0, <1>2 DEF IInv, SetFull, Free, diskVars, InFlight, TempHoldsMap, FileIsWhole
  <2>4. Claims' /\ Kept'
    BY <1>0, <1>2, <2>1 DEF IInv, SetFull, Free, diskVars, Claims, Kept, Seen
  <2> QED BY <2>2, <2>3, <2>4 DEF IInv
<1>3. CASE SetStart(e, v)
  <2> DEFINE c == [op |-> "set", entries |-> {e}, value |-> v]
  <2>1. Insert(mem, e, v) \in Maps
    BY <1>0, InsertType
  <2>2. c \in Calls
    BY DEF Calls, Ops
  <2>3. Persist(Insert(mem, e, v), c)
    BY <1>3 DEF SetStart
  <2> QED BY <1>0, <2>1, <2>2, <2>3, PersistIInv
<1> QED BY <1>1, <1>2, <1>3 DEF Set

\* A removal of the entries es, whichever way it ends.
LEMMA RemovalIInv ==
    ASSUME IInv, Free, NEW es \in SUBSET Entries, NEW new \in Maps,
           new.at = Erase(mem, es),
           DeleteFull(new, es) \/ DeleteStart(new, es)
    PROVE  IInv'
<1> USE ConstantsOK, UnsureIsNoValue
<1>0. mem \in Maps
  BY DEF IInv, TypeOK
<1>1. CASE DeleteFull(new, es)
  <2>1. TypeOK'
    BY <1>1 DEF IInv, TypeOK, DeleteFull, diskVars, Promise
  <2>2. InFlight' /\ TempHoldsMap' /\ FileIsWhole' /\ file'.synced
    BY <1>1 DEF IInv, DeleteFull, Free, diskVars, InFlight, TempHoldsMap, FileIsWhole
  <2>3. \A e \in Entries : new.at[e] = IF e \in es THEN Missing ELSE mem.at[e]
    BY <1>0, EraseAt
  <2>4. Seen = mem /\ Seen' = new
    BY <1>1 DEF DeleteFull, Free, Seen
  <2>5. Claims'
    BY <1>1, <2>3, <2>4 DEF IInv, DeleteFull, diskVars, Claims
  <2>6. Kept'
    BY <1>1, <2>3, <2>4 DEF IInv, DeleteFull, diskVars, Kept, Promise
  <2> QED BY <2>1, <2>2, <2>5, <2>6 DEF IInv
<1>2. CASE DeleteStart(new, es)
  <2> DEFINE c == [op |-> "delete", entries |-> es, value |-> Missing]
  <2>1. c \in Calls
    BY DEF Calls, Ops
  <2>2. Persist(new, c)
    BY <1>2 DEF DeleteStart
  <2> QED BY <2>1, <2>2, PersistIInv
<1> QED BY <1>1, <1>2

LEMMA DeleteNothingIInv ==
    ASSUME IInv, NEW es \in SUBSET Entries, DeleteNothing(es)
    PROVE  IInv'
<1> USE ConstantsOK, UnsureIsNoValue
<1>1. TypeOK'
  BY DEF IInv, TypeOK, DeleteNothing, diskVars, Promise
<1>2. InFlight' /\ TempHoldsMap' /\ FileIsWhole' /\ file'.synced
  BY DEF IInv, DeleteNothing, diskVars, InFlight, TempHoldsMap, FileIsWhole
<1>3. Seen' = Seen
  BY DEF DeleteNothing, Seen
<1>4. Claims' /\ Kept'
  BY <1>3 DEF IInv, DeleteNothing, diskVars, Claims, Kept, Promise
<1> QED BY <1>1, <1>2, <1>4 DEF IInv

LEMMA DeleteIInv ==
    ASSUME IInv, NEW by \in Callers, NEW e \in Entries, Delete(by, e)
    PROVE  IInv'
<1>1. mem \in Maps /\ Free
  BY DEF IInv, TypeOK, Delete
<1>2. CASE DeleteNothing({e})
  BY <1>2, DeleteNothingIInv
<1>3. CASE DeleteFull(WithoutKey(mem, e), {e}) \/ DeleteStart(WithoutKey(mem, e), {e})
  <2>1. WithoutKey(mem, e) \in Maps /\ WithoutKey(mem, e).at = Erase(mem, {e})
    BY <1>1, WithoutKeyType
  <2> QED BY <1>1, <1>3, <2>1, RemovalIInv
<1> QED BY <1>2, <1>3 DEF Delete

LEMMA DeleteNamespaceIInv ==
    ASSUME IInv, NEW n \in Namespaces, DeleteNamespace(n)
    PROVE  IInv'
<1> DEFINE es == Of(n)
<1>0. es \in SUBSET Entries
  BY DEF Of
<1>1. mem \in Maps /\ Free
  BY DEF IInv, TypeOK, DeleteNamespace
<1>2. CASE DeleteNothing(es)
  BY <1>0, <1>2, DeleteNothingIInv
<1>3. CASE DeleteFull(WithoutNamespace(mem, n), es) \/ DeleteStart(WithoutNamespace(mem, n), es)
  <2>1. WithoutNamespace(mem, n) \in Maps /\ WithoutNamespace(mem, n).at = Erase(mem, es)
    BY <1>1, WithoutNamespaceType
  <2> QED BY <1>0, <1>1, <1>3, <2>1, RemovalIInv
<1> QED BY <1>2, <1>3 DEF DeleteNamespace

LEMMA TempStepIInv ==
    ASSUME IInv, CreateTemp \/ WriteTemp \/ SyncTemp
    PROVE  IInv'
<1>1. pc # "idle" /\ pc' # "idle"
  BY DEF CreateTemp, WriteTemp, SyncTemp, Goto
<1>2. UNCHANGED <<up, mem, call, before, file, settled, promised>>
  BY DEF CreateTemp, WriteTemp, SyncTemp, Goto
<1>3. temp' \in Files /\ TempHoldsMap'
  <2>1. CASE CreateTemp
    BY <2>1 DEF IInv, TypeOK, TempHoldsMap, CreateTemp, Goto, Files
  <2>2. CASE WriteTemp
    BY <2>2 DEF IInv, TypeOK, TempHoldsMap, WriteTemp, Goto, Files
  <2>3. CASE SyncTemp
    <3>1. temp \in Files /\ temp.bytes = mem
      BY <2>3 DEF IInv, TypeOK, TempHoldsMap, SyncTemp, Goto
    <3>2. temp' = [bytes |-> mem, synced |-> TRUE]
      BY <2>3, <3>1 DEF SyncTemp, Files
    <3> QED BY <2>3, <3>2 DEF IInv, TypeOK, TempHoldsMap, SyncTemp, Goto, Files, Whole
  <2> QED BY <2>1, <2>2, <2>3
<1>4. TypeOK'
  BY <1>2, <1>3 DEF IInv, TypeOK, CreateTemp, WriteTemp, SyncTemp, Goto
<1>5. InFlight' /\ FileIsWhole' /\ file'.synced
  BY <1>1, <1>2 DEF IInv, InFlight, FileIsWhole
<1>6. Claims' /\ Kept'
  BY <1>1, <1>2 DEF IInv, Claims, Kept, Seen
<1> QED BY <1>3, <1>4, <1>5, <1>6 DEF IInv

LEMMA RenameIInv ==
    ASSUME IInv, RenameTemp
    PROVE  IInv'
<1> USE ConstantsOK, UnsureIsNoValue
<1>1. /\ up /\ pc = "rename" /\ temp = Whole(mem)
      /\ mem \in Maps /\ before \in Maps /\ call \in Calls /\ Size(mem) <= MaxFileBytes
  BY DEF IInv, TypeOK, InFlight, TempHoldsMap, RenameTemp
<1>2. file'.bytes = mem /\ file'.synced /\ mem' = mem /\ Seen' = mem
  BY <1>1 DEF RenameTemp, Whole, Seen
<1>3. TypeOK'
  <2>1. call' \in Calls /\ temp' \in Files /\ file' \in Files
    BY <1>1 DEF RenameTemp, Calls, Ops, NoCall, Absent, Files, Whole
  <2>2. promised' \in [Entries -> Values \cup {Missing, Unsure}]
    BY <1>1 DEF IInv, TypeOK, RenameTemp, Promise, Calls
  <2> QED BY <2>1, <2>2, EmptyMapType DEF IInv, TypeOK, RenameTemp
<1>4. InFlight' /\ TempHoldsMap'
  BY <1>1 DEF RenameTemp, InFlight, TempHoldsMap
<1>5. FileIsWhole'
  BY <1>1, <1>2, TornIsNoMap DEF IInv, FileIsWhole, RenameTemp
<1>6. Claims'
  BY <1>2 DEF Claims
<1>7. \A e \in Entries : promised'[e] \in Values => mem.at[e] = promised'[e]
  <2> SUFFICES ASSUME NEW e \in Entries, promised'[e] \in Values
               PROVE  mem.at[e] = promised'[e]
    OBVIOUS
  <2>1. promised'[e] = IF e \in call.entries THEN call.value ELSE promised[e]
    BY DEF RenameTemp, Promise
  <2>2. CASE call.op = "set"
    <3>1. PICK d \in Entries, v \in Values :
             call.entries = {d} /\ call.value = v /\ mem = Insert(before, d, v)
      BY <1>1, <2>2 DEF IInv, InFlight
    <3>2. mem.at = [before.at EXCEPT ![d] = v]
      BY <1>1, <3>1, InsertType
    <3>3. e # d => before.at[e] = promised[e]
      BY <1>1, <2>1, <3>1 DEF IInv, Kept, Seen
    <3> QED BY <1>1, <2>1, <3>1, <3>2, <3>3 DEF Maps, Contents
  <2>3. CASE call.op = "delete"
    <3>1. call.value = Missing /\ mem.at = Erase(before, call.entries)
      BY <1>1, <2>3 DEF IInv, InFlight
    <3>2. e \notin call.entries
      BY <2>1, <3>1
    <3>3. before.at[e] = promised[e]
      BY <1>1, <2>1, <3>2 DEF IInv, Kept, Seen
    <3> QED BY <1>1, <2>1, <3>1, <3>2, <3>3, EraseAt
  <2> QED BY <1>1, <2>2, <2>3 DEF IInv, InFlight
<1>8. Kept'
  BY <1>2, <1>7 DEF Kept
<1> QED BY <1>2, <1>3, <1>4, <1>5, <1>6, <1>8 DEF IInv

LEMMA IoFailIInv ==
    ASSUME IInv, IoFail
    PROVE  IInv'
<1> USE ConstantsOK, UnsureIsNoValue
<1>1. /\ up /\ pc # "idle" /\ Seen = before
      /\ mem \in Maps /\ before \in Maps /\ call \in Calls
  BY DEF IInv, TypeOK, InFlight, IoFail, Seen
<1>2. mem' \in Maps /\ Seen' = mem'
      /\ \/ mem'.at = before.at /\ UNCHANGED promised
         \/ mem'.at = Erase(before, call.entries) /\ Promise(call.entries, Unsure)
  <2>1. CASE call.op = "set" /\ (\E e \in call.entries : mem' = Undo(mem, before, e))
                             /\ UNCHANGED promised
    <3>1. PICK d \in Entries, v \in Values :
             call.entries = {d} /\ call.value = v /\ mem = Insert(before, d, v)
      BY <1>1, <2>1 DEF IInv, InFlight
    <3>2. mem' = Undo(Insert(before, d, v), before, d)
      BY <2>1, <3>1
    <3> QED BY <1>1, <2>1, <3>2, UndoInsert DEF IoFail, Seen
  <2>2. CASE call.op = "delete" /\ UNCHANGED mem /\ Promise(call.entries, Unsure)
    BY <1>1, <2>2 DEF IInv, InFlight, IoFail, Seen
  <2> QED BY <2>1, <2>2 DEF IoFail
<1>3. TypeOK'
  <2>1. promised' \in [Entries -> Values \cup {Missing, Unsure}]
    BY <1>2 DEF IInv, TypeOK, Promise
  <2>2. call' \in Calls
    BY <1>1 DEF IoFail, NoCall, Calls, Ops
  <2> QED BY <1>2, <2>1, <2>2, EmptyMapType DEF IInv, TypeOK, IoFail, diskVars
<1>4. InFlight' /\ TempHoldsMap' /\ FileIsWhole' /\ file'.synced
  BY <1>1 DEF IInv, InFlight, TempHoldsMap, FileIsWhole, IoFail, diskVars
<1>5. \A e \in Entries : Erase(before, call.entries)[e] =
                            IF e \in call.entries THEN Missing ELSE before.at[e]
  BY <1>1, EraseAt
<1>6. Claims'
  BY <1>1, <1>2, <1>5 DEF IInv, Claims, IoFail, diskVars
<1>7. Kept'
  <2> SUFFICES ASSUME NEW e \in Entries, promised'[e] \in Values
               PROVE  file'.bytes.at[e] = promised'[e] /\ Seen'.at[e] = promised'[e]
    BY DEF Kept
  <2>1. promised'[e] = promised[e] /\ mem'.at[e] = before.at[e]
    BY <1>2, <1>5 DEF Promise
  <2> QED BY <1>1, <1>2, <2>1 DEF IInv, Kept, IoFail, diskVars
<1> QED BY <1>3, <1>4, <1>6, <1>7 DEF IInv

LEMMA StopIInv ==
    ASSUME IInv, Crash \/ PowerCut
    PROVE  IInv'
<1> USE ConstantsOK, UnsureIsNoValue
<1>1. Stop /\ call \in Calls
  BY DEF Crash, PowerCut, IInv, TypeOK
<1>2. /\ file' \in Files /\ temp' \in Files /\ settled' \in Maps \cup {Torn}
      /\ FileIsWhole' /\ file'.synced
  <2>1. CASE Crash
    BY <2>1 DEF Crash, IInv, TypeOK, FileIsWhole, diskVars
  <2>2. CASE PowerCut
    <3>1. PICK bytes \in {file.bytes, settled} : file' = Whole(bytes) /\ settled' = bytes
      BY <2>2 DEF PowerCut, IInv
    <3>2. bytes \in Maps \cup {Torn}
      BY DEF IInv, TypeOK, Files
    <3>3. file'.bytes = bytes /\ file'.synced
      BY <3>1 DEF Whole
    <3>4. FileIsWhole'
      BY <3>1, <3>3 DEF IInv, FileIsWhole
    <3> QED BY <2>2, <3>1, <3>2, <3>3, <3>4 DEF PowerCut, Files, Whole, Absent
  <2> QED BY <2>1, <2>2
<1>3. promised' \in [Entries -> Values \cup {Missing, Unsure}]
  BY DEF IInv, TypeOK, Promise, Crash, PowerCut
<1>4. TypeOK'
  BY <1>1, <1>2, <1>3, EmptyMapType
     DEF Stop, TypeOK, Calls, Ops, NoCall
<1>5. InFlight' /\ TempHoldsMap' /\ Claims'
  BY <1>1 DEF Stop, InFlight, TempHoldsMap, Claims
<1>6. Kept'
  <2>1. CASE Crash
    BY <2>1, <1>1 DEF Crash, Stop, Promise, IInv, Kept, diskVars
  <2>2. CASE PowerCut
    BY <2>2, <1>1 DEF PowerCut, Stop, Promise, Kept
  <2> QED BY <2>1, <2>2
<1> QED BY <1>2, <1>4, <1>5, <1>6 DEF IInv

LEMMA FlushIInv ==
    ASSUME IInv, Flush
    PROVE  IInv'
<1>1. settled' = file.bytes
  BY DEF Flush, IInv
<1>2. TypeOK' /\ FileIsWhole'
  BY <1>1 DEF Flush, IInv, TypeOK, FileIsWhole, Files
<1>3. InFlight' /\ TempHoldsMap' /\ file'.synced /\ Claims' /\ Kept'
  BY DEF Flush, IInv, InFlight, TempHoldsMap, Claims, Kept, Seen
<1> QED BY <1>2, <1>3 DEF IInv

LEMMA OpenIInv ==
    ASSUME IInv, Open
    PROVE  IInv'
<1>1. pc = "idle" /\ mem' = file.bytes /\ file.bytes \in Maps
  BY DEF Open, IInv, InFlight, TypeOK, Files
<1>2. TypeOK'
  BY <1>1 DEF Open, IInv, TypeOK, diskVars
<1>3. InFlight' /\ TempHoldsMap' /\ FileIsWhole' /\ file'.synced
  BY <1>1 DEF Open, IInv, InFlight, TempHoldsMap, FileIsWhole, diskVars
<1>4. Claims' /\ Kept'
  BY <1>1 DEF Open, IInv, Claims, Kept, Seen, diskVars
<1> QED BY <1>2, <1>3, <1>4 DEF IInv

LEMMA StepIInv == IInv /\ [Next]_vars => IInv'
<1> SUFFICES ASSUME IInv, [Next]_vars PROVE IInv'
  OBVIOUS
<1>1. CASE \E by \in Callers, e \in Entries, v \in Values : Set(by, e, v)
  BY <1>1, SetIInv
<1>2. CASE \E by \in Callers, e \in Entries : Delete(by, e)
  BY <1>2, DeleteIInv
<1>3. CASE \E n \in Namespaces : DeleteNamespace(n)
  BY <1>3, DeleteNamespaceIInv
<1>4. CASE CreateTemp \/ WriteTemp \/ SyncTemp
  BY <1>4, TempStepIInv
<1>5. CASE RenameTemp
  BY <1>5, RenameIInv
<1>6. CASE IoFail
  BY <1>6, IoFailIInv
<1>7. CASE Crash \/ PowerCut
  BY <1>7, StopIInv
<1>8. CASE Flush
  BY <1>8, FlushIInv
<1>9. CASE Open
  BY <1>9, OpenIInv
<1>10. CASE UNCHANGED vars
  BY <1>10 DEF vars, diskVars, IInv, TypeOK, InFlight, TempHoldsMap, FileIsWhole, Claims, Kept, Seen
<1> QED BY <1>1, <1>2, <1>3, <1>4, <1>5, <1>6, <1>7, <1>8, <1>9, <1>10 DEF Next

-----------------------------------------------------------------------------
(* The theorems *)

\* In every reachable state the inductive invariant holds.
THEOREM Invariance == Spec => []IInv
<1>1. Init => IInv
  BY InitIInv
<1>2. IInv /\ [Next]_vars => IInv'
  BY StepIInv
<1> QED BY <1>1, <1>2, PTL DEF Spec

\* Types, and no value in a namespace that the map dropped (state.rs, delete).
THEOREM TypeCorrect == Spec => []TypeOK
<1>1. IInv => TypeOK
  BY DEF IInv
<1> QED BY <1>1, Invariance, PTL

\* state.json is never torn and never over MAX_FILE_BYTES, whatever fails or
\* stops, and wherever it does (fsutil.rs, write_atomic; state.rs, persist).
THEOREM FileAlwaysWhole == Spec => []FileIsWhole
<1>1. IInv => FileIsWhole
  BY DEF IInv
<1> QED BY <1>1, Invariance, PTL

\* Between calls a value in memory is the value in the file (state.rs, set's undo).
THEOREM MemoryNeverOverclaims == Spec => []MemoryClaimsOnlyFile
<1>1. IInv => MemoryClaimsOnlyFile
  BY DEF IInv, Claims, Seen, MemoryClaimsOnlyFile, Free, Get
<1> QED BY <1>1, Invariance, PTL

\* A successful set survives every later failure and crash (state.rs, set).
THEOREM AckedSetsKept == Spec => []AckedSetIsDurable
<1>1. IInv => AckedSetIsDurable
  BY DEF IInv, Kept, Seen, AckedSetIsDurable, Free, Get
<1> QED BY <1>1, Invariance, PTL

-----------------------------------------------------------------------------
(* The store implements the durable map *)

\* What the refinement mapping shows of a state in which the invariant holds.
LEMMA MappedState ==
    ASSUME IInv
    PROVE  /\ At(file.bytes) = file.bytes.at /\ file.bytes \in Maps
           /\ At(settled) = settled.at /\ settled \in Maps
           /\ visibleMap = IF up THEN Seen.at ELSE file.bytes.at
           /\ ~up => pc = "idle"
           /\ mem \in Maps /\ before \in Maps
BY DEF IInv, TypeOK, FileIsWhole, InFlight, Files, At, visibleMap, Seen

LEMMA MappedNext ==
    ASSUME IInv
    PROVE  IInv' => /\ At(file.bytes)' = file'.bytes.at
                    /\ At(settled)' = settled'.at
                    /\ visibleMap' = IF up' THEN Seen'.at ELSE file'.bytes.at
BY DEF IInv, TypeOK, FileIsWhole, InFlight, Files, At, visibleMap, Seen

LEMMA StartRefines ==
    ASSUME IInv, IInv', NEW new, NEW c, Free, Persist(new, c)
    PROVE  UNCHANGED <<visibleMap, At(file.bytes), At(settled)>>
BY MappedState, MappedNext DEF Persist, Free, Seen, diskVars

LEMMA SetRefines ==
    ASSUME IInv, IInv', NEW by \in Callers, NEW e \in Entries, NEW v \in Values, Set(by, e, v)
    PROVE  UNCHANGED <<visibleMap, At(file.bytes), At(settled)>>
<1>1. CASE SetTooLarge(v)
  BY <1>1, MappedState, MappedNext DEF SetTooLarge, Seen, diskVars
<1>2. CASE SetFull(e, v)
  <2>1. mem'.at = mem.at
    BY <1>2, UndoInsert DEF SetFull, IInv, TypeOK
  <2> QED BY <1>2, <2>1, MappedState, MappedNext DEF SetFull, Set, Free, Seen, diskVars
<1>3. CASE SetStart(e, v)
  BY <1>3, StartRefines DEF SetStart, Set
<1> QED BY <1>1, <1>2, <1>3 DEF Set

\* A removal of stored entries: seen at once if it is refused, else at its end.
LEMMA RemovalRefines ==
    ASSUME IInv, IInv', Free, NEW es \in SUBSET Entries, NEW new,
           new.at = Erase(mem, es),
           DeleteFull(new, es) \/ DeleteStart(new, es)
    PROVE  \/ Durable!RemoveUnsaved(es)
           \/ UNCHANGED <<visibleMap, At(file.bytes), At(settled)>>
<1>1. CASE DeleteFull(new, es)
  <2>1. visibleMap = mem.at /\ visibleMap' = Erase(mem, es)
    BY <1>1, MappedState, MappedNext DEF DeleteFull, Free, Seen, IInv
  <2>2. UNCHANGED <<At(file.bytes), At(settled)>>
    BY <1>1, MappedState, MappedNext DEF DeleteFull, diskVars
  <2> QED BY <2>1, <2>2 DEF Durable!RemoveUnsaved, Durable!Erase, Erase
<1>2. CASE DeleteStart(new, es)
  BY <1>2, StartRefines DEF DeleteStart
<1> QED BY <1>1, <1>2

LEMMA DeleteNothingRefines ==
    ASSUME IInv, IInv', NEW es, DeleteNothing(es)
    PROVE  UNCHANGED <<visibleMap, At(file.bytes), At(settled)>>
BY MappedState, MappedNext DEF DeleteNothing, Seen, diskVars

LEMMA RenameRefines ==
    ASSUME IInv, IInv', RenameTemp
    PROVE  \/ \E e \in Entries, v \in Values : Durable!Put(e, v)
           \/ \E gone \in SUBSET Entries : Durable!Remove(gone)
<1>1. up /\ pc = "rename" /\ temp = Whole(mem) /\ call \in Calls /\ before \in Maps
  BY DEF RenameTemp, IInv, InFlight, TempHoldsMap, TypeOK
<1>2. /\ visibleMap = before.at /\ visibleMap' = mem.at
      /\ At(file.bytes)' = mem.at
      /\ At(settled)' = At(settled)
  BY <1>1, MappedState, MappedNext DEF RenameTemp, Whole, Seen
<1>3. CASE call.op = "set"
  <2>1. PICK d \in Entries, v \in Values : mem = Insert(before, d, v)
    BY <1>1, <1>3 DEF IInv, InFlight
  <2>2. mem.at = [before.at EXCEPT ![d] = v]
    BY <1>1, <2>1, InsertType
  <2> QED BY <1>2, <2>2 DEF Durable!Put
<1>4. CASE call.op = "delete"
  <2>1. mem.at = Erase(before, call.entries) /\ call.entries \in SUBSET Entries
    BY <1>1, <1>4 DEF IInv, InFlight, Calls
  <2>2. Durable!Remove(call.entries)
    BY <1>2, <2>1 DEF Durable!Remove, Durable!Erase, Erase
  <2> QED BY <2>1, <2>2
<1> QED BY <1>1, <1>3, <1>4 DEF IInv, InFlight

LEMMA IoFailRefines ==
    ASSUME IInv, IInv', IoFail
    PROVE  \/ \E gone \in SUBSET Entries : Durable!RemoveUnsaved(gone)
           \/ UNCHANGED <<visibleMap, At(file.bytes), At(settled)>>
<1>1. /\ up /\ pc # "idle" /\ mem \in Maps /\ before \in Maps /\ call \in Calls
      /\ visibleMap = before.at /\ visibleMap' = mem'.at
      /\ UNCHANGED <<At(file.bytes), At(settled)>>
  BY MappedState, MappedNext DEF IInv, InFlight, TypeOK, IoFail, Seen, diskVars
<1>2. CASE call.op = "set" /\ \E e \in call.entries : mem' = Undo(mem, before, e)
  <2>1. PICK d \in Entries, v \in Values :
           call.entries = {d} /\ mem = Insert(before, d, v)
    BY <1>1, <1>2 DEF IInv, InFlight
  <2>2. mem'.at = before.at
    BY <1>1, <1>2, <2>1, UndoInsert
  <2> QED BY <1>1, <2>2
<1>3. CASE call.op = "delete" /\ UNCHANGED mem
  <2>1. mem.at = Erase(before, call.entries) /\ call.entries \in SUBSET Entries
    BY <1>1, <1>3 DEF IInv, InFlight, Calls
  <2>2. Durable!RemoveUnsaved(call.entries)
    BY <1>1, <1>3, <2>1 DEF Durable!RemoveUnsaved, Durable!Erase, Erase
  <2> QED BY <2>1, <2>2
<1> QED BY <1>2, <1>3 DEF IoFail

LEMMA StepRefines ==
    ASSUME IInv, IInv', [Next]_vars
    PROVE  [Durable!MapNext]_(Durable!mapVars)
<1> DEFINE Stutter == UNCHANGED <<visibleMap, At(file.bytes), At(settled)>>
<1>0. Stutter => UNCHANGED Durable!mapVars
  BY DEF Durable!mapVars
<1>1. CASE \E by \in Callers, e \in Entries, v \in Values : Set(by, e, v)
  BY <1>0, <1>1, SetRefines
<1>2. CASE \E by \in Callers, e \in Entries : Delete(by, e)
  <2>1. PICK by \in Callers, e \in Entries : Delete(by, e)
    BY <1>2
  <2>2. Free /\ WithoutKey(mem, e).at = Erase(mem, {e})
    BY <2>1, WithoutKeyType DEF Delete, IInv, TypeOK
  <2>3. Stutter \/ Durable!RemoveUnsaved({e})
    BY <2>1, <2>2, RemovalRefines, DeleteNothingRefines DEF Delete
  <2> QED BY <1>0, <2>3 DEF Durable!MapNext
<1>3. CASE \E n \in Namespaces : DeleteNamespace(n)
  <2>1. PICK n \in Namespaces : DeleteNamespace(n)
    BY <1>3
  <2> DEFINE es == Of(n)
  <2>2. es \in SUBSET Entries
    BY DEF Of
  <2>3. Free /\ WithoutNamespace(mem, n).at = Erase(mem, es)
    BY <2>1, WithoutNamespaceType DEF DeleteNamespace, IInv, TypeOK
  <2>4. Stutter \/ Durable!RemoveUnsaved(es)
    BY <2>1, <2>2, <2>3, RemovalRefines, DeleteNothingRefines DEF DeleteNamespace
  <2> QED BY <1>0, <2>2, <2>4 DEF Durable!MapNext
<1>4. CASE CreateTemp \/ WriteTemp \/ SyncTemp
  <2>1. pc # "idle" /\ pc' # "idle" /\ UNCHANGED <<up, before, file, settled>>
    BY <1>4 DEF CreateTemp, WriteTemp, SyncTemp, Goto
  <2> QED BY <1>0, <2>1, MappedState, MappedNext DEF Seen
<1>5. CASE RenameTemp
  BY <1>5, RenameRefines DEF Durable!MapNext
<1>6. CASE IoFail
  BY <1>0, <1>6, IoFailRefines DEF Durable!MapNext
<1>7. CASE Crash
  <2>1. Durable!Restart
    BY <1>7, MappedState, MappedNext DEF Crash, Stop, diskVars, Durable!Restart
  <2> QED BY <2>1 DEF Durable!MapNext
<1>8. CASE PowerCut
  <2>1. PICK bytes \in {file.bytes, settled} : file' = Whole(bytes) /\ settled' = bytes
    BY <1>8 DEF PowerCut, IInv
  <2>2. /\ At(file.bytes)' = bytes.at /\ At(settled)' = bytes.at /\ visibleMap' = bytes.at
    BY <1>8, <2>1, MappedNext DEF PowerCut, Stop, Whole
  <2>3. bytes.at \in {At(file.bytes), At(settled)}
    BY MappedState
  <2>4. Durable!PowerLoss
    BY <2>2, <2>3 DEF Durable!PowerLoss
  <2> QED BY <2>4 DEF Durable!MapNext
<1>9. CASE Flush
  <2>1. Durable!Settle
    BY <1>9, MappedState, MappedNext DEF Flush, IInv, Seen, Durable!Settle
  <2> QED BY <2>1 DEF Durable!MapNext
<1>10. CASE Open
  BY <1>0, <1>10, MappedState, MappedNext DEF Open, Seen, diskVars
<1>11. CASE UNCHANGED vars
  BY <1>0, <1>11, MappedState, MappedNext DEF vars, Seen
<1> QED BY <1>1, <1>2, <1>3, <1>4, <1>5, <1>6, <1>7, <1>8, <1>9, <1>10, <1>11 DEF Next

\* Readers and restarts see one map that each acknowledged call changes at one
\* instant; a removal that reports an error may hide entries until the next
\* successful write or restart settles them, and nothing else is ever half done
\* (state.rs, StateStore, over fsutil.rs).
THEOREM Refinement == Spec => ImplementsDurableMap
<1>1. Init => Durable!MapInit
  <2> SUFFICES ASSUME Init PROVE Durable!MapInit
    OBVIOUS
  <2>1. IInv
    BY InitIInv
  <2>2. visibleMap = EmptyMap.at /\ At(file.bytes) = EmptyMap.at /\ At(settled) = EmptyMap.at
    BY <2>1, MappedState DEF Init, Whole, Seen
  <2>3. EmptyMap.at \in Durable!Contents
    BY EmptyMapType DEF Maps, Contents, Durable!Contents
  <2> QED BY <2>2, <2>3 DEF Durable!MapInit
<1>2. IInv /\ IInv' /\ [Next]_vars => [Durable!MapNext]_(Durable!mapVars)
  BY StepRefines
<1> QED BY <1>1, <1>2, Invariance, PTL DEF Spec, ImplementsDurableMap, Durable!MapSpec

=============================================================================
