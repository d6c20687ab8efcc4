----------------------------- MODULE StateStore -----------------------------
(***************************************************************************)
(* The key-value store of vrcnext-bridge-plugins (state.rs) over the       *)
(* atomic file replacement of fsutil.rs.                                   *)
(*                                                                         *)
(* A writer holds the one lock from the moment it changes the map until    *)
(* the file has been replaced or the attempt has failed, so at most one    *)
(* call is in flight; the threads that wait for the lock have no state of  *)
(* their own and a call starts here when it gets the lock.  The steps of   *)
(* write_atomic (create, write, sync, rename) are separate actions, and    *)
(* each may fail; the process may be killed, or the machine lose power,    *)
(* between any two of them.                                                *)
(***************************************************************************)
EXTENDS Integers, FiniteSets, FiniteSetsExt

CONSTANTS
    Namespaces,
    Entries,        \* the places in them: pairs of a namespace and a key
    Values,
    Missing,        \* no value under a key (Option::None)
    Torn,           \* a file whose bytes are not a whole map
    Reserved,       \* the namespaces that start with "bridge."
    NsBytes,        \* bytes an empty namespace takes in the file
    Bytes,          \* bytes an entry with this value takes in the file
    MaxValueBytes,
    MaxFileBytes

ASSUME ConstantsOK ==
    /\ \A e \in Entries : e[1] \in Namespaces
    /\ Reserved \subseteq Namespaces
    /\ Missing \notin Values
    /\ NsBytes \in Nat
    /\ Bytes \in [Values -> Nat]
    /\ MaxValueBytes \in Nat
    /\ MaxFileBytes \in Nat

\* The entries of a namespace.
Of(n) == {e \in Entries : e[1] = n}

Contents == [Entries -> Values \cup {Missing}]

(***************************************************************************)
(* The map of maps: the namespaces it has a map for, and the value under   *)
(* each key.  A value is in a namespace that is present; a namespace may   *)
(* be present with no value in it.                                         *)
(***************************************************************************)
Maps == {m \in [ns : SUBSET Namespaces, at : Contents] :
            \A e \in Entries : m.at[e] # Missing => e[1] \in m.ns}
EmptyMap == [ns |-> {}, at |-> [e \in Entries |-> Missing]]

ASSUME TornIsNoMap == Torn \notin Maps

Stored(m) == {e \in Entries : m.at[e] # Missing}

\* The length of the serialised map.
Size(m) ==
    NsBytes * Cardinality(m.ns) + MapThenSumSet(LAMBDA e : Bytes[m.at[e]], Stored(m))

\* The empty map is two bytes long in the file.
ASSUME EmptyMapFits == Size(EmptyMap) <= MaxFileBytes

Insert(m, e, v) == [ns |-> m.ns \cup {e[1]}, at |-> [m.at EXCEPT ![e] = v]]

\* What set leaves of m when the write fails: the key has its old value
\* again, but the namespace that entry().or_default() created stays.
Undo(m, old, e) == [ns |-> m.ns \cup {e[1]}, at |-> [m.at EXCEPT ![e] = old.at[e]]]

Erase(m, gone) == [e \in Entries |-> IF e \in gone THEN Missing ELSE m.at[e]]

\* Variant: the namespace goes with any of its keys.
WithoutKeyOrSiblings(m, e) == [ns |-> m.ns \ {e[1]}, at |-> Erase(m, Of(e[1]))]

WithoutKey(m, e) ==
    LET left == Erase(m, {e})
    IN  [ns |-> IF \A d \in Of(e[1]) : left[d] = Missing THEN m.ns \ {e[1]} ELSE m.ns,
         at |-> left]

WithoutNamespace(m, n) == [ns |-> m.ns \ {n}, at |-> Erase(m, Of(n))]

VARIABLES
    up,        \* whether a daemon is running
    mem,       \* StateStore.inner
    pc,        \* where in persist the lock holder is; "idle" when the lock is free
    call,      \* the lock holder's operation
    before,    \* the map as the call in flight found it
    file,      \* state.json: its bytes, and whether they were synced
    temp,      \* state.json.tmp, likewise
    settled,   \* the state.json a power cut can bring back
    promised   \* history: what the answers given so far say is stored

vars == <<up, mem, pc, call, before, file, temp, settled, promised>>
diskVars == <<file, temp, settled>>

Absent == [bytes |-> Torn, synced |-> TRUE]   \* no temp file, or one never read
Files == [bytes : Maps \cup {Torn}, synced : BOOLEAN]
Whole(m) == [bytes |-> m, synced |-> TRUE]

Ops == {"none", "set", "delete"}
Calls == [op : Ops, entries : SUBSET Entries, value : Values \cup {Missing}]
NoCall == [op |-> "none", entries |-> {}, value |-> Missing]

Unsure == "unsure"   \* no answer says whether the entry is stored
ASSUME UnsureIsNoValue == Unsure \notin Values \cup {Missing}

\* history: the entries es now hold x, or are unsure
Promise(es, x) == promised' = [e \in Entries |-> IF e \in es THEN x ELSE promised[e]]

Free == up /\ pc = "idle"

\* get, between calls: the value, or Missing where the namespace or key is absent.
Get(e) == mem.at[e]

Callers == {"page", "bridge"}

\* StateService::check_ns: the page may not name the bridge's namespaces.
MayName(by, n) == by = "page" => n \notin Reserved

Init ==
    /\ up = TRUE
    /\ mem = EmptyMap
    /\ pc = "idle"
    /\ call = NoCall
    /\ before = EmptyMap
    /\ file = Whole(EmptyMap)
    /\ temp = Absent
    /\ settled = EmptyMap
    /\ promised = [e \in Entries |-> Missing]

-----------------------------------------------------------------------------
(* Taking the lock *)

\* Enter write_atomic with the map new.
Persist(new, c) ==
    /\ Size(new) <= MaxFileBytes
    /\ mem' = new
    /\ pc' = "create"
    /\ call' = c
    /\ before' = mem
    /\ UNCHANGED <<up, promised>> /\ UNCHANGED diskVars

SetTooLarge(v) ==
    /\ Bytes[v] > MaxValueBytes
    /\ UNCHANGED <<up, mem, pc, call, before, promised>> /\ UNCHANGED diskVars

SetFull(e, v) ==
    /\ Bytes[v] <= MaxValueBytes
    /\ Size(Insert(mem, e, v)) > MaxFileBytes
    /\ mem' = Undo(Insert(mem, e, v), mem, e)
    /\ UNCHANGED <<up, pc, call, before, promised>> /\ UNCHANGED diskVars

SetStart(e, v) ==
    /\ Bytes[v] <= MaxValueBytes
    /\ Persist(Insert(mem, e, v), [op |-> "set", entries |-> {e}, value |-> v])

Set(by, e, v) ==
    /\ Free
    /\ MayName(by, e[1])
    /\ SetTooLarge(v) \/ SetFull(e, v) \/ SetStart(e, v)

\* Nothing is stored at es: the call returns at once, without a write.
DeleteNothing(es) ==
    /\ Promise(es, Missing)
    /\ UNCHANGED <<up, mem, pc, call, before>> /\ UNCHANGED diskVars

\* persist refuses before it writes; the map keeps the removal.
DeleteFull(new, es) ==
    /\ Size(new) > MaxFileBytes
    /\ mem' = new
    /\ Promise(es, Unsure)
    /\ UNCHANGED <<up, pc, call, before>> /\ UNCHANGED diskVars

DeleteStart(new, es) ==
    Persist(new, [op |-> "delete", entries |-> es, value |-> Missing])

Delete(by, e) ==
    /\ Free
    /\ MayName(by, e[1])
    /\ IF e[1] \notin mem.ns \/ mem.at[e] = Missing
       THEN DeleteNothing({e})
       ELSE DeleteFull(WithoutKey(mem, e), {e}) \/ DeleteStart(WithoutKey(mem, e), {e})

\* Only the bridge calls it, when a plugin is uninstalled.
DeleteNamespace(n) ==
    LET es == Of(n) IN
    /\ Free
    /\ IF n \notin mem.ns
       THEN DeleteNothing(es)
       ELSE DeleteFull(WithoutNamespace(mem, n), es) \/ DeleteStart(WithoutNamespace(mem, n), es)

-----------------------------------------------------------------------------
(* write_atomic, under the lock *)

Goto(from, to) ==
    /\ pc = from
    /\ pc' = to
    /\ UNCHANGED <<up, mem, call, before, file, settled, promised>>

\* open_private truncates whatever an earlier attempt left.
CreateTemp ==
    /\ Goto("create", "write")
    /\ temp' = [bytes |-> Torn, synced |-> FALSE]

WriteTemp ==
    /\ Goto("write", "sync")
    /\ temp' = [bytes |-> mem, synced |-> FALSE]

SyncTemp ==
    /\ Goto("sync", "rename")
    /\ temp' = [temp EXCEPT !.synced = TRUE]

\* The file is replaced and the call returns.
RenameTemp ==
    /\ pc = "rename"
    /\ file' = temp
    /\ temp' = Absent
    /\ pc' = "idle"
    /\ call' = NoCall
    /\ Promise(call.entries, call.value)
    /\ before' = EmptyMap
    /\ UNCHANGED <<up, mem, settled>>

\* Any of the four steps may fail.  Only set restores the map.
IoFail ==
    /\ pc # "idle"
    /\ pc' = "idle"
    /\ call' = NoCall
    /\ \/ /\ call.op = "set"
          /\ \E e \in call.entries : mem' = Undo(mem, before, e)
          /\ UNCHANGED promised
       \/ /\ call.op = "delete"
          /\ UNCHANGED mem
          /\ Promise(call.entries, Unsure)
    /\ before' = EmptyMap
    /\ UNCHANGED up /\ UNCHANGED diskVars

-----------------------------------------------------------------------------
(* Stopping and starting *)

Stop ==
    /\ up
    /\ up' = FALSE
    /\ mem' = EmptyMap
    /\ pc' = "idle"
    /\ call' = NoCall
    /\ before' = EmptyMap

\* The process is killed; what it handed to the file system stays.
Crash ==
    /\ Stop
    /\ Promise(call.entries, Unsure)
    /\ UNCHANGED diskVars

\* The file system makes the current state.json permanent in its own time.
Flush ==
    /\ settled # file.bytes
    /\ settled' \in IF file.synced THEN {file.bytes} ELSE {file.bytes, Torn}
    /\ UNCHANGED <<up, mem, pc, call, before, file, temp, promised>>

\* The rename may be lost, and bytes that were never synced may be torn.
PowerCut ==
    /\ Stop
    /\ \E bytes \in {IF file.synced THEN file.bytes ELSE Torn, settled} :
          file' = Whole(bytes) /\ settled' = bytes
    /\ temp' = Absent
    /\ Promise(Entries, Unsure)

\* Variant: a temp file that is whole is taken for the newer map.
OpenNewer ==
    /\ ~up
    /\ file.bytes # Torn
    /\ up' = TRUE
    /\ mem' = IF temp.bytes # Torn THEN temp.bytes ELSE file.bytes
    /\ UNCHANGED <<pc, call, before, promised>> /\ UNCHANGED diskVars

\* StateStore::open; a file that does not parse keeps the daemon down.
Open ==
    /\ ~up
    /\ file.bytes # Torn
    /\ up' = TRUE
    /\ mem' = file.bytes
    /\ UNCHANGED <<pc, call, before, promised>> /\ UNCHANGED diskVars

Next ==
    \/ \E by \in Callers, e \in Entries, v \in Values : Set(by, e, v)
    \/ \E by \in Callers, e \in Entries : Delete(by, e)
    \/ \E n \in Namespaces : DeleteNamespace(n)
    \/ CreateTemp \/ WriteTemp \/ SyncTemp \/ RenameTemp \/ IoFail
    \/ Crash \/ Flush \/ PowerCut \/ Open

Spec == Init /\ [][Next]_vars

-----------------------------------------------------------------------------
(* Properties *)

(***************************************************************************)
(* Types; in particular no value is ever in a namespace the map dropped,   *)
(* which delete's clean-up of empty namespaces could break.                *)
(***************************************************************************)
TypeOK ==
    /\ up \in BOOLEAN
    /\ mem \in Maps
    /\ pc \in {"idle", "create", "write", "sync", "rename"}
    /\ call \in Calls
    /\ before \in Maps
    /\ file \in Files
    /\ temp \in Files
    /\ settled \in Maps \cup {Torn}
    /\ promised \in [Entries -> Values \cup {Missing, Unsure}]

(***************************************************************************)
(* A crash or a power cut at any point leaves a state.json that parses and *)
(* is within MAX_FILE_BYTES: fsutil.rs syncs the temp file before the      *)
(* rename, and persist checks the length before it writes.                 *)
(***************************************************************************)
FileIsWhole ==
    \A bytes \in {file.bytes, settled} : bytes # Torn /\ Size(bytes) <= MaxFileBytes

(***************************************************************************)
(* Between calls, memory never claims a value the file does not hold       *)
(* (state.rs, the comment on set's undo): whatever a reader gets, the next *)
(* daemon would read too.                                                  *)
(***************************************************************************)
MemoryClaimsOnlyFile ==
    Free => \A e \in Entries : Get(e) # Missing => file.bytes.at[e] = Get(e)

(***************************************************************************)
(* A set that returned success is in the file, and stays readable, until a *)
(* later call on the same entry succeeds or a removal of it is attempted;  *)
(* other calls, failed or not, and crashes do not lose it.                 *)
(***************************************************************************)
AckedSetIsDurable ==
    \A e \in Entries : promised[e] \in Values =>
        /\ file.bytes.at[e] = promised[e]
        /\ Free => Get(e) = promised[e]

(***************************************************************************)
(* state.rs, StateStore: the map is "mirrored to state.json on every       *)
(* write".  A removal that was acknowledged is a removal from the file.    *)
(***************************************************************************)
AckedDeleteIsDurable ==
    \A e \in Entries : promised[e] = Missing => file.bytes.at[e] = Missing

(***************************************************************************)
(* The store implements the durable map: readers see the map before the    *)
(* call until the rename, and a daemon that is down is one that has        *)
(* already restarted from the file.                                        *)
(***************************************************************************)
At(bytes) == IF bytes = Torn THEN EmptyMap.at ELSE bytes.at

visibleMap == IF ~up THEN At(file.bytes) ELSE IF pc = "idle" THEN mem.at ELSE before.at

Durable == INSTANCE DurableMap WITH
    visible <- visibleMap, durable <- At(file.bytes), settled <- At(settled)

ImplementsDurableMap == Durable!MapSpec

=============================================================================
