------------------------------ MODULE LogFile ------------------------------
(***************************************************************************)
(* The rotating log file of vrcnext-bridge (logfile.rs).  append runs      *)
(* under a mutex from the size check to the count, so one batch is in      *)
(* flight at a time; the renaming and reopening of a rotation and the      *)
(* write are separate steps, each of which may fail, and the daemon may be *)
(* killed between them and started again.                                  *)
(*                                                                         *)
(* A batch is known by its number, in the order the batches came in.  Its  *)
(* lines are in a file whole, or some of their bytes are (a write that     *)
(* failed half-way), which count in the file's length and are otherwise    *)
(* not told apart.  MaxBatches bounds the batches.                         *)
(***************************************************************************)
EXTENDS Integers, FiniteSets

CONSTANTS
    Sizes,       \* bytes a batch may take
    MaxBytes,    \* max_bytes
    MaxBatches,
    Faults,      \* the steps that may fail: "rename", "reopen", "write"
    None

\* A file: the batches in it, the bytes of those, and its length.
Files == [batches : SUBSET Nat, whole : Nat, len : Nat]
Empty == [batches |-> {}, whole |-> 0, len |-> 0]

ASSUME ConstantsOK ==
    /\ Sizes \subseteq Nat \ {0}
    /\ MaxBytes \in Nat /\ MaxBatches \in Nat
    /\ None \notin Files

VARIABLES
    pc,         \* where append is; "idle" when the lock is free, "down" without a daemon
    number,     \* the batches that came in so far; the last one is the one in flight
    size,       \* bytes of the batch in flight
    current,    \* the file at path
    previous,   \* the file at path with the extension log.1
    handle,     \* the file that State.file is open on
    bytes,      \* State.bytes
    acked       \* history: the batches append answered Ok for

vars == <<pc, number, size, current, previous, handle, bytes, acked>>
fileVars == <<current, previous, handle, bytes>>

Goto(from, to) == pc = from /\ pc' = to

\* Variant: what the batch adds is not looked at.
TooLongAlready == bytes > MaxBytes

TooLong(n) == bytes + n > MaxBytes

Init ==
    /\ pc = "down"
    /\ number = 0 /\ size = 0
    /\ current = None /\ previous = None
    /\ handle = "none"
    /\ bytes = 0
    /\ acked = {}

-----------------------------------------------------------------------------
(* append *)

\* Variant of Append.
AppendLate ==
    /\ number < MaxBatches
    /\ number' = number + 1
    /\ size' \in Sizes
    /\ Goto("idle", IF TooLongAlready THEN "rename" ELSE "write")
    /\ UNCHANGED <<fileVars, acked>>

\* The lock is taken and the size checked.
Append ==
    /\ number < MaxBatches
    /\ number' = number + 1
    /\ size' \in Sizes
    /\ Goto("idle", IF TooLong(size') THEN "rename" ELSE "write")
    /\ UNCHANGED <<fileVars, acked>>

\* The open handle follows the file to its new name.
Rename ==
    /\ Goto("rename", "reopen")
    /\ current # None
    /\ previous' = current
    /\ current' = None
    /\ handle' = "previous"
    /\ UNCHANGED <<number, size, bytes, acked>>

Reopen ==
    /\ Goto("reopen", "write")
    /\ current' = Empty
    /\ handle' = "current"
    /\ bytes' = 0
    /\ UNCHANGED <<number, size, previous, acked>>

\* append returns the error of rotate.  There is nothing to rename if an earlier
\* rotation got no further than its rename.
RotateFails ==
    /\ \/ Goto("rename", "idle") /\ ("rename" \in Faults \/ current = None)
       \/ Goto("reopen", "idle") /\ "reopen" \in Faults
    /\ UNCHANGED <<number, size, fileVars, acked>>

\* The file the handle is open on, and that file with more in it.
Open == IF handle = "current" THEN current ELSE previous
Extend(file) ==
    IF handle = "current"
    THEN current' = file /\ UNCHANGED previous
    ELSE previous' = file /\ UNCHANGED current

\* write_all and flush, then the count.
Write ==
    /\ Goto("write", "idle")
    /\ Extend([batches |-> Open.batches \cup {number},
               whole |-> Open.whole + size, len |-> Open.len + size])
    /\ bytes' = bytes + size
    /\ acked' = acked \cup {number}
    /\ UNCHANGED <<number, size, handle>>

\* Some of the bytes are in the file; none are counted.
WriteFails ==
    /\ Goto("write", "idle")
    /\ "write" \in Faults
    /\ \E n \in 0..(size - 1) : Extend([Open EXCEPT !.len = @ + n])
    /\ UNCHANGED <<number, size, handle, bytes, acked>>

-----------------------------------------------------------------------------
(* Stopping and starting *)

Kill ==
    /\ pc # "down" /\ pc' = "down"
    /\ handle' = "none"
    /\ bytes' = 0
    /\ UNCHANGED <<number, size, current, previous, acked>>

\* Variant: File::create
StartTruncating ==
    /\ Goto("down", "idle")
    /\ current' = Empty
    /\ handle' = "current"
    /\ bytes' = 0
    /\ UNCHANGED <<number, size, previous, acked>>

\* FileLogWriter::open
Start ==
    /\ Goto("down", "idle")
    /\ current' = IF current = None THEN Empty ELSE current
    /\ handle' = "current"
    /\ bytes' = current'.len
    /\ UNCHANGED <<number, size, previous, acked>>

Next ==
    \/ Append \/ Rename \/ Reopen \/ RotateFails \/ Write \/ WriteFails
    \/ Kill \/ Start

Spec == Init /\ [][Next]_vars

-----------------------------------------------------------------------------
(* Properties *)

FilesKept == {current, previous} \ {None}
Kept == UNION {f.batches : f \in FilesKept}

(***************************************************************************)
(* Types; the file the writer has open is there.                           *)
(***************************************************************************)
TypeOK ==
    /\ pc \in {"down", "idle", "rename", "reopen", "write"}
    /\ number \in Nat
    /\ size \in Nat
    /\ current \in Files \cup {None}
    /\ previous \in Files \cup {None}
    /\ handle \in {"none", "current", "previous"}
    /\ bytes \in Nat
    /\ acked \subseteq 1..number
    /\ pc = "down" <=> handle = "none"
    /\ handle # "none" => Open # None

(***************************************************************************)
(* Only the oldest lines go: a batch that was accepted is in the files as  *)
(* long as any accepted before it is, whatever fails during rotations and  *)
(* wherever the daemon is killed (logfile.rs, rotate: "One generation is   *)
(* kept").                                                                 *)
(***************************************************************************)
OnlyOldestGo ==
    \A i, j \in acked : i < j /\ i \in Kept => j \in Kept

(***************************************************************************)
(* Reading the previous file and then the current one gives the batches in *)
(* the order they came in, each once.                                      *)
(***************************************************************************)
InOrder ==
    current # None /\ previous # None =>
        \A i \in previous.batches, j \in current.batches : i < j

(***************************************************************************)
(* The count that decides on a rotation, and that logs/info reports, is    *)
(* that of the file being written: it is no less than its whole lines and  *)
(* no more than its length.                                                *)
(***************************************************************************)
CountIsTrue ==
    handle # "none" => Open.whole <= bytes /\ bytes <= Open.len

(***************************************************************************)
(* Neither file grows past max_bytes, but for one batch that is longer     *)
(* than that by itself and for what failed writes left.                    *)
(***************************************************************************)
SizeBounded ==
    \A f \in FilesKept : f.whole <= MaxBytes \/ \E i \in 1..number : f.batches = {i}

=============================================================================
