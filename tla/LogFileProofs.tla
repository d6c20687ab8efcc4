--------------------------- MODULE LogFileProofs ----------------------------
(***************************************************************************)
(* Proofs about LogFile, for any sizes of batches, limit and set of        *)
(* faults.  The invariant adds to the properties what the steps of append  *)
(* rely on: the files hold no batch that is still to be written, the       *)
(* writer is on the file at path unless a rotation stopped half-way, and   *)
(* it writes a batch that is too long only to a file that has none.        *)
(***************************************************************************)
EXTENDS LogFile, TLAPS

\* The numbers of the batches in the files.
Numbered ==
    \A i \in Kept : i <= number /\ (pc \in {"rename", "reopen", "write"} => i < number)

\* Where the handle is.
OnPath ==
    /\ handle = "current" => current # None
    /\ handle = "previous" => current = None
    /\ pc = "reopen" => handle = "previous"
    /\ pc \in {"rename", "reopen", "write"} => number \in 1..number

WholeFits == \A f \in FilesKept : f.whole <= f.len

\* What is about to be written fits, or is alone.
RoomToWrite ==
    pc = "write" => ~TooLong(size) \/ Open.batches = {}

IInv ==
    /\ TypeOK /\ OnlyOldestGo /\ InOrder /\ CountIsTrue /\ SizeBounded
    /\ Numbered /\ OnPath /\ WholeFits /\ RoomToWrite

-----------------------------------------------------------------------------

LEMMA EmptyType == Empty \in Files /\ Empty # None
<1>1. Empty \in Files
  BY DEF Empty, Files
<1> QED BY <1>1, ConstantsOK

LEMMA InitIInv == Init => IInv
<1> SUFFICES ASSUME Init PROVE IInv
  OBVIOUS
<1>1. FilesKept = {} /\ Kept = {}
  BY DEF Init, FilesKept, Kept
<1> QED
  BY <1>1 DEF Init, IInv, TypeOK, OnlyOldestGo, InOrder, CountIsTrue, SizeBounded,
              Numbered, OnPath, WholeFits, RoomToWrite

-----------------------------------------------------------------------------
(* Steps that leave the files alone *)

LEMMA AppendIInv ==
    ASSUME IInv, Append
    PROVE  IInv'
<1> USE ConstantsOK
<1>1. Kept' = Kept /\ FilesKept' = FilesKept /\ Open' = Open
  BY DEF Append, fileVars, Kept, FilesKept, Open
<1>2. number \in Nat /\ number' = number + 1 /\ size' \in Nat
  BY DEF Append, IInv, TypeOK
<1>3. TypeOK'
  <2>1. acked' \subseteq 1..number'
    BY <1>2 DEF Append, IInv, TypeOK
  <2> QED BY <1>1, <1>2, <2>1 DEF Append, Goto, fileVars, IInv, TypeOK
<1>4. OnlyOldestGo' /\ InOrder' /\ CountIsTrue' /\ WholeFits'
  BY <1>1 DEF Append, fileVars, IInv, OnlyOldestGo, InOrder, CountIsTrue, WholeFits
<1>5. SizeBounded'
  BY <1>1, <1>2 DEF Append, IInv, SizeBounded
<1>6. Numbered'
  <2>1. \A i \in Kept : i \in Nat /\ i <= number
    BY DEF IInv, Numbered, TypeOK, Kept, FilesKept, Files
  <2> QED BY <1>1, <1>2, <2>1 DEF Numbered
<1>7. OnPath' /\ RoomToWrite'
  <2>1. number' \in 1..number'
    BY <1>2
  <2>2. OnPath'
    BY <1>2, <2>1 DEF Append, Goto, fileVars, IInv, TypeOK, OnPath
  <2>3. RoomToWrite'
    <3>1. pc' = IF TooLong(size') THEN "rename" ELSE "write"
      BY DEF Append, Goto
    <3>2. bytes' = bytes
      BY DEF Append, fileVars
    <3> QED BY <3>1, <3>2 DEF RoomToWrite, TooLong
  <2> QED BY <2>2, <2>3
<1> QED BY <1>3, <1>4, <1>5, <1>6, <1>7 DEF IInv

LEMMA RotateFailsIInv ==
    ASSUME IInv, RotateFails
    PROVE  IInv'
<1>1. Kept' = Kept /\ FilesKept' = FilesKept /\ Open' = Open
  BY DEF RotateFails, fileVars, Kept, FilesKept, Open
<1>2. TypeOK'
  <2>1. number \in 1..number
    BY DEF RotateFails, Goto, IInv, OnPath
  <2> QED BY <1>1, <2>1 DEF RotateFails, Goto, fileVars, IInv, TypeOK
<1>3. OnlyOldestGo' /\ InOrder' /\ CountIsTrue' /\ WholeFits' /\ SizeBounded'
  BY <1>1 DEF RotateFails, fileVars, IInv, OnlyOldestGo, InOrder, CountIsTrue, WholeFits,
              SizeBounded
<1>4. Numbered' /\ OnPath' /\ RoomToWrite'
  BY <1>1 DEF RotateFails, Goto, fileVars, IInv, Numbered, OnPath, RoomToWrite
<1> QED BY <1>2, <1>3, <1>4 DEF IInv

LEMMA KillIInv ==
    ASSUME IInv, Kill
    PROVE  IInv'
<1>1. Kept' = Kept /\ FilesKept' = FilesKept
  BY DEF Kill, Kept, FilesKept
<1>2. TypeOK' /\ CountIsTrue' /\ OnPath' /\ RoomToWrite'
  BY DEF Kill, IInv, TypeOK, CountIsTrue, OnPath, RoomToWrite
<1>3. OnlyOldestGo' /\ InOrder' /\ WholeFits' /\ SizeBounded'
  BY <1>1 DEF Kill, IInv, OnlyOldestGo, InOrder, WholeFits, SizeBounded
<1>4. Numbered'
  BY <1>1 DEF Kill, IInv, Numbered
<1> QED BY <1>2, <1>3, <1>4 DEF IInv

-----------------------------------------------------------------------------
(* Steps that change which files there are *)

\* After a rename everything kept was in the current file, which held the newest.
LEMMA RenameIInv ==
    ASSUME IInv, Rename
    PROVE  IInv'
<1>1. /\ current # None /\ previous' = current /\ current' = None
      /\ handle' = "previous" /\ pc = "rename" /\ pc' = "reopen"
      /\ UNCHANGED <<number, size, bytes, acked>>
  BY DEF Rename, Goto
<1>2. handle = "current"
  BY <1>1 DEF IInv, TypeOK, OnPath
<1>3. FilesKept' = {current} /\ Kept' = current.batches /\ Open' = current /\ Open = current
  BY <1>1, <1>2 DEF FilesKept, Kept, Open
<1>4. current \in FilesKept /\ current.batches \subseteq Kept
  BY <1>1 DEF FilesKept, Kept
<1>5. TypeOK'
  BY <1>1, <1>3 DEF IInv, TypeOK
<1>6. OnlyOldestGo'
  <2> SUFFICES ASSUME NEW i \in acked, NEW j \in acked, i < j, i \in current.batches
               PROVE  j \in current.batches
    BY <1>1, <1>3 DEF OnlyOldestGo
  <2>1. j \in Kept
    BY <1>4 DEF IInv, OnlyOldestGo
  <2>2. CASE previous # None /\ j \in previous.batches
    <3>1. j < i
      BY <1>1, <2>2 DEF IInv, InOrder
    <3>2. i \in Nat /\ j \in Nat
      BY DEF IInv, TypeOK
    <3> QED BY <3>1, <3>2
  <2> QED BY <2>1, <2>2 DEF Kept, FilesKept
<1>7. InOrder' /\ OnPath' /\ RoomToWrite'
  BY <1>1 DEF IInv, InOrder, OnPath, RoomToWrite
<1>8. CountIsTrue'
  BY <1>1, <1>2, <1>3 DEF IInv, TypeOK, CountIsTrue
<1>9. SizeBounded' /\ WholeFits' /\ Numbered'
  BY <1>1, <1>3, <1>4 DEF IInv, SizeBounded, WholeFits, Numbered
<1> QED BY <1>5, <1>6, <1>7, <1>8, <1>9 DEF IInv

\* An empty file appears at path.
LEMMA FreshFile ==
    ASSUME IInv, current = None, current' = Empty, UNCHANGED <<previous, number, acked>>
    PROVE  /\ Kept' = Kept
           /\ OnlyOldestGo' /\ InOrder' /\ WholeFits' /\ SizeBounded'
<1>1. FilesKept' = FilesKept \cup {Empty}
  BY EmptyType DEF FilesKept
<1>2. Kept' = Kept
  BY <1>1 DEF Kept, Empty
<1>3. OnlyOldestGo' /\ InOrder'
  BY <1>2 DEF IInv, OnlyOldestGo, InOrder, Empty
<1>4. WholeFits' /\ SizeBounded'
  BY <1>1, ConstantsOK DEF IInv, WholeFits, SizeBounded, Empty
<1> QED BY <1>2, <1>3, <1>4

LEMMA ReopenIInv ==
    ASSUME IInv, Reopen
    PROVE  IInv'
<1>1. /\ pc = "reopen" /\ pc' = "write" /\ current' = Empty /\ handle' = "current"
      /\ bytes' = 0 /\ UNCHANGED <<number, size, previous, acked>>
  BY DEF Reopen, Goto
<1>2. current = None
  BY <1>1 DEF IInv, OnPath
<1>3. Kept' = Kept /\ OnlyOldestGo' /\ InOrder' /\ WholeFits' /\ SizeBounded'
  BY <1>1, <1>2, FreshFile
<1>4. Open' = Empty
  BY <1>1 DEF Open
<1>5. TypeOK'
  BY <1>1, <1>4, EmptyType DEF IInv, TypeOK
<1>6. CountIsTrue' /\ RoomToWrite'
  BY <1>1, <1>4 DEF CountIsTrue, RoomToWrite, Empty
<1>7. Numbered' /\ OnPath'
  BY <1>1, <1>3, EmptyType DEF IInv, Numbered, OnPath
<1> QED BY <1>3, <1>5, <1>6, <1>7 DEF IInv

LEMMA StartIInv ==
    ASSUME IInv, Start
    PROVE  IInv'
<1>1. /\ pc = "down" /\ pc' = "idle" /\ handle' = "current"
      /\ current' = (IF current = None THEN Empty ELSE current) /\ bytes' = current'.len
      /\ UNCHANGED <<number, size, previous, acked>>
  BY DEF Start, Goto
<1>2. current' \in Files /\ current' # None /\ Open' = current'
  BY <1>1, EmptyType DEF IInv, TypeOK, Open
<1>3. Kept' = Kept /\ OnlyOldestGo' /\ InOrder' /\ WholeFits' /\ SizeBounded'
  <2>1. CASE current = None
    BY <1>1, <2>1, FreshFile
  <2>2. CASE current # None
    <3>1. FilesKept' = FilesKept /\ Kept' = Kept
      BY <1>1, <2>2 DEF FilesKept, Kept
    <3> QED BY <1>1, <2>2, <3>1 DEF IInv, OnlyOldestGo, InOrder, WholeFits, SizeBounded
  <2> QED BY <2>1, <2>2
<1>4. TypeOK'
  BY <1>1, <1>2 DEF IInv, TypeOK, Files
<1>5. CountIsTrue'
  <2>1. current'.whole <= current'.len
    BY <1>2, <1>3 DEF WholeFits, FilesKept
  <2> QED BY <1>1, <1>2, <2>1 DEF CountIsTrue, Files
<1>6. Numbered' /\ OnPath' /\ RoomToWrite'
  BY <1>1, <1>2, <1>3 DEF IInv, Numbered, OnPath, RoomToWrite
<1> QED BY <1>3, <1>4, <1>5, <1>6 DEF IInv

-----------------------------------------------------------------------------
(* Steps that put bytes in a file *)

LEMMA OpenType ==
    ASSUME IInv, pc = "write"
    PROVE  /\ Open \in Files /\ Open # None /\ Open \in FilesKept
           /\ Open.batches \subseteq Kept
           /\ number \in 1..number /\ number \notin Kept
           /\ handle = "current" \/ (handle = "previous" /\ current = None)
<1>1. Open \in Files /\ Open # None /\ (handle = "current" \/ handle = "previous")
  BY DEF IInv, TypeOK, Open
<1>2. Open \in FilesKept /\ Open.batches \subseteq Kept
  BY <1>1 DEF FilesKept, Kept, Open
<1>3. number \in 1..number
  BY DEF IInv, OnPath
<1>4. number \notin Kept
  BY <1>3 DEF IInv, Numbered
<1> QED BY <1>1, <1>2, <1>3, <1>4 DEF IInv, OnPath

\* The other file is as it was.
LEMMA ExtendKeeps ==
    ASSUME IInv, pc = "write", NEW file \in Files, Extend(file), UNCHANGED handle
    PROVE  /\ Open' = file /\ file # None
           /\ current' \in Files \cup {None} /\ previous' \in Files \cup {None}
           /\ \A f \in FilesKept' : f = file \/ f \in FilesKept
           /\ \/ /\ handle = "current" /\ current' = file /\ previous' = previous
                 /\ current = Open
              \/ /\ handle = "previous" /\ previous' = file /\ current' = None
                 /\ current = None /\ previous = Open
           /\ Open.batches \subseteq file.batches => Kept' = Kept \cup file.batches
<1>1. file # None
  BY ConstantsOK
<1>2. CASE handle = "current"
  <2>1. current' = file /\ previous' = previous /\ current = Open /\ Open' = file
    BY <1>2 DEF Extend, Open
  <2>2. Open # None
    BY OpenType
  <2>3. CASE previous = None
    <3>1. FilesKept = {Open} /\ FilesKept' = {file}
      BY <1>1, <2>1, <2>2, <2>3 DEF FilesKept
    <3>2. Kept = Open.batches /\ Kept' = file.batches
      BY <3>1 DEF Kept
    <3> QED BY <1>1, <1>2, <2>1, <2>3, <3>1, <3>2
  <2>4. CASE previous # None
    <3>1. FilesKept = {Open, previous} /\ FilesKept' = {file, previous}
      BY <1>1, <2>1, <2>2, <2>4 DEF FilesKept
    <3>2. Kept = Open.batches \cup previous.batches
          /\ Kept' = file.batches \cup previous.batches
      BY <3>1 DEF Kept
    <3> QED BY <1>1, <1>2, <2>1, <3>1, <3>2 DEF IInv, TypeOK
  <2> QED BY <2>3, <2>4
<1>3. CASE handle = "previous"
  <2>1. current = None
    BY <1>3 DEF IInv, OnPath
  <2>2. previous' = file /\ current' = None /\ previous = Open /\ Open' = file /\ Open # None
    BY <1>3, <2>1, OpenType DEF Extend, Open
  <2>3. FilesKept = {Open} /\ FilesKept' = {file}
    BY <1>1, <2>1, <2>2 DEF FilesKept
  <2>4. Kept = Open.batches /\ Kept' = file.batches
    BY <2>3 DEF Kept
  <2> QED BY <1>1, <1>3, <2>1, <2>2, <2>3, <2>4
<1> QED BY <1>2, <1>3, OpenType

LEMMA WriteIInv ==
    ASSUME IInv, Write
    PROVE  IInv'
<1> DEFINE file == [batches |-> Open.batches \cup {number},
                    whole |-> Open.whole + size, len |-> Open.len + size]
<1>1. /\ pc = "write" /\ pc' = "idle" /\ Extend(file)
      /\ bytes' = bytes + size /\ acked' = acked \cup {number}
      /\ UNCHANGED <<number, size, handle>>
  BY DEF Write, Goto
<1>2. /\ Open \in Files /\ Open \in FilesKept /\ Open.batches \subseteq Kept
      /\ number \in 1..number /\ number \notin Kept
  BY <1>1, OpenType
<1>3. size \in Nat /\ bytes \in Nat /\ number \in Nat
  BY DEF IInv, TypeOK
<1>4. file \in Files
  BY <1>2, <1>3 DEF Files
<1>5. /\ Open' = file /\ file # None
      /\ current' \in Files \cup {None} /\ previous' \in Files \cup {None}
      /\ \A f \in FilesKept' : f = file \/ f \in FilesKept
      /\ \/ /\ handle = "current" /\ current' = file /\ previous' = previous
            /\ current = Open
         \/ /\ handle = "previous" /\ previous' = file /\ current' = None
            /\ current = None /\ previous = Open
  BY <1>1, <1>4, ExtendKeeps
<1>6. Kept' = Kept \cup {number}
  <2>1. Kept' = Kept \cup file.batches
    BY <1>1, <1>4, ExtendKeeps
  <2> QED BY <1>2, <2>1
<1>7. \A i \in Kept : i \in Nat /\ i < number
  BY <1>1, <1>3 DEF IInv, Numbered, TypeOK, Kept, FilesKept, Files
<1> HIDE DEF file
<1>8. TypeOK'
  BY <1>1, <1>2, <1>3, <1>5 DEF IInv, TypeOK
<1>9. OnlyOldestGo'
  <2>1. \A j \in acked : j \in Nat /\ j <= number
    BY <1>3 DEF IInv, TypeOK
  <2> QED BY <1>1, <1>3, <1>6, <2>1 DEF IInv, OnlyOldestGo
<1>10. InOrder'
  <2>1. file.batches = Open.batches \cup {number}
    BY DEF file
  <2>2. ASSUME previous # None
        PROVE  \A i \in previous.batches : i < number
    BY <1>7, <2>2 DEF Kept, FilesKept
  <2>3. CASE current' = None
    BY <2>3 DEF InOrder
  <2>4. CASE current' = file /\ previous' = previous /\ current = Open
    <3>1. SUFFICES ASSUME previous # None, NEW i \in previous.batches,
                          NEW j \in file.batches
                   PROVE  i < j
      BY <2>4 DEF InOrder
    <3>2. CASE j = number
      BY <2>2, <3>1, <3>2
    <3>3. CASE j \in Open.batches
      <4>1. current # None
        BY <1>2, <2>4 DEF FilesKept
      <4> QED BY <2>4, <3>1, <3>3, <4>1 DEF IInv, InOrder
    <3> QED BY <2>1, <3>2, <3>3
  <2> QED BY <1>5, <2>3, <2>4
<1>11. CountIsTrue' /\ WholeFits'
  <2>1. file.whole = Open.whole + size /\ file.len = Open.len + size
    BY DEF file
  <2>2. Open.whole \in Nat /\ Open.len \in Nat
    BY <1>2 DEF Files
  <2>3. Open.whole <= bytes /\ bytes <= Open.len /\ Open.whole <= Open.len
    BY <1>2, <1>5 DEF IInv, CountIsTrue, WholeFits
  <2>4. CountIsTrue'
    BY <1>1, <1>3, <1>5, <2>1, <2>2, <2>3 DEF CountIsTrue
  <2>5. WholeFits'
    BY <1>3, <1>5, <2>1, <2>2, <2>3 DEF IInv, WholeFits
  <2> QED BY <2>4, <2>5
<1>12. SizeBounded'
  <2>1. file.whole = Open.whole + size /\ file.batches = Open.batches \cup {number}
    BY DEF file
  <2>2. file.whole <= MaxBytes \/ file.batches = {number}
    <3>1. CASE ~TooLong(size)
      <4>1. Open.whole <= bytes /\ Open.whole \in Nat
        BY <1>2, <1>5 DEF IInv, CountIsTrue, Files
      <4> QED BY <1>3, <2>1, <3>1, <4>1, ConstantsOK DEF TooLong
    <3>2. CASE Open.batches = {}
      BY <2>1, <3>2
    <3> QED BY <1>1, <3>1, <3>2 DEF IInv, RoomToWrite
  <2>3. number' = number
    BY <1>1
  <2> QED BY <1>2, <1>5, <2>2, <2>3 DEF IInv, SizeBounded
<1>13. Numbered' /\ OnPath' /\ RoomToWrite'
  <2>1. Numbered'
    BY <1>1, <1>3, <1>6, <1>7 DEF Numbered
  <2> QED BY <1>1, <1>5, <2>1 DEF IInv, OnPath, RoomToWrite
<1> QED BY <1>8, <1>9, <1>10, <1>11, <1>12, <1>13 DEF IInv

LEMMA WriteFailsIInv ==
    ASSUME IInv, WriteFails
    PROVE  IInv'
<1>1. PICK n \in 0..(size - 1) : Extend([Open EXCEPT !.len = @ + n])
  BY DEF WriteFails
<1> DEFINE file == [Open EXCEPT !.len = @ + n]
<1>2. /\ pc = "write" /\ pc' = "idle" /\ Extend(file)
      /\ UNCHANGED <<number, size, handle, bytes, acked>>
  BY <1>1 DEF WriteFails, Goto
<1>3. Open \in Files /\ Open \in FilesKept /\ n \in Nat /\ bytes \in Nat
  BY <1>2, OpenType DEF IInv, TypeOK
<1>4. /\ file \in Files /\ file.batches = Open.batches /\ file.whole = Open.whole
      /\ file.len = Open.len + n
  BY <1>3 DEF Files
<1>5. /\ Open' = file /\ file # None
      /\ current' \in Files \cup {None} /\ previous' \in Files \cup {None}
      /\ \A f \in FilesKept' : f = file \/ f \in FilesKept
      /\ \/ /\ handle = "current" /\ current' = file /\ previous' = previous
            /\ current = Open
         \/ /\ handle = "previous" /\ previous' = file /\ current' = None
            /\ current = None /\ previous = Open
  BY <1>2, <1>4, ExtendKeeps
<1> HIDE DEF file
<1>6. Kept' = Kept
  <2>1. Kept' = Kept \cup file.batches
    BY <1>2, <1>4, ExtendKeeps
  <2> QED BY <1>2, <1>4, <2>1, OpenType
<1>7. TypeOK'
  BY <1>2, <1>3, <1>5 DEF IInv, TypeOK
<1>8. OnlyOldestGo' /\ Numbered'
  BY <1>2, <1>6 DEF IInv, OnlyOldestGo, Numbered
<1>9. InOrder' /\ OnPath' /\ RoomToWrite'
  BY <1>2, <1>4, <1>5 DEF IInv, InOrder, OnPath, RoomToWrite
<1>10. CountIsTrue' /\ WholeFits'
  <2>1. Open.whole \in Nat /\ Open.len \in Nat
    BY <1>3 DEF Files
  <2>2. Open.whole <= bytes /\ bytes <= Open.len /\ Open.whole <= Open.len
    BY <1>3, <1>5 DEF IInv, CountIsTrue, WholeFits
  <2>3. CountIsTrue'
    BY <1>2, <1>3, <1>4, <1>5, <2>1, <2>2 DEF CountIsTrue
  <2>4. WholeFits'
    BY <1>3, <1>4, <1>5, <2>1, <2>2 DEF IInv, WholeFits
  <2> QED BY <2>3, <2>4
<1>11. SizeBounded'
  BY <1>2, <1>3, <1>4, <1>5 DEF IInv, SizeBounded
<1> QED BY <1>7, <1>8, <1>9, <1>10, <1>11 DEF IInv

-----------------------------------------------------------------------------

LEMMA StepIInv == IInv /\ [Next]_vars => IInv'
<1> SUFFICES ASSUME IInv, [Next]_vars PROVE IInv'
  OBVIOUS
<1>1. CASE UNCHANGED vars
  <2>1. Kept' = Kept /\ FilesKept' = FilesKept /\ Open' = Open
    BY <1>1 DEF vars, Kept, FilesKept, Open
  <2>2. TypeOK' /\ OnlyOldestGo' /\ InOrder' /\ CountIsTrue' /\ SizeBounded'
    BY <1>1, <2>1 DEF IInv, TypeOK, OnlyOldestGo, InOrder, CountIsTrue, SizeBounded, vars
  <2>3. Numbered' /\ OnPath' /\ WholeFits' /\ RoomToWrite'
    BY <1>1, <2>1 DEF IInv, Numbered, OnPath, WholeFits, RoomToWrite, TooLong, vars
  <2> QED BY <2>2, <2>3 DEF IInv
<1> QED
  BY <1>1, AppendIInv, RenameIInv, ReopenIInv, RotateFailsIInv, WriteIInv, WriteFailsIInv,
     KillIInv, StartIInv DEF Next

THEOREM Invariance == Spec => []IInv
<1> QED BY InitIInv, StepIInv, PTL DEF Spec

(***************************************************************************)
(* The types, and a writer that always has a file (logfile.rs, open and    *)
(* rotate).                                                                *)
(***************************************************************************)
THEOREM TypeCorrect == Spec => []TypeOK
<1>1. IInv => TypeOK
  BY DEF IInv
<1> QED BY <1>1, Invariance, PTL

(***************************************************************************)
(* Accepted lines go oldest first (logfile.rs, append and rotate).         *)
(***************************************************************************)
THEOREM OldestGoFirst == Spec => [](OnlyOldestGo /\ InOrder)
<1>1. IInv => OnlyOldestGo /\ InOrder
  BY DEF IInv
<1> QED BY <1>1, Invariance, PTL

(***************************************************************************)
(* The files stay within max_bytes and the count is true (logfile.rs,      *)
(* append).                                                                *)
(***************************************************************************)
THEOREM StaysBounded == Spec => [](SizeBounded /\ CountIsTrue)
<1>1. IInv => SizeBounded /\ CountIsTrue
  BY DEF IInv
<1> QED BY <1>1, Invariance, PTL

=============================================================================
