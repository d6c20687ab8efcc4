------------------------------- MODULE Token -------------------------------
(***************************************************************************)
(* The pairing token's file (token.rs).  A process that starts the daemon, *)
(* or was asked to print the token, reads it, and makes one if there is    *)
(* none; --rotate-token makes a new one.  Both write a temporary file of   *)
(* one name, sync it and rename it over the token, with no lock.           *)
(*                                                                         *)
(* A file is an inode; its content is a whole token (named for the process *)
(* that made it, "old" for one that was there), "stray" or "half".  A      *)
(* machine that stops keeps what was synced, any of the token files since  *)
(* it started, and the temporary file or not.                              *)
(***************************************************************************)
EXTENDS Service, Naturals, FiniteSets

CONSTANT Procs   \* the processes, each named for the token it would make

Inodes == 1..(Cardinality(Procs) + 1)   \* the first file, and one for each process

ASSUME TokenOK ==
    /\ IsFiniteSet(Procs)
    /\ None \notin Inodes /\ None \notin Procs
    /\ None \notin {"old", "stray", "half"} /\ "half" \notin Procs

VARIABLES
    tokenFile, temp,   \* the inodes under the two names
    contents,          \* what each holds
    synced,            \* those whose content a stop of the machine keeps
    past,              \* the token files since the machine started
    procs,             \* [at, fd] of each process
    shown,             \* the token that was printed or is served
    lapped             \* history: two processes have run at a time

tokenVars == <<tokenFile, temp, contents, synced, past, procs, shown, lapped>>

TokenInit ==
    /\ tokenFile = None /\ temp = None
    /\ contents = [i \in Inodes |-> None] /\ synced = {} /\ past = {None}
    /\ procs = [p \in Procs |-> [at |-> "idle", fd |-> 0]]
    /\ shown = None /\ lapped = FALSE

Running == {p \in Procs : procs[p].at \notin {"idle", "over"}}

IsToken(content) == content \in Procs \cup {"old"}

Goes(p, at) == procs' = [procs EXCEPT ![p].at = at]

-----------------------------------------------------------------------------

\* Started with nothing there, a token, or something else.
TokenBegin ==
    /\ \E there \in {None, "old", "stray"} :
          IF there = None
          THEN UNCHANGED <<tokenFile, contents, synced, past>>
          ELSE /\ tokenFile' = 1 /\ past' = {1} /\ synced' = {1}
               /\ contents' = [contents EXCEPT ![1] = there]
    /\ \E p \in Procs, at \in {"load", "open"} : Goes(p, at)
    /\ UNCHANGED <<temp, shown, lapped>>

\* Another process is started, beside or after: the daemon or --print-token, or
\* --rotate-token.
StartProcess(p, at) ==
    /\ procs[p].at = "idle" /\ at \in {"load", "open"}
    /\ \E q \in Procs : procs[q].at # "idle"
    /\ Goes(p, at)
    /\ lapped' = (lapped \/ Running # {})
    /\ UNCHANGED <<tokenFile, temp, contents, synced, past, shown>>

Load(p) ==
    /\ procs[p].at = "load"
    /\ IF tokenFile = None
       THEN Goes(p, "open") /\ UNCHANGED shown
       ELSE /\ Goes(p, "over")
            /\ shown' = IF IsToken(contents[tokenFile]) THEN contents[tokenFile] ELSE shown
    /\ UNCHANGED <<tokenFile, temp, contents, synced, past, lapped>>

\* Created or truncated.
OpenTemp(p) ==
    /\ procs[p].at = "open"
    /\ \E i \in Inodes :
          /\ IF temp # None THEN i = temp ELSE i # tokenFile /\ contents[i] = None
          /\ temp' = i
          /\ contents' = [contents EXCEPT ![i] = "half"]
          /\ synced' = synced \ {i}
          /\ procs' = [procs EXCEPT ![p] = [at |-> "write", fd |-> i]]
    /\ UNCHANGED <<tokenFile, past, shown, lapped>>

WriteToken(p, ok) ==
    /\ procs[p].at = "write"
    /\ contents' = [contents EXCEPT ![procs[p].fd] = IF ok THEN p ELSE "half"]
    /\ Goes(p, IF ok THEN "sync" ELSE "over")
    /\ UNCHANGED <<tokenFile, temp, synced, past, shown, lapped>>

\* Variant: the file is renamed as it is.
SyncTokenSkipped(p) ==
    /\ procs[p].at = "sync"
    /\ Goes(p, "rename")
    /\ UNCHANGED <<tokenFile, temp, contents, synced, past, shown, lapped>>

SyncToken(p) ==
    /\ procs[p].at = "sync"
    /\ synced' = synced \cup {procs[p].fd}
    /\ Goes(p, "rename")
    /\ UNCHANGED <<tokenFile, temp, contents, past, shown, lapped>>

\* The temporary file may have been renamed by another process.
RenameToken(p) ==
    /\ procs[p].at = "rename"
    /\ Goes(p, "over")
    /\ IF temp = None
       THEN UNCHANGED <<tokenFile, temp, past, shown>>
       ELSE /\ tokenFile' = temp /\ temp' = None
            /\ past' = past \cup {temp}
            /\ shown' = p
    /\ UNCHANGED <<contents, synced, lapped>>

Kill(p) ==
    /\ p \in Running
    /\ Goes(p, "over")
    /\ UNCHANGED <<tokenFile, temp, contents, synced, past, shown, lapped>>

MachineStops ==
    /\ \E p \in Procs : procs[p].at # "idle"
    /\ \E file \in past : tokenFile' = file /\ past' = {file}
    /\ temp' \in {IF tokenFile' = tokenFile THEN temp ELSE tokenFile, None}
    /\ contents' = [i \in Inodes |-> IF contents[i] = None \/ i \in synced
                                     THEN contents[i] ELSE "half"]
    /\ procs' = [p \in Procs |-> [procs[p] EXCEPT !.at = IF p \in Running THEN "over" ELSE @]]
    /\ shown' = None
    /\ UNCHANGED <<synced, lapped>>

-----------------------------------------------------------------------------

TokenStep ==
    \E p \in Procs :
        \/ Load(p) \/ OpenTemp(p) \/ SyncToken(p) \/ RenameToken(p)
        \/ \E ok \in BOOLEAN : WriteToken(p, ok)

TokenFault ==
    \/ \E p \in Procs : Kill(p) \/ \E at \in {"load", "open"} : StartProcess(p, at)
    \/ MachineStops

TokenReturn ==
    /\ Running = {} /\ \E p \in Procs : procs[p].at = "over"
    /\ tokenFile' = None /\ temp' = None
    /\ contents' = [i \in Inodes |-> None] /\ synced' = {} /\ past' = {None}
    /\ procs' = [p \in Procs |-> [at |-> "idle", fd |-> 0]]
    /\ shown' = None /\ lapped' = FALSE

-----------------------------------------------------------------------------
(* Properties *)

(* While no two processes have been at it together, the token that was last *)
(* printed or is served is the one in the file, and whatever stops, and     *)
(* whenever, the file is never a half token (token.rs, rotate).             *)
TokenHolds ==
    ~lapped =>
        /\ shown # None => tokenFile # None /\ contents[tokenFile] = shown
        /\ tokenFile # None => contents[tokenFile] # "half"

=============================================================================
