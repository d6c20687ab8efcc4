----------------------------- MODULE DurableMap -----------------------------
(***************************************************************************)
(* What vrcnext-bridge's key-value store promises its callers, without     *)
(* saying how: a map that readers see (visible), the copy of it a          *)
(* restarted daemon would read (durable), and the copy that would survive  *)
(* a power cut (settled).  A write changes the first two at one instant.   *)
(* A removal that reports an error may have been carried out for readers   *)
(* and not for the copy; that is the only way the two may differ.          *)
(***************************************************************************)

CONSTANTS
    Entries,  \* the places a value can be stored at
    Values,
    Missing   \* what is read where nothing is stored

VARIABLES
    visible,
    durable,
    settled

mapVars == <<visible, durable, settled>>

Contents == [Entries -> Values \cup {Missing}]

Erase(m, gone) == [e \in Entries |-> IF e \in gone THEN Missing ELSE m[e]]

MapInit == \E m \in Contents : visible = m /\ durable = m /\ settled = m

\* An acknowledged write: readers see it, and so would the next daemon.
Put(e, v) ==
    /\ visible' = [visible EXCEPT ![e] = v]
    /\ durable' = visible'
    /\ UNCHANGED settled

\* An acknowledged removal of one or several entries.
Remove(gone) ==
    /\ visible' = Erase(visible, gone)
    /\ durable' = visible'
    /\ UNCHANGED settled

\* A removal that reported an error: readers no longer see the entries.
RemoveUnsaved(gone) ==
    /\ visible' = Erase(visible, gone)
    /\ UNCHANGED <<durable, settled>>

\* The daemon stops; the next one starts from the durable copy.
Restart ==
    /\ visible' = durable
    /\ UNCHANGED <<durable, settled>>

Settle ==
    /\ settled' = durable
    /\ UNCHANGED <<visible, durable>>

\* The machine stops: what was not settled may be gone.
PowerLoss ==
    \E survivor \in {durable, settled} :
        visible' = survivor /\ durable' = survivor /\ settled' = survivor

MapNext ==
    \/ \E e \in Entries, v \in Values : Put(e, v)
    \/ \E gone \in SUBSET Entries : Remove(gone)
    \/ \E gone \in SUBSET Entries : RemoveUnsaved(gone)
    \/ Restart
    \/ Settle
    \/ PowerLoss

MapSpec == MapInit /\ [][MapNext]_mapVars

=============================================================================
