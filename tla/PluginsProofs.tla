--------------------------- MODULE PluginsProofs ----------------------------
(***************************************************************************)
(* Proofs about Plugins, for every set of plugins, trees and keys.  The    *)
(* first part is for every set of faults; the second, on what operations   *)
(* leave behind and on PluginSet, for faults of builds alone.              *)
(***************************************************************************)
EXTENDS Plugins, TLAPS

(***************************************************************************)
(* The inductive invariant: which operation can be at which step, and what *)
(* the steps already taken have established for the ones still to come.    *)
(***************************************************************************)
KindAtStep ==
    /\ pc = "ask" => op.kind \in {"install", "update", "uninstall", "forget_key"}
    /\ pc \in {"fetch", "check", "trust", "remember", "save", "rebuild"} =>
            op.kind \in {"install", "update"}
    /\ pc \in {"rotate", "retire", "swap", "clean",
               "undo_out", "undo_in", "undo_save", "undo_clean"} => op.kind = "update"
    /\ pc \in {"move", "undo_tree", "undo_rec", "undo_settings"} => op.kind = "install"
    /\ pc \in {"remove", "drop_rec", "drop_settings"} => op.kind = "uninstall"
    /\ pc = "forget" => op.kind = "forget_key" /\ op.key \in Keys
    /\ pc = "build" => op.kind \in {"install", "update", "uninstall", "build"}
    /\ pc = "ask" /\ op.kind = "forget_key" => op.key \in Keys

SubjectKnown ==
    /\ pc \notin {"idle", "ask", "fetch", "forget", "build"} => op.id \in Ids
    /\ pc # "idle" /\ op.kind \in {"update", "uninstall"} => op.id \in Ids /\ op.was \in Trees
    /\ pc = "build" /\ op.kind = "install" => op.id \in Ids
    /\ pc \in {"ask", "forget"} /\ op.kind = "forget_key" => op.key \in keys

\* A candidate past its checks is of the right plugin, and past the prompts
\* its key is trusted.
CandidateVouched ==
    /\ pc = "check" /\ op.kind = "install" => PluginOf[cand] = op.id
    /\ pc \in {"rotate", "trust", "remember", "move", "retire", "swap"} => PluginOf[cand] = op.id
    /\ pc = "remember" => KeyOf[cand] \in accepted
    /\ pc \in {"move", "retire", "swap"} => KeyOf[cand] \in keys
    /\ pc \in {"save", "build", "undo_out", "undo_in"} => cand = None
    /\ pc \in {"ask", "remove", "drop_rec", "drop_settings"} => cand = None

\* The record while the operation runs, and what may change its key.
Rotated(t) == KeyOf[t] # KeyOf[op.was] => "rotate_key" \in grants

RecordFollows ==
    /\ pc \in {"ask", "fetch", "check", "rotate", "trust", "remember", "retire", "swap", "save"}
            /\ op.kind = "update" => rec[op.id] = op.was
    /\ pc \in {"trust", "remember", "move", "save"} /\ op.kind = "install" => rec[op.id] = None
    /\ pc \in {"trust", "remember", "retire", "swap"} /\ op.kind = "update" => Rotated(cand)
    /\ pc = "save" => tree[op.id] \in Trees
    /\ pc = "save" /\ op.kind = "update" => Rotated(tree[op.id])
    /\ pc \in {"build", "clean"} /\ op.kind \in {"install", "update"} =>
            rec[op.id] = tree[op.id] /\ tree[op.id] \in Trees
    /\ pc \in {"build", "clean", "undo_out", "undo_in", "undo_save"} /\ op.kind = "update" =>
            rec[op.id] \in Trees /\ Rotated(rec[op.id])
    /\ pc = "clean" => bundle[op.id] = tree[op.id]

\* The file keeps every record that memory has.
RecordsSaved == \A id \in Ids : rec[id] # None => saved.rec[id] = rec[id]

IInv ==
    /\ TypeOK
    /\ KindAtStep
    /\ SubjectKnown
    /\ ForgottenStaysForgotten
    /\ CandidateVouched
    /\ RecordFollows
    /\ RecordsSaved
    /\ SuccessMeansBuilt

-----------------------------------------------------------------------------

LEMMA InitIInv == Init => IInv
<1> SUFFICES ASSUME Init PROVE IInv
  OBVIOUS
<1> USE ConstantsOK
<1>1. TypeOK
  BY DEF Init, TypeOK, Nothing, Saved, NoOp, Installable, OnDisk, Kinds, Steps
<1>2. KindAtStep /\ SubjectKnown /\ CandidateVouched /\ RecordFollows /\ SuccessMeansBuilt
  BY DEF Init, KindAtStep, SubjectKnown, CandidateVouched, RecordFollows, SuccessMeansBuilt
<1>3. ForgottenStaysForgotten /\ RecordsSaved
  BY DEF Init, ForgottenStaysForgotten, RecordsSaved, Saved, Nothing
<1> QED BY <1>1, <1>2, <1>3 DEF IInv

LEMMA BeginIInv ==
    ASSUME IInv, Begin
    PROVE  IInv'
<1> USE ConstantsOK
<1>1. PICK kind \in Kinds, id \in Ids \cup {None}, key \in Keys \cup {None}, step \in {"ask", "build"} :
         /\ Start(kind, id, key, step)
         /\ kind \in {"update", "uninstall"} => id \in Ids /\ rec[id] # None
         /\ kind = "forget_key" => key \in Keys /\ key \in keys
         /\ step = "ask" => kind \in {"install", "update", "uninstall", "forget_key"}
         /\ step = "build" => kind = "build"
  BY DEF Begin, StartInstall, StartUpdate, StartUninstall, StartForget, StartBuild, Kinds,
         IInv, TypeOK
<1>2. op' = [kind |-> kind, id |-> id, key |-> key,
             was |-> IF id = None THEN None ELSE rec[id]]
  BY <1>1 DEF Start
<1>3. TypeOK'
  BY <1>1, <1>2 DEF IInv, TypeOK, Start, storeVars, Kinds, Steps, Installable, OnDisk, Prompts
<1>4. KindAtStep' /\ SubjectKnown'
  BY <1>1, <1>2 DEF IInv, TypeOK, Start, KindAtStep, SubjectKnown, storeVars, Installable
<1>5. CandidateVouched' /\ RecordFollows' /\ SuccessMeansBuilt'
  BY <1>1, <1>2 DEF Start, CandidateVouched, RecordFollows, SuccessMeansBuilt, storeVars
<1>6. ForgottenStaysForgotten' /\ RecordsSaved'
  BY <1>1 DEF IInv, Start, ForgottenStaysForgotten, RecordsSaved, storeVars
<1> QED BY <1>3, <1>4, <1>5, <1>6 DEF IInv

LEMMA PromptIInv ==
    ASSUME IInv, Confirm \/ Deny
    PROVE  IInv'
<1> USE ConstantsOK
<1>1. TypeOK'
  BY DEF IInv, TypeOK, Confirm, Deny, Grant, Goto, End, At, storeVars, dirVars, Steps, Prompts
<1>2. KindAtStep' /\ SubjectKnown'
  BY DEF IInv, KindAtStep, SubjectKnown, Confirm, Deny, Grant, Goto, End, At, storeVars
<1>3. CandidateVouched' /\ RecordFollows' /\ SuccessMeansBuilt'
  BY DEF IInv, CandidateVouched, RecordFollows, SuccessMeansBuilt, Confirm, Deny, Grant,
         Goto, End, At, storeVars, dirVars
<1>4. ForgottenStaysForgotten' /\ RecordsSaved'
  BY DEF IInv, ForgottenStaysForgotten, RecordsSaved, Confirm, Deny, Grant, storeVars
<1> QED BY <1>1, <1>2, <1>3, <1>4 DEF IInv

LEMMA RemovalType ==
    ASSUME NEW t \in OnDisk
    PROVE  Removal(t) \subseteq OnDisk
BY DEF Removal, OnDisk

LEMMA FetchIInv ==
    ASSUME IInv, Fetch
    PROVE  IInv'
<1> USE ConstantsOK
<1>1. PICK t \in Trees :
         /\ cand' = t /\ pc' = "check"
         /\ op' = IF op.kind = "install"
                  THEN [op EXCEPT !.id = PluginOf[t], !.was = rec[PluginOf[t]]]
                  ELSE op
  BY DEF Fetch
<1>2. op.kind = "install" => op'.kind = "install" /\ op'.id \in Ids
  BY <1>1 DEF IInv, TypeOK
<1>3. op' \in [kind : Kinds, id : Ids \cup {None}, was : Installable, key : Keys \cup {None}]
  BY <1>1 DEF IInv, TypeOK
<1>4. TypeOK'
  BY <1>1, <1>3 DEF IInv, TypeOK, Fetch, storeVars, Steps, OnDisk
<1>5. KindAtStep' /\ SubjectKnown'
  BY <1>1, <1>2 DEF IInv, Fetch, At, KindAtStep, SubjectKnown
<1>6. CandidateVouched' /\ RecordFollows' /\ SuccessMeansBuilt'
  BY <1>1, <1>2 DEF IInv, Fetch, At, CandidateVouched, RecordFollows, SuccessMeansBuilt,
                    KindAtStep, storeVars
<1>7. ForgottenStaysForgotten' /\ RecordsSaved'
  BY DEF IInv, ForgottenStaysForgotten, RecordsSaved, Fetch, storeVars
<1> QED BY <1>4, <1>5, <1>6, <1>7 DEF IInv

\* An operation that ends with an error and leaves the store and the trees alone.
LEMMA ErrorIInv ==
    ASSUME IInv, End("error"), cand' \in OnDisk,
           UNCHANGED <<storeVars, tree, retired, failed, bundle, pushed, grants, accepted>>
    PROVE  IInv'
<1>1. TypeOK'
  BY DEF IInv, TypeOK, End, storeVars, Steps
<1>2. KindAtStep' /\ SubjectKnown' /\ CandidateVouched' /\ RecordFollows' /\ SuccessMeansBuilt'
  BY DEF End, KindAtStep, SubjectKnown, CandidateVouched, RecordFollows, SuccessMeansBuilt
<1>3. ForgottenStaysForgotten' /\ RecordsSaved'
  BY DEF IInv, ForgottenStaysForgotten, RecordsSaved, storeVars
<1> QED BY <1>1, <1>2, <1>3 DEF IInv

LEMMA RefuseIInv ==
    ASSUME IInv, Refuse
    PROVE  IInv'
<1>1. cand' \in OnDisk
  BY RemovalType DEF IInv, TypeOK, Refuse
<1> QED BY <1>1, ErrorIInv DEF Refuse

LEMMA FetchFailsIInv ==
    ASSUME IInv, FetchFails
    PROVE  IInv'
<1>1. cand' \in OnDisk
  BY RemovalType DEF OnDisk, FetchFails
<1> QED BY <1>1, ErrorIInv DEF FetchFails

\* A candidate that passes its checks.
LEMMA CheckIInv ==
    ASSUME IInv, CheckInstall \/ CheckUpdate, ~Refuse
    PROVE  IInv'
<1> USE ConstantsOK
<1>1. TypeOK'
  <2>1. CASE CheckInstall
    BY <2>1 DEF IInv, TypeOK, CheckInstall, Vacant, Goto, At, storeVars, dirVars, Steps, Prompts
  <2>2. CASE CheckUpdate
    BY <2>2 DEF IInv, TypeOK, CheckUpdate, Goto, At, storeVars, dirVars, Steps, Prompts
  <2> QED BY <2>1, <2>2
<1>2. KindAtStep' /\ SubjectKnown'
  BY DEF IInv, TypeOK, KindAtStep, SubjectKnown, CheckInstall, CheckUpdate, Vacant,
       Goto, End, At, storeVars, dirVars
<1>3. CandidateVouched' /\ RecordFollows'
  BY DEF IInv, TypeOK, KindAtStep, SubjectKnown, ForgottenStaysForgotten,
       CandidateVouched, RecordFollows, Rotated, CheckInstall, CheckUpdate, Vacant,
       Goto, End, At, storeVars, dirVars, Installable
<1>4. ForgottenStaysForgotten' /\ RecordsSaved' /\ SuccessMeansBuilt'
  BY DEF IInv, TypeOK, SubjectKnown, RecordFollows, ForgottenStaysForgotten,
       RecordsSaved, SuccessMeansBuilt, CheckInstall, CheckUpdate, Vacant, Goto, End,
       At, storeVars, dirVars, Saved
<1> QED BY <1>1, <1>2, <1>3, <1>4 DEF IInv

LEMMA RotateKeyIInv ==
    ASSUME IInv, RotateKey, ~Refuse
    PROVE  IInv'
<1> USE ConstantsOK
<1>1. TypeOK'
  <2>1. RotateKey => At("rotate") /\ Grant("rotate_key", "trust")
    BY DEF RotateKey
  <2>2. grants' \subseteq Prompts
    BY <2>1 DEF IInv, TypeOK, Grant, Prompts
  <2> QED
    BY <2>1, <2>2 DEF IInv, TypeOK, Grant, Goto, At, storeVars, dirVars, Steps
<1>2. KindAtStep' /\ SubjectKnown'
  BY DEF IInv, TypeOK, KindAtStep, SubjectKnown, RotateKey, Grant, Goto, End, At,
       storeVars, dirVars
<1>3. CandidateVouched' /\ RecordFollows'
  BY DEF IInv, TypeOK, KindAtStep, SubjectKnown, ForgottenStaysForgotten,
       CandidateVouched, RecordFollows, Rotated, RotateKey, Grant, Goto, End, At,
       storeVars, dirVars, Installable
<1>4. ForgottenStaysForgotten' /\ RecordsSaved' /\ SuccessMeansBuilt'
  BY DEF IInv, TypeOK, SubjectKnown, RecordFollows, ForgottenStaysForgotten,
       RecordsSaved, SuccessMeansBuilt, RotateKey, Grant, Goto, End, At, storeVars,
       dirVars, Saved
<1> QED BY <1>1, <1>2, <1>3, <1>4 DEF IInv

LEMMA TrustKeyIInv ==
    ASSUME IInv, TrustKey, ~Refuse
    PROVE  IInv'
<1> USE ConstantsOK
<1>1. TypeOK'
  <2>1. accepted' \subseteq Keys
    BY DEF IInv, TypeOK, TrustKey, At, dirVars
  <2> QED
    BY <2>1 DEF IInv, TypeOK, TrustKey, Goto, End, At, storeVars, dirVars, Steps,
         Prompts
<1>2. KindAtStep' /\ SubjectKnown'
  BY DEF IInv, TypeOK, KindAtStep, SubjectKnown, TrustKey, Goto, End, At, storeVars,
       dirVars
<1>3. CandidateVouched' /\ RecordFollows'
  BY DEF IInv, TypeOK, KindAtStep, SubjectKnown, ForgottenStaysForgotten,
       CandidateVouched, RecordFollows, Rotated, TrustKey, Goto, End, At, storeVars,
       dirVars, Installable
<1>4. ForgottenStaysForgotten' /\ RecordsSaved' /\ SuccessMeansBuilt'
  BY DEF IInv, TypeOK, SubjectKnown, RecordFollows, ForgottenStaysForgotten,
       RecordsSaved, SuccessMeansBuilt, TrustKey, Goto, End, At, storeVars, dirVars,
       Saved
<1> QED BY <1>1, <1>2, <1>3, <1>4 DEF IInv

LEMMA RememberKeyIInv ==
    ASSUME IInv, RememberKey, ~Refuse
    PROVE  IInv'
<1> USE ConstantsOK
<1>1. TypeOK'
  <2>1. keys' \subseteq Keys
    BY DEF IInv, TypeOK, RememberKey, At, Put, storeVars
  <2>2. saved' \in [rec : [Ids -> Installable], keys : SUBSET Keys, settings : SUBSET Ids]
    BY <2>1 DEF IInv, TypeOK, RememberKey, Put, Saved, storeVars
  <2> QED
    BY <2>1, <2>2 DEF IInv, TypeOK, RememberKey, Put, Saved, Goto, End, At, storeVars,
         dirVars, Steps, Prompts
<1>2. KindAtStep' /\ SubjectKnown'
  BY DEF IInv, TypeOK, KindAtStep, SubjectKnown, RememberKey, Put, Saved, Goto, End, At,
       storeVars, dirVars
<1>3. CandidateVouched' /\ RecordFollows'
  BY DEF IInv, TypeOK, KindAtStep, SubjectKnown, ForgottenStaysForgotten,
       CandidateVouched, RecordFollows, Rotated, RememberKey, Put, Saved, Goto, End, At,
       storeVars, dirVars, Installable
<1>4. ForgottenStaysForgotten' /\ RecordsSaved' /\ SuccessMeansBuilt'
  <2>1. ForgottenStaysForgotten'
    BY DEF IInv, ForgottenStaysForgotten, CandidateVouched, RememberKey, At, Put, Saved, Goto, storeVars
  <2>2. RecordsSaved'
    BY DEF IInv, RecordsSaved, RememberKey, Put, Saved, storeVars
  <2>3. SuccessMeansBuilt'
    BY DEF IInv, SuccessMeansBuilt, RememberKey, At, Put, Goto, storeVars, dirVars
  <2> QED BY <2>1, <2>2, <2>3
<1> QED BY <1>1, <1>2, <1>3, <1>4 DEF IInv

LEMMA MoveInIInv ==
    ASSUME IInv, MoveIn, ~Refuse
    PROVE  IInv'
<1> USE ConstantsOK
<1>1. TypeOK'
  <2>1. tree' \in [Ids -> OnDisk] /\ cand' \in OnDisk
    BY DEF IInv, TypeOK, SubjectKnown, MoveIn, At, OnDisk
  <2> QED
    BY <2>1 DEF IInv, TypeOK, MoveIn, Goto, End, At, storeVars, dirVars, Steps, Prompts
<1>2. KindAtStep' /\ SubjectKnown'
  BY DEF IInv, TypeOK, KindAtStep, SubjectKnown, MoveIn, Goto, End, At, storeVars,
       dirVars
<1>3. CandidateVouched' /\ RecordFollows'
  BY DEF IInv, TypeOK, KindAtStep, SubjectKnown, ForgottenStaysForgotten,
       CandidateVouched, RecordFollows, Rotated, MoveIn, Goto, End, At, storeVars,
       dirVars, Installable
<1>4. ForgottenStaysForgotten' /\ RecordsSaved' /\ SuccessMeansBuilt'
  BY DEF IInv, TypeOK, SubjectKnown, RecordFollows, ForgottenStaysForgotten,
       RecordsSaved, SuccessMeansBuilt, MoveIn, Goto, End, At, storeVars, dirVars, Saved
<1> QED BY <1>1, <1>2, <1>3, <1>4 DEF IInv

LEMMA RetireIInv ==
    ASSUME IInv, Retire, ~Refuse
    PROVE  IInv'
<1> USE ConstantsOK
<1>1. TypeOK'
  <2>1. tree' \in [Ids -> OnDisk] /\ retired' \in OnDisk
    BY DEF IInv, TypeOK, SubjectKnown, KindAtStep, Retire, At, Without, OnDisk, dirVars
  <2> QED
    BY <2>1 DEF IInv, TypeOK, Retire, Without, Goto, End, At, storeVars, dirVars, Steps,
         Prompts
<1>2. KindAtStep' /\ SubjectKnown'
  BY DEF IInv, TypeOK, KindAtStep, SubjectKnown, Retire, Without, Goto, End, At,
       storeVars, dirVars
<1>3. CandidateVouched' /\ RecordFollows'
  BY DEF IInv, TypeOK, KindAtStep, SubjectKnown, ForgottenStaysForgotten,
       CandidateVouched, RecordFollows, Rotated, Retire, Without, Goto, End, At,
       storeVars, dirVars, Installable
<1>4. ForgottenStaysForgotten' /\ RecordsSaved' /\ SuccessMeansBuilt'
  BY DEF IInv, TypeOK, SubjectKnown, RecordFollows, ForgottenStaysForgotten,
       RecordsSaved, SuccessMeansBuilt, Retire, Without, Goto, End, At, storeVars,
       dirVars, Saved
<1> QED BY <1>1, <1>2, <1>3, <1>4 DEF IInv

LEMMA SwapIInv ==
    ASSUME IInv, Swap
    PROVE  IInv'
<1> USE ConstantsOK
<1>1. TypeOK'
  BY DEF IInv, TypeOK, KindAtStep, SubjectKnown, Swap, Removal, Goto, End, At,
       storeVars, dirVars, Steps, Installable, OnDisk, Prompts
<1>2. KindAtStep' /\ SubjectKnown'
  BY DEF IInv, TypeOK, KindAtStep, SubjectKnown, Swap, Removal, Goto, End, At,
       storeVars, dirVars
<1>3. CandidateVouched' /\ RecordFollows'
  BY DEF IInv, TypeOK, KindAtStep, SubjectKnown, ForgottenStaysForgotten,
       CandidateVouched, RecordFollows, Rotated, Swap, Removal, Goto, End, At,
       storeVars, dirVars, Installable
<1>4. ForgottenStaysForgotten' /\ RecordsSaved' /\ SuccessMeansBuilt'
  BY DEF IInv, TypeOK, SubjectKnown, RecordFollows, ForgottenStaysForgotten,
       RecordsSaved, SuccessMeansBuilt, Swap, Removal, Goto, End, At, storeVars,
       dirVars, Saved
<1> QED BY <1>1, <1>2, <1>3, <1>4 DEF IInv

LEMMA SaveRecordIInv ==
    ASSUME IInv, SaveRecord
    PROVE  IInv'
<1> USE ConstantsOK
<1>1. TypeOK'
  <2>1. rec' \in [Ids -> Installable]
    BY DEF IInv, TypeOK, SubjectKnown, RecordFollows, SaveRecord, At, Put, Installable,
         storeVars
  <2>2. pushed' \in [Ids -> Installable]
    BY <2>1 DEF IInv, TypeOK, SaveRecord, PushInstalled, Listed, Installable
  <2> QED
    BY <2>1, <2>2 DEF IInv, TypeOK, SaveRecord, Put, Saved, PushInstalled, Listed, Goto,
         End, At, storeVars, dirVars, Steps, Prompts
<1>2. KindAtStep' /\ SubjectKnown'
  BY DEF IInv, TypeOK, KindAtStep, SubjectKnown, SaveRecord, Put, Saved, PushInstalled,
       Listed, Goto, End, At, storeVars, dirVars
<1>3. CandidateVouched' /\ RecordFollows'
  BY DEF IInv, TypeOK, KindAtStep, SubjectKnown, ForgottenStaysForgotten,
       CandidateVouched, RecordFollows, Rotated, SaveRecord, Put, Saved, PushInstalled,
       Listed, Goto, End, At, storeVars, dirVars, Installable
<1>4. ForgottenStaysForgotten' /\ RecordsSaved' /\ SuccessMeansBuilt'
  BY DEF IInv, TypeOK, SubjectKnown, RecordFollows, ForgottenStaysForgotten,
       RecordsSaved, SuccessMeansBuilt, SaveRecord, Put, Saved, PushInstalled, Listed,
       Goto, End, At, storeVars, dirVars, Saved
<1> QED BY <1>1, <1>2, <1>3, <1>4 DEF IInv

LEMMA BuildIInv ==
    ASSUME IInv, BuildOk \/ BuildFails
    PROVE  IInv'
<1> USE ConstantsOK
<1>1. TypeOK'
  <2>1. bundle' \in [Ids -> OnDisk]
    BY DEF IInv, TypeOK, BuildOk, BuildFails, Built, NotBuilt, InBundle, OnDisk
  <2> QED
    BY <2>1 DEF IInv, TypeOK, BuildOk, BuildFails, Built, NotBuilt, InBundle, Goto, End,
         At, storeVars, dirVars, Steps, Prompts
<1>2. KindAtStep' /\ SubjectKnown'
  BY DEF IInv, TypeOK, KindAtStep, SubjectKnown, BuildOk, BuildFails, Built, NotBuilt,
       InBundle, Goto, End, At, storeVars, dirVars
<1>3. CandidateVouched' /\ RecordFollows'
  BY DEF IInv, TypeOK, KindAtStep, SubjectKnown, ForgottenStaysForgotten,
       CandidateVouched, RecordFollows, Rotated, BuildOk, BuildFails, Built, NotBuilt,
       InBundle, Goto, End, At, storeVars, dirVars, Installable
<1>4. ForgottenStaysForgotten' /\ RecordsSaved' /\ SuccessMeansBuilt'
  BY DEF IInv, TypeOK, SubjectKnown, RecordFollows, ForgottenStaysForgotten,
       RecordsSaved, SuccessMeansBuilt, BuildOk, BuildFails, Built, NotBuilt, InBundle,
       Goto, End, At, storeVars, dirVars, Saved
<1> QED BY <1>1, <1>2, <1>3, <1>4 DEF IInv

LEMMA CleanIInv ==
    ASSUME IInv, Clean
    PROVE  IInv'
<1> USE ConstantsOK
<1>1. TypeOK'
  BY DEF IInv, TypeOK, KindAtStep, SubjectKnown, Clean, Removal, Goto, End, At,
       storeVars, dirVars, Steps, Installable, OnDisk, Prompts
<1>2. KindAtStep' /\ SubjectKnown'
  BY DEF IInv, TypeOK, KindAtStep, SubjectKnown, Clean, Removal, Goto, End, At,
       storeVars, dirVars
<1>3. CandidateVouched' /\ RecordFollows'
  BY DEF IInv, TypeOK, KindAtStep, SubjectKnown, ForgottenStaysForgotten,
       CandidateVouched, RecordFollows, Rotated, Clean, Removal, Goto, End, At,
       storeVars, dirVars, Installable
<1>4. ForgottenStaysForgotten' /\ RecordsSaved' /\ SuccessMeansBuilt'
  BY DEF IInv, TypeOK, SubjectKnown, RecordFollows, ForgottenStaysForgotten,
       RecordsSaved, SuccessMeansBuilt, Clean, Removal, Goto, End, At, storeVars,
       dirVars, Saved
<1> QED BY <1>1, <1>2, <1>3, <1>4 DEF IInv

LEMMA UndoTreeIInv ==
    ASSUME IInv, UndoTree
    PROVE  IInv'
<1> USE ConstantsOK
<1>1. TypeOK'
  BY DEF IInv, TypeOK, KindAtStep, SubjectKnown, UndoTree, Removal, Goto, End, At,
       storeVars, dirVars, Steps, Installable, OnDisk, Prompts
<1>2. KindAtStep' /\ SubjectKnown'
  BY DEF IInv, TypeOK, KindAtStep, SubjectKnown, UndoTree, Removal, Goto, End, At,
       storeVars, dirVars
<1>3. CandidateVouched' /\ RecordFollows'
  BY DEF IInv, TypeOK, KindAtStep, SubjectKnown, ForgottenStaysForgotten,
       CandidateVouched, RecordFollows, Rotated, UndoTree, Removal, Goto, End, At,
       storeVars, dirVars, Installable
<1>4. ForgottenStaysForgotten' /\ RecordsSaved' /\ SuccessMeansBuilt'
  BY DEF IInv, TypeOK, SubjectKnown, RecordFollows, ForgottenStaysForgotten,
       RecordsSaved, SuccessMeansBuilt, UndoTree, Removal, Goto, End, At, storeVars,
       dirVars, Saved
<1> QED BY <1>1, <1>2, <1>3, <1>4 DEF IInv

LEMMA UndoRecIInv ==
    ASSUME IInv, UndoRec \/ UndoSettings
    PROVE  IInv'
<1> USE ConstantsOK
<1>1. TypeOK'
  <2>1. rec' \in [Ids -> Installable]
    BY DEF IInv, TypeOK, UndoRec, UndoSettings, Delete, Put, Lose, Without, Installable,
         storeVars
  <2>2. pushed' \in [Ids -> Installable]
    BY <2>1 DEF IInv, TypeOK, UndoRec, UndoSettings, PushInstalled, Listed, Installable
  <2>3. saved' \in [rec : [Ids -> Installable], keys : SUBSET Keys, settings : SUBSET Ids] /\ keys' \subseteq Keys /\ settings' \subseteq Ids
    BY <2>1 DEF IInv, TypeOK, UndoRec, UndoSettings, Delete, Put, Lose, Saved, storeVars
  <2> QED
    BY <2>1, <2>2, <2>3 DEF IInv, TypeOK, UndoRec, UndoSettings, Delete, Put, Lose,
         Without, Saved, PushInstalled, Listed, Goto, End, At, storeVars, dirVars,
         Steps, Prompts
<1>2. KindAtStep' /\ SubjectKnown'
  BY DEF IInv, TypeOK, KindAtStep, SubjectKnown, UndoRec, UndoSettings, Delete, Put,
       Lose, Without, Saved, PushInstalled, Listed, Goto, End, At, storeVars, dirVars
<1>3. CandidateVouched' /\ RecordFollows'
  BY DEF IInv, TypeOK, KindAtStep, SubjectKnown, ForgottenStaysForgotten,
       CandidateVouched, RecordFollows, Rotated, UndoRec, UndoSettings, Delete, Put,
       Lose, Without, Saved, PushInstalled, Listed, Goto, End, At, storeVars, dirVars,
       Installable
<1>4. ForgottenStaysForgotten' /\ RecordsSaved' /\ SuccessMeansBuilt'
  BY DEF IInv, TypeOK, SubjectKnown, RecordFollows, ForgottenStaysForgotten,
       RecordsSaved, SuccessMeansBuilt, UndoRec, UndoSettings, Delete, Put, Lose,
       Without, Saved, PushInstalled, Listed, Goto, End, At, storeVars, dirVars, Saved
<1> QED BY <1>1, <1>2, <1>3, <1>4 DEF IInv

LEMMA RebuildIInv ==
    ASSUME IInv, Rebuild
    PROVE  IInv'
<1> USE ConstantsOK
<1>1. TypeOK'
  BY DEF IInv, TypeOK, KindAtStep, SubjectKnown, Rebuild, Built, NotBuilt, InBundle,
       Goto, End, At, storeVars, dirVars, Steps, Installable, OnDisk, Prompts
<1>2. KindAtStep' /\ SubjectKnown'
  BY DEF IInv, TypeOK, KindAtStep, SubjectKnown, Rebuild, Built, NotBuilt, InBundle,
       Goto, End, At, storeVars, dirVars
<1>3. CandidateVouched' /\ RecordFollows'
  BY DEF IInv, TypeOK, KindAtStep, SubjectKnown, ForgottenStaysForgotten,
       CandidateVouched, RecordFollows, Rotated, Rebuild, Built, NotBuilt, InBundle,
       Goto, End, At, storeVars, dirVars, Installable
<1>4. ForgottenStaysForgotten' /\ RecordsSaved' /\ SuccessMeansBuilt'
  BY DEF IInv, TypeOK, SubjectKnown, RecordFollows, ForgottenStaysForgotten,
       RecordsSaved, SuccessMeansBuilt, Rebuild, Built, NotBuilt, InBundle, Goto, End,
       At, storeVars, dirVars, Saved
<1> QED BY <1>1, <1>2, <1>3, <1>4 DEF IInv

LEMMA UndoUpdateIInv ==
    ASSUME IInv, UndoOut \/ UndoIn
    PROVE  IInv'
<1> USE ConstantsOK
<1>1. TypeOK'
  <2>1. tree' \in [Ids -> OnDisk] /\ retired' \in OnDisk /\ failed' \in OnDisk
    BY DEF IInv, TypeOK, SubjectKnown, UndoOut, UndoIn, At, Without, OnDisk
  <2> QED
    BY <2>1 DEF IInv, TypeOK, UndoOut, UndoIn, Without, Goto, End, At, storeVars,
         dirVars, Steps, Prompts
<1>2. KindAtStep' /\ SubjectKnown'
  BY DEF IInv, TypeOK, KindAtStep, SubjectKnown, UndoOut, UndoIn, Without, Goto, End,
       At, storeVars, dirVars
<1>3. CandidateVouched' /\ RecordFollows'
  BY DEF IInv, TypeOK, KindAtStep, SubjectKnown, ForgottenStaysForgotten,
       CandidateVouched, RecordFollows, Rotated, UndoOut, UndoIn, Without, Goto, End,
       At, storeVars, dirVars, Installable
<1>4. ForgottenStaysForgotten' /\ RecordsSaved' /\ SuccessMeansBuilt'
  BY DEF IInv, TypeOK, SubjectKnown, RecordFollows, ForgottenStaysForgotten,
       RecordsSaved, SuccessMeansBuilt, UndoOut, UndoIn, Without, Goto, End, At,
       storeVars, dirVars, Saved
<1> QED BY <1>1, <1>2, <1>3, <1>4 DEF IInv

LEMMA UndoSaveIInv ==
    ASSUME IInv, UndoSave
    PROVE  IInv'
<1> USE ConstantsOK
<1>1. TypeOK'
  BY DEF IInv, TypeOK, KindAtStep, SubjectKnown, UndoSave, Put, Saved, Goto, End, At,
       storeVars, dirVars, Steps, Installable, OnDisk, Prompts
<1>2. KindAtStep' /\ SubjectKnown'
  BY DEF IInv, TypeOK, KindAtStep, SubjectKnown, UndoSave, Put, Saved, Goto, End, At,
       storeVars, dirVars
<1>3. CandidateVouched' /\ RecordFollows'
  BY DEF IInv, TypeOK, KindAtStep, SubjectKnown, ForgottenStaysForgotten,
       CandidateVouched, RecordFollows, Rotated, UndoSave, Put, Saved, Goto, End, At,
       storeVars, dirVars, Installable
<1>4. ForgottenStaysForgotten' /\ RecordsSaved' /\ SuccessMeansBuilt'
  BY DEF IInv, TypeOK, SubjectKnown, RecordFollows, ForgottenStaysForgotten,
       RecordsSaved, SuccessMeansBuilt, UndoSave, Put, Saved, Goto, End, At, storeVars,
       dirVars, Saved
<1> QED BY <1>1, <1>2, <1>3, <1>4 DEF IInv

LEMMA UndoCleanIInv ==
    ASSUME IInv, UndoClean
    PROVE  IInv'
<1> USE ConstantsOK
<1>1. TypeOK'
  BY DEF IInv, TypeOK, KindAtStep, SubjectKnown, UndoClean, Removal, PushInstalled,
       Listed, Goto, End, At, storeVars, dirVars, Steps, Installable, OnDisk, Prompts
<1>2. KindAtStep' /\ SubjectKnown'
  BY DEF IInv, TypeOK, KindAtStep, SubjectKnown, UndoClean, Removal, PushInstalled,
       Listed, Goto, End, At, storeVars, dirVars
<1>3. CandidateVouched' /\ RecordFollows'
  BY DEF IInv, TypeOK, KindAtStep, SubjectKnown, ForgottenStaysForgotten,
       CandidateVouched, RecordFollows, Rotated, UndoClean, Removal, PushInstalled,
       Listed, Goto, End, At, storeVars, dirVars, Installable
<1>4. ForgottenStaysForgotten' /\ RecordsSaved' /\ SuccessMeansBuilt'
  BY DEF IInv, TypeOK, SubjectKnown, RecordFollows, ForgottenStaysForgotten,
       RecordsSaved, SuccessMeansBuilt, UndoClean, Removal, PushInstalled, Listed, Goto,
       End, At, storeVars, dirVars, Saved
<1> QED BY <1>1, <1>2, <1>3, <1>4 DEF IInv

LEMMA RemoveTreeIInv ==
    ASSUME IInv, RemoveTree
    PROVE  IInv'
<1> USE ConstantsOK
<1>1. TypeOK'
  BY DEF IInv, TypeOK, KindAtStep, SubjectKnown, RemoveTree, Removal, Goto, End, At,
       storeVars, dirVars, Steps, Installable, OnDisk, Prompts
<1>2. KindAtStep' /\ SubjectKnown'
  BY DEF IInv, TypeOK, KindAtStep, SubjectKnown, RemoveTree, Removal, Goto, End, At,
       storeVars, dirVars
<1>3. CandidateVouched' /\ RecordFollows'
  BY DEF IInv, TypeOK, KindAtStep, SubjectKnown, ForgottenStaysForgotten,
       CandidateVouched, RecordFollows, Rotated, RemoveTree, Removal, Goto, End, At,
       storeVars, dirVars, Installable
<1>4. ForgottenStaysForgotten' /\ RecordsSaved' /\ SuccessMeansBuilt'
  BY DEF IInv, TypeOK, SubjectKnown, RecordFollows, ForgottenStaysForgotten,
       RecordsSaved, SuccessMeansBuilt, RemoveTree, Removal, Goto, End, At, storeVars,
       dirVars, Saved
<1> QED BY <1>1, <1>2, <1>3, <1>4 DEF IInv

LEMMA DropIInv ==
    ASSUME IInv, DropRec \/ DropSettings
    PROVE  IInv'
<1> USE ConstantsOK
<1>1. TypeOK'
  <2>1. rec' \in [Ids -> Installable]
    BY DEF IInv, TypeOK, DropRec, DropSettings, Delete, Put, Lose, Without, Installable,
         storeVars
  <2>2. pushed' \in [Ids -> Installable]
    BY <2>1 DEF IInv, TypeOK, DropRec, DropSettings, PushInstalled, Listed, Installable
  <2>3. saved' \in [rec : [Ids -> Installable], keys : SUBSET Keys, settings : SUBSET Ids] /\ keys' \subseteq Keys /\ settings' \subseteq Ids
    BY <2>1 DEF IInv, TypeOK, DropRec, DropSettings, Delete, Put, Lose, Saved, storeVars
  <2> QED
    BY <2>1, <2>2, <2>3 DEF IInv, TypeOK, DropRec, DropSettings, Delete, Put, Lose,
         Without, Saved, PushInstalled, Listed, Goto, End, At, storeVars, dirVars,
         Steps, Prompts
<1>2. KindAtStep' /\ SubjectKnown'
  BY DEF IInv, TypeOK, KindAtStep, SubjectKnown, DropRec, DropSettings, Delete, Put,
       Lose, Without, Saved, PushInstalled, Listed, Goto, End, At, storeVars, dirVars
<1>3. CandidateVouched' /\ RecordFollows'
  BY DEF IInv, TypeOK, KindAtStep, SubjectKnown, ForgottenStaysForgotten,
       CandidateVouched, RecordFollows, Rotated, DropRec, DropSettings, Delete, Put,
       Lose, Without, Saved, PushInstalled, Listed, Goto, End, At, storeVars, dirVars,
       Installable
<1>4. ForgottenStaysForgotten' /\ RecordsSaved' /\ SuccessMeansBuilt'
  BY DEF IInv, TypeOK, SubjectKnown, RecordFollows, ForgottenStaysForgotten,
       RecordsSaved, SuccessMeansBuilt, DropRec, DropSettings, Delete, Put, Lose,
       Without, Saved, PushInstalled, Listed, Goto, End, At, storeVars, dirVars, Saved
<1> QED BY <1>1, <1>2, <1>3, <1>4 DEF IInv

LEMMA ForgetKeyIInv ==
    ASSUME IInv, ForgetKey
    PROVE  IInv'
<1> USE ConstantsOK
<1>1. TypeOK'
  BY DEF IInv, TypeOK, KindAtStep, SubjectKnown, ForgetKey, Delete, Put, Lose, Without,
       Saved, PushInstalled, Listed, Goto, End, At, storeVars, dirVars, Steps,
       Installable, OnDisk, Prompts
<1>2. KindAtStep' /\ SubjectKnown'
  BY DEF IInv, TypeOK, KindAtStep, SubjectKnown, ForgetKey, Delete, Put, Lose, Without,
       Saved, PushInstalled, Listed, Goto, End, At, storeVars, dirVars
<1>3. CandidateVouched' /\ RecordFollows'
  BY DEF IInv, TypeOK, KindAtStep, SubjectKnown, ForgottenStaysForgotten,
       CandidateVouched, RecordFollows, Rotated, ForgetKey, Delete, Put, Lose, Without,
       Saved, PushInstalled, Listed, Goto, End, At, storeVars, dirVars, Installable
<1>4. ForgottenStaysForgotten' /\ RecordsSaved' /\ SuccessMeansBuilt'
  <2>1. ForgottenStaysForgotten'
    BY DEF IInv, ForgottenStaysForgotten, SubjectKnown, KindAtStep, At, ForgetKey, Delete, Put, Lose, Saved, storeVars
  <2>2. RecordsSaved'
    BY DEF IInv, RecordsSaved, ForgetKey, Delete, Put, Lose, Saved, storeVars
  <2>3. SuccessMeansBuilt'
    BY DEF IInv, SuccessMeansBuilt, ForgetKey, End, At, KindAtStep
  <2> QED BY <2>1, <2>2, <2>3
<1> QED BY <1>1, <1>2, <1>3, <1>4 DEF IInv

LEMMA PageSetIInv ==
    ASSUME IInv, \E id \in Ids : PageSet(id)
    PROVE  IInv'
<1> USE ConstantsOK
<1>1. TypeOK'
  BY DEF IInv, TypeOK, KindAtStep, SubjectKnown, PageSet, Put, Saved, storeVars,
       dirVars, Steps, Installable, OnDisk, Prompts
<1>2. KindAtStep' /\ SubjectKnown'
  BY DEF IInv, TypeOK, KindAtStep, SubjectKnown, PageSet, Put, Saved, storeVars, dirVars
<1>3. CandidateVouched' /\ RecordFollows'
  BY DEF IInv, TypeOK, KindAtStep, SubjectKnown, ForgottenStaysForgotten,
       CandidateVouched, RecordFollows, Rotated, PageSet, Put, Saved, storeVars,
       dirVars, Installable
<1>4. ForgottenStaysForgotten' /\ RecordsSaved' /\ SuccessMeansBuilt'
  BY DEF IInv, TypeOK, SubjectKnown, RecordFollows, ForgottenStaysForgotten,
       RecordsSaved, SuccessMeansBuilt, PageSet, Put, Saved, storeVars, dirVars, Saved
<1> QED BY <1>1, <1>2, <1>3, <1>4 DEF IInv

LEMMA CrashIInv ==
    ASSUME IInv, Crash
    PROVE  IInv'
<1> USE ConstantsOK
<1>1. TypeOK'
  BY DEF IInv, TypeOK, KindAtStep, SubjectKnown, Crash, Listed, NoOp, Kinds, storeVars,
       dirVars, Steps, Installable, OnDisk, Prompts
<1>2. KindAtStep' /\ SubjectKnown'
  BY DEF IInv, TypeOK, KindAtStep, SubjectKnown, Crash, Listed, NoOp, Kinds, storeVars,
       dirVars
<1>3. CandidateVouched' /\ RecordFollows'
  BY DEF IInv, TypeOK, KindAtStep, SubjectKnown, ForgottenStaysForgotten,
       CandidateVouched, RecordFollows, Rotated, Crash, Listed, NoOp, Kinds, storeVars,
       dirVars, Installable
<1>4. ForgottenStaysForgotten' /\ RecordsSaved' /\ SuccessMeansBuilt'
  BY DEF IInv, TypeOK, SubjectKnown, RecordFollows, ForgottenStaysForgotten,
       RecordsSaved, SuccessMeansBuilt, Crash, Listed, NoOp, Kinds, storeVars, dirVars,
       Saved
<1> QED BY <1>1, <1>2, <1>3, <1>4 DEF IInv

-----------------------------------------------------------------------------
(* The invariant and its consequences *)

LEMMA StepIInv ==
    ASSUME IInv, [Next]_vars
    PROVE  IInv'
<1>1. CASE Begin
  BY <1>1, BeginIInv
<1>2. CASE Refuse
  BY <1>2, RefuseIInv
<1>3. CASE Step /\ ~Refuse
  <2>1. CASE Confirm \/ Deny \/ Fetch \/ FetchFails
    BY <2>1, PromptIInv, FetchIInv, FetchFailsIInv
  <2>2. CASE CheckInstall \/ CheckUpdate \/ RotateKey \/ TrustKey \/ RememberKey
    BY <1>3, <2>2, CheckIInv, RotateKeyIInv, TrustKeyIInv, RememberKeyIInv
  <2>3. CASE MoveIn \/ Retire \/ Swap \/ SaveRecord
    BY <1>3, <2>3, MoveInIInv, RetireIInv, SwapIInv, SaveRecordIInv
  <2>4. CASE BuildOk \/ BuildFails \/ Clean
    BY <2>4, BuildIInv, CleanIInv
  <2>5. CASE UndoTree \/ UndoRec \/ UndoSettings \/ Rebuild
    BY <2>5, UndoTreeIInv, UndoRecIInv, RebuildIInv
  <2>6. CASE UndoOut \/ UndoIn \/ UndoSave \/ UndoClean
    BY <2>6, UndoUpdateIInv, UndoSaveIInv, UndoCleanIInv
  <2>7. CASE RemoveTree \/ DropRec \/ DropSettings \/ ForgetKey
    BY <2>7, RemoveTreeIInv, DropIInv, ForgetKeyIInv
  <2> QED BY <1>3, <2>1, <2>2, <2>3, <2>4, <2>5, <2>6, <2>7 DEF Step
<1>4. CASE \E id \in Ids : PageSet(id)
  BY <1>4, PageSetIInv
<1>5. CASE Crash
  BY <1>5, CrashIInv
<1>6. CASE UNCHANGED vars
  BY <1>6 DEF vars, storeVars, dirVars, IInv, TypeOK, KindAtStep, SubjectKnown,
              ForgottenStaysForgotten, CandidateVouched, RecordFollows, Rotated,
              RecordsSaved, SuccessMeansBuilt
<1> QED BY <1>1, <1>2, <1>3, <1>4, <1>5, <1>6 DEF Next

THEOREM Invariance == Spec => []IInv
BY InitIInv, StepIInv, PTL DEF Spec

(***************************************************************************)
(* Types hold whatever fails; in particular what an operation moves into   *)
(* place is a whole, checked tree, never what a failed clone left.         *)
(***************************************************************************)
THEOREM TypeCorrect == Spec => []TypeOK
<1>1. IInv => TypeOK
  BY DEF IInv
<1> QED BY <1>1, Invariance, PTL

(***************************************************************************)
(* Neither a failed write nor a restart brings back a key that the user    *)
(* forgot, and no key is trusted that was not accepted.                    *)
(***************************************************************************)
THEOREM ForgottenKeysStayForgotten == Spec => []ForgottenStaysForgotten
<1>1. IInv => ForgottenStaysForgotten
  BY DEF IInv
<1> QED BY <1>1, Invariance, PTL

(***************************************************************************)
(* An install or update that answered with success is in place, recorded   *)
(* and in the bundle, whatever failed in the operations before it.         *)
(***************************************************************************)
THEOREM SuccessIsBuilt == Spec => []SuccessMeansBuilt
<1>1. IInv => SuccessMeansBuilt
  BY DEF IInv
<1> QED BY <1>1, Invariance, PTL

\* What a step that does not move a candidate does to the trees.
LEMMA OnlyMoves ==
    ASSUME IInv, [Next]_vars, NEW id \in Ids, MovedIn(id)
    PROVE  (MoveIn \/ Swap) /\ id = op.id
<1> USE ConstantsOK
<1>1. cand \in Trees /\ tree'[id] = cand /\ tree[id] # cand /\ cand \notin {None, Wreck}
  BY DEF MovedIn
<1>2. tree' # tree
  BY <1>1
<1>3. \/ MoveIn \/ Swap \/ Retire \/ UndoTree \/ UndoOut \/ UndoIn \/ RemoveTree \/ Crash
  BY <1>2 DEF Next, Begin, Step, StartInstall, StartUpdate, StartUninstall, StartForget,
     StartBuild, Start, Confirm, Deny, Grant, Fetch, FetchFails, CheckInstall, CheckUpdate,
     RotateKey, TrustKey, RememberKey, SaveRecord, BuildOk, BuildFails, Clean, UndoRec,
     UndoSettings, Rebuild, UndoSave, UndoClean, DropRec, DropSettings, ForgetKey, PageSet,
     Refuse, vars, dirVars
<1>4. ~UndoIn
  BY <1>1 DEF UndoIn, At, IInv, CandidateVouched
<1>5. ~Retire /\ ~UndoTree /\ ~UndoOut /\ ~RemoveTree /\ ~Crash
  BY <1>1 DEF IInv, TypeOK, Retire, UndoTree, UndoOut, RemoveTree, Crash, Refuse,
              Without, Removal, dirVars
<1>6. MoveIn \/ Swap
  BY <1>3, <1>4, <1>5
<1>7. id = op.id
  BY <1>1, <1>6 DEF IInv, TypeOK, MoveIn, Swap, Refuse
<1> QED BY <1>6, <1>7

(***************************************************************************)
(* Whatever fails, a tree comes under plugins/<id> only from a candidate   *)
(* for that id whose key the user has accepted and not forgotten.          *)
(***************************************************************************)
THEOREM OnlyTrustedTreesMoveIn == Spec => OnlyTrustedMovesIn
<1> DEFINE Vouched == \A id \in Ids : MovedIn(id) => PluginOf[cand] = id /\ KeyOf[cand] \in accepted
<1>1. IInv /\ [Next]_vars => Vouched
  <2> SUFFICES ASSUME IInv, [Next]_vars, NEW id \in Ids, MovedIn(id)
               PROVE  PluginOf[cand] = id /\ KeyOf[cand] \in accepted
    OBVIOUS
  <2>1. (MoveIn \/ Swap) /\ id = op.id
    BY OnlyMoves
  <2> QED BY <2>1 DEF MoveIn, Swap, At, IInv, CandidateVouched, ForgottenStaysForgotten
<1> QED BY <1>1, Invariance, PTL DEF Spec, OnlyTrustedMovesIn

(***************************************************************************)
(* Whatever fails, the key a plugin is recorded under changes only in an   *)
(* operation in which the user confirmed the change.                       *)
(***************************************************************************)
THEOREM KeysAreContinuous == Spec => KeyContinuity
<1> DEFINE Asked == \A id \in Ids : KeyChanges(id) => "rotate_key" \in grants
<1>1. IInv /\ [Next]_vars => Asked
  <2> SUFFICES ASSUME IInv, [Next]_vars, NEW id \in Ids, KeyChanges(id)
               PROVE  "rotate_key" \in grants
    OBVIOUS
  <2>1. rec[id] # None /\ rec'[id] # None /\ rec'[id] # rec[id]
    BY DEF KeyChanges
  <2>2. SaveRecord \/ UndoSave \/ UndoRec \/ DropRec \/ Crash
    BY <2>1 DEF Next, Begin, Step, StartInstall, StartUpdate, StartUninstall, StartForget,
       StartBuild, Start, Confirm, Deny, Grant, Fetch, FetchFails, CheckInstall, CheckUpdate,
       RotateKey, TrustKey, RememberKey, MoveIn, Retire, Swap, BuildOk, BuildFails, Clean,
       UndoTree, UndoSettings, Rebuild, UndoOut, UndoIn, UndoClean, RemoveTree, DropSettings,
       ForgetKey, PageSet, Refuse, Delete, Put, Lose, vars, storeVars
  <2>3. ~UndoRec /\ ~DropRec
    BY <2>1 DEF IInv, TypeOK, UndoRec, DropRec, Delete, Put, Lose, Without, storeVars
  <2>4. ~Crash
    BY <2>1 DEF IInv, RecordsSaved, Crash
  <2>5. CASE SaveRecord
    BY <2>1, <2>5 DEF SaveRecord, At, Put, storeVars, KeyChanges, Rotated,
                 IInv, TypeOK, KindAtStep, RecordFollows
  <2>6. CASE UndoSave
    BY <2>1, <2>6 DEF UndoSave, At, Put, storeVars, KeyChanges, Rotated,
                 IInv, TypeOK, KindAtStep, RecordFollows
  <2> QED BY <2>2, <2>3, <2>4, <2>5, <2>6
<1> QED BY <1>1, Invariance, PTL DEF Spec, KeyContinuity

(***************************************************************************)
(* What an update brings is signed no earlier than the record it found.    *)
(***************************************************************************)
SignedForward ==
    /\ pc \in {"rotate", "trust", "remember", "retire", "swap"} /\ op.kind = "update" =>
            SignedAt[cand] >= SignedAt[op.was]
    /\ pc = "save" /\ op.kind = "update" => SignedAt[tree[op.id]] >= SignedAt[op.was]
    /\ pc \in {"build", "clean", "undo_out", "undo_in", "undo_save", "undo_clean", "rebuild"}
            /\ op.kind = "update" => rec[op.id] \in Trees /\ SignedAt[rec[op.id]] >= SignedAt[op.was]

\* A step that leaves the records alone and starts or ends an operation, or is no
\* part of one.
LEMMA SignedElsewhere ==
    ASSUME SignedForward,
           pc' \in {"idle", "ask", "fetch", "check"} \/ op'.kind # "update" \/ Crash
    PROVE  SignedForward'
BY DEF SignedForward, Crash

LEMMA SignedStep ==
    ASSUME IInv, SignedForward, [Next]_vars
    PROVE  SignedForward'
<1> USE ConstantsOK
<1>1. CASE Begin
  BY <1>1, SignedElsewhere DEF Begin, StartInstall, StartUpdate, StartUninstall, StartForget,
        StartBuild, Start
<1>2. CASE Refuse \/ Crash \/ Deny \/ FetchFails \/ Fetch
  BY <1>2, SignedElsewhere DEF Refuse, Deny, FetchFails, Fetch, End
<1>3. CASE Confirm \/ CheckInstall \/ MoveIn \/ UndoTree \/ UndoRec \/ UndoSettings
           \/ RemoveTree \/ DropRec \/ DropSettings \/ ForgetKey
  <2>1. pc' \in {"idle", "ask", "fetch", "check"} \/ op'.kind # "update"
    BY <1>3 DEF IInv, KindAtStep, Confirm, CheckInstall, MoveIn, UndoTree, UndoRec, UndoSettings,
          RemoveTree, DropRec, DropSettings, ForgetKey, Refuse, Grant, Goto, End, At
  <2> QED BY <2>1, SignedElsewhere
<1>4. CASE (CheckUpdate \/ RotateKey \/ TrustKey \/ RememberKey \/ Retire) /\ ~Refuse
  <2>1. CASE CheckUpdate
    BY <1>4, <2>1 DEF SignedForward, CheckUpdate, NotDowngraded, Goto, At, storeVars, dirVars
  <2>2. CASE RotateKey \/ TrustKey \/ RememberKey \/ Retire
    BY <1>4, <2>2 DEF SignedForward, RotateKey, TrustKey, RememberKey, Retire, Grant, Goto, End,
          At, storeVars, dirVars, IInv, KindAtStep
  <2> QED BY <1>4, <2>1, <2>2
<1>5. CASE Swap \/ SaveRecord
  <2>1. CASE Swap
    BY <2>1 DEF SignedForward, Swap, Goto, End, At, storeVars, IInv, TypeOK, KindAtStep, SubjectKnown
  <2>2. CASE SaveRecord
    <3>1. op.kind = "update" /\ At("save") => op.id \in Ids /\ tree[op.id] \in Trees
      BY DEF At, IInv, SubjectKnown, RecordFollows
    <3> QED
      BY <2>2, <3>1 DEF SignedForward, SaveRecord, Put, Goto, End, At, storeVars, dirVars, IInv, TypeOK
  <2> QED BY <1>5, <2>1, <2>2
<1>6. CASE BuildOk \/ BuildFails \/ Clean \/ Rebuild
  BY <1>6 DEF SignedForward, BuildOk, BuildFails, Clean, Rebuild, Goto, End, At, storeVars, dirVars
<1>7. CASE UndoOut \/ UndoIn \/ UndoClean
  BY <1>7 DEF SignedForward, UndoOut, UndoIn, UndoClean, Goto, At, storeVars
<1>8. CASE UndoSave
  <2>1. op.id \in Ids /\ op.was \in Trees /\ SignedAt[op.was] \in Nat
    BY <1>8 DEF UndoSave, At, IInv, KindAtStep, SubjectKnown
  <2> QED
    BY <1>8, <2>1 DEF SignedForward, UndoSave, Put, Goto, At, storeVars, dirVars, IInv, TypeOK
<1>9. CASE (\E id \in Ids : PageSet(id)) \/ UNCHANGED vars
  BY <1>9 DEF SignedForward, PageSet, Put, vars, storeVars, dirVars
<1> QED BY <1>1, <1>2, <1>3, <1>4, <1>5, <1>6, <1>7, <1>8, <1>9 DEF Next, Step

(***************************************************************************)
(* A recorded plugin, as an operation that has not ended yet found it.     *)
(***************************************************************************)
recorded == [id \in Ids |-> IF op.kind = "update" /\ pc # "idle" /\ id = op.id THEN op.was ELSE rec[id]]

(***************************************************************************)
(* While a plugin stays recorded, the signature it is recorded with never  *)
(* becomes an older one: not by an update, not by the undoing of one that  *)
(* did not build or could not be written, and not by a restart in between  *)
(* (service.rs:17-21: who controls the repository could offer an older     *)
(* signed commit, and check_update refuses it).                            *)
(***************************************************************************)
RecordsGoForward ==
    [][\A id \in Ids : recorded[id] # None /\ recorded'[id] # None =>
           SignedAt[recorded'[id]] >= SignedAt[recorded[id]]]_vars

\* Whatever a failure has left in the store is signed no earlier than what was found.
LEMMA RecordSupersedes ==
    ASSUME IInv, SignedForward, NEW id \in Ids, recorded[id] # None
    PROVE  rec[id] \in Trees /\ recorded[id] \in Trees /\ SignedAt[rec[id]] >= SignedAt[recorded[id]]
<1> USE ConstantsOK
<1>1. CASE op.kind = "update" /\ pc # "idle" /\ id = op.id
  <2>1. recorded[id] = op.was /\ op.was \in Trees /\ SignedAt[op.was] \in Nat
    BY <1>1 DEF recorded, IInv, SubjectKnown
  <2>2. CASE pc \in {"ask", "fetch", "check", "rotate", "trust", "remember", "retire", "swap", "save"}
    <3>1. rec[id] = op.was
      BY <1>1, <2>2 DEF IInv, RecordFollows
    <3> QED BY <2>1, <3>1
  <2>3. CASE pc \in {"build", "clean", "undo_out", "undo_in", "undo_save", "undo_clean", "rebuild"}
    BY <1>1, <2>1, <2>3 DEF SignedForward
  <2>4. pc \in Steps
    BY DEF IInv, TypeOK
  <2>5. pc \notin {"move", "undo_tree", "undo_rec", "undo_settings", "remove", "drop_rec", "drop_settings",
                  "forget"}
    BY <1>1 DEF IInv, KindAtStep
  <2> QED BY <1>1, <2>2, <2>3, <2>4, <2>5 DEF Steps
<1>2. CASE ~(op.kind = "update" /\ pc # "idle" /\ id = op.id)
  <2>1. recorded[id] = rec[id] /\ rec[id] # None /\ rec[id] \in Installable
    BY <1>2 DEF recorded, IInv, TypeOK
  <2>2. rec[id] \in Trees
    BY <2>1 DEF Installable
  <2>3. SignedAt[rec[id]] \in Nat
    BY <2>2
  <2> QED BY <2>1, <2>2, <2>3
<1> QED BY <1>1, <1>2

\* Only the end of an update and a record that is new change what is recorded.
LEMMA RecordedSteps ==
    ASSUME IInv, [Next]_vars, NEW id \in Ids, recorded'[id] # None,
           recorded[id] # None, rec[id] # None
    PROVE  recorded'[id] = recorded[id] \/ recorded'[id] = rec[id]
<1> USE ConstantsOK
<1>1. recorded[id] = (IF op.kind = "update" /\ pc # "idle" /\ id = op.id THEN op.was ELSE rec[id])
  BY DEF recorded
<1>2. recorded'[id] = (IF op'.kind = "update" /\ pc' # "idle" /\ id = op'.id THEN op'.was ELSE rec'[id])
  BY DEF recorded
<1>3. ASSUME rec'[id] \in {rec[id], None},
             op'.kind = "update" => op' = op /\ (pc = "idle" => pc' = "idle")
      PROVE  recorded'[id] \in {recorded[id], rec[id]}
  BY <1>1, <1>2, <1>3
<1>4. CASE Begin
  <2>1. PICK kind \in Kinds, of \in Ids \cup {None}, key \in Keys \cup {None}, step \in {"ask", "build"} :
           Start(kind, of, key, step)
    BY <1>4 DEF Begin, StartInstall, StartUpdate, StartUninstall, StartForget, StartBuild, Kinds,
           IInv, TypeOK
  <2>2. pc = "idle" /\ rec' = rec /\ op'.id = of /\ op'.was = IF of = None THEN None ELSE rec[of]
    BY <2>1 DEF Start, At, storeVars
  <2> QED BY <1>1, <1>2, <2>2
<1>5. CASE SaveRecord
  <2>1. pc = "save" /\ op' = op /\ op.id \in Ids /\ (op.kind = "install" => rec[op.id] = None)
        /\ op.kind \in {"install", "update"}
    BY <1>5 DEF SaveRecord, At, Goto, End, IInv, KindAtStep, SubjectKnown, RecordFollows
  <2>2. rec' = rec \/ (pc' = "build" /\ rec' = [rec EXCEPT ![op.id] = tree[op.id]])
    BY <1>5 DEF SaveRecord, Put, Goto, storeVars
  <2> QED BY <1>1, <1>2, <2>1, <2>2 DEF IInv, TypeOK
<1>6. CASE UndoSave
  <2>1. pc = "undo_save" /\ pc' = "undo_clean" /\ op' = op /\ op.kind = "update"
    BY <1>6 DEF UndoSave, At, Goto, IInv, KindAtStep
  <2>2. rec' = rec \/ rec' = [rec EXCEPT ![op.id] = op.was]
    BY <1>6 DEF UndoSave, Put, storeVars
  <2> QED BY <1>1, <1>2, <2>1, <2>2 DEF IInv, TypeOK
<1>7. CASE Crash
  <2>1. rec' = saved.rec /\ op' = NoOp /\ pc' = "idle"
    BY <1>7 DEF Crash
  <2> QED BY <1>3, <2>1 DEF IInv, RecordsSaved, NoOp
<1>8. CASE UndoRec \/ DropRec
  <2>1. op' = op /\ rec'[id] \in {rec[id], None} /\ pc # "idle"
    BY <1>8 DEF UndoRec, DropRec, Delete, Put, Lose, Without, Goto, End, At, storeVars, IInv, TypeOK
  <2> QED BY <1>3, <2>1
<1>9. CASE Fetch
  <2>1. rec' = rec /\ pc # "idle" /\ (op'.kind = "update" => op' = op)
    BY <1>9 DEF Fetch, At, storeVars, IInv, TypeOK
  <2> QED BY <1>3, <2>1
<1>10. CASE (\E p \in Ids : PageSet(p)) \/ UNCHANGED vars
  BY <1>3, <1>10 DEF PageSet, Put, vars, storeVars
<1>11. CASE Step /\ ~(Fetch \/ SaveRecord \/ UndoSave \/ UndoRec \/ DropRec)
  <2>1. rec' = rec /\ op' = op /\ pc # "idle"
    BY <1>11 DEF Step, Confirm, Deny, Grant, FetchFails, CheckInstall, CheckUpdate,
       RotateKey, TrustKey, RememberKey, MoveIn, Retire, Swap, BuildOk, BuildFails, Clean,
       UndoTree, UndoSettings, Rebuild, UndoOut, UndoIn, UndoClean, RemoveTree, DropSettings,
       ForgetKey, Refuse, Delete, Put, Lose, Goto, End, At, storeVars
  <2> QED BY <1>3, <2>1
<1> QED BY <1>4, <1>5, <1>6, <1>7, <1>8, <1>9, <1>10, <1>11 DEF Next

THEOREM NoRecordGoesBack == Spec => RecordsGoForward
<1> DEFINE Forward == \A id \in Ids : recorded[id] # None /\ recorded'[id] # None =>
                          SignedAt[recorded'[id]] >= SignedAt[recorded[id]]
<1>1. Init => SignedForward
  BY DEF Init, SignedForward
<1>2. IInv /\ SignedForward /\ [Next]_vars => SignedForward'
  BY SignedStep
<1>3. IInv /\ SignedForward /\ [Next]_vars => Forward
  <2> SUFFICES ASSUME IInv, SignedForward, [Next]_vars, NEW id \in Ids, recorded[id] # None, recorded'[id] # None
               PROVE  SignedAt[recorded'[id]] >= SignedAt[recorded[id]]
    OBVIOUS
  <2>1. recorded[id] \in Trees /\ rec[id] \in Trees /\ SignedAt[rec[id]] >= SignedAt[recorded[id]]
    BY RecordSupersedes
  <2>2. SignedAt[recorded[id]] \in Nat
    BY <2>1, ConstantsOK
  <2>3. recorded'[id] \in {recorded[id], rec[id]}
    BY <2>1, RecordedSteps, ConstantsOK
  <2> QED BY <2>1, <2>2, <2>3
<1> QED BY <1>1, <1>2, <1>3, Invariance, PTL DEF Spec, RecordsGoForward

(***************************************************************************)
(* Whatever fails and whenever the daemon dies, what is under plugins/<id>,*)
(* what the record of <id> describes, now or after a restart, and what the *)
(* pages load for <id>, is a tree that was signed for <id>: a rollback or  *)
(* a retry puts nothing of one plugin in the place of another (service.rs, *)
(* check_update: the candidate must declare the same id).                  *)
(***************************************************************************)
Of(t, id) == t \in Trees => PluginOf[t] = id

TreesAreAtHome ==
    \A id \in Ids : Of(tree[id], id) /\ Of(rec[id], id) /\ Of(saved.rec[id], id) /\ Of(bundle[id], id)

\* And what an operation has at hand to put back is of its own plugin.
SpareIsOwn == op.id \in Ids => Of(op.was, op.id) /\ Of(retired, op.id)

\* No operation starts with anything at hand.
NothingSpare == pc \in {"ask", "fetch"} => retired = None

HomeInv == TreesAreAtHome /\ SpareIsOwn

\* What a step that puts no tree anywhere leaves, and one that takes some away.
LEMMA HomeStays ==
    ASSUME HomeInv, op' = op \/ op'.id \notin Ids,
           \A id \in Ids : /\ tree'[id] \in {tree[id], None, Wreck}
                           /\ rec'[id] \in {rec[id], saved.rec[id], None}
                           /\ saved'.rec[id] \in {rec[id], saved.rec[id], None}
                           /\ bundle'[id] \in {bundle[id], tree[id], None},
           retired' \in {retired, None, Wreck}
    PROVE  HomeInv'
<1> USE ConstantsOK
<1>1. TreesAreAtHome'
  BY DEF HomeInv, TreesAreAtHome, Of
<1>2. SpareIsOwn'
  BY DEF HomeInv, SpareIsOwn, Of
<1> QED BY <1>1, <1>2 DEF HomeInv

LEMMA NothingSpareKept ==
    ASSUME NothingSpare, [Next]_vars
    PROVE  NothingSpare'
<1>1. CASE Begin
  BY <1>1 DEF Begin, StartInstall, StartUpdate, StartUninstall, StartForget, StartBuild, Start, NothingSpare
<1>2. CASE Confirm
  BY <1>2 DEF Confirm, Grant, At, NothingSpare, dirVars
<1>3. CASE (\E id \in Ids : PageSet(id)) \/ UNCHANGED vars
  BY <1>3 DEF PageSet, NothingSpare, vars, dirVars
<1>4. CASE Crash
  BY <1>4 DEF Crash, NothingSpare
<1>5. CASE Step /\ ~Confirm
  <2>1. pc' \notin {"ask", "fetch"}
    BY <1>5 DEF Step, Deny, Fetch, FetchFails, CheckInstall, CheckUpdate, RotateKey, TrustKey,
       RememberKey, MoveIn, Retire, Swap, SaveRecord, BuildOk, BuildFails, Clean, UndoTree, UndoRec,
       UndoSettings, Rebuild, UndoOut, UndoIn, UndoSave, UndoClean, RemoveTree, DropRec, DropSettings,
       ForgetKey, Refuse, Grant, Goto, End
  <2> QED BY <2>1 DEF NothingSpare
<1> QED BY <1>1, <1>2, <1>3, <1>4, <1>5 DEF Next

LEMMA HomeStep ==
    ASSUME IInv, HomeInv, NothingSpare, [Next]_vars
    PROVE  HomeInv'
<1> USE ConstantsOK
<1>1. CASE Begin
  <2>1. PICK kind \in Kinds, id \in Ids \cup {None}, key \in Keys \cup {None}, step \in {"ask", "build"} :
           Start(kind, id, key, step)
    BY <1>1 DEF Begin, StartInstall, StartUpdate, StartUninstall, StartForget, StartBuild, Kinds,
           IInv, TypeOK
  <2>2. /\ op'.id = id /\ op'.was = IF id = None THEN None ELSE rec[id]
        /\ retired' = None /\ UNCHANGED <<tree, rec, saved, bundle>>
    BY <2>1 DEF Start, storeVars
  <2> QED BY <2>2 DEF HomeInv, TreesAreAtHome, SpareIsOwn, Of
<1>2. CASE Fetch
  <2>1. PICK t \in Trees :
           op' = IF op.kind = "install"
                 THEN [op EXCEPT !.id = PluginOf[t], !.was = rec[PluginOf[t]]]
                 ELSE op
    BY <1>2 DEF Fetch
  <2>2. UNCHANGED <<tree, rec, saved, bundle, retired>>
    BY <1>2 DEF Fetch, storeVars
  <2>3. retired = None
    BY <1>2 DEF Fetch, At, NothingSpare
  <2>4. TreesAreAtHome'
    BY <2>2 DEF HomeInv, TreesAreAtHome, Of
  <2>5. CASE op.kind = "install"
    <3>1. op'.id = PluginOf[t] /\ op'.was = rec[PluginOf[t]] /\ PluginOf[t] \in Ids
      BY <2>1, <2>5 DEF IInv, TypeOK
    <3> QED BY <2>2, <2>3, <2>4, <3>1 DEF HomeInv, TreesAreAtHome, SpareIsOwn, Of
  <2>6. CASE op.kind # "install"
    BY <2>1, <2>2, <2>4, <2>6 DEF HomeInv, SpareIsOwn, Of
  <2> QED BY <2>5, <2>6
<1>3. CASE Refuse \/ Confirm \/ Deny \/ FetchFails
  BY <1>3, HomeStays DEF Refuse, Confirm, Deny, FetchFails, Grant, Goto, End, storeVars, dirVars
<1>4. CASE (CheckInstall \/ CheckUpdate \/ RotateKey \/ TrustKey \/ RememberKey) /\ ~Refuse
  <2>1. op' = op /\ UNCHANGED <<tree, rec, bundle, retired>>
        /\ (saved' = saved \/ saved'.rec = rec)
    BY <1>4 DEF CheckInstall, CheckUpdate, RotateKey, TrustKey, RememberKey, Grant, Goto, Put, Saved,
           storeVars, dirVars
  <2> QED BY <2>1, HomeStays
<1>5. CASE (MoveIn \/ Retire \/ Swap) /\ ~Refuse
  <2>1. op' = op /\ UNCHANGED <<rec, saved, bundle>> /\ op.id \in Ids
    BY <1>5 DEF MoveIn, Retire, Swap, Goto, End, At, storeVars, dirVars, IInv, SubjectKnown
  <2>2. CASE (MoveIn \/ Swap) /\ tree' = [tree EXCEPT ![op.id] = cand] /\ retired' = retired
    <3>1. Of(cand, op.id)
      BY <2>2 DEF MoveIn, Swap, At, IInv, CandidateVouched, Of
    <3> QED BY <2>1, <2>2, <3>1 DEF HomeInv, TreesAreAtHome, SpareIsOwn, IInv, TypeOK
  <2>3. CASE Swap /\ tree' = [tree EXCEPT ![op.id] = retired] /\ retired' = None
    BY <2>1, <2>3 DEF HomeInv, TreesAreAtHome, SpareIsOwn, Of, IInv, TypeOK
  <2>4. CASE retired' = tree[op.id] /\ tree' = Without(tree, op.id)
    BY <2>1, <2>4 DEF Without, HomeInv, TreesAreAtHome, SpareIsOwn, Of, IInv, TypeOK
  <2>5. CASE UNCHANGED <<tree, retired>>
    BY <2>1, <2>5, HomeStays
  <2> QED BY <1>5, <2>2, <2>3, <2>4, <2>5 DEF MoveIn, Retire, Swap, dirVars
<1>6. CASE SaveRecord \/ UndoSave
  <2>1. op' = op /\ op.id \in Ids /\ UNCHANGED <<tree, bundle, retired>>
    BY <1>6 DEF SaveRecord, UndoSave, Goto, End, At, dirVars, IInv, SubjectKnown
  <2>2. PICK t \in {tree[op.id], op.was} :
           \/ Put([rec EXCEPT ![op.id] = t], keys, settings)
           \/ UNCHANGED storeVars
    BY <1>6 DEF SaveRecord, UndoSave
  <2>3. Of(t, op.id)
    BY <2>1 DEF HomeInv, TreesAreAtHome, SpareIsOwn
  <2>4. CASE Put([rec EXCEPT ![op.id] = t], keys, settings)
    BY <2>1, <2>3, <2>4 DEF Put, Saved, HomeInv, TreesAreAtHome, SpareIsOwn, IInv, TypeOK
  <2>5. CASE UNCHANGED storeVars
    BY <2>1, <2>5, HomeStays DEF storeVars
  <2> QED BY <2>2, <2>4, <2>5
<1>7. CASE BuildOk \/ BuildFails \/ Rebuild \/ Clean
  <2>1. op' = op /\ UNCHANGED <<tree, rec, saved>>
    BY <1>7 DEF BuildOk, BuildFails, Rebuild, Clean, Goto, End, storeVars, dirVars
  <2>2. retired' \in {retired, None, Wreck}
    BY <1>7 DEF BuildOk, BuildFails, Rebuild, Clean, Removal, dirVars
  <2>3. bundle' = bundle \/ bundle' = InBundle
    BY <1>7 DEF BuildOk, BuildFails, Rebuild, Clean, Built, NotBuilt
  <2>4. \A id \in Ids : bundle'[id] \in {bundle[id], tree[id], None}
    BY <2>3 DEF InBundle
  <2> QED BY <2>1, <2>2, <2>4, HomeStays
<1>8. CASE UndoTree \/ UndoOut \/ UndoIn \/ UndoClean \/ RemoveTree
  <2>1. op' = op /\ UNCHANGED <<rec, saved, bundle>> /\ op.id \in Ids
    BY <1>8 DEF UndoTree, UndoOut, UndoIn, UndoClean, RemoveTree, Goto, End, At, storeVars, IInv,
           SubjectKnown
  <2>2. CASE UndoIn /\ tree' = [tree EXCEPT ![op.id] = retired] /\ retired' = None
    BY <2>1, <2>2 DEF HomeInv, TreesAreAtHome, SpareIsOwn, Of, IInv, TypeOK
  <2>3. CASE ~(UndoIn /\ tree' = [tree EXCEPT ![op.id] = retired] /\ retired' = None)
    <3>1. \A id \in Ids : tree'[id] \in {tree[id], None, Wreck}
      BY <1>8, <2>3 DEF UndoTree, UndoOut, UndoIn, UndoClean, RemoveTree, Removal, Without, IInv, TypeOK
    <3>2. retired' \in {retired, None, Wreck}
      BY <1>8, <2>3 DEF UndoTree, UndoOut, UndoIn, UndoClean, RemoveTree, Removal
    <3> QED BY <2>1, <3>1, <3>2, HomeStays
  <2> QED BY <2>2, <2>3
<1>9. CASE UndoRec \/ UndoSettings \/ DropRec \/ DropSettings \/ ForgetKey
  <2>1. op' = op /\ UNCHANGED <<tree, bundle, retired>>
    BY <1>9 DEF UndoRec, UndoSettings, DropRec, DropSettings, ForgetKey, Goto, End, dirVars
  <2>2. PICK r, k, s, ok : r \in {rec, Without(rec, op.id)} /\ Delete(r, k, s, ok)
    BY <1>9 DEF UndoRec, UndoSettings, DropRec, DropSettings, ForgetKey
  <2>3. \A id \in Ids : r[id] \in {rec[id], None}
    BY <2>2 DEF Without, IInv, TypeOK
  <2>4. (rec' = rec \/ rec' = r) /\ (saved' = saved \/ saved'.rec = r)
    BY <2>2 DEF Delete, Put, Lose, Saved, storeVars
  <2> QED BY <2>1, <2>3, <2>4, HomeStays
<1>10. CASE (\E id \in Ids : PageSet(id)) \/ UNCHANGED vars
  <2>1. op' = op /\ UNCHANGED <<tree, bundle, retired, rec>> /\ (saved' = saved \/ saved'.rec = rec)
    BY <1>10 DEF PageSet, Put, Saved, vars, storeVars, dirVars
  <2> QED BY <2>1, HomeStays
<1>11. CASE Crash
  <2>1. op'.id \notin Ids /\ retired' = None /\ rec' = saved.rec /\ saved' = saved /\ bundle' = bundle
    BY <1>11 DEF Crash, NoOp
  <2>2. \A id \in Ids : tree'[id] \in {tree[id], None, Wreck}
    BY <1>11 DEF Crash, IInv, TypeOK
  <2> QED BY <2>1, <2>2, HomeStays
<1> QED BY <1>1, <1>2, <1>3, <1>4, <1>5, <1>6, <1>7, <1>8, <1>9, <1>10, <1>11 DEF Next, Step

THEOREM EachPluginHasItsOwn == Spec => []TreesAreAtHome
<1>1. Init => HomeInv /\ NothingSpare
  BY ConstantsOK DEF Init, HomeInv, TreesAreAtHome, SpareIsOwn, NothingSpare, Of, Nothing, Saved, NoOp
<1>2. HomeInv => TreesAreAtHome
  BY DEF HomeInv
<1> QED BY <1>1, <1>2, HomeStep, NothingSpareKept, Invariance, PTL DEF Spec

(***************************************************************************)
(* How many steps can follow each step of an operation.                    *)
(***************************************************************************)
StepsLeft ==
    [idle |-> 0, rebuild |-> 1, clean |-> 1, forget |-> 1, undo_clean |-> 2, undo_save |-> 3,
     undo_in |-> 4, undo_out |-> 5, undo_settings |-> 2, undo_rec |-> 3, undo_tree |-> 4,
     build |-> 6, save |-> 7, swap |-> 8, move |-> 8, retire |-> 9, remember |-> 10, trust |-> 11,
     rotate |-> 12, check |-> 13, fetch |-> 14, ask |-> 15,
     drop_settings |-> 7, drop_rec |-> 8, remove |-> 9]

(***************************************************************************)
(* Nothing is tried again while the mutex is held: whatever fails, each    *)
(* step of an operation leaves fewer to come, so that at most fifteen      *)
(* follow a prompt (service.rs: no step retries, and a rollback that fails *)
(* goes on to the next of its steps).  A page's settings move no operation.*)
(***************************************************************************)
OperationsAdvance ==
    [][pc # "idle" => (\E id \in Ids : PageSet(id)) \/ StepsLeft[pc'] < StepsLeft[pc]]_vars

THEOREM NoStepIsRepeated == Spec => OperationsAdvance
<1> DEFINE Falls == StepsLeft[pc'] < StepsLeft[pc]
<1>1. ASSUME IInv, Next, pc # "idle"
      PROVE  (\E id \in Ids : PageSet(id)) \/ Falls
  <2>1. ~Begin
    BY <1>1 DEF Begin, StartInstall, StartUpdate, StartUninstall, StartForget, StartBuild, Start, At
  <2>2. pc' = "idle" => Falls
    BY <1>1 DEF IInv, TypeOK, Steps, StepsLeft
  <2>3. CASE Deny \/ FetchFails \/ Refuse \/ Clean \/ Rebuild \/ ForgetKey \/ Crash
    BY <2>2, <2>3 DEF Deny, FetchFails, Refuse, Clean, Rebuild, ForgetKey, Crash, End
  <2>4. CASE (Confirm \/ Fetch \/ CheckInstall \/ CheckUpdate \/ RotateKey \/ TrustKey \/ RememberKey) /\ ~Refuse
    <3>1. CASE Confirm \/ Fetch
      <4>1. CASE Confirm
        <5>1. pc = "ask" /\ pc' \in {"fetch", "remove", "forget"}
          BY <4>1 DEF Confirm, Grant, Goto, At
        <5> QED BY <5>1 DEF StepsLeft
      <4>2. CASE Fetch
        <5>1. pc = "fetch" /\ pc' = "check"
          BY <4>2 DEF Fetch, At
        <5> QED BY <5>1 DEF StepsLeft
      <4> QED BY <3>1, <4>1, <4>2
    <3>2. CASE (CheckInstall \/ CheckUpdate) /\ ~Refuse
      BY <3>2 DEF CheckInstall, CheckUpdate, Goto, At, StepsLeft
    <3>3. CASE (RotateKey \/ TrustKey \/ RememberKey) /\ ~Refuse
      BY <3>3 DEF RotateKey, TrustKey, RememberKey, Grant, Goto, At, StepsLeft
    <3> QED BY <2>4, <3>1, <3>2, <3>3
  <2>5. CASE (MoveIn \/ Retire \/ Swap \/ SaveRecord) /\ ~Refuse
    BY <2>2, <2>5 DEF MoveIn, Retire, Swap, SaveRecord, Goto, End, At, StepsLeft
  <2>6. CASE BuildOk \/ BuildFails
    BY <2>2, <2>6 DEF BuildOk, BuildFails, Goto, End, At, StepsLeft
  <2>7. CASE UndoTree \/ UndoRec \/ UndoSettings \/ UndoOut \/ UndoIn \/ UndoSave \/ UndoClean
    BY <2>7 DEF UndoTree, UndoRec, UndoSettings, UndoOut, UndoIn, UndoSave, UndoClean, Goto, At, StepsLeft
  <2>8. CASE RemoveTree \/ DropRec \/ DropSettings
    BY <2>2, <2>8 DEF RemoveTree, DropRec, DropSettings, Goto, End, At, StepsLeft
  <2> QED BY <1>1, <2>1, <2>3, <2>4, <2>5, <2>6, <2>7, <2>8 DEF Next, Step
<1>2. IInv /\ Next => (pc # "idle" => (\E id \in Ids : PageSet(id)) \/ Falls)
  BY <1>1
<1>3. IInv /\ [Next]_vars =>
          [pc # "idle" => (\E id \in Ids : PageSet(id)) \/ StepsLeft[pc'] < StepsLeft[pc]]_vars
  BY <1>2
<1> QED BY <1>3, Invariance, PTL DEF Spec, OperationsAdvance

-----------------------------------------------------------------------------
(* While the file system does not fail *)

(***************************************************************************)
(* Nothing fails but builds.                                               *)
(***************************************************************************)
Quiet == Faults \subseteq {"build"}

\* The record describes the tree, but for the plugin at hand between a move and the
\* write of its record, either way.
Between == {"swap", "save", "undo_rec", "undo_in", "undo_save", "drop_rec"}

RecordDescribes ==
    /\ tree \in [Ids -> Installable]
    /\ \A id \in Ids : rec[id] = tree[id] \/ (pc \in Between /\ id = op.id)

\* Where the tree of the plugin at hand is.
TreeAtStep ==
    /\ pc \in {"ask", "fetch", "check", "rotate", "trust", "remember", "move", "retire", "remove",
               "undo_save", "undo_clean", "rebuild"} /\ op.id # None => tree[op.id] = op.was
    /\ pc \in {"swap", "undo_rec", "undo_settings", "undo_in", "drop_rec", "drop_settings"} =>
            tree[op.id] = None
    /\ pc = "build" /\ op.kind = "uninstall" => tree[op.id] = None
    /\ pc \in {"trust", "remember", "move", "save", "build", "undo_tree", "undo_rec", "undo_settings"}
            /\ op.kind = "install" => op.was = None
    /\ op.kind \in {"build", "forget_key"} => op.id = None

\* What is in the temporary directories.
Swapping == pc \in {"swap", "clean", "undo_out", "undo_in"}
            \/ (pc \in {"save", "build"} /\ op.kind = "update")

ScratchAtStep ==
    /\ retired = IF Swapping THEN op.was ELSE None
    /\ pc \notin {"undo_in", "undo_save", "undo_clean"} => failed = None
    /\ pc \notin {"check", "rotate", "trust", "remember", "move", "retire", "swap"} => cand = None

AnnouncedAtStep ==
    pc \in {"idle", "ask", "fetch", "check", "rotate", "trust", "remember", "move", "retire",
            "build", "clean", "rebuild", "forget", "remove"} => pushed = Listed(rec, tree)

\* What an update puts in place is no older than what it replaces.
NoOlder(t) == VersionOf[t] >= VersionOf[op.was] /\ SignedAt[t] >= SignedAt[op.was]

GoesForward ==
    /\ pc \in {"rotate", "trust", "remember", "retire", "swap"} /\ op.kind = "update" => NoOlder(cand)
    /\ pc \in {"save", "build"} /\ op.kind = "update" => NoOlder(tree[op.id])
    /\ pc \in {"save", "build"} /\ op.kind \in {"install", "update"} => PluginOf[tree[op.id]] = op.id

QuietInv ==
    RecordDescribes /\ TreeAtStep /\ ScratchAtStep /\ AnnouncedAtStep /\ GoesForward


\* What that leaves of a failure, of a removal and of a delete.
LEMMA QuietFaults ==
    ASSUME Quiet
    PROVE  /\ ~MayFail("temp") /\ ~MayFail("rename") /\ ~MayFail("remove")
           /\ ~MayFail("save") /\ ~MayFail("delete") /\ ~MayFail("crash")
           /\ \A t : Removal(t) = {None}
           /\ \A r, k, s, ok : Delete(r, k, s, ok) => ok /\ rec' = r
<1>1. /\ ~MayFail("temp") /\ ~MayFail("rename") /\ ~MayFail("remove")
      /\ ~MayFail("save") /\ ~MayFail("delete") /\ ~MayFail("crash")
  BY DEF Quiet, MayFail
<1>2. \A t : Removal(t) = {None}
  BY <1>1 DEF Removal
<1>3. ASSUME NEW r, NEW k, NEW s, NEW ok, Delete(r, k, s, ok) PROVE ok /\ rec' = r
  BY <1>1, <1>3 DEF Delete, Put, storeVars
<1> QED BY <1>1, <1>2, <1>3

LEMMA QuietStarts == Init => QuietInv
BY ConstantsOK DEF Init, QuietInv, RecordDescribes, TreeAtStep, ScratchAtStep, AnnouncedAtStep,
       GoesForward, Swapping, Nothing, NoOp, Listed, Installable

\* Taking the mutex.
LEMMA QuietBegins ==
    ASSUME Quiet, IInv, QuietInv, Begin
    PROVE  QuietInv'
<1> USE ConstantsOK
<1>1. PICK kind \in Kinds, id \in Ids \cup {None}, key \in Keys \cup {None}, step \in {"ask", "build"} :
         /\ Start(kind, id, key, step)
         /\ step = "build" => kind = "build"
         /\ kind \in {"build", "forget_key"} => id = None
  BY DEF Begin, StartInstall, StartUpdate, StartUninstall, StartForget, StartBuild, Kinds, IInv, TypeOK
<1>2. /\ op'.kind = kind /\ op'.id = id /\ op'.was = (IF id = None THEN None ELSE rec[id])
      /\ pc = "idle" /\ pc' = step /\ cand' = None /\ retired' = None /\ failed' = None
      /\ UNCHANGED <<rec, tree, pushed>>
  BY <1>1 DEF Start, At, storeVars
<1>3. RecordDescribes' /\ AnnouncedAtStep'
  BY <1>2 DEF QuietInv, RecordDescribes, AnnouncedAtStep, Between, Listed
<1>4. TreeAtStep' /\ ScratchAtStep' /\ GoesForward'
  BY <1>1, <1>2 DEF QuietInv, RecordDescribes, Between, TreeAtStep, ScratchAtStep, GoesForward, Swapping
<1> QED BY <1>3, <1>4 DEF QuietInv

\* An operation that ends before it has touched anything.
LEMMA QuietRefusal ==
    ASSUME QuietInv, pc \in {"ask", "fetch", "check", "rotate", "trust", "remember", "move", "retire"},
           pc' = "idle", cand' = None, UNCHANGED <<op, rec, tree, retired, failed, pushed>>
    PROVE  QuietInv'
<1>1. RecordDescribes' /\ AnnouncedAtStep'
  BY DEF QuietInv, RecordDescribes, AnnouncedAtStep, Between, Listed
<1>2. TreeAtStep' /\ ScratchAtStep' /\ GoesForward'
  BY DEF QuietInv, TreeAtStep, ScratchAtStep, GoesForward, Swapping
<1> QED BY <1>1, <1>2 DEF QuietInv

\* A step up to the moves that touches no tree and no record.
LEMMA QuietAdvance ==
    ASSUME IInv, QuietInv,
           <<pc, pc'>> \in {<<"ask", "fetch">>, <<"ask", "remove">>, <<"ask", "forget">>,
                            <<"check", "rotate">>, <<"check", "trust">>, <<"rotate", "trust">>,
                            <<"trust", "remember">>, <<"remember", "move">>, <<"remember", "retire">>},
           pc = "check" => IF op.kind = "update" THEN NoOlder(cand) ELSE Vacant,
           UNCHANGED <<op, rec, tree, cand, retired, failed, pushed>>
    PROVE  QuietInv'
<1>1. RecordDescribes' /\ AnnouncedAtStep'
  BY DEF QuietInv, RecordDescribes, AnnouncedAtStep, Between, Listed
<1>2. TreeAtStep' /\ ScratchAtStep'
  BY ConstantsOK DEF QuietInv, TreeAtStep, ScratchAtStep, Swapping, IInv, KindAtStep, SubjectKnown, TypeOK, Vacant
<1>3. GoesForward'
  BY DEF QuietInv, GoesForward, NoOlder, IInv, KindAtStep
<1> QED BY <1>1, <1>2, <1>3 DEF QuietInv

LEMMA QuietPrompts ==
    ASSUME Quiet, IInv, QuietInv, Confirm \/ Deny \/ FetchFails \/ Fetch
    PROVE  QuietInv'
<1>1. CASE Confirm
  BY <1>1, QuietAdvance DEF Confirm, Grant, Goto, At, storeVars, dirVars
<1>2. CASE Deny
  BY <1>2, QuietRefusal DEF Deny, End, At, storeVars, dirVars, QuietInv, ScratchAtStep
<1>3. CASE FetchFails
  BY <1>3, QuietFaults, QuietRefusal DEF FetchFails, End, At, storeVars
<1>4. CASE Fetch
  <2>1. PICK t \in Trees :
           /\ cand' = t /\ pc' = "check"
           /\ op' = IF op.kind = "install"
                    THEN [op EXCEPT !.id = PluginOf[t], !.was = rec[PluginOf[t]]]
                    ELSE op
    BY <1>4 DEF Fetch
  <2>2. pc = "fetch" /\ UNCHANGED <<rec, tree, retired, failed, pushed>>
    BY <1>4 DEF Fetch, At, storeVars
  <2>3. /\ op'.kind = op.kind
        /\ op.kind # "install" => op'.id = op.id /\ op'.was = op.was
        /\ op.kind = "install" => op'.id = PluginOf[t] /\ op'.was = rec[PluginOf[t]] /\ PluginOf[t] \in Ids
    BY <2>1, ConstantsOK DEF IInv, TypeOK
  <2>4. RecordDescribes' /\ AnnouncedAtStep'
    BY <2>1, <2>2 DEF QuietInv, RecordDescribes, AnnouncedAtStep, Between, Listed
  <2>5. TreeAtStep'
    BY <2>1, <2>2, <2>3 DEF QuietInv, RecordDescribes, Between, TreeAtStep, IInv, KindAtStep
  <2>6. ScratchAtStep' /\ GoesForward'
    BY <2>1, <2>2 DEF QuietInv, ScratchAtStep, Swapping, GoesForward
  <2> QED BY <2>4, <2>5, <2>6 DEF QuietInv
<1> QED BY <1>1, <1>2, <1>3, <1>4

LEMMA QuietChecks ==
    ASSUME Quiet, IInv, QuietInv, CheckInstall \/ CheckUpdate \/ RotateKey \/ TrustKey \/ RememberKey
    PROVE  QuietInv'
<1>1. ASSUME Refuse, pc \in {"check", "rotate", "trust", "remember"} PROVE QuietInv'
  BY <1>1, QuietFaults, QuietRefusal DEF Refuse, End, storeVars
<1>2. CASE CheckInstall
  BY <1>1, <1>2, QuietAdvance DEF CheckInstall, Goto, At, storeVars, dirVars
<1>3. CASE CheckUpdate
  <2>1. CASE Refuse
    BY <1>1, <1>3, <2>1 DEF CheckUpdate, At
  <2>2. CASE ~Refuse
    <3>1. op.kind = "update" /\ pc = "check" /\ NotDowngraded
          /\ pc' \in {"rotate", "trust"} /\ UNCHANGED <<op, rec, tree, cand, retired, failed, pushed>>
      BY <1>3, <2>2 DEF CheckUpdate, Goto, At, storeVars, dirVars
    <3>2. tree[op.id] = op.was /\ op.was \in Trees
      BY <3>1, ConstantsOK DEF IInv, SubjectKnown, QuietInv, TreeAtStep
    <3>3. NoOlder(cand)
      BY <3>1, <3>2 DEF NotDowngraded, NoOlder
    <3> QED BY <3>1, <3>3, QuietAdvance
  <2> QED BY <2>1, <2>2
<1>4. CASE RotateKey
  BY <1>1, <1>4, QuietAdvance DEF RotateKey, Grant, Goto, At, storeVars, dirVars
<1>5. CASE TrustKey
  BY <1>1, <1>5, QuietAdvance DEF TrustKey, Goto, At, storeVars, dirVars
<1>6. CASE RememberKey
  BY <1>1, <1>6, QuietAdvance DEF RememberKey, Put, Goto, At, dirVars
<1> QED BY <1>2, <1>3, <1>4, <1>5, <1>6


\* The moves: the tree and the record of the plugin at hand, and of no other.
LEMMA QuietMoves ==
    ASSUME Quiet, IInv, QuietInv, MoveIn \/ Retire \/ Swap \/ SaveRecord
    PROVE  QuietInv'
<1> USE ConstantsOK
<1>a. tree \in [Ids -> OnDisk] /\ rec \in [Ids -> Installable] /\ rec \in [Ids -> Installable]
  BY DEF IInv, TypeOK
<1>1. CASE MoveIn
  <2>1. /\ pc = "move" /\ pc' = "save" /\ tree' = [tree EXCEPT ![op.id] = cand] /\ cand' = None
        /\ UNCHANGED <<op, rec, retired, failed, pushed>>
    BY <1>1, QuietFaults DEF MoveIn, Goto, At, storeVars
  <2>2. cand \in Trees /\ op.id \in Ids /\ PluginOf[cand] = op.id /\ op.kind = "install"
    BY <2>1 DEF IInv, TypeOK, SubjectKnown, CandidateVouched, KindAtStep
  <2>3. RecordDescribes' /\ AnnouncedAtStep'
    BY <1>a, <2>1, <2>2 DEF QuietInv, RecordDescribes, AnnouncedAtStep, Between, Installable
  <2>4. TreeAtStep' /\ ScratchAtStep'
    BY <2>1, <2>2 DEF QuietInv, TreeAtStep, ScratchAtStep, Swapping
  <2>5. GoesForward'
    BY <1>a, <2>1, <2>2 DEF GoesForward
  <2> QED BY <2>3, <2>4, <2>5 DEF QuietInv
<1>2. CASE Retire
  <2>1. /\ pc = "retire" /\ op.kind = "update" /\ op.id \in Ids /\ op.was \in Trees
        /\ tree[op.id] = op.was
    BY <1>2 DEF Retire, At, IInv, SubjectKnown, KindAtStep, QuietInv, TreeAtStep
  <2>2. /\ pc' = "swap" /\ tree' = [tree EXCEPT ![op.id] = None] /\ retired' = op.was
        /\ UNCHANGED <<op, rec, cand, failed, pushed>>
    BY <1>2, <2>1, QuietFaults DEF Retire, Without, Goto, storeVars
  <2>3. RecordDescribes' /\ AnnouncedAtStep'
    BY <1>a, <2>1, <2>2 DEF QuietInv, RecordDescribes, AnnouncedAtStep, Between, Installable
  <2>4. TreeAtStep' /\ ScratchAtStep'
    BY <1>a, <2>1, <2>2 DEF QuietInv, TreeAtStep, ScratchAtStep, Swapping
  <2>5. GoesForward'
    BY <2>1, <2>2 DEF QuietInv, GoesForward, NoOlder
  <2> QED BY <2>3, <2>4, <2>5 DEF QuietInv
<1>3. CASE Swap
  <2>1. /\ pc = "swap" /\ pc' = "save" /\ tree' = [tree EXCEPT ![op.id] = cand] /\ cand' = None
        /\ UNCHANGED <<op, rec, retired, failed, pushed>>
    BY <1>3, QuietFaults DEF Swap, Goto, At, storeVars
  <2>2. cand \in Trees /\ op.id \in Ids /\ PluginOf[cand] = op.id /\ op.kind = "update"
    BY <2>1 DEF IInv, TypeOK, SubjectKnown, CandidateVouched, KindAtStep
  <2>3. RecordDescribes' /\ AnnouncedAtStep'
    BY <1>a, <2>1, <2>2 DEF QuietInv, RecordDescribes, AnnouncedAtStep, Between, Installable
  <2>4. TreeAtStep' /\ ScratchAtStep'
    BY <2>1, <2>2 DEF QuietInv, TreeAtStep, ScratchAtStep, Swapping
  <2>5. tree'[op.id] = cand
    BY <1>a, <2>1, <2>2
  <2>6. GoesForward'
    BY <2>1, <2>2, <2>5 DEF QuietInv, GoesForward, NoOlder
  <2> QED BY <2>3, <2>4, <2>6 DEF QuietInv
<1>4. CASE SaveRecord
  <2>1. /\ pc = "save" /\ pc' = "build" /\ rec' = [rec EXCEPT ![op.id] = tree[op.id]]
        /\ pushed' = Listed(rec', tree) /\ UNCHANGED <<op, tree, cand, retired, failed>>
    BY <1>4, QuietFaults DEF SaveRecord, Put, PushInstalled, Goto, At, dirVars
  <2>2. op.id \in Ids /\ op.kind \in {"install", "update"}
    BY <2>1 DEF IInv, SubjectKnown, KindAtStep
  <2>3. RecordDescribes' /\ AnnouncedAtStep'
    BY <1>a, <2>1, <2>2 DEF QuietInv, RecordDescribes, AnnouncedAtStep, Listed
  <2>4. TreeAtStep' /\ ScratchAtStep'
    BY <2>1, <2>2 DEF QuietInv, TreeAtStep, ScratchAtStep, Swapping
  <2>5. GoesForward'
    BY <2>1, <2>2 DEF QuietInv, GoesForward, NoOlder
  <2> QED BY <2>3, <2>4, <2>5 DEF QuietInv
<1> QED BY <1>1, <1>2, <1>3, <1>4

LEMMA QuietBuilds ==
    ASSUME Quiet, IInv, QuietInv, BuildOk \/ BuildFails \/ Clean \/ Rebuild
    PROVE  QuietInv'
<1> USE ConstantsOK
<1>1. /\ UNCHANGED <<op, rec, tree, cand, failed, pushed>>
      /\ \/ /\ pc = "build" /\ retired' = retired
            /\ \/ op.kind = "update" /\ pc' \in {"clean", "undo_out"}
               \/ op.kind = "install" /\ pc' \in {"idle", "undo_tree"}
               \/ op.kind \in {"uninstall", "build"} /\ pc' = "idle"
         \/ pc = "clean" /\ pc' = "idle" /\ retired' = None
         \/ pc = "rebuild" /\ pc' = "idle" /\ retired' = retired
  <2>1. CASE BuildOk
    BY <2>1 DEF BuildOk, Goto, End, At, storeVars, dirVars, IInv, KindAtStep
  <2>2. CASE BuildFails
    BY <2>2, QuietFaults DEF BuildFails, Goto, End, At, storeVars
  <2>3. CASE Clean
    BY <2>3, QuietFaults DEF Clean, End, At, storeVars
  <2>4. CASE Rebuild
    BY <2>4 DEF Rebuild, End, At, storeVars, dirVars
  <2> QED BY <2>1, <2>2, <2>3, <2>4
<1>2. RecordDescribes' /\ AnnouncedAtStep'
  BY <1>1 DEF QuietInv, RecordDescribes, AnnouncedAtStep, Between, Listed
<1>3. TreeAtStep'
  BY <1>1 DEF QuietInv, TreeAtStep
<1>4. ScratchAtStep' /\ GoesForward'
  BY <1>1 DEF QuietInv, ScratchAtStep, Swapping, GoesForward
<1> QED BY <1>2, <1>3, <1>4 DEF QuietInv

\* An install that does not build is taken back.
LEMMA QuietUndoneInstall ==
    ASSUME Quiet, IInv, QuietInv, UndoTree \/ UndoRec \/ UndoSettings
    PROVE  QuietInv'
<1> USE ConstantsOK
<1>a. tree \in [Ids -> Installable] /\ rec \in [Ids -> Installable] /\ op.id \in Ids /\ op.kind = "install"
  BY DEF IInv, TypeOK, QuietInv, RecordDescribes, UndoTree, UndoRec, UndoSettings, At, SubjectKnown, KindAtStep
<1>1. CASE UndoTree
  <2>1. /\ pc = "undo_tree" /\ pc' = "undo_rec" /\ tree' = [tree EXCEPT ![op.id] = None]
        /\ UNCHANGED <<op, rec, cand, retired, failed, pushed>>
    BY <1>1, QuietFaults DEF UndoTree, Goto, At, storeVars
  <2>2. RecordDescribes' /\ AnnouncedAtStep'
    BY <1>a, <2>1 DEF QuietInv, RecordDescribes, AnnouncedAtStep, Between, Installable
  <2>3. TreeAtStep' /\ ScratchAtStep' /\ GoesForward'
    BY <1>a, <2>1 DEF QuietInv, TreeAtStep, ScratchAtStep, Swapping, GoesForward
  <2> QED BY <2>2, <2>3 DEF QuietInv
<1>2. CASE UndoRec
  <2>1. /\ pc = "undo_rec" /\ pc' = "undo_settings" /\ rec' = [rec EXCEPT ![op.id] = None]
        /\ UNCHANGED <<op, tree, cand, retired, failed, pushed>>
    BY <1>2, QuietFaults DEF UndoRec, Without, Goto, At, dirVars
  <2>2. RecordDescribes' /\ AnnouncedAtStep'
    BY <1>a, <2>1 DEF QuietInv, RecordDescribes, TreeAtStep, AnnouncedAtStep
  <2>3. TreeAtStep' /\ ScratchAtStep' /\ GoesForward'
    BY <1>a, <2>1 DEF QuietInv, TreeAtStep, ScratchAtStep, Swapping, GoesForward
  <2> QED BY <2>2, <2>3 DEF QuietInv
<1>3. CASE UndoSettings
  <2>1. /\ pc = "undo_settings" /\ pc' = "rebuild" /\ rec' = rec /\ pushed' = Listed(rec, tree)
        /\ UNCHANGED <<op, tree, cand, retired, failed>>
    BY <1>3, QuietFaults DEF UndoSettings, PushInstalled, Goto, At, dirVars
  <2>2. RecordDescribes' /\ AnnouncedAtStep'
    BY <1>a, <2>1 DEF QuietInv, RecordDescribes, AnnouncedAtStep, Between, Listed
  <2>3. TreeAtStep' /\ ScratchAtStep' /\ GoesForward'
    BY <1>a, <2>1 DEF QuietInv, TreeAtStep, ScratchAtStep, Swapping, GoesForward
  <2> QED BY <2>2, <2>3 DEF QuietInv
<1> QED BY <1>1, <1>2, <1>3

\* And so is an update.
LEMMA QuietUndoneUpdate ==
    ASSUME Quiet, IInv, QuietInv, UndoOut \/ UndoIn \/ UndoSave \/ UndoClean
    PROVE  QuietInv'
<1> USE ConstantsOK
<1>a. /\ tree \in [Ids -> Installable] /\ rec \in [Ids -> Installable] /\ op.id \in Ids
      /\ op.kind = "update" /\ op.was \in Trees
  BY DEF IInv, TypeOK, QuietInv, RecordDescribes, UndoOut, UndoIn, UndoSave, UndoClean, At, SubjectKnown,
         KindAtStep
<1>1. CASE UndoOut
  <2>1. /\ pc = "undo_out" /\ pc' = "undo_in" /\ tree' = [tree EXCEPT ![op.id] = None]
        /\ UNCHANGED <<op, rec, cand, retired, pushed>>
    BY <1>1, QuietFaults DEF UndoOut, Without, Goto, At, storeVars
  <2>2. RecordDescribes' /\ AnnouncedAtStep'
    BY <1>a, <2>1 DEF QuietInv, RecordDescribes, AnnouncedAtStep, Between, Installable
  <2>3. TreeAtStep' /\ ScratchAtStep' /\ GoesForward'
    BY <1>a, <2>1 DEF QuietInv, TreeAtStep, ScratchAtStep, Swapping, GoesForward
  <2> QED BY <2>2, <2>3 DEF QuietInv
<1>2. CASE UndoIn
  <2>1. /\ pc = "undo_in" /\ pc' = "undo_save" /\ tree' = [tree EXCEPT ![op.id] = retired]
        /\ retired' = None /\ UNCHANGED <<op, rec, cand, failed, pushed>>
    BY <1>2, QuietFaults DEF UndoIn, Goto, At, storeVars
  <2>2. retired = op.was
    BY <2>1 DEF QuietInv, ScratchAtStep, Swapping
  <2>3. RecordDescribes' /\ AnnouncedAtStep'
    BY <1>a, <2>1, <2>2 DEF QuietInv, RecordDescribes, AnnouncedAtStep, Between, Installable
  <2>4. TreeAtStep' /\ ScratchAtStep' /\ GoesForward'
    BY <1>a, <2>1, <2>2 DEF QuietInv, TreeAtStep, ScratchAtStep, Swapping, GoesForward
  <2> QED BY <2>3, <2>4 DEF QuietInv
<1>3. CASE UndoSave
  <2>1. /\ pc = "undo_save" /\ pc' = "undo_clean" /\ rec' = [rec EXCEPT ![op.id] = op.was]
        /\ UNCHANGED <<op, tree, cand, retired, failed, pushed>>
    BY <1>3, QuietFaults DEF UndoSave, Put, Goto, At, dirVars
  <2>2. RecordDescribes' /\ AnnouncedAtStep'
    BY <1>a, <2>1 DEF QuietInv, RecordDescribes, TreeAtStep, AnnouncedAtStep
  <2>3. TreeAtStep' /\ ScratchAtStep' /\ GoesForward'
    BY <1>a, <2>1 DEF QuietInv, TreeAtStep, ScratchAtStep, Swapping, GoesForward
  <2> QED BY <2>2, <2>3 DEF QuietInv
<1>4. CASE UndoClean
  <2>1. /\ pc = "undo_clean" /\ pc' = "rebuild" /\ rec' = rec /\ pushed' = Listed(rec, tree)
        /\ failed' = None /\ retired' = None /\ UNCHANGED <<op, tree, cand>>
    BY <1>4, QuietFaults DEF UndoClean, PushInstalled, Goto, At, storeVars
  <2>2. RecordDescribes' /\ AnnouncedAtStep'
    BY <1>a, <2>1 DEF QuietInv, RecordDescribes, AnnouncedAtStep, Between, Listed
  <2>3. TreeAtStep' /\ ScratchAtStep' /\ GoesForward'
    BY <1>a, <2>1 DEF QuietInv, TreeAtStep, ScratchAtStep, Swapping, GoesForward
  <2> QED BY <2>2, <2>3 DEF QuietInv
<1> QED BY <1>1, <1>2, <1>3, <1>4

LEMMA QuietRemovals ==
    ASSUME Quiet, IInv, QuietInv, RemoveTree \/ DropRec \/ DropSettings
    PROVE  QuietInv'
<1> USE ConstantsOK
<1>a. /\ tree \in [Ids -> Installable] /\ rec \in [Ids -> Installable] /\ op.id \in Ids
      /\ op.kind = "uninstall"
  BY DEF IInv, TypeOK, QuietInv, RecordDescribes, RemoveTree, DropRec, DropSettings, At, SubjectKnown, KindAtStep
<1>1. CASE RemoveTree
  <2>1. /\ pc = "remove" /\ pc' = "drop_rec" /\ tree' = [tree EXCEPT ![op.id] = None]
        /\ UNCHANGED <<op, rec, cand, retired, failed, pushed>>
    BY <1>1, QuietFaults DEF RemoveTree, Goto, At, storeVars
  <2>2. RecordDescribes' /\ AnnouncedAtStep'
    BY <1>a, <2>1 DEF QuietInv, RecordDescribes, AnnouncedAtStep, Between, Installable
  <2>3. TreeAtStep' /\ ScratchAtStep' /\ GoesForward'
    BY <1>a, <2>1 DEF QuietInv, TreeAtStep, ScratchAtStep, Swapping, GoesForward
  <2> QED BY <2>2, <2>3 DEF QuietInv
<1>2. CASE DropRec
  <2>1. /\ pc = "drop_rec" /\ pc' = "drop_settings" /\ rec' = [rec EXCEPT ![op.id] = None]
        /\ UNCHANGED <<op, tree, cand, retired, failed, pushed>>
    BY <1>2, QuietFaults DEF DropRec, Without, Goto, At, dirVars
  <2>2. RecordDescribes' /\ AnnouncedAtStep'
    BY <1>a, <2>1 DEF QuietInv, RecordDescribes, TreeAtStep, AnnouncedAtStep
  <2>3. TreeAtStep' /\ ScratchAtStep' /\ GoesForward'
    BY <1>a, <2>1 DEF QuietInv, TreeAtStep, ScratchAtStep, Swapping, GoesForward
  <2> QED BY <2>2, <2>3 DEF QuietInv
<1>3. CASE DropSettings
  <2>1. /\ pc = "drop_settings" /\ pc' = "build" /\ rec' = rec /\ pushed' = Listed(rec, tree)
        /\ UNCHANGED <<op, tree, cand, retired, failed>>
    BY <1>3, QuietFaults DEF DropSettings, PushInstalled, Goto, At, dirVars
  <2>2. RecordDescribes' /\ AnnouncedAtStep'
    BY <1>a, <2>1 DEF QuietInv, RecordDescribes, AnnouncedAtStep, Between, Listed
  <2>3. TreeAtStep' /\ ScratchAtStep' /\ GoesForward'
    BY <1>a, <2>1 DEF QuietInv, TreeAtStep, ScratchAtStep, Swapping, GoesForward
  <2> QED BY <2>2, <2>3 DEF QuietInv
<1> QED BY <1>1, <1>2, <1>3

\* Neither a key that is forgotten nor what a page stores touches a plugin.
LEMMA QuietRest ==
    ASSUME Quiet, IInv, QuietInv, ForgetKey \/ (\E id \in Ids : PageSet(id)) \/ UNCHANGED vars
    PROVE  QuietInv'
<1>1. /\ UNCHANGED <<op, rec, tree, cand, retired, failed, pushed>>
      /\ pc' = pc \/ (pc = "forget" /\ pc' = "idle")
  <2>1. CASE ForgetKey
    BY <2>1, QuietFaults DEF ForgetKey, End, At, dirVars
  <2>2. CASE (\E id \in Ids : PageSet(id)) \/ UNCHANGED vars
    BY <2>2 DEF PageSet, Put, vars, storeVars, dirVars
  <2> QED BY <2>1, <2>2
<1>2. RecordDescribes' /\ AnnouncedAtStep'
  BY <1>1 DEF QuietInv, RecordDescribes, AnnouncedAtStep, Between, Listed
<1>3. TreeAtStep' /\ ScratchAtStep' /\ GoesForward'
  BY <1>1 DEF QuietInv, TreeAtStep, ScratchAtStep, Swapping, GoesForward, NoOlder
<1> QED BY <1>2, <1>3 DEF QuietInv


LEMMA QuietStep ==
    ASSUME Quiet, IInv, QuietInv, [Next]_vars
    PROVE  QuietInv'
<1>1. ~Crash
  BY QuietFaults DEF Crash
<1>2. CASE Step
  BY <1>2, QuietPrompts, QuietChecks, QuietMoves, QuietBuilds, QuietUndoneInstall, QuietUndoneUpdate,
     QuietRemovals, QuietRest DEF Step
<1> QED BY <1>1, <1>2, QuietBegins, QuietRest DEF Next

THEOREM QuietInvariance ==
    ASSUME Quiet PROVE Spec => []QuietInv
<1>1. IInv /\ QuietInv /\ [Next]_vars => QuietInv'
  BY QuietStep
<1> QED BY <1>1, QuietStarts, Invariance, PTL DEF Spec

(***************************************************************************)
(* While the file system does not fail, every operation, whether it        *)
(* succeeds, is refused or is rolled back, leaves records, directories and *)
(* what the pages were told in agreement, and nothing behind (AllAgree):   *)
(* for any number of plugins and trees, whatever builds.                   *)
(***************************************************************************)
THEOREM OperationsLeaveAgreement ==
    ASSUME Quiet PROVE Spec => []AllAgree
<1>1. IInv /\ QuietInv => AllAgree
  <2> SUFFICES ASSUME IInv, QuietInv, pc = "idle"
               PROVE  rec = tree /\ cand = None /\ retired = None /\ failed = None /\ pushed = Listed(rec, tree)
    BY DEF AllAgree
  <2>1. cand = None /\ retired = None /\ failed = None /\ pushed = Listed(rec, tree)
    BY DEF QuietInv, ScratchAtStep, Swapping, AnnouncedAtStep
  <2> QED BY <2>1 DEF QuietInv, RecordDescribes, Between, IInv, TypeOK
<1> QED BY <1>1, Invariance, QuietInvariance, PTL


-----------------------------------------------------------------------------
(* The plugin set that Plugins implements *)

\* While an operation runs its plugin counts in the version the operation found: that
\* stays the same whatever happens to its directory.
LEMMA MidOperation ==
    ASSUME ~Committed, ~Committed', UNCHANGED op,
           \A id \in Ids : id # op.id => tree'[id] = tree[id]
    PROVE  UNCHANGED installedTrees
BY DEF installedTrees

\* Where the directory is as the operation found it, what is in it is installed.
LEMMA AsFound ==
    ASSUME IInv, QuietInv,
           Committed \/ \A id \in Ids : id = op.id => tree[id] = op.was
    PROVE  installedTrees = tree
<1>1. tree \in [Ids -> Installable]
  BY DEF QuietInv, RecordDescribes
<1> QED BY <1>1 DEF installedTrees

\* With the records in agreement the bundle is built from what is in the directories,
\* and of that everything compiles.
LEMMA BundleOfTrees ==
    ASSUME IInv, QuietInv, Built, pc \in {"build", "rebuild"}
    PROVE  bundle' = tree /\ \A id \in Ids : tree[id] \in Trees => tree[id] \in Compiles
<1> USE ConstantsOK
<1>1. tree \in [Ids -> Installable] /\ \A id \in Ids : rec[id] = tree[id]
  BY DEF QuietInv, RecordDescribes, Between
<1>2. bundle' = [id \in Ids |-> IF rec[id] # None THEN tree[id] ELSE None]
  BY DEF Built, InBundle
<1>3. bundle' = tree
  BY <1>1, <1>2
<1>4. \A id \in Ids : rec[id] # None => tree[id] \in Compiles \cup {Wreck}
  BY DEF Built, MayBuild
<1> QED BY <1>1, <1>3, <1>4

\* An operation starts, and what was committed is what it found.
LEMMA BeginMaps ==
    ASSUME IInv, QuietInv, Begin
    PROVE  UNCHANGED Plugs!setVars
<1>1. PICK kind \in Kinds, id \in Ids \cup {None}, key \in Keys \cup {None}, step \in {"ask", "build"} :
         Start(kind, id, key, step)
  BY DEF Begin, StartInstall, StartUpdate, StartUninstall, StartForget, StartBuild, Kinds, IInv, TypeOK
<1>2. /\ pc = "idle" /\ pc' # "idle" /\ pc' # "clean" /\ op'.id = id
      /\ op'.was = (IF id = None THEN None ELSE rec[id])
      /\ UNCHANGED <<tree, bundle>>
  BY <1>1 DEF Start, At
<1>3. \A i \in Ids : i # None /\ rec[i] = tree[i]
  BY <1>2, ConstantsOK DEF QuietInv, RecordDescribes, Between
<1>4. installedTrees' = installedTrees
  BY <1>2, <1>3 DEF installedTrees, Committed
<1> QED BY <1>2, <1>4 DEF Plugs!setVars

\* The steps before anything is moved, and the end of an operation that is refused.
LEMMA PromptsMap ==
    ASSUME Quiet, IInv, QuietInv, IInv', QuietInv',
           \/ Confirm \/ Deny \/ Fetch \/ FetchFails \/ CheckInstall \/ CheckUpdate
           \/ RotateKey \/ TrustKey \/ RememberKey
    PROVE  UNCHANGED Plugs!setVars
<1>1. /\ pc \in {"ask", "fetch", "check", "rotate", "trust", "remember"}
      /\ pc' \in {"idle", "fetch", "remove", "forget", "check", "rotate", "trust", "remember", "move", "retire"}
      /\ pc' = "forget" => op.kind = "forget_key"
      /\ UNCHANGED <<tree, bundle>>
      /\ op' = op \/ pc' = "check"
  <2>1. ASSUME Refuse PROVE pc' = "idle" /\ UNCHANGED <<tree, bundle, op>>
    BY <2>1 DEF Refuse, End
  <2>2. CASE Confirm \/ Deny \/ Fetch \/ FetchFails
    BY <2>2 DEF Confirm, Deny, Fetch, FetchFails, Grant, Goto, End, At, dirVars
  <2>3. CASE CheckInstall \/ CheckUpdate \/ RotateKey
    BY <2>1, <2>3 DEF CheckInstall, CheckUpdate, RotateKey, Grant, Goto, At, dirVars
  <2>4. CASE TrustKey \/ RememberKey
    BY <2>1, <2>4 DEF TrustKey, RememberKey, Goto, At, dirVars
  <2> QED BY <2>2, <2>3, <2>4
<1>2. \A id \in Ids : id = op.id => tree[id] = op.was
  BY <1>1, ConstantsOK DEF QuietInv, TreeAtStep
<1>3. Committed' \/ \A id \in Ids : id = op'.id => tree'[id] = op'.was
  BY <1>1, <1>2, ConstantsOK DEF QuietInv, TreeAtStep, Committed
<1>4. installedTrees = tree
  BY <1>2, AsFound
<1>5. installedTrees' = tree'
  BY <1>3 DEF installedTrees, QuietInv, RecordDescribes
<1> QED BY <1>1, <1>4, <1>5 DEF Plugs!setVars

\* The steps that move trees, either way: none of them is seen.
LEMMA MovesMap ==
    ASSUME Quiet, IInv, QuietInv,
           \/ MoveIn \/ Retire \/ Swap \/ SaveRecord
           \/ UndoTree \/ UndoRec \/ UndoSettings \/ UndoOut \/ UndoIn \/ UndoSave \/ UndoClean
           \/ RemoveTree \/ DropRec \/ DropSettings
    PROVE  UNCHANGED Plugs!setVars
<1>1. CASE Retire /\ Refuse
  <2>a. pc = "retire"
    BY <1>1 DEF Retire, At
  <2>b. KindAtStep /\ SubjectKnown /\ TreeAtStep
    BY DEF IInv, QuietInv
  <2>1. op.id \in Ids /\ tree[op.id] = op.was /\ op.was \in Trees
    BY <2>a, <2>b, ConstantsOK DEF SubjectKnown, KindAtStep, TreeAtStep
  <2>2. tree[op.id] # None
    BY <2>1, ConstantsOK
  <2>3. pc' = "swap"
    BY <1>1, <2>2, QuietFaults DEF Retire, Goto
  <2> QED BY <1>1, <2>3 DEF Refuse, End
<1>2. CASE ~(Retire /\ Refuse)
  <2>1. /\ pc \notin {"idle", "clean"} /\ pc' \notin {"idle", "clean"} /\ UNCHANGED <<op, bundle>>
        /\ \A id \in Ids : id # op.id => tree'[id] = tree[id]
    <3>a. DOMAIN tree = Ids
      BY DEF IInv, TypeOK
    <3>1. CASE MoveIn \/ Retire \/ Swap \/ SaveRecord
      BY <1>2, <3>a, <3>1, QuietFaults DEF MoveIn, Retire, Swap, SaveRecord, Without, Goto, At, dirVars
    <3>2. CASE UndoTree \/ UndoRec \/ UndoSettings
      BY <3>a, <3>2 DEF UndoTree, UndoRec, UndoSettings, Goto, At, dirVars
    <3>3. CASE UndoOut \/ UndoIn \/ UndoSave \/ UndoClean
      BY <3>a, <3>3, QuietFaults DEF UndoOut, UndoIn, UndoSave, UndoClean, Without, Goto, At, dirVars
    <3>4. CASE RemoveTree
      BY <3>a, <3>4, QuietFaults DEF RemoveTree, Goto, At
    <3>5. CASE DropRec \/ DropSettings
      BY <3>5, QuietFaults DEF DropRec, DropSettings, Goto, At, dirVars
    <3> QED BY <3>1, <3>2, <3>3, <3>4, <3>5
  <2>2. UNCHANGED installedTrees
    BY <2>1, MidOperation DEF Committed
  <2> QED BY <2>1, <2>2 DEF Plugs!setVars
<1> QED BY <1>1, <1>2

\* The build of an operation is where it happens, or does not.
LEMMA BuildMaps ==
    ASSUME Quiet, IInv, QuietInv, BuildOk \/ BuildFails
    PROVE  Plugs!SetNext \/ UNCHANGED Plugs!setVars
<1> USE ConstantsOK
<1>a. /\ pc = "build" /\ UNCHANGED <<op, tree>> /\ tree \in [Ids -> Installable]
      /\ ~Committed
  BY DEF BuildOk, BuildFails, At, Goto, End, dirVars, QuietInv, RecordDescribes, Committed
<1>b. /\ op.kind \in {"install", "update", "uninstall", "build"}
      /\ op.kind # "build" => op.id \in Ids
      /\ op.kind \in {"update", "uninstall"} => op.was \in Trees
      /\ op.kind = "install" => op.was = None
      /\ op.kind = "build" => op.id = None
      /\ op.kind = "uninstall" => tree[op.id] = None
      /\ op.kind \in {"install", "update"} => tree[op.id] \in Trees /\ PluginOf[tree[op.id]] = op.id
      /\ op.kind = "update" => NoOlder(tree[op.id])
  BY <1>a DEF IInv, KindAtStep, SubjectKnown, RecordFollows, QuietInv, TreeAtStep, GoesForward
<1>c. /\ \A id \in Ids : id # op.id => installedTrees[id] = tree[id]
      /\ op.id \in Ids => installedTrees[op.id] = op.was
      /\ installedTrees = [id \in Ids |-> installedTrees[id]]
  BY <1>a DEF installedTrees
<1>d. Committed' => installedTrees' = tree
  BY <1>a DEF installedTrees
<1>e. op.id \in Ids => [installedTrees EXCEPT ![op.id] = tree[op.id]] = tree
  BY <1>a, <1>c
<1>1. CASE BuildOk
  <2>1. /\ Committed' /\ bundle' = tree
        /\ op.kind \in {"install", "update"} => tree[op.id] \in Compiles
    BY <1>1, <1>a, <1>b, BundleOfTrees DEF BuildOk, Goto, End, Committed
  <2>2. CASE op.kind = "install"
    <3>1. Plugs!Install(op.id, tree[op.id])
      BY <1>b, <1>c, <1>d, <1>e, <2>1, <2>2 DEF Plugs!Install
    <3> QED BY <1>b, <2>2, <3>1 DEF Plugs!SetNext
  <2>3. CASE op.kind = "update"
    <3>1. Plugs!Update(op.id, tree[op.id])
      BY <1>b, <1>c, <1>d, <1>e, <2>1, <2>3 DEF Plugs!Update, Plugs!NotOlder, NoOlder
    <3> QED BY <1>b, <2>3, <3>1 DEF Plugs!SetNext
  <2>4. CASE op.kind = "uninstall"
    <3>1. Plugs!Uninstall(op.id)
      BY <1>b, <1>c, <1>d, <1>e, <2>1, <2>4 DEF Plugs!Uninstall
    <3> QED BY <1>b, <2>4, <3>1 DEF Plugs!SetNext
  <2>5. CASE op.kind = "build"
    <3>1. installedTrees = tree
      BY <1>a, <1>b, <1>c, <2>5
    <3>2. Plugs!Build
      BY <1>d, <2>1, <3>1 DEF Plugs!Build
    <3> QED BY <3>2 DEF Plugs!SetNext
  <2> QED BY <1>b, <2>2, <2>3, <2>4, <2>5
<1>2. CASE BuildFails
  <2>1. /\ bundle' = bundle
        /\ op.kind \in {"install", "update"} => ~Committed'
        /\ op.kind \in {"uninstall", "build"} => Committed'
    BY <1>2, QuietFaults DEF BuildFails, NotBuilt, Goto, End, Committed
  <2>2. CASE op.kind \in {"install", "update"}
    BY <1>a, <2>1, <2>2, MidOperation DEF Plugs!setVars
  <2>3. CASE op.kind = "uninstall"
    <3>1. Plugs!Uninstall(op.id)
      BY <1>b, <1>c, <1>d, <1>e, <2>1, <2>3 DEF Plugs!Uninstall
    <3> QED BY <1>b, <2>3, <3>1 DEF Plugs!SetNext
  <2>4. CASE op.kind = "build"
    <3>1. installedTrees = tree
      BY <1>a, <1>b, <1>c, <2>4
    <3> QED BY <1>d, <2>1, <2>4, <3>1 DEF Plugs!setVars
  <2> QED BY <1>b, <2>2, <2>3, <2>4
<1> QED BY <1>1, <1>2

LEMMA LastStepsMap ==
    ASSUME Quiet, IInv, QuietInv, Clean \/ Rebuild \/ ForgetKey \/ (\E id \in Ids : PageSet(id)) \/ UNCHANGED vars
    PROVE  Plugs!SetNext \/ UNCHANGED Plugs!setVars
<1> USE ConstantsOK
<1>1. CASE Clean \/ (\E id \in Ids : PageSet(id)) \/ UNCHANGED vars
  <2>1. UNCHANGED <<tree, op, bundle>> /\ (Committed' <=> Committed)
    BY <1>1 DEF Clean, PageSet, End, At, Committed, vars, dirVars
  <2>2. UNCHANGED installedTrees
    BY <2>1 DEF installedTrees
  <2> QED BY <2>1, <2>2 DEF Plugs!setVars
<1>2. CASE Rebuild \/ ForgetKey
  <2>1. /\ pc \in {"rebuild", "forget"} /\ Committed' /\ UNCHANGED <<tree, op>>
        /\ bundle' = bundle \/ (pc = "rebuild" /\ Built)
    BY <1>2 DEF Rebuild, ForgetKey, NotBuilt, End, At, Committed, dirVars
  <2>2. \A id \in Ids : id = op.id => tree[id] = op.was
    BY <2>1 DEF IInv, KindAtStep, QuietInv, TreeAtStep
  <2>3. installedTrees = tree
    BY <2>2, AsFound
  <2>4. installedTrees' = tree
    BY <2>1 DEF installedTrees, QuietInv, RecordDescribes
  <2>5. CASE bundle' = bundle
    BY <2>3, <2>4, <2>5 DEF Plugs!setVars
  <2>6. CASE pc = "rebuild" /\ Built
    <3>1. bundle' = tree
      BY <2>6, BundleOfTrees
    <3>2. Plugs!Build
      BY <2>3, <2>4, <3>1 DEF Plugs!Build
    <3> QED BY <3>2 DEF Plugs!SetNext
  <2> QED BY <2>1, <2>5, <2>6
<1> QED BY <1>1, <1>2

LEMMA StepMaps ==
    ASSUME Quiet, IInv, QuietInv, IInv', QuietInv', [Next]_vars
    PROVE  [Plugs!SetNext]_(Plugs!setVars)
<1>1. ~Crash
  BY QuietFaults DEF Crash
<1>2. CASE Step
  BY <1>2, PromptsMap, MovesMap, BuildMaps, LastStepsMap DEF Step
<1> QED BY <1>1, <1>2, BeginMaps, LastStepsMap DEF Next

(***************************************************************************)
(* While the file system does not fail, the service implements PluginSet:  *)
(* each operation takes effect at once, with the bundle, in the step in    *)
(* which its build has run, and not at all if that fails; what is          *)
(* installed compiles, and never goes back (ImplementsPluginSet).          *)
(***************************************************************************)
THEOREM ServiceImplementsPluginSet ==
    ASSUME Quiet PROVE Spec => ImplementsPluginSet
<1>1. Init => Plugs!SetInit
  BY DEF Init, Plugs!SetInit, installedTrees, Committed, Nothing, Plugs!Nothing
<1>2. IInv /\ QuietInv /\ IInv' /\ QuietInv' /\ [Next]_vars => [Plugs!SetNext]_(Plugs!setVars)
  BY StepMaps
<1> QED BY <1>1, <1>2, Invariance, QuietInvariance, PTL DEF Spec, ImplementsPluginSet, Plugs!SetSpec

=============================================================================
