------------------------------- MODULE Intake -------------------------------
(***************************************************************************)
(* What the plugins service does with code before it touches an installed  *)
(* tree: it clones the repository under a deadline (git.rs), checks the    *)
(* manifest (manifest.rs), scans the sources (policy.rs, obfuscation.rs)   *)
(* and verifies the signature (signing.rs), and later asks the clone's     *)
(* remote whether there is more.                                           *)
(*                                                                         *)
(* A path is the sequence of its segments, a file the sequence of its      *)
(* lines; a line is a name, and LineOf says what the scan finds on it.  An *)
(* import is the sequence of its segments; which files it may stand for is *)
(* the bundler's doing (Tried, Index), and letter case is left out.  No    *)
(* two messages have the same hash, and a signature is made by nobody but  *)
(* the holder of its key.  A commit of the remote has one parent at most.  *)
(***************************************************************************)
EXTENDS Service, Integers, Sequences, SequencesExt, FiniteSetsExt, TLC

CONSTANTS
    Trees,      \* [manifest, files, links, sig]
    LineOf,     \* for a line, [length, marks, imports, words, script]
    KindOf,     \* for a file's name, "source", "test", "json" or "other"
    WithTs,     \* for a name, that name with ".ts" after it
    Tried,      \* for the last name of an import, those that the bundler looks for
    Index,      \* those it looks for in a directory
    Paths,      \* every path, in the order of their bytes
    MaxSources, MaxFiles,  \* MAX_SOURCE_FILES, MAX_TREE_FILES
    MaxLines,   \* MAX_SOURCE_BYTES and MAX_TREE_BYTES, in lines
    MaxLength, MaxMean, MeanMin,  \* the limits of obfuscation.rs
    MaxEntries, \* for a list of the manifest, its limit
    BranchAt,   \* for a tree, the commits that its repository's branch may be at
    History,    \* for a commit, itself and those before it, newest first
    LogLimit    \* CHANGELOG_LIMIT

ExemptRoot == {"eslint.config.js"}
ExemptPaths == {<<"scripts", "sign-plugin.mjs">>}
ExemptNames == ExemptRoot \cup {Last(p) : p \in ExemptPaths}

\* What the trees have, and what their signatures were made over.
Contents == UNION {{t.files, t.sig.madeOver} : t \in Trees}
Lengths == UNION {{Len(files[p]) : p \in DOMAIN files} : files \in Contents}

\* A path is one that a walk of the tree comes upon, and has no NUL; lengths that differ are
\* written differently; whether a name is a test's does not hang on its last extension; an
\* index is none, and is not exempt.  A commit's past is its parent's, and itself.
ASSUME IntakeOK ==
    /\ LogLimit \in Nat
    /\ Paths \in Seq(Seq(STRING)) /\ IsInjective(Paths)
    /\ \A p \in ToSet(Paths) : p # <<>> /\ ToSet(p) \cap {"NUL", ".."} = {}
    /\ \A l \in DOMAIN LineOf : \A i \in LineOf[l].imports : i.to \in Seq(STRING) /\ i.to # <<>> /\ Last(i.to) \in DOMAIN Tried
    /\ \A n \in DOMAIN Tried : \A m \in Tried[n] :
          KindOf[m] = "test" => "test" \in {KindOf[n], KindOf[WithTs[n]]}
    /\ \A n \in Index : n \notin ExemptNames /\ KindOf[n] # "test"
    /\ \A m, n \in Lengths : ToString(m) = ToString(n) => m = n
    /\ \A files \in Contents :
          /\ DOMAIN files \subseteq ToSet(Paths)
          /\ \A p \in DOMAIN files : ToSet(files[p]) \subseteq DOMAIN LineOf
          /\ files \in [DOMAIN files -> Seq(STRING)]
    /\ None \notin DOMAIN History /\ BranchAt \in [Trees -> SUBSET DOMAIN History]
    /\ \A c \in DOMAIN History :
          /\ History[c] \in Seq(DOMAIN History) /\ History[c] # <<>> /\ History[c][1] = c
          /\ \A i \in DOMAIN History[c] :
                History[History[c][i]] = SubSeq(History[c], i, Len(History[c]))

VARIABLES
    remote,    \* the repository's tree
    tip,       \* the commit that its branch is at, None if there is no branch
    intakeAt,  \* where the operation is
    dir,       \* its temporary directory
    op, flag,  \* the git operation's result, and its interrupt flag
    head,      \* the commit that was cloned
    taken,     \* the answer
    advertised,  \* where the remote said its branch is, when the latest fetch began
    tips,      \* history: where it was since the latest check began
    status     \* what that check found

gitVars == <<advertised, tips, status>>
intakeVars == <<remote, tip, intakeAt, dir, op, flag, head, taken, gitVars>>

IntakeInit ==
    /\ remote = None /\ tip = None /\ intakeAt = "idle" /\ dir = "none"
    /\ op = "none" /\ flag = FALSE /\ head = None /\ taken = "none"
    /\ advertised = None /\ tips = {} /\ status = None

-----------------------------------------------------------------------------
(* manifest.rs *)

Bounded(text) == text \notin {"empty", "long", "control"}

\* No prerelease, no build, no leading zero.
PlainVersion(v) == Len(v) = 3 /\ \A i \in 1..3 : v[i] \notin {"", "01", "x"}

\* Exact versions or comparators; what else comes before a version makes it none.
VersionRange(r) == Len(r) \in 1..4 /\ \A i \in DOMAIN r : PlainVersion(r[i])

ListOK(entries, max) ==
    /\ Len(entries) <= max
    /\ Cardinality(ToSet(entries)) = Len(entries)
    /\ \A e \in ToSet(entries) : Bounded(e) /\ e # "unaccepted"

ManifestOK(m) ==
    /\ m.given = "well-formed"
    /\ m.id # "malformed"
    /\ \A t \in m.texts : Bounded(t)
    /\ PlainVersion(m.version) /\ VersionRange(m.api)
    /\ \A l \in DOMAIN m.lists : ListOK(m.lists[l], MaxEntries[l])
    /\ m.id \notin ToSet(m.lists["dependencies"])

-----------------------------------------------------------------------------
(* policy.rs and obfuscation.rs *)

\* Whether a rule is broken where its text stands between left and right.
Banned(w) ==
    CASE w.matcher = "anywhere" -> TRUE
      [] w.matcher = "bare" -> w.left = "free"
      [] w.matcher = "word" -> w.left = "free" /\ w.right # "glued"
      [] w.matcher = "member" -> w.left # "glued" /\ w.right # "glued"
      [] w.matcher = "windowAlias" -> w.left = "free" /\ w.right \in {"[", "window member"}
      [] w.matcher = "htmlAssign" -> w.right \in {"=", "+="}
      [] w.matcher = "stringTimer" -> w.left = "free" /\ w.right = "quote"
      [] w.matcher = "dynamicImport" -> w.left = "free" /\ w.right = "("
      [] w.matcher = "activeElement" -> w.right = "active tag"

LinesOf(text) == {LineOf[l] : l \in ToSet(text)}

Readable(text) ==
    LET written == SelectSeq(text, LAMBDA l : LineOf[l].length > 0)
    IN  /\ \A l \in LinesOf(text) : l.length <= MaxLength /\ l.marks = {}
        /\ Len(written) >= MeanMin =>
              FoldLeft(LAMBDA n, l : n + LineOf[l].length, 0, written)
                  <= Len(written) * MaxMean

ImportsOf(text) == UNION {l.imports : l \in LinesOf(text)}

\* Variant: a depth of zero has nothing above it.
DepthSaturating(path, to) ==
    LET after[n \in 0..Len(to)] ==
            IF n = 0 THEN Len(path) - 1
            ELSE IF to[n] # ".." THEN after[n - 1] + 1
            ELSE IF after[n - 1] = 0 THEN 0 ELSE after[n - 1] - 1
    IN  after[Len(to)]

\* How deep an import is within the plugin, or -1 once it has left it.
Depth(path, to) ==
    LET after[n \in 0..Len(to)] ==
            IF n = 0 THEN Len(path) - 1
            ELSE IF after[n - 1] < 0 THEN -1
            ELSE IF to[n] = ".." THEN after[n - 1] - 1 ELSE after[n - 1] + 1
    IN  after[Len(to)]

Escapes(path, i) ==
    \/ i.kind = "absolute"
    \/ i.kind = "relative" /\ Depth(path, i.to) < 0

SourceOK(path, text) ==
    /\ Readable(text)
    /\ \A i \in ImportsOf(text) :
          /\ Last(i.to) \notin ExemptNames
          /\ KindOf[Last(i.to)] # "test" /\ KindOf[WithTs[Last(i.to)]] # "test"
          /\ ~Escapes(path, i)
    /\ \A l \in LinesOf(text) : \A w \in l.words : ~Banned(w)

\* A package.json's scripts may name an exempt file, unless it does not parse.
JsonOK(path, text) ==
    LET broken == \E l \in LinesOf(text) : "broken" \in l.marks
        searched == {l \in LinesOf(text) :
                        ~(l.script /\ Last(path) = "package.json" /\ ~broken)}
    IN  \A l \in searched : \A i \in l.imports : Last(i.to) \notin ExemptNames

OfKind(files, k) == {p \in DOMAIN files : KindOf[Last(p)] = k}

Scanned(files) ==
    {p \in OfKind(files, "source") :
        ~(Len(p) = 1 /\ Last(p) \in ExemptRoot) /\ p \notin ExemptPaths}

TotalLines(files, some) == MapThenSumSet(LAMBDA p : Len(files[p]), some)

PolicyOK(t) ==
    LET sources == Scanned(t.files)
    IN  /\ ~t.links
        /\ \A p \in OfKind(t.files, "json") : JsonOK(p, t.files[p])
        /\ Cardinality(sources) <= MaxSources
        /\ TotalLines(t.files, sources) <= MaxLines
        /\ \A p \in sources : SourceOK(p, t.files[p])

-----------------------------------------------------------------------------
(* signing.rs *)

\* Variant: the length is left out.
HashedUnframed(files) ==
    LET upTo[n \in 0..Len(Paths)] ==
            IF n = 0 THEN <<>>
            ELSE IF Paths[n] \notin DOMAIN files THEN upTo[n - 1]
                 ELSE upTo[n - 1] \o Paths[n] \o <<"NUL">> \o files[Paths[n]]
    IN  upTo[Len(Paths)]

\* A file as it is hashed: its path, a NUL, its length and its bytes.
Framed(path, text) == path \o <<"NUL", ToString(Len(text))>> \o text

\* What tree_digest hashes: the files, in the order of their paths.
Hashed(files) ==
    LET upTo[n \in 0..Len(Paths)] ==
            IF n = 0 THEN <<>>
            ELSE IF Paths[n] \notin DOMAIN files THEN upTo[n - 1]
                 ELSE upTo[n - 1] \o Framed(Paths[n], files[Paths[n]])
    IN  upTo[Len(Paths)]

\* The message that is signed.
Message(id, digest) == <<id, digest>>

SignatureOK(t) ==
    /\ t.sig.given = "well-formed"
    /\ t.sig.id = t.manifest.id
    /\ ~t.links
    /\ Cardinality(DOMAIN t.files) <= MaxFiles
    /\ TotalLines(t.files, DOMAIN t.files) <= MaxLines
    /\ Hashed(t.files) = Hashed(t.sig.digestOf)
    /\ Message(t.manifest.id, Hashed(t.files)) = Message(t.sig.madeFor, Hashed(t.sig.madeOver))

-----------------------------------------------------------------------------
(* git.rs, with_deadline *)

\* check_url and temp_dir.
StartClone(t, commit, urlOK) ==
    /\ intakeAt = "idle"
    /\ remote' = t
    /\ tip' = commit
    /\ IF urlOK
       THEN intakeAt' = "clone" /\ op' = "running" /\ dir' = "partial" /\ UNCHANGED taken
       ELSE intakeAt' = "answered" /\ taken' = "not_https" /\ UNCHANGED <<op, dir>>
    /\ UNCHANGED <<flag, head, gitVars>>

\* The operation comes to its end, or to a look at the flag.
Operate(result) ==
    /\ op = "running"
    /\ intakeAt = "fetch" /\ result = "ok" => advertised # None
    /\ op' = result
    /\ IF intakeAt = "clone" /\ result = "ok"
       THEN dir' = "whole" /\ head' = tip
       ELSE UNCHANGED <<dir, head>>
    /\ UNCHANGED <<remote, tip, intakeAt, flag, taken, gitVars>>

\* The watchdog waits until the operation's end is told to it, which is later.
Raise ==
    /\ intakeAt \in {"clone", "fetch"} /\ op # "none" /\ ~flag
    /\ flag' = TRUE
    /\ UNCHANGED <<remote, tip, intakeAt, dir, op, head, taken, gitVars>>

\* Variant: the flag alone decides.
OutcomeByFlag == IF flag THEN "timeout" ELSE op

\* with_deadline's answer.
Outcome == IF flag /\ op # "ok" THEN "timeout" ELSE op

\* The directory is removed, if it can be.
Discard == dir' \in {"none", dir}

Cloned ==
    /\ intakeAt = "clone" /\ op \notin {"none", "running"}
    /\ op' = "none" /\ flag' = FALSE
    /\ IF Outcome = "ok"
       THEN intakeAt' = "validate" /\ UNCHANGED <<dir, taken>>
       ELSE intakeAt' = "answered" /\ Discard /\ taken' = "clone_failed"
    /\ UNCHANGED <<remote, tip, head, gitVars>>

\* validate_candidate, in its order.
Verdicts(t) ==
    CASE t.manifest.given = "absent" -> "no_manifest"
      [] ~ManifestOK(t.manifest) -> "manifest_invalid"
      [] <<"main.ts">> \notin DOMAIN t.files -> "manifest_invalid"
      [] ~PolicyOK(t) -> "policy"
      [] ~SignatureOK(t) -> "unsigned"
      [] OTHER -> "accepted"

Validate ==
    /\ intakeAt = "validate"
    /\ intakeAt' = "answered" /\ taken' = Verdicts(remote)
    /\ IF taken' = "accepted" THEN UNCHANGED dir ELSE Discard
    /\ UNCHANGED <<remote, tip, op, flag, head, gitVars>>

-----------------------------------------------------------------------------
(* check_updates *)

\* The author pushes, takes commits back, puts others in their place or drops the branch.
Push ==
    /\ taken = "accepted"
    /\ \E commit \in BranchAt[remote] \cup {None} :
          /\ commit # tip
          /\ tip' = commit
          /\ tips' = IF intakeAt = "fetch" THEN tips \cup {commit} ELSE tips
    /\ UNCHANGED <<remote, intakeAt, dir, op, flag, head, taken, advertised, status>>

\* A check, which may be one of several.
StartFetch ==
    /\ intakeAt = "answered" /\ taken = "accepted"
    /\ intakeAt' = "fetch" /\ op' = "running"
    /\ advertised' = None /\ tips' = {tip} /\ status' = None
    /\ UNCHANGED <<remote, tip, dir, flag, head, taken>>

\* The remote says where its branch is, before it sends anything.
Advertise ==
    /\ intakeAt = "fetch" /\ op = "running" /\ advertised = None
    /\ advertised' = tip
    /\ UNCHANGED <<remote, tip, intakeAt, dir, op, flag, head, taken, tips, status>>

\* Variant: the clone's origin/HEAD, which nothing writes after the clone.
RemoteTipPinned == head

\* remote_tip: from the fetch's own ref map, which has one mapping.
RemoteTip == advertised

\* The commits from latest that a walk comes to before one that it was told to hide: the clone's
\* head, and as many of those before it as the clone knows of.
Walked(latest, n) ==
    LET past == History[latest]
    IN  \E known \in DOMAIN History[head] :
            LET hidden == {History[head][i] : i \in 1..known}
            IN  /\ n <= LogLimit
                /\ \A i \in 1..n : past[i] \notin hidden
                /\ ~(n < LogLimit /\ n < Len(past) /\ past[n + 1] \notin hidden)

Fetched ==
    /\ intakeAt = "fetch" /\ op \notin {"none", "running"}
    /\ intakeAt' = "answered" /\ op' = "none" /\ flag' = FALSE
    /\ IF Outcome = "ok"
       THEN \E n \in 0..Len(History[RemoteTip]) :
                /\ Walked(RemoteTip, n)
                /\ status' = [code |-> "ok", behind |-> RemoteTip # head, latest |-> RemoteTip,
                              changelog |-> SubSeq(History[RemoteTip], 1, n)]
       ELSE status' = [code |-> "failed"]
    /\ UNCHANGED <<remote, tip, dir, head, taken, advertised, tips>>

-----------------------------------------------------------------------------

IntakeBegin ==
    \E t \in Trees, urlOK \in BOOLEAN : \E commit \in BranchAt[t] : StartClone(t, commit, urlOK)

\* An operation ends of itself, or once it is interrupted.
Ends == \E result \in {"ok", "failed"} : Operate(result)

IntakeStep == (flag /\ Ends) \/ Raise \/ Cloned \/ Validate \/ Fetched

IntakeReturn ==
    /\ intakeAt = "answered"
    /\ remote' = None /\ tip' = None /\ intakeAt' = "idle" /\ dir' = "none"
    /\ op' = "none" /\ flag' = FALSE /\ head' = None /\ taken' = "none"
    /\ advertised' = None /\ tips' = {} /\ status' = None

-----------------------------------------------------------------------------
(* Properties *)

(* A clone that was completed is not refused for its deadline, however      *)
(* close the watchdog came; and none is taken that did not arrive whole     *)
(* (git.rs, with_deadline and clone_repo).                                  *)
FinishedCloneStands ==
    intakeAt = "answered" =>
        /\ taken = "clone_failed" => head = None
        /\ taken = "accepted" => head # None /\ dir = "whole"

(* An accepted tree has exactly the files over which the key's holder made  *)
(* a signature for this very plugin: no file, line or boundary between      *)
(* files differs (signing.rs, verify, tree_digest and message).             *)
AcceptedIsAsSigned ==
    taken = "accepted" =>
        /\ remote.files = remote.sig.madeOver
        /\ remote.manifest.id = remote.sig.madeFor

\* Where an import of path leads.
TargetOf(path, to) ==
    LET after[n \in 0..Len(to)] ==
            IF n = 0 THEN Front(path)
            ELSE IF to[n] # ".." THEN Append(after[n - 1], to[n])
            ELSE IF after[n - 1] = <<>> \/ Last(after[n - 1]) = ".."
                 THEN Append(after[n - 1], "..")
                 ELSE Front(after[n - 1])
    IN  after[Len(to)]

\* The files that an import in path may stand for: those of its name, completed, or what a
\* directory has for an index.
FilesFor(files, path, to) ==
    LET place == TargetOf(path, to)
    IN  {q \in DOMAIN files :
            \/ Front(q) = place /\ Last(q) \in Index
            \/ Last(to) # ".." /\ Front(q) = Front(place) /\ Last(q) \in Tried[Last(to)]}

\* What a file's relative imports are, with the file they are in.
Relative(files, path) ==
    {<<path, i.to>> : i \in {i \in ImportsOf(files[path]) : i.kind = "relative"}}

\* What any import may be mapped to, at the place of one JSON file and by a line of any; the
\* scripts of a package.json are commands and resolve nothing.
Mapped(files) ==
    LET json == OfKind(files, "json")
        lines == UNION {{l \in LinesOf(files[q]) : ~(l.script /\ Last(q) = "package.json")} : q \in json}
    IN  UNION {{<<p, i.to>> : i \in l.imports} : p \in json, l \in lines}

Specifiers(files, path) ==
    Relative(files, path) \cup {s \in Mapped(files) : ImportsOf(files[path]) # {}}

Leads(files, path) == UNION {FilesFor(files, s[1], s[2]) : s \in Specifiers(files, path)}

\* The files that main.ts reaches, over sources which are scanned.
Reached(files) ==
    LET within[n \in 0..Cardinality(DOMAIN files)] ==
            IF n = 0 THEN {<<"main.ts">>}
            ELSE within[n - 1] \cup UNION {Leads(files, p) : p \in within[n - 1] \cap Scanned(files)}
    IN  within[Cardinality(DOMAIN files)]

\* Whether no import leaves a part of a file's name to the bundler.
NamesInFull(files) ==
    \A p \in Scanned(files) : \A s \in Specifiers(files, p) : \A q \in FilesFor(files, s[1], s[2]) :
        Last(q) \in Index \cup {Last(s[2])}

(* If the imports of an accepted plugin, relative or mapped, name files in  *)
(* full, then every source that main.ts reaches over any number of them is  *)
(* scanned.  In any case no relative import on the way leaves the plugin's  *)
(* tree, or leads to a test, completed or not (policy.rs, collect,          *)
(* scan_source, escapes_plugin, imports_exempt_file and                     *)
(* json_maps_exempt_file).                                                  *)
OnlyScannedIsImported ==
    taken = "accepted" =>
        LET files == remote.files IN
        /\ NamesInFull(files) =>
              Reached(files) \cap OfKind(files, "source") \subseteq Scanned(files)
        /\ \A p \in Reached(files) \cap Scanned(files) : \A s \in Relative(files, p) :
              /\ ".." \notin ToSet(TargetOf(p, s[2]))
              /\ FilesFor(files, p, s[2]) \cap OfKind(files, "test") = {}

(* As policy.rs:35-40 has it: no file that the scan passes over gets into   *)
(* the bundle, as what imports or maps to one is refused.  It does not hold *)
(* where the import leaves out the file's extension.                        *)
ExemptStaysOut ==
    taken = "accepted" =>
        Reached(remote.files) \cap OfKind(remote.files, "source") \subseteq Scanned(remote.files)

(* What a check reports was so at a time since it began, whatever was       *)
(* pushed meanwhile: the branch was at the commit that is given as its      *)
(* latest.  The commits listed with it are the newest of that branch,       *)
(* without a gap, and if the clone's head is on it, all those since the     *)
(* head up to the limit and none besides (git.rs, fetch_inner, remote_tip   *)
(* and changelog; service.rs, commitsBehind).                               *)
UpdatesAreReal ==
    status # None /\ status.code = "ok" =>
        LET past == History[status.latest]
            listed == Len(status.changelog)
        IN
        /\ status.latest \in tips
        /\ status.behind <=> status.latest # head
        /\ status.changelog = SubSeq(past, 1, listed)
        /\ \A i \in DOMAIN past : past[i] = head =>
              listed = IF i - 1 < LogLimit THEN i - 1 ELSE LogLimit

=============================================================================
