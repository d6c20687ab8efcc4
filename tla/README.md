# vrcnext-bridge in TLA+

`vrcnext-bridge` is a daemon on the user's machine. The VRCNext page talks to it over one WebSocket on
loopback; it installs and compiles plugins, keeps their settings, forwards notifications and OSC messages and
evaluates code in the page for developers. This directory holds TLA+ models of the parts whose behaviour
depends on the order of steps, on failures, or on several threads and processes, TLC runs that check them on
small instances, and proofs that TLAPS checks for every value of the constants.

Line numbers refer to the files under `src/`; `PROJECT.json` maps every definition to its lines.

## 1. The system

Crates: `vrcnext-bridge-core` (services without a transport), `vrcnext-bridge-plugins` (what plugins need),
`vrcnext-bridge-sinks` and `vrcnext-bridge-win` (the desktop), `vrcnext-bridge` (the daemon).

| part | state | operations | talks to | what makes it correct |
| --- | --- | --- | --- | --- |
| state store `state.rs`, `fsutil.rs` | a map of namespaces behind a mutex; `state.json`, its `.tmp` | get, list, set, delete, delete_namespace, open | plugins service (its records, keys), page | the file is never torn; memory and file agree; what was acknowledged is durable |
| plugins service `service.rs`, `trust.rs` | plugin trees, records and keys in the store, scratch directories; one mutex for every mutation | install, update, uninstall, forget_key, build; list, check_updates, keys | git, approver, builder, store, pusher | all or nothing; never back in time; only trusted trees; success means built |
| builder `build.rs` | import table, staging directory, live bundle and map | build | esbuild | only a checked bundle goes live; a failed build leaves the old one |
| remote evaluation `remote.rs` | the pending map, one channel per call | eval, result | pages, through the pusher | every call returns; each answer goes to one call; the cap holds |
| osc `osc/` | the held listener; a thread per listener with its flag, counters, budget | listen, stop, status, send | UDP, pusher | one loop listens; stopped loops end; nothing is dropped uncounted |
| log file `logfile.rs` | the open file, its length, the previous generation | append | logs service, session | bounded size; the oldest lines go first; order |
| session `http/ws.rs`, `broadcast.rs` | per connection: reply queue, limiters, receiver; the broadcast ring | hello, request, logs, replies, pushes | blocking pool, every service | each call answered once; pushes in order; no self-deadlock |
| request guard `guard.rs`, `ratelimit.rs` | two token buckets | check_rate, penalise, session_limiter | every request | untrusted callers cannot use up the trusted bucket |
| pairing token `token.rs` | the token file, its `.tmp` | load_or_create, rotate | session handshake, other processes | the token shown is the one in the file, never half of one |
| approval `core/approve.rs`, `sinks/approve.rs`, `win/message_box.rs` | a prompt in flight | ask | notification daemon | fail closed |
| git `git.rs` | the clone, a watchdog thread | clone_repo, fetch_status | network | ends by its deadline; a finished clone stands; updates are real |
| signing, manifest, policy, obfuscation | none | verify, parse, scan | plugins service | what is accepted is what was signed, and what it imports was scanned |
| outbound, sql | a client that is built once; a watchdog thread per statement | fetch; query, execute, databases | network; VRCNext's databases | only public hosts; whole answers within caps; a deadline hits its own call |
| notify, sinks | the registered sinks | send, targets | WayVR, freedesktop | all is validated before any is sent; one sink's failure does not touch another |
| logs, envelope, handshake, registry, pusher, paths, start-up | none that changes | validate, dispatch | | |

How they interact: a frame from the page becomes a call on tokio's blocking pool (`http/mod.rs:187`), runs a
synchronous service there, and its answer comes back through the connection's queue; services announce changes
with `Pusher::push`, which a broadcast ring carries to every connection. The plugins service holds its mutex
for a whole operation, including prompts (120 s, and calls on the bus without a deadline), git (120 s per operation) and builds (60 s), and keeps its
records and keys in the state store, which has a mutex of its own and one file.

What is hard: steps of a write and of a rotation that fail or are cut short by a kill or a power cut; the undo
paths of install and update; answers that race a timeout; a listener replaced while its thread is still in a
read; a queue filled and drained by the same task; a broadcast ring that overtakes its readers; two processes
on the same directories. `PROJECT.json` lists these hazards with their lines.

## 2. Modules

| module | models | |
| --- | --- | --- |
| `StateStore` | the state store | one action per system call of `write_atomic`, plus `IoFail`, `Crash`, `Flush`, `PowerCut` |
| `DurableMap` | what the store promises | a map whose calls are atomic and whose acknowledged content survives |
| `Plugins` | the plugins service with the trust store | one action per step of an operation; `pc` is the line the operation is at |
| `PluginSet` | what the plugins service promises | install, update, uninstall, build as single steps |
| `Bundle` | the builder | `Plugins` takes a build for one step (`Built`, `NotBuilt`); this module opens it up |
| `RemoteEval` | remote evaluation | `pending` and `slot` are the map and the channels; `pc[e]` is where a call is |
| `OscListener` | the osc service and its receive loops | `stage[l]` is where thread `l` is; `held` is the `Mutex<Option<Listener>>` |
| `LogFile` | the rotating log file | `pc` is where `append` is, under its lock |
| `Session` | one connection, with the blocking pool and the broadcast ring | `loop` is what the session's task awaits |
| `Gate` | who may talk to the daemon and how much: the guard, the token buckets, the hello | `tokens` and `last` are the buckets, `stage[c]` is where a socket is |
| `Approval` | the approvers: a notification with its listening thread, a message box, none | `pc` is where the question is; `stream` and `chan` are what its thread and its asker have yet to read |
| `Service` | what the called services share: no value, and the five kinds of error | |
| `Notify` | the notify service and its sinks | one step per delivery |
| `Sql` | the sql service with its watchdog threads | `sqlAt` is where the call is, `dogs[d]` where a watchdog is |
| `Outbound` | the outbound service | `fetchAt` is where the call is |
| `Intake` | what happens to a candidate before `Plugins` takes it: clone, manifest, scan, signature; and the update check | `intakeAt` is where the operation is, `op` where git is |
| `Token` | the token file in several processes | one action per system call |
| `Calls` | the five above behind the registry | |
| `*Proofs` | theorems about the module of that name; `PageProofs` is about `RemoteEval` and `Session`, `ListenerProofs` about `OscListener` and `Approval` | |
| `MC*` | values of constants for TLC | `MCPages` and `MCListeners` have two components each, which share no state: one is explored while the other is as it began |

State and actions.

* **StateStore.** `mem` is the map in memory, `file` and `temp` are the two files with what of them a power cut
  would keep. `SetStart`, `DeleteStart` and `DeleteNamespace` take the lock and change memory; `CreateTemp`,
  `WriteTemp`, `SyncTemp`, `RenameTemp` are the write; `IoFail` is a failure of any of them with the undo of
  `set` (and, as in the code, none for `delete`). A value is known by its size class. `SetFull` and `DeleteFull`
  are the refusals for size, which leave different things behind, as the code does.
* **Plugins.** `rec`, `keys`, `settings` are the store as the service reads it, `saved` is what is in its file;
  `tree`, `cand`, `retired`, `failed` are the plugin's directory and the scratch directories; `bundle` is what
  the live bundle was built from; `pushed` is the last list the pages were sent. `Grant` and `Deny` are the user
  at a prompt. `Faults` says which steps may fail.
* **Bundle.** `staged` and `live` are files with the build that wrote them; `child` is esbuild, which may fail,
  hang, be killed at its deadline or outlive its process. A file holds the imports that the metafile lists
  (`Bundled`), which `check_inputs` judges one by one; an input is scanned, a test, or exempt from the scan by its name,
  and `check_inputs` asks only whether it is a test. `alone` and `lone` are history: no other build was at work
  beside this one.
* **RemoteEval, OscListener, LogFile** have one action per statement that another thread or a failure can come
  between.
* **Session.** `waiting` and `running` are the pool's tasks, `finished` the calls whose task waits in
  `replies.send`, `inbox` the queue, `frame` what the loop is writing; `cursor` is the receiver's position in
  the ring.

* **Gate.** Every request is one step that draws from the bucket `BucketOf` gives it: `TooMany` (429), `Answer` (an
  answer without a service), `Upgrade`, `Call` (REST, under `--dev`). A socket goes from `hello` to `open`, with a
  full bucket of its own, or is closed at the expense of the bucket of trusted callers. Tokens are counted in
  parts and time in ticks, so `Rate` parts a tick and `Unit` parts a request are any rational rate. A peer is what
  a browser makes of it: the headers it sends are a constant.
* **Approval.** `approver` is what `build_approver` chose. A notification is put up in three steps (`Subscribe`,
  `Appear`, `Reply`), so that clicks come before its id is known; `HandOn` is its thread, which outlives the
  question. What the user can click on includes other programs' notifications and prompts left from earlier
  questions.

* **Notify.** `Send` is what happens before the first delivery: the selection of sinks, the patches and the validation
  of every variant, in one step as nothing can come between; `Deliver` attempts one target, `Report` answers. A field
  is known by what validation makes of it, so `Cleaned`, `Patched`, `ToWayvr` and `ToFreedesktop` say what becomes of
  it on its way to a sink.
* **Sql.** `Ask` refuses, or opens the database and starts a watchdog; `Prepare`, `Row`, `Finish` are the statement;
  `Answered` is the return of `run`, where the watchdog is told to stand down unless it is about to interrupt
  (`due` becomes `stray`). `interrupted` is SQLite's flag on the connection of the call.
* **Outbound.** `Client`, `Resolve`, `Connect`, `Read`, `EndRead` in this order; every connection is to one of the
  addresses that the filter left of the latest lookup.
* **Intake.** `Operate` is the end of a git operation, `Raise` its watchdog, `Cloned` and `Fetched` what
  `with_deadline` and its callers make of both; what is refused is discarded if that succeeds (`Discard`). `Verdicts` is `validate_candidate`. In an update
  check the remote first says where its branch is (`Advertise`) and the author may push at any time (`Push`); a walk
  gives the changelog (`Walked`), hiding as much of the clone's past as the clone knows of. How the bundler completes an
  import is a constant: `Tried` are the names it looks for, `Index` those in a directory. What a candidate tree is to
  `Plugins` (a plugin, a key, a version) is here its manifest, its files line by line and its signature.
* **Token.** `tokenFile` and `temp` are names of inodes, `contents` what these hold, so a process that has the temporary
  file open goes on writing to it after another has renamed it.
* **Calls.** `Begin`, `Step` and `Return` are a call of any of them. They share no state, so one call at a time shows
  what several at once would; what outlives a call is the watchdog of a statement, and the client of `Outbound`.

Operators named `...Skipped`, `...Late`, `...Afresh` and the like, each with a comment beginning "Variant:", are
not part of the models: they are the mistakes that the properties are there to catch, see the last section.

## 3. Runs

All runs use two workers and take between a few seconds and about two minutes. Types that are proved (section 4)
are not checked again by TLC; in `Session` and `Approval` `TypeOK` states what ranges the variables have.

| run | what it shows |
| --- | --- |
| `store` | `AckedSetIsDurable`: a successful set stays, in memory and in the file, until a later call on its entry, whatever call fails, and wherever the process or the machine stops. `ImplementsDurableMap`: the store refines `DurableMap`. |
| `store_acked_delete` | `AckedDeleteIsDurable` fails as the code does: a delete whose write failed, tried again, answers success without a write. |
| `plugins` | installs and updates with prompts denied, clones and builds failing, trees that do not compile, change key or go back: `AllAgree` (between operations the records, the trees and what the pages were told agree, and nothing is left in the scratch directories), and the refinement `ImplementsPluginSet`, by which what is installed builds and updates never go back. |
| `plugins_faults` | the same with every file system step failing and the daemon killed anywhere: `ForgottenStaysForgotten`, `SuccessMeansBuilt`, `OnlyTrustedMovesIn`, `KeyContinuity`, and that every operation whose prompts are answered ends (`OperationEnds`). |
| `gate` | a page, a native program, a web site and an image that another site embeds send requests, open a socket and guess the token: `PaysItsOwn` (nobody draws from another's bucket), `WindowBound` (in any window of time a bucket gives its burst and what it gained), `ServedMayCall` (a service runs only for who has the token and is no other site). |
| `listeners` | two receive loops on two ports: `OneDatagramLate` (a loop that was asked to stop handles one more datagram at most), `AskedLoopsEnd`. Two questions, by notification or box: `AnswerIsTheUsers` (approved by Confirm in that very prompt, denied by the user or the deadline), `ClickIsOnItsWay` (a click is not missed however early), `AskEndsIfBusAnswers` (the question ends, if no call on the bus is left without an answer). |
| `approval_bus` | `AskEnds`, without that condition, fails as the code does: `Notify` and `CloseNotification` have no deadline. |
| `bundle` | a build with no other beside it puts only a whole bundle in place, in which a plugin reaches, over any number of imports, nothing but files of its own that are no tests, and the API's (`LiveWasChecked`), reports what it did (`ReportIsTrue`) and leaves no bundle newer than its map (`MapNotOlder`), whatever earlier builds left behind. |
| `logfile` | rotations, failures, kills and restarts: `OnlyOldestGo`, `SizeBounded`. |
| `calls` | every kind of call of notify, sql and outbound, every candidate through the intake, processes at the token file: see below. |
| `calls_exempt` | `ExemptStaysOut` fails as the code does: an import without its extension reaches an exempt file, which nothing has scanned. |
| `pages` | three evaluations for two places and two pages: `OneAnswer` (one page is told that its answer was delivered, and it was), `EvalReturns`. One connection: `EachCallInOnePlace`, `NoChangeMissed`, `LogsInOrder`, and under fairness `CallsAnswered`, `PushesFlow`. |

Run `calls`: `NothingUnlessAllValid` and `DeliversToEachItsOwn` (a notification reaches no sink or each that was asked
for, with its own version, whatever became of the others), `OwnDeadlineOnly` (a watchdog that fires late interrupts no
later statement), `AnswersAreWhole` (rows and bodies are complete and within their caps, or refused),
`ConnectsOnlyToPublic` (against the ranges as first and last address), `FinishedCloneStands` (a whole clone is not
taken for a timeout, nor a broken one for whole), `AcceptedIsAsSigned` (the files are those the signature was made
over, and for this plugin), `OnlyScannedIsImported` (if imports name files in full, every source that `main.ts`
reaches by them, relative or mapped by a JSON file, was scanned; and whether they do or not, no relative import on the
way leaves the tree or leads to a test), `UpdatesAreReal` (while and between update checks the branch moves forward or
back, is replaced or goes: what is reported as its latest commit was so at a time since the check began, and the
changelog is the newest of it, complete up to the clone's head or the limit), `TokenHolds`, and `CallsReturn`: every
call returns, but for a delivery that a notification daemon leaves unanswered.

**Bounds, and why they are enough.**

* `store`: two namespaces, one of them reserved and one with two keys; three values, one under every limit, one
  that fills the file by itself, one over the limit of a value; the file has room for one or two entries. The
  store has no counter: what can differ between entries is whether they share a namespace, and between values
  whether they fit. Any number of calls and crashes is explored.
* `plugins`: two plugins, so that a failure of one shows in the bundle of both; five trees of which one does not
  compile, one has another key, one has a later version and an earlier signature. `plugins_faults` has one plugin
  and three of the trees, for the size of the state space; its properties speak of one plugin at a time.
* `bundle`: two processes and two builds: one to leave something behind or to be at work, one to find it. Each is asked
  for no plugin or for two, and the sources are as they should be or have one import too many: from the API to the
  host, to the other plugin, to a test file. Sources that are let in have an exempt file among them.
  The processes are alike, so states that differ in their names alone are explored once.
* `pages`, evaluations: one call more than there are places; two pages, the fewest that can answer the same call.
* `listeners`, loops: a loop to be replaced and one to replace it; a budget of one and bundles of two, so a bundle can be
  split between forwarded and dropped. `MaxReceived` caps the counters.
* `logfile`: six batches of three sizes (one larger than a file): at least two rotations in every order with
  failures and kills.
* `pages`, a connection: two calls of which one may never return, two threads, two batches, one malformed frame and one
  push besides; queue, ring and socket buffer of one, so each of them is full, and lagged behind, in most runs.
* `gate`: four kinds of peer cover every combination of origin and fetch metadata that the code tells apart; one
  socket, two requests at once and one more in two ticks, over three ticks, so that buckets run dry, refill by
  parts and are capped, and windows begin in the middle. The proofs are for any number of them.
* `listeners`, questions: two of them, so that the prompt of the first may be left over beside the second, and one
  notification of another program. Each is acted on once, as the daemon closes what was clicked.

* `calls`: results of up to three rows and bodies of up to one unit over the cap, so that each cap is met exactly and
  passed by one; three watchdog threads, two of which may be left from earlier statements; 33 addresses at both edges
  of every refused range and just beyond, in each form that embeds IPv4; 592 trees, each a sound one with one or
  two changes to its manifest, files, imports or signature, among them pairs whose files differ only in where they
  end, and imports and mappings in full, without extension and of a directory; two processes at the token, which may overlap or follow
  each other. Only `Sql` has calls one after another that matter, so the state is reset when a call returns.
  For updates one of the trees has a branch of four commits, with a fifth made in place of the last three, and a changelog
  of two, so that it is complete, cut off, and of a branch that the clone's head is not on; any number of pushes, at any
  time.

**Fairness.** `WF` of the steps of an operation of the plugins service: git and builds have deadlines and the file
system calls return; none of a prompt (`Prompting`), which `OperationEnds` takes to be answered. `WF` of a call of
`eval` once it has begun: it waits in `recv_timeout`, for 60 s at most. `WF` of a receive loop: its read times out
after 500 ms. In `Session`: the task of a connection goes on while any branch of its `select!` is ready, the pool runs
what it is given, the peer reads what it is sent; calls in `Slow` get none. In `Approval`: `WF` of `recv_timeout`,
whose deadline is that of the question; none of the calls on the bus, which have no deadline (`sinks/approve.rs:102`,
`:132`). In `Calls`: a call goes on when it can by itself, except where it waits for the bus (`OnBus`,
`freedesktop.rs:131`); a watchdog thread wakes and SQLite and gix look at their flags, a deadline of `reqwest` passes.
Nothing is assumed of users, pages that answer, esbuild, servers or the network.

Timing assumption of `Sql`: a statement is prepared before the deadline of 5 s, as it waits for a lock for 3 s at
most. SQLite drops an interrupt when no statement runs, so a watchdog that fired before the first step would be lost.

## 4. Proofs

What is assumed is the `ASSUME` of each module (`ConstantsOK` or, where modules are composed, a name such as `SqlOK`), which TLC evaluates in the runs. Each proof
module has an inductive invariant `IInv` made of the properties and of the facts that they need, and a lemma per
action.

* `StateStoreProofs` (`TypeCorrect`, `FileAlwaysWhole`, `MemoryNeverOverclaims`, `AckedSetsKept`, `Refinement`).
  The properties speak of the file; between the calls of a write, what keeps them is that the temporary file
  holds the map the call is about (`TempHoldsMap`) and is synced before the rename (`file.synced`), and what the
  store would say of memory once the call in flight has failed or succeeded (`Claims`, `Kept`).
  `Refinement` shows that each step is a step or a stutter of `DurableMap`.
* `PluginsProofs`, first part (`TypeCorrect`, `ForgottenKeysStayForgotten`, `SuccessIsBuilt`, `OnlyTrustedTreesMoveIn`,
  `KeysAreContinuous`), for any set of faults. Further facts say which operations reach a step
  (`KindAtStep`), that a candidate past its checks was vouched for (`CandidateVouched`) and which record goes
  with it (`RecordFollows`).
  Three more, in which a rollback may fail at every step: `NoRecordGoesBack` (`RecordsGoForward`: the date of the
  signature under which a plugin is recorded never becomes an older one; `SignedForward` follows the candidate from
  `check_update` to the write, and `recorded` is the record that an update still may come back to);
  `EachPluginHasItsOwn` (`TreesAreAtHome`: directory, record, saved record and bundle of a plugin are made from trees of
  that plugin; `HomeInv` adds what an operation has at hand to put back, which is its own plugin's, as `NothingSpare` at
  its start); `NoStepIsRepeated` (`OperationsAdvance`: `StepsLeft` falls with every step, so an operation has at most fifteen).
* `PluginsProofs`, second part (`OperationsLeaveAgreement`, `ServiceImplementsPluginSet`), for any plugins and trees as
  long as nothing fails but builds (`Quiet`, which is how the run `plugins` sets `Faults`). More cannot be had: with any
  other single kind of fault TLC finds `AllAgree` violated, at the lines of section 5 that return early. `QuietInv`
  follows an operation through its steps and back: the record describes the tree except between a move and the write of
  its record (`RecordDescribes`), where the tree of the plugin at hand is (`TreeAtStep`), what the scratch directories
  hold (`ScratchAtStep`), what was pushed (`AnnouncedAtStep`), and that an update goes forward (`GoesForward`). The
  refinement takes an operation for one step of `PluginSet`, the one in which its build ends: `MidOperation` and
  `AsFound` say what the abstract set is before it, `BundleOfTrees` what the bundle is after it.
* `PageProofs`, evaluations (`NeverTooMany`, `NoLostAnswer`, `AnsweredOnce`): a call in the map has an empty slot and a
  call out of it has been counted out (`Unanswered`, `AnswersSeen`).
* `PageProofs`, connections (`CallsAreNeverLost`, `PagesMissNoChange`, `LogsAppendInOrder`, `QueueAndPoolBounded`), for
  any traffic, queue, channel and pool. In `SessionInv`, `ApartInv` and `KeptInv` have each call in one place and no two;
  `TasksInv` and `AppendedInv` have a batch in the pool only while the loop waits for it, which is what orders the
  batches; `CursorInv` and `SinceInv` account for every push between the one a call has seen and the receiver's place.
  `NobodyWaitsInACircle` (`NoCircularWait`: whoever waits in a connection waits for someone who can go on) has the
  hypothesis `Cardinality(Slow) < Threads`: with as many calls that never return as there are threads, a log batch for
  which the loop waits is never appended, which TLC finds at once (section 5, `ws.rs:19`). It rests on `WaitInv` (the
  batch that the loop waits for is in the pool; a closed connection has no queue) and `PoolIsNeverFull` (one of the tasks
  that hold the threads returns).
* `ListenerProofs`, loops (`EveryMessageCounted`, `OthersAskedToStop`, `StoppedLoopsFallSilent`,
  `AskedLoopsGoToTheirEnd`): `LoopInv` relates a loop's flag to what it may still have in hand; a loop that was asked to
  stop is not called back, and `StepsToEnd` falls with each of its steps (`AskedLoopsWindDown`).
* `ListenerProofs`, prompts (`OnlyTheUserApproves`, `NoClickMissed`), for any number of questions, of other programs'
  notifications and of prompts left over. In `ApprovalInv`, `HeardInv` says that whatever is on its way to who asks, in
  the listener's stream or in the channel, tells first what the user did to this very prompt; `ScreenInv` and `StageInv`
  say which prompts are on the screen and how far a question got.
* `LogFileProofs` (`TypeCorrect`, `OldestGoFirst`, `StaysBounded`): batches in the files have numbers up to the
  last one accepted (`Numbered`), the renamed file is the one still open only while there is no new one
  (`OnPath`), and there is room for the batch when it is written (`RoomToWrite`).

* `BundleProofs` (`TypeCorrect`, `OnlyCheckedGoesLive`, `ReportsAreTrue`, `MapsAreNotOlder`): a build that is alone finds
  in the staging directory what its own esbuild wrote (`Staging`), and may rely on it because no other process is at
  work as long as no other build has begun (`Undisturbed`). `ChainsStay` leads from the rules on single imports to what a
  plugin reaches over any number of them.
* `GateProofs` (`TypeCorrect`, `EveryonePaysItsOwn`, `WindowsAreBounded`, `OnlyTheseAreServed`): `Weighed` is the
  potential argument for the window: what was drawn in it and what is left in the bucket is at most the burst and
  what was gained since the window began, and `OpenKnows` and `OwnersPass` say what a socket's stage tells of the
  peer that opened it.

* `CallsProofs` (`AllValidOrNothing`, `EachGetsItsOwn`, `InterruptsOwnCallOnly`, `NoStatementUnwatched`, `WholeAnswers`,
  `PublicHostsOnly`, `CompletedClonesStand`, `AcceptedTreesAreAsSigned`, `ImportsLeadToTheScanned`, `ReportedUpdatesAreReal`,
  `ShownTokenIsInFile`), from `NotifyOK`, `SqlOK`, `OutboundOK`, `IntakeOK` and `TokenOK`. Each component has an invariant over its own variables; `SqlApart`
  and its like say that no other component's step touches them.
  * `Notify`: what was attempted and what is left are together the chosen sinks, in their order (`AttemptedInOrder`);
    `DistinctListsFirst` shows that `SinkSet::select` lists each name once, in the order of first mention.
  * `Sql`: a watchdog about to interrupt is the running call's, and that call is late (`DueIsLate`); the rows read so far
    are the first of the result and within the caps (`ReadSoFar`). By `EachStatementWatched` a statement has a watchdog
    that waits, is about to interrupt it or has done so, and no watchdog waits for a call that returned.
  * `Outbound`: an address which a connection may still be made to was checked (`OutboundInv`), with the lemma
    `MasksAreRanges` by which the masks of the code are the ranges; a body is looked at when the reading ends (`BodyInv`).
  * `Intake`: what `op`, `dir` and `taken` can be at each place (`Placed`); what a walk lists is the newest of the branch
    up to what it hides (`WalkedIsNewest`), and a report stays true of `tips` when the branch moves on (`PushKeeps`).
    `NoTwoHashedAlike` is about
    `tree_digest`: of what was hashed, the frame of each file stands where those before it end (`FrameStands`); two
    frames at one place have the same path, as neither has a NUL in it (`OnePathStands`), and then the same length and
    text (`OneTextStands`); so two trees that are hashed alike agree path by path (`PathInBoth`, `TextInBoth`). `ImportsLeadToTheScanned` is about `escapes_plugin`,
    `imports_exempt_file` and `json_maps_exempt_file`. `Depth` counts up and down along a specifier and `TargetOf` builds the
    path it leads to; step by step (`DepthBySteps`, `TargetBySteps`) the path is as long as the count, so it has no `..` left
    while the count is not negative (`InsideStays`), and what it leads to is no test, completed or not (`RelativeStays`).
    A file whose name the import has in full, or that is an index, is not exempt (`NoneEndsExempt`, `UnlessExempt`), and
    this carries over any number of imports (`ReachedLies`, `ReachedIsScanned`). That imports do name files in full is a
    hypothesis (`NamesInFull`); without it the claim is `ExemptStaysOut`, which fails.
  * `Token`: while processes did not overlap, one which has the temporary file open has it under its name (`HoldsTemp`),
    and every file a stop of the machine may bring back is whole (`PastIsWhole`).

  What is recursive here (`Distinct`, `Bytes`, `Hashed`, `Depth`, `TargetOf`, `Reached`) is a function over the numbers up
  to a length, and five lemmas on sets take the place of induction theorems: `Least` (a set of naturals has a least
  member), `Inductive`, `InductiveFrom`, `Along` (what holds at the start and is kept from each index to the next holds
  along a sequence) and `Recursion` (a function over `0..N` may be given by its first value and its steps).

Some theorems are on properties that no run lists. `FileAlwaysWhole`, `MemoryNeverOverclaims`, `NeverTooMany`,
`NoLostAnswer`, `EveryMessageCounted`, `OthersAskedToStop` and `QueueAndPoolBounded` are on invariants from which a
property of a run follows. `NoRecordGoesBack` and `EachPluginHasItsOwn` are what is left of `ImplementsPluginSet` when
anything may fail. `NoStepIsRepeated`, `AskedLoopsGoToTheirEnd`, `NoStatementUnwatched` and `NobodyWaitsInACircle` are
the safety part of liveness properties: a measure that every step lowers, or someone who can always go on. TLC has
checked each of them on the constants of its component's run.

Only model-checked:

* Liveness (`OperationEnds`, `AskEndsIfBusAnswers`, `EvalReturns`, `AskedLoopsEnd`, `CallsAnswered`, `PushesFlow`, `CallsReturn`):
  the prover has no rule for fairness that it could use here, so that a step which can be taken is taken in the end stays
  with TLC. What these rest on besides fairness is proved for `OperationEnds`, `AskedLoopsEnd`, `CallsAnswered`,
  `PushesFlow` and the statements of `CallsReturn`, as said above.

Every safety invariant, every action property and both refinements that a run lists are stated by a theorem, except what
`store_acked_delete` and `calls_exempt` refute.

## 5. Where the code and its documentation part

Shown by a run, and listed under `findings`:

* `store_acked_delete` (`state.rs:169`): a delete that failed is acknowledged when it is tried again, and not durable.
* `calls_exempt` (`policy.rs:395`): `import './eslint.config'` passes the scan, as `is_specifier` looks for the name with its
  extension, and esbuild completes it to the exempt file. `policy.rs:35-40` says that nothing can be smuggled in this way.
  `check_inputs` (`build.rs:282`) refuses tests only, so the bundle goes live.
* `approval_bus` (`sinks/approve.rs:102`): `Notify` and `CloseNotification` are blocking calls without a deadline, outside
  the 120 s of the question, against `core/approve.rs:42-43`.

Seen while modelling, not run on their own:

* `state.rs:149`: a refused `set` in a new namespace leaves the namespace behind, empty (its comment at 134-135
  says the map is as before). `state.rs:175`: a delete that would shrink a map that is over the limit is refused,
  as its write is checked too (161-163).
* `service.rs:630`: an update whose record cannot be saved returns before the build, with the new tree in place under the
  old record. If that tree does not compile, every later build fails; `service.rs:23-25` says the previous tree is put
  back "so a plugin that cannot compile never wedges every later build". `AllAgree` and `ImplementsPluginSet` are
  claimed where no save fails.
* `service.rs:556`: an install whose record cannot be saved leaves its tree. `service.rs:680`: after an update
  whose record was not saved, the next one is compared with the older record.
* `remote.rs:156-157`: an answer between the timeout and the removal is told `delivered: true`, and the call
  answers that no page did.
* `osc/mod.rs:102`: listen on another port stops the held loop before it tries the bind. If that fails, the stopped
  listener stays held: the next listen on the old port answers ok, `started: false`, and no loop listens
  (`mod.rs:94`: "Bind the receive port, or report the one already bound").
* `logfile.rs:115`: a rotation that fails refuses the batch, and after a rename without a reopen every later batch
  until a restart, as nothing is left to rename (`logfile.rs:80`: "on failure keep appending to the current file
  rather than losing records").
* `sinks/approve.rs:89-98`: a question that failed on the bus leaves its thread until the next signal; without any,
  such threads add up.
* `guard.rs:379`: `Retry-After` is rounded down to whole seconds, so a caller that keeps to it may be refused again.
* `token.rs:65`: a rotation beside a running daemon leaves the old token valid until a restart, and two processes
  that create the token write the same temporary file.
* `listener.rs:137-140`: after a socket error the loop is gone, and `status` says it listens.
* `ws.rs:253`: "a full queue means the peer is not reading"; it also is full when more calls finish than fit
  while the loop waits for a log batch.
* `ws.rs:19`: "nothing blocks in that loop"; `on_logs` waits there for a thread of the pool. With every thread
  taken by slow calls the connection stands still. `Session` assumes one thread more than slow calls.
* `sql.rs:32`: the module documentation says that writes use an immediate transaction; `execute` (208-216) begins none. No
  registered database is writable, so no statement gets that far. `sql.rs:327`: a quoted name after the `;` is taken for
  no second statement; SQLite ignores it too. `sql.rs:454`: columns of one name collapse to the last of them.
* `outbound.rs:160`: a client that could not be built is remembered as failed until a restart.
* `git.rs:77`: a branch that was rewound is reported as an update, with whatever of it the walk does not hide for a
  changelog, which may be nothing.
* `git.rs:36`: "the destination has been removed" when a clone fails, and `service.rs:343`: "On any error the temporary
  directory is gone"; the removal is best effort (`git.rs:108`), and a kill leaves the directory as well.
* `freedesktop.rs:131`: a delivery has no deadline. A notification daemon that does not answer keeps the thread.
* `build.rs:127`: the staging directory is shared with any other process that builds, see the hazard.

## 6. Not modelled

* Of how esbuild resolves an import, `Intake` has relative specifiers, extensions that are left out, directory indices and
  JSON maps, and leaves out letter case and symbolic links (which the scan refuses). It lets a mapping of any JSON file
  apply to any import of the plugin, which is more than esbuild does; a tsconfig has no effect in the code, as the build
  passes `--tsconfig-raw`. A mapped import may lead to a test or out of the tree as far as the scan is concerned; that the
  bundle then is refused is `LiveWasChecked`. An exempt file that gets past the scan is not refused there.
* The texts themselves: the list of banned names, the entropy of a blob, JSON, URLs and SQL are classes of what the code
  tells apart. SHA-256 is taken to be injective and an Ed25519 signature to be its maker's.
* OSC encoding (`osc/proto.rs`) and paths: functions of one value, or of the environment, without state or order.
* `list`, `keys`, `describe` and `status`: reads. Parsing of the command line, response shapes.
* Network, SQLite, gix, esbuild, D-Bus and WayVR: other programs, of which only the outcome matters here. Time is
  modelled in `Gate` alone: elsewhere a deadline may always pass and a limiter may always refuse. What `f64` rounds in
  a bucket is left out.

## 7. Plan

Done, in this order: `StateStore` with `DurableMap`; `Plugins` with `PluginSet`; `RemoteEval`; `OscListener`;
`LogFile`; `Session`; `Bundle`; `Gate`; `Approval`; `Service`, `Notify`, `Sql`, `Outbound`, `Intake`, `Token` and
`Calls`; the proofs of section 4.

Next:

1. The refinement of `Plugins` under further faults, by a `PluginSet` that allows what section 5 describes. What holds of
   it whatever fails is proved one by one (`NoRecordGoesBack`, `EachPluginHasItsOwn`).
2. The sources of `Intake` and the inputs of `Bundle` as one: from the tree that was scanned to the bundle that was
   checked.

## 8. Reading the properties

Every property of a passing run has a variant of one action that breaks it: the mistake a change to that code
could make, such as a rename before the sync (`SyncTokenSkipped`), a record that is not put back
(`UndoSaveSkipped`) or a receiver that starts afresh when it lags (`LagAfresh`). `PROJECT.json` pairs them under
`mutants`. To run one, replace the body of the named definition by a use of the variant.

Run `tlc -config X.cfg MCX.tla` for a run and `tlapm XProofs.tla` for a proof.
