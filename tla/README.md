# Verification of job-search-facilitator

TLA+ modules, TLC configurations and TLAPS proofs for the programs of this
repository. All paths are relative to the repository; application code is under
`packages/app/{agent-bridge,client,server}/src`.

## 1. The system

A Vue client talks to two local Node servers: the *server*, an Express API over
a Postgres database of job posts, reports, outreach and artifacts; and the
*Agent bridge*, which runs agent tasks in a Codex app-server process, streams
their progress to the client, and shows the automations that the desktop app
runs. Two of these run without a user: the job search, whose agent prepares a
report with a command line of the server, and the update check.

    views -> stores -> HTTP --> server -> Prisma/Postgres
                \----> HTTP + EventSource --> bridge: task routes
                                                -> task manager -> CodexRuntime
                                                   -> AppServerConnection -> process
    run-job-search -> AppServerConnection -> process -> job-search-artifact -> server
    Settings page -> bridge: automation routes -> automation.toml <- desktop app

| component | state | operations | hard behaviour | correct when |
|---|---|---|---|---|
| `AgentTaskManager` | tasks (status, log, prompt, timer, cancellation), starts under way | start, cancel, resolvePermission, connect, runtime events, inactivity timer | an interrupt, a completion, the timer and the runtime's failure race; PUT is repeated | one turn per task; a running task is watched; an outcome is final; every request is shown or declined |
| task routes + `EventSource` | listeners, what is on the wire | replay from Last-Event-ID, live delivery, end | dropped connections noticed late, replay against live events | each reader gets the log once, in order, to its end |
| `CodexRuntime` over `AppServerConnection` | ready, pending requests and permissions, browser threads and cleanups, event queue, captures | launch, startTask, interruptTask, resolvePermission, notifications, description captures, failure, shutdown | events before the caller knows its turn; tabs closed by three parties; exit with output unread; a description copied while its import ends | events follow their start; tabs closed once; no request waits for ever; failure is last; an import reports the text that was copied for it |
| `stores/agent.ts` | sessions, task states, streams, sessionStorage | start, retry, restore, cancel, permissions, dismiss | answers in any order, reload and bridge restart | page and bridge agree; a running task is remembered |
| `stores/outreach.ts` with the Apply and Track views | open post and contact, draft, revision counters, queue of results | open, edit, save, remove, discover, revise, apply results, restore | results of several tasks and answers to several requests while the user moves on | a person is saved once; a draft belongs to the contact shown; a result is saved or given up with notice |
| `stores/post.ts`, `report.ts`, `job-post-import.ts` with Review | canonical posts, lists, mutation revisions, import session | fetch, import, retry, cancel, remove, label | a list asked for earlier arrives after a later change | what is shown follows the server; imports are saved one at a time, and saving ends with the answer |
| job-post and report repositories | rows | import, store a report (net-new or not), remove | two transactions under READ COMMITTED, locks in an order, identity aliases | serialisable; no deadlock on identities; net-new is net-new |
| update check, outreach repositories | status, contact, timelines | user's change, evidence, removal | read without a lock, then write | timeline and record tell the same; evidence never sets a status back |
| artifact pipeline | files of a run, the report | history, pool, judgment, assemble, verify | commands repeated in any order, stopped between two writes | the report follows a judgment; a verified report was stored |
| search launcher | turns it has heard of, completion, exit code | set up, turn, signals, clean-up | threads of other agents, loss of the process, a signal while cleaning up | every turn is ended and tidied, or the exit code says so |
| automations | a TOML file | list, PATCH with a revision; schedule as rules | compare, then rename; rules the form cannot show | a save changes what was shown; a schedule survives its file |
| resumes, launchers, contracts, routes, rendering | - | - | none that interleaves | not modelled, see 7 |

`PROJECT.json` lists every component with its status, and under "hazards" what
is hard to test in this code, at its line, with the property that covers it.

## 2. Modules

| module | models | state ↔ code |
|---|---|---|
| `TaskLifecycle` | what the bridge promises of a task: it begins once, reports, asks one permission at a time and ends exactly once | `view[t]` is the public task and its event log |
| `TaskManager` | `tasks/agent-task-manager.ts` | `tasks`, `taskStarts` are the two maps; `startCalls`, `interrupts` the runtime calls awaited; `health`, `liveTurns`, `requests` the runtime behind `AgentRuntime` |
| `TaskManagerProofs` | theorems about `TaskManager` | - |
| `TaskStream` | GET `/tasks/:id/events`, `connect`, `emit`, `connectAgentTask` | `readers` are EventSources, `connections[r][n]` the bridge's side of r's n-th connection with what is on its wire |
| `TaskStreamProofs` | theorems about `TaskLifecycle` and `TaskStream` | - |
| `CodexRuntime` | `runtime/codex/codex-runtime.ts` over `app-server-connection.ts`, with `server.ts` that launches it and shuts it down | `calls` = pendingRequests, `jobs` = settled promises whose continuation has not run, `queue` = queuedEvents, `browserThreads`, `browserCleanups` the maps of that name |
| `CodexRuntimeProofs` | theorems about `CodexRuntime` | - |
| `DescriptionCapture` | the text of a job description on its way into an import: `handleDescriptionCapture`, `captureJobDescription`, `completeJobPostImport` | `captures` = jobDescriptionCaptures, `copies` the tool calls of the agent, `imports` what the bridge knows of the turns of a thread |
| `AgentStore` | `stores/agent.ts`, the session guard of `router/index.ts`, `agent-session.ts`, over the bridge's routes | `states`, `sessions`, `nonRestorable`, `streams` are taskStates, sessions, nonRestorableTaskIds, eventSources; `asked`/`replies` are requests and answers under way |
| `AgentStoreProofs` | theorems about `AgentStore` | - |
| `OutreachStore` | `stores/outreach.ts` as the Apply and Track views drive it, over the contacts of the server | `saved` the server's rows; `contacts`, `contact`, `draft`, `queues` the refs of that meaning; `calls` the requests under way with the revision they were made at |
| `OutreachStoreProofs` | theorems about `OutreachStore` | - |
| `ReviewStores` | `stores/post.ts`, `report.ts`, `job-post-import.ts` as the Review view drives them | `posts` the canonical objects by id, `added` userAddedPosts, `mutations` their mutation revisions |
| `JobListings` | `job-post-identity.ts`: identity tokens of a listing (pure) | a URL is what `identityAliasesForUrl` looks at |
| `JobIdentity` | what the server promises of posts and reports: each request takes effect at one moment or not at all | `reply[c]` the answer of a request |
| `JobPosts` | `job-post.repository.ts`, `search-report.repository.ts`, `lock-job-post-identities.ts` | `rows`, `results`, `userAdded` the tables as committed; `calls[c]` the transaction with its locks |
| `JobPostsProofs` | theorems about `JobPosts` | - |
| `Tracking` | status updates, `job-update-check.repository.ts` save, `outreach.repository.ts` update and remove | `post`, `contact` the rows; `manual`, `observed` the timeline; `requests` what each transaction has read |
| `SearchPipeline` | `job-search-artifact.ts` with its command line | `files` the files of a run by name, `board` and `published` the server |
| `JobSearchRun` | `run-job-search.ts` | `step` what the script awaits, `turns` and `order` its map of turns |
| `ServerProofs` | theorems about `SearchPipeline`, `JobSearchRun`, `DescriptionCapture`, `Tracking` and `MCServer` | - |
| `Automations` | `http/automation-routes.ts`, `AutomationSettings.vue` | `config` the file, `handler` a PATCH under way, `pages` browser tabs |
| `ClientProofs` | theorems about `ReviewStores`, `Automations` and `MCClient` | - |
| `MCAgentStore`, `MCJobPosts`, `MCOutreachStore`, `MCServer`, `MCClient` | instances for TLC | values, symmetry, and the parts run together |

Composition and refinement:

* `TaskManager` implements `TaskLifecycle`: its instance
  `Lifecycle == INSTANCE TaskLifecycle WITH ...` maps the stored tasks to `view`.
* `JobPosts` implements `JobIdentity`: `Identity == INSTANCE JobIdentity WITH ...`
  takes the answer of a call for its `reply`; a transaction is the abstract step
  at the moment it commits.
* `TaskStream` EXTENDS `TaskLifecycle` and adds the readers to its steps.
  `AgentStore` INSTANCEs `TaskLifecycle` as the bridge and relies on what
  `TaskStream` shows. `OutreachStore` and `ReviewStores` keep of `AgentStore`
  the sessions and outcomes they read.
* `JobPosts` and `SearchPipeline` share the identity of `JobListings`; what the
  pipeline asks of the server is the atomic request that `JobIdentity` states.
* `MCServer` and `MCClient` put modules that share no changing state side by
  side: `part` names the one that moves in a behaviour, the others stay in an
  initial state. This saves nothing of the interleavings inside a part.

### What an action is

Node and the browser run one callback at a time. An action is a callback with
the promise continuations it triggers; every await on something outside splits
an operation in two. In `TaskManager` the continuation of a runtime call is part
of the step in which the runtime settles it. `CodexRuntime` looks closer: lines
of one chunk, continuations (`jobs`), and the `setImmediate` flush are separate
steps, and a callback starts only when no continuation waits (`NextCallback`).
It lets a line come between two continuations, which is more than Node allows.
In the client's stores a request, its handling by the server and its answer are
three steps, or two where the answer carries nothing that the order of handling
decides. In the repositories a step is a statement that waits for a lock or
reads what another may change before the next; statements that follow a row lock
on that row belong to its step. `Automations` has the bridge's synchronous handler in
steps all the same, since the desktop app is another process.

Data is reduced to what decides something: a message is "progress", a result is
whether its final message parses and satisfies the schema, a post of the client
is a revision, a candidate a listing and a text, a digest what it was made of.
Mutants, each beside the definition it varies, are the plausible bugs the
properties are known to catch; no run uses them.

## 3. Runs

| run | instance | shows |
|---|---|---|
| `task_manager` | 2 tasks (one with Chrome), 1 permission, logs stop growing at 2 before they end, 1 cancellation each; 327,272 states | no running task is unwatched, one turn per task, finality, refinement of `TaskLifecycle` |
| `task_manager_prompts` | 1 task, 2 permissions, 2 cancellations, fairness; 72,446 states | an undecided request of a live turn is on the screen (the second one is declined); every task ends or waits for the user |
| `task_stream` | 2 tasks, 1 permission, 1 reader, 2 lost connections, fairness; 91,759 states | each reader holds a prefix of a log that tells the task's story, and what is on the wire continues it; no listener leaked; the outcome arrives |
| `codex_runtime` | 2 Chrome turns, the second may resume the first's thread, 1 interrupt, launch, shutdown, exit or failure at any point; 1,138,642 states | order of events, completion before failure, tabs closed once, shutdown waits |
| `codex_runtime_live` | 1 turn, 1 permission, 1 note, 1 interrupt, fairness; 110,228 states | calls return, failure is told, shutdown ends |
| `agent_store` | 2 tasks that take one session in turn, 1 permission, 1 reload, 1 restart of the bridge; 1,146,874 states | lists agree and hold one session, true and final outcomes, prompts current, running tasks remembered |
| `agent_store_live` | 1 task, the same disturbances, fairness; 61,005 states | no panel is busy for ever; an outcome or an error is seen |
| `agent_store_reload` | 1 task, 1 reload | **violated**, see 5 |
| `server` | the parts posts, tracking, search, run and captures (below); 628,538 states | serialisable transactions without a ring of locks, timelines, evidence, reports that follow their judgment, a launcher that accounts for every turn, descriptions that serve their import |
| `client` | the parts outreach, review and automations (below); 606,844 states | people saved once, results saved or reported in their turn, drafts with their contact, lists that follow the server, one import saved at a time, schedules |
| `job_posts_duplicates` | an empty database and 2 requests | **violated**, see 5 |
| `outreach_track` | 1 tracked post with a contact, 1 discovery | **violated**, see 5 |

Bounds and why they are enough.

* Tasks and streams. Properties relate at most two tasks (a shared thread, a
  replaced session), a request and the one after it, a connection and the one
  that replaced it, hence two of each. `MaxEvents` only stops progress and
  prompts, never the event that ends a task; two or three entries leave room for
  a prompt before and after a break. One interrupt and one cancellation suffice
  for each race with one completion; the second cancellation in the `prompts`
  run covers cancelling again after a failed interrupt. The page reloads once
  because a reload leaves nothing behind but sessionStorage and requests the
  bridge has already received.
* Server, posts: 2 calls under way, 2 reports, 2 source keys and 3 listings: one
  job under both keys, known by its Greenhouse id, and another under the second. A lost update, a ring
  of locks and a broken net-new check each need two transactions and two tokens.
* Server, tracking: 2 requests at a time, 3 in all, over a clock of 3 instants:
  evidence older than, as old as and newer than a user's change, about the
  status, about the contact, or for the user to review.
* Server, search: 3 candidates (two texts of one job, and another), 2 coverages,
  at most 2 merged candidates and 2 writes after the first files: every command
  can be repeated with one of its inputs replaced before it and one after it.
* Server, run: the search and 1 agent thread of 2 turns: the turns map then holds
  two threads, one of which begins a turn after it was visited. A run starts
  either at its first request or with the turn asked for, which lets the clean-up
  be reached within the same number of steps.
* Server, captures: 2 imports, each with a turn that may follow in its thread, 1
  copy, 2 URLs: the copy can be asked for, answered and used before, in and after
  either end of its import, or be named by the other import.
* Client, outreach: 2 posts, 2 discoveries, 1 revision, 2 people, 2 contacts, 3
  requests and 1 reload. `Starts` gives several beginnings, so that a short
  behaviour has what is needed: two discoveries and a reload; a saved contact
  with both kinds of task; two saved contacts and a revision; the Track view.
* Client, review: 2 source keys, 3 posts (one removed and stored again), 4
  requests, 2 imports: an answer, the change it is older than, and one more.
* Client, automations: a week of 3 days, 2 hours with 2 minutes each (the
  positions BYSETPOS counts are then as many as in the code's cross product),
  2 changes of the file by anyone, 2 pages. The schedule algorithms are
  checked over all rules of that week (`ScheduleIsKept`), and proved for any.

Symmetry is used in safety runs only (calls, slots, posts, people, tasks, keys).
`CHECK_DEADLOCK FALSE` everywhere: tasks and requests end and the system really
stops.

## 4. Fairness

* `TaskManager`: an armed inactivity timer fires (a turn's activity is finite),
  and each runtime call settles, because every request of `AppServerConnection`
  has a timeout (15 s). No fairness for the runtime's events or the user.
* `TaskStream`: the browser reconnects, written events are delivered, dead
  connections are noticed (socket close). Nothing forces a task to end.
* `CodexRuntime`: the launch's continuations, timers (request timeout, exit
  drain), `setImmediate` and continuations run. None for the process: it may
  answer nothing.
* `AgentStore`: the bridge answers each kind of request of each task, the
  browser runs each continuation, a stream delivers or learns that its task is
  unknown. None for users, reloads, restarts or tasks.
* The other modules state safety only.

## 5. What the checks found

* `agent_store_reload`: README.md promises to restore "active Agent tasks after
  navigation or reloads" (line 40). While PUT `/tasks/:id` is starting a task,
  the bridge has no entry for it, so the restore after a reload is answered 404,
  the store takes the session for a lost one and dismisses it, and the task then
  runs with no page showing it. `RunningIsRemembered` states what does hold: a
  running task is remembered unless a reload overtook its start.
* `job_posts_duplicates`: README.md says that source keys and canonical URLs
  prevent duplicate records (line 61). An import, or a report that need not be
  net-new, looks a job up by its source key alone and stores a second record of
  a listing whose URL is known. `JobIdentity` states what does hold: the net-new
  report is refused.
* `outreach_track`: in the Track workspace, saving the draft of a contact that
  was discovered after the list was loaded makes the list forget the contact:
  `handleDraftSaved` (`TrackView.vue:269`) maps the old entries, and the watch
  on the selected entry puts the contacts of the old list in place of the new.

Corners that the properties except, each named in the module:

* A result read in the same chunk before the answer to an interrupt is shown as
  cancelled: the interrupt's continuation runs before the flush of events.
* `browserThreads` is kept by thread, so a turn resumed in the thread of an
  interrupted one can lose its cleanup. `Disturbed` in `CodexRuntime` names
  those threads; no caller in the repository resumes such a thread.
* After the process exits its captures are forgotten at once, but its remaining
  output is still read ("drains terminal notifications emitted after process
  exit", tests/codex-runtime.test.ts:1169). The final message of an import read
  then is passed on without its description, as is one read before `startTask`
  has gone on, or after an interrupt: `UnderWay` in `DescriptionCapture`. The
  client refuses such a result.
* A person is created twice when the page is reloaded while the creation is
  under way (`overtaken` in `OutreachStore`): the restored result is saved anew.
* When the contacts of a restored task cannot be listed while its result is being
  saved, `restoreTaskContext` (`outreach.ts:664`) offers to run the task again, and
  doing so dismisses the session (`unlisted` in `OutreachStore`). The first result
  is saved all the same, unseen, and a second discovery begins beside it.
  `ResultsProceed` therefore allows a queue entry whose session is gone;
  `PersonSavedOnce` holds also then.
* `finishTask` (`agent.ts:211`) parses the output of an import as the post, where the
  task returns `{ result }`, which `job-post-import.ts:102` unwraps. So the parse
  always throws, every import that is over counts as one not to be remembered,
  and the next navigation dismisses its session (`DismissImport`), also while its
  result is being saved. The save goes on; if it fails, the result is lost and
  nothing says so. No text of the repository promises that it is kept, so no run
  is expected to be violated here; `OneSaveAtATime` states what does hold: the
  saving ends with the answer, and is never taken for that of another import.
* A contact list asked for before a removal and answered after it brings the
  contact back (`overlapped`); a reports answer has no revision guard at all and
  can make a removed post canonical again (a hazard without a property).
* The desktop app's write between the bridge's last comparison and its rename is
  replaced (`SaveChangesWhatWasShown`): no lock of a file would prevent it.
* The answer to a start that is lost while the bridge lives on leaves a task
  without a page (a hazard without a property).

## 6. Proofs

Eight modules hold theorems, each about the components it names and for all values of the
constants that satisfy its named assumptions (the bounds are naturals, a null is
none of the values it stands beside, a special set is a part of the set it is
taken from; `TokenRankAssumption` of `JobPosts`: `lockJobPostIdentities` sorts by
a total order; `StartsAssumption` of `OutreachStore`: in the contacts and tasks
that earlier pages left behind, ids are in the order of creation, no person is
there twice for a post, and no draft is of a task still to come;
`RulesAssumption` of `Automations`: the bounds on rules leave out none that the
desktop app has in the file or that is written for a schedule a form can hold;
`ClockAssumption`: hours are 0 to 23 and minutes 0 to 59, as `numbers` demands;
`PositionsAssumption`: MAX_AUTOMATION_TIMES squared is at most twice the greatest
BYSETPOS - 576 and 732 in the code). Each safety theorem is `Spec => []Inv`, along the same argument:
the property is not inductive alone, so an invariant that implies it is shown to
hold at first and to be kept by every step; each lemma about a step has one
case for each action it is about.

**`TaskManagerProofs`**

* `TypeCorrect`: `TypeOK`, an induction of its own.
* `NoTaskUnattended`, `NoSecondTurn`: `RunningIsWatched` and `OneTurnPerTask`.
  The invariant `IInv` adds `SingleStart` (a call of startTask is in flight
  exactly for the keys of `taskStarts`, and only for unknown tasks),
  `SingleTurn`, `SingleInterrupt` (an interrupt is in flight exactly while
  `cancellation` is set), `Attended` and `Prompting` (a prompt is only on the
  screen of a running task). An interrupt that returns clears `cancellation`:
  only if it was the single one in flight may the re-armed timer take over.
* `EndStays`: `EndIsFinal`, an action property, from `IInv` step by step.
* `NoRequestUnseen`: `OpenRequestIsShown`, from `IInv` and `NothingUnasked` (a
  request still unasked is in no log).
* `Implements`: `Spec => LifecycleSpec`. Each action maps to a step of
  `TaskLifecycle` or a stutter; the step for a prompt needs `NothingUnasked`.

**`TaskStreamProofs`**

* `LifecycleLogIsTrue`: `LogIsTrue` of `TaskLifecycle`. `LogInv` says of each log
  where the outcome is and which request is open; a step appends one event.
* `StreamTypeCorrect`, `StreamFollowsLog`: `StreamTypeOK` and
  `ConnectionsFollowLog`. `Follows` relates a reader to each of its connections:
  what it was given and what is on the wire of the one in use are the log, in
  two intervals; it was given no outcome while its source is in use; a response
  was ended only because the task was over.

**`CodexRuntimeProofs`**

* `RuntimeTypeCorrect`, `StartsAreTold`: `TypeOK`, by which the failure of a
  connection is queued once, and `StartBeforeEvents`. `RuntimeInv` follows a
  call through its places: it is made (`calls`), answered and its continuation
  not run (`jobs`), or over, one at a time and only in the step of startTask
  that waits for it; what there is about a task besides is there when its
  startTask is over, or will be before another callback starts; after a failure
  no process answers.
* `CompletionsOvertake`: `CompletionOvertakesFailure`, with an invariant of its
  own on top: the end of a turn that was read before the failure is in the
  queue ahead of it, or told.
* `TabsAlwaysClose`, `ShutdownAlwaysWaits`: `TabsAreClosed` and `ShutdownWaits`,
  from one invariant more, `TabInv`. The code keeps what is open by thread and by
  turn, so the invariant does: what the entry of a thread says of its task
  (`ThreadInv`), of its turn (`TurnInv`), of who asked for its end (`StopInv`,
  `Asked`), and of the tabs to close (`CleanupInv`); a shutdown that waits has
  asked every active turn to end (`ShutdownInv`), and what it returns to is an
  empty list (`ListInv`). Between two continuations of one callback some of this
  is broken for one thread: `Calm` says what holds of every other, and each
  lemma about a step either leaves a thread as it is (`CalmThread`) or takes it
  from one complete state to the next (`StepInThread`). The proof needed a
  guard to be exact: a thread is resumed only when every earlier task of it is
  over (`TaskOver`: it ended, or its start was refused). With the weaker guard
  that two tasks allow, three tasks can have two turns open on one thread, and
  the second takes the place of the first.

**`ServerProofs`**

* `CaptureTypeCorrect`, `CapturesAreServed`: `CaptureTypeOK`, and the action
  property `CapturesServeTheirImport`. `CaptureInv` ties the three records
  together: a thread has captures only from a started turn that no interrupt has
  ended; they are calls of this thread that have copied a text and told the
  agent; a call that waits for the browser, or goes on after it, finds captures
  only while the import is still under way.
* `RunTypeCorrect`, `TurnsAreAccounted`: `RunTypeOK` and `RunIsAccounted`.
  `RunInv` adds that the turns the script has heard of are those that have
  begun, except for the one of the search while its answer is on its way
  (`TurnsHeard`, `MainBegins`), what the loop has done for every thread it has
  been to (`LoopVisits`) and what the exit code tells (`CodeTells`).
* `ReportsFollowJudgments`: `ReportFollowsJudgment`. `SelectionInv` says that the
  selection file, though any command may have been run since, is what some
  judgment that was written says of the review it was made of. The digest that
  `assemble` compares then makes that review the candidates of the report.
* `VerifiedReportsWereStored`: `VerifiedReportWasStored`. `StorageInv` adds that the
  report file follows a judgment, that every row of the server is under its own
  key, and that an answer that was kept recommends what some stored report does.
  The first attempt failed for a good reason: the property then said that a
  report whose answer verifies was itself stored. Beyond the bounds of the run
  that is false (TLC shows it with two more writes): an answer shows the posts as
  they are, and when a user has imported one of them again with another text,
  the answer is equal to a report file made of that text which was never sent.
  What holds, and what is now stated and proved, is that a report with the same
  jobs, labels, order and search was stored.
* `TrackTypeCorrect`, `TimelinesMatch`, `EvidenceOnlyAdvances`: the type, and
  `TimelineMatchesRecords` and `EvidenceNeverRegresses` of `Tracking`, from
  `TrackInv`. A user's change of the status writes what it computes from the row
  it has read; that stays right because the views have one such change under way
  at a time, and what a check saves meanwhile adds no manual activity and leaves
  the date alone (`StatusReadsAreTold`). Of a contact, which two changes may write
  at a time, no such thing is needed: a change clears the activities that either
  the row found or the row written calls for. A check makes its updates one by
  one, as many as there are: that they only advance a row (`Advanced`, `Answered`)
  is an induction over data, which `LeastNumber` makes possible: every set of
  naturals has a least element (from the library's `WFMin`), so a property of 0
  and of each next number has no first exception (`UpTo`).
* `SearchTypeCorrect`: `SearchTypeOK` of `SearchPipeline`. What `Deduplicated` leaves
  of a list is no longer than it (`DeduplicatedIsList`, with `UpTo`), and a report is
  assembled only of keys that its candidates have (`SearchTypeInv`).
* `ServerTypeCorrect`: `ServerTypeOK`, of the parts that one run puts side by side.
  `ServerParts` says that a behaviour of `ServerSpec` is one of each part, so that
  the theorems about the parts, those of `JobPostsProofs` too, hold of it.

**`JobPostsProofs`**

* `PostsTypeCorrect`: `PostsTypeOK`.
* `NoRingOfLocks`: `NoLockCycle`. The locks a transaction holds are the first
  of the tokens it needs, by rank (`InOrder`), so whoever waits for another waits
  for a token above all it holds; a ring of waiting transactions would have one
  whose awaited token is the greatest (the calls that have begun are finitely
  many, an invariant too).
* `PostsImplementIdentity`: `PostsSpec => ImplementsIdentity`. A transaction is the
  abstract step at the moment it commits. What it found when it checked must
  still be so then (`StillNetNew`): it is, because it has locked every token of
  its posts and whoever stores the same job needs one of them (`LocksInv`).

**`AgentStoreProofs`**

* `StoreTypeCorrect`, `SessionsAlwaysAgree`, `OutcomesAreTrue`,
  `RunningTasksAreRemembered`, `PromptsAreCurrent`: every invariant the runs
  check of `AgentStore`, from one invariant, `StoreInv`. For each task it says
  which promise of the page is open: the requests that start or restore it
  (`Promised`) and their answers (`Settled`) are one at most, and nothing else
  touches the state of the session meanwhile (`OpeningInv`); that the bridge has
  nothing to start for a task it knows or that was refused, and starts only what
  a promise asked for unless a reload came (`StartInv`); that an answer still on
  its way tells the truth about the task (`AnswerInv`); what a cancellation
  under way implies (`SessionInv`). `PromptIsCurrent` needs the log: a request comes
  before its resolution and after that of every other (`LogInv`), so the prompt
  after one more event is the one asked for and not settled; and a decision
  moves from `asked` to `replies` to `decided` without getting lost (`Decides`).

**`OutreachStoreProofs`**

* `OutreachTypeCorrect`, `PeopleAreSavedOnce`, `ShownContactsAreThere`,
  `ResultsGoOn`, `DraftsFitTheirContact`: everything the runs check of
  `OutreachStore` but what it is shown to violate, from one invariant,
  `OutreachInv`. Its parts: `TypesOver(Words)`, where `Words` leaves out the drafts
  of tasks that still have their session, so that none of them is on the page,
  at the server or in a request, and the only step that takes one is the one
  that ends its task; `SavingInv` (an entry of a queue is of one task, and if that
  has its session still, of the post and not yet reported; what is being saved
  has an entry, and what is worked on is the first); `OpenInv` (the task on the screen is of the
  open post, and a draft task has its contact beside it); `PersonInv` (ids are
  given once, and a person who is being created is not there, or an earlier page
  overtook it); `CurrentInv` (of the requests that read the list, as of those
  that change a contact, the answer of one at most is taken); `ScreenInv` (in the
  Apply view, what is shown, what an answer brings and what a queue has found
  `Lives`). Frame lemmas first say which step touches which part.

**`ClientProofs`**

* `ReviewTypeCorrect`, `PageFollowsServer`, `SavesAreSerial`: `ReviewTypeOK`, the
  action property `PostsFollowServer` and the invariant `OneSaveAtATime`, from one
  invariant, `ReviewInv`. An answer on its way says what is still so at the server, but for
  what another answer on its way will tell (`ListInv`, `ResultInv`): a revision
  is at most that of the row, an added post is missing from a list only if it
  was added after the list was read, and then the answer that adds it has not
  been heard, or the page has counted the change since it asked (`SentInv`).
  `AddedInv` says the same of the list that is shown. `SessionInv` adds to
  `OneSaveAtATime` that the session is of the latest import and that a task that
  runs has no result yet and none that was handled: an import begins only when
  nothing is saved, a result is handled only when its own save is not under way
  (`Processing`), and whatever is saved is of the latest import, so that its answer
  is the one that ends the saving (`SaveOver`). Revisions grow
  with requests that are served, so `CountsInv` bounds them by the requests made:
  the ids of the model do not run out before its requests do.
* `AutomationsTypeCorrect`, `SavesChangeWhatWasShown`: `AutomationsTypeOK` and
  `SaveChangesWhatWasShown`. `SaveInv` follows a save through its steps: what the
  handler read is the revision its page has shown, what it will write is that
  with the change, and the file is still what was read when it renames, or the
  desktop app has overtaken it.
* `SchedulesAreKept`: `ScheduleIsKept`, for any length of the week, any hours and
  minutes, and any limits that fit each other. The lists of the code are described
  by `ListOf`: each member of a set once, in the order of a rank. `ListCounts` says
  that the place of a member is then the number of members before it, and one,
  which is how RFC 5545 counts (`Runs`); `AscendingLists`, `PairsLists`,
  `TimesLists` and `DaysLists` show that `numbers`, the nested flatMaps and the
  turned week are such lists (sorting by induction on the size of the set, the
  days of a week on the days gone through, both with `UpTo`: a least number that
  is no such is a contradiction). So the positions name the runs of a week
  (`WeeklyRuns`) or the times of each day (`DailyRuns`), and the test that the
  chosen occurrences are as many as days times times is what makes a week of them
  uniform (`RuleIsRead`). `RuleWritten` is where the limits meet: a position of a
  written rule is in the range of BYSETPOS, from the start or from the end,
  as the comment at automation-routes.ts:121 claims. `NextRunIs`: each day
  comes twice within the next 14, so whichever run a clock change leaves out,
  there is another, and looking further finds no earlier one.
* `ClientTypeCorrect`: `ClientTypeOK`, of the parts that one run puts side by side.
  `ClientParts` says that a behaviour of `ClientSpec` is one of each part, so that
  the theorems about `OutreachStore`, `ReviewStores` and `Automations` hold of it.

What stays with TLC:

* Liveness under fairness (`TaskSettles`, `OutcomeArrives`, `CallsReturn`,
  `PanelsSettle`), and ENABLED: the prover checks safety only.

Every invariant the passing runs check is a theorem. No run's property is weakened for a proof; every theorem names the definition
that the runs check.

## 7. Not modelled

* `getContext` of the update check and the outreach runs of the server: reads,
  and rows whose fields are written by one statement each.
* Resumes and artifacts: single-row writes and file access.
* Of the artifact pipeline: Markdown, packing of feedback, byte limits, HTML
  checks and the merge of lane files into the candidates.
* Rendering, texts, filters, layout, `connectionState`, route definitions,
  validation of requests, CORS. Zod contracts and JSON-schema compilation.
* Launchers, isolated home and configuration, back-up script, a process that
  cannot be spawned at all, a second signal of the same kind.
* Several tabs, which have separate sessionStorage (in `Automations` they are
  modelled, as they share the file).

Assumptions of single modules, each stated where it is used: an error answer
means that the server did nothing (`ReviewStores`); an answer is lost only in a
restart of the bridge (`AgentStore`); whether a contact was messaged, and
`contactsError`, are left out, so that the model may do more than the page
(`OutreachStore`); a launch that fails ends the bridge unless it is shutting down
(`CodexRuntime`).

## 8. Plan

1. (done) `TaskLifecycle`, `TaskManager`, `TaskManagerProofs`, `TaskStream`,
   `CodexRuntime`, `AgentStore`.
2. (done) The client's stores (`OutreachStore`, `ReviewStores`), the server's
   records (`JobListings`, `JobIdentity`, `JobPosts`, `Tracking`), the scheduled
   search (`SearchPipeline`, `JobSearchRun`), `Automations`.
3. Proofs: (done) the invariants of `TaskManager`, `TaskLifecycle`, `TaskStream`,
   `CodexRuntime`, `AgentStore`, `OutreachStore`, `ReviewStores`, `Automations`,
   `JobPosts`, `Tracking`, `SearchPipeline`, `JobSearchRun` and `DescriptionCapture`,
   and both refinements.
4. (done) Description captures beside the turns of `CodexRuntime`
   (`DescriptionCapture`); updates for review in `Tracking`.
5. A connection to the bridge that breaks while the bridge lives, in `AgentStore`
   (a hazard without a property).
