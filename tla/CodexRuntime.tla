----------------------------- MODULE CodexRuntime -----------------------------
(***************************************************************************)
(* The agent runtime of the bridge: CodexRuntime                           *)
(* (runtime/codex/codex-runtime.ts) over its JSON-RPC connection to the    *)
(* Codex app-server process (runtime/codex/app-server-connection.ts).      *)
(*                                                                         *)
(* What Node schedules is kept.  The lines that arrive in one chunk of     *)
(* output are handled one after the other; the continuations of the        *)
(* promises they settle (jobs) run before any other callback starts;       *)
(* queued events reach the listener later still, from a setImmediate       *)
(* callback.  So an event that follows a response in a chunk is queued     *)
(* before the caller of the request has learned the response.  A line may  *)
(* also come between two jobs here, which is more than Node allows.        *)
(*                                                                         *)
(* The process may answer a request in either way, at any time or never,   *)
(* report what it likes of a turn from its turn/start response until its   *)
(* turn/completed, and exit, fail or fall silent whenever it likes.  A     *)
(* thread is named by the task that opened it; a task is started once.     *)
(* The model begins where start() has spawned the process and asked it to  *)
(* initialize; server.ts listens when start() has returned.                *)
(***************************************************************************)
EXTENDS Naturals, FiniteSets, Sequences, Functions

CONSTANTS
  Tasks,         \* tasks the manager starts; also their threads and turns
  ChromeTasks,   \* those with the 'chrome' capability
  ResumedTasks,  \* those that may be started with an earlier task's threadId
  Permissions,   \* browser-origin requests, one id each (randomUUID)
  NoTask,        \* no turn: the null of browserThreads
  MaxNotes,      \* bound: progress notifications of one turn
  MaxInterrupts  \* bound: interrupts of the manager, for all tasks

ASSUME RuntimeAssumption ==
  /\ ChromeTasks \subseteq Tasks /\ ResumedTasks \subseteq Tasks
  /\ NoTask \notin Tasks
  /\ MaxNotes \in Nat /\ MaxInterrupts \in Nat

VARIABLES
  process,   \* "running"; "exited": processExitError is set and its output
             \* is being drained; "none"
  ready,     \* CodexRuntime.ready: its health is 'healthy'
  launch,    \* how far start() of the runtime has come
  closing,   \* "no", "interrupting", "cleaning" (shutdown waits), "closed"
  awaited,   \* the cleanups shutdown waits for
  calls,     \* pendingRequests of the connection
  jobs,      \* settled promises whose continuation has not run
  starts,    \* starts[t]: how far startTask of t has come
  thread,    \* thread[t]: the thread t runs in
  stops,     \* stops[t][by]: how far interruptTask of t has come
  browserThreads,   \* the browserThreads map, from thread to turn
  browserCleanups,  \* the keys of the browserCleanups map
  queue,     \* queuedEvents; a flush is scheduled while it is not empty
  told,      \* the events the listener has been given
  requests,  \* requests[p]: a permission request
  turns,     \* turns[t]: the turn of t, as far as its lines were read
  notes,     \* notes[t]: progress notifications of t so far
  cleaned    \* cleaned[t]: requests to close the browser tabs of turn t

vars == <<process, ready, launch, closing, awaited, calls, jobs, starts, thread, stops,
          browserThreads, browserCleanups, queue, told, requests, turns, notes,
          cleaned>>

Callers == {"cancel", "timeout", "shutdown"}   \* who calls interruptTask

Call == [op : {"thread", "turn", "cleanup"}, task : Tasks]
          \union [op : {"interrupt"}, task : Tasks, by : Callers]
          \union [op : {"initialize", "capabilities"}]
Job == [call : Call, ok : BOOLEAN]

Failure == [type |-> "runtime-failed"]
Note(t) == [type |-> "note", task |-> t]
Completion(t) == [type |-> "turn-completed", task |-> t]
Required(p) == [type |-> "permission-required", permission |-> p]
Resolved(p) == [type |-> "permission-resolved", permission |-> p]

Event == {Failure} \union {Note(t) : t \in Tasks}
           \union {Completion(t) : t \in Tasks}
           \union {Required(p) : p \in Permissions}
           \union {Resolved(p) : p \in Permissions}

LaunchCall(op) == [op |-> op]
ThreadCall(t) == [op |-> "thread", task |-> t]
TurnCall(t) == [op |-> "turn", task |-> t]
CleanupCall(t) == [op |-> "cleanup", task |-> t]
InterruptCall(t, by) == [op |-> "interrupt", task |-> t, by |-> by]

\* Another callback of the event loop starts when every continuation has run.
NextCallback == jobs = {}

BeginEnded == {"started", "rejected"}
StopEnded == {"done", "failed"}

-----------------------------------------------------------------------------
(* The connection fails.                                                   *)

Rejected == {[call |-> c, ok |-> FALSE] : c \in calls}

\* onFailure forgets the permissions.
Forgotten == [p \in Permissions |->
                IF requests[p] = "unasked" THEN "unasked" ELSE "settled"]

\* Mutant of HandleExit: what is queued is dropped, as close() does.
HandleExitDropping ==
  /\ process' = "none"
  /\ ready' = FALSE
  /\ calls' = {}
  /\ jobs' = jobs \union Rejected
  /\ requests' = Forgotten
  /\ queue' = <<Failure>>

\* Mutant of HandleExit: the pending requests are left to wait.
HandleExitNotRejecting ==
  /\ process' = "none"
  /\ ready' = FALSE
  /\ calls' = {}
  /\ jobs' = jobs
  /\ requests' = Forgotten
  /\ queue' = Append(queue, Failure)

\* Every pending request fails and the failure is queued behind what the
\* process reported before it.
HandleExit ==
  /\ process' = "none"
  /\ ready' = FALSE
  /\ calls' = {}
  /\ jobs' = jobs \union Rejected
  /\ requests' = Forgotten
  /\ queue' = Append(queue, Failure)

Fails ==
  /\ HandleExit
  /\ UNCHANGED <<launch, closing, awaited, starts, thread, stops, browserThreads,
                 browserCleanups, told, turns, notes, cleaned>>

\* The process exits: the runtime is unavailable at once, but what the
\* process wrote before is still read for a while.
ProcessExit ==
  /\ NextCallback
  /\ process = "running"
  /\ process' = "exited"
  /\ ready' = FALSE
  /\ calls' = {}
  /\ jobs' = Rejected
  /\ UNCHANGED <<launch, closing, awaited, starts, thread, stops, browserThreads,
                 browserCleanups, queue, told, requests, turns, notes, cleaned>>

\* Its streams close, or they do not and the drain timer fires.
Drained ==
  /\ NextCallback
  /\ process = "exited"
  /\ Fails

\* Mutant of ConnectionFails: a connection that has failed may fail again.
ConnectionFailsAgain ==
  /\ process # "none" \/ Failure \in Range(queue)
  /\ Fails

\* A stream fails or closes first, or a line is not what the protocol allows.
ConnectionFails ==
  /\ process # "none"
  /\ Fails

\* A request was not answered in time: the connection fails as a whole.
RequestTimeout ==
  /\ NextCallback
  /\ calls # {}
  /\ Fails

-----------------------------------------------------------------------------
(* Starting the runtime.                                                   *)

\* start, which shutdown may overtake.
Ready ==
  /\ ready' = TRUE
  /\ launch' = "listening"

LaunchStep(op) ==
  LET job == [call |-> LaunchCall(op), ok |-> TRUE]
  IN  /\ process = "running"
      /\ job \in jobs /\ jobs' = jobs \ {job}
      /\ UNCHANGED <<process, closing, awaited, starts, thread, stops, browserThreads,
                     browserCleanups, queue, told, requests, turns, notes, cleaned>>

\* loadCapabilities asks for the plugins, unless it was told where Chrome is.
Initialized ==
  /\ LaunchStep("initialize")
  /\ \/ Ready /\ UNCHANGED calls
     \/ /\ calls' = calls \union {LaunchCall("capabilities")}
        /\ launch' = "capabilities"
        /\ UNCHANGED ready

CapabilitiesLoaded == LaunchStep("capabilities") /\ Ready /\ UNCHANGED calls

\* start fails, and the connection if it is active; with it the bridge exits,
\* unless it is being shut down.
LaunchFails ==
  /\ \E op \in {"initialize", "capabilities"}, ok \in BOOLEAN :
       LET job == [call |-> LaunchCall(op), ok |-> ok]
       IN  /\ job \in jobs /\ jobs' = jobs \ {job}
           /\ ~ ok \/ process # "running"
  /\ launch' = "failed"
  /\ process' = "none" /\ ready' = FALSE
  /\ queue' = IF closing = "no" THEN <<>>
              ELSE IF process = "none" THEN queue ELSE Append(queue, Failure)
  /\ UNCHANGED <<closing, awaited, calls, starts, thread, stops, browserThreads,
                 browserCleanups, told, requests, turns, notes, cleaned>>

Launch == Initialized \/ CapabilitiesLoaded \/ LaunchFails

-----------------------------------------------------------------------------
(* Starting a task.                                                        *)

\* The manager's task of turn t is over: the event that ended it was told, or
\* an interrupt succeeded, or the inactivity timer gave the turn up.
TaskEnded(t) ==
  \/ Completion(t) \in told
  \/ stops[t]["cancel"] = "done"
  \/ stops[t]["timeout"] # "none"

TaskOver(t) == TaskEnded(t) \/ starts[t] = "rejected"

\* assertReady.  The task may continue in the thread of a task that ended,
\* when every task of it is over (the API takes any threadId; callers have no
\* reason to name a busy one).
StartTask(t, th) ==
  /\ NextCallback
  /\ closing = "no"
  /\ ready
  /\ starts[t] = "none"
  /\ \/ th = t
     \/ /\ t \in ResumedTasks /\ TaskEnded(th)
        /\ \A u \in Tasks : thread[u] = thread[th] => TaskOver(u)
  /\ starts' = [starts EXCEPT ![t] = "preparing"]
  /\ thread' = [thread EXCEPT ![t] = thread[th]]
  /\ UNCHANGED <<process, ready, launch, closing, awaited, calls, jobs, stops, browserThreads,
                 browserCleanups, queue, told, requests, turns, notes, cleaned>>

\* The resume context is read and a cleanup of the resumed thread is over.
SendThread(t) ==
  /\ NextCallback
  /\ starts[t] = "preparing"
  /\ thread[t] \notin browserCleanups
  /\ IF process = "running"
     THEN /\ calls' = calls \union {ThreadCall(t)}
          /\ starts' = [starts EXCEPT ![t] = "thread"]
     ELSE /\ starts' = [starts EXCEPT ![t] = "rejected"]
          /\ UNCHANGED calls
  /\ UNCHANGED <<process, ready, launch, closing, awaited, jobs, thread, stops, browserThreads,
                 browserCleanups, queue, told, requests, turns, notes, cleaned>>

\* A response settles its request; its continuation runs later.  The process
\* runs one turn of a thread at a time.
Respond(call, ok) ==
  /\ call \in calls
  /\ call.op = "turn" /\ ok =>
       \A u \in Tasks : thread[u] = thread[call.task] => turns[u] # "running"
  /\ calls' = calls \ {call}
  /\ jobs' = jobs \union {[call |-> call, ok |-> ok]}
  /\ turns' = IF call.op = "turn" /\ ok
              THEN [turns EXCEPT ![call.task] = "running"] ELSE turns
  /\ UNCHANGED <<process, ready, launch, closing, awaited, starts, thread, stops,
                 browserThreads, browserCleanups, queue, told, requests, notes,
                 cleaned>>

StartRejected(t) ==
  /\ \E op \in {"thread", "turn"} :
       LET job == [call |-> [op |-> op, task |-> t], ok |-> FALSE]
       IN  job \in jobs /\ jobs' = jobs \ {job}
  /\ starts' = [starts EXCEPT ![t] = "rejected"]
  /\ UNCHANGED <<process, ready, launch, closing, awaited, calls, thread, stops, browserThreads,
                 browserCleanups, queue, told, requests, turns, notes, cleaned>>

\* Mutant of ThreadStarted: a browser thread is known only with its turn.
ThreadStartedUnlisted(t) ==
  LET job == [call |-> ThreadCall(t), ok |-> TRUE]
  IN  /\ job \in jobs /\ jobs' = jobs \ {job}
      /\ IF process = "running"
         THEN /\ calls' = calls \union {TurnCall(t)}
              /\ starts' = [starts EXCEPT ![t] = "turn"]
         ELSE /\ starts' = [starts EXCEPT ![t] = "rejected"]
              /\ UNCHANGED calls
      /\ UNCHANGED <<process, ready, launch, closing, awaited, thread, stops, browserThreads,
                     browserCleanups, queue, told, requests, turns, notes,
                     cleaned>>

\* The thread is there: the turn is requested.
ThreadStarted(t) ==
  LET job == [call |-> ThreadCall(t), ok |-> TRUE]
  IN  /\ job \in jobs /\ jobs' = jobs \ {job}
      /\ browserThreads' =
           IF t \in ChromeTasks
           THEN [th \in DOMAIN browserThreads \union {thread[t]} |->
                   IF th = thread[t] THEN NoTask ELSE browserThreads[th]]
           ELSE browserThreads
      /\ IF process = "running"
         THEN /\ calls' = calls \union {TurnCall(t)}
              /\ starts' = [starts EXCEPT ![t] = "turn"]
         ELSE /\ starts' = [starts EXCEPT ![t] = "rejected"]
              /\ UNCHANGED calls
      /\ UNCHANGED <<process, ready, launch, closing, awaited, thread, stops, browserCleanups,
                     queue, told, requests, turns, notes, cleaned>>

\* An isolated runtime refuses a thread that loaded instruction files.
ThreadRefused(t) ==
  LET job == [call |-> ThreadCall(t), ok |-> TRUE]
  IN  /\ job \in jobs /\ jobs' = jobs \ {job}
      /\ starts' = [starts EXCEPT ![t] = "rejected"]
      /\ UNCHANGED <<process, ready, launch, closing, awaited, calls, thread, stops,
                     browserThreads, browserCleanups, queue, told, requests,
                     turns, notes, cleaned>>

\* The turn runs, unless the runtime has become unavailable meanwhile.  The
\* line that ends it may have been read already.
TurnStarted(t) ==
  LET job == [call |-> TurnCall(t), ok |-> TRUE]
  IN  /\ job \in jobs /\ jobs' = jobs \ {job}
      /\ starts' = [starts EXCEPT ![t] = IF ready THEN "started" ELSE "rejected"]
      /\ browserThreads' = IF ready /\ thread[t] \in DOMAIN browserThreads
                           THEN [browserThreads EXCEPT ![thread[t]] = t]
                           ELSE browserThreads
      /\ UNCHANGED <<process, ready, launch, closing, awaited, calls, thread, stops,
                     browserCleanups, queue, told, requests, turns, notes,
                     cleaned>>

-----------------------------------------------------------------------------
(* Closing the browser tabs of a turn.  One request at most is under way   *)
(* for a thread, and it forgets the thread first.                          *)

CleanupBrowserTabs(t) ==
  LET th == thread[t]
      listed == th \notin browserCleanups /\ th \in DOMAIN browserThreads
      closes == listed /\ process = "running"
  IN  /\ browserThreads' = IF listed
                           THEN Restrict(browserThreads,
                                         DOMAIN browserThreads \ {th})
                           ELSE browserThreads
      /\ browserCleanups' = IF closes THEN browserCleanups \union {th}
                                      ELSE browserCleanups
      /\ calls' = IF closes THEN calls \union {CleanupCall(t)} ELSE calls
      /\ cleaned' = IF closes THEN [cleaned EXCEPT ![t] = @ + 1] ELSE cleaned

StopResult == IF ready THEN "done" ELSE "failed"

\* The tabs are closed, or could not be, which is reported as progress.  The
\* interrupts that waited for it return.
CleanupEnds(t, ok) ==
  LET job == [call |-> CleanupCall(t), ok |-> ok]
      waits(u, by) == thread[u] = thread[t] /\ stops[u][by] = "cleaning"
  IN  /\ job \in jobs /\ jobs' = jobs \ {job}
      /\ queue' = IF ok THEN queue ELSE Append(queue, Note(t))
      /\ browserCleanups' = browserCleanups \ {thread[t]}
      /\ stops' = [u \in Tasks |-> [by \in Callers |->
                     IF waits(u, by) THEN StopResult ELSE stops[u][by]]]
      /\ UNCHANGED <<process, ready, launch, closing, awaited, calls, starts, thread,
                     browserThreads, told, requests, turns, notes, cleaned>>

-----------------------------------------------------------------------------
(* Interrupting a turn.                                                    *)

Interrupts == {s \in Tasks \X {"cancel", "timeout"} : stops[s[1]][s[2]] # "none"}

\* The manager interrupts a task it runs: cancel, or its inactivity timer.
InterruptTask(t, by) ==
  /\ NextCallback
  /\ by \in {"cancel", "timeout"}
  /\ closing = "no"
  /\ ready
  /\ starts[t] = "started" /\ Completion(t) \notin told
  /\ stops[t][by] = "none" /\ Cardinality(Interrupts) < MaxInterrupts
  /\ stops' = [stops EXCEPT ![t][by] = "asked"]
  /\ calls' = calls \union {InterruptCall(t, by)}
  /\ UNCHANGED <<process, ready, launch, closing, awaited, jobs, starts, thread, browserThreads,
                 browserCleanups, queue, told, requests, turns, notes, cleaned>>

\* The process has taken the interrupt: the tabs of the turn are closed.
Interrupted(t, by) ==
  LET job == [call |-> InterruptCall(t, by), ok |-> TRUE]
  IN  /\ job \in jobs /\ jobs' = jobs \ {job}
      /\ CleanupBrowserTabs(t)
      /\ stops' = [stops EXCEPT ![t][by] =
                     IF thread[t] \in browserCleanups' THEN "cleaning"
                     ELSE StopResult]
      /\ UNCHANGED <<process, ready, launch, closing, awaited, starts, thread, queue, told,
                     requests, turns, notes>>

InterruptRejected(t, by) ==
  LET job == [call |-> InterruptCall(t, by), ok |-> FALSE]
  IN  /\ job \in jobs /\ jobs' = jobs \ {job}
      /\ stops' = [stops EXCEPT ![t][by] = "failed"]
      /\ UNCHANGED <<process, ready, launch, closing, awaited, calls, starts, thread,
                     browserThreads, browserCleanups, queue, told, requests,
                     turns, notes, cleaned>>

\* SIGINT or SIGTERM: the turns that still have a browser are interrupted.
\* Without a ready runtime each of these calls throws at once.
Shutdown ==
  LET running == {browserThreads[th] : th \in DOMAIN browserThreads} \ {NoTask}
  IN  /\ NextCallback
      /\ closing = "no" /\ launch # "failed"
      /\ closing' = "interrupting"
      /\ stops' = [t \in Tasks |-> [stops[t] EXCEPT !["shutdown"] =
                     IF t \notin running THEN "none"
                     ELSE IF ready THEN "asked" ELSE "failed"]]
      /\ calls' = IF ready
                  THEN calls \union {InterruptCall(t, "shutdown") : t \in running}
                  ELSE calls
      /\ UNCHANGED <<process, ready, launch, awaited, jobs, starts, thread,
                     browserThreads, browserCleanups, queue, told, requests,
                     turns, notes, cleaned>>

\* These calls are over: shutdown waits for the cleanups under way by then.
AwaitCleanups ==
  /\ closing = "interrupting"
  /\ \A t \in Tasks : stops[t]["shutdown"] \in {"none"} \union StopEnded
  /\ closing' = "cleaning"
  /\ awaited' = browserCleanups
  /\ UNCHANGED <<process, ready, launch, calls, jobs, starts, thread, stops,
                 browserThreads, browserCleanups, queue, told, requests, turns,
                 notes, cleaned>>

\* Mutant of Close: shutdown does not wait for the cleanups.
CloseAtOnce ==
  /\ closing = "cleaning"
  /\ closing' = "closed"
  /\ process' = "none"
  /\ ready' = FALSE
  /\ calls' = {}
  /\ jobs' = jobs \union Rejected
  /\ queue' = <<>>
  /\ requests' = Forgotten
  /\ UNCHANGED <<launch, awaited, starts, thread, stops, browserThreads,
                 browserCleanups, told, turns, notes, cleaned>>

\* The process is killed and what is queued is dropped: nobody listens any
\* more.  A connection that has failed is left as it is.
Close ==
  /\ closing = "cleaning"
  /\ awaited \intersect browserCleanups = {}
  /\ closing' = "closed"
  /\ IF process = "none"
     THEN UNCHANGED <<process, ready, calls, jobs, queue, requests>>
     ELSE /\ process' = "none"
          /\ ready' = FALSE
          /\ calls' = {}
          /\ jobs' = jobs \union Rejected
          /\ queue' = <<>>
          /\ requests' = Forgotten
  /\ UNCHANGED <<launch, awaited, starts, thread, stops, browserThreads,
                 browserCleanups, told, turns, notes, cleaned>>

-----------------------------------------------------------------------------
(* Lines of the process about its turns.  Those of a chunk that has made   *)
(* the connection fail are still handled, before the failure is told.      *)

LinesArrive == process # "none" \/ Failure \in Range(queue)

NotePosted(t) ==
  /\ LinesArrive
  /\ turns[t] = "running" /\ notes[t] < MaxNotes
  /\ notes' = [notes EXCEPT ![t] = @ + 1]
  /\ queue' = Append(queue, Note(t))
  /\ UNCHANGED <<process, ready, launch, closing, awaited, calls, jobs, starts, thread,
                 stops, browserThreads, browserCleanups, told, requests, turns,
                 cleaned>>

TurnCompleted(t) ==
  /\ LinesArrive
  /\ turns[t] = "running"
  /\ turns' = [turns EXCEPT ![t] = IF process = "none" THEN "late"
                                    ELSE "completed"]
  /\ queue' = Append(queue, Completion(t))
  /\ CleanupBrowserTabs(t)
  /\ UNCHANGED <<process, ready, launch, closing, awaited, jobs, starts, thread, stops,
                 told, requests, notes>>

\* A request to the client is not accepted from a process that has exited.
AskPermission(p, t) ==
  /\ process = "running"
  /\ turns[t] = "running" /\ requests[p] = "unasked"
  /\ requests' = [requests EXCEPT ![p] = "open"]
  /\ queue' = Append(queue, Required(p))
  /\ UNCHANGED <<process, ready, launch, closing, awaited, calls, jobs, starts, thread,
                 stops, browserThreads, browserCleanups, told, turns, notes,
                 cleaned>>

PermissionResolved(p) ==
  /\ LinesArrive
  /\ requests[p] \in {"open", "decided"}
  /\ requests' = [requests EXCEPT ![p] = "settled"]
  /\ queue' = Append(queue, Resolved(p))
  /\ UNCHANGED <<process, ready, launch, closing, awaited, calls, jobs, starts, thread,
                 stops, browserThreads, browserCleanups, told, turns, notes,
                 cleaned>>

\* The user answers a request that the manager has been told about.
ResolvePermission(p) ==
  /\ NextCallback
  /\ ready
  /\ requests[p] = "open" /\ Required(p) \in told
  /\ requests' = [requests EXCEPT ![p] = "decided"]
  /\ UNCHANGED <<process, ready, launch, closing, awaited, calls, jobs, starts, thread,
                 stops, browserThreads, browserCleanups, queue, told, turns,
                 notes, cleaned>>

\* Mutant of Flush: the listener is called from a microtask.
FlushAtOnce ==
  /\ queue # <<>>
  /\ told' = told \union Range(queue)
  /\ queue' = <<>>
  /\ UNCHANGED <<process, ready, launch, closing, awaited, calls, jobs, starts, thread,
                 stops, browserThreads, browserCleanups, requests, turns, notes,
                 cleaned>>

\* The listener is given everything that is queued, and may decline some of
\* the requests it is told about while it is called.
Flush ==
  /\ NextCallback
  /\ queue # <<>>
  /\ told' = told \union Range(queue)
  /\ queue' = <<>>
  /\ \E declined \in SUBSET {p \in Permissions : /\ Required(p) \in Range(queue)
                                                /\ ready
                                                /\ requests[p] = "open"} :
       requests' = [p \in Permissions |->
                      IF p \in declined THEN "decided" ELSE requests[p]]
  /\ UNCHANGED <<process, ready, launch, closing, awaited, calls, jobs, starts, thread,
                 stops, browserThreads, browserCleanups, turns, notes, cleaned>>

-----------------------------------------------------------------------------

Init ==
  /\ process = "running"
  /\ ready = FALSE
  /\ launch = "initialize"
  /\ closing = "no"
  /\ awaited = {}
  /\ calls = {LaunchCall("initialize")}
  /\ jobs = {}
  /\ starts = [t \in Tasks |-> "none"]
  /\ thread = [t \in Tasks |-> t]
  /\ stops = [t \in Tasks |-> [by \in Callers |-> "none"]]
  /\ browserThreads = <<>>
  /\ browserCleanups = {}
  /\ queue = <<>>
  /\ told = {}
  /\ requests = [p \in Permissions |-> "unasked"]
  /\ turns = [t \in Tasks |-> "none"]
  /\ notes = [t \in Tasks |-> 0]
  /\ cleaned = [t \in Tasks |-> 0]

Continue(t) ==
  \/ StartRejected(t) \/ ThreadStarted(t) \/ ThreadRefused(t) \/ TurnStarted(t)
  \/ \E ok \in BOOLEAN : CleanupEnds(t, ok)
  \/ \E by \in Callers : Interrupted(t, by) \/ InterruptRejected(t, by)

Next ==
  \/ ProcessExit \/ Drained \/ ConnectionFails \/ RequestTimeout
  \/ Initialized \/ CapabilitiesLoaded \/ LaunchFails
  \/ \E t \in Tasks :
       \/ \E th \in Tasks : StartTask(t, th)
       \/ SendThread(t)
       \/ Continue(t)
       \/ \E by \in Callers : InterruptTask(t, by)
       \/ NotePosted(t) \/ TurnCompleted(t)
       \/ \E p \in Permissions : AskPermission(p, t)
  \/ \E call \in calls : \E ok \in BOOLEAN : Respond(call, ok)
  \/ \E p \in Permissions : PermissionResolved(p) \/ ResolvePermission(p)
  \/ Flush
  \/ Shutdown \/ AwaitCleanups \/ Close

\* Node runs what is due.  The process owes nothing, but what it does not
\* answer times out, and the drain of its output does.
Fairness ==
  /\ WF_vars(RequestTimeout)
  /\ WF_vars(Drained)
  /\ WF_vars(Launch)
  /\ WF_vars(Flush)
  /\ WF_vars(AwaitCleanups)
  /\ WF_vars(Close)
  /\ \A t \in Tasks : WF_vars(SendThread(t)) /\ WF_vars(Continue(t))

Spec == Init /\ [][Next]_vars
FairSpec == Spec /\ Fairness

-----------------------------------------------------------------------------
(* Properties.                                                             *)

TypeOK ==
  /\ process \in {"running", "exited", "none"}
  /\ ready \in BOOLEAN
  /\ launch \in {"initialize", "capabilities", "listening", "failed"}
  /\ closing \in {"no", "interrupting", "cleaning", "closed"}
  /\ awaited \subseteq Tasks
  /\ calls \subseteq Call
  /\ jobs \subseteq Job
  /\ starts \in [Tasks -> {"none", "preparing", "thread", "turn"}
                             \union BeginEnded]
  /\ thread \in [Tasks -> Tasks]
  /\ stops \in [Tasks -> [Callers -> {"none", "asked", "cleaning"}
                                         \union StopEnded]]
  /\ DOMAIN browserThreads \subseteq Tasks
  /\ Range(browserThreads) \subseteq Tasks \union {NoTask}
  /\ browserCleanups \subseteq Tasks
  /\ queue \in Seq(Event)
  /\ \A i, j \in 1 .. Len(queue) :   \* a connection fails once
       queue[i] = Failure /\ queue[j] = Failure => i = j
  /\ told \subseteq Event
  /\ requests \in [Permissions -> {"unasked", "open", "decided", "settled"}]
  /\ turns \in [Tasks -> {"none", "running", "completed", "late"}]
  /\ notes \in [Tasks -> 0 .. MaxNotes]
  /\ cleaned \in [Tasks -> Nat]

(* The listener hears of a turn only when startTask has returned its ids   *)
(* or has failed: the manager ignores events of a turn it does not know,   *)
(* so an earlier event would be lost, though a turn may report and even    *)
(* end in the chunk that carries its turn/start response.                  *)
StartBeforeEvents ==
  \A t \in Tasks : {Note(t), Completion(t)} \intersect told # {} =>
    starts[t] \in BeginEnded

(* What the process reported before the connection failed is told, and     *)
(* told before the failure, which ends every task: a result that was       *)
(* written in time is not turned into a failure.                           *)
CompletionOvertakesFailure ==
  \A t \in Tasks : turns[t] = "completed" /\ closing # "closed" =>
    \/ Completion(t) \in told
    \/ \E i \in 1 .. Len(queue) :
         /\ queue[i] = Completion(t)
         /\ Failure \notin told
         /\ \A j \in 1 .. i : queue[j] # Failure

\* Another turn of the thread was interrupted.  The bookkeeping is by thread:
\* a late answer to that interrupt, or the end of that turn, takes the thread
\* off the list while a later turn runs in it, or finds it there.
Disturbed(th) ==
  \E u \in Tasks : /\ thread[u] = th
                   /\ \E by \in Callers : stops[u][by] # "none"
                   /\ \E t \in Tasks \ {u} : thread[t] = th

\* A browser turn that ended while the process lives has been asked to close
\* its tabs, once, though its end, an interrupt and shutdown may each ask.
EveryTurnIsCleaned ==
  \A t \in ChromeTasks : ~ Disturbed(thread[t]) =>
    /\ cleaned[t] <= 1
    /\ turns[t] = "completed" /\ process = "running" => cleaned[t] = 1

\* A thread is listed as a browser thread only until its turn is over, so
\* shutdown interrupts no turn that has ended.
ListedTurnsRun ==
  \A th \in DOMAIN browserThreads :
    \/ browserThreads[th] = NoTask
    \/ turns[browserThreads[th]] = "running"
    \/ Disturbed(th)

\* Two requests to close tabs of one thread are never under way together, and
\* no other turn of the thread is started meanwhile.
CleanupIsAlone ==
  \A t \in Tasks : CleanupCall(t) \in calls =>
    /\ thread[t] \in browserCleanups
    /\ \A u \in Tasks \ {t} : thread[u] = thread[t] =>
         /\ CleanupCall(u) \notin calls
         /\ \/ {ThreadCall(u), TurnCall(u)} \intersect calls = {}
            \/ Disturbed(thread[t])

(* The tabs of a browser turn are closed when it is over, also when it was *)
(* over before startTask returned: once, whoever asks for it, and never    *)
(* under the hands of a later turn of the thread.  Threads with an         *)
(* interrupted turn and another one are excepted.                          *)
TabsAreClosed == EveryTurnIsCleaned /\ ListedTurnsRun /\ CleanupIsAlone

(* The process is not killed while tabs are being closed that shutdown has *)
(* asked to close, or that were being closed when its interrupts were      *)
(* over, nor while one of these interrupts is not answered; and a start    *)
(* that shutdown overtakes does not make the runtime ready after it.       *)
ShutdownWaits ==
  [][closing' = "closed" =>
       /\ ~ ready'
       /\ closing # "closed" =>
            \A t \in Tasks :
              /\ InterruptCall(t, "shutdown") \notin calls
              /\ CleanupCall(t) \in calls =>
                   /\ thread[t] \notin awaited
                   /\ stops[t]["shutdown"] # "done" \/ Disturbed(thread[t])]_vars

(* start, every startTask and interruptTask return and a shutdown ends,    *)
(* whatever the process does; that it is gone is reported, unless the      *)
(* bridge itself has closed it or could not start.                         *)
CallsReturn ==
  /\ launch = "initialize" ~> launch \in {"listening", "failed"}
  /\ \A t \in Tasks :
       /\ starts[t] = "preparing" ~> starts[t] \in BeginEnded
       /\ \A by \in Callers : stops[t][by] = "asked" ~> stops[t][by] \in StopEnded
  /\ process # "running" ~>
       Failure \in told \/ closing = "closed" \/ launch = "failed"
  /\ closing = "interrupting" ~> closing = "closed"

=============================================================================
