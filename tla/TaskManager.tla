----------------------------- MODULE TaskManager -----------------------------
(***************************************************************************)
(* The Agent bridge's task manager (tasks/agent-task-manager.ts): the      *)
(* tasks it holds in memory, the callers that start and cancel them and    *)
(* answer their prompts, and the runtime it drives.                        *)
(*                                                                         *)
(* Node runs one callback at a time, so each action is a callback together *)
(* with the promise continuations it triggers.  What is asynchronous is    *)
(* split into a request and its completion: runtime.startTask,             *)
(* runtime.interruptTask, the inactivity timer and the runtime's events.   *)
(* The runtime is the AgentRuntime interface: for any turn it started, it  *)
(* may report events in any order until it has failed, and it may answer   *)
(* an interrupt before or after the event that ends the turn.              *)
(*                                                                         *)
(* A thread is named by the task that opened it.  A task started with      *)
(* input.threadId runs in the thread of an earlier task.                   *)
(***************************************************************************)
EXTENDS Naturals, Sequences

CONSTANTS
  Tasks,         \* task identifiers
  ChromeTasks,   \* the tasks whose capabilities include 'chrome'
  Permissions,   \* permission identifiers, each generated once (randomUUID)
  NoPermission,  \* the null of pendingPermission
  NoTask,        \* no task
  MaxEvents,     \* bound: progress and prompts stop once a log is this long
  MaxCancels     \* bound: interrupts the callers request for one task

ASSUME TasksAssumption == ChromeTasks \subseteq Tasks /\ NoTask \notin Tasks
ASSUME NoPermissionAssumption == NoPermission \notin Permissions
ASSUME BoundsAssumption == MaxEvents \in Nat /\ MaxCancels \in Nat

VARIABLES
  health,      \* the runtime: "healthy", "unavailable" (not ready any more),
               \* "failed" (its runtime-failed event has been delivered)
  tasks,       \* the tasks map of StoredTask records; "absent" is no entry
  taskStarts,  \* the keys of the taskStarts map
  startCalls,  \* startCalls[t]: runtime.startTask calls in flight for t
  turns,       \* turns[t]: turns the runtime has started for t
  liveTurns,   \* tasks whose turn the runtime still runs
  interrupts,  \* interrupts[t]: interruptTask calls of cancel in flight
  cancels,     \* cancels[t]: interruptTask calls cancel has made so far
  requests     \* requests[p]: a permission request, as the runtime holds it

manager == <<tasks, taskStarts>>
runtime == <<health, startCalls, turns, liveTurns, interrupts, requests>>
vars == <<health, tasks, taskStarts, startCalls, turns, liveTurns,
          interrupts, cancels, requests>>

Terminal == {"completed", "failed", "cancelled"}
Statuses == {"absent", "running"} \union Terminal
Decisions == {"approve", "decline"}

Event == [type : {"progress", "permission-required", "permission-resolved"}
                   \union Terminal,
          permission : Permissions \union {NoPermission}]

StoredTask == [status : Statuses,
               thread : Tasks \union {NoTask},
               final : BOOLEAN,  \* the last final message is there, parses and
                                 \* satisfies the task's output schema
               permission : Permissions \union {NoPermission},
               timer : BOOLEAN,       \* inactivityTimeout # null
               cancellation : BOOLEAN, \* cancellation # null
               events : Seq(Event)]

\* "open" is a request without a decision; a settled one has left the map.
Request == [state : {"unasked", "open", "settled"} \union Decisions,
            turn : Tasks \union {NoTask},   \* the turn that asked
            exact : BOOLEAN]                \* the request names that turn

-----------------------------------------------------------------------------
(* Operations on one stored task.                                          *)

Emit(task, type, permission) ==
  [task EXCEPT !.events = Append(@, [type |-> type,
                                     permission |-> permission])]

ClearInactivityTimeout(task) == [task EXCEPT !.timer = FALSE]

ArmInactivityTimeout(task) ==
  [task EXCEPT !.timer = /\ task.status = "running"
                         /\ task.permission = NoPermission]

Fail(task) ==
  Emit([task EXCEPT !.status = "failed", !.permission = NoPermission,
                    !.timer = FALSE], "failed", NoPermission)

MarkCancelled(task) ==
  Emit([task EXCEPT !.status = "cancelled", !.permission = NoPermission,
                    !.timer = FALSE], "cancelled", NoPermission)

\* A completed turn counts only with a final message the schema accepts.
CompleteTurn(task, outcome) ==
  CASE outcome = "interrupted" -> MarkCancelled(task)
    [] outcome = "completed" /\ task.final ->
         Emit([task EXCEPT !.status = "completed", !.permission = NoPermission,
                           !.timer = FALSE], "completed", NoPermission)
    [] OTHER -> Fail(task)

\* The record startNewTask stores, its first event and its timer.
NewTask(thread) ==
  ArmInactivityTimeout(
    Emit([status |-> "running", thread |-> thread, final |-> FALSE,
          permission |-> NoPermission, timer |-> FALSE,
          cancellation |-> FALSE, events |-> <<>>],
         "progress", NoPermission))

Running(t) == tasks[t].status = "running"
Known(t) == tasks[t].status # "absent"

-----------------------------------------------------------------------------
(* Starting a task.  A start of a known task, or of one whose start is     *)
(* already under way, shares that result and changes nothing.              *)

\* Mutant of Start: the map of starts under way is not consulted.
StartUnshared(t) ==
  /\ ~ Known(t)
  /\ health = "healthy"
  /\ taskStarts' = taskStarts \union {t}
  /\ startCalls' = [startCalls EXCEPT ![t] = @ + 1]
  /\ UNCHANGED <<health, tasks, turns, liveTurns, interrupts, cancels,
                 requests>>

Start(t) ==
  /\ ~ Known(t)
  /\ t \notin taskStarts
  /\ health = "healthy"
  /\ taskStarts' = taskStarts \union {t}
  /\ startCalls' = [startCalls EXCEPT ![t] = @ + 1]
  /\ UNCHANGED <<health, tasks, turns, liveTurns, interrupts, cancels,
                 requests>>

\* The runtime has started the turn, in a new thread or in a resumed one.
StartSucceeds(t) ==
  /\ startCalls[t] > 0
  /\ health = "healthy"
  /\ \E thread \in {t} \union {tasks[u].thread : u \in {v \in Tasks : Known(v)}} :
       tasks' = [tasks EXCEPT ![t] = NewTask(thread)]
  /\ taskStarts' = taskStarts \ {t}
  /\ startCalls' = [startCalls EXCEPT ![t] = @ - 1]
  /\ turns' = [turns EXCEPT ![t] = @ + 1]
  /\ liveTurns' = liveTurns \union {t}
  /\ UNCHANGED <<health, interrupts, cancels, requests>>

\* Mutant of StartFails: a rejection is handled though no call is in flight.
StartFailsAgain(t) ==
  /\ taskStarts' = taskStarts \ {t}
  /\ startCalls' = [startCalls EXCEPT ![t] = @ - 1]
  /\ UNCHANGED <<health, tasks, turns, liveTurns, interrupts, cancels,
                 requests>>

\* startTask rejected: the next start of this task tries again.
StartFails(t) ==
  /\ startCalls[t] > 0
  /\ taskStarts' = taskStarts \ {t}
  /\ startCalls' = [startCalls EXCEPT ![t] = @ - 1]
  /\ UNCHANGED <<health, tasks, turns, liveTurns, interrupts, cancels,
                 requests>>

-----------------------------------------------------------------------------
(* Cancelling a task.                                                      *)

Cancel(t) ==
  /\ Running(t)
  /\ IF tasks[t].cancellation
     THEN UNCHANGED <<interrupts, cancels>>
     ELSE /\ cancels[t] < MaxCancels
          /\ cancels' = [cancels EXCEPT ![t] = @ + 1]
          /\ interrupts' = [interrupts EXCEPT ![t] = @ + 1]
  /\ tasks' = [tasks EXCEPT
                 ![t] = [ClearInactivityTimeout(@) EXCEPT !.cancellation = TRUE]]
  /\ UNCHANGED <<health, taskStarts, startCalls, turns, liveTurns, requests>>

\* Mutant of InterruptSucceeds: a task that has ended is cancelled as well.
InterruptOverrules(t) ==
  /\ interrupts[t] > 0
  /\ health = "healthy"
  /\ tasks' = [tasks EXCEPT
                 ![t] = [MarkCancelled(@) EXCEPT !.cancellation = FALSE]]
  /\ interrupts' = [interrupts EXCEPT ![t] = @ - 1]
  /\ liveTurns' = liveTurns \ {t}
  /\ UNCHANGED <<health, taskStarts, startCalls, turns, cancels, requests>>

\* The task may have ended while the interrupt was on its way: the result it
\* ended with stays.
InterruptSucceeds(t) ==
  /\ interrupts[t] > 0
  /\ health = "healthy"
  /\ tasks' = [tasks EXCEPT
                 ![t] = [(IF Running(t) THEN MarkCancelled(@) ELSE @)
                           EXCEPT !.cancellation = FALSE]]
  /\ interrupts' = [interrupts EXCEPT ![t] = @ - 1]
  /\ liveTurns' = liveTurns \ {t}
  /\ UNCHANGED <<health, taskStarts, startCalls, turns, cancels, requests>>

\* Mutant of InterruptFails: the timer cancel switched off stays off.
InterruptFailsUnwatched(t) ==
  /\ interrupts[t] > 0
  /\ tasks' = [tasks EXCEPT ![t].cancellation = FALSE]
  /\ interrupts' = [interrupts EXCEPT ![t] = @ - 1]
  /\ UNCHANGED <<health, taskStarts, startCalls, turns, liveTurns, cancels,
                 requests>>

\* A task that is still running goes on, and its caller gets the error.
InterruptFails(t) ==
  /\ interrupts[t] > 0
  /\ tasks' = [tasks EXCEPT
                 ![t] = [(IF Running(t) THEN ArmInactivityTimeout(@) ELSE @)
                           EXCEPT !.cancellation = FALSE]]
  /\ interrupts' = [interrupts EXCEPT ![t] = @ - 1]
  /\ UNCHANGED <<health, taskStarts, startCalls, turns, liveTurns, cancels,
                 requests>>

\* Ten silent minutes.  The interrupt that follows is not awaited, and what
\* it answers is ignored: the turn may live on after its task has failed.
InactivityTimeout(t) ==
  /\ tasks[t].timer
  /\ Running(t) /\ tasks[t].permission = NoPermission
  /\ tasks' = [tasks EXCEPT ![t] = Fail(ClearInactivityTimeout(@))]
  /\ UNCHANGED <<taskStarts, cancels, runtime>>

-----------------------------------------------------------------------------
(* Events of a turn, in the order the runtime queued them, which may be    *)
(* after the turn itself is over.  Those of a task that is not running are *)
(* ignored.                                                                *)

Activity(t) ==
  /\ Running(t)
  /\ Len(tasks[t].events) < MaxEvents
  /\ tasks' = [tasks EXCEPT
                 ![t] = Emit(ArmInactivityTimeout(@), "progress", NoPermission)]
  /\ UNCHANGED <<taskStarts, cancels, runtime>>

\* A retry of the runtime's own connection is shown, but is no activity.
Retrying(t) ==
  /\ Running(t)
  /\ Len(tasks[t].events) < MaxEvents
  /\ tasks' = [tasks EXCEPT ![t] = Emit(@, "progress", NoPermission)]
  /\ UNCHANGED <<taskStarts, cancels, runtime>>

FinalMessage(t) ==
  /\ Running(t)
  /\ \E final \in BOOLEAN :
       tasks' = [tasks EXCEPT
                   ![t] = [ArmInactivityTimeout(@) EXCEPT !.final = final]]
  /\ UNCHANGED <<taskStarts, cancels, runtime>>

\* Mutant of TurnCompleted: the event of a task that has ended counts too.
TurnCompletedLate(t) ==
  /\ Known(t)
  /\ \E outcome \in {"completed", "interrupted", "failed"} :
       tasks' = [tasks EXCEPT ![t] = CompleteTurn(@, outcome)]
  /\ liveTurns' = liveTurns \ {t}
  /\ UNCHANGED <<health, taskStarts, startCalls, turns, interrupts, cancels,
                 requests>>

TurnCompleted(t) ==
  /\ Known(t)
  /\ \E outcome \in {"completed", "interrupted", "failed"} :
       tasks' = [tasks EXCEPT
                   ![t] = IF Running(t)
                          THEN CompleteTurn(ArmInactivityTimeout(@), outcome)
                          ELSE @]
  /\ liveTurns' = liveTurns \ {t}
  /\ UNCHANGED <<health, taskStarts, startCalls, turns, interrupts, cancels,
                 requests>>

-----------------------------------------------------------------------------
(* Permissions.                                                            *)

\* The running tasks a request may belong to.  A request that does not name
\* its turn is looked up by its thread alone; find takes the task that was
\* started first, this definition leaves the choice open.
Candidates(t, exact) ==
  {u \in Tasks : /\ Running(u)
                 /\ tasks[u].thread = tasks[t].thread
                 /\ exact => u = t}

Asked(p, t, exact, state) ==
  [requests EXCEPT ![p] = [state |-> state, turn |-> t, exact |-> exact]]

\* The request is shown and the timer waits for the user.
PresentPermission(p, t, exact) ==
  /\ requests[p].state = "unasked" /\ Known(t) /\ health # "failed"
  /\ \E u \in Candidates(t, exact) :
       /\ tasks[u].permission = NoPermission
       /\ u \in ChromeTasks
       /\ Len(tasks[u].events) < MaxEvents
       /\ tasks' = [tasks EXCEPT
            ![u] = Emit([ClearInactivityTimeout(@) EXCEPT !.permission = p],
                        "permission-required", p)]
  /\ requests' = Asked(p, t, exact, "open")
  /\ UNCHANGED <<health, taskStarts, startCalls, turns, liveTurns, interrupts,
                 cancels>>

\* Mutant of DeclinePermission: the request nobody sees is left undecided.
DeclineForgotten(p, t, exact) ==
  /\ requests[p].state = "unasked" /\ Known(t) /\ health # "failed"
  /\ \/ Candidates(t, exact) = {}
     \/ \E u \in Candidates(t, exact) :
          tasks[u].permission # NoPermission \/ u \notin ChromeTasks
  /\ requests' = Asked(p, t, exact, "open")
  /\ UNCHANGED <<health, taskStarts, startCalls, turns, liveTurns, interrupts,
                 cancels, tasks>>

\* Nobody can be asked.  A runtime that is no longer ready takes no answer.
DeclinePermission(p, t, exact) ==
  /\ requests[p].state = "unasked" /\ Known(t) /\ health # "failed"
  /\ \/ Candidates(t, exact) = {}
     \/ \E u \in Candidates(t, exact) :
          tasks[u].permission # NoPermission \/ u \notin ChromeTasks
  /\ requests' = Asked(p, t, exact,
                       IF health = "healthy" THEN "decline" ELSE "open")
  /\ UNCHANGED <<health, taskStarts, startCalls, turns, liveTurns, interrupts,
                 cancels, tasks>>

\* The first decision counts; the same one again is accepted, another is not.
ResolvePermission(t, p, decision) ==
  /\ Known(t) /\ tasks[t].permission = p
  /\ health = "healthy"
  /\ requests[p].state = "open"
  /\ requests' = [requests EXCEPT ![p].state = decision]
  /\ UNCHANGED <<health, tasks, taskStarts, startCalls, turns, liveTurns,
                 interrupts, cancels>>

\* The tasks whose screen shows p, in the thread the runtime reports.
Holders(p) ==
  {u \in Tasks : /\ tasks[u].thread = tasks[requests[p].turn].thread
                 /\ tasks[u].permission = p}

\* Mutant of PermissionResolved: the timer the prompt switched off stays off.
PermissionResolvedUnwatched(p) ==
  /\ requests[p].state \in {"open"} \union Decisions
  /\ health # "failed"
  /\ requests' = [requests EXCEPT ![p].state = "settled"]
  /\ \/ Holders(p) = {} /\ UNCHANGED tasks
     \/ \E u \in Holders(p) :
          tasks' = [tasks EXCEPT
            ![u] = Emit([@ EXCEPT !.permission = NoPermission],
                        "permission-resolved", p)]
  /\ UNCHANGED <<health, taskStarts, startCalls, turns, liveTurns, interrupts,
                 cancels>>

\* The runtime withdraws the request: it was decided, or is not needed now.
PermissionResolved(p) ==
  /\ requests[p].state \in {"open"} \union Decisions
  /\ health # "failed"
  /\ requests' = [requests EXCEPT ![p].state = "settled"]
  /\ \/ Holders(p) = {} /\ UNCHANGED tasks
     \/ \E u \in Holders(p) :
          tasks' = [tasks EXCEPT
            ![u] = ArmInactivityTimeout(
                     Emit([@ EXCEPT !.permission = NoPermission],
                          "permission-resolved", p))]
  /\ UNCHANGED <<health, taskStarts, startCalls, turns, liveTurns, interrupts,
                 cancels>>

-----------------------------------------------------------------------------
(* The runtime stops: it is not ready from then on, and once what it had   *)
(* written before is delivered it reports its failure, which ends every    *)
(* running task.  A bridge process never starts it again.                  *)

RuntimeUnavailable ==
  /\ health = "healthy"
  /\ health' = "unavailable"
  /\ UNCHANGED <<tasks, taskStarts, startCalls, turns, liveTurns, interrupts,
                 cancels, requests>>

RuntimeFailed ==
  /\ health = "unavailable"
  /\ health' = "failed"
  /\ tasks' = [t \in Tasks |-> IF Running(t) THEN Fail(tasks[t]) ELSE tasks[t]]
  /\ liveTurns' = {}
  /\ requests' = [p \in Permissions |->
                    IF requests[p].state = "unasked" THEN requests[p]
                    ELSE [requests[p] EXCEPT !.state = "settled"]]
  /\ UNCHANGED <<taskStarts, startCalls, turns, interrupts, cancels>>

-----------------------------------------------------------------------------

Init ==
  /\ health = "healthy"
  /\ tasks = [t \in Tasks |->
                [status |-> "absent", thread |-> NoTask, final |-> FALSE,
                 permission |-> NoPermission, timer |-> FALSE,
                 cancellation |-> FALSE, events |-> <<>>]]
  /\ taskStarts = {}
  /\ startCalls = [t \in Tasks |-> 0]
  /\ turns = [t \in Tasks |-> 0]
  /\ liveTurns = {}
  /\ interrupts = [t \in Tasks |-> 0]
  /\ cancels = [t \in Tasks |-> 0]
  /\ requests = [p \in Permissions |->
                   [state |-> "unasked", turn |-> NoTask, exact |-> FALSE]]

Next ==
  \/ \E t \in Tasks :
       \/ Start(t) \/ StartSucceeds(t) \/ StartFails(t)
       \/ Cancel(t) \/ InterruptSucceeds(t) \/ InterruptFails(t)
       \/ InactivityTimeout(t)
       \/ Activity(t) \/ Retrying(t) \/ FinalMessage(t) \/ TurnCompleted(t)
       \/ \E p \in Permissions :
            \/ \E exact \in BOOLEAN :
                 PresentPermission(p, t, exact) \/ DeclinePermission(p, t, exact)
            \/ \E decision \in Decisions : ResolvePermission(t, p, decision)
  \/ \E p \in Permissions : PermissionResolved(p)
  \/ RuntimeUnavailable
  \/ RuntimeFailed

\* A timer that is armed fires, and every call of the runtime settles: each
\* of its requests has a timeout of its own.  The runtime owes no event and
\* the user owes no answer.
Fairness ==
  /\ \A t \in Tasks :
       /\ WF_vars(InactivityTimeout(t))
       /\ WF_vars(StartSucceeds(t) \/ StartFails(t))
       /\ WF_vars(InterruptSucceeds(t) \/ InterruptFails(t))
  /\ WF_vars(RuntimeFailed)

Spec == Init /\ [][Next]_vars
FairSpec == Spec /\ Fairness

-----------------------------------------------------------------------------
(* Properties.                                                             *)

TypeOK ==
  /\ health \in {"healthy", "unavailable", "failed"}
  /\ tasks \in [Tasks -> StoredTask]
  /\ taskStarts \subseteq Tasks
  /\ startCalls \in [Tasks -> Nat]
  /\ turns \in [Tasks -> Nat]
  /\ liveTurns \subseteq Tasks
  /\ interrupts \in [Tasks -> Nat]
  /\ cancels \in [Tasks -> Nat]
  /\ requests \in [Permissions -> Request]

(* No running task is ever left unattended: its inactivity timer is armed, *)
(* or the user is being asked, or an interrupt is on its way back.  cancel *)
(* and a prompt both switch the timer off, and every way out of them has   *)
(* to switch it on again; one that does not leaves a task the client shows *)
(* as running for ever.                                                    *)
RunningIsWatched ==
  \A t \in Tasks : Running(t) =>
    \/ tasks[t].timer
    \/ tasks[t].permission # NoPermission
    \/ tasks[t].cancellation /\ interrupts[t] > 0

(* PUT /tasks/:id may be repeated, concurrently and after a failure: the   *)
(* runtime runs one turn for a task at most, so no turn works on unseen    *)
(* while another one answers for the task, and no interrupt is sent twice. *)
OneTurnPerTask ==
  \A t \in Tasks :
    /\ turns[t] <= 1 /\ startCalls[t] <= 1 /\ interrupts[t] <= 1
    /\ turns[t] = 1 <=> Known(t)

(* The agent is never left waiting for an answer nobody will give: a       *)
(* request of a live turn that is still undecided is on the screen of the  *)
(* task it belongs to.                                                     *)
OpenRequestIsShown ==
  \A p \in Permissions : LET r == requests[p] IN
    r.state = "open" /\ r.exact /\ r.turn \in liveTurns /\ health = "healthy"
      => tasks[r.turn].permission = p

(* Whatever arrives after a task has ended - a late event of its turn, an  *)
(* interrupt that succeeds or fails, the timer, the runtime's failure -    *)
(* changes neither the outcome nor the log its readers have seen.          *)
EndIsFinal ==
  [][\A t \in Tasks : tasks[t].status \in Terminal =>
       /\ tasks'[t].status = tasks[t].status
       /\ tasks'[t].events = tasks[t].events]_vars

(* A task does not run for ever: it ends, or it waits for the user.        *)
TaskSettles ==
  \A t \in Tasks :
    Running(t) ~> tasks[t].status \in Terminal \/ tasks[t].permission # NoPermission

-----------------------------------------------------------------------------
(* What a reader of the tasks sees.                                        *)

Seen(task) == [status |-> task.status, permission |-> task.permission,
               events |-> task.events]

view == [t \in Tasks |-> Seen(tasks[t])]

Lifecycle == INSTANCE TaskLifecycle WITH view <- view

(* The task manager implements the life of a task.                         *)
LifecycleSpec == Lifecycle!Spec

=============================================================================
