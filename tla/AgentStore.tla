------------------------------ MODULE AgentStore ------------------------------
(***************************************************************************)
(* The client's Agent store (stores/agent.ts): the sessions a page knows   *)
(* and remembers across reloads, what it shows of each task, and the       *)
(* requests it makes of the Agent bridge.                                  *)
(*                                                                         *)
(* The bridge's tasks live as TaskLifecycle says, but only as long as the  *)
(* bridge process: it keeps them in memory.  A task's stream delivers its  *)
(* log from the first event on, in order and without a gap, whatever       *)
(* connections break (module TaskStream); a stream of a task the bridge    *)
(* does not know is closed for good.                                       *)
(*                                                                         *)
(* A request is asked, answered by the bridge at some later moment, and    *)
(* its answer reaches the page later still.  A reload ends every promise   *)
(* of the page, not what the bridge has begun.  connectionState is left    *)
(* out: it is shown and never read.                                        *)
(***************************************************************************)
EXTENDS Naturals, Sequences, FiniteSets, Functions, TLC

CONSTANTS
  Tasks,        \* task ids, each generated once (crypto.randomUUID)
  SoleTasks,    \* those of which there is one session at a time: job-post
                \* imports, or drafts for one contact
  Permissions,  \* permission identifiers
  NoPermission, \* the null of pendingPermission
  MaxEvents,    \* bound: see TaskLifecycle
  MaxReloads,   \* bound: reloads of the page
  MaxRestarts   \* bound: restarts of the bridge

ASSUME StoreAssumption ==
  /\ SoleTasks \subseteq Tasks
  /\ NoPermission \notin Permissions
  /\ MaxReloads \in Nat /\ MaxRestarts \in Nat

VARIABLES
  view,           \* the bridge's tasks
  beginning,      \* tasks the bridge is starting: not to be seen there yet
  decided,        \* history: permissions the bridge accepted a decision for
  asked,          \* requests the bridge has not answered
  replies,        \* answers that have not reached the page
  sessions,       \* ids of the sessions
  nonRestorable,  \* nonRestorableTaskIds: sessions not to be remembered
  states,         \* the map taskStates from a task to its AgentTaskState
  streams,        \* the map eventSources, to the events each has delivered
  used,           \* ids that were generated
  overtaken,      \* history: tasks whose start was under way at a reload
  reloads, restarts

bridge == <<view, beginning, decided>>
page == <<sessions, nonRestorable, states, streams>>
vars == <<bridge, asked, replies, page, used, overtaken, reloads, restarts>>
counters == <<used, overtaken, reloads, restarts>>

Bridge == INSTANCE TaskLifecycle
Terminal == Bridge!Terminal

Known(t) == view[t].status # "absent"

Operations == {"health", "put", "get", "cancel", "permission"}

Request == [op : Operations,
            task : Tasks,
            permission : Permissions \union {NoPermission},
            heard : BOOLEAN]     \* the page that asked is still there

\* What a request is answered with: a task's status, "ok", or an error -
\* 404 (missing), another status (refused), or no answer at all (lost).
Answer == {"running", "ok", "missing", "refused", "lost"} \union Terminal

Reply == [op : Operations,
          task : Tasks,
          permission : Permissions \union {NoPermission},
          answer : Answer]

TaskState == [task : {"none", "running"} \union Terminal,
              shown : Nat,          \* length of events
              permission : Permissions \union {NoPermission},
              always : BOOLEAN,     \* alwaysAllowBrowserActions
              submitting : BOOLEAN, \* permissionSubmitting
              cancelling : BOOLEAN, starting : BOOLEAN, restoring : BOOLEAN,
              unavailable : BOOLEAN, \* sessionUnavailable
              error : BOOLEAN]      \* error # null

\* createTaskState.
NewState == [task |-> "none", shown |-> 0, permission |-> NoPermission,
             always |-> FALSE, submitting |-> FALSE, cancelling |-> FALSE,
             starting |-> FALSE, restoring |-> FALSE, unavailable |-> FALSE,
             error |-> FALSE]

Ask(op, t, p) == [op |-> op, task |-> t, permission |-> p, heard |-> TRUE]

Active(s) ==
  \/ s.starting \/ s.restoring
  \/ s.task = "running"
  \/ s.task = "none" /\ ~ s.error /\ ~ s.unavailable

CanDismiss(s) ==
  /\ ~ s.starting /\ ~ s.restoring
  /\ \/ s.unavailable
     \/ s.task = "none" /\ s.error
     \/ s.task \in Terminal

\* What sessionStorage holds.
Persisted == sessions \ nonRestorable

Without(map, S) == Restrict(map, DOMAIN map \ S)
With(map, t, value) ==
  [u \in DOMAIN map \union {t} |-> IF u = t THEN value ELSE map[u]]

\* updateTaskState: a task that has no state any more is left alone.
Updated(t, s) == IF t \in DOMAIN states THEN [states EXCEPT ![t] = s] ELSE states

-----------------------------------------------------------------------------
(* The bridge.                                                             *)

\* A task goes on or ends, as TaskLifecycle says.
BridgeTask ==
  /\ \E t \in Tasks :
       \/ Bridge!Report(t) \/ Bridge!Answer(t)
       \/ \E p \in Permissions : Bridge!Ask(t, p)
       \/ \E status \in Terminal : Bridge!End(t, status)
  /\ UNCHANGED <<beginning, decided, asked, replies, page, counters>>

\* Requests r are answered: those whose page is gone have no reader.
AnswerAll(rs, answer) ==
  /\ asked' = asked \ rs
  /\ replies' = replies \union
       {[op |-> r.op, task |-> r.task, permission |-> r.permission,
         answer |-> answer] : r \in {q \in rs : q.heard}}

Puts(t) == {r \in asked : r.op = "put" /\ r.task = t}

\* GET /health, asked for task t.
BridgeHealth(t) ==
  /\ \E r \in asked : \E answer \in {"ok", "refused"} :
       r.op = "health" /\ r.task = t /\ AnswerAll({r}, answer)
  /\ UNCHANGED <<bridge, page, counters>>

\* PUT /tasks/:id reaches a bridge that is ready: the start takes a while.
BridgePut(t) ==
  /\ Puts(t) # {} /\ ~ Known(t) /\ t \notin beginning
  /\ beginning' = beginning \union {t}
  /\ UNCHANGED <<view, decided, asked, replies, page, counters>>

BridgeBegins(t) ==
  /\ t \in beginning
  /\ Bridge!Begin(t)
  /\ beginning' = beginning \ {t}
  /\ AnswerAll(Puts(t), "running")
  /\ UNCHANGED <<decided, page, counters>>

\* The runtime does not start the task, or is not there.
BridgeRefuses(t) ==
  /\ Puts(t) # {} \/ t \in beginning
  /\ ~ Known(t)
  /\ beginning' = beginning \ {t}
  /\ AnswerAll(Puts(t), "refused")
  /\ UNCHANGED <<view, decided, page, counters>>

\* GET /tasks/:id: a task that is being started is not found.
BridgeGet(t) ==
  /\ \E r \in asked :
       /\ r.op = "get" /\ r.task = t
       /\ AnswerAll({r}, IF Known(t) THEN view[t].status ELSE "missing")
  /\ UNCHANGED <<bridge, page, counters>>

\* POST /tasks/:id/cancel: the interrupt succeeds, fails, or comes too late.
BridgeCancel(t) ==
  /\ \E r \in asked :
       /\ r.op = "cancel" /\ r.task = t
       /\ CASE ~ Known(t) -> AnswerAll({r}, "missing") /\ UNCHANGED view
            [] view[t].status \in Terminal ->
                 /\ \E answer \in {"refused", view[t].status} :
                      AnswerAll({r}, answer)
                 /\ UNCHANGED view
            [] OTHER ->
                 \/ AnswerAll({r}, "refused") /\ UNCHANGED view
                 \/ /\ AnswerAll({r}, "cancelled")
                    /\ Bridge!End(t, "cancelled")
  /\ UNCHANGED <<beginning, decided, page, counters>>

\* POST /tasks/:id/permissions/:permissionId, of the prompt that is open: the
\* runtime may have another decision already, or be unready.
BridgePermission(t) ==
  /\ \E r \in asked :
       /\ r.op = "permission" /\ r.task = t
       /\ \/ /\ view[t].permission = r.permission
             /\ AnswerAll({r}, "ok") /\ decided' = decided \union {r.permission}
          \/ AnswerAll({r}, "missing") /\ UNCHANGED decided
  /\ UNCHANGED <<view, beginning, page, counters>>

\* The bridge process ends and another one starts, which knows no task.
BridgeRestart ==
  /\ restarts < MaxRestarts
  /\ restarts' = restarts + 1
  /\ view' = [t \in Tasks |-> [status |-> "absent", permission |-> NoPermission,
                               events |-> <<>>]]
  /\ beginning' = {}
  /\ AnswerAll(asked, "lost")
  /\ UNCHANGED <<decided, page, used, overtaken, reloads>>

-----------------------------------------------------------------------------
(* Ends of a task and of a session.                                        *)

Finished(s, status) ==
  [s EXCEPT !.task = status, !.permission = NoPermission, !.always = FALSE,
            !.submitting = FALSE, !.cancelling = FALSE, !.unavailable = FALSE,
            !.error = FALSE]

\* A result that failed, or whose output is not what its session is for, is
\* not remembered.
Forgettable(status) == IF status = "completed" THEN BOOLEAN ELSE {TRUE}

FinishTask(t, s, status) ==
  /\ states' = Updated(t, Finished(s, status))
  /\ streams' = Without(streams, {t})
  /\ \E forgotten \in Forgettable(status) :
       nonRestorable' = IF forgotten THEN nonRestorable \union {t}
                                     ELSE nonRestorable
  /\ UNCHANGED sessions

DismissAll(ts) ==
  /\ sessions' = sessions \ ts
  /\ nonRestorable' = nonRestorable \ ts
  /\ states' = Without(states, ts)
  /\ streams' = Without(streams, ts)

\* dismissSession, of a result that was taken over or of a failure.
Dismiss(t) ==
  /\ t \in DOMAIN states /\ CanDismiss(states[t])
  /\ DismissAll({t})
  /\ UNCHANGED <<bridge, asked, replies, counters>>

\* dismissFailedTasks: on every navigation, and when a panel closes.
DismissFailed ==
  LET ts == {t \in sessions : /\ t \in nonRestorable \/ states[t].unavailable
                              /\ CanDismiss(states[t])}
  IN  /\ ts # {}
      /\ DismissAll(ts)
      /\ UNCHANGED <<bridge, asked, replies, counters>>

-----------------------------------------------------------------------------
(* Starting a task.                                                        *)

\* Mutant of StartReserved: a session that was not to be remembered still is not.
StartReservedForgotten(t, others) ==
  /\ sessions' = (sessions \ others) \union {t}
  /\ nonRestorable' = nonRestorable \ others
  /\ states' = With(Without(states, others), t, [NewState EXCEPT !.starting = TRUE])
  /\ streams' = Without(streams, others)
  /\ asked' = asked \union {Ask("health", t, NoPermission)}

\* startReservedTask: the session is saved, in place of another import's,
\* before the bridge is asked for anything.
StartReserved(t, others) ==
  /\ sessions' = (sessions \ others) \union {t}
  /\ nonRestorable' = nonRestorable \ (others \union {t})
  /\ states' = With(Without(states, others), t, [NewState EXCEPT !.starting = TRUE])
  /\ streams' = Without(streams, others)
  /\ asked' = asked \union {Ask("health", t, NoPermission)}

\* Mutant of StartTask: a new import does not look at the one there is.
StartTaskBeside(t) ==
  /\ t \notin used
  /\ used' = used \union {t}
  /\ StartReserved(t, {})
  /\ UNCHANGED <<bridge, replies, overtaken, reloads, restarts>>

\* An import is refused while another one is active, and replaces one that
\* is not.
StartTask(t) ==
  LET others == IF t \in SoleTasks THEN sessions \intersect SoleTasks ELSE {}
  IN  /\ t \notin used
      /\ \A u \in others : ~ Active(states[u])
      /\ used' = used \union {t}
      /\ StartReserved(t, others)
      /\ UNCHANGED <<bridge, replies, overtaken, reloads, restarts>>

\* A task that never reached the bridge keeps its id; any other one is
\* dismissed and a new task is started in its place.
RetrySame(t) ==
  /\ t \in sessions /\ ~ Active(states[t])
  /\ states[t].task = "none" /\ states[t].unavailable
  /\ StartReserved(t, {})
  /\ UNCHANGED <<bridge, replies, counters>>

RetryOther(t, u) ==
  /\ t \in sessions /\ ~ Active(states[t])
  /\ states[t].task # "none" \/ ~ states[t].unavailable
  /\ CanDismiss(states[t])
  /\ u \notin used /\ (u \in SoleTasks <=> t \in SoleTasks)
  /\ used' = used \union {u}
  /\ StartReserved(u, {t})
  /\ UNCHANGED <<bridge, replies, overtaken, reloads, restarts>>

\* The reply a page takes up, and what it does with it.
Take(r) == r \in replies /\ replies' = replies \ {r}

\* A start that failed.  Without an answer the task may be running.
StartFailed(t, unavailable) ==
  /\ states' = Updated(t, [states[t] EXCEPT !.unavailable = unavailable,
                                           !.error = TRUE, !.starting = FALSE])
  /\ streams' = Without(streams, {t})
  /\ nonRestorable' = IF unavailable THEN nonRestorable \union {t}
                                      ELSE nonRestorable
  /\ UNCHANGED sessions

HealthAnswered(r) ==
  /\ r.op = "health" /\ Take(r)
  /\ IF r.answer = "ok"
     THEN /\ asked' = asked \union {Ask("put", r.task, NoPermission)}
          /\ UNCHANGED page
     ELSE StartFailed(r.task, TRUE) /\ UNCHANGED asked
  /\ UNCHANGED <<bridge, counters>>

\* connect: an EventSource that begins with the first event.
Connected(t) == With(streams, t, 0)

PutAnswered(r) ==
  /\ r.op = "put" /\ Take(r)
  /\ IF r.answer = "running"
     THEN /\ states' = Updated(r.task,
                          [states[r.task] EXCEPT
                             !.task = "running", !.unavailable = FALSE,
                             !.error = FALSE, !.starting = FALSE])
          /\ streams' = Connected(r.task)
          /\ UNCHANGED <<sessions, nonRestorable>>
     ELSE StartFailed(r.task, r.answer = "refused")
  /\ UNCHANGED <<bridge, asked, counters>>

-----------------------------------------------------------------------------
(* A reload, and what is restored after it.                                *)

\* The page is loaded again: readAgentSessions, then restoreSessions asks for
\* every task.  What was asked before may or may not have left the browser.
Reload ==
  /\ reloads < MaxReloads
  /\ reloads' = reloads + 1
  /\ sessions' = Persisted
  /\ nonRestorable' = {}
  /\ states' = [t \in Persisted |-> [NewState EXCEPT !.restoring = TRUE]]
  /\ streams' = <<>>
  /\ replies' = {}
  /\ \E sent \in SUBSET {r \in asked : r.op \in {"put", "cancel", "permission"}} :
       asked' = {[r EXCEPT !.heard = FALSE] : r \in sent}
                  \union {Ask("get", t, NoPermission) : t \in Persisted}
  /\ overtaken' = overtaken \union beginning \union {t \in Tasks : Puts(t) # {}}
  /\ UNCHANGED <<bridge, used, restarts>>

\* A running task is shown from its first event on.  A result is kept for
\* its view to take over; what is forgettable or missing is dismissed.
RestoreAnswered(r) ==
  /\ r.op = "get" /\ Take(r)
  /\ LET t == r.task
         s == [states[t] EXCEPT !.restoring = FALSE]
     IN  CASE r.answer = "running" ->
                /\ states' = Updated(t, [s EXCEPT !.task = "running"])
                /\ streams' = Connected(t)
                /\ UNCHANGED <<sessions, nonRestorable>>
           [] r.answer \in Terminal ->
                \/ /\ r.answer = "completed"
                   /\ states' = Updated(t, Finished(s, r.answer))
                   /\ UNCHANGED <<sessions, nonRestorable, streams>>
                \/ DismissAll({t})
           [] r.answer = "missing" -> DismissAll({t})
           [] r.answer = "lost" ->
                /\ states' = Updated(t, [s EXCEPT !.error = TRUE])
                /\ UNCHANGED <<sessions, nonRestorable, streams>>
  /\ UNCHANGED <<bridge, asked, counters>>

-----------------------------------------------------------------------------
(* The stream of a running task.                                           *)

\* The answer a user, or an earlier choice of the user, gives to a prompt.
Submitted(s) == [s EXCEPT !.submitting = TRUE, !.error = FALSE]

\* Mutant of Shown: a resolution leaves the prompt on the screen.
ShownStill(s, event) ==
  LET seen == [s EXCEPT !.shown = @ + 1]
      prompt == [seen EXCEPT !.permission = event.permission,
                             !.submitting = FALSE, !.error = FALSE]
  IN  CASE event.type = "permission-required" ->
             IF s.always THEN Submitted(prompt) ELSE prompt
        [] event.type = "permission-resolved" ->
             [seen EXCEPT !.submitting = FALSE, !.error = FALSE]
        [] OTHER -> seen

\* What an event that does not end the task does to its state.
Shown(s, event) ==
  LET seen == [s EXCEPT !.shown = @ + 1]
      prompt == [seen EXCEPT !.permission = event.permission,
                             !.submitting = FALSE, !.error = FALSE]
  IN  CASE event.type = "permission-required" ->
             IF s.always THEN Submitted(prompt) ELSE prompt
        [] event.type = "permission-resolved" /\ s.permission = event.permission ->
             [seen EXCEPT !.permission = NoPermission, !.submitting = FALSE,
                          !.error = FALSE]
        [] OTHER -> seen

StreamEvent(t) ==
  /\ t \in DOMAIN streams
  /\ streams[t] < Len(view[t].events)
  /\ LET event == view[t].events[streams[t] + 1]
         s == states[t]
     IN  IF event.type \in Terminal
         THEN /\ FinishTask(t, [s EXCEPT !.shown = @ + 1], event.type)
              /\ UNCHANGED asked
         ELSE /\ states' = Updated(t, Shown(s, event))
              /\ streams' = [streams EXCEPT ![t] = @ + 1]
              /\ asked' = IF s.always /\ event.type = "permission-required"
                          THEN asked \union
                                 {Ask("permission", t, event.permission)}
                          ELSE asked
              /\ UNCHANGED <<sessions, nonRestorable>>
  /\ UNCHANGED <<bridge, replies, counters>>

\* Mutant of StreamLost: a stream that is closed for good is not noticed.
StreamLostSilent(t) ==
  /\ t \in DOMAIN streams /\ ~ Known(t)
  /\ streams' = Without(streams, {t})
  /\ UNCHANGED <<bridge, asked, replies, sessions, nonRestorable, states, counters>>

\* The EventSource connects again to a bridge that does not know the task.
StreamLost(t) ==
  /\ t \in DOMAIN streams /\ ~ Known(t)
  /\ states' = Updated(t, [states[t] EXCEPT !.error = TRUE])
  /\ streams' = Without(streams, {t})
  /\ UNCHANGED <<bridge, asked, replies, sessions, nonRestorable, counters>>

\* resolvePermission, and allowBrowserActionsForTask (always).
ResolvePermission(t, always) ==
  /\ t \in DOMAIN states
  /\ LET s == states[t] IN
       /\ s.task = "running" /\ s.permission # NoPermission /\ ~ s.submitting
       /\ states' = [states EXCEPT
            ![t] = Submitted([s EXCEPT !.always = @ \/ always])]
       /\ asked' = asked \union {Ask("permission", t, s.permission)}
  /\ UNCHANGED <<bridge, replies, sessions, nonRestorable, streams, counters>>

\* An error that concerns a prompt which is still there lets the user answer
\* again, and ends the automatic approval.
PermissionAnswered(r) ==
  /\ r.op = "permission" /\ Take(r)
  /\ LET t == r.task
         current == /\ t \in DOMAIN states
                    /\ states[t].permission = r.permission
     IN  states' = IF r.answer # "ok" /\ current
                   THEN [states EXCEPT ![t].error = TRUE,
                                       ![t].submitting = FALSE,
                                       ![t].always = FALSE]
                   ELSE states
  /\ UNCHANGED <<bridge, asked, sessions, nonRestorable, streams, counters>>

-----------------------------------------------------------------------------
(* Cancelling a task.  The panels offer it for a running task only.        *)

CancelTask(t) ==
  /\ t \in DOMAIN states
  /\ states[t].task = "running" /\ ~ states[t].cancelling
  /\ states' = [states EXCEPT ![t].cancelling = TRUE, ![t].error = FALSE]
  /\ asked' = asked \union {Ask("cancel", t, NoPermission)}
  /\ UNCHANGED <<bridge, replies, sessions, nonRestorable, streams, counters>>

\* Mutant of CancelAnswered: whatever the bridge says, the task is cancelled.
CancelAnsweredBlindly(r) ==
  /\ r.op = "cancel" /\ Take(r)
  /\ IF r.task \in DOMAIN states
     THEN FinishTask(r.task, states[r.task], "cancelled")
     ELSE UNCHANGED page
  /\ UNCHANGED <<bridge, asked, counters>>

\* The task may have ended, and its session may have gone, meanwhile.
CancelAnswered(r) ==
  /\ r.op = "cancel" /\ Take(r)
  /\ IF r.answer \in Terminal
     THEN IF r.task \in DOMAIN states
          THEN FinishTask(r.task, states[r.task], r.answer)
          ELSE /\ nonRestorable' = nonRestorable \union {r.task}
               /\ UNCHANGED <<sessions, states, streams>>
     ELSE /\ states' = IF r.task \notin DOMAIN states THEN states
                       ELSE [states EXCEPT
                               ![r.task].unavailable = (r.answer = "missing"),
                               ![r.task].error = TRUE,
                               ![r.task].cancelling = FALSE]
          /\ UNCHANGED <<sessions, nonRestorable, streams>>
  /\ UNCHANGED <<bridge, asked, counters>>

-----------------------------------------------------------------------------

StoreInit ==
  /\ Bridge!Init
  /\ beginning = {} /\ decided = {}
  /\ asked = {} /\ replies = {}
  /\ sessions = {} /\ nonRestorable = {}
  /\ states = <<>> /\ streams = <<>>
  /\ used = {} /\ overtaken = {}
  /\ reloads = 0 /\ restarts = 0

BridgeAnswers(t) ==
  \/ BridgeHealth(t) \/ BridgePut(t) \/ BridgeBegins(t) \/ BridgeRefuses(t)
  \/ BridgeGet(t) \/ BridgeCancel(t) \/ BridgePermission(t)

Answered(r) ==
  \/ HealthAnswered(r) \/ PutAnswered(r) \/ RestoreAnswered(r)
  \/ CancelAnswered(r) \/ PermissionAnswered(r)

StoreNext ==
  \/ BridgeTask \/ BridgeRestart
  \/ \E t \in Tasks :
       \/ BridgeAnswers(t)
       \/ StartTask(t) \/ RetrySame(t) \/ \E u \in Tasks : RetryOther(t, u)
       \/ Dismiss(t)
       \/ StreamEvent(t) \/ StreamLost(t)
       \/ \E always \in BOOLEAN : ResolvePermission(t, always)
       \/ CancelTask(t)
  \/ DismissFailed
  \/ Reload
  \/ \E r \in replies : Answered(r)

StoreSpec == StoreInit /\ [][StoreNext]_vars

\* The bridge answers every request (a start or an interrupt that hangs is
\* timed out by the runtime), the browser runs every continuation, and a
\* stream delivers or reconnects.  A user, a reload and a task do what they
\* like.
StoreFairness ==
  \A t \in Tasks :
    /\ WF_vars(BridgeHealth(t))
    /\ WF_vars(BridgePut(t)) /\ WF_vars(BridgeBegins(t) \/ BridgeRefuses(t))
    /\ WF_vars(BridgeGet(t)) /\ WF_vars(BridgeCancel(t))
    /\ WF_vars(BridgePermission(t))
    /\ \A op \in Operations :
         WF_vars(\E r \in replies : r.task = t /\ r.op = op /\ Answered(r))
    /\ WF_vars(StreamEvent(t)) /\ WF_vars(StreamLost(t))

FairStoreSpec == StoreSpec /\ StoreFairness

-----------------------------------------------------------------------------
(* Properties.                                                             *)

StoreTypeOK ==
  /\ Bridge!TypeOK
  /\ beginning \subseteq Tasks /\ decided \subseteq Permissions
  /\ asked \subseteq Request /\ replies \subseteq Reply
  /\ sessions \subseteq Tasks /\ nonRestorable \subseteq Tasks
  /\ DOMAIN states \subseteq Tasks
  /\ \A t \in DOMAIN states : states[t] \in TaskState
  /\ DOMAIN streams \subseteq Tasks
  /\ \A t \in DOMAIN streams : streams[t] \in Nat
  /\ used \subseteq Tasks /\ overtaken \subseteq Tasks
  /\ reloads \in 0 .. MaxReloads /\ restarts \in 0 .. MaxRestarts

\* What is shown has a session and the other way round, a stream is open only
\* for a task that is shown running, and it counts the events shown.
ListsAgree ==
  /\ DOMAIN states = sessions
  /\ \A t \in DOMAIN streams :
       /\ t \in sessions
       /\ states[t].task = "running"
       /\ states[t].shown = streams[t]

(* The lists the store keeps of a task agree, and there is never more than *)
(* one session of an import, nor of a draft for one contact: a second      *)
(* result would overwrite the first (stores/agent.ts:389-420).             *)
SessionsAgree == ListsAgree /\ Cardinality(sessions \intersect SoleTasks) <= 1

(* An outcome the page shows is the one the bridge has, unless the bridge  *)
(* has been restarted: late answers to a cancellation, replayed events and *)
(* a restore never make up another one.                                    *)
OutcomeIsTrue ==
  \A t \in DOMAIN states :
    states[t].task \in Terminal =>
      view[t].status = states[t].task \/ restarts > 0

\* A prompt is on the screen exactly when its request has been delivered and
\* its resolution has not.
PromptIsDelivered ==
  \A t \in DOMAIN streams : \A p \in Permissions :
    Known(t) =>
      LET seen(type) == \E i \in 1 .. streams[t] :
            view[t].events[i] = [type |-> type, permission |-> p]
      IN  states[t].permission = p <=>
            seen("permission-required") /\ ~ seen("permission-resolved")

\* Buttons that wait for a decision wait for one that is under way or that
\* the bridge has accepted.
SubmittingIsReal ==
  \A t \in DOMAIN states : LET s == states[t] IN
    s.submitting =>
      \/ s.permission \in decided
      \/ \E r \in asked : /\ r.op = "permission" /\ r.heard
                          /\ r.task = t /\ r.permission = s.permission
      \/ \E r \in replies : /\ r.op = "permission"
                            /\ r.task = t /\ r.permission = s.permission

(* Whatever answers, errors and replays there have been, the screen shows  *)
(* the prompt that is open, and the user is never locked out of it by a    *)
(* decision that was lost (stores/agent.ts:559-620).                       *)
PromptIsCurrent == PromptIsDelivered /\ SubmittingIsReal

(* A task that runs is one the page would find again after a reload, as    *)
(* long as no reload came while its start was under way.                   *)
RunningIsRemembered ==
  \A t \in Tasks \ overtaken : view[t].status = "running" => t \in Persisted

(* "Restore ... active Agent tasks after navigation or reloads"            *)
(* (README.md:40): no reload makes the page forget a task that runs.       *)
ActiveTasksAreRestored ==
  \A t \in Tasks : view[t].status = "running" => t \in Persisted

\* Starting, restoring and cancelling a task end.
CallsEnd ==
  \A t \in Tasks :
    LET busy == /\ t \in DOMAIN states
                /\ states[t].starting \/ states[t].restoring \/ states[t].cancelling
    IN  busy ~> ~ busy

\* A task the page shows running, and that has ended, is in the end shown to
\* have ended, or at least to be in error.
OutcomeIsSeen ==
  \A t \in Tasks :
    LET stale == /\ t \in DOMAIN states /\ states[t].task = "running"
                 /\ view[t].status # "running" /\ ~ states[t].error
    IN  stale ~> ~ stale

(* Whatever the bridge does meanwhile, restarts included, no panel is busy *)
(* for ever, and none shows a task running for ever that has ended.        *)
PanelsSettle == CallsEnd /\ OutcomeIsSeen

=============================================================================
