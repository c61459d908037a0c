---------------------------- MODULE TaskLifecycle ----------------------------
(***************************************************************************)
(* What the Agent bridge promises about a task to everything that watches  *)
(* it: the client's task store, the event stream and the views.  A task    *)
(* begins once, reports progress, may ask the user for one permission at   *)
(* a time, and ends exactly once.  Its event log only grows, and nothing   *)
(* follows the event that ends it.                                         *)
(*                                                                         *)
(* The bridge's task manager (module TaskManager) is shown to implement    *)
(* this specification; the event stream (module TaskStream) and the        *)
(* client's store build on it.                                             *)
(***************************************************************************)
EXTENDS Naturals, Sequences

CONSTANTS
  Tasks,         \* task identifiers
  Permissions,   \* permission identifiers, each generated once (randomUUID)
  NoPermission,  \* the null of pendingPermission
  MaxEvents      \* bound: progress and prompts stop once a log is this long

ASSUME NoPermissionAssumption == NoPermission \notin Permissions
ASSUME MaxEventsAssumption == MaxEvents \in Nat

VARIABLE view    \* view[t]: status, pending permission and event log of t

Terminal == {"completed", "failed", "cancelled"}
Statuses == {"absent", "running"} \union Terminal

\* A log entry.  The id the bridge gives an event is its position: ids start
\* at 1, each is the last one plus 1, and no event is ever removed.
Event == [type : {"progress", "permission-required", "permission-resolved"}
                   \union Terminal,
          permission : Permissions \union {NoPermission}]

TaskView == [status : Statuses,
             permission : Permissions \union {NoPermission},
             events : Seq(Event)]

Logged(events, type, permission) ==
  Append(events, [type |-> type, permission |-> permission])

Begun == [status |-> "running", permission |-> NoPermission,
          events |-> Logged(<<>>, "progress", NoPermission)]

\* A task that goes on, with a pending permission and one more event.
Continued(v, pending, type, permission) ==
  [status |-> v.status, permission |-> pending,
   events |-> Logged(v.events, type, permission)]

Reported(v) == Continued(v, v.permission, "progress", NoPermission)
Prompted(v, p) == Continued(v, p, "permission-required", p)
Answered(v) ==
  Continued(v, NoPermission, "permission-resolved", v.permission)

\* Mutant of Ended: the runtime's own word for a cancelled turn is kept.
EndedInterrupted(v, status) ==
  [status |-> IF status = "cancelled" THEN "interrupted" ELSE status,
   permission |-> NoPermission,
   events |-> Logged(v.events, status, NoPermission)]

Ended(v, status) ==
  [status |-> status, permission |-> NoPermission,
   events |-> Logged(v.events, status, NoPermission)]

Mentions(events, p) == \E i \in 1 .. Len(events) : events[i].permission = p

-----------------------------------------------------------------------------

Init ==
  view = [t \in Tasks |-> [status |-> "absent", permission |-> NoPermission,
                           events |-> <<>>]]

Begin(t) ==
  /\ view[t].status = "absent"
  /\ view' = [view EXCEPT ![t] = Begun]

Report(t) ==
  /\ view[t].status = "running"
  /\ Len(view[t].events) < MaxEvents
  /\ view' = [view EXCEPT ![t] = Reported(@)]

\* A prompt is shown by one task only, and only once.
Ask(t, p) ==
  /\ view[t].status = "running"
  /\ view[t].permission = NoPermission
  /\ Len(view[t].events) < MaxEvents
  /\ \A u \in Tasks : ~ Mentions(view[u].events, p)
  /\ view' = [view EXCEPT ![t] = Prompted(@, p)]

Answer(t) ==
  /\ view[t].status = "running"
  /\ view[t].permission # NoPermission
  /\ view' = [view EXCEPT ![t] = Answered(@)]

\* Mutant of End: a task that has ended may end once more.
EndAgain(t, status) ==
  /\ view[t].status # "absent"
  /\ Len(view[t].events) <= MaxEvents
  /\ view' = [view EXCEPT ![t] = Ended(@, status)]

End(t, status) ==
  /\ view[t].status = "running"
  /\ view' = [view EXCEPT ![t] = Ended(@, status)]

\* The runtime is gone: whatever was running fails, all of it in one step.
EndAll ==
  view' = [t \in Tasks |-> IF view[t].status = "running"
                           THEN Ended(view[t], "failed") ELSE view[t]]

Next ==
  \/ \E t \in Tasks :
       \/ Begin(t) \/ Report(t) \/ Answer(t)
       \/ \E p \in Permissions : Ask(t, p)
       \/ \E status \in Terminal : End(t, status)
  \/ EndAll

Spec == Init /\ [][Next]_view

-----------------------------------------------------------------------------

TypeOK == view \in [Tasks -> TaskView]

\* An event that ends the task is the last one of the log; it is there
\* exactly when the task has ended, and it says how.
LogMatchesStatus ==
  \A t \in Tasks : LET v == view[t] IN
    /\ \A i \in 1 .. Len(v.events) :
         v.events[i].type \in Terminal => i = Len(v.events)
    /\ v.status \in Terminal =>
         Len(v.events) > 0 /\ v.events[Len(v.events)].type = v.status
    /\ v.status \notin Terminal =>
         \A i \in 1 .. Len(v.events) : v.events[i].type \notin Terminal

\* The pending permission is the one whose request is not followed by its
\* resolution; a task that has ended has none.
PromptMatchesLog ==
  \A t \in Tasks : LET v == view[t] IN
    \A p \in Permissions :
      v.permission = p <=>
        /\ v.status = "running"
        /\ \E i \in 1 .. Len(v.events) :
             /\ v.events[i] = [type |-> "permission-required", permission |-> p]
             /\ \A j \in i .. Len(v.events) :
                  v.events[j].type # "permission-resolved"

(* The log of a task tells all of it: how it ended, if it has, and which   *)
(* prompt is open.  A page that is loaded again replays nothing else.      *)
LogIsTrue == LogMatchesStatus /\ PromptMatchesLog

=============================================================================
