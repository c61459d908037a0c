-------------------------- MODULE TaskManagerProofs --------------------------
(***************************************************************************)
(* Theorems about the task manager, for every set of tasks, permissions    *)
(* and every bound: type correctness, that no running task is left         *)
(* unattended, that every open request is among the events a client is     *)
(* served, that a task runs one turn at most, that the end of a task is    *)
(* final, and that the task manager implements TaskLifecycle.              *)
(***************************************************************************)
EXTENDS TaskManager, SequenceTheorems, TLAPS

-----------------------------------------------------------------------------
(* The operations on a stored task yield a stored task.                    *)

LEMMA EmitType ==
  ASSUME NEW task \in StoredTask,
         NEW type \in {"progress", "permission-required", "permission-resolved"}
                        \union Terminal,
         NEW p \in Permissions \union {NoPermission}
  PROVE  Emit(task, type, p) \in StoredTask
<1> DEFINE event == [type |-> type, permission |-> p]
<1>1. event \in Event
  BY DEF Event
<1>2. task.events \in Seq(Event)
  BY DEF StoredTask
<1>3. Append(task.events, event) \in Seq(Event)
  BY <1>1, <1>2, AppendProperties
<1>4. Emit(task, type, p) = [task EXCEPT !.events = Append(task.events, event)]
  BY DEF Emit
<1> HIDE DEF event
<1>. QED
  BY <1>3, <1>4 DEF StoredTask

LEMMA TimerType ==
  ASSUME NEW task \in StoredTask
  PROVE  /\ ArmInactivityTimeout(task) \in StoredTask
         /\ ClearInactivityTimeout(task) \in StoredTask
BY DEF ArmInactivityTimeout, ClearInactivityTimeout, StoredTask

LEMMA FieldType ==
  ASSUME NEW task \in StoredTask
  PROVE  /\ \A b \in BOOLEAN : [task EXCEPT !.cancellation = b] \in StoredTask
         /\ \A b \in BOOLEAN : [task EXCEPT !.final = b] \in StoredTask
         /\ \A p \in Permissions \union {NoPermission} :
              [task EXCEPT !.permission = p] \in StoredTask
BY DEF StoredTask

LEMMA EndType ==
  ASSUME NEW task \in StoredTask
  PROVE  /\ Fail(task) \in StoredTask
         /\ MarkCancelled(task) \in StoredTask
         /\ \A outcome : CompleteTurn(task, outcome) \in StoredTask
<1>1. \A status \in Terminal :
        [task EXCEPT !.status = status, !.permission = NoPermission,
                     !.timer = FALSE] \in StoredTask
  BY DEF StoredTask, Statuses
<1>2. \A status \in Terminal :
        Emit([task EXCEPT !.status = status, !.permission = NoPermission,
                          !.timer = FALSE], status, NoPermission) \in StoredTask
  BY <1>1, EmitType
<1>3. Fail(task) \in StoredTask
  BY <1>2 DEF Fail, Terminal
<1>4. MarkCancelled(task) \in StoredTask
  BY <1>2 DEF MarkCancelled, Terminal
<1>5. Emit([task EXCEPT !.status = "completed", !.permission = NoPermission,
                        !.timer = FALSE], "completed", NoPermission)
        \in StoredTask
  BY <1>2 DEF Terminal
<1>6. \A outcome : CompleteTurn(task, outcome) \in StoredTask
  BY <1>3, <1>4, <1>5 DEF CompleteTurn
<1>. QED
  BY <1>3, <1>4, <1>6

LEMMA NewTaskType ==
  ASSUME NEW thread \in Tasks \union {NoTask}
  PROVE  NewTask(thread) \in StoredTask
<1> DEFINE blank == [status |-> "running", thread |-> thread, final |-> FALSE,
                     permission |-> NoPermission, timer |-> FALSE,
                     cancellation |-> FALSE, events |-> <<>>]
<1>1. blank \in StoredTask
  BY DEF StoredTask, Statuses
<1>2. Emit(blank, "progress", NoPermission) \in StoredTask
  BY <1>1, EmitType
<1>. QED
  BY <1>2, TimerType DEF NewTask

-----------------------------------------------------------------------------

LEMMA InitTypeOK == Init => TypeOK
BY DEF Init, TypeOK, StoredTask, Statuses, Request, Decisions

\* A step that puts a stored task in the place of t keeps the map well typed.
LEMMA UpdateType ==
  ASSUME NEW t \in Tasks, NEW stored \in StoredTask,
         tasks \in [Tasks -> StoredTask],
         tasks' = [tasks EXCEPT ![t] = stored]
  PROVE  tasks' \in [Tasks -> StoredTask]
OBVIOUS

LEMMA StepTypeOK == TypeOK /\ [Next]_vars => TypeOK'
<1> SUFFICES ASSUME TypeOK, [Next]_vars
             PROVE  TypeOK'
  OBVIOUS
<1> USE DEF TypeOK
<1>1. ASSUME NEW t \in Tasks, Start(t)
      PROVE  TypeOK'
  BY <1>1 DEF Start
<1>2. ASSUME NEW t \in Tasks, StartSucceeds(t)
      PROVE  TypeOK'
  <2>1. PICK thread \in {t} \union {tasks[u].thread : u \in {v \in Tasks : Known(v)}} :
          tasks' = [tasks EXCEPT ![t] = NewTask(thread)]
    BY <1>2 DEF StartSucceeds
  <2>2. thread \in Tasks \union {NoTask}
    BY DEF StoredTask
  <2>3. NewTask(thread) \in StoredTask
    BY <2>2, NewTaskType
  <2>. QED
    BY <1>2, <2>1, <2>3 DEF StartSucceeds
<1>3. ASSUME NEW t \in Tasks, StartFails(t)
      PROVE  TypeOK'
  BY <1>3 DEF StartFails
<1>4. ASSUME NEW t \in Tasks, Cancel(t)
      PROVE  TypeOK'
  <2>1. [ClearInactivityTimeout(tasks[t]) EXCEPT !.cancellation = TRUE]
          \in StoredTask
    BY TimerType, FieldType
  <2>. QED
    BY <1>4, <2>1 DEF Cancel
<1>5. ASSUME NEW t \in Tasks, InterruptSucceeds(t)
      PROVE  TypeOK'
  <2>1. [(IF Running(t) THEN MarkCancelled(tasks[t]) ELSE tasks[t])
           EXCEPT !.cancellation = FALSE] \in StoredTask
    BY EndType, FieldType
  <2>. QED
    BY <1>5, <2>1 DEF InterruptSucceeds
<1>6. ASSUME NEW t \in Tasks, InterruptFails(t)
      PROVE  TypeOK'
  <2>1. [(IF Running(t) THEN ArmInactivityTimeout(tasks[t]) ELSE tasks[t])
           EXCEPT !.cancellation = FALSE] \in StoredTask
    BY TimerType, FieldType
  <2>. QED
    BY <1>6, <2>1 DEF InterruptFails
<1>7. ASSUME NEW t \in Tasks, InactivityTimeout(t)
      PROVE  TypeOK'
  <2>1. Fail(ClearInactivityTimeout(tasks[t])) \in StoredTask
    BY TimerType, EndType
  <2>. QED
    BY <1>7, <2>1 DEF InactivityTimeout, runtime
<1>8. ASSUME NEW t \in Tasks, Activity(t)
      PROVE  TypeOK'
  <2>1. Emit(ArmInactivityTimeout(tasks[t]), "progress", NoPermission)
          \in StoredTask
    BY TimerType, EmitType
  <2>. QED
    BY <1>8, <2>1 DEF Activity, runtime
<1>9. ASSUME NEW t \in Tasks, Retrying(t)
      PROVE  TypeOK'
  <2>1. Emit(tasks[t], "progress", NoPermission) \in StoredTask
    BY EmitType
  <2>. QED
    BY <1>9, <2>1 DEF Retrying, runtime
<1>10. ASSUME NEW t \in Tasks, FinalMessage(t)
       PROVE  TypeOK'
  <2>1. \A final \in BOOLEAN :
          [ArmInactivityTimeout(tasks[t]) EXCEPT !.final = final] \in StoredTask
    BY TimerType, FieldType
  <2>. QED
    BY <1>10, <2>1 DEF FinalMessage, runtime
<1>11. ASSUME NEW t \in Tasks, TurnCompleted(t)
       PROVE  TypeOK'
  <2>1. \A outcome :
          (IF Running(t) THEN CompleteTurn(ArmInactivityTimeout(tasks[t]), outcome)
           ELSE tasks[t]) \in StoredTask
    BY TimerType, EndType
  <2>. QED
    BY <1>11, <2>1 DEF TurnCompleted
<1>12. ASSUME NEW t \in Tasks, NEW p \in Permissions, NEW exact \in BOOLEAN,
              PresentPermission(p, t, exact)
       PROVE  TypeOK'
  <2>1. PICK u \in Tasks : tasks' = [tasks EXCEPT
          ![u] = Emit([ClearInactivityTimeout(tasks[u]) EXCEPT !.permission = p],
                      "permission-required", p)]
    BY <1>12 DEF PresentPermission, Candidates
  <2>2. [ClearInactivityTimeout(tasks[u]) EXCEPT !.permission = p] \in StoredTask
    BY TimerType, FieldType
  <2>3. Emit([ClearInactivityTimeout(tasks[u]) EXCEPT !.permission = p],
             "permission-required", p) \in StoredTask
    BY <2>2, EmitType
  <2>4. tasks' \in [Tasks -> StoredTask]
    BY <2>1, <2>3
  <2>5. requests' \in [Permissions -> Request]
    BY <1>12 DEF PresentPermission, Asked, Request
  <2>. QED
    BY <1>12, <2>4, <2>5 DEF PresentPermission
<1>13. ASSUME NEW t \in Tasks, NEW p \in Permissions, NEW exact \in BOOLEAN,
              DeclinePermission(p, t, exact)
       PROVE  TypeOK'
  <2>1. requests' \in [Permissions -> Request]
    BY <1>13 DEF DeclinePermission, Asked, Request, Decisions
  <2>. QED
    BY <1>13, <2>1 DEF DeclinePermission
<1>14. ASSUME NEW t \in Tasks, NEW p \in Permissions, NEW decision \in Decisions,
              ResolvePermission(t, p, decision)
       PROVE  TypeOK'
  BY <1>14 DEF ResolvePermission, Request
<1>15. ASSUME NEW p \in Permissions, PermissionResolved(p)
       PROVE  TypeOK'
  <2>1. \A t \in Tasks :
          ArmInactivityTimeout(
            Emit([tasks[t] EXCEPT !.permission = NoPermission],
                 "permission-resolved", p)) \in StoredTask
    <3> TAKE t \in Tasks
    <3>1. [tasks[t] EXCEPT !.permission = NoPermission] \in StoredTask
      BY DEF StoredTask
    <3>. QED
      BY <3>1, EmitType, TimerType
  <2>2. tasks' \in [Tasks -> StoredTask]
    BY <1>15, <2>1 DEF PermissionResolved, Holders
  <2>3. requests' \in [Permissions -> Request]
    BY <1>15 DEF PermissionResolved, Request
  <2>. QED
    BY <1>15, <2>2, <2>3 DEF PermissionResolved
<1>16. CASE RuntimeUnavailable
  BY <1>16 DEF RuntimeUnavailable
<1>17. CASE RuntimeFailed
  <2>1. tasks' \in [Tasks -> StoredTask]
    BY <1>17, EndType DEF RuntimeFailed
  <2>2. requests' \in [Permissions -> Request]
    BY <1>17 DEF RuntimeFailed, Request
  <2>. QED
    BY <1>17, <2>1, <2>2 DEF RuntimeFailed
<1>18. CASE UNCHANGED vars
  BY <1>18 DEF vars
<1>. QED
  BY <1>1, <1>2, <1>3, <1>4, <1>5, <1>6, <1>7, <1>8, <1>9, <1>10, <1>11,
     <1>12, <1>13, <1>14, <1>15, <1>16, <1>17, <1>18 DEF Next

(* The type invariant: every record of the task map, the runtime's request *)
(* map and the call counters keep their types.                             *)
THEOREM TypeCorrect == Spec => []TypeOK
BY InitTypeOK, StepTypeOK, PTL DEF Spec

-----------------------------------------------------------------------------
(* What the operations do to the fields the invariant is about.            *)

LEMMA EmitFields ==
  ASSUME NEW task \in StoredTask, NEW type, NEW p
  PROVE  /\ Emit(task, type, p).status = task.status
         /\ Emit(task, type, p).permission = task.permission
         /\ Emit(task, type, p).timer = task.timer
         /\ Emit(task, type, p).cancellation = task.cancellation
BY DEF Emit, StoredTask

LEMMA TimerFields ==
  ASSUME NEW task \in StoredTask
  PROVE  LET armed == ArmInactivityTimeout(task)
             cleared == ClearInactivityTimeout(task)
         IN  /\ armed.status = task.status
             /\ armed.permission = task.permission
             /\ armed.cancellation = task.cancellation
             /\ armed.timer <=> /\ task.status = "running"
                                /\ task.permission = NoPermission
             /\ cleared.status = task.status
             /\ cleared.permission = task.permission
             /\ cleared.cancellation = task.cancellation
BY DEF ArmInactivityTimeout, ClearInactivityTimeout, StoredTask

HasEnded(ended, task) ==
  /\ ended.status \in Terminal
  /\ ended.permission = NoPermission
  /\ ended.cancellation = task.cancellation

LEMMA EndFields ==
  ASSUME NEW task \in StoredTask
  PROVE  /\ HasEnded(Fail(task), task)
         /\ HasEnded(MarkCancelled(task), task)
         /\ \A outcome : HasEnded(CompleteTurn(task, outcome), task)
<1>1. \A status \in Terminal :
        LET ended == Emit([task EXCEPT !.status = status,
                                       !.permission = NoPermission,
                                       !.timer = FALSE], status, NoPermission)
        IN  HasEnded(ended, task)
  <2> TAKE status \in Terminal
  <2> DEFINE stopped == [task EXCEPT !.status = status,
                                     !.permission = NoPermission,
                                     !.timer = FALSE]
  <2>1. /\ stopped \in StoredTask
        /\ HasEnded(stopped, task)
    BY DEF StoredTask, Statuses, HasEnded
  <2> HIDE DEF stopped
  <2>2. HasEnded(Emit(stopped, status, NoPermission), task)
    BY <2>1, EmitFields DEF HasEnded
  <2>. QED
    BY <2>2 DEF stopped
<1>2. HasEnded(Fail(task), task)
  BY <1>1 DEF Fail, Terminal
<1>3. HasEnded(MarkCancelled(task), task)
  BY <1>1 DEF MarkCancelled, Terminal
<1>4. HasEnded(Emit([task EXCEPT !.status = "completed",
                                 !.permission = NoPermission,
                                 !.timer = FALSE], "completed", NoPermission),
               task)
  BY <1>1 DEF Terminal
<1>5. \A outcome : HasEnded(CompleteTurn(task, outcome), task)
  BY <1>2, <1>3, <1>4 DEF CompleteTurn
<1>. QED
  BY <1>2, <1>3, <1>5

LEMMA NewTaskFields ==
  ASSUME NEW thread \in Tasks \union {NoTask}
  PROVE  /\ NewTask(thread).status = "running"
         /\ NewTask(thread).timer = TRUE
         /\ NewTask(thread).cancellation = FALSE
<1> DEFINE blank == [status |-> "running", thread |-> thread, final |-> FALSE,
                     permission |-> NoPermission, timer |-> FALSE,
                     cancellation |-> FALSE, events |-> <<>>]
           first == Emit(blank, "progress", NoPermission)
<1>1. blank \in StoredTask
  BY DEF StoredTask, Statuses
<1>2. first \in StoredTask
  BY <1>1, EmitType
<1>3. /\ first.status = "running"
      /\ first.permission = NoPermission
      /\ first.cancellation = FALSE
  BY <1>1, EmitFields
<1>4. NewTask(thread) = ArmInactivityTimeout(first)
  BY DEF NewTask
<1> HIDE DEF first
<1>. QED
  BY <1>2, <1>3, <1>4 DEF ArmInactivityTimeout, StoredTask

-----------------------------------------------------------------------------
(* The inductive invariant.  The call counters follow the task map: a      *)
(* start is in flight exactly for the keys of taskStarts, which are not    *)
(* tasks yet; a turn was started exactly for the tasks; an interrupt is in *)
(* flight exactly while the task keeps its cancellation promise.           *)

SingleStart(t) ==
  /\ startCalls[t] = IF t \in taskStarts THEN 1 ELSE 0
  /\ t \in taskStarts => ~ Known(t)

SingleTurn(t) == turns[t] = IF Known(t) THEN 1 ELSE 0

SingleInterrupt(t) ==
  /\ interrupts[t] = IF tasks[t].cancellation THEN 1 ELSE 0
  /\ ~ Known(t) => ~ tasks[t].cancellation

Attended(t) ==
  Running(t) => \/ tasks[t].timer
                \/ tasks[t].permission # NoPermission
                \/ tasks[t].cancellation

Prompting(t) == tasks[t].permission # NoPermission => Running(t)

IInv ==
  \A t \in Tasks : /\ SingleStart(t) /\ SingleTurn(t) /\ SingleInterrupt(t)
                   /\ Attended(t) /\ Prompting(t)

LEMMA InitIInv == Init => IInv
<1> SUFFICES ASSUME Init, NEW t \in Tasks
             PROVE  /\ SingleStart(t) /\ SingleTurn(t)
                    /\ SingleInterrupt(t) /\ Attended(t) /\ Prompting(t)
  BY DEF IInv
<1>1. /\ tasks[t].status = "absent" /\ tasks[t].cancellation = FALSE
      /\ tasks[t].permission = NoPermission
      /\ taskStarts = {} /\ startCalls[t] = 0
      /\ turns[t] = 0 /\ interrupts[t] = 0
  BY DEF Init
<1>. QED
  BY <1>1 DEF SingleStart, SingleTurn, SingleInterrupt, Attended, Prompting,
      Known, Running

\* A step that leaves the counters alone and puts for t a record of the same
\* task that keeps its promise of cancellation preserves the invariant if the
\* new record is attended.
LEMMA QuietStep ==
  ASSUME TypeOK, IInv,
         tasks' \in [Tasks -> StoredTask],
         UNCHANGED <<taskStarts, startCalls, turns, interrupts>>,
         \A t \in Tasks :
           \/ tasks'[t] = tasks[t]
           \/ /\ Known(t)
              /\ tasks'[t].status # "absent"
              /\ tasks'[t].cancellation = tasks[t].cancellation
              /\ \/ /\ tasks'[t].status # "running"
                    /\ tasks'[t].permission = NoPermission
                 \/ /\ tasks'[t].status = "running"
                    /\ \/ tasks'[t].timer
                       \/ tasks'[t].permission # NoPermission
                       \/ tasks'[t].cancellation
  PROVE  IInv'
BY DEF TypeOK, IInv, SingleStart, SingleTurn, SingleInterrupt, Attended, Prompting,
       Known, Running

LEMMA StepIInv == TypeOK /\ IInv /\ [Next]_vars => IInv'
<1> SUFFICES ASSUME TypeOK, IInv, [Next]_vars
             PROVE  IInv'
  OBVIOUS
<1>0. TypeOK'
  BY StepTypeOK
<1>m. tasks \in [Tasks -> StoredTask] /\ tasks' \in [Tasks -> StoredTask]
  BY <1>0 DEF TypeOK
<1>1. ASSUME NEW t \in Tasks, Start(t)
      PROVE  IInv'
  BY <1>1 DEF Start, TypeOK, IInv, SingleStart, SingleTurn, SingleInterrupt,
              Attended, Prompting,
      Known, Running
<1>2. ASSUME NEW t \in Tasks, StartSucceeds(t)
      PROVE  IInv'
  <2>1. PICK thread \in {t} \union {tasks[u].thread : u \in {v \in Tasks : Known(v)}} :
          tasks' = [tasks EXCEPT ![t] = NewTask(thread)]
    BY <1>2 DEF StartSucceeds
  <2>2. thread \in Tasks \union {NoTask}
    BY <1>m DEF StoredTask
  <2>3. /\ tasks'[t].status = "running"
        /\ tasks'[t].timer = TRUE
        /\ tasks'[t].cancellation = FALSE
    BY <1>m, <2>1, <2>2, NewTaskFields
  <2>4. ~ Known(t) /\ t \in taskStarts
    BY <1>2 DEF StartSucceeds, IInv, SingleStart
  <2>5. \A u \in Tasks : u # t => tasks'[u] = tasks[u]
    BY <1>m, <2>1
  <2>. QED
    BY <1>2, <2>3, <2>4, <2>5
    DEF StartSucceeds, TypeOK, IInv, SingleStart, SingleTurn, SingleInterrupt,
        Attended, Prompting,
      Known, Running
<1>3. ASSUME NEW t \in Tasks, StartFails(t)
      PROVE  IInv'
  BY <1>3 DEF StartFails, TypeOK, IInv, SingleStart, SingleTurn,
              SingleInterrupt, Attended, Prompting,
      Known, Running
<1>4. ASSUME NEW t \in Tasks, Cancel(t)
      PROVE  IInv'
  <2>1. ClearInactivityTimeout(tasks[t]) \in StoredTask
    BY <1>m, TimerType
  <2>2. /\ tasks'[t].status = tasks[t].status
        /\ tasks'[t].permission = tasks[t].permission
        /\ tasks'[t].cancellation = TRUE
    BY <1>4, <1>m, <2>1, TimerFields DEF Cancel, StoredTask
  <2>3. \A u \in Tasks : u # t => tasks'[u] = tasks[u]
    BY <1>4, <1>m DEF Cancel
  <2>4. interrupts' = [interrupts EXCEPT
                         ![t] = IF tasks[t].cancellation THEN @ ELSE @ + 1]
    BY <1>4 DEF Cancel, TypeOK
  <2>. QED
    BY <1>4, <2>2, <2>3, <2>4
    DEF Cancel, TypeOK, IInv, SingleStart, SingleTurn, SingleInterrupt,
        Attended, Prompting,
      Known, Running
<1>5. ASSUME NEW t \in Tasks, InterruptSucceeds(t)
      PROVE  IInv'
  <2> DEFINE settled == IF Running(t) THEN MarkCancelled(tasks[t]) ELSE tasks[t]
  <2>1. /\ settled \in StoredTask
        /\ settled.status # "running"
        /\ settled.permission = NoPermission
        /\ settled.status = "absent" <=> ~ Known(t)
    BY <1>m, EndType, EndFields
    DEF HasEnded, IInv, Prompting, Terminal, Known, Running
  <2>2. tasks' = [tasks EXCEPT ![t] = [settled EXCEPT !.cancellation = FALSE]]
    BY <1>5 DEF InterruptSucceeds
  <2> HIDE DEF settled
  <2>3. /\ tasks'[t].status = settled.status
        /\ tasks'[t].permission = settled.permission
        /\ tasks'[t].cancellation = FALSE
    BY <1>m, <2>1, <2>2 DEF StoredTask
  <2>4. \A u \in Tasks : u # t => tasks'[u] = tasks[u]
    BY <1>m, <2>2
  <2>5. tasks[t].cancellation /\ interrupts[t] = 1
    BY <1>5 DEF InterruptSucceeds, IInv, SingleInterrupt
  <2>. QED
    BY <1>5, <2>1, <2>3, <2>4, <2>5
    DEF InterruptSucceeds, TypeOK, IInv, SingleStart, SingleTurn,
        SingleInterrupt, Attended, Prompting,
      Known, Running
<1>6. ASSUME NEW t \in Tasks, InterruptFails(t)
      PROVE  IInv'
  <2> DEFINE settled == IF Running(t) THEN ArmInactivityTimeout(tasks[t])
                                      ELSE tasks[t]
  <2>1. /\ settled \in StoredTask
        /\ settled.status = tasks[t].status
        /\ settled.permission = tasks[t].permission
        /\ Running(t) => settled.timer \/ settled.permission # NoPermission
    BY <1>m, TimerType, TimerFields DEF Running
  <2>2. tasks' = [tasks EXCEPT ![t] = [settled EXCEPT !.cancellation = FALSE]]
    BY <1>6 DEF InterruptFails
  <2> HIDE DEF settled
  <2>3. /\ tasks'[t].status = settled.status
        /\ tasks'[t].timer = settled.timer
        /\ tasks'[t].permission = settled.permission
        /\ tasks'[t].cancellation = FALSE
    BY <1>m, <2>1, <2>2 DEF StoredTask
  <2>4. \A u \in Tasks : u # t => tasks'[u] = tasks[u]
    BY <1>m, <2>2
  <2>5. tasks[t].cancellation /\ interrupts[t] = 1
    BY <1>6 DEF InterruptFails, IInv, SingleInterrupt
  <2>. QED
    BY <1>6, <2>1, <2>3, <2>4, <2>5
    DEF InterruptFails, TypeOK, IInv, SingleStart, SingleTurn,
        SingleInterrupt, Attended, Prompting,
      Known, Running
<1>7. ASSUME NEW t \in Tasks, InactivityTimeout(t)
      PROVE  IInv'
  <2>1. ClearInactivityTimeout(tasks[t]) \in StoredTask
    BY <1>m, TimerType
  <2>2. HasEnded(tasks'[t], tasks[t])
    BY <1>7, <1>m, <2>1, EndFields, TimerFields DEF InactivityTimeout, HasEnded
  <2>3. \A u \in Tasks : u # t => tasks'[u] = tasks[u]
    BY <1>7, <1>m DEF InactivityTimeout
  <2>. QED
    BY <1>7, <1>m, <2>2, <2>3, QuietStep
    DEF InactivityTimeout, runtime, HasEnded, Terminal, Known, Running
<1>8. ASSUME NEW t \in Tasks, Activity(t)
      PROVE  IInv'
  <2>1. ArmInactivityTimeout(tasks[t]) \in StoredTask
    BY <1>m, TimerType
  <2>2. /\ tasks'[t].status = tasks[t].status
        /\ tasks'[t].cancellation = tasks[t].cancellation
        /\ tasks'[t].timer \/ tasks'[t].permission # NoPermission
    BY <1>8, <1>m, <2>1, EmitFields, TimerFields DEF Activity, Running
  <2>3. \A u \in Tasks : u # t => tasks'[u] = tasks[u]
    BY <1>8, <1>m DEF Activity
  <2>. QED
    BY <1>8, <1>m, <2>2, <2>3, QuietStep
    DEF Activity, runtime, Known, Running
<1>9. ASSUME NEW t \in Tasks, Retrying(t)
      PROVE  IInv'
  <2>1. /\ tasks'[t].status = tasks[t].status
        /\ tasks'[t].cancellation = tasks[t].cancellation
        /\ tasks'[t].timer = tasks[t].timer
        /\ tasks'[t].permission = tasks[t].permission
    BY <1>9, <1>m, EmitFields DEF Retrying
  <2>2. \A u \in Tasks : u # t => tasks'[u] = tasks[u]
    BY <1>9, <1>m DEF Retrying
  <2>3. Attended(t)
    BY DEF IInv
  <2>. QED
    BY <1>9, <1>m, <2>1, <2>2, <2>3, QuietStep
    DEF Retrying, runtime, Attended, Prompting,
      Known, Running
<1>10. ASSUME NEW t \in Tasks, FinalMessage(t)
       PROVE  IInv'
  <2> DEFINE armed == ArmInactivityTimeout(tasks[t])
  <2>1. PICK final \in BOOLEAN : tasks' = [tasks EXCEPT
                                    ![t] = [armed EXCEPT !.final = final]]
    BY <1>10 DEF FinalMessage
  <2>2. /\ armed \in StoredTask
        /\ armed.status = tasks[t].status
        /\ armed.cancellation = tasks[t].cancellation
        /\ armed.timer \/ armed.permission # NoPermission
    BY <1>10, <1>m, TimerType, TimerFields DEF FinalMessage, Running
  <2> HIDE DEF armed
  <2>3. /\ tasks'[t].status = tasks[t].status
        /\ tasks'[t].cancellation = tasks[t].cancellation
        /\ tasks'[t].timer \/ tasks'[t].permission # NoPermission
    BY <1>m, <2>1, <2>2 DEF StoredTask
  <2>4. \A u \in Tasks : u # t => tasks'[u] = tasks[u]
    BY <1>m, <2>1
  <2>. QED
    BY <1>10, <1>m, <2>3, <2>4, QuietStep
    DEF FinalMessage, runtime, Known, Running
<1>11. ASSUME NEW t \in Tasks, TurnCompleted(t)
       PROVE  IInv'
  <2>1. PICK outcome \in {"completed", "interrupted", "failed"} :
          tasks' = [tasks EXCEPT
            ![t] = IF Running(t)
                   THEN CompleteTurn(ArmInactivityTimeout(tasks[t]), outcome)
                   ELSE tasks[t]]
    BY <1>11 DEF TurnCompleted
  <2>2. ArmInactivityTimeout(tasks[t]) \in StoredTask
    BY <1>m, TimerType
  <2>3. \/ tasks'[t] = tasks[t]
        \/ Known(t) /\ HasEnded(tasks'[t], tasks[t])
    BY <1>m, <2>1, <2>2, EndFields, TimerFields DEF HasEnded, Known, Running
  <2>4. \A u \in Tasks : u # t => tasks'[u] = tasks[u]
    BY <1>m, <2>1
  <2>. QED
    BY <1>11, <1>m, <2>3, <2>4, QuietStep
    DEF TurnCompleted, HasEnded, Terminal, Known, Running
<1>12. ASSUME NEW t \in Tasks, NEW p \in Permissions, NEW exact \in BOOLEAN,
              PresentPermission(p, t, exact)
       PROVE  IInv'
  <2>1. PICK u \in Candidates(t, exact) : tasks' = [tasks EXCEPT
          ![u] = Emit([ClearInactivityTimeout(tasks[u]) EXCEPT !.permission = p],
                      "permission-required", p)]
    BY <1>12 DEF PresentPermission
  <2> DEFINE asked == [ClearInactivityTimeout(tasks[u]) EXCEPT !.permission = p]
  <2>2. u \in Tasks /\ Running(u)
    BY DEF Candidates
  <2>3. ClearInactivityTimeout(tasks[u]) \in StoredTask
    BY <1>m, <2>2, TimerType
  <2>4. /\ asked \in StoredTask
        /\ asked.status = tasks[u].status
        /\ asked.cancellation = tasks[u].cancellation
        /\ asked.permission = p
    BY <1>m, <2>2, <2>3, FieldType, TimerFields DEF StoredTask
  <2>5. tasks'[u] = Emit(asked, "permission-required", p)
    BY <1>m, <2>1, <2>2
  <2> HIDE DEF asked
  <2>6. /\ tasks'[u].status = tasks[u].status
        /\ tasks'[u].cancellation = tasks[u].cancellation
        /\ tasks'[u].permission # NoPermission
    BY <2>4, <2>5, EmitFields, NoPermissionAssumption
  <2>7. \A v \in Tasks : v # u => tasks'[v] = tasks[v]
    BY <1>m, <2>1
  <2>. QED
    BY <1>12, <1>m, <2>2, <2>6, <2>7, QuietStep
    DEF PresentPermission, Known, Running
<1>13. ASSUME NEW t \in Tasks, NEW p \in Permissions, NEW exact \in BOOLEAN,
              DeclinePermission(p, t, exact)
       PROVE  IInv'
  BY <1>13, <1>m, QuietStep DEF DeclinePermission
<1>14. ASSUME NEW t \in Tasks, NEW p \in Permissions, NEW decision \in Decisions,
              ResolvePermission(t, p, decision)
       PROVE  IInv'
  BY <1>14, <1>m, QuietStep DEF ResolvePermission
<1>15. ASSUME NEW p \in Permissions, PermissionResolved(p)
       PROVE  IInv'
  <2>1. ASSUME NEW u \in Tasks, tasks'[u] # tasks[u]
        PROVE  /\ Known(u)
               /\ tasks'[u].status = "running"
               /\ tasks'[u].cancellation = tasks[u].cancellation
               /\ tasks'[u].timer
    <3> DEFINE freed == [tasks[u] EXCEPT !.permission = NoPermission]
               told == Emit(freed, "permission-resolved", p)
    <3>1. /\ freed \in StoredTask
          /\ freed.status = tasks[u].status
          /\ freed.cancellation = tasks[u].cancellation
          /\ freed.permission = NoPermission
      BY <1>m DEF StoredTask
    <3>2. tasks'[u] = ArmInactivityTimeout(told) /\ tasks[u].permission = p
      BY <1>15, <1>m, <2>1 DEF PermissionResolved, Holders
    <3> HIDE DEF freed
    <3>3. /\ told \in StoredTask
          /\ told.status = tasks[u].status
          /\ told.cancellation = tasks[u].cancellation
          /\ told.permission = NoPermission
      BY <3>1, EmitType, EmitFields
    <3> HIDE DEF told
    <3>4. Running(u)
      BY <3>2, NoPermissionAssumption DEF IInv, Prompting
    <3>. QED
      BY <3>2, <3>3, <3>4, TimerFields DEF Known, Running
  <2>. QED
    BY <1>15, <1>m, <2>1, QuietStep DEF PermissionResolved
<1>16. CASE RuntimeUnavailable
  BY <1>16, <1>m, QuietStep DEF RuntimeUnavailable
<1>17. CASE RuntimeFailed
  <2>1. \A u \in Tasks :
          \/ tasks'[u] = tasks[u]
          \/ Known(u) /\ HasEnded(tasks'[u], tasks[u])
    BY <1>17, <1>m, EndFields DEF RuntimeFailed, Known, Running
  <2>. QED
    BY <1>17, <1>m, <2>1, QuietStep DEF RuntimeFailed, HasEnded, Terminal
<1>18. CASE UNCHANGED vars
  BY <1>18 DEF vars, IInv, SingleStart, SingleTurn, SingleInterrupt, Attended, Prompting,
               Known, Running
<1>. QED
  BY <1>1, <1>2, <1>3, <1>4, <1>5, <1>6, <1>7, <1>8, <1>9, <1>10, <1>11,
     <1>12, <1>13, <1>14, <1>15, <1>16, <1>17, <1>18 DEF Next

LEMMA Invariance == Spec => [](TypeOK /\ IInv)
BY InitTypeOK, InitIInv, StepTypeOK, StepIInv, PTL DEF Spec

(* No running task is left unattended: the timer is armed, the user is     *)
(* asked, or an interrupt is on its way back.  The inductive invariant is  *)
(* needed for the last case: the counter of calls in flight tells that the *)
(* promise the task keeps is one that will still settle.                   *)
THEOREM NoTaskUnattended == Spec => []RunningIsWatched
<1>1. TypeOK /\ IInv => RunningIsWatched
  BY DEF TypeOK, IInv, SingleInterrupt, Attended, RunningIsWatched
<1>. QED
  BY <1>1, Invariance, PTL

(* However often a start is repeated, the runtime runs one turn for it.    *)
THEOREM NoSecondTurn == Spec => []OneTurnPerTask
<1>1. TypeOK /\ IInv => OneTurnPerTask
  <2> SUFFICES ASSUME IInv, NEW t \in Tasks
               PROVE  /\ turns[t] <= 1 /\ startCalls[t] <= 1
                      /\ interrupts[t] <= 1
                      /\ turns[t] = 1 <=> Known(t)
    BY DEF OneTurnPerTask
  <2>. QED
    BY DEF IInv, SingleStart, SingleTurn, SingleInterrupt, Known
<1>. QED
  BY <1>1, Invariance, PTL

-----------------------------------------------------------------------------
(* What the readers of a task see of each operation.                       *)

LEMMA SeenUpdate ==
  ASSUME NEW t \in Tasks, NEW stored, tasks \in [Tasks -> StoredTask],
         tasks' = [tasks EXCEPT ![t] = stored]
  PROVE  view' = [view EXCEPT ![t] = Seen(stored)]
BY DEF view

LEMMA SeenEmit ==
  ASSUME NEW task \in StoredTask, NEW type, NEW p
  PROVE  Seen(Emit(task, type, p)) =
           [status |-> task.status, permission |-> task.permission,
            events |-> Lifecycle!Logged(task.events, type, p)]
BY DEF Seen, Emit, StoredTask, Lifecycle!Logged

LEMMA SeenTimer ==
  ASSUME NEW task \in StoredTask
  PROVE  /\ Seen(ArmInactivityTimeout(task)) = Seen(task)
         /\ Seen(ClearInactivityTimeout(task)) = Seen(task)
         /\ \A b : Seen([task EXCEPT !.cancellation = b]) = Seen(task)
         /\ \A b : Seen([task EXCEPT !.final = b]) = Seen(task)
BY DEF Seen, ArmInactivityTimeout, ClearInactivityTimeout, StoredTask

LEMMA SeenEnd ==
  ASSUME NEW task \in StoredTask
  PROVE  /\ Seen(Fail(task)) = Lifecycle!Ended(Seen(task), "failed")
         /\ Seen(MarkCancelled(task)) = Lifecycle!Ended(Seen(task), "cancelled")
         /\ \A outcome : \E status \in Terminal :
              Seen(CompleteTurn(task, outcome)) =
                Lifecycle!Ended(Seen(task), status)
<1>1. \A status \in Terminal :
        Seen(Emit([task EXCEPT !.status = status, !.permission = NoPermission,
                               !.timer = FALSE], status, NoPermission))
          = Lifecycle!Ended(Seen(task), status)
  BY DEF Seen, Emit, StoredTask, Lifecycle!Ended, Lifecycle!Logged
<1>2. Seen(Fail(task)) = Lifecycle!Ended(Seen(task), "failed")
  BY <1>1 DEF Fail, Terminal
<1>3. Seen(MarkCancelled(task)) = Lifecycle!Ended(Seen(task), "cancelled")
  BY <1>1 DEF MarkCancelled, Terminal
<1>4. Seen(Emit([task EXCEPT !.status = "completed",
                             !.permission = NoPermission,
                             !.timer = FALSE], "completed", NoPermission))
        = Lifecycle!Ended(Seen(task), "completed")
  BY <1>1 DEF Terminal
<1>5. \A outcome : \E status \in Terminal :
        Seen(CompleteTurn(task, outcome)) = Lifecycle!Ended(Seen(task), status)
  BY <1>2, <1>3, <1>4 DEF CompleteTurn, Terminal
<1>. QED
  BY <1>2, <1>3, <1>5

LEMMA SeenReport ==
  ASSUME NEW task \in StoredTask
  PROVE  Seen(Emit(task, "progress", NoPermission))
           = Lifecycle!Reported(Seen(task))
BY SeenEmit DEF Lifecycle!Reported, Lifecycle!Continued, Seen

LEMMA SeenPrompt ==
  ASSUME NEW task \in StoredTask,
         NEW pending \in Permissions \union {NoPermission}, NEW type, NEW p
  PROVE  Seen(Emit([task EXCEPT !.permission = pending], type, p))
           = Lifecycle!Continued(Seen(task), pending, type, p)
<1> DEFINE asked == [task EXCEPT !.permission = pending]
<1>1. /\ asked \in StoredTask
      /\ asked.status = task.status
      /\ asked.permission = pending
      /\ asked.events = task.events
  BY FieldType DEF StoredTask
<1> HIDE DEF asked
<1>2. Seen(Emit(asked, type, p)) =
        [status |-> task.status, permission |-> pending,
         events |-> Lifecycle!Logged(task.events, type, p)]
  BY <1>1, SeenEmit
<1>3. Seen(task).status = task.status /\ Seen(task).events = task.events
  BY DEF Seen
<1>4. Seen(Emit(asked, type, p))
        = Lifecycle!Continued(Seen(task), pending, type, p)
  BY <1>2, <1>3 DEF Lifecycle!Continued
<1>. QED
  BY <1>4 DEF asked

LEMMA SeenNewTask ==
  ASSUME NEW thread \in Tasks \union {NoTask}
  PROVE  Seen(NewTask(thread)) = Lifecycle!Begun
<1> DEFINE blank == [status |-> "running", thread |-> thread, final |-> FALSE,
                     permission |-> NoPermission, timer |-> FALSE,
                     cancellation |-> FALSE, events |-> <<>>]
           first == Emit(blank, "progress", NoPermission)
<1>1. blank \in StoredTask
  BY DEF StoredTask, Statuses
<1>2. first \in StoredTask
  BY <1>1, EmitType
<1>3. Seen(first) = Lifecycle!Begun
  BY <1>1, SeenEmit DEF Lifecycle!Begun
<1>4. NewTask(thread) = ArmInactivityTimeout(first)
  BY DEF NewTask
<1> HIDE DEF first
<1>. QED
  BY <1>2, <1>3, <1>4, SeenTimer

-----------------------------------------------------------------------------
(* Every step is a step of TaskLifecycle or leaves the view alone.  The    *)
(* abstract Ask shows a permission no log mentions yet; the task manager   *)
(* knows this from the runtime, whose request was not yet asked.           *)

AskedStep(t, p) ==
  /\ Running(t) /\ tasks[t].permission = NoPermission
  /\ Len(tasks[t].events) < MaxEvents
  /\ requests[p].state = "unasked" /\ requests'[p].state # "unasked"
  /\ view' = [view EXCEPT ![t] = Lifecycle!Prompted(@, p)]

ViewStep ==
  \/ UNCHANGED view
  \/ \E t \in Tasks :
       \/ Lifecycle!Begin(t) \/ Lifecycle!Report(t) \/ Lifecycle!Answer(t)
       \/ \E p \in Permissions : AskedStep(t, p)
       \/ \E status \in Terminal : Lifecycle!End(t, status)
  \/ Lifecycle!EndAll

LEMMA StepSeen == TypeOK /\ IInv /\ [Next]_vars => ViewStep
<1> SUFFICES ASSUME TypeOK, IInv, [Next]_vars
             PROVE  ViewStep
  OBVIOUS
<1>m. tasks \in [Tasks -> StoredTask]
  BY DEF TypeOK
<1>v. \A t \in Tasks : view[t] = Seen(tasks[t])
  BY DEF view
<1>s. \A t \in Tasks : /\ view[t].status = tasks[t].status
                     /\ view[t].permission = tasks[t].permission
                     /\ view[t].events = tasks[t].events
  BY DEF view, Seen
<1>1. ASSUME NEW t \in Tasks, Start(t) \/ StartFails(t)
      PROVE  ViewStep
  BY <1>1 DEF Start, StartFails, ViewStep, view
<1>2. ASSUME NEW t \in Tasks, StartSucceeds(t)
      PROVE  ViewStep
  <2>1. PICK thread \in {t} \union {tasks[u].thread : u \in {v \in Tasks : Known(v)}} :
          tasks' = [tasks EXCEPT ![t] = NewTask(thread)]
    BY <1>2 DEF StartSucceeds
  <2>2. thread \in Tasks \union {NoTask}
    BY <1>m DEF StoredTask
  <2>3. view' = [view EXCEPT ![t] = Lifecycle!Begun]
    BY <1>m, <2>1, <2>2, SeenUpdate, SeenNewTask
  <2>4. ~ Known(t)
    <3>1. startCalls[t] > 0 /\ SingleStart(t)
      BY <1>2 DEF StartSucceeds, IInv
    <3>. QED
      BY <3>1 DEF SingleStart
  <2>5. view[t].status = "absent"
    BY <2>4, <1>s DEF Known
  <2>. QED
    BY <2>3, <2>5 DEF ViewStep, Lifecycle!Begin
<1>4. ASSUME NEW t \in Tasks, Cancel(t)
      PROVE  ViewStep
  <2>1. ClearInactivityTimeout(tasks[t]) \in StoredTask
    BY <1>m, TimerType
  <2>2. Seen([ClearInactivityTimeout(tasks[t]) EXCEPT !.cancellation = TRUE])
          = Seen(tasks[t])
    BY <1>m, <2>1, SeenTimer
  <2>3. UNCHANGED view
    BY <1>4, <1>m, <2>2, SeenUpdate DEF Cancel, view
  <2>. QED
    BY <2>3 DEF ViewStep
<1>5. ASSUME NEW t \in Tasks, InterruptSucceeds(t)
      PROVE  ViewStep
  <2>1. CASE Running(t)
    <3>1. MarkCancelled(tasks[t]) \in StoredTask
      BY <1>m, EndType
    <3>2. tasks' = [tasks EXCEPT
            ![t] = [MarkCancelled(tasks[t]) EXCEPT !.cancellation = FALSE]]
      BY <1>5, <2>1 DEF InterruptSucceeds
    <3> DEFINE ended == [MarkCancelled(tasks[t]) EXCEPT !.cancellation = FALSE]
    <3>5. Seen(ended) = Lifecycle!Ended(view[t], "cancelled")
      BY <1>m, <1>v, <3>1, SeenTimer, SeenEnd
    <3>6. tasks' = [tasks EXCEPT ![t] = ended]
      BY <3>2
    <3> HIDE DEF ended
    <3>3. view' = [view EXCEPT ![t] = Lifecycle!Ended(view[t], "cancelled")]
      BY <1>m, <3>5, <3>6, SeenUpdate
    <3>4. Lifecycle!End(t, "cancelled")
      BY <1>s, <2>1, <3>3 DEF Lifecycle!End, Running
    <3>. QED
      BY <3>4 DEF ViewStep, Terminal
  <2>2. CASE ~ Running(t)
    <3>1. tasks' = [tasks EXCEPT ![t] = [tasks[t] EXCEPT !.cancellation = FALSE]]
      BY <1>5, <2>2 DEF InterruptSucceeds
    <3>2. UNCHANGED view
      BY <1>m, <3>1, SeenUpdate, SeenTimer DEF view
    <3>. QED
      BY <3>2 DEF ViewStep
  <2>. QED
    BY <2>1, <2>2
<1>6. ASSUME NEW t \in Tasks, InterruptFails(t)
      PROVE  ViewStep
  <2> DEFINE settled == IF Running(t) THEN ArmInactivityTimeout(tasks[t])
                                      ELSE tasks[t]
  <2>1. settled \in StoredTask /\ Seen(settled) = Seen(tasks[t])
    BY <1>m, TimerType, SeenTimer
  <2>2. tasks' = [tasks EXCEPT ![t] = [settled EXCEPT !.cancellation = FALSE]]
    BY <1>6 DEF InterruptFails
  <2> HIDE DEF settled
  <2>3. UNCHANGED view
    BY <1>m, <2>1, <2>2, SeenUpdate, SeenTimer DEF view
  <2>. QED
    BY <2>3 DEF ViewStep
<1>7. ASSUME NEW t \in Tasks, InactivityTimeout(t)
      PROVE  ViewStep
  <2>1. ClearInactivityTimeout(tasks[t]) \in StoredTask
    BY <1>m, TimerType
  <2> DEFINE ended == Fail(ClearInactivityTimeout(tasks[t]))
  <2>2. Seen(ended) = Lifecycle!Ended(view[t], "failed")
    BY <1>m, <1>v, <2>1, SeenTimer, SeenEnd
  <2>3. tasks' = [tasks EXCEPT ![t] = ended] /\ Running(t)
    BY <1>7 DEF InactivityTimeout
  <2> HIDE DEF ended
  <2>4. view' = [view EXCEPT ![t] = Lifecycle!Ended(view[t], "failed")]
    BY <1>m, <2>2, <2>3, SeenUpdate
  <2>5. Lifecycle!End(t, "failed")
    BY <1>s, <2>3, <2>4 DEF Lifecycle!End, Running
  <2>. QED
    BY <2>5 DEF ViewStep, Terminal
<1>8. ASSUME NEW t \in Tasks, Activity(t) \/ Retrying(t)
      PROVE  ViewStep
  <2>1. PICK task \in StoredTask :
          /\ tasks' = [tasks EXCEPT ![t] = Emit(task, "progress", NoPermission)]
          /\ Seen(task) = Seen(tasks[t])
    BY <1>8, <1>m, TimerType, SeenTimer DEF Activity, Retrying
  <2> DEFINE told == Emit(task, "progress", NoPermission)
  <2>2. Seen(told) = Lifecycle!Reported(view[t])
    BY <1>v, <2>1, SeenReport
  <2>6. tasks' = [tasks EXCEPT ![t] = told]
    BY <2>1
  <2> HIDE DEF told
  <2>3. view' = [view EXCEPT ![t] = Lifecycle!Reported(@)]
    BY <1>m, <2>2, <2>6, SeenUpdate
  <2>4. Running(t) /\ Len(tasks[t].events) < MaxEvents
    BY <1>8 DEF Activity, Retrying
  <2>5. Lifecycle!Report(t)
    BY <1>s, <2>3, <2>4 DEF Running, Lifecycle!Report
  <2>. QED
    BY <2>5 DEF ViewStep
<1>10. ASSUME NEW t \in Tasks, FinalMessage(t)
       PROVE  ViewStep
  <2>1. PICK final \in BOOLEAN : tasks' = [tasks EXCEPT
          ![t] = [ArmInactivityTimeout(tasks[t]) EXCEPT !.final = final]]
    BY <1>10 DEF FinalMessage
  <2>2. ArmInactivityTimeout(tasks[t]) \in StoredTask
    BY <1>m, TimerType
  <2>3. UNCHANGED view
    BY <1>m, <2>1, <2>2, SeenUpdate, SeenTimer DEF view
  <2>. QED
    BY <2>3 DEF ViewStep
<1>11. ASSUME NEW t \in Tasks, TurnCompleted(t)
       PROVE  ViewStep
  <2>1. PICK outcome \in {"completed", "interrupted", "failed"} :
          tasks' = [tasks EXCEPT
            ![t] = IF Running(t)
                   THEN CompleteTurn(ArmInactivityTimeout(tasks[t]), outcome)
                   ELSE tasks[t]]
    BY <1>11 DEF TurnCompleted
  <2>2. CASE Running(t)
    <3>1. ArmInactivityTimeout(tasks[t]) \in StoredTask
      BY <1>m, TimerType
    <3>2. PICK status \in Terminal :
            Seen(CompleteTurn(ArmInactivityTimeout(tasks[t]), outcome))
              = Lifecycle!Ended(Seen(tasks[t]), status)
      BY <1>m, <3>1, SeenEnd, SeenTimer
    <3> DEFINE ended == CompleteTurn(ArmInactivityTimeout(tasks[t]), outcome)
    <3>3. tasks' = [tasks EXCEPT ![t] = ended]
      BY <2>1, <2>2
    <3>4. Seen(ended) = Lifecycle!Ended(view[t], status)
      BY <3>2, <1>v
    <3> HIDE DEF ended
    <3>5. view' = [view EXCEPT ![t] = Lifecycle!Ended(view[t], status)]
      BY <1>m, <3>3, <3>4, SeenUpdate
    <3>6. Lifecycle!End(t, status)
      BY <1>s, <2>2, <3>5 DEF Lifecycle!End, Running
    <3>. QED
      BY <3>6 DEF ViewStep
  <2>3. CASE ~ Running(t)
    BY <1>m, <2>1, <2>3 DEF ViewStep, view
  <2>. QED
    BY <2>2, <2>3
<1>12. ASSUME NEW t \in Tasks, NEW p \in Permissions, NEW exact \in BOOLEAN,
              PresentPermission(p, t, exact)
       PROVE  ViewStep
  <2>1. PICK u \in Candidates(t, exact) :
          /\ tasks[u].permission = NoPermission
          /\ Len(tasks[u].events) < MaxEvents
          /\ tasks' = [tasks EXCEPT
               ![u] = Emit([ClearInactivityTimeout(tasks[u])
                              EXCEPT !.permission = p],
                           "permission-required", p)]
    BY <1>12 DEF PresentPermission
  <2> DEFINE waiting == ClearInactivityTimeout(tasks[u])
             told == Emit([waiting EXCEPT !.permission = p],
                          "permission-required", p)
  <2>2. u \in Tasks /\ Running(u)
    BY DEF Candidates
  <2>3. waiting \in StoredTask /\ Seen(waiting) = view[u]
    BY <1>m, <1>v, <2>2, TimerType, SeenTimer
  <2>4. tasks' = [tasks EXCEPT ![u] = told]
    BY <2>1
  <2> HIDE DEF waiting
  <2>5. Seen(told) = Lifecycle!Prompted(view[u], p)
    BY <2>3, SeenPrompt DEF Lifecycle!Prompted
  <2> HIDE DEF told
  <2>6. view' = [view EXCEPT ![u] = Lifecycle!Prompted(@, p)]
    BY <1>m, <2>2, <2>4, <2>5, SeenUpdate
  <2>7. requests[p].state = "unasked" /\ requests'[p].state # "unasked"
    BY <1>12 DEF PresentPermission, Asked, TypeOK
  <2>. QED
    BY <2>1, <2>2, <2>6, <2>7 DEF ViewStep, AskedStep
<1>13. ASSUME NEW t \in Tasks, NEW p \in Permissions, NEW exact \in BOOLEAN,
              DeclinePermission(p, t, exact)
       PROVE  ViewStep
  BY <1>13 DEF DeclinePermission, ViewStep, view
<1>14. ASSUME NEW t \in Tasks, NEW p \in Permissions, NEW decision \in Decisions,
              ResolvePermission(t, p, decision)
       PROVE  ViewStep
  BY <1>14 DEF ResolvePermission, ViewStep, view
<1>15. ASSUME NEW p \in Permissions, PermissionResolved(p)
       PROVE  ViewStep
  <2>1. CASE UNCHANGED tasks
    BY <2>1 DEF ViewStep, view
  <2>2. CASE ~ UNCHANGED tasks
    <3>1. PICK u \in Holders(p) : tasks' = [tasks EXCEPT
            ![u] = ArmInactivityTimeout(
                     Emit([tasks[u] EXCEPT !.permission = NoPermission],
                          "permission-resolved", p))]
      BY <1>15, <2>2 DEF PermissionResolved
    <3>2. u \in Tasks /\ tasks[u].permission = p
      BY DEF Holders
    <3> DEFINE freed == Emit([tasks[u] EXCEPT !.permission = NoPermission],
                             "permission-resolved", p)
               stored == ArmInactivityTimeout(freed)
    <3>3. freed \in StoredTask
      BY <1>m, <3>2, FieldType, EmitType
    <3>4. tasks' = [tasks EXCEPT ![u] = stored]
      BY <3>1
    <3>5. Seen(freed) = Lifecycle!Answered(view[u])
      BY <1>m, <1>v, <1>s, <3>2, SeenPrompt DEF Lifecycle!Answered
    <3> HIDE DEF freed
    <3>6. Seen(stored) = Lifecycle!Answered(view[u])
      BY <3>3, <3>5, SeenTimer
    <3> HIDE DEF stored
    <3>7. view' = [view EXCEPT ![u] = Lifecycle!Answered(@)]
      BY <1>m, <3>2, <3>4, <3>6, SeenUpdate
    <3>8. Running(u)
      BY <3>2, NoPermissionAssumption DEF IInv, Prompting
    <3>9. Lifecycle!Answer(u)
      BY <1>s, <3>2, <3>7, <3>8, NoPermissionAssumption
      DEF Lifecycle!Answer, Running
    <3>. QED
      BY <3>2, <3>9 DEF ViewStep
  <2>. QED
    BY <2>1, <2>2
<1>16. CASE RuntimeUnavailable
  BY <1>16 DEF RuntimeUnavailable, ViewStep, view
<1>17. CASE RuntimeFailed
  <2>1. tasks' = [t \in Tasks |-> IF Running(t) THEN Fail(tasks[t])
                                  ELSE tasks[t]]
    BY <1>17 DEF RuntimeFailed
  <2>2. view' = [t \in Tasks |-> IF Running(t) THEN Seen(Fail(tasks[t]))
                                 ELSE Seen(tasks[t])]
    BY <2>1 DEF view
  <2>3. \A t \in Tasks : Seen(Fail(tasks[t])) = Lifecycle!Ended(view[t], "failed")
    BY <1>m, <1>v, SeenEnd
  <2>4. \A t \in Tasks : view[t].status = "running" <=> Running(t)
    BY <1>s DEF Running
  <2>5. view' = [t \in Tasks |-> IF view[t].status = "running"
                                 THEN Lifecycle!Ended(view[t], "failed")
                                 ELSE view[t]]
    BY <1>v, <2>2, <2>3, <2>4
  <2>. QED
    BY <2>5 DEF ViewStep, Lifecycle!EndAll
<1>18. CASE UNCHANGED vars
  BY <1>18 DEF vars, ViewStep, view
<1>. QED
  BY <1>1, <1>2, <1>4, <1>5, <1>6, <1>7, <1>8, <1>10, <1>11, <1>12, <1>13,
     <1>14, <1>15, <1>16, <1>17, <1>18 DEF Next

-----------------------------------------------------------------------------
(* A request the runtime has not made yet is in no log and on no screen.   *)

NothingUnasked ==
  \A t \in Tasks : \A p \in Permissions :
    Lifecycle!Mentions(view[t].events, p) \/ view[t].permission = p
      => requests[p].state # "unasked"

LEMMA ViewType == TypeOK => view \in [Tasks -> Lifecycle!TaskView]
BY DEF TypeOK, view, Seen, StoredTask, Statuses, Terminal, Event,
       Lifecycle!TaskView, Lifecycle!Statuses, Lifecycle!Terminal,
       Lifecycle!Event

LEMMA MentionsLogged ==
  ASSUME NEW log \in Seq(Lifecycle!Event), NEW type, NEW q, NEW p
  PROVE  Lifecycle!Mentions(Lifecycle!Logged(log, type, q), p)
           => Lifecycle!Mentions(log, p) \/ p = q
<1> DEFINE longer == Lifecycle!Logged(log, type, q)
<1>1. /\ Len(longer) = Len(log) + 1
      /\ Len(log) \in Nat
      /\ \A i \in 1 .. Len(log) : longer[i] = log[i]
      /\ longer[Len(log) + 1] = [type |-> type, permission |-> q]
  BY DEF Lifecycle!Logged
<1> HIDE DEF longer
<1>2. \A i \in 1 .. Len(longer) : i \in 1 .. Len(log) \/ i = Len(log) + 1
  BY <1>1
<1>3. Lifecycle!Mentions(longer, p) => Lifecycle!Mentions(log, p) \/ p = q
  BY <1>1, <1>2 DEF Lifecycle!Mentions
<1>. QED
  BY <1>3 DEF longer

LEMMA StepAsked ==
  TypeOK /\ [Next]_vars =>
    \A p \in Permissions :
      requests[p].state # "unasked" => requests'[p].state # "unasked"
<1> SUFFICES ASSUME TypeOK, [Next]_vars, NEW p \in Permissions,
                    requests[p].state # "unasked"
             PROVE  requests'[p].state # "unasked"
  OBVIOUS
<1>1. requests \in [Permissions -> Request]
  BY DEF TypeOK
<1>2. ASSUME NEW t \in Tasks, NEW q \in Permissions, NEW exact \in BOOLEAN,
             PresentPermission(q, t, exact) \/ DeclinePermission(q, t, exact)
      PROVE  requests'[p].state # "unasked"
  BY <1>1, <1>2 DEF PresentPermission, DeclinePermission, Asked
<1>3. ASSUME NEW t \in Tasks, NEW q \in Permissions, NEW decision \in Decisions,
             ResolvePermission(t, q, decision)
      PROVE  requests'[p].state # "unasked"
  BY <1>1, <1>3 DEF ResolvePermission, Request, Decisions
<1>4. ASSUME NEW q \in Permissions, PermissionResolved(q)
      PROVE  requests'[p].state # "unasked"
  BY <1>1, <1>4 DEF PermissionResolved, Request
<1>5. CASE RuntimeFailed
  BY <1>1, <1>5 DEF RuntimeFailed, Request
<1>6. CASE UNCHANGED requests
  BY <1>6
<1>. QED
  BY <1>2, <1>3, <1>4, <1>5, <1>6 DEF Next, vars, runtime, Start, StartSucceeds,
     StartFails, Cancel, InterruptSucceeds, InterruptFails, InactivityTimeout,
     Activity, Retrying, FinalMessage, TurnCompleted, RuntimeUnavailable

LEMMA InitNothingUnasked == Init => NothingUnasked
<1> SUFFICES ASSUME Init, NEW t \in Tasks, NEW p \in Permissions
             PROVE  /\ ~ Lifecycle!Mentions(view[t].events, p)
                    /\ view[t].permission # p
  BY DEF NothingUnasked
<1>1. tasks[t].events = <<>> /\ tasks[t].permission = NoPermission
  BY DEF Init
<1>2. view[t].events = <<>> /\ view[t].permission = NoPermission
  BY <1>1 DEF view, Seen
<1>. QED
  BY <1>2, NoPermissionAssumption DEF Lifecycle!Mentions

LEMMA StepNothingUnasked ==
  TypeOK /\ IInv /\ NothingUnasked /\ [Next]_vars => NothingUnasked'
<1> SUFFICES ASSUME TypeOK, IInv, NothingUnasked, [Next]_vars,
                    NEW u \in Tasks, NEW p \in Permissions,
                    \/ Lifecycle!Mentions(view'[u].events, p)
                    \/ view'[u].permission = p
             PROVE  requests'[p].state # "unasked"
  BY DEF NothingUnasked
<1>1. view \in [Tasks -> Lifecycle!TaskView]
  BY ViewType
<1>2. requests[p].state # "unasked" => requests'[p].state # "unasked"
  BY StepAsked
<1>3. SUFFICES \/ requests[p].state # "unasked"
               \/ requests'[p].state # "unasked"
  BY <1>2
<1> DEFINE Told(v) == Lifecycle!Mentions(v.events, p) \/ v.permission = p
<1>4. Told(view[u]) => requests[p].state # "unasked"
  BY DEF NothingUnasked
<1>5. Told(view'[u])
  OBVIOUS
<1>6. view[u].events \in Seq(Lifecycle!Event)
  BY <1>1 DEF Lifecycle!TaskView
<1>7. ~ Lifecycle!Mentions(<<>>, p)
  BY DEF Lifecycle!Mentions
<1>8. p # NoPermission
  BY NoPermissionAssumption
<1>9. \A pending, type, q :
        Told(Lifecycle!Continued(view[u], pending, type, q))
          => Told(view[u]) \/ p = pending \/ p = q
  BY <1>6, MentionsLogged DEF Lifecycle!Continued
<1>10. \A status : Told(Lifecycle!Ended(view[u], status)) => Told(view[u])
  BY <1>6, <1>8, MentionsLogged DEF Lifecycle!Ended
<1>11. ~ Told(Lifecycle!Begun)
  <2>1. ~ Lifecycle!Mentions(
            Lifecycle!Logged(<<>>, "progress", NoPermission), p)
    <3>1. <<>> \in Seq(Lifecycle!Event)
      OBVIOUS
    <3>. QED
      BY <3>1, <1>7, <1>8, MentionsLogged
  <2>. QED
    BY <2>1, <1>8 DEF Lifecycle!Begun
<1> HIDE DEF Told
<1>12. ViewStep
  BY StepSeen
<1>13. CASE UNCHANGED view
  BY <1>4, <1>5, <1>13
<1>14. ASSUME NEW t \in Tasks, Lifecycle!Begin(t)
       PROVE  requests[p].state # "unasked"
  <2>1. view'[u] = view[u] \/ view'[u] = Lifecycle!Begun
    BY <1>1, <1>14 DEF Lifecycle!Begin
  <2>. QED
    BY <1>4, <1>5, <1>11, <2>1
<1>15. ASSUME NEW t \in Tasks, Lifecycle!Report(t)
       PROVE  requests[p].state # "unasked"
  <2>1. view'[u] = view[u] \/ view'[u] = Lifecycle!Reported(view[u])
    BY <1>1, <1>15 DEF Lifecycle!Report
  <2>2. view[u].permission = p => Told(view[u])
    BY DEF Told
  <2>. QED
    BY <1>4, <1>5, <1>8, <1>9, <2>1, <2>2 DEF Lifecycle!Reported
<1>16. ASSUME NEW t \in Tasks, Lifecycle!Answer(t)
       PROVE  requests[p].state # "unasked"
  <2>1. view'[u] = view[u] \/ view'[u] = Lifecycle!Answered(view[u])
    BY <1>1, <1>16 DEF Lifecycle!Answer
  <2>2. view[u].permission = p => Told(view[u])
    BY DEF Told
  <2>. QED
    BY <1>4, <1>5, <1>8, <1>9, <2>1, <2>2 DEF Lifecycle!Answered
<1>17. ASSUME NEW t \in Tasks, NEW q \in Permissions, AskedStep(t, q)
       PROVE  requests[p].state # "unasked" \/ requests'[p].state # "unasked"
  <2>1. view'[u] = view[u] \/ view'[u] = Lifecycle!Prompted(view[u], q)
    BY <1>1, <1>17 DEF AskedStep
  <2>2. Told(view[u]) \/ p = q
    BY <1>5, <1>9, <2>1 DEF Lifecycle!Prompted
  <2>. QED
    BY <1>4, <1>17, <2>2 DEF AskedStep
<1>18. ASSUME NEW t \in Tasks, NEW status \in Terminal, Lifecycle!End(t, status)
       PROVE  requests[p].state # "unasked"
  <2>1. view'[u] = view[u] \/ view'[u] = Lifecycle!Ended(view[u], status)
    BY <1>1, <1>18 DEF Lifecycle!End
  <2>. QED
    BY <1>4, <1>5, <1>10, <2>1
<1>19. CASE Lifecycle!EndAll
  <2>1. view'[u] = view[u] \/ view'[u] = Lifecycle!Ended(view[u], "failed")
    BY <1>19 DEF Lifecycle!EndAll
  <2>. QED
    BY <1>4, <1>5, <1>10, <2>1
<1>. QED
  BY <1>12, <1>13, <1>14, <1>15, <1>16, <1>17, <1>18, <1>19 DEF ViewStep

-----------------------------------------------------------------------------

LEMMA RefineInit == Init => Lifecycle!Init
BY DEF Init, view, Seen, Lifecycle!Init

LEMMA RefineStep ==
  TypeOK /\ IInv /\ NothingUnasked /\ [Next]_vars => [Lifecycle!Next]_view
<1> SUFFICES ASSUME TypeOK, IInv, NothingUnasked, [Next]_vars
             PROVE  Lifecycle!Next \/ UNCHANGED view
  OBVIOUS
<1>1. ViewStep
  BY StepSeen
<1>2. ASSUME NEW t \in Tasks, NEW p \in Permissions, AskedStep(t, p)
      PROVE  Lifecycle!Ask(t, p)
  <2>1. \A u \in Tasks : ~ Lifecycle!Mentions(view[u].events, p)
    BY <1>2 DEF AskedStep, NothingUnasked
  <2>2. /\ view[t].status = tasks[t].status
        /\ view[t].permission = tasks[t].permission
        /\ view[t].events = tasks[t].events
    BY DEF view, Seen
  <2>. QED
    BY <1>2, <2>1, <2>2 DEF AskedStep, Running, Lifecycle!Ask
<1>. QED
  BY <1>1, <1>2 DEF ViewStep, Lifecycle!Next, Terminal, Lifecycle!Terminal

(* The task manager implements the life of a task that TaskLifecycle       *)
(* states: whatever the callers, the runtime and the timers do, a reader   *)
(* of a task sees it begin once, ask for permissions no log has shown      *)
(* before, one at a time, and end once, by a last event that says how.     *)
THEOREM Implements == Spec => LifecycleSpec
<1>1. TypeOK /\ IInv /\ NothingUnasked /\ [Next]_vars
        => /\ TypeOK' /\ IInv' /\ NothingUnasked'
           /\ [Lifecycle!Next]_view
  BY StepTypeOK, StepIInv, StepNothingUnasked, RefineStep
<1>2. Init => TypeOK /\ IInv /\ NothingUnasked /\ Lifecycle!Init
  BY InitTypeOK, InitIInv, InitNothingUnasked, RefineInit
<1>. QED
  BY <1>1, <1>2, PTL DEF Spec, LifecycleSpec, Lifecycle!Spec

-----------------------------------------------------------------------------

FinalStep ==
  \A t \in Tasks : tasks[t].status \in Terminal =>
    /\ tasks'[t].status = tasks[t].status
    /\ tasks'[t].events = tasks[t].events

LEMMA StepFinal == TypeOK /\ IInv /\ [Next]_vars => FinalStep
<1> SUFFICES ASSUME TypeOK, IInv, [Next]_vars,
                    NEW u \in Tasks, tasks[u].status \in Terminal
             PROVE  /\ tasks'[u].status = tasks[u].status
                    /\ tasks'[u].events = tasks[u].events
  BY DEF FinalStep
<1>1. /\ view[u].status = tasks[u].status /\ view[u].events = tasks[u].events
      /\ view'[u].status = tasks'[u].status /\ view'[u].events = tasks'[u].events
  BY DEF view, Seen
<1>2. view[u].status # "running" /\ view[u].status # "absent"
  BY <1>1 DEF Terminal
<1>3. ViewStep
  BY StepSeen
<1>4. SUFFICES view'[u] = view[u]
  BY <1>1
<1>5. CASE UNCHANGED view
  BY <1>5
<1>6. ASSUME NEW t \in Tasks,
             \/ Lifecycle!Begin(t) \/ Lifecycle!Report(t) \/ Lifecycle!Answer(t)
             \/ \E status \in Terminal : Lifecycle!End(t, status)
      PROVE  view'[u] = view[u]
  BY <1>2, <1>6 DEF Lifecycle!Begin, Lifecycle!Report, Lifecycle!Answer,
     Lifecycle!End, view
<1>7. ASSUME NEW t \in Tasks, NEW p \in Permissions, AskedStep(t, p)
      PROVE  view'[u] = view[u]
  BY <1>1, <1>2, <1>7 DEF AskedStep, Running, view
<1>8. CASE Lifecycle!EndAll
  BY <1>2, <1>8 DEF Lifecycle!EndAll
<1>. QED
  BY <1>3, <1>5, <1>6, <1>7, <1>8 DEF ViewStep

(* The end of a task is final: no callback that is still on its way when   *)
(* the task ends - an event, an interrupt's answer, the timer, the failure *)
(* of the runtime - changes its outcome or its log.                        *)
THEOREM EndStays == Spec => EndIsFinal
<1>1. TypeOK /\ IInv /\ [Next]_vars => TypeOK' /\ IInv' /\ FinalStep
  BY StepTypeOK, StepIInv, StepFinal
<1>2. Init => TypeOK /\ IInv
  BY InitTypeOK, InitIInv
<1>3. FinalStep <=> (\A t \in Tasks : tasks[t].status \in Terminal =>
                       /\ tasks'[t].status = tasks[t].status
                       /\ tasks'[t].events = tasks[t].events)
  BY DEF FinalStep
<1>. QED
  BY <1>1, <1>2, <1>3, PTL DEF Spec, EndIsFinal

-----------------------------------------------------------------------------
(* Requests for a permission.  A request that was made names a task, and   *)
(* tasks stay.                                                             *)

AskedTurnsAreKnown ==
  \A p \in Permissions : requests[p].state # "unasked" =>
    requests[p].turn \in Tasks /\ Known(requests[p].turn)

ShownInv == AskedTurnsAreKnown /\ OpenRequestIsShown

LEMMA StepKnown ==
  ASSUME TypeOK, IInv, [Next]_vars, NEW u \in Tasks, Known(u)
  PROVE  Known(u)'
<1>1. view'[u].status = tasks'[u].status /\ view[u].status = tasks[u].status
  BY DEF view, Seen
<1>2. view \in [Tasks -> Lifecycle!TaskView]
  BY ViewType
<1>3. \/ view'[u] = view[u] \/ view'[u].status = "running"
      \/ view'[u].status = view[u].status \/ view'[u].status \in Terminal
  BY <1>2, StepSeen
  DEF ViewStep, AskedStep, Lifecycle!Begin, Lifecycle!Report, Lifecycle!Answer,
      Lifecycle!End, Lifecycle!EndAll, Lifecycle!Begun, Lifecycle!Reported,
      Lifecycle!Answered, Lifecycle!Prompted, Lifecycle!Continued, Lifecycle!Ended,
      Terminal
<1>. QED
  BY <1>1, <1>3 DEF Known, Terminal

\* A step that makes no request and shows none preserves ShownInv if the
\* screen of every turn that lives on is what it was.
LEMMA QuietScreens ==
  ASSUME TypeOK, ShownInv, UNCHANGED requests,
         health' = "healthy" => health = "healthy",
         \A u \in Tasks : Known(u) =>
           /\ Known(u)'
           /\ u \in liveTurns' => /\ u \in liveTurns
                                  /\ tasks'[u].permission = tasks[u].permission
  PROVE  ShownInv'
BY DEF ShownInv, AskedTurnsAreKnown, OpenRequestIsShown, TypeOK, Request

LEMMA InitShownInv == Init => ShownInv
BY DEF Init, ShownInv, AskedTurnsAreKnown, OpenRequestIsShown

LEMMA StepShownInv == TypeOK /\ IInv /\ ShownInv /\ [Next]_vars => ShownInv'
<1> SUFFICES ASSUME TypeOK, IInv, ShownInv, [Next]_vars
             PROVE  ShownInv'
  OBVIOUS
<1>m. tasks \in [Tasks -> StoredTask]
  BY DEF TypeOK
<1>k. \A u \in Tasks : Known(u) => Known(u)'
  BY StepKnown
<1>r. requests \in [Permissions -> Request]
  BY DEF TypeOK
<1>1. ASSUME NEW t \in Tasks, Start(t) \/ StartFails(t)
      PROVE  ShownInv'
  BY <1>1, <1>k, QuietScreens DEF Start, StartFails
<1>2. ASSUME NEW t \in Tasks, StartSucceeds(t)
      PROVE  ShownInv'
  <2>1. ~ Known(t)
    BY <1>2 DEF StartSucceeds, IInv, SingleStart
  <2>2. \A u \in Tasks : u # t => tasks'[u] = tasks[u]
    BY <1>2, <1>m DEF StartSucceeds
  <2>. QED
    BY <1>2, <1>k, <2>1, <2>2, QuietScreens DEF StartSucceeds
<1>4. ASSUME NEW t \in Tasks, Cancel(t)
      PROVE  ShownInv'
  <2>1. \A u \in Tasks : tasks'[u].permission = tasks[u].permission
    BY <1>4, <1>m DEF Cancel, ClearInactivityTimeout, StoredTask
  <2>. QED
    BY <1>4, <1>k, <2>1, QuietScreens DEF Cancel
<1>5. ASSUME NEW t \in Tasks, InterruptSucceeds(t)
      PROVE  ShownInv'
  <2>1. \A u \in Tasks : u # t => tasks'[u] = tasks[u]
    BY <1>5, <1>m DEF InterruptSucceeds
  <2>. QED
    BY <1>5, <1>k, <2>1, QuietScreens DEF InterruptSucceeds
<1>6. ASSUME NEW t \in Tasks, InterruptFails(t)
      PROVE  ShownInv'
  <2>1. \A u \in Tasks : tasks'[u].permission = tasks[u].permission
    BY <1>6, <1>m DEF InterruptFails, ArmInactivityTimeout, StoredTask
  <2>. QED
    BY <1>6, <1>k, <2>1, QuietScreens DEF InterruptFails
<1>7. ASSUME NEW t \in Tasks, InactivityTimeout(t)
      PROVE  ShownInv'
  <2>1. tasks'[t].permission = NoPermission
    <3>1. ClearInactivityTimeout(tasks[t]) \in StoredTask
      BY <1>m, TimerType
    <3>. QED
      BY <1>7, <1>m, <3>1, EndFields DEF InactivityTimeout, HasEnded
  <2>2. \A u \in Tasks : tasks'[u].permission = tasks[u].permission
    BY <1>7, <1>m, <2>1 DEF InactivityTimeout
  <2>. QED
    BY <1>7, <1>k, <2>2, QuietScreens DEF InactivityTimeout, runtime
<1>8. ASSUME NEW t \in Tasks, Activity(t) \/ Retrying(t) \/ FinalMessage(t)
      PROVE  ShownInv'
  <2> DEFINE armed == ArmInactivityTimeout(tasks[t])
  <2>a. armed \in StoredTask /\ armed.permission = tasks[t].permission
    BY <1>m, TimerType, TimerFields
  <2>b. \/ \E task \in {tasks[t], armed} :
             tasks' = [tasks EXCEPT ![t] = Emit(task, "progress", NoPermission)]
        \/ \E final \in BOOLEAN : tasks' = [tasks EXCEPT ![t] = [armed EXCEPT !.final = final]]
    BY <1>8 DEF Activity, Retrying, FinalMessage
  <2> HIDE DEF armed
  <2>c. tasks'[t].permission = tasks[t].permission
    BY <1>m, <2>a, <2>b, EmitFields DEF StoredTask
  <2>1. \A u \in Tasks : tasks'[u].permission = tasks[u].permission
    BY <1>m, <2>b, <2>c
  <2>. QED
    BY <1>8, <1>k, <2>1, QuietScreens DEF Activity, Retrying, FinalMessage, runtime
<1>11. ASSUME NEW t \in Tasks, TurnCompleted(t)
       PROVE  ShownInv'
  <2>1. \A u \in Tasks : u # t => tasks'[u] = tasks[u]
    BY <1>11, <1>m DEF TurnCompleted
  <2>. QED
    BY <1>11, <1>k, <2>1, QuietScreens DEF TurnCompleted
<1>12. ASSUME NEW t \in Tasks, NEW p \in Permissions, NEW exact \in BOOLEAN,
              PresentPermission(p, t, exact)
       PROVE  ShownInv'
  <2>1. PICK u \in Candidates(t, exact) :
          /\ tasks[u].permission = NoPermission
          /\ tasks' = [tasks EXCEPT
               ![u] = Emit([ClearInactivityTimeout(tasks[u]) EXCEPT !.permission = p],
                           "permission-required", p)]
    BY <1>12 DEF PresentPermission
  <2>2. u \in Tasks /\ (exact => u = t)
    BY DEF Candidates
  <2>3. /\ tasks'[u].permission = p
        /\ \A v \in Tasks : v # u => tasks'[v] = tasks[v]
    BY <1>m, <2>1, <2>2 DEF Emit, ClearInactivityTimeout, StoredTask
  <2>4. requests' = [requests EXCEPT
                       ![p] = [state |-> "open", turn |-> t, exact |-> exact]]
    BY <1>12 DEF PresentPermission, Asked
  <2>5. AskedTurnsAreKnown'
    <3> SUFFICES ASSUME NEW q \in Permissions, requests'[q].state # "unasked"
                 PROVE  (requests[q].turn \in Tasks /\ Known(requests[q].turn))'
      BY DEF AskedTurnsAreKnown
    <3>1. CASE q = p
      BY <1>12, <1>k, <1>r, <2>4, <3>1 DEF PresentPermission
    <3>2. CASE q # p
      BY <1>k, <1>r, <2>4, <3>2 DEF ShownInv, AskedTurnsAreKnown
    <3>. QED
      BY <3>1, <3>2
  <2>6. OpenRequestIsShown'
    <3> SUFFICES ASSUME NEW q \in Permissions,
                        requests'[q].state = "open", requests'[q].exact,
                        requests'[q].turn \in liveTurns', health' = "healthy"
                 PROVE  tasks'[requests'[q].turn].permission = q
      BY DEF OpenRequestIsShown
    <3>1. CASE q = p
      BY <1>r, <2>2, <2>3, <2>4, <3>1
    <3>2. CASE q # p
      <4>1. /\ requests'[q] = requests[q]
            /\ health = "healthy" /\ liveTurns' = liveTurns
        BY <1>12, <1>r, <2>4, <3>2 DEF PresentPermission
      <4>2. tasks[requests[q].turn].permission = q /\ requests[q].turn \in Tasks
        BY <4>1 DEF ShownInv, AskedTurnsAreKnown, OpenRequestIsShown
      <4>. QED
        BY <2>1, <2>3, <4>1, <4>2, NoPermissionAssumption
    <3>. QED
      BY <3>1, <3>2
  <2>. QED
    BY <2>5, <2>6 DEF ShownInv
<1>13. ASSUME NEW t \in Tasks, NEW p \in Permissions, NEW exact \in BOOLEAN,
              DeclinePermission(p, t, exact)
       PROVE  ShownInv'
  <2>1. /\ requests' = [requests EXCEPT
                ![p] = [state |-> IF health = "healthy" THEN "decline" ELSE "open",
                        turn |-> t, exact |-> exact]]
        /\ UNCHANGED <<health, tasks, liveTurns>> /\ Known(t)
    BY <1>13 DEF DeclinePermission, Asked
  <2>. QED
    BY <1>k, <1>r, <2>1 DEF ShownInv, AskedTurnsAreKnown, OpenRequestIsShown
<1>14. ASSUME NEW t \in Tasks, NEW p \in Permissions, NEW decision \in Decisions,
              ResolvePermission(t, p, decision)
       PROVE  ShownInv'
  <2>1. /\ requests' = [requests EXCEPT ![p].state = decision]
        /\ requests[p].state = "open" /\ decision # "open"
        /\ UNCHANGED <<health, tasks, liveTurns>>
    BY <1>14 DEF ResolvePermission, Decisions
  <2>. QED
    BY <1>k, <1>r, <2>1 DEF ShownInv, AskedTurnsAreKnown, OpenRequestIsShown, Request
<1>15. ASSUME NEW p \in Permissions, PermissionResolved(p)
       PROVE  ShownInv'
  <2>1. /\ requests' = [requests EXCEPT ![p].state = "settled"]
        /\ requests[p].state # "unasked"
        /\ UNCHANGED <<health, liveTurns>>
    BY <1>15 DEF PermissionResolved, Decisions
  <2>2. \A u \in Tasks : tasks[u].permission # p => tasks'[u] = tasks[u]
    BY <1>15, <1>m DEF PermissionResolved, Holders
  <2>3. \A q \in Permissions : q # p => requests'[q] = requests[q]
    BY <1>r, <2>1
  <2>4. /\ requests'[p].state = "settled"
        /\ requests'[p].turn = requests[p].turn
    BY <1>r, <2>1 DEF Request
  <2>5. AskedTurnsAreKnown'
    BY <1>k, <2>1, <2>3, <2>4 DEF ShownInv, AskedTurnsAreKnown
  <2>6. OpenRequestIsShown'
    BY <2>1, <2>2, <2>3, <2>4 DEF ShownInv, AskedTurnsAreKnown, OpenRequestIsShown
  <2>. QED
    BY <2>5, <2>6 DEF ShownInv
<1>16. CASE RuntimeUnavailable
  BY <1>16, <1>k, QuietScreens DEF RuntimeUnavailable
<1>17. CASE RuntimeFailed
  <2>1. health' # "healthy"
    BY <1>17 DEF RuntimeFailed
  <2>2. \A q \in Permissions : /\ requests'[q].turn = requests[q].turn
                               /\ requests'[q].state # "unasked"
                                    => requests[q].state # "unasked"
    BY <1>17, <1>r DEF RuntimeFailed, Request
  <2>. QED
    BY <1>k, <2>1, <2>2 DEF ShownInv, AskedTurnsAreKnown, OpenRequestIsShown
<1>18. CASE UNCHANGED vars
  BY <1>18, <1>k, QuietScreens DEF vars
<1>. QED
  BY <1>1, <1>2, <1>4, <1>5, <1>6, <1>7, <1>8, <1>11, <1>12, <1>13, <1>14, <1>15,
     <1>16, <1>17, <1>18 DEF Next

(* No agent waits for an answer nobody will give: a request of a live turn *)
(* that is undecided is on the screen of the task whose turn it is.  The   *)
(* invariant adds that a request names a known task, so that the turn of a *)
(* task that starts later is not taken for the one that asked.             *)
THEOREM NoRequestUnseen == Spec => []OpenRequestIsShown
<1>1. TypeOK /\ IInv /\ ShownInv /\ [Next]_vars => TypeOK' /\ IInv' /\ ShownInv'
  BY StepTypeOK, StepIInv, StepShownInv
<1>2. Init => TypeOK /\ IInv /\ ShownInv
  BY InitTypeOK, InitIInv, InitShownInv
<1>3. ShownInv => OpenRequestIsShown
  BY DEF ShownInv
<1>. QED
  BY <1>1, <1>2, <1>3, PTL DEF Spec

=============================================================================
