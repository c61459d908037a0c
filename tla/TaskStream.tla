------------------------------ MODULE TaskStream ------------------------------
(***************************************************************************)
(* The event stream of a task: GET /tasks/:id/events of the bridge         *)
(* (http/task-routes.ts, with connect and emit of the task manager) and    *)
(* the EventSource of a client that reads it (services/agent/agent-        *)
(* bridge.ts).                                                             *)
(*                                                                         *)
(* The tasks live as TaskLifecycle says.  A reader opens one EventSource   *)
(* for one task.  Its connection may break at any moment; the browser then *)
(* connects again and names the last event it was given, while the bridge  *)
(* may not know yet that the old connection is dead and goes on writing to *)
(* it.  The reader closes its source when an event ends the task.          *)
(***************************************************************************)
EXTENDS TaskLifecycle

CONSTANTS
  Readers,     \* the event sources the clients open
  NoTask,      \* a reader that has not opened its source yet
  MaxDrops     \* bound: connections a reader loses

ASSUME MaxDropsAssumption == MaxDrops \in Nat /\ NoTask \notin Tasks

VARIABLES
  readers,     \* readers[r]: the event source of r
  connections  \* connections[r][n]: the bridge's side of r's n-th connection

streamVars == <<view, readers, connections>>

Lines == 0 .. MaxDrops

\* A source is closed after the last event, or left when the client gives up.
\* received is what the reader was given, as event ids in order of arrival.
Reader == [task : Tasks \union {NoTask},
           source : {"none", "connecting", "open", "closed", "left"},
           line : Lines,
           received : Seq(Nat)]

\* wire holds the ids that were written and are not delivered.
Connection == [state : {"none", "live", "ended", "gone"},
               listening : BOOLEAN,
               wire : Seq(Nat)]

Log(t) == view[t].events
LastEventId(r) == Len(readers[r].received)
Current(r) == connections[r][readers[r].line]
Interval(m, n) == [i \in 1 .. n - m |-> m + i]   \* the ids m + 1, ..., n

-----------------------------------------------------------------------------
(* The bridge emits: whatever happens to a task is written to every        *)
(* connection that listens to it, and an event that ends the task ends     *)
(* those connections too.                                                  *)

Told(connection, t) ==
  IF ~ connection.listening THEN connection
  ELSE [state |-> IF view'[t].status \in Terminal THEN "ended" ELSE "live",
        listening |-> view'[t].status \notin Terminal,
        wire |-> connection.wire \o Interval(Len(Log(t)), Len(view'[t].events))]

Emit ==
  /\ Next
  /\ connections' = [r \in Readers |-> [n \in Lines |->
                       IF readers[r].task = NoTask THEN connections[r][n]
                       ELSE Told(connections[r][n], readers[r].task)]]
  /\ UNCHANGED readers

-----------------------------------------------------------------------------

\* The client opens a stream for a task the bridge has told it about.
Open(r, t) ==
  /\ readers[r].source = "none"
  /\ view[t].status # "absent"
  /\ readers' = [readers EXCEPT ![r].task = t, ![r].source = "connecting"]
  /\ UNCHANGED <<view, connections>>

\* Mutant of Connect: the replay starts with the last event the reader has.
ConnectReplaysLast(r) ==
  LET t == readers[r].task
      running == view[t].status = "running"
      from == IF LastEventId(r) = 0 THEN 0 ELSE LastEventId(r) - 1
  IN  /\ readers[r].source = "connecting"
      /\ connections' = [connections EXCEPT ![r][readers[r].line] =
                           [state |-> IF running THEN "live" ELSE "ended",
                            listening |-> running,
                            wire |-> Interval(from, Len(Log(t)))]]
      /\ readers' = [readers EXCEPT ![r].source = "open"]
      /\ UNCHANGED view

\* The request reaches the bridge: it listens, replays what came after the
\* last event the reader knows, and is done at once if the task has ended.
Connect(r) ==
  LET t == readers[r].task
      running == view[t].status = "running"
  IN  /\ readers[r].source = "connecting"
      /\ connections' = [connections EXCEPT ![r][readers[r].line] =
                           [state |-> IF running THEN "live" ELSE "ended",
                            listening |-> running,
                            wire |-> Interval(LastEventId(r), Len(Log(t)))]]
      /\ readers' = [readers EXCEPT ![r].source = "open"]
      /\ UNCHANGED view

EndsTask(t, id) == Log(t)[id].type \in Terminal

\* The reader is given the next event; it closes its source after the last.
Deliver(r) ==
  LET id == Head(Current(r).wire)
      t == readers[r].task
  IN  /\ readers[r].source = "open"
      /\ Current(r).wire # <<>>
      /\ readers' = [readers EXCEPT
                       ![r].received = Append(@, id),
                       ![r].source = IF EndsTask(t, id) THEN "closed" ELSE @]
      /\ connections' = [connections EXCEPT
                           ![r][readers[r].line].wire = Tail(@)]
      /\ UNCHANGED view

\* The connection breaks and what was on its way is lost.
Drop(r) ==
  /\ readers[r].source = "open"
  /\ readers[r].line < MaxDrops
  /\ readers' = [readers EXCEPT ![r].source = "connecting", ![r].line = @ + 1]
  /\ connections' = [connections EXCEPT ![r][readers[r].line].wire = <<>>]
  /\ UNCHANGED view

\* The client gives the stream up: it leaves the page or dismisses the task.
Close(r) ==
  /\ readers[r].source \in {"connecting", "open"}
  /\ readers' = [readers EXCEPT ![r].source = "left"]
  /\ UNCHANGED <<view, connections>>

\* Mutant of HangUp: the connection that replaced the dead one is dropped.
HangUpNewest(r, n) ==
  /\ connections[r][n].state = "live"
  /\ n # readers[r].line \/ readers[r].source \in {"closed", "left"}
  /\ connections' = [connections EXCEPT
                       ![r][readers[r].line] =
                         [state |-> "gone", listening |-> FALSE, wire |-> <<>>]]
  /\ UNCHANGED <<view, readers>>

\* The bridge learns that a connection is dead.
HangUp(r, n) ==
  /\ connections[r][n].state = "live"
  /\ n # readers[r].line \/ readers[r].source \in {"closed", "left"}
  /\ connections' = [connections EXCEPT
                       ![r][n] = [state |-> "gone", listening |-> FALSE,
                                  wire |-> <<>>]]
  /\ UNCHANGED <<view, readers>>

-----------------------------------------------------------------------------

StreamInit ==
  /\ Init
  /\ readers = [r \in Readers |-> [task |-> NoTask, source |-> "none",
                                   line |-> 0, received |-> <<>>]]
  /\ connections = [r \in Readers |-> [n \in Lines |->
                      [state |-> "none", listening |-> FALSE, wire |-> <<>>]]]

StreamNext ==
  \/ Emit
  \/ \E r \in Readers :
       \/ \E t \in Tasks : Open(r, t)
       \/ Connect(r) \/ Deliver(r) \/ Drop(r) \/ Close(r)
       \/ \E n \in Lines : HangUp(r, n)

\* A browser reconnects, what is written arrives unless the connection
\* breaks, and a broken connection is noticed.
StreamFairness ==
  \A r \in Readers :
    /\ WF_streamVars(Connect(r))
    /\ WF_streamVars(Deliver(r))
    /\ \A n \in Lines : WF_streamVars(HangUp(r, n))

StreamSpec == StreamInit /\ [][StreamNext]_streamVars /\ StreamFairness

-----------------------------------------------------------------------------
(* Properties.                                                             *)

StreamTypeOK ==
  /\ TypeOK
  /\ readers \in [Readers -> Reader]
  /\ connections \in [Readers -> [Lines -> Connection]]

\* A reader is given the events of the log from the first on, each once.
ReceivedInOrder ==
  \A r \in Readers : readers[r].task # NoTask =>
    /\ readers[r].received = Interval(0, LastEventId(r))
    /\ LastEventId(r) <= Len(Log(readers[r].task))

\* A connection the reader still uses owes it the rest.
WireIsTheRest ==
  \A r \in Readers : readers[r].source = "open" =>
    /\ Current(r).wire = Interval(LastEventId(r), Len(Log(readers[r].task)))
    /\ Current(r).listening <=> view[readers[r].task].status = "running"

\* When the bridge ends a response, its reader has been told the outcome: a
\* source that is still open would connect again and again.
EndedAfterOutcome ==
  \A r \in Readers : readers[r].source = "open" /\ Current(r).state = "ended"
    => Current(r).wire # <<>>

\* Dead connections are noticed late, but not later than the task's end.
NoListenerAfterEnd ==
  \A r \in Readers : \A n \in Lines : connections[r][n].listening =>
    view[readers[r].task].status = "running"

(* However often the connection breaks, replay and live delivery meet      *)
(* without a gap and without an overlap (task-routes.ts:175-232), and      *)
(* neither the reader's source nor the bridge's listeners outlive a task;  *)
(* and the log that is replayed tells how the task stands, so that a page  *)
(* which knows nothing else shows the truth.                               *)
ConnectionsFollowLog ==
  ReceivedInOrder /\ WireIsTheRest /\ EndedAfterOutcome /\ NoListenerAfterEnd /\ LogIsTrue

(* A reader that does not give up is given the whole log of a task that    *)
(* ends, its outcome included, whatever connections it loses on the way.   *)
OutcomeArrives ==
  \A r \in Readers : \A t \in Tasks :
    readers[r].task = t /\ view[t].status \in Terminal ~>
      readers[r].source = "left" \/ LastEventId(r) = Len(Log(t))

=============================================================================
