--------------------------- MODULE CodexRuntimeProofs ---------------------------
(***************************************************************************)
(* Theorems about the agent runtime of the bridge, for every set of tasks  *)
(* and permissions and every bound: however the answers, the lines and the *)
(* end of the process fall between its callbacks, the listener hears of no *)
(* turn before startTask has told its ids, the end of a turn that was read *)
(* in time is told before the failure of the connection, the browser tabs  *)
(* of a turn are closed once when it is over, and shutdown waits for that. *)
(***************************************************************************)
EXTENDS CodexRuntime, SequenceTheorems, TLAPS

-----------------------------------------------------------------------------
(* Calls, jobs and events are told apart by their fields.                  *)

LaunchOps == {"initialize", "capabilities"}

Granted(c) == [call |-> c, ok |-> TRUE]
Denied(c) == [call |-> c, ok |-> FALSE]

LEMMA CallFacts ==
  /\ \A op \in LaunchOps : LaunchCall(op) \in Call /\ LaunchCall(op).op = op
  /\ \A t \in Tasks :
       /\ ThreadCall(t) \in Call /\ ThreadCall(t).op = "thread" /\ ThreadCall(t).task = t
       /\ TurnCall(t) \in Call /\ TurnCall(t).op = "turn" /\ TurnCall(t).task = t
       /\ CleanupCall(t) \in Call /\ CleanupCall(t).op = "cleanup" /\ CleanupCall(t).task = t
       /\ \A by \in Callers : /\ InterruptCall(t, by) \in Call
                              /\ InterruptCall(t, by).op = "interrupt"
                              /\ InterruptCall(t, by).task = t
                              /\ InterruptCall(t, by).by = by
BY DEF LaunchOps, Call, Callers, LaunchCall, ThreadCall, TurnCall, CleanupCall, InterruptCall

LEMMA JobFacts ==
  /\ \A c : Granted(c).call = c /\ Denied(c).call = c
  /\ \A c, d : Granted(c) # Denied(d)
  /\ \A c \in Call : Granted(c) \in Job /\ Denied(c) \in Job
BY DEF Granted, Denied, Job

LEMMA EventFacts ==
  /\ Failure \in Event /\ Failure.type = "runtime-failed"
  /\ \A t \in Tasks :
       /\ Note(t) \in Event /\ Note(t).type = "note" /\ Note(t).task = t
       /\ Completion(t) \in Event /\ Completion(t).type = "turn-completed"
       /\ Completion(t).task = t
  /\ \A p \in Permissions :
       /\ Required(p) \in Event /\ Required(p).type = "permission-required"
       /\ Resolved(p) \in Event /\ Resolved(p).type = "permission-resolved"
BY DEF Event, Failure, Note, Completion, Required, Resolved

LEMMA RejectedFacts ==
  /\ \A c \in calls : Denied(c) \in Rejected
  /\ \A j \in Rejected : \E c \in calls : j = Denied(c)
BY DEF Rejected, Denied

-----------------------------------------------------------------------------
(* The queue.                                                              *)

Once(q) == \A i, j \in 1 .. Len(q) : q[i] = Failure /\ q[j] = Failure => i = j

LEMMA QueueAppend ==
  ASSUME NEW q \in Seq(Event), NEW e \in Event
  PROVE  /\ Append(q, e) \in Seq(Event)
         /\ Range(Append(q, e)) = Range(q) \union {e}
         /\ Len(q) \in Nat /\ Len(Append(q, e)) = Len(q) + 1
         /\ \A i \in 1 .. Len(q) : Append(q, e)[i] = q[i]
         /\ Append(q, e)[Len(q) + 1] = e
         /\ Once(q) /\ (e = Failure => Failure \notin Range(q)) => Once(Append(q, e))
<1>1. /\ Append(q, e) \in Seq(Event)
      /\ Len(q) \in Nat /\ Len(Append(q, e)) = Len(q) + 1
      /\ \A i \in 1 .. Len(q) : Append(q, e)[i] = q[i]
      /\ Append(q, e)[Len(q) + 1] = e
  BY AppendProperties, LenProperties
<1>2. DOMAIN q = 1 .. Len(q) /\ DOMAIN Append(q, e) = 1 .. Len(q) + 1
  BY <1>1, LenProperties
<1>3. 1 .. Len(q) + 1 = (1 .. Len(q)) \union {Len(q) + 1}
  BY <1>1
<1>4. Range(Append(q, e)) = Range(q) \union {e}
  BY <1>1, <1>2, <1>3 DEF Range
<1>5. Once(q) /\ (e = Failure => Failure \notin Range(q)) => Once(Append(q, e))
  <2>. SUFFICES ASSUME Once(q), e = Failure => Failure \notin Range(q),
                       NEW i \in 1 .. Len(q) + 1, NEW j \in 1 .. Len(q) + 1,
                       Append(q, e)[i] = Failure, Append(q, e)[j] = Failure
                PROVE  i = j
    BY <1>1 DEF Once
  <2>1. \A k \in 1 .. Len(q) : q[k] \in Range(q)
    BY <1>2 DEF Range
  <2>. QED
    BY <1>1, <1>3, <2>1 DEF Once
<1>. QED
  BY <1>1, <1>4, <1>5

LEMMA EmptyQueue ==
  <<>> \in Seq(Event) /\ DOMAIN <<>> = {} /\ Range(<<>>) = {} /\ Len(<<>>) = 0 /\ Once(<<>>)
BY DEF Range, Once

-----------------------------------------------------------------------------
(* The invariant.                                                          *)

\* A call that is made and whose continuation has not run.
Pending(c) == c \in calls \/ Granted(c) \in jobs \/ Denied(c) \in jobs

\* It is in one of these places.
Single(c) ==
  /\ ~ (c \in calls /\ Granted(c) \in jobs)
  /\ ~ (c \in calls /\ Denied(c) \in jobs)
  /\ ~ (Granted(c) \in jobs /\ Denied(c) \in jobs)

\* startTask of t is over, or will be before another callback starts.
Known(t) == starts[t] \in BeginEnded \/ Granted(TurnCall(t)) \in jobs

\* Failing is the last thing a connection does, and it does it once; a call
\* waits only for a process that runs.
ConnectionInv ==
  /\ calls # {} => process = "running"
  /\ ready => process = "running" /\ launch = "listening"
  /\ Failure \in Range(queue) \union told => process = "none"
  /\ browserThreads \in [DOMAIN browserThreads -> Tasks \union {NoTask}]

\* start() makes one call at a time, and no task is started before it is over.
LaunchInv ==
  \A op \in LaunchOps :
    Single(LaunchCall(op)) /\ (Pending(LaunchCall(op)) => launch = op)

\* startTask makes one call at a time, and everything else there is about t
\* is there when it is over, or will be before another callback starts.
TaskInv(t) ==
  /\ Single(ThreadCall(t)) /\ (Pending(ThreadCall(t)) => starts[t] = "thread")
  /\ Single(TurnCall(t)) /\ (Pending(TurnCall(t)) => starts[t] = "turn")
  /\ starts[t] # "none" => launch = "listening"
  /\ Pending(CleanupCall(t)) => Known(t)
  /\ \A by \in Callers : Pending(InterruptCall(t, by)) => starts[t] \in BeginEnded
  /\ t \in Range(browserThreads) => starts[t] \in BeginEnded
  /\ turns[t] # "none" => Known(t)
  /\ {Note(t), Completion(t)} \intersect Range(queue) # {} => Known(t)
  /\ {Note(t), Completion(t)} \intersect told # {} => starts[t] \in BeginEnded

RuntimeInv ==
  TypeOK /\ ConnectionInv /\ LaunchInv /\ \A t \in Tasks : TaskInv(t)

LEMMA RuntimeInvInit == Init => RuntimeInv
<1>. SUFFICES ASSUME Init PROVE RuntimeInv
  OBVIOUS
<1>1. TypeOK
  <2>1. /\ calls \subseteq Call /\ jobs \subseteq Job
        /\ DOMAIN browserThreads = {} /\ Range(browserThreads) = {}
        /\ queue \in Seq(Event) /\ Len(queue) = 0
    BY CallFacts, EmptyQueue DEF Init, LaunchOps
  <2>2. \A i, j \in 1 .. Len(queue) : queue[i] = Failure /\ queue[j] = Failure => i = j
    BY <2>1
  <2>3. /\ stops \in [Tasks -> [Callers -> {"none", "asked", "cleaning"} \union StopEnded]]
        /\ notes \in [Tasks -> 0 .. MaxNotes] /\ cleaned \in [Tasks -> Nat]
    BY RuntimeAssumption DEF Init
  <2>. QED
    BY <2>1, <2>2, <2>3 DEF Init, TypeOK, BeginEnded
<1>2. ConnectionInv
  BY EmptyQueue DEF Init, ConnectionInv
<1>3. LaunchInv
  BY CallFacts, JobFacts DEF Init, LaunchInv, Single, Pending, LaunchOps
<1>4. ASSUME NEW t \in Tasks
      PROVE  TaskInv(t)
  BY CallFacts, JobFacts, EmptyQueue DEF Init, TaskInv, Single, Pending, LaunchOps
<1>. QED
  BY <1>1, <1>2, <1>3, <1>4 DEF RuntimeInv

-----------------------------------------------------------------------------
(* What a step does with the calls: some are made (new), some jobs are run *)
(* (gone), and what else there is remains or moves on.                     *)

After(gone, new) ==
  \A c \in Call \ new :
    /\ Pending(c)' => Pending(c)
    /\ Single(c) => Single(c)'
    /\ Granted(c) \in jobs \ gone => Granted(c) \in jobs'

LEMMA TakesCalls ==
  ASSUME NEW gone, NEW new, jobs' = jobs \ gone, calls' = calls \union new
  PROVE  After(gone, new)
BY DEF After, Pending, Single

LEMMA RejectsCalls ==
  ASSUME calls' = {}, jobs' = jobs \union Rejected
  PROVE  After({}, {})
<1>. SUFFICES ASSUME NEW c \in Call
              PROVE  /\ Pending(c)' => Pending(c)
                     /\ Single(c) => Single(c)'
                     /\ Granted(c) \in jobs => Granted(c) \in jobs'
  BY DEF After
<1>1. /\ Granted(c) \in jobs' <=> Granted(c) \in jobs
      /\ Denied(c) \in jobs' <=> Denied(c) \in jobs \/ c \in calls
  BY RejectedFacts, JobFacts
<1>. QED
  BY <1>1 DEF Pending, Single

LEMMA SettlesCalls ==
  ASSUME NEW d \in calls, NEW ok \in BOOLEAN, calls' = calls \ {d},
         jobs' = jobs \union {[call |-> d, ok |-> ok]}
  PROVE  After({}, {})
<1>. SUFFICES ASSUME NEW c \in Call
              PROVE  /\ Pending(c)' => Pending(c)
                     /\ Single(c) => Single(c)'
                     /\ Granted(c) \in jobs => Granted(c) \in jobs'
  BY DEF After
<1>1. CASE ok = TRUE
  BY <1>1, JobFacts DEF Pending, Single, Granted
<1>2. CASE ok = FALSE
  BY <1>2, JobFacts DEF Pending, Single, Denied
<1>. QED
  BY <1>1, <1>2

LEMMA RejectedJobs ==
  ASSUME calls \subseteq Call
  PROVE  Rejected \subseteq Job
BY RejectedFacts, JobFacts

\* What a step has to leave alone for a task to remain as it is.
LEMMA TaskKept ==
  ASSUME NEW gone, NEW new, After(gone, new), NEW t \in Tasks, TaskInv(t),
         ThreadCall(t) \notin new, TurnCall(t) \notin new,
         Granted(TurnCall(t)) \notin gone,
         CleanupCall(t) \in new => Known(t),
         \A by \in Callers : InterruptCall(t, by) \in new => starts[t] \in BeginEnded,
         starts'[t] = starts[t], starts[t] # "none" => launch' = launch,
         t \in Range(browserThreads') => t \in Range(browserThreads),
         turns'[t] = turns[t] \/ Known(t) \/ Known(t)',
         {Note(t), Completion(t)} \intersect Range(queue') # {} =>
           {Note(t), Completion(t)} \intersect Range(queue) # {} \/ Known(t),
         told' = told
  PROVE  TaskInv(t)' /\ (Known(t) => Known(t)')
<1>1. Known(t) => Known(t)'
  BY CallFacts DEF Known, After
<1>2. /\ Single(ThreadCall(t))' /\ (Pending(ThreadCall(t))' => Pending(ThreadCall(t)))
      /\ Single(TurnCall(t))' /\ (Pending(TurnCall(t))' => Pending(TurnCall(t)))
      /\ Pending(CleanupCall(t))' => Pending(CleanupCall(t)) \/ Known(t)
      /\ \A by \in Callers :
           Pending(InterruptCall(t, by))' => Pending(InterruptCall(t, by)) \/ starts[t] \in BeginEnded
  BY CallFacts DEF After, TaskInv
<1>. QED
  BY <1>1, <1>2 DEF TaskInv

LEMMA LaunchKept ==
  ASSUME NEW gone, NEW new, After(gone, new), LaunchInv, launch' = launch,
         \A op \in LaunchOps : LaunchCall(op) \notin new
  PROVE  LaunchInv'
BY CallFacts DEF LaunchInv, After

-----------------------------------------------------------------------------
(* The connection fails, or is closed.                                     *)

\* The queue when the failure is told, or when it is dropped.
LEMMA QueueFails ==
  ASSUME RuntimeInv,
         \/ queue' \in {queue, <<>>}
         \/ queue' = Append(queue, Failure) /\ process # "none" /\ process' = "none"
  PROVE  /\ queue' \in Seq(Event) /\ Once(queue')
         /\ Range(queue') \subseteq Range(queue) \union {Failure}
         /\ Failure \in Range(queue') => process' = "none" \/ Failure \in Range(queue)
<1>1. queue \in Seq(Event) /\ Once(queue)
  BY DEF RuntimeInv, TypeOK, Once
<1>2. Failure \in Range(queue) => process = "none"
  BY DEF RuntimeInv, ConnectionInv
<1>3. CASE queue' = Append(queue, Failure) /\ process # "none" /\ process' = "none"
  <2>1. Failure \in Event /\ Failure \notin Range(queue)
    BY <1>2, <1>3, EventFacts
  <2>. QED
    BY <1>1, <1>3, <2>1, QueueAppend
<1>4. CASE queue' = queue
  BY <1>1, <1>4
<1>5. CASE queue' = <<>>
  BY <1>5, EmptyQueue
<1>. QED
  BY <1>3, <1>4, <1>5

\* Every step that rejects what is pending and starts nothing.
LEMMA RejectionKeepsInv ==
  ASSUME RuntimeInv, calls' = {}, jobs' = jobs \union Rejected, ready' = FALSE,
         process' \in {"exited", "none"},
         process' = "none" \/ Failure \notin Range(queue) \union told,
         requests' = requests \/ requests' = Forgotten,
         \/ queue' \in {queue, <<>>}
         \/ queue' = Append(queue, Failure) /\ process # "none" /\ process' = "none",
         closing' \in {closing, "closed"},
         UNCHANGED <<launch, awaited, starts, thread, stops, browserThreads,
                     browserCleanups, told, turns, notes, cleaned>>
  PROVE  RuntimeInv'
<1>1. /\ queue' \in Seq(Event) /\ Once(queue')
      /\ Range(queue') \subseteq Range(queue) \union {Failure}
      /\ Failure \in Range(queue') => process' = "none" \/ Failure \in Range(queue)
  BY QueueFails
<1>2. After({}, {})
  BY RejectsCalls
<1>3. TypeOK'
  <2>1. jobs' \subseteq Job
    BY RejectedJobs DEF RuntimeInv, TypeOK
  <2>2. requests' \in [Permissions -> {"unasked", "open", "decided", "settled"}]
    BY DEF RuntimeInv, TypeOK, Forgotten
  <2>3. \A i, j \in 1 .. Len(queue') : queue'[i] = Failure /\ queue'[j] = Failure => i = j
    BY <1>1 DEF Once
  <2>. QED
    BY <1>1, <2>1, <2>2, <2>3 DEF RuntimeInv, TypeOK
<1>4. ConnectionInv'
  BY <1>1 DEF RuntimeInv, ConnectionInv
<1>5. LaunchInv'
  BY <1>2, LaunchKept DEF RuntimeInv
<1>6. ASSUME NEW t \in Tasks
      PROVE  TaskInv(t)'
  BY <1>1, <1>2, TaskKept, EventFacts DEF RuntimeInv
<1>. QED
  BY <1>3, <1>4, <1>5, <1>6 DEF RuntimeInv

LEMMA FailureKeepsInv ==
  ASSUME RuntimeInv,
         ProcessExit \/ Drained \/ ConnectionFails \/ RequestTimeout \/ Close
  PROVE  RuntimeInv'
<1>1. CASE ProcessExit
  <2>1. Failure \notin Range(queue) \union told
    BY <1>1 DEF ProcessExit, RuntimeInv, ConnectionInv
  <2>2. jobs' = jobs \union Rejected
    BY <1>1 DEF ProcessExit, NextCallback
  <2>. QED
    BY <1>1, <2>1, <2>2, RejectionKeepsInv DEF ProcessExit
<1>2. ASSUME Fails, process # "none"
      PROVE  RuntimeInv'
  BY <1>2, RejectionKeepsInv DEF Fails, HandleExit
<1>3. CASE Drained \/ ConnectionFails \/ RequestTimeout
  BY <1>2, <1>3 DEF Drained, ConnectionFails, RequestTimeout, RuntimeInv, ConnectionInv
<1>4. CASE Close
  <2>1. CASE process = "none"
    BY <1>4, <2>1 DEF Close, RuntimeInv, TypeOK, ConnectionInv, LaunchInv, TaskInv, Pending,
                      Single, Known
  <2>2. CASE process # "none"
    BY <1>4, <2>2, RejectionKeepsInv DEF Close
  <2>. QED
    BY <2>1, <2>2
<1>. QED
  BY <1>1, <1>3, <1>4

-----------------------------------------------------------------------------
(* start() of the runtime.                                                 *)

LEMMA CallCases ==
  ASSUME NEW c \in Call
  PROVE  \/ \E op \in LaunchOps : c = LaunchCall(op)
         \/ \E t \in Tasks : \/ c \in {ThreadCall(t), TurnCall(t), CleanupCall(t)}
                             \/ \E by \in Callers : c = InterruptCall(t, by)
BY DEF Call, LaunchOps, LaunchCall, ThreadCall, TurnCall, CleanupCall, InterruptCall

\* While start() has not returned there is nothing but its own call.
LEMMA NothingBeforeLaunch ==
  ASSUME RuntimeInv, NEW op \in LaunchOps,
         Granted(LaunchCall(op)) \in jobs \/ Denied(LaunchCall(op)) \in jobs
  PROVE  /\ calls = {} /\ launch = op
         /\ \A t \in Tasks : starts[t] = "none"
<1>1. launch = op /\ LaunchCall(op) \notin calls
  BY DEF RuntimeInv, LaunchInv, Pending, Single
<1>2. \A t \in Tasks : starts[t] = "none" /\ ~ Known(t)
  BY <1>1 DEF RuntimeInv, TaskInv, Known, Pending, LaunchOps, BeginEnded
<1>3. ASSUME NEW c \in calls
      PROVE  FALSE
  <2>1. c \in Call /\ Pending(c)
    BY DEF RuntimeInv, TypeOK, Pending
  <2>2. \A d \in LaunchOps : c # LaunchCall(d)
    BY <1>1, <2>1 DEF RuntimeInv, LaunchInv
  <2>3. \A t \in Tasks :
          /\ c \notin {ThreadCall(t), TurnCall(t), CleanupCall(t)}
          /\ \A by \in Callers : c # InterruptCall(t, by)
    BY <1>2, <2>1 DEF RuntimeInv, TaskInv, BeginEnded
  <2>. QED
    BY <2>1, <2>2, <2>3, CallCases
<1>. QED
  BY <1>1, <1>2, <1>3

LEMMA LaunchKeepsInv ==
  ASSUME RuntimeInv, Initialized \/ CapabilitiesLoaded \/ LaunchFails
  PROVE  RuntimeInv'
<1>1. PICK op \in LaunchOps, job \in jobs :
        /\ job \in {Granted(LaunchCall(op)), Denied(LaunchCall(op))}
        /\ jobs' = jobs \ {job}
        /\ \/ Initialized /\ op = "initialize"
           \/ CapabilitiesLoaded
           \/ LaunchFails
  BY DEF Initialized, CapabilitiesLoaded, LaunchFails, LaunchStep, LaunchOps, Granted, Denied
<1>2. /\ calls = {} /\ launch = op
      /\ \A t \in Tasks : starts[t] = "none"
  BY <1>1, NothingBeforeLaunch
<1>3. /\ Single(LaunchCall(op)) /\ LaunchCall(op) \in Call
      /\ \A d \in LaunchOps \ {op} : ~ Pending(LaunchCall(d))
  BY <1>2, CallFacts DEF RuntimeInv, LaunchInv, LaunchOps
<1>4. /\ UNCHANGED <<awaited, starts, thread, stops, browserThreads, browserCleanups, told,
                     requests, turns, notes, cleaned, closing>>
      /\ \/ /\ calls' = {} /\ launch' = "listening"
            /\ ready' = TRUE /\ process = "running" /\ process' = process /\ queue' = queue
         \/ /\ calls' = {LaunchCall("capabilities")} /\ launch' = "capabilities"
            /\ op = "initialize"
            /\ ready' = ready /\ process = "running" /\ process' = process /\ queue' = queue
         \/ /\ calls' = {} /\ launch' = "failed"
            /\ ready' = FALSE /\ process' = "none"
            /\ \/ queue' \in {queue, <<>>}
               \/ queue' = Append(queue, Failure) /\ process # "none"
  <2>1. CASE Initialized /\ op = "initialize"
    BY <1>2, <2>1 DEF Initialized, LaunchStep, Ready
  <2>2. CASE CapabilitiesLoaded
    BY <1>2, <2>2 DEF CapabilitiesLoaded, LaunchStep, Ready
  <2>3. CASE LaunchFails
    BY <1>2, <2>3 DEF LaunchFails
  <2>. QED
    BY <1>1, <2>1, <2>2, <2>3
<1>5. \E new \in SUBSET {LaunchCall("capabilities")} : calls' = calls \union new
  BY <1>2, <1>4
<1>6. PICK new \in SUBSET {LaunchCall("capabilities")} : After({job}, new)
  BY <1>1, <1>5, TakesCalls
<1>7. /\ queue' \in Seq(Event) /\ Once(queue')
      /\ Range(queue') \subseteq Range(queue) \union {Failure}
      /\ Failure \in Range(queue') => process' = "none" \/ Failure \in Range(queue)
  BY <1>4, QueueFails
<1>8. TypeOK'
  <2>1. calls' \subseteq Call /\ jobs' \subseteq Job
    BY <1>1, <1>4, CallFacts DEF RuntimeInv, TypeOK, LaunchOps
  <2>2. \A i, j \in 1 .. Len(queue') : queue'[i] = Failure /\ queue'[j] = Failure => i = j
    BY <1>7 DEF Once
  <2>3. /\ process' \in {"running", "exited", "none"} /\ ready' \in BOOLEAN
        /\ launch' \in {"initialize", "capabilities", "listening", "failed"}
    BY <1>4 DEF RuntimeInv, TypeOK
  <2>. QED
    BY <1>4, <1>7, <2>1, <2>2, <2>3 DEF RuntimeInv, TypeOK
<1>9. ConnectionInv'
  <2>1. ready' => process' = "running" /\ launch' = "listening"
    BY <1>2, <1>4 DEF RuntimeInv, ConnectionInv, LaunchOps
  <2>. QED
    BY <1>2, <1>4, <1>7, <2>1 DEF RuntimeInv, ConnectionInv
<1>10. LaunchInv'
  <2>1. ~ Pending(LaunchCall(op))' /\ Single(LaunchCall(op))'
    <3>1. LaunchCall(op) \notin calls'
      BY <1>2, <1>4, CallFacts DEF LaunchOps
    <3>. QED
      BY <1>1, <1>3, <3>1 DEF Single, Pending
  <2>2. ASSUME NEW d \in LaunchOps, d # op
        PROVE  Single(LaunchCall(d))' /\ (Pending(LaunchCall(d))' => launch' = d)
    <3>1. ~ Pending(LaunchCall(d))
      BY <1>3, <2>2
    <3>2. Granted(LaunchCall(d)) \notin jobs' /\ Denied(LaunchCall(d)) \notin jobs'
      BY <1>1, <3>1 DEF Pending
    <3>3. LaunchCall(d) \in calls' => d = "capabilities" /\ launch' = "capabilities"
      BY <1>4, <2>2, CallFacts DEF LaunchOps
    <3>. QED
      BY <3>2, <3>3 DEF Pending, Single
  <2>. QED
    BY <2>1, <2>2 DEF LaunchInv
<1>11. ASSUME NEW t \in Tasks
       PROVE  TaskInv(t)'
  <2>1. /\ ThreadCall(t) \notin new /\ TurnCall(t) \notin new /\ CleanupCall(t) \notin new
        /\ \A by \in Callers : InterruptCall(t, by) \notin new
    BY CallFacts DEF LaunchOps
  <2>2. Granted(TurnCall(t)) # job
    BY <1>1, CallFacts, JobFacts DEF LaunchOps
  <2>3. TaskInv(t) /\ starts[t] = "none"
    BY <1>2 DEF RuntimeInv
  <2>4. {Note(t), Completion(t)} \intersect Range(queue') # {} =>
          {Note(t), Completion(t)} \intersect Range(queue) # {}
    BY <1>7, EventFacts
  <2>. QED
    BY <1>4, <1>6, <2>1, <2>2, <2>3, <2>4, TaskKept
<1>. QED
  BY <1>8, <1>9, <1>10, <1>11 DEF RuntimeInv

-----------------------------------------------------------------------------
(* The map of browser threads: a thread is listed or is given a turn, or   *)
(* it is forgotten.                                                        *)

LEMMA ThreadListed ==
  ASSUME RuntimeInv, NEW th \in Tasks, NEW t \in Tasks \union {NoTask},
         \/ browserThreads' = browserThreads
         \/ browserThreads' =
              [z \in DOMAIN browserThreads \union {th} |->
                 IF z = th THEN t ELSE browserThreads[z]]
         \/ browserThreads' = [browserThreads EXCEPT ![th] = t]
  PROVE  /\ DOMAIN browserThreads' \subseteq Tasks
         /\ browserThreads' \in [DOMAIN browserThreads' -> Tasks \union {NoTask}]
         /\ \A u \in Range(browserThreads') : u \in Range(browserThreads) \/ u = t
<1>1. /\ browserThreads \in [DOMAIN browserThreads -> Tasks \union {NoTask}]
      /\ DOMAIN browserThreads \subseteq Tasks
  BY DEF RuntimeInv, TypeOK, ConnectionInv
<1>2. CASE browserThreads' = browserThreads
  BY <1>1, <1>2
<1>3. CASE browserThreads' = [z \in DOMAIN browserThreads \union {th} |->
                                IF z = th THEN t ELSE browserThreads[z]]
  BY <1>1, <1>3 DEF Range
<1>4. CASE browserThreads' = [browserThreads EXCEPT ![th] = t]
  BY <1>1, <1>4 DEF Range
<1>. QED
  BY <1>2, <1>3, <1>4

LEMMA ThreadForgotten ==
  ASSUME RuntimeInv, NEW th \in Tasks,
         \/ browserThreads' = browserThreads
         \/ browserThreads' = Restrict(browserThreads, DOMAIN browserThreads \ {th})
  PROVE  /\ DOMAIN browserThreads' \subseteq Tasks
         /\ browserThreads' \in [DOMAIN browserThreads' -> Tasks \union {NoTask}]
         /\ Range(browserThreads') \subseteq Range(browserThreads)
<1>1. /\ browserThreads \in [DOMAIN browserThreads -> Tasks \union {NoTask}]
      /\ DOMAIN browserThreads \subseteq Tasks
  BY DEF RuntimeInv, TypeOK, ConnectionInv
<1>2. CASE browserThreads' = browserThreads
  BY <1>1, <1>2
<1>3. CASE browserThreads' = Restrict(browserThreads, DOMAIN browserThreads \ {th})
  BY <1>1, <1>3 DEF Range, Restrict
<1>. QED
  BY <1>2, <1>3

-----------------------------------------------------------------------------
(* startTask.                                                              *)

\* A step of startTask of u, to s: it runs jobs of this call only.
LEMMA StartKeepsInv ==
  ASSUME RuntimeInv, NEW u \in Tasks, NEW gone, NEW new, After(gone, new),
         NEW s \in {"preparing", "thread", "turn"} \union BeginEnded,
         new \subseteq {ThreadCall(u), TurnCall(u)},
         gone \subseteq {Granted(ThreadCall(u)), Denied(ThreadCall(u)),
                        Granted(TurnCall(u)), Denied(TurnCall(u))},
         starts' = [starts EXCEPT ![u] = s], launch = "listening",
         Single(ThreadCall(u))', Pending(ThreadCall(u))' => s = "thread",
         Single(TurnCall(u))', Pending(TurnCall(u))' => s = "turn",
         s \in BeginEnded \/ ~ Known(u),
         thread' \in [Tasks -> Tasks],
         calls' = calls \union new, jobs' = jobs \ gone,
         calls' # {} => process = "running",
         DOMAIN browserThreads' \subseteq Tasks,
         browserThreads' \in [DOMAIN browserThreads' -> Tasks \union {NoTask}],
         \A t \in Range(browserThreads') :
           t \in Range(browserThreads) \/ t = NoTask \/ (t = u /\ s \in BeginEnded),
         UNCHANGED <<process, ready, launch, closing, awaited, stops, browserCleanups,
                     queue, told, requests, turns, notes, cleaned>>
  PROVE  RuntimeInv'
<1>1. TypeOK'
  <2>0. new \subseteq Call
    BY CallFacts
  <2>1. calls' \subseteq Call /\ jobs' \subseteq Job
    BY <2>0 DEF RuntimeInv, TypeOK
  <2>2. Range(browserThreads') \subseteq Tasks \union {NoTask}
    BY DEF Range
  <2>3. starts' \in [Tasks -> {"none", "preparing", "thread", "turn"} \union BeginEnded]
    BY DEF RuntimeInv, TypeOK
  <2>. QED
    BY <2>1, <2>2, <2>3 DEF RuntimeInv, TypeOK
<1>2. ConnectionInv'
  BY DEF RuntimeInv, ConnectionInv
<1>3. LaunchInv'
  BY CallFacts, LaunchKept DEF RuntimeInv, LaunchOps
<1>4. ASSUME NEW t \in Tasks, t # u
      PROVE  TaskInv(t)'
  <2>1. /\ ThreadCall(t) \notin new /\ TurnCall(t) \notin new /\ CleanupCall(t) \notin new
        /\ \A by \in Callers : InterruptCall(t, by) \notin new
    BY <1>4, CallFacts
  <2>2. Granted(TurnCall(t)) \notin gone
    BY <1>4, CallFacts, JobFacts
  <2>3. TaskInv(t) /\ starts'[t] = starts[t]
    BY <1>4 DEF RuntimeInv, TypeOK
  <2>4. t \in Range(browserThreads') => t \in Range(browserThreads)
    BY <1>4, RuntimeAssumption
  <2>. QED
    BY <2>1, <2>2, <2>3, <2>4, TaskKept
<1>5. TaskInv(u)'
  <2>1. TaskInv(u) /\ starts'[u] = s
    BY DEF RuntimeInv, TypeOK
  <2>2. /\ Pending(CleanupCall(u))' => Pending(CleanupCall(u))
        /\ \A by \in Callers : Pending(InterruptCall(u, by))' => Pending(InterruptCall(u, by))
    BY CallFacts DEF After
  <2>3. Known(u) => s \in BeginEnded
    OBVIOUS
  <2>4. s \in BeginEnded => Known(u)'
    BY <2>1 DEF Known
  <2>5. u \in Range(browserThreads') => u \in Range(browserThreads) \/ s \in BeginEnded
    BY RuntimeAssumption
  <2>6. starts[u] \in BeginEnded => Known(u)
    BY DEF Known
  <2>7. /\ Single(ThreadCall(u))' /\ (Pending(ThreadCall(u))' => starts'[u] = "thread")
        /\ Single(TurnCall(u))' /\ (Pending(TurnCall(u))' => starts'[u] = "turn")
        /\ starts'[u] # "none" => launch' = "listening"
    BY <2>1
  <2>8. /\ Pending(CleanupCall(u))' => Known(u)'
        /\ \A by \in Callers : Pending(InterruptCall(u, by))' => starts'[u] \in BeginEnded
        /\ u \in Range(browserThreads') => starts'[u] \in BeginEnded
    BY <2>1, <2>2, <2>3, <2>4, <2>5, <2>6 DEF TaskInv
  <2>9. /\ turns'[u] # "none" => Known(u)'
        /\ {Note(u), Completion(u)} \intersect Range(queue') # {} => Known(u)'
        /\ {Note(u), Completion(u)} \intersect told' # {} => starts'[u] \in BeginEnded
    BY <2>1, <2>3, <2>4, <2>6 DEF TaskInv
  <2>. QED
    BY <2>7, <2>8, <2>9 DEF TaskInv
<1>. QED
  BY <1>1, <1>2, <1>3, <1>4, <1>5 DEF RuntimeInv

LEMMA StartTaskKeepsInv ==
  ASSUME RuntimeInv, NEW u \in Tasks,
         (\E th \in Tasks : StartTask(u, th)) \/ SendThread(u)
  PROVE  RuntimeInv'
<1>. DEFINE S == Tasks \union {NoTask}
<1>1. /\ TaskInv(u) /\ calls \subseteq Call /\ thread \in [Tasks -> Tasks]
      /\ DOMAIN browserThreads \subseteq Tasks
      /\ browserThreads \in [DOMAIN browserThreads -> S]
      /\ ready => launch = "listening"
      /\ calls # {} => process = "running"
  BY DEF RuntimeInv, TypeOK, ConnectionInv
<1>2. /\ ThreadCall(u) # TurnCall(u) /\ jobs = {} /\ starts[u] \notin BeginEnded
      /\ ~ Known(u) /\ starts[u] # "thread" /\ starts[u] # "turn"
  BY CallFacts DEF StartTask, SendThread, NextCallback, BeginEnded, Known
<1>3. ~ Pending(ThreadCall(u)) /\ ~ Pending(TurnCall(u))
  BY <1>1, <1>2 DEF TaskInv
<1>4. ASSUME NEW th \in Tasks, StartTask(u, th)
      PROVE  RuntimeInv'
  <2>1. jobs' = jobs \ {} /\ calls' = calls \union {}
    BY <1>4 DEF StartTask
  <2>2. After({}, {})
    BY <2>1, TakesCalls
  <2>3. /\ Single(ThreadCall(u))' /\ ~ Pending(ThreadCall(u))'
        /\ Single(TurnCall(u))' /\ ~ Pending(TurnCall(u))'
    BY <1>3, <2>1 DEF Single, Pending
  <2>4. thread' \in [Tasks -> Tasks]
    BY <1>1, <1>4 DEF StartTask
  <2>5. /\ starts' = [starts EXCEPT ![u] = "preparing"] /\ launch = "listening"
        /\ browserThreads' = browserThreads
        /\ UNCHANGED <<process, ready, launch, closing, awaited, stops, browserCleanups,
                      queue, told, requests, turns, notes, cleaned>>
    BY <1>1, <1>4 DEF StartTask
  <2>6. calls' # {} => process = "running"
    BY <1>1, <2>1
  <2>. QED
    BY <1>1, <1>2, <2>1, <2>2, <2>3, <2>4, <2>5, <2>6, StartKeepsInv
<1>5. CASE SendThread(u) /\ process = "running"
  <2>1. jobs' = jobs \ {} /\ calls' = calls \union {ThreadCall(u)}
    BY <1>5 DEF SendThread
  <2>2. After({}, {ThreadCall(u)})
    BY <2>1, TakesCalls
  <2>3. /\ Single(ThreadCall(u))'
        /\ Single(TurnCall(u))' /\ ~ Pending(TurnCall(u))'
    BY <1>2, <1>3, <2>1 DEF Single, Pending
  <2>4. /\ starts' = [starts EXCEPT ![u] = "thread"]
        /\ browserThreads' = browserThreads /\ thread' = thread
        /\ UNCHANGED <<process, ready, launch, closing, awaited, stops, browserCleanups,
                      queue, told, requests, turns, notes, cleaned>>
    BY <1>5 DEF SendThread
  <2>5. launch = "listening"
    BY <1>1, <1>5 DEF TaskInv, SendThread
  <2>. QED
    BY <1>1, <1>2, <1>5, <2>1, <2>2, <2>3, <2>4, <2>5, StartKeepsInv
<1>6. CASE SendThread(u) /\ process # "running"
  <2>1. jobs' = jobs \ {} /\ calls' = calls \union {}
    BY <1>6 DEF SendThread
  <2>2. After({}, {})
    BY <2>1, TakesCalls
  <2>3. /\ Single(ThreadCall(u))' /\ ~ Pending(ThreadCall(u))'
        /\ Single(TurnCall(u))' /\ ~ Pending(TurnCall(u))'
    BY <1>3, <2>1 DEF Single, Pending
  <2>4. /\ starts' = [starts EXCEPT ![u] = "rejected"]
        /\ browserThreads' = browserThreads /\ thread' = thread
        /\ UNCHANGED <<process, ready, launch, closing, awaited, stops, browserCleanups,
                      queue, told, requests, turns, notes, cleaned>>
    BY <1>6 DEF SendThread
  <2>5. launch = "listening"
    BY <1>1, <1>6 DEF TaskInv, SendThread
  <2>6. "rejected" \in BeginEnded
    BY DEF BeginEnded
  <2>. QED
    BY <1>1, <1>2, <1>6, <2>1, <2>2, <2>3, <2>4, <2>5, <2>6, StartKeepsInv
<1>. QED
  BY <1>4, <1>5, <1>6

\* When a response to startTask is continued, its next call is its only one.
LEMMA StartJob ==
  ASSUME RuntimeInv, NEW u \in Tasks, NEW c \in {ThreadCall(u), TurnCall(u)},
         NEW job \in {Granted(c), Denied(c)}, job \in jobs, jobs' = jobs \ {job},
         NEW new \in SUBSET {TurnCall(u)}, c \notin new, calls' = calls \union new
  PROVE  /\ After({job}, new) /\ launch = "listening"
         /\ Single(ThreadCall(u))' /\ ~ Pending(ThreadCall(u))'
         /\ Single(TurnCall(u))' /\ (Pending(TurnCall(u))' => TurnCall(u) \in new)
         /\ {job} \subseteq {Granted(ThreadCall(u)), Denied(ThreadCall(u)),
                            Granted(TurnCall(u)), Denied(TurnCall(u))}
         /\ c = ThreadCall(u) => ~ Known(u)
<1>1. After({job}, new)
  BY TakesCalls
<1>2. /\ TaskInv(u) /\ Pending(c) /\ Single(c)
      /\ ThreadCall(u) \in Call /\ TurnCall(u) \in Call /\ ThreadCall(u) # TurnCall(u)
  BY CallFacts DEF RuntimeInv, TaskInv, Pending
<1>3. ~ Pending(c)' /\ Single(c)'
  BY <1>2, JobFacts DEF Single, Pending
<1>4. CASE c = ThreadCall(u)
  <2>1. ~ Pending(TurnCall(u)) /\ starts[u] = "thread"
    BY <1>2, <1>4 DEF TaskInv
  <2>2. ~ Known(u)
    BY <2>1 DEF Known, Pending, BeginEnded
  <2>3. Single(TurnCall(u))' /\ (Pending(TurnCall(u))' => TurnCall(u) \in new)
    BY <2>1 DEF Single, Pending
  <2>. QED
    BY <1>1, <1>2, <1>3, <1>4, <2>1, <2>2, <2>3 DEF TaskInv
<1>5. CASE c = TurnCall(u)
  <2>1. ~ Pending(ThreadCall(u)) /\ starts[u] = "turn"
    BY <1>2, <1>5 DEF TaskInv
  <2>2. Single(ThreadCall(u))' /\ ~ Pending(ThreadCall(u))'
    BY <1>2, <1>5, <2>1 DEF Single, Pending
  <2>. QED
    BY <1>1, <1>2, <1>3, <1>5, <2>1, <2>2 DEF TaskInv
<1>. QED
  BY <1>4, <1>5

LEMMA StartContinues ==
  ASSUME RuntimeInv, NEW u \in Tasks,
         StartRejected(u) \/ ThreadStarted(u) \/ ThreadRefused(u) \/ TurnStarted(u)
  PROVE  RuntimeInv'
<1>. DEFINE S == Tasks \union {NoTask}
<1>1. /\ TaskInv(u) /\ thread \in [Tasks -> Tasks] /\ thread[u] \in Tasks
      /\ DOMAIN browserThreads \subseteq Tasks
      /\ browserThreads \in [DOMAIN browserThreads -> S]
      /\ calls # {} => process = "running"
  BY DEF RuntimeInv, TypeOK, ConnectionInv
<1>2. {"started", "rejected"} \subseteq BeginEnded
  BY DEF BeginEnded
\* It is over.
<1>3. ASSUME NEW c \in {ThreadCall(u), TurnCall(u)}, NEW job \in {Granted(c), Denied(c)},
             job \in jobs, jobs' = jobs \ {job}, calls' = calls,
             NEW s \in BeginEnded, starts' = [starts EXCEPT ![u] = s],
             DOMAIN browserThreads' \subseteq Tasks,
             browserThreads' \in [DOMAIN browserThreads' -> S],
             \A t \in Range(browserThreads') :
               t \in Range(browserThreads) \/ t = NoTask \/ t = u,
             UNCHANGED <<process, ready, launch, closing, awaited, thread, stops,
                         browserCleanups, queue, told, requests, turns, notes, cleaned>>
      PROVE  RuntimeInv'
  <2>1. calls' = calls \union {} /\ {} \in SUBSET {TurnCall(u)} /\ c \notin {}
    BY <1>3
  <2>2. /\ After({job}, {}) /\ launch = "listening"
        /\ Single(ThreadCall(u))' /\ ~ Pending(ThreadCall(u))'
        /\ Single(TurnCall(u))' /\ ~ Pending(TurnCall(u))'
        /\ {job} \subseteq {Granted(ThreadCall(u)), Denied(ThreadCall(u)),
                            Granted(TurnCall(u)), Denied(TurnCall(u))}
    BY <1>3, <2>1, StartJob
  <2>. QED
    BY <1>1, <1>3, <2>1, <2>2, StartKeepsInv
<1>4. CASE StartRejected(u)
  <2>1. PICK c \in {ThreadCall(u), TurnCall(u)} :
          Denied(c) \in jobs /\ jobs' = jobs \ {Denied(c)}
    BY <1>4 DEF StartRejected, ThreadCall, TurnCall, Denied
  <2>2. /\ starts' = [starts EXCEPT ![u] = "rejected"]
        /\ browserThreads' = browserThreads
        /\ UNCHANGED <<process, ready, launch, closing, awaited, calls, thread, stops,
                      browserCleanups, queue, told, requests, turns, notes, cleaned>>
    BY <1>4 DEF StartRejected
  <2>. QED
    BY <1>1, <1>2, <1>3, <2>1, <2>2
<1>5. CASE ThreadRefused(u)
  <2>1. Granted(ThreadCall(u)) \in jobs /\ jobs' = jobs \ {Granted(ThreadCall(u))}
    BY <1>5 DEF ThreadRefused, Granted
  <2>2. /\ starts' = [starts EXCEPT ![u] = "rejected"]
        /\ browserThreads' = browserThreads
        /\ UNCHANGED <<process, ready, launch, closing, awaited, calls, thread, stops,
                      browserCleanups, queue, told, requests, turns, notes, cleaned>>
    BY <1>5 DEF ThreadRefused
  <2>. QED
    BY <1>1, <1>2, <1>3, <2>1, <2>2
<1>6. CASE TurnStarted(u)
  <2>1. Granted(TurnCall(u)) \in jobs /\ jobs' = jobs \ {Granted(TurnCall(u))}
    BY <1>6 DEF TurnStarted, Granted
  <2>2. /\ UNCHANGED <<process, ready, launch, closing, awaited, calls, thread, stops,
                      browserCleanups, queue, told, requests, turns, notes, cleaned>>
        /\ \/ browserThreads' = browserThreads
           \/ browserThreads' = [browserThreads EXCEPT ![thread[u]] = u]
    BY <1>6 DEF TurnStarted
  <2>3. PICK s \in BeginEnded : starts' = [starts EXCEPT ![u] = s]
    BY <1>2, <1>6 DEF TurnStarted
  <2>4. /\ DOMAIN browserThreads' \subseteq Tasks
        /\ browserThreads' \in [DOMAIN browserThreads' -> S]
        /\ \A t \in Range(browserThreads') : t \in Range(browserThreads) \/ t = u
    BY <1>1, <2>2, ThreadListed
  <2>. QED
    BY <1>3, <2>1, <2>2, <2>3, <2>4
<1>7. CASE ThreadStarted(u)
  <2>1. Granted(ThreadCall(u)) \in jobs /\ jobs' = jobs \ {Granted(ThreadCall(u))}
    BY <1>7 DEF ThreadStarted, Granted
  <2>2. /\ UNCHANGED <<process, ready, launch, closing, awaited, thread, stops,
                      browserCleanups, queue, told, requests, turns, notes, cleaned>>
        /\ \/ browserThreads' = browserThreads
           \/ browserThreads' =
                [th \in DOMAIN browserThreads \union {thread[u]} |->
                   IF th = thread[u] THEN NoTask ELSE browserThreads[th]]
    BY <1>7 DEF ThreadStarted
  <2>3. /\ DOMAIN browserThreads' \subseteq Tasks
        /\ browserThreads' \in [DOMAIN browserThreads' -> S]
        /\ \A t \in Range(browserThreads') : t \in Range(browserThreads) \/ t = NoTask
    BY <1>1, <2>2, ThreadListed
  <2>4. CASE process # "running"
    <3>1. starts' = [starts EXCEPT ![u] = "rejected"] /\ calls' = calls
      BY <1>7, <2>4 DEF ThreadStarted
    <3>. QED
      BY <1>2, <1>3, <2>1, <2>2, <2>3, <3>1
  <2>5. CASE process = "running"
    <3>1. starts' = [starts EXCEPT ![u] = "turn"] /\ calls' = calls \union {TurnCall(u)}
      BY <1>7, <2>5 DEF ThreadStarted
    <3>2. ThreadCall(u) # TurnCall(u)
      BY CallFacts
    <3>3. /\ After({Granted(ThreadCall(u))}, {TurnCall(u)}) /\ launch = "listening"
          /\ Single(ThreadCall(u))' /\ ~ Pending(ThreadCall(u))'
          /\ Single(TurnCall(u))' /\ ~ Known(u)
      BY <2>1, <3>1, <3>2, StartJob
    <3>. QED
      BY <1>1, <2>1, <2>2, <2>3, <2>5, <3>1, <3>3, StartKeepsInv
  <2>. QED
    BY <2>4, <2>5
<1>. QED
  BY <1>4, <1>5, <1>6, <1>7

-----------------------------------------------------------------------------
(* Every other step: it starts nothing, and runs no continuation of a      *)
(* startTask.                                                              *)

\* The calls to end a turn: the turn is known when they are made.
EndsTurn(c) ==
  /\ c \in Call
  /\ \/ c.op = "cleanup" /\ Known(c.task)
     \/ c.op = "interrupt" /\ starts[c.task] \in BeginEnded

\* An event is appended that no task has to know of first, or whose task does.
Reports(e) == e \in Event \ {Failure} /\ \A t \in Tasks : e \in {Note(t), Completion(t)} => Known(t)

\* At most such an event is appended.
QueueReports == queue' = queue \/ \E e : Reports(e) /\ queue' = Append(queue, e)

LEMMA StepKeepsInv ==
  ASSUME RuntimeInv, NEW gone, NEW new, After(gone, new),
         \A c \in new : EndsTurn(c), \A t \in Tasks : Granted(TurnCall(t)) \notin gone,
         calls' \subseteq Call, jobs' \subseteq Job, calls' # {} => process = "running",
         UNCHANGED <<process, ready, launch, starts, thread, told>>,
         closing' \in {"no", "interrupting", "cleaning", "closed"}, awaited' \subseteq Tasks,
         stops' \in [Tasks -> [Callers -> {"none", "asked", "cleaning"} \union StopEnded]],
         DOMAIN browserThreads' \subseteq Tasks,
         browserThreads' \in [DOMAIN browserThreads' -> Tasks \union {NoTask}],
         Range(browserThreads') \subseteq Range(browserThreads),
         browserCleanups' \subseteq Tasks,
         QueueReports,
         requests' \in [Permissions -> {"unasked", "open", "decided", "settled"}],
         turns' \in [Tasks -> {"none", "running", "completed", "late"}],
         \A t \in Tasks : turns'[t] = turns[t] \/ Known(t) \/ Known(t)',
         notes' \in [Tasks -> 0 .. MaxNotes], cleaned' \in [Tasks -> Nat]
  PROVE  RuntimeInv'
<1>1. /\ queue' \in Seq(Event) /\ Once(queue')
      /\ Failure \in Range(queue') => Failure \in Range(queue)
      /\ \A t \in Tasks : {Note(t), Completion(t)} \intersect Range(queue') # {} =>
           {Note(t), Completion(t)} \intersect Range(queue) # {} \/ Known(t)
  <2>1. queue \in Seq(Event) /\ Once(queue)
    BY DEF RuntimeInv, TypeOK, Once
  <2>2. ASSUME NEW e, Reports(e), queue' = Append(queue, e)
        PROVE  /\ queue' \in Seq(Event) /\ Once(queue')
               /\ Failure \in Range(queue') => Failure \in Range(queue)
               /\ \A t \in Tasks : {Note(t), Completion(t)} \intersect Range(queue') # {} =>
                    {Note(t), Completion(t)} \intersect Range(queue) # {} \/ Known(t)
    <3>1. e \in Event /\ e # Failure
      BY <2>2 DEF Reports
    <3>2. queue' \in Seq(Event) /\ Once(queue') /\ Range(queue') = Range(queue) \union {e}
      BY <2>1, <2>2, <3>1, QueueAppend
    <3>3. ASSUME NEW t \in Tasks
          PROVE  {Note(t), Completion(t)} \intersect Range(queue') # {} =>
                   {Note(t), Completion(t)} \intersect Range(queue) # {} \/ Known(t)
      BY <2>2, <3>2 DEF Reports
    <3>4. Failure \in Range(queue') => Failure \in Range(queue)
      BY <3>1, <3>2
    <3>. QED
      BY <3>2, <3>3, <3>4
  <2>. QED
    BY <2>1, <2>2 DEF QueueReports
<1>2. TypeOK'
  <2>1. Range(browserThreads') \subseteq Tasks \union {NoTask}
    BY DEF RuntimeInv, TypeOK
  <2>2. \A i, j \in 1 .. Len(queue') : queue'[i] = Failure /\ queue'[j] = Failure => i = j
    BY <1>1 DEF Once
  <2>. QED
    BY <1>1, <2>1, <2>2 DEF RuntimeInv, TypeOK
<1>3. ConnectionInv'
  BY <1>1 DEF RuntimeInv, ConnectionInv
<1>4. LaunchInv'
  <2>1. \A op \in LaunchOps : ~ EndsTurn(LaunchCall(op))
    BY CallFacts DEF EndsTurn, LaunchOps
  <2>. QED
    BY <2>1, LaunchKept DEF RuntimeInv
<1>5. ASSUME NEW t \in Tasks
      PROVE  TaskInv(t)'
  <2>1. /\ ThreadCall(t) \notin new /\ TurnCall(t) \notin new
        /\ CleanupCall(t) \in new => Known(t)
        /\ \A by \in Callers : InterruptCall(t, by) \in new => starts[t] \in BeginEnded
    <3>1. /\ ThreadCall(t).op = "thread" /\ TurnCall(t).op = "turn"
          /\ CleanupCall(t).op = "cleanup" /\ CleanupCall(t).task = t
      BY CallFacts
    <3>2. ASSUME NEW by \in Callers
          PROVE  InterruptCall(t, by).op = "interrupt" /\ InterruptCall(t, by).task = t
      BY CallFacts
    <3>3. /\ ThreadCall(t) \notin new /\ TurnCall(t) \notin new
          /\ CleanupCall(t) \in new => Known(t)
      BY <3>1 DEF EndsTurn
    <3>4. ASSUME NEW by \in Callers, InterruptCall(t, by) \in new
          PROVE  starts[t] \in BeginEnded
      BY <3>2, <3>4 DEF EndsTurn
    <3>. QED
      BY <3>3, <3>4
  <2>2. /\ t \in Range(browserThreads') => t \in Range(browserThreads)
        /\ {Note(t), Completion(t)} \intersect Range(queue') # {} =>
             {Note(t), Completion(t)} \intersect Range(queue) # {} \/ Known(t)
        /\ TaskInv(t)
    BY <1>1 DEF RuntimeInv
  <2>. QED
    BY <2>1, <2>2, TaskKept
<1>. QED
  BY <1>2, <1>3, <1>4, <1>5 DEF RuntimeInv

\* A step that does nothing with the calls.
LEMMA NoCalls ==
  ASSUME RuntimeInv, UNCHANGED <<calls, jobs>>
  PROVE  /\ After({}, {}) /\ calls' \subseteq Call /\ jobs' \subseteq Job
         /\ calls' # {} => process = "running"
<1>1. jobs' = jobs \ {} /\ calls' = calls \union {}
  OBVIOUS
<1>. QED
  BY <1>1, TakesCalls DEF RuntimeInv, TypeOK, ConnectionInv

\* A step that leaves the map of browser threads alone.
LEMMA SameThreads ==
  ASSUME RuntimeInv, UNCHANGED browserThreads
  PROVE  /\ DOMAIN browserThreads' \subseteq Tasks
         /\ browserThreads' \in [DOMAIN browserThreads' -> Tasks \union {NoTask}]
         /\ Range(browserThreads') \subseteq Range(browserThreads)
BY DEF RuntimeInv, TypeOK, ConnectionInv

LEMMA RespondKeepsInv ==
  ASSUME RuntimeInv, NEW c \in calls, NEW ok \in BOOLEAN, Respond(c, ok)
  PROVE  RuntimeInv'
<1>1. c \in Call
  BY DEF RuntimeInv, TypeOK
<1>2. After({}, {})
  BY SettlesCalls DEF Respond
<1>3. calls' \subseteq Call /\ jobs' \subseteq Job /\ (calls' # {} => process = "running")
  BY <1>1 DEF Respond, Job, RuntimeInv, TypeOK, ConnectionInv
<1>4. ASSUME NEW t \in Tasks
      PROVE  /\ turns'[t] \in {"none", "running", "completed", "late"}
             /\ turns'[t] = turns[t] \/ Known(t) \/ Known(t)'
  <2>1. turns[t] \in {"none", "running", "completed", "late"}
    BY DEF RuntimeInv, TypeOK
  <2>2. CASE c.op = "turn" /\ ok /\ c.task = t
    <3>1. c = TurnCall(t)
      BY <1>1, <2>2, CallCases, CallFacts DEF LaunchOps
    <3>2. Known(t)'
      BY <2>2, <3>1 DEF Respond, Known, Granted
    <3>. QED
      BY <2>2, <3>2 DEF Respond, RuntimeInv, TypeOK
  <2>3. CASE ~ (c.op = "turn" /\ ok /\ c.task = t)
    BY <2>1, <2>3 DEF Respond, RuntimeInv, TypeOK
  <2>. QED
    BY <2>2, <2>3
<1>5. turns' \in [Tasks -> {"none", "running", "completed", "late"}]
  <2>1. turns' = [t \in Tasks |-> turns'[t]]
    BY DEF Respond, RuntimeInv, TypeOK
  <2>. QED
    BY <1>4, <2>1
<1>6. UNCHANGED <<process, ready, launch, closing, awaited, starts, thread, stops,
                 browserThreads, browserCleanups, queue, told, requests, notes, cleaned>>
  BY DEF Respond
<1>7. /\ closing' \in {"no", "interrupting", "cleaning", "closed"} /\ awaited' \subseteq Tasks
      /\ stops' \in [Tasks -> [Callers -> {"none", "asked", "cleaning"} \union StopEnded]]
      /\ browserCleanups' \subseteq Tasks
      /\ requests' \in [Permissions -> {"unasked", "open", "decided", "settled"}]
      /\ notes' \in [Tasks -> 0 .. MaxNotes] /\ cleaned' \in [Tasks -> Nat]
  BY <1>6 DEF RuntimeInv, TypeOK
<1>8. /\ DOMAIN browserThreads' \subseteq Tasks
      /\ browserThreads' \in [DOMAIN browserThreads' -> Tasks \union {NoTask}]
      /\ Range(browserThreads') \subseteq Range(browserThreads)
  BY <1>6, SameThreads
<1>10. QueueReports
  BY <1>6 DEF QueueReports
<1>. QED
  BY <1>2, <1>3, <1>4, <1>5, <1>6, <1>7, <1>8, <1>10, StepKeepsInv

\* What has been called for an ended turn belongs to a task that is known.
LEMMA KnownTasks ==
  ASSUME RuntimeInv, NEW t \in Tasks
  PROVE  /\ Pending(CleanupCall(t)) => Known(t)
         /\ \A by \in Callers : Pending(InterruptCall(t, by)) => starts[t] \in BeginEnded
         /\ t \in Range(browserThreads) => starts[t] \in BeginEnded
         /\ turns[t] # "none" => Known(t)
         /\ starts[t] \in BeginEnded => Known(t)
BY DEF RuntimeInv, TaskInv, Known

LEMMA NotesReport ==
  ASSUME NEW t \in Tasks, Known(t)
  PROVE  Reports(Note(t)) /\ Reports(Completion(t))
BY EventFacts DEF Reports

LEMMA PermissionsReport ==
  ASSUME NEW p \in Permissions
  PROVE  Reports(Required(p)) /\ Reports(Resolved(p))
BY EventFacts DEF Reports

\* The state of a stop becomes another.
LEMMA StopsTyped ==
  ASSUME RuntimeInv, NEW t \in Tasks, NEW by \in Callers,
         NEW s \in {"none", "asked", "cleaning"} \union StopEnded,
         stops' = [stops EXCEPT ![t][by] = s]
  PROVE  stops' \in [Tasks -> [Callers -> {"none", "asked", "cleaning"} \union StopEnded]]
BY DEF RuntimeInv, TypeOK

-----------------------------------------------------------------------------
(* Closing tabs, and the interrupts.                                       *)

LEMMA TabsStep ==
  ASSUME RuntimeInv, NEW t \in Tasks, CleanupBrowserTabs(t)
  PROVE  /\ \E new \in SUBSET {CleanupCall(t)} :
              calls' = calls \union new /\ (new # {} => process = "running")
         /\ DOMAIN browserThreads' \subseteq Tasks
         /\ browserThreads' \in [DOMAIN browserThreads' -> Tasks \union {NoTask}]
         /\ Range(browserThreads') \subseteq Range(browserThreads)
         /\ browserCleanups' \subseteq Tasks
         /\ cleaned' \in [Tasks -> Nat]
<1>1. /\ thread[t] \in Tasks /\ browserCleanups \subseteq Tasks /\ cleaned \in [Tasks -> Nat]
  BY DEF RuntimeInv, TypeOK
<1>2. \/ browserThreads' = browserThreads
      \/ browserThreads' = Restrict(browserThreads, DOMAIN browserThreads \ {thread[t]})
  BY DEF CleanupBrowserTabs
<1>3. \E new \in SUBSET {CleanupCall(t)} :
        calls' = calls \union new /\ (new # {} => process = "running")
  <2>1. CASE calls' = calls \union {CleanupCall(t)} /\ process = "running"
    BY <2>1
  <2>2. CASE calls' = calls
    <3>1. calls' = calls \union {}
      BY <2>2
    <3>. QED
      BY <3>1
  <2>. QED
    BY <2>1, <2>2 DEF CleanupBrowserTabs
<1>4. browserCleanups' \subseteq Tasks /\ cleaned' \in [Tasks -> Nat]
  BY <1>1 DEF CleanupBrowserTabs
<1>. QED
  BY <1>1, <1>2, <1>3, <1>4, ThreadForgotten

LEMMA InterruptedKeepsInv ==
  ASSUME RuntimeInv, NEW t \in Tasks, NEW by \in Callers, Interrupted(t, by)
  PROVE  RuntimeInv'
<1>. DEFINE job == Granted(InterruptCall(t, by))
<1>1. /\ job \in jobs /\ jobs' = jobs \ {job} /\ CleanupBrowserTabs(t)
      /\ UNCHANGED <<process, ready, launch, closing, awaited, starts, thread, queue, told,
                     requests, turns, notes>>
  BY DEF Interrupted, Granted
<1>2. PICK new \in SUBSET {CleanupCall(t)} :
        calls' = calls \union new /\ (new # {} => process = "running")
  BY <1>1, TabsStep
<1>3. After({job}, new)
  BY <1>1, <1>2, TakesCalls
<1>4. \A c \in new : EndsTurn(c)
  <2>1. Known(t)
    BY <1>1, KnownTasks DEF Pending
  <2>. QED
    BY <2>1, CallFacts DEF EndsTurn
<1>5. \A u \in Tasks : Granted(TurnCall(u)) \notin {job}
  BY CallFacts, JobFacts
<1>6. /\ calls' \subseteq Call /\ jobs' \subseteq Job /\ (calls' # {} => process = "running")
  BY <1>1, <1>2, CallFacts DEF RuntimeInv, TypeOK, ConnectionInv
<1>7. stops' \in [Tasks -> [Callers -> {"none", "asked", "cleaning"} \union StopEnded]]
  <2>1. PICK s \in {"none", "asked", "cleaning"} \union StopEnded :
          stops' = [stops EXCEPT ![t][by] = s]
    BY DEF Interrupted, StopResult, StopEnded
  <2>. QED
    BY <2>1, StopsTyped
<1>8. /\ closing' \in {"no", "interrupting", "cleaning", "closed"} /\ awaited' \subseteq Tasks
      /\ requests' \in [Permissions -> {"unasked", "open", "decided", "settled"}]
      /\ turns' \in [Tasks -> {"none", "running", "completed", "late"}]
      /\ notes' \in [Tasks -> 0 .. MaxNotes]
  BY <1>1 DEF RuntimeInv, TypeOK
<1>10. QueueReports
  BY <1>1 DEF QueueReports
<1>. QED
  BY <1>1, <1>3, <1>4, <1>5, <1>6, <1>7, <1>8, TabsStep, <1>10, StepKeepsInv

LEMMA CleanupEndsKeepsInv ==
  ASSUME RuntimeInv, NEW t \in Tasks, NEW ok \in BOOLEAN, CleanupEnds(t, ok)
  PROVE  RuntimeInv'
<1>1. PICK job \in {Granted(CleanupCall(t)), Denied(CleanupCall(t))} :
        job \in jobs /\ jobs' = jobs \ {job}
  <2>1. CASE ok = TRUE
    BY <2>1 DEF CleanupEnds, Granted
  <2>2. CASE ok = FALSE
    BY <2>2 DEF CleanupEnds, Denied
  <2>. QED
    BY <2>1, <2>2
<1>2. /\ UNCHANGED <<process, ready, launch, closing, awaited, calls, starts, thread,
                     browserThreads, told, requests, turns, notes, cleaned>>
      /\ browserCleanups' = browserCleanups \ {thread[t]}
      /\ queue' = queue \/ queue' = Append(queue, Note(t))
  BY DEF CleanupEnds
<1>3. After({job}, {})
  <2>1. calls' = calls \union {}
    BY <1>2
  <2>. QED
    BY <1>1, <2>1, TakesCalls
<1>4. Reports(Note(t))
  BY <1>1, KnownTasks, NotesReport DEF Pending
<1>5. \A u \in Tasks : Granted(TurnCall(u)) \notin {job}
  <2>1. \A u \in Tasks : TurnCall(u) # CleanupCall(t)
    BY CallFacts
  <2>. QED
    BY <1>1, <2>1, JobFacts
<1>6. stops' \in [Tasks -> [Callers -> {"none", "asked", "cleaning"} \union StopEnded]]
  <2>1. StopResult \in StopEnded
    BY DEF StopResult, StopEnded
  <2>2. \A u \in Tasks, by \in Callers :
          stops[u][by] \in {"none", "asked", "cleaning"} \union StopEnded
    BY DEF RuntimeInv, TypeOK
  <2>. QED
    BY <2>1, <2>2 DEF CleanupEnds
<1>7. /\ closing' \in {"no", "interrupting", "cleaning", "closed"} /\ awaited' \subseteq Tasks
      /\ calls' \subseteq Call /\ jobs' \subseteq Job /\ (calls' # {} => process = "running")
      /\ browserCleanups' \subseteq Tasks
      /\ requests' \in [Permissions -> {"unasked", "open", "decided", "settled"}]
      /\ turns' \in [Tasks -> {"none", "running", "completed", "late"}]
      /\ notes' \in [Tasks -> 0 .. MaxNotes] /\ cleaned' \in [Tasks -> Nat]
  BY <1>1, <1>2 DEF RuntimeInv, TypeOK, ConnectionInv
<1>8. /\ DOMAIN browserThreads' \subseteq Tasks
      /\ browserThreads' \in [DOMAIN browserThreads' -> Tasks \union {NoTask}]
      /\ Range(browserThreads') \subseteq Range(browserThreads)
  BY <1>2, SameThreads
<1>9. /\ \A c \in {} : EndsTurn(c)
      /\ \A u \in Tasks : turns'[u] = turns[u] \/ Known(u) \/ Known(u)'
      /\ QueueReports
  BY <1>2, <1>4 DEF QueueReports
<1>10. UNCHANGED <<process, ready, launch, starts, thread, told>>
  BY <1>2
<1>. QED
  BY <1>3, <1>5, <1>6, <1>7, <1>8, <1>9, <1>10, StepKeepsInv

\* Interrupts are made, and refused.
LEMMA InterruptsKeepInv ==
  ASSUME RuntimeInv, NEW t \in Tasks, NEW by \in Callers,
         InterruptTask(t, by) \/ InterruptRejected(t, by)
  PROVE  RuntimeInv'
<1>. DEFINE job == Denied(InterruptCall(t, by))
<1>1. /\ UNCHANGED <<process, ready, launch, closing, awaited, starts, thread, browserThreads,
                     browserCleanups, queue, told, requests, turns, notes, cleaned>>
      /\ \/ /\ jobs' = jobs /\ calls' = calls \union {InterruptCall(t, by)}
            /\ ready /\ starts[t] = "started" /\ stops' = [stops EXCEPT ![t][by] = "asked"]
         \/ /\ jobs' = jobs \ {job} /\ calls' = calls
            /\ stops' = [stops EXCEPT ![t][by] = "failed"]
  BY DEF InterruptTask, InterruptRejected, Denied
<1>2. PICK gone \in {{}, {job}}, new \in {{}, {InterruptCall(t, by)}} :
        /\ jobs' = jobs \ gone /\ calls' = calls \union new
        /\ new # {} => ready /\ starts[t] = "started"
  <2>1. jobs \ {} = jobs /\ calls \union {} = calls
    OBVIOUS
  <2>2. CASE jobs' = jobs /\ calls' = calls \union {InterruptCall(t, by)}
                          /\ ready /\ starts[t] = "started"
    BY <2>1, <2>2
  <2>3. CASE jobs' = jobs \ {job} /\ calls' = calls
    BY <2>1, <2>3
  <2>. QED
    BY <1>1, <2>2, <2>3
<1>3. After(gone, new)
  BY <1>2, TakesCalls
<1>4. \A c \in new : EndsTurn(c)
  BY <1>2, CallFacts DEF EndsTurn, BeginEnded
<1>5. \A u \in Tasks : Granted(TurnCall(u)) \notin gone
  BY JobFacts
<1>6. stops' \in [Tasks -> [Callers -> {"none", "asked", "cleaning"} \union StopEnded]]
  BY <1>1, StopsTyped DEF StopEnded
<1>7. /\ closing' \in {"no", "interrupting", "cleaning", "closed"} /\ awaited' \subseteq Tasks
      /\ browserCleanups' \subseteq Tasks
      /\ requests' \in [Permissions -> {"unasked", "open", "decided", "settled"}]
      /\ turns' \in [Tasks -> {"none", "running", "completed", "late"}]
      /\ notes' \in [Tasks -> 0 .. MaxNotes] /\ cleaned' \in [Tasks -> Nat]
  BY <1>1 DEF RuntimeInv, TypeOK
<1>8. calls' \subseteq Call /\ jobs' \subseteq Job /\ (calls' # {} => process = "running")
  BY <1>2, CallFacts DEF RuntimeInv, TypeOK, ConnectionInv
<1>9. /\ DOMAIN browserThreads' \subseteq Tasks
      /\ browserThreads' \in [DOMAIN browserThreads' -> Tasks \union {NoTask}]
      /\ Range(browserThreads') \subseteq Range(browserThreads)
  BY <1>1, SameThreads
<1>10. QueueReports
  BY <1>1 DEF QueueReports
<1>. QED
  BY <1>1, <1>3, <1>4, <1>5, <1>6, <1>7, <1>8, <1>9, <1>10, StepKeepsInv

\* The steps of shutdown before it closes the connection.
LEMMA ShutdownKeepsInv ==
  ASSUME RuntimeInv, Shutdown \/ AwaitCleanups
  PROVE  RuntimeInv'
<1>. DEFINE running == {browserThreads[th] : th \in DOMAIN browserThreads} \ {NoTask}
            asked == {InterruptCall(t, "shutdown") : t \in running}
<1>1. /\ UNCHANGED <<process, ready, launch, jobs, starts, thread, browserThreads,
                     browserCleanups, queue, told, requests, turns, notes, cleaned>>
      /\ calls' = calls \/ (ready /\ calls' = calls \union asked)
      /\ closing' \in {"no", "interrupting", "cleaning", "closed"}
      /\ awaited' \in {awaited, browserCleanups}
  BY DEF Shutdown, AwaitCleanups
<1>2. PICK new \in SUBSET asked :
        calls' = calls \union new /\ (new # {} => ready)
  <2>1. CASE calls' = calls
    <3>1. calls' = calls \union {}
      BY <2>1
    <3>. QED
      BY <3>1
  <2>. QED
    BY <1>1, <2>1
<1>3. jobs' = jobs \ {} /\ \A t \in Tasks : Granted(TurnCall(t)) \notin {}
  BY <1>1
<1>4. After({}, new)
  BY <1>2, <1>3, TakesCalls
<1>5. ASSUME NEW c \in new
      PROVE  EndsTurn(c)
  <2>1. PICK t \in running : c = InterruptCall(t, "shutdown")
    OBVIOUS
  <2>2. t \in Range(browserThreads) /\ t \in Tasks
    BY DEF Range, RuntimeInv, TypeOK
  <2>3. starts[t] \in BeginEnded
    BY <2>2, KnownTasks
  <2>. QED
    BY <2>1, <2>2, <2>3, CallFacts DEF EndsTurn, Callers
<1>6. stops' \in [Tasks -> [Callers -> {"none", "asked", "cleaning"} \union StopEnded]]
  <2>1. \A t \in Tasks, s \in {"none", "asked", "failed"} :
          [stops[t] EXCEPT !["shutdown"] = s]
            \in [Callers -> {"none", "asked", "cleaning"} \union StopEnded]
    BY DEF RuntimeInv, TypeOK, StopEnded, Callers
  <2>2. CASE Shutdown
    BY <2>1, <2>2 DEF Shutdown
  <2>3. CASE AwaitCleanups
    BY <2>3 DEF AwaitCleanups, RuntimeInv, TypeOK
  <2>. QED
    BY <2>2, <2>3
<1>7. /\ awaited' \subseteq Tasks /\ browserCleanups' \subseteq Tasks
      /\ requests' \in [Permissions -> {"unasked", "open", "decided", "settled"}]
      /\ turns' \in [Tasks -> {"none", "running", "completed", "late"}]
      /\ notes' \in [Tasks -> 0 .. MaxNotes] /\ cleaned' \in [Tasks -> Nat]
  BY <1>1 DEF RuntimeInv, TypeOK
<1>8. calls' \subseteq Call /\ jobs' \subseteq Job /\ (calls' # {} => process = "running")
  <2>1. new \subseteq Call
    BY <1>5 DEF EndsTurn
  <2>. QED
    BY <1>1, <1>2, <2>1 DEF RuntimeInv, TypeOK, ConnectionInv
<1>9. /\ DOMAIN browserThreads' \subseteq Tasks
      /\ browserThreads' \in [DOMAIN browserThreads' -> Tasks \union {NoTask}]
      /\ Range(browserThreads') \subseteq Range(browserThreads)
  BY <1>1, SameThreads
<1>. HIDE DEF running, asked
<1>10. QueueReports
  BY <1>1 DEF QueueReports
<1>. QED
  BY <1>1, <1>3, <1>4, <1>5, <1>6, <1>7, <1>8, <1>9, <1>10, StepKeepsInv

-----------------------------------------------------------------------------
(* The lines of the process, and what is told.                             *)

LEMMA LinesKeepInv ==
  ASSUME RuntimeInv, NEW t \in Tasks, NotePosted(t) \/ TurnCompleted(t)
  PROVE  RuntimeInv'
<1>1. Known(t) /\ turns[t] = "running"
  BY KnownTasks DEF NotePosted, TurnCompleted
<1>2. CASE NotePosted(t)
  <2>1. /\ UNCHANGED <<process, ready, launch, closing, awaited, calls, jobs, starts, thread,
                       stops, browserThreads, browserCleanups, told, requests, turns, cleaned>>
        /\ queue' = Append(queue, Note(t)) /\ Reports(Note(t))
    BY <1>1, <1>2, NotesReport DEF NotePosted
  <2>2. notes' \in [Tasks -> 0 .. MaxNotes]
    BY <1>2, RuntimeAssumption DEF NotePosted, RuntimeInv, TypeOK
  <2>3. /\ closing' \in {"no", "interrupting", "cleaning", "closed"} /\ awaited' \subseteq Tasks
        /\ stops' \in [Tasks -> [Callers -> {"none", "asked", "cleaning"} \union StopEnded]]
        /\ browserCleanups' \subseteq Tasks
        /\ requests' \in [Permissions -> {"unasked", "open", "decided", "settled"}]
        /\ turns' \in [Tasks -> {"none", "running", "completed", "late"}]
        /\ cleaned' \in [Tasks -> Nat]
    BY <2>1 DEF RuntimeInv, TypeOK
  <2>4. /\ After({}, {}) /\ calls' \subseteq Call /\ jobs' \subseteq Job
        /\ calls' # {} => process = "running"
    BY <2>1, NoCalls
  <2>5. /\ DOMAIN browserThreads' \subseteq Tasks
        /\ browserThreads' \in [DOMAIN browserThreads' -> Tasks \union {NoTask}]
        /\ Range(browserThreads') \subseteq Range(browserThreads)
    BY <2>1, SameThreads
  <2>6. /\ \A u \in Tasks : Granted(TurnCall(u)) \notin {}
        /\ \A c \in {} : EndsTurn(c)
        /\ QueueReports
        /\ \A u \in Tasks : turns'[u] = turns[u]
    BY <2>1 DEF QueueReports
  <2>7. UNCHANGED <<process, ready, launch, starts, thread, told>>
    BY <2>1
  <2>. QED
    BY <2>2, <2>3, <2>4, <2>5, <2>6, <2>7, StepKeepsInv
<1>3. CASE TurnCompleted(t)
  <2>1. /\ UNCHANGED <<process, ready, launch, closing, awaited, jobs, starts, thread, stops,
                       told, requests, notes>>
        /\ CleanupBrowserTabs(t)
        /\ queue' = Append(queue, Completion(t)) /\ Reports(Completion(t))
    BY <1>1, <1>3, NotesReport DEF TurnCompleted
  <2>2. PICK new \in SUBSET {CleanupCall(t)} :
          calls' = calls \union new /\ (new # {} => process = "running")
    BY <2>1, TabsStep
  <2>3. jobs' = jobs \ {} /\ \A u \in Tasks : Granted(TurnCall(u)) \notin {}
    BY <2>1
  <2>4. After({}, new)
    BY <2>2, <2>3, TakesCalls
  <2>5. \A c \in new : EndsTurn(c)
    BY <1>1, CallFacts DEF EndsTurn
  <2>6. calls' \subseteq Call /\ jobs' \subseteq Job /\ (calls' # {} => process = "running")
    BY <2>1, <2>2, CallFacts DEF RuntimeInv, TypeOK, ConnectionInv
  <2>7. /\ turns' \in [Tasks -> {"none", "running", "completed", "late"}]
        /\ \A u \in Tasks : turns'[u] = turns[u] \/ Known(u)
    BY <1>1, <1>3 DEF TurnCompleted, RuntimeInv, TypeOK
  <2>8. /\ closing' \in {"no", "interrupting", "cleaning", "closed"} /\ awaited' \subseteq Tasks
        /\ stops' \in [Tasks -> [Callers -> {"none", "asked", "cleaning"} \union StopEnded]]
        /\ requests' \in [Permissions -> {"unasked", "open", "decided", "settled"}]
        /\ notes' \in [Tasks -> 0 .. MaxNotes]
    BY <2>1 DEF RuntimeInv, TypeOK
  <2>9. /\ DOMAIN browserThreads' \subseteq Tasks
        /\ browserThreads' \in [DOMAIN browserThreads' -> Tasks \union {NoTask}]
        /\ Range(browserThreads') \subseteq Range(browserThreads)
        /\ browserCleanups' \subseteq Tasks
        /\ cleaned' \in [Tasks -> Nat]
    BY <2>1, TabsStep
  <2>10. /\ UNCHANGED <<process, ready, launch, starts, thread, told>>
         /\ QueueReports
    BY <2>1 DEF QueueReports
  <2>. QED
    BY <2>3, <2>4, <2>5, <2>6, <2>7, <2>8, <2>9, <2>10, StepKeepsInv
<1>. QED
  BY <1>2, <1>3

LEMMA PermissionsKeepInv ==
  ASSUME RuntimeInv, NEW p \in Permissions,
         (\E t \in Tasks : AskPermission(p, t)) \/ PermissionResolved(p) \/ ResolvePermission(p)
  PROVE  RuntimeInv'
<1>1. /\ UNCHANGED <<process, ready, launch, closing, awaited, calls, jobs, starts, thread,
                     stops, browserThreads, browserCleanups, told, turns, notes, cleaned>>
      /\ queue' = queue \/ queue' = Append(queue, Required(p))
                        \/ queue' = Append(queue, Resolved(p))
      /\ requests' \in [Permissions -> {"unasked", "open", "decided", "settled"}]
  BY DEF AskPermission, PermissionResolved, ResolvePermission, RuntimeInv, TypeOK
<1>2. QueueReports
  BY <1>1, PermissionsReport DEF QueueReports
<1>3. /\ closing' \in {"no", "interrupting", "cleaning", "closed"} /\ awaited' \subseteq Tasks
      /\ stops' \in [Tasks -> [Callers -> {"none", "asked", "cleaning"} \union StopEnded]]
      /\ browserCleanups' \subseteq Tasks
      /\ turns' \in [Tasks -> {"none", "running", "completed", "late"}]
      /\ notes' \in [Tasks -> 0 .. MaxNotes] /\ cleaned' \in [Tasks -> Nat]
  BY <1>1 DEF RuntimeInv, TypeOK
<1>4. /\ After({}, {}) /\ calls' \subseteq Call /\ jobs' \subseteq Job
      /\ calls' # {} => process = "running"
  BY <1>1, NoCalls
<1>5. /\ DOMAIN browserThreads' \subseteq Tasks
      /\ browserThreads' \in [DOMAIN browserThreads' -> Tasks \union {NoTask}]
      /\ Range(browserThreads') \subseteq Range(browserThreads)
  BY <1>1, SameThreads
<1>6. /\ \A u \in Tasks : Granted(TurnCall(u)) \notin {}
      /\ \A c \in {} : EndsTurn(c)
      /\ \A u \in Tasks : turns'[u] = turns[u]
      /\ UNCHANGED <<process, ready, launch, starts, thread, told>>
      /\ requests' \in [Permissions -> {"unasked", "open", "decided", "settled"}]
  BY <1>1
<1>. QED
  BY <1>2, <1>3, <1>4, <1>5, <1>6, StepKeepsInv

\* What is told is told when no continuation is left: who is known by then
\* has been told its ids.
LEMMA FlushKeepsInv ==
  ASSUME RuntimeInv, Flush
  PROVE  RuntimeInv'
<1>1. /\ jobs = {} /\ queue' = <<>> /\ told' = told \union Range(queue)
      /\ UNCHANGED <<process, ready, launch, closing, awaited, calls, jobs, starts, thread,
                     stops, browserThreads, browserCleanups, turns, notes, cleaned>>
  BY DEF Flush, NextCallback
<1>2. Range(queue) \subseteq Event
  BY DEF RuntimeInv, TypeOK, Range
<1>3. TypeOK'
  <2>1. requests' \in [Permissions -> {"unasked", "open", "decided", "settled"}]
    BY DEF Flush, RuntimeInv, TypeOK
  <2>2. queue' \in Seq(Event) /\ Len(queue') = 0
    BY <1>1, EmptyQueue
  <2>3. \A i, j \in 1 .. Len(queue') : queue'[i] = Failure /\ queue'[j] = Failure => i = j
    BY <2>2
  <2>. QED
    BY <1>1, <1>2, <2>1, <2>2, <2>3 DEF RuntimeInv, TypeOK
<1>4. ConnectionInv'
  BY <1>1, EmptyQueue DEF RuntimeInv, ConnectionInv
<1>5. After({}, {})
  BY <1>1, NoCalls
<1>6. LaunchInv'
  BY <1>1, <1>5, LaunchKept DEF RuntimeInv
<1>7. ASSUME NEW t \in Tasks
      PROVE  TaskInv(t)'
  <2>1. TaskInv(t) /\ (Known(t) <=> starts[t] \in BeginEnded)
    BY <1>1 DEF RuntimeInv, Known
  <2>2. \A c : (Pending(c)' <=> Pending(c)) /\ (Single(c)' <=> Single(c))
    BY <1>1 DEF Pending, Single
  <2>3. Known(t)' <=> Known(t)
    BY <1>1 DEF Known
  <2>4. Range(queue') = {}
    BY <1>1, EmptyQueue
  <2>5. {Note(t), Completion(t)} \intersect told' # {} => starts[t] \in BeginEnded
    BY <1>1, <2>1 DEF TaskInv
  <2>. QED
    BY <1>1, <2>1, <2>2, <2>3, <2>4, <2>5 DEF TaskInv
<1>. QED
  BY <1>3, <1>4, <1>6, <1>7 DEF RuntimeInv

-----------------------------------------------------------------------------
(* Every step keeps the invariant.                                         *)

LEMMA RuntimeInvStep == RuntimeInv /\ [Next]_vars => RuntimeInv'
<1>. SUFFICES ASSUME RuntimeInv, [Next]_vars PROVE RuntimeInv'
  OBVIOUS
<1>1. CASE ProcessExit \/ Drained \/ ConnectionFails \/ RequestTimeout \/ Close
  BY <1>1, FailureKeepsInv
<1>2. CASE Initialized \/ CapabilitiesLoaded \/ LaunchFails
  BY <1>2, LaunchKeepsInv
<1>3. ASSUME NEW t \in Tasks,
             SendThread(t) \/ \E th \in Tasks : StartTask(t, th)
      PROVE  RuntimeInv'
  BY <1>3, StartTaskKeepsInv
<1>4. ASSUME NEW t \in Tasks, Continue(t)
      PROVE  RuntimeInv'
  BY <1>4, StartContinues, CleanupEndsKeepsInv, InterruptedKeepsInv, InterruptsKeepInv
     DEF Continue
<1>5. ASSUME NEW t \in Tasks, NEW by \in Callers, InterruptTask(t, by)
      PROVE  RuntimeInv'
  BY <1>5, InterruptsKeepInv
<1>6. ASSUME NEW t \in Tasks,
             NotePosted(t) \/ TurnCompleted(t) \/ \E p \in Permissions : AskPermission(p, t)
      PROVE  RuntimeInv'
  BY <1>6, LinesKeepInv, PermissionsKeepInv
<1>7. ASSUME NEW call \in calls, NEW ok \in BOOLEAN, Respond(call, ok)
      PROVE  RuntimeInv'
  BY <1>7, RespondKeepsInv
<1>8. ASSUME NEW p \in Permissions, PermissionResolved(p) \/ ResolvePermission(p)
      PROVE  RuntimeInv'
  BY <1>8, PermissionsKeepInv
<1>9. CASE Flush \/ Shutdown \/ AwaitCleanups
  BY <1>9, FlushKeepsInv, ShutdownKeepsInv
<1>10. CASE UNCHANGED vars
  BY <1>10 DEF vars, RuntimeInv, TypeOK, ConnectionInv, LaunchInv, TaskInv, Pending, Single,
               Known
<1>. QED
  BY <1>1, <1>2, <1>3, <1>4, <1>5, <1>6, <1>7, <1>8, <1>9, <1>10 DEF Next

LEMMA RuntimeInvariant == Spec => []RuntimeInv
BY RuntimeInvInit, RuntimeInvStep, PTL DEF Spec

(* The state of the runtime keeps its types; above all the failure of the  *)
(* connection is queued once, though the exit of the process, the end of   *)
(* its streams, a bad line and a request timer may each report it.         *)
THEOREM RuntimeTypeCorrect == Spec => []TypeOK
<1>1. RuntimeInv => TypeOK
  BY DEF RuntimeInv
<1>. QED
  BY <1>1, RuntimeInvariant, PTL

(* No event of a turn reaches the listener before startTask of its task    *)
(* has returned, whatever chunk its lines arrive in: while the response is *)
(* a continuation that has not run, nothing is flushed.                    *)
THEOREM StartsAreTold == Spec => []StartBeforeEvents
<1>1. RuntimeInv => StartBeforeEvents
  BY DEF RuntimeInv, TaskInv, StartBeforeEvents
<1>. QED
  BY <1>1, RuntimeInvariant, PTL

-----------------------------------------------------------------------------
(* Completions and the failure.                                            *)

\* What CompletionOvertakesFailure says of one turn.
Overtakes(t) ==
  turns[t] = "completed" /\ closing # "closed" =>
    \/ Completion(t) \in told
    \/ \E i \in 1 .. Len(queue) :
         /\ queue[i] = Completion(t)
         /\ Failure \notin told
         /\ \A j \in 1 .. i : queue[j] # Failure

\* One event is queued, or none; nothing is told.
QueueGrows ==
  /\ queue' = queue \/ \E e \in Event : queue' = Append(queue, e)
  /\ told' = told

LEMMA QueueKeepsOrder ==
  ASSUME NEW t \in Tasks, RuntimeInv, Overtakes(t), QueueGrows,
         turns'[t] = "completed" => turns[t] = "completed",
         closing' # "closed" => closing # "closed"
  PROVE  Overtakes(t)'
<1>. SUFFICES ASSUME turns[t] = "completed", closing # "closed", Completion(t) \notin told
              PROVE  \E i \in 1 .. Len(queue') :
                       /\ queue'[i] = Completion(t)
                       /\ Failure \notin told'
                       /\ \A j \in 1 .. i : queue'[j] # Failure
  BY DEF Overtakes, QueueGrows
<1>1. PICK i \in 1 .. Len(queue) :
        /\ queue[i] = Completion(t)
        /\ Failure \notin told
        /\ \A j \in 1 .. i : queue[j] # Failure
  BY DEF Overtakes
<1>2. queue \in Seq(Event) /\ Len(queue) \in Nat
  BY LenProperties DEF RuntimeInv, TypeOK
<1>3. Len(queue') \in Nat /\ Len(queue) <= Len(queue') /\ \A j \in 1 .. Len(queue) : queue'[j] = queue[j]
  <2>1. CASE queue' = queue
    BY <1>2, <2>1
  <2>2. ASSUME NEW e \in Event, queue' = Append(queue, e)
        PROVE  /\ Len(queue') \in Nat /\ Len(queue) <= Len(queue')
               /\ \A j \in 1 .. Len(queue) : queue'[j] = queue[j]
    <3>1. Len(queue') = Len(queue) + 1 /\ \A j \in 1 .. Len(queue) : queue'[j] = queue[j]
      BY <1>2, <2>2, QueueAppend
    <3>. QED
      BY <1>2, <3>1
  <2>. QED
    BY <2>1, <2>2 DEF QueueGrows
<1>4. i \in 1 .. Len(queue') /\ \A j \in 1 .. i : j \in 1 .. Len(queue)
  BY <1>2, <1>3
<1>. QED
  BY <1>1, <1>3, <1>4 DEF QueueGrows

\* Its line is read while the connection has not failed.
LEMMA CompletionIsQueued ==
  ASSUME NEW t \in Tasks, RuntimeInv, TurnCompleted(t)
  PROVE  Overtakes(t)'
<1>. SUFFICES ASSUME turns'[t] = "completed"
              PROVE  \E i \in 1 .. Len(queue') :
                       /\ queue'[i] = Completion(t)
                       /\ Failure \notin told'
                       /\ \A j \in 1 .. i : queue'[j] # Failure
  BY DEF Overtakes
<1>1. process # "none"
  BY DEF TurnCompleted, RuntimeInv, TypeOK
<1>2. Failure \notin Range(queue) \union told
  BY <1>1 DEF RuntimeInv, ConnectionInv
<1>3. queue \in Seq(Event) /\ Completion(t) \in Event /\ Completion(t) # Failure
  BY EventFacts DEF RuntimeInv, TypeOK
<1>4. queue' = Append(queue, Completion(t)) /\ told' = told
  BY DEF TurnCompleted
<1>5. /\ Len(queue) \in Nat /\ Len(queue') = Len(queue) + 1
      /\ queue'[Len(queue) + 1] = Completion(t)
      /\ \A j \in 1 .. Len(queue) : queue'[j] = queue[j]
  BY <1>3, <1>4, QueueAppend
<1>6. ASSUME NEW j \in 1 .. Len(queue) + 1
      PROVE  queue'[j] # Failure
  <2>1. \A k \in 1 .. Len(queue) : queue[k] \in Range(queue)
    BY <1>3, LenProperties DEF Range
  <2>2. CASE j = Len(queue) + 1
    BY <1>3, <1>5, <2>2
  <2>3. CASE j \in 1 .. Len(queue)
    BY <1>2, <1>5, <2>1, <2>3
  <2>. QED
    BY <1>5, <2>2, <2>3
<1>. QED
  BY <1>2, <1>4, <1>5, <1>6

\* A start that fails drops what is queued, when no turn has run yet.
LEMMA LaunchKeepsOrder ==
  ASSUME NEW t \in Tasks, RuntimeInv, Overtakes(t),
         Initialized \/ CapabilitiesLoaded \/ LaunchFails
  PROVE  Overtakes(t)'
<1>1. CASE Initialized \/ CapabilitiesLoaded
  <2>1. QueueGrows /\ turns' = turns /\ closing' = closing
    BY <1>1 DEF Initialized, CapabilitiesLoaded, LaunchStep, QueueGrows
  <2>. QED
    BY <2>1, QueueKeepsOrder
<1>2. CASE LaunchFails
  <2>1. PICK op \in LaunchOps :
          Granted(LaunchCall(op)) \in jobs \/ Denied(LaunchCall(op)) \in jobs
    <3>1. PICK op \in {"initialize", "capabilities"}, ok \in BOOLEAN :
            [call |-> LaunchCall(op), ok |-> ok] \in jobs
      BY <1>2 DEF LaunchFails
    <3>2. CASE ok = TRUE
      BY <3>1, <3>2 DEF LaunchOps, Granted
    <3>3. CASE ok = FALSE
      BY <3>1, <3>3 DEF LaunchOps, Denied
    <3>. QED
      BY <3>2, <3>3
  <2>2. starts[t] = "none" /\ launch = op
    BY <2>1, NothingBeforeLaunch
  <2>3. turns[t] = "none"
    <3>1. ~ Pending(TurnCall(t))
      BY <2>2 DEF RuntimeInv, TaskInv
    <3>. QED
      BY <2>2, <3>1, KnownTasks DEF Known, Pending, BeginEnded
  <2>. QED
    BY <1>2, <2>3 DEF LaunchFails, Overtakes
<1>. QED
  BY <1>1, <1>2

\* The other steps queue an event or none, and end no turn.
LEMMA StepKeepsOrder ==
  ASSUME NEW t \in Tasks, RuntimeInv, Overtakes(t), [Next]_vars
  PROVE  Overtakes(t)'
<1>1. CASE ProcessExit \/ Drained \/ ConnectionFails \/ RequestTimeout
  <2>1. QueueGrows /\ turns' = turns /\ closing' = closing
    BY <1>1, EventFacts DEF ProcessExit, Drained, ConnectionFails, RequestTimeout, Fails,
                            HandleExit, QueueGrows
  <2>. QED
    BY <2>1, QueueKeepsOrder
<1>2. CASE Initialized \/ CapabilitiesLoaded \/ LaunchFails
  BY <1>2, LaunchKeepsOrder
<1>3. ASSUME NEW u \in Tasks,
             SendThread(u) \/ (\E th \in Tasks : StartTask(u, th))
               \/ (\E by \in Callers : InterruptTask(u, by))
      PROVE  Overtakes(t)'
  <2>1. QueueGrows /\ turns' = turns /\ closing' = closing
    BY <1>3 DEF SendThread, StartTask, InterruptTask, QueueGrows
  <2>. QED
    BY <2>1, QueueKeepsOrder
<1>4. ASSUME NEW u \in Tasks, Continue(u)
      PROVE  Overtakes(t)'
  <2>1. QueueGrows /\ turns' = turns /\ closing' = closing
    <3>1. CASE StartRejected(u) \/ ThreadStarted(u) \/ ThreadRefused(u) \/ TurnStarted(u)
      BY <3>1 DEF StartRejected, ThreadStarted, ThreadRefused, TurnStarted, QueueGrows
    <3>2. CASE \E ok \in BOOLEAN : CleanupEnds(u, ok)
      BY <3>2, EventFacts DEF CleanupEnds, QueueGrows
    <3>3. CASE \E by \in Callers : Interrupted(u, by) \/ InterruptRejected(u, by)
      BY <3>3 DEF Interrupted, InterruptRejected, QueueGrows
    <3>. QED
      BY <1>4, <3>1, <3>2, <3>3 DEF Continue
  <2>. QED
    BY <2>1, QueueKeepsOrder
<1>5. ASSUME NEW u \in Tasks, NotePosted(u) \/ \E p \in Permissions : AskPermission(p, u)
      PROVE  Overtakes(t)'
  <2>1. QueueGrows /\ turns' = turns /\ closing' = closing
    BY <1>5, EventFacts DEF NotePosted, AskPermission, QueueGrows
  <2>. QED
    BY <2>1, QueueKeepsOrder
<1>6. ASSUME NEW u \in Tasks, TurnCompleted(u)
      PROVE  Overtakes(t)'
  <2>1. CASE u = t
    BY <1>6, <2>1, CompletionIsQueued
  <2>2. CASE u # t
    <3>1. QueueGrows /\ closing' = closing
      BY <1>6, EventFacts DEF TurnCompleted, QueueGrows
    <3>2. turns'[t] = turns[t]
      BY <1>6, <2>2 DEF TurnCompleted, RuntimeInv, TypeOK
    <3>. QED
      BY <3>1, <3>2, QueueKeepsOrder
  <2>. QED
    BY <2>1, <2>2
<1>7. ASSUME NEW call \in calls, NEW ok \in BOOLEAN, Respond(call, ok)
      PROVE  Overtakes(t)'
  <2>1. QueueGrows /\ closing' = closing
    BY <1>7 DEF Respond, QueueGrows
  <2>2. turns'[t] = "completed" => turns[t] = "completed"
    BY <1>7 DEF Respond, RuntimeInv, TypeOK
  <2>. QED
    BY <2>1, <2>2, QueueKeepsOrder
<1>8. ASSUME NEW p \in Permissions, PermissionResolved(p) \/ ResolvePermission(p)
      PROVE  Overtakes(t)'
  <2>1. QueueGrows /\ turns' = turns /\ closing' = closing
    BY <1>8, EventFacts DEF PermissionResolved, ResolvePermission, QueueGrows
  <2>. QED
    BY <2>1, QueueKeepsOrder
<1>9. CASE Flush
  <2>1. queue \in Seq(Event)
    BY DEF RuntimeInv, TypeOK
  <2>2. \A i \in 1 .. Len(queue) : queue[i] \in Range(queue)
    BY <2>1, LenProperties DEF Range
  <2>. QED
    BY <1>9, <2>2 DEF Flush, Overtakes
<1>10. CASE Shutdown \/ AwaitCleanups
  <2>1. QueueGrows /\ turns' = turns /\ closing # "closed"
    BY <1>10 DEF Shutdown, AwaitCleanups, QueueGrows
  <2>. QED
    BY <2>1, QueueKeepsOrder
<1>11. CASE Close
  BY <1>11 DEF Close, Overtakes
<1>12. CASE UNCHANGED vars
  BY <1>12 DEF vars, Overtakes
<1>. QED
  BY <1>1, <1>2, <1>3, <1>4, <1>5, <1>6, <1>7, <1>8, <1>9, <1>10, <1>11, <1>12 DEF Next

(* The end of a turn that was read while the connection had not failed is  *)
(* told, and told before the failure, unless the bridge has closed the     *)
(* connection itself: nothing is taken out of the queue or put ahead of it.*)
THEOREM CompletionsOvertake == Spec => []CompletionOvertakesFailure
<1>. DEFINE Ordered == \A t \in Tasks : Overtakes(t)
<1>1. Init => Ordered
  BY DEF Init, Overtakes
<1>2. RuntimeInv /\ Ordered /\ [Next]_vars => Ordered'
  BY StepKeepsOrder
<1>3. Ordered <=> CompletionOvertakesFailure
  BY DEF Overtakes, CompletionOvertakesFailure
<1>. HIDE DEF Ordered
<1>. QED
  BY <1>1, <1>2, <1>3, RuntimeInvariant, PTL DEF Spec

-----------------------------------------------------------------------------
(* The browser tabs.  What the runtime keeps is by thread, what it has to  *)
(* do is by turn: the invariant relates the two, for the threads in which  *)
(* no turn was interrupted beside another one.                             *)

\* A turn was interrupted, by whomever.
Asked(t) == \E by \in Callers : stops[t][by] # "none"

\* Threads and tasks: a task that is not started is in the thread of its own
\* name; the tasks of a thread follow one another.
ThreadInv ==
  /\ \A t \in Tasks : thread[t] # t => starts[t] # "none" /\ starts[thread[t]] # "none"
  /\ \A t, u \in Tasks :
       thread[t] = thread[u] /\ starts[t] # "none" /\ starts[u] # "none" =>
         t = u \/ TaskOver(t) \/ TaskOver(u)

\* A turn as its lines and its start tell of it.
TurnInv(t) ==
  /\ Completion(t) \in Range(queue) \union told => turns[t] \in {"completed", "late"}
  /\ turns[t] = "late" => process = "none"
  /\ Granted(TurnCall(t)) \in jobs => turns[t] # "none"
  /\ starts[t] = "rejected" /\ process = "running" => turns[t] = "none"
  /\ ~ Known(t) => cleaned[t] = 0

\* Its interrupts: each calls once.
StopInv(t) ==
  /\ Asked(t) => starts[t] \in BeginEnded
  /\ \A by \in Callers :
       /\ Single(InterruptCall(t, by))
       /\ Pending(InterruptCall(t, by)) => stops[t][by] = "asked"

\* The runtime is ready once it is launched, as long as its process runs; and
\* what shutdown has done.
ShutdownInv ==
  /\ process = "running" /\ launch = "listening" => ready
  /\ closing = "closed" => process = "none"
  /\ \A t \in Tasks :
       /\ closing = "no" => stops[t]["shutdown"] = "none"
       /\ closing \in {"cleaning", "closed"} =>
            stops[t]["shutdown"] \in {"none"} \union StopEnded

\* One request to close the tabs of a thread.
CleanupInv ==
  \A t \in Tasks :
    /\ Single(CleanupCall(t))
    /\ Pending(CleanupCall(t)) =>
         /\ thread[t] \in browserCleanups
         /\ \A u \in Tasks : Pending(CleanupCall(u)) /\ thread[u] = thread[t] => u = t

\* A thread is listed with a turn of its own.
ListInv ==
  \A th \in DOMAIN browserThreads :
    browserThreads[th] = NoTask \/ thread[browserThreads[th]] = th

\* A thread whose tabs are being closed is not listed, and nothing starts in
\* it; one that is listed has no turn yet, or one that runs.
CalmThread(th) ==
  /\ th \in browserCleanups =>
       /\ th \notin DOMAIN browserThreads
       /\ \A u \in Tasks : thread[u] = th => starts[u] \in {"none", "preparing"} \/ Known(u)
  /\ th \in DOMAIN browserThreads =>
       browserThreads[th] = NoTask \/ turns[browserThreads[th]] = "running"

\* What its tasks have left of it.
CalmTask(t) ==
  LET th == thread[t]
  IN  /\ turns[t] \in {"completed", "late"} /\ ~ TaskOver(t) => th \notin DOMAIN browserThreads
      /\ \A by \in Callers : stops[t][by] = "done" =>
           th \notin DOMAIN browserThreads /\ th \notin browserCleanups

\* A browser turn: its thread is listed until its tabs are closed.
CalmTurn(t) ==
  LET listed == thread[t] \in DOMAIN browserThreads
  IN  /\ cleaned[t] <= 1
      /\ process = "running" =>
           /\ starts[t] \in {"turn", "started"} /\ turns[t] \in {"none", "running"} =>
                \/ listed /\ cleaned[t] = 0
                \/ ~ listed /\ Asked(t) /\ cleaned[t] = 1
           /\ turns[t] = "completed" => cleaned[t] = 1
           /\ Asked(t) /\ listed => cleaned[t] = 0

Calm(th) == ~ Disturbed(th)

TabInv ==
  /\ ThreadInv /\ ListInv /\ ShutdownInv /\ CleanupInv
  /\ \A t \in Tasks : TurnInv(t) /\ StopInv(t)
  /\ \A th \in Tasks : Calm(th) => CalmThread(th)
  /\ \A t \in Tasks : Calm(thread[t]) => CalmTask(t)
  /\ \A t \in ChromeTasks : Calm(thread[t]) => CalmTurn(t)

-----------------------------------------------------------------------------
LEMMA TabsFollow ==
  ASSUME RuntimeInv, TabInv
  PROVE  TabsAreClosed
<1>1. EveryTurnIsCleaned
  <2>1. \A t \in ChromeTasks : t \in Tasks
    BY RuntimeAssumption
  <2>. QED
    BY <2>1 DEF TabInv, Calm, CalmTurn, EveryTurnIsCleaned
<1>2. ListedTurnsRun
  <2>1. DOMAIN browserThreads \subseteq Tasks
    BY DEF RuntimeInv, TypeOK
  <2>. QED
    BY <2>1 DEF TabInv, Calm, CalmThread, ListedTurnsRun
<1>3. ASSUME NEW t \in Tasks, CleanupCall(t) \in calls
      PROVE  /\ thread[t] \in browserCleanups
             /\ \A u \in Tasks \ {t} : thread[u] = thread[t] =>
                  /\ CleanupCall(u) \notin calls
                  /\ \/ {ThreadCall(u), TurnCall(u)} \intersect calls = {}
                     \/ Disturbed(thread[t])
  <2>1. /\ thread[t] \in browserCleanups
        /\ \A u \in Tasks : Pending(CleanupCall(u)) /\ thread[u] = thread[t] => u = t
    BY <1>3 DEF TabInv, CleanupInv, Pending
  <2>2. ASSUME NEW u \in Tasks, thread[u] = thread[t], ~ Disturbed(thread[t])
        PROVE  {ThreadCall(u), TurnCall(u)} \intersect calls = {}
    <3>1. starts[u] \in {"none", "preparing"} \/ Known(u)
      <4>1. thread[t] \in Tasks
        BY DEF RuntimeInv, TypeOK
      <4>. QED
        BY <2>1, <2>2, <4>1 DEF TabInv, Calm, CalmThread
    <3>2. TaskInv(u)
      BY DEF RuntimeInv
    <3>. QED
      BY <3>1, <3>2 DEF TaskInv, Known, Pending, Single, BeginEnded
  <2>. QED
    BY <2>1, <2>2 DEF Pending
<1>. QED
  BY <1>1, <1>2, <1>3 DEF TabsAreClosed, CleanupIsAlone

\* What only the end of shutdown does.
LEMMA ClosingStep ==
  ASSUME [Next]_vars, closing' # closing
  PROVE  Shutdown \/ AwaitCleanups \/ Close
<1>1. ASSUME ProcessExit \/ Drained \/ ConnectionFails \/ RequestTimeout
      PROVE  FALSE
  BY <1>1 DEF ProcessExit, Drained, ConnectionFails, RequestTimeout, Fails
<1>2. ASSUME Initialized \/ CapabilitiesLoaded \/ LaunchFails
      PROVE  FALSE
  BY <1>2 DEF Initialized, CapabilitiesLoaded, LaunchFails, LaunchStep
<1>3. ASSUME NEW t \in Tasks,
             (\E th \in Tasks : StartTask(t, th)) \/ SendThread(t)
               \/ (\E by \in Callers : InterruptTask(t, by))
      PROVE  FALSE
  BY <1>3 DEF StartTask, SendThread, InterruptTask
<1>4. ASSUME NEW t \in Tasks, Continue(t)
      PROVE  FALSE
  BY <1>4 DEF Continue, StartRejected, ThreadStarted, ThreadRefused, TurnStarted, CleanupEnds,
              Interrupted, InterruptRejected
<1>5. ASSUME NEW t \in Tasks,
             NotePosted(t) \/ TurnCompleted(t) \/ \E p \in Permissions : AskPermission(p, t)
      PROVE  FALSE
  BY <1>5 DEF NotePosted, TurnCompleted, AskPermission
<1>6. ASSUME NEW c \in calls, NEW ok \in BOOLEAN, Respond(c, ok)
      PROVE  FALSE
  BY <1>6 DEF Respond
<1>7. ASSUME NEW p \in Permissions, PermissionResolved(p) \/ ResolvePermission(p)
      PROVE  FALSE
  BY <1>7 DEF PermissionResolved, ResolvePermission
<1>8. ASSUME Flush \/ UNCHANGED vars
      PROVE  FALSE
  BY <1>8 DEF Flush, vars
<1>. QED
  BY <1>1, <1>2, <1>3, <1>4, <1>5, <1>6, <1>7, <1>8 DEF Next

LEMMA ShutdownFollows ==
  ASSUME RuntimeInv, TabInv, RuntimeInv', TabInv', [Next]_vars, closing' = "closed"
  PROVE  /\ ~ ready'
         /\ closing # "closed" =>
              \A t \in Tasks :
                /\ InterruptCall(t, "shutdown") \notin calls
                /\ CleanupCall(t) \in calls =>
                     /\ thread[t] \notin awaited
                     /\ stops[t]["shutdown"] # "done" \/ Disturbed(thread[t])
<1>1. ~ ready'
  BY DEF RuntimeInv, ConnectionInv, TabInv, ShutdownInv
<1>2. ASSUME closing # "closed", NEW t \in Tasks
      PROVE  /\ InterruptCall(t, "shutdown") \notin calls
             /\ CleanupCall(t) \in calls =>
                  /\ thread[t] \notin awaited
                  /\ stops[t]["shutdown"] # "done" \/ Disturbed(thread[t])
  <2>1. closing = "cleaning" /\ awaited \intersect browserCleanups = {}
    BY <1>2, ClosingStep DEF Shutdown, AwaitCleanups, Close
  <2>2. "shutdown" \in Callers
    BY DEF Callers
  <2>3. InterruptCall(t, "shutdown") \notin calls
    BY <2>1, <2>2 DEF TabInv, ShutdownInv, StopInv, Pending, StopEnded
  <2>4. CleanupCall(t) \in calls => thread[t] \in browserCleanups
    BY DEF TabInv, CleanupInv, Pending
  <2>. QED
    BY <2>1, <2>2, <2>3, <2>4 DEF TabInv, Calm, CalmTask
<1>. QED
  BY <1>1, <1>2

-----------------------------------------------------------------------------
(* What leaves the parts of the invariant alone.                           *)

LEMMA TabInvInit == Init => TabInv
<1>. SUFFICES ASSUME Init PROVE TabInv
  OBVIOUS
<1>1. \A t \in Tasks, by \in Callers : stops[t][by] = "none"
  BY DEF Init
<1>2. \A t \in Tasks : ~ Asked(t)
  BY <1>1 DEF Asked
<1>3. /\ calls = {LaunchCall("initialize")} /\ jobs = {} /\ queue = <<>> /\ told = {}
      /\ \A t \in Tasks : /\ starts[t] = "none" /\ thread[t] = t /\ turns[t] = "none"
                          /\ cleaned[t] = 0
      /\ browserCleanups = {} /\ DOMAIN browserThreads = {}
      /\ closing = "no" /\ launch = "initialize"
  BY DEF Init
<1>4. \A t \in Tasks : /\ ~ Pending(CleanupCall(t)) /\ Single(CleanupCall(t))
                       /\ \A by \in Callers : /\ ~ Pending(InterruptCall(t, by))
                                              /\ Single(InterruptCall(t, by))
  <2>1. \A t \in Tasks : /\ CleanupCall(t) # LaunchCall("initialize")
                         /\ \A by \in Callers : InterruptCall(t, by) # LaunchCall("initialize")
    BY CallFacts DEF LaunchOps
  <2>. QED
    BY <1>3, <2>1 DEF Pending, Single
<1>5. ThreadInv /\ ListInv /\ ShutdownInv /\ CleanupInv
  BY <1>1, <1>3, <1>4 DEF ThreadInv, ListInv, ShutdownInv, CleanupInv, Callers
<1>6. \A t \in Tasks : TurnInv(t) /\ StopInv(t)
  BY <1>1, <1>2, <1>3, <1>4, EmptyQueue DEF TurnInv, StopInv
<1>7. \A th \in Tasks : CalmThread(th)
  BY <1>3 DEF CalmThread
<1>8. \A t \in Tasks : CalmTask(t)
  BY <1>1, <1>3 DEF CalmTask
<1>9. \A t \in Tasks : CalmTurn(t)
  BY <1>2, <1>3 DEF CalmTurn
<1>. QED
  BY <1>5, <1>6, <1>7, <1>8, <1>9, RuntimeAssumption DEF TabInv

\* What a step does with calls other than new: none is made, and each goes
\* one place further at most.
Kept(new) ==
  \A c \in Call \ new :
    /\ Pending(c)' => Pending(c)
    /\ Single(c) => Single(c)'

LEMMA AfterKeeps ==
  ASSUME NEW gone, NEW new, After(gone, new)
  PROVE  Kept(new)
BY DEF After, Kept

\* The runtime's process only ever gets worse.
ProcessEnds ==
  /\ process' = "running" => process = "running"
  /\ process = "none" => process' = "none"

\* What was so of a task remains so.
Remains(t) ==
  /\ TaskOver(t) => TaskOver(t)'
  /\ Asked(t) => Asked(t)'
  /\ Known(t) => Known(t)'
  /\ starts[t] \in BeginEnded => starts'[t] = starts[t]

LEMMA ThreadsRemain ==
  ASSUME RuntimeInv, ThreadInv, thread' = thread,
         \A t \in Tasks : Remains(t) /\ (starts[t] = "none" <=> starts'[t] = "none")
  PROVE  ThreadInv' /\ \A th \in Tasks : Calm(th)' => Calm(th)
<1>1. thread \in [Tasks -> Tasks]
  BY DEF RuntimeInv, TypeOK
<1>2. ThreadInv'
  BY <1>1 DEF ThreadInv, Remains
<1>3. ASSUME NEW th \in Tasks, Disturbed(th)
      PROVE  Disturbed(th)'
  <2>1. PICK u \in Tasks : thread[u] = th /\ Asked(u) /\ \E t \in Tasks \ {u} : thread[t] = th
    BY <1>3 DEF Disturbed, Asked
  <2>2. Asked(u)'
    BY <2>1 DEF Remains
  <2>. QED
    BY <2>1, <2>2 DEF Disturbed, Asked
<1>. QED
  BY <1>2, <1>3 DEF Calm

LEMMA TurnKept ==
  ASSUME NEW t \in Tasks, TurnInv(t), ProcessEnds, Remains(t),
         Completion(t) \in Range(queue') \union told' =>
           Completion(t) \in Range(queue) \union told,
         turns'[t] = turns[t],
         Granted(TurnCall(t)) \in jobs' => Granted(TurnCall(t)) \in jobs,
         starts'[t] = "rejected" /\ process' = "running" =>
           starts[t] = "rejected" \/ turns'[t] = "none",
         cleaned'[t] = cleaned[t] \/ Known(t)
  PROVE  TurnInv(t)'
BY DEF TurnInv, ProcessEnds, Remains

LEMMA StopKept ==
  ASSUME NEW t \in Tasks, StopInv(t), NEW new, Kept(new), Remains(t),
         \A by \in Callers : InterruptCall(t, by) \notin new /\ stops'[t][by] = stops[t][by]
  PROVE  StopInv(t)'
<1>1. Asked(t)' => Asked(t)
  BY DEF Asked
<1>. QED
  BY <1>1, CallFacts DEF StopInv, Kept, Remains

LEMMA CleanupsKept ==
  ASSUME RuntimeInv, CleanupInv, NEW new, Kept(new), \A t \in Tasks : CleanupCall(t) \notin new,
         \A t \in Tasks : starts[t] # "none" => thread'[t] = thread[t],
         browserCleanups \subseteq browserCleanups'
  PROVE  CleanupInv'
<1>1. \A t \in Tasks : /\ Pending(CleanupCall(t))' => Pending(CleanupCall(t))
                       /\ Single(CleanupCall(t))'
  BY CallFacts DEF CleanupInv, Kept
<1>2. \A t \in Tasks : Pending(CleanupCall(t)) => thread'[t] = thread[t]
  BY KnownTasks DEF Known, RuntimeInv, TaskInv, BeginEnded, Pending
<1>. QED
  BY <1>1, <1>2 DEF CleanupInv

LEMMA ListKept ==
  ASSUME RuntimeInv, ListInv, \A t \in Tasks : starts[t] # "none" => thread'[t] = thread[t],
         \A th \in DOMAIN browserThreads' :
           \/ th \in DOMAIN browserThreads /\ browserThreads'[th] = browserThreads[th]
           \/ browserThreads'[th] = NoTask
           \/ /\ browserThreads'[th] \in Tasks /\ starts[browserThreads'[th]] # "none"
              /\ thread[browserThreads'[th]] = th
  PROVE  ListInv'
<1>1. ASSUME NEW th \in DOMAIN browserThreads, browserThreads[th] # NoTask
      PROVE  browserThreads[th] \in Tasks /\ starts[browserThreads[th]] # "none"
  <2>1. browserThreads[th] \in Tasks /\ browserThreads[th] \in Range(browserThreads)
    BY <1>1 DEF RuntimeInv, ConnectionInv, Range
  <2>. QED
    BY <2>1, KnownTasks DEF BeginEnded
<1>. QED
  BY <1>1 DEF ListInv

LEMMA CalmThreadKept ==
  ASSUME NEW th \in Tasks, CalmThread(th), thread' = thread, \A u \in Tasks : Remains(u),
         th \in browserCleanups' =>
           /\ th \in browserCleanups
           /\ \A u \in Tasks : thread[u] = th /\ starts[u] \in {"none", "preparing"} =>
                starts'[u] \in {"none", "preparing"} \/ Known(u)',
         th \in DOMAIN browserThreads' =>
           /\ th \in DOMAIN browserThreads
           /\ browserThreads'[th] = browserThreads[th]
           /\ turns[browserThreads[th]] = "running" => turns'[browserThreads[th]] = "running"
  PROVE  CalmThread(th)'
BY DEF CalmThread, Remains

LEMMA CalmTaskKept ==
  ASSUME NEW t \in Tasks, CalmTask(t), thread'[t] = thread[t], Remains(t),
         turns'[t] \in {"completed", "late"} => turns[t] \in {"completed", "late"},
         thread[t] \in DOMAIN browserThreads' => thread[t] \in DOMAIN browserThreads,
         thread[t] \in browserCleanups' => thread[t] \in browserCleanups,
         \A by \in Callers : stops'[t][by] = "done" => stops[t][by] = "done"
  PROVE  CalmTask(t)'
BY DEF CalmTask, Remains

LEMMA CalmTurnKept ==
  ASSUME NEW t \in Tasks, CalmTurn(t), thread'[t] = thread[t], ProcessEnds,
         cleaned'[t] = cleaned[t],
         starts'[t] \in {"turn", "started"} => starts[t] \in {"turn", "started"},
         turns'[t] \in {"none", "running"} => turns[t] \in {"none", "running"},
         turns'[t] = "completed" => turns[t] = "completed",
         thread[t] \in DOMAIN browserThreads' <=> thread[t] \in DOMAIN browserThreads,
         Asked(t)' <=> Asked(t)
  PROVE  CalmTurn(t)'
BY DEF CalmTurn, ProcessEnds

\* A step that leaves the tasks and the tabs as they are.
LEMMA QuietStep ==
  ASSUME RuntimeInv, TabInv, NEW new, Kept(new), new \subseteq {LaunchCall(op) : op \in LaunchOps},
         UNCHANGED <<starts, thread, stops, browserThreads, browserCleanups, turns, cleaned>>,
         ProcessEnds, ShutdownInv', told \subseteq told',
         \A t \in Tasks :
           /\ Granted(TurnCall(t)) \in jobs' <=> Granted(TurnCall(t)) \in jobs
           /\ Completion(t) \in Range(queue') \union told' =>
                Completion(t) \in Range(queue) \union told
  PROVE  TabInv'
<1>1. \A t \in Tasks : Remains(t) /\ (Asked(t)' <=> Asked(t))
  BY DEF Remains, TaskOver, TaskEnded, Asked, Known
<1>2. \A t \in Tasks : /\ CleanupCall(t) \notin new
                       /\ \A by \in Callers : InterruptCall(t, by) \notin new
  BY CallFacts DEF LaunchOps
<1>3. ThreadInv' /\ ListInv' /\ \A th \in Tasks : Calm(th)' => Calm(th)
  BY <1>1, ThreadsRemain DEF TabInv, ListInv
<1>4. CleanupInv'
  BY <1>2, CleanupsKept DEF TabInv
<1>5. \A t \in Tasks : TurnInv(t)' /\ StopInv(t)'
  BY <1>1, <1>2, TurnKept, StopKept DEF TabInv
<1>6. ASSUME NEW th \in Tasks, Calm(th)'
      PROVE  CalmThread(th)'
  BY <1>1, <1>3, <1>6, CalmThreadKept DEF TabInv
<1>7. ASSUME NEW t \in Tasks, Calm(thread[t])'
      PROVE  /\ CalmTask(t)'
             /\ t \in ChromeTasks => CalmTurn(t)'
  <2>1. Calm(thread[t])
    BY <1>3, <1>7 DEF RuntimeInv, TypeOK
  <2>2. CalmTask(t) /\ (t \in ChromeTasks => CalmTurn(t))
    BY <2>1 DEF TabInv
  <2>. QED
    BY <1>1, <2>2, CalmTaskKept, CalmTurnKept
<1>. QED
  BY <1>3, <1>4, <1>5, <1>6, <1>7, RuntimeAssumption DEF TabInv

-----------------------------------------------------------------------------
(* The steps that are not about tasks or tabs.                             *)

LEMMA ShutdownKept ==
  ASSUME ShutdownInv, UNCHANGED <<process, ready, launch, closing>>,
         \A t \in Tasks : stops'[t]["shutdown"] = stops[t]["shutdown"]
  PROVE  ShutdownInv'
BY DEF ShutdownInv

\* What is queued is not the end of t.
LEMMA NothingCompletes ==
  ASSUME RuntimeInv, NEW t \in Tasks, Completion(t) \in Range(queue'),
         queue' \in {queue, <<>>} \/ \E e \in Event \ {Completion(t)} : queue' = Append(queue, e)
  PROVE  Completion(t) \in Range(queue)
<1>1. queue \in Seq(Event)
  BY DEF RuntimeInv, TypeOK
<1>2. ASSUME NEW e \in Event \ {Completion(t)}, queue' = Append(queue, e)
      PROVE  Completion(t) \in Range(queue)
  <2>1. Range(queue') = Range(queue) \union {e}
    BY <1>1, <1>2, QueueAppend
  <2>. QED
    BY <1>2, <2>1
<1>3. CASE queue' = <<>>
  BY <1>3, EmptyQueue
<1>. QED
  BY <1>2, <1>3

LEMMA FailingKeepsTabs ==
  ASSUME RuntimeInv, TabInv, ProcessExit \/ Drained \/ ConnectionFails \/ RequestTimeout \/ Close
  PROVE  TabInv'
<1>1. /\ UNCHANGED <<starts, thread, stops, browserThreads, browserCleanups, turns, cleaned, told,
                     launch>>
      /\ closing' = closing \/ (closing = "cleaning" /\ closing' = "closed" /\ process' = "none")
  BY DEF ProcessExit, Drained, ConnectionFails, RequestTimeout, Fails, HandleExit, Close
<1>2. \/ /\ calls' = {} /\ jobs' = jobs \union Rejected /\ process' \in {"exited", "none"}
         /\ process' = "none" \/ process = "running"
         /\ queue' \in {queue, <<>>} \/ queue' = Append(queue, Failure)
      \/ UNCHANGED <<process, ready, calls, jobs, queue>>
  BY DEF ProcessExit, Drained, ConnectionFails, RequestTimeout, Fails, HandleExit, Close,
         NextCallback
<1>3. Kept({}) /\ \A t \in Tasks : Granted(TurnCall(t)) \in jobs' <=> Granted(TurnCall(t)) \in jobs
  <2>1. CASE UNCHANGED <<calls, jobs>>
    BY <2>1 DEF Kept, Pending, Single
  <2>2. CASE calls' = {} /\ jobs' = jobs \union Rejected
    <3>1. Kept({})
      BY <2>2, RejectsCalls, AfterKeeps
    <3>2. \A c : Granted(c) \notin Rejected
      BY RejectedFacts, JobFacts
    <3>. QED
      BY <2>2, <3>1, <3>2
  <2>. QED
    BY <1>2, <2>1, <2>2
<1>4. ProcessEnds /\ ShutdownInv'
  <2>1. ProcessEnds
    BY <1>2 DEF ProcessEnds, RuntimeInv, TypeOK
  <2>. QED
    BY <1>1, <1>2, <2>1 DEF ProcessEnds, TabInv, ShutdownInv
<1>5. ASSUME NEW t \in Tasks, Completion(t) \in Range(queue')
      PROVE  Completion(t) \in Range(queue)
  <2>1. Failure \in Event \ {Completion(t)}
    BY EventFacts
  <2>. QED
    BY <1>2, <1>5, <2>1, NothingCompletes
<1>. QED
  BY <1>1, <1>3, <1>4, <1>5, QuietStep

LEMMA LaunchKeepsTabs ==
  ASSUME RuntimeInv, TabInv, Initialized \/ CapabilitiesLoaded \/ LaunchFails
  PROVE  TabInv'
<1>1. PICK op \in LaunchOps, job \in jobs :
        /\ job \in {Granted(LaunchCall(op)), Denied(LaunchCall(op))}
        /\ jobs' = jobs \ {job}
  BY DEF Initialized, CapabilitiesLoaded, LaunchFails, LaunchStep, LaunchOps, Granted, Denied
<1>2. /\ UNCHANGED <<starts, thread, stops, browserThreads, browserCleanups, turns, cleaned, told,
                     closing>>
      /\ \/ /\ process = "running" /\ process' = process /\ queue' = queue
            /\ launch' = "capabilities" \/ ready'
         \/ /\ process' = "none"
            /\ queue' \in {queue, <<>>} \/ queue' = Append(queue, Failure)
  BY DEF Initialized, CapabilitiesLoaded, LaunchFails, LaunchStep, Ready
<1>3. PICK new \in {{}, {LaunchCall("capabilities")}} : calls' = calls \union new
  <2>1. calls' = calls \union {} \/ calls' = calls \union {LaunchCall("capabilities")}
    BY DEF Initialized, CapabilitiesLoaded, LaunchFails
  <2>. QED
    BY <2>1
<1>4. Kept(new)
  BY <1>1, <1>3, TakesCalls, AfterKeeps
<1>5. \A t \in Tasks : Granted(TurnCall(t)) \in jobs' <=> Granted(TurnCall(t)) \in jobs
  BY <1>1, CallFacts, JobFacts DEF LaunchOps
<1>6. new \subseteq {LaunchCall(d) : d \in LaunchOps}
  BY DEF LaunchOps
<1>7. ProcessEnds
  BY <1>2 DEF ProcessEnds
<1>8. ShutdownInv'
  BY <1>2 DEF TabInv, ShutdownInv
<1>9. ASSUME NEW t \in Tasks, Completion(t) \in Range(queue')
      PROVE  Completion(t) \in Range(queue)
  <2>1. Failure \in Event \ {Completion(t)}
    BY EventFacts
  <2>. QED
    BY <1>2, <1>9, <2>1, NothingCompletes
<1>. QED
  BY <1>2, <1>4, <1>5, <1>6, <1>7, <1>8, <1>9, QuietStep

LEMMA LinesKeepTabs ==
  ASSUME RuntimeInv, TabInv,
         \/ \E t \in Tasks : NotePosted(t) \/ \E p \in Permissions : AskPermission(p, t)
         \/ \E p \in Permissions : PermissionResolved(p) \/ ResolvePermission(p)
         \/ Flush \/ AwaitCleanups \/ UNCHANGED vars
  PROVE  TabInv'
<1>1. /\ UNCHANGED <<process, ready, launch, calls, jobs, starts, thread, stops, browserThreads,
                     browserCleanups, turns, cleaned>>
      /\ told \subseteq told' /\ told' \subseteq told \union Range(queue)
      /\ \/ queue' \in {queue, <<>>}
         \/ \E t \in Tasks : queue' = Append(queue, Note(t))
         \/ \E p \in Permissions : queue' \in {Append(queue, Required(p)), Append(queue, Resolved(p))}
  BY DEF NotePosted, AskPermission, PermissionResolved, ResolvePermission, Flush, AwaitCleanups,
         vars
<1>2. Kept({})
  BY <1>1 DEF Kept, Pending, Single
<1>3. ASSUME NEW t \in Tasks, Completion(t) \in Range(queue') \union told'
      PROVE  Completion(t) \in Range(queue) \union told
  <2>1. /\ \A u \in Tasks : Note(u) \in Event \ {Completion(t)}
        /\ \A p \in Permissions : {Required(p), Resolved(p)} \subseteq Event \ {Completion(t)}
    BY EventFacts
  <2>2. queue' \in {queue, <<>>} \/ \E e \in Event \ {Completion(t)} : queue' = Append(queue, e)
    BY <1>1, <2>1
  <2>3. Completion(t) \in Range(queue') => Completion(t) \in Range(queue)
    BY <2>2, NothingCompletes
  <2>. QED
    BY <1>1, <1>3, <2>3
<1>4. ShutdownInv'
  <2>1. CASE closing' = closing
    BY <1>1, <2>1, ShutdownKept DEF TabInv
  <2>2. CASE AwaitCleanups
    BY <2>2 DEF AwaitCleanups, TabInv, ShutdownInv
  <2>3. closing' = closing \/ AwaitCleanups
    BY DEF NotePosted, AskPermission, PermissionResolved, ResolvePermission, Flush, vars
  <2>. QED
    BY <2>1, <2>2, <2>3
<1>5. ProcessEnds /\ {} \subseteq {LaunchCall(op) : op \in LaunchOps}
  BY <1>1 DEF ProcessEnds
<1>. QED
  BY <1>1, <1>2, <1>3, <1>4, <1>5, QuietStep

-----------------------------------------------------------------------------
(* A step of one task: what it does it does to the task and to its thread. *)

\* The task is left alone.
Alone(u) ==
  /\ starts'[u] = starts[u] /\ turns'[u] = turns[u] /\ cleaned'[u] = cleaned[u]
  /\ Granted(TurnCall(u)) \in jobs' => Granted(TurnCall(u)) \in jobs
  /\ Completion(u) \in Range(queue') \union told' => Completion(u) \in Range(queue) \union told

LEMMA StepInThread ==
  ASSUME RuntimeInv, TabInv, NEW t \in Tasks, thread' = thread, ProcessEnds,
         \A u \in Tasks : Remains(u) /\ (starts[u] = "none" <=> starts'[u] = "none"),
         \A u \in Tasks \ {t} : Alone(u),
         \A u \in Tasks : thread[u] # thread[t] =>
           \A by \in Callers : stops'[u][by] = stops[u][by],
         \A th \in Tasks \ {thread[t]} :
           /\ th \in browserCleanups' <=> th \in browserCleanups
           /\ th \in DOMAIN browserThreads' <=> th \in DOMAIN browserThreads
           /\ th \in DOMAIN browserThreads => browserThreads'[th] = browserThreads[th],
         ListInv', ShutdownInv', CleanupInv', TurnInv(t)', \A u \in Tasks : StopInv(u)',
         Calm(thread[t]) /\ Calm(thread[t])' =>
           /\ CalmThread(thread[t])'
           /\ \A u \in Tasks : thread[u] = thread[t] =>
                CalmTask(u)' /\ (u \in ChromeTasks => CalmTurn(u)')
  PROVE  TabInv'
<1>1. ThreadInv' /\ \A th \in Tasks : Calm(th)' => Calm(th)
  BY ThreadsRemain DEF TabInv
<1>2. \A u \in Tasks : TurnInv(u)'
  BY TurnKept DEF TabInv, Alone
<1>3. \A u \in Tasks : thread[u] \in Tasks
  BY DEF RuntimeInv, TypeOK
<1>4. ASSUME NEW th \in Tasks, Calm(th)', th # thread[t]
      PROVE  CalmThread(th)'
  <2>1. CalmThread(th)
    BY <1>1, <1>4 DEF TabInv
  <2>2. ASSUME th \in DOMAIN browserThreads, turns[browserThreads[th]] = "running",
               browserThreads[th] # NoTask
        PROVE  turns'[browserThreads[th]] = "running"
    <3>1. browserThreads[th] \in Tasks /\ thread[browserThreads[th]] = th
      BY <2>2 DEF RuntimeInv, ConnectionInv, TabInv, ListInv
    <3>. QED
      BY <1>4, <2>2, <3>1 DEF Alone
  <2>. QED
    BY <1>4, <2>1, <2>2 DEF CalmThread, Remains, Alone
<1>5. ASSUME NEW u \in Tasks, Calm(thread[u])', thread[u] # thread[t]
      PROVE  CalmTask(u)' /\ (u \in ChromeTasks => CalmTurn(u)')
  <2>1. CalmTask(u) /\ (u \in ChromeTasks => CalmTurn(u))
    BY <1>1, <1>3, <1>5 DEF TabInv
  <2>2. /\ thread[u] \in browserCleanups' <=> thread[u] \in browserCleanups
        /\ thread[u] \in DOMAIN browserThreads' <=> thread[u] \in DOMAIN browserThreads
    BY <1>3, <1>5
  <2>3. Alone(u) /\ (Asked(u)' <=> Asked(u)) /\ \A by \in Callers : stops'[u][by] = stops[u][by]
    BY <1>5 DEF Asked
  <2>4. CalmTask(u)'
    BY <2>1, <2>2, <2>3, CalmTaskKept DEF Alone
  <2>5. CalmTurn(u) => CalmTurn(u)'
    BY <2>2, <2>3, CalmTurnKept DEF Alone
  <2>. QED
    BY <2>1, <2>4, <2>5
<1>6. \A th \in Tasks : Calm(th)' => CalmThread(th)'
  BY <1>1, <1>3, <1>4
<1>7. \A u \in Tasks : Calm(thread[u])' => CalmTask(u)' /\ (u \in ChromeTasks => CalmTurn(u)')
  BY <1>1, <1>3, <1>5
<1>. QED
  BY <1>1, <1>2, <1>6, <1>7, RuntimeAssumption DEF TabInv

-----------------------------------------------------------------------------
(* Starting a task.                                                        *)

\* A task of a thread that is calm has been interrupted only if it is alone.
LEMMA AskedAlone ==
  ASSUME NEW t \in Tasks, NEW u \in Tasks, thread[u] = thread[t], u # t, Calm(thread[t])
  PROVE  ~ Asked(u)
BY DEF Calm, Disturbed, Asked

\* While startTask of t calls, every other task of its thread is over.
LEMMA OthersOver ==
  ASSUME RuntimeInv, TabInv, NEW t \in Tasks, starts[t] \notin {"none"} \union BeginEnded
  PROVE  /\ ~ Asked(t) /\ ~ TaskOver(t) /\ Completion(t) \notin told
         /\ \A u \in Tasks \ {t} : thread[u] = thread[t] => starts[u] = "none" \/ TaskOver(u)
<1>1. ~ Asked(t)
  BY DEF TabInv, StopInv
<1>2. Completion(t) \notin told
  BY DEF RuntimeInv, TaskInv
<1>3. ~ TaskOver(t)
  BY <1>1, <1>2 DEF TaskOver, TaskEnded, Asked, Callers, BeginEnded
<1>. QED
  BY <1>1, <1>2, <1>3 DEF TabInv, ThreadInv

\* A task that is over and was not interrupted does not run a turn.
LEMMA OverTurn ==
  ASSUME RuntimeInv, TabInv, NEW u \in Tasks, TaskOver(u), ~ Asked(u), process = "running"
  PROVE  Known(u) /\ ~ (starts[u] \in {"turn", "started"} /\ turns[u] \in {"none", "running"})
<1>1. Completion(u) \in told \/ starts[u] = "rejected"
  BY DEF TaskOver, TaskEnded, Asked, Callers
<1>2. Completion(u) \in told => turns[u] \in {"completed", "late"} /\ starts[u] \in BeginEnded
  BY DEF TabInv, TurnInv, RuntimeInv, TaskInv
<1>. QED
  BY <1>1, <1>2 DEF Known, BeginEnded

\* Its first call is made, or one of its calls fails.
LEMMA BeginKeepsTabs ==
  ASSUME RuntimeInv, TabInv, NEW t \in Tasks,
         NEW new \in SUBSET {ThreadCall(t)}, Kept(new),
         starts[t] \in {"preparing", "thread", "turn"}, ~ Known(t),
         NEW s \in {"thread", "rejected"}, starts' = [starts EXCEPT ![t] = s],
         s = "thread" => starts[t] = "preparing" /\ thread[t] \notin browserCleanups,
         \A u \in Tasks : Granted(TurnCall(u)) \in jobs' <=> Granted(TurnCall(u)) \in jobs,
         UNCHANGED <<process, ready, launch, closing, thread, stops, browserThreads,
                     browserCleanups, queue, told, turns, cleaned>>
  PROVE  TabInv'
<1>1. /\ starts'[t] = s /\ \A u \in Tasks \ {t} : starts'[u] = starts[u]
      /\ starts[t] \notin BeginEnded /\ starts[t] # "none" /\ s # "none"
  BY DEF RuntimeInv, TypeOK, BeginEnded
<1>2. turns[t] = "none" /\ cleaned[t] = 0 /\ ~ Asked(t) /\ ~ TaskOver(t)
  BY <1>1, OthersOver, KnownTasks DEF TabInv, TurnInv
<1>3. \A u \in Tasks : Remains(u) /\ (starts[u] = "none" <=> starts'[u] = "none")
  BY <1>1 DEF Remains, TaskOver, TaskEnded, Asked, Known
<1>4. \A u \in Tasks \ {t} : Alone(u)
  BY <1>1 DEF Alone
<1>5. ListInv' /\ ShutdownInv' /\ ProcessEnds
  BY ListKept, ShutdownKept DEF TabInv, ProcessEnds
<1>6. /\ \A u \in Tasks : CleanupCall(u) \notin new
      /\ \A u \in Tasks, by \in Callers : InterruptCall(u, by) \notin new
  BY CallFacts
<1>7. CleanupInv'
  BY <1>6, CleanupsKept DEF TabInv
<1>8. TurnInv(t)' /\ \A u \in Tasks : StopInv(u)'
  <2>1. TurnInv(t)'
    BY <1>2, <1>3, <1>5, TurnKept DEF TabInv
  <2>2. \A u \in Tasks : StopInv(u)'
    BY <1>3, <1>6, StopKept DEF TabInv
  <2>. QED
    BY <2>1, <2>2
<1>9. ASSUME Calm(thread[t])
      PROVE  /\ CalmThread(thread[t])'
             /\ \A u \in Tasks : thread[u] = thread[t] =>
                  CalmTask(u)' /\ (u \in ChromeTasks => CalmTurn(u)')
  <2>1. thread[t] \in Tasks /\ CalmThread(thread[t])
    BY <1>9 DEF RuntimeInv, TypeOK, TabInv
  <2>2. CalmThread(thread[t])'
    <3>1. \A u \in Tasks : thread[u] = thread[t] /\ starts[u] \in {"none", "preparing"} =>
            \/ starts'[u] \in {"none", "preparing"} \/ Known(u)'
            \/ thread[t] \notin browserCleanups
      BY <1>1 DEF Known, BeginEnded
    <3>. QED
      BY <1>3, <2>1, <3>1, CalmThreadKept
  <2>3. ASSUME NEW u \in Tasks, thread[u] = thread[t]
        PROVE  CalmTask(u)' /\ (u \in ChromeTasks => CalmTurn(u)')
    <3>1. CalmTask(u) /\ (u \in ChromeTasks => CalmTurn(u))
      BY <1>9, <2>3 DEF TabInv
    <3>2. CalmTask(u)'
      BY <1>3, <3>1, CalmTaskKept
    <3>3. starts'[u] \in {"turn", "started"} => starts[u] \in {"turn", "started"}
      BY <1>1
    <3>4. CalmTurn(u) => CalmTurn(u)'
      BY <1>5, <3>3, CalmTurnKept DEF Asked
    <3>. QED
      BY <3>1, <3>2, <3>4
  <2>. QED
    BY <2>2, <2>3
<1>. QED
  BY <1>3, <1>4, <1>5, <1>7, <1>8, <1>9, StepInThread

LEMMA SendKeepsTabs ==
  ASSUME RuntimeInv, TabInv, NEW t \in Tasks, SendThread(t)
  PROVE  TabInv'
<1>1. ~ Known(t) /\ starts[t] = "preparing" /\ thread[t] \notin browserCleanups
  BY DEF SendThread, NextCallback, Known, BeginEnded
<1>2. PICK new \in {{}, {ThreadCall(t)}}, s \in {"thread", "rejected"} :
        calls' = calls \union new /\ starts' = [starts EXCEPT ![t] = s]
  <2>1. calls \union {} = calls
    OBVIOUS
  <2>. QED
    BY <2>1 DEF SendThread
<1>3. jobs' = jobs \ {}
  BY DEF SendThread
<1>4. Kept(new)
  BY <1>2, <1>3, TakesCalls, AfterKeeps
<1>5. UNCHANGED <<process, ready, launch, closing, jobs, thread, stops, browserThreads,
                  browserCleanups, queue, told, turns, cleaned>>
  BY DEF SendThread
<1>. QED
  BY <1>1, <1>2, <1>4, <1>5, BeginKeepsTabs

LEMMA RejectionKeepsTabs ==
  ASSUME RuntimeInv, TabInv, NEW t \in Tasks, StartRejected(t) \/ ThreadRefused(t)
  PROVE  TabInv'
<1>1. PICK c \in {ThreadCall(t), TurnCall(t)}, job \in jobs :
        /\ job \in {Granted(c), Denied(c)} /\ jobs' = jobs \ {job}
        /\ job # Granted(TurnCall(t))
  <2>1. CASE StartRejected(t)
    <3>1. PICK c \in {ThreadCall(t), TurnCall(t)} :
            Denied(c) \in jobs /\ jobs' = jobs \ {Denied(c)}
      BY <2>1 DEF StartRejected, ThreadCall, TurnCall, Denied
    <3>. QED
      BY <3>1, JobFacts
  <2>2. CASE ThreadRefused(t)
    <3>1. Granted(ThreadCall(t)) \in jobs /\ jobs' = jobs \ {Granted(ThreadCall(t))}
      BY <2>2 DEF ThreadRefused, Granted
    <3>2. ThreadCall(t) # TurnCall(t)
      BY CallFacts
    <3>. QED
      BY <3>1, <3>2, JobFacts
  <2>. QED
    BY <2>1, <2>2
<1>2. /\ starts' = [starts EXCEPT ![t] = "rejected"]
      /\ UNCHANGED <<process, ready, launch, closing, calls, thread, stops, browserThreads,
                     browserCleanups, queue, told, turns, cleaned>>
  BY DEF StartRejected, ThreadRefused
<1>3. Pending(c) /\ Single(TurnCall(t)) /\ ThreadCall(t) # TurnCall(t) /\ TaskInv(t)
  BY <1>1, CallFacts DEF Pending, RuntimeInv, TaskInv
<1>4. starts[t] \in {"thread", "turn"} /\ Granted(TurnCall(t)) \notin jobs
  <2>1. CASE c = ThreadCall(t)
    BY <1>3, <2>1 DEF TaskInv, Pending
  <2>2. CASE c = TurnCall(t)
    BY <1>1, <1>3, <2>2 DEF TaskInv, Single
  <2>. QED
    BY <2>1, <2>2
<1>5. ~ Known(t)
  BY <1>4 DEF Known, BeginEnded
<1>6. \A u \in Tasks : Granted(TurnCall(u)) \in jobs' <=> Granted(TurnCall(u)) \in jobs
  <2>1. \A u \in Tasks \ {t} : TurnCall(u) \notin {ThreadCall(t), TurnCall(t)}
    BY CallFacts
  <2>. QED
    BY <1>1, <1>4, <2>1, JobFacts
<1>7. Kept({})
  <2>1. calls' = calls \union {}
    BY <1>2
  <2>. QED
    BY <1>1, <2>1, TakesCalls, AfterKeeps
<1>8. {} \in SUBSET {ThreadCall(t)} /\ "rejected" \in {"thread", "rejected"}
  OBVIOUS
<1>. QED
  BY <1>2, <1>4, <1>5, <1>6, <1>7, <1>8, BeginKeepsTabs

\* The thread is listed, and the turn requested.
LEMMA ListingKeepsTabs ==
  ASSUME RuntimeInv, TabInv, NEW t \in Tasks, ThreadStarted(t)
  PROVE  TabInv'
<1>. DEFINE th == thread[t]
            job == Granted(ThreadCall(t))
<1>1. /\ job \in jobs /\ jobs' = jobs \ {job}
      /\ UNCHANGED <<process, ready, launch, closing, thread, stops, browserCleanups, queue, told,
                     turns, cleaned>>
  BY DEF ThreadStarted, Granted
<1>2. PICK new \in {{}, {TurnCall(t)}}, s \in {"turn", "rejected"} :
        /\ calls' = calls \union new /\ starts' = [starts EXCEPT ![t] = s]
        /\ s = "rejected" => process # "running"
  <2>1. calls \union {} = calls
    OBVIOUS
  <2>. QED
    BY <2>1 DEF ThreadStarted
<1>3. /\ DOMAIN browserThreads' = IF t \in ChromeTasks THEN DOMAIN browserThreads \union {th}
                                  ELSE DOMAIN browserThreads
      /\ t \in ChromeTasks => browserThreads'[th] = NoTask
      /\ t \notin ChromeTasks => browserThreads' = browserThreads
      /\ \A z \in DOMAIN browserThreads : z # th => browserThreads'[z] = browserThreads[z]
  BY DEF ThreadStarted
<1>4. Kept(new)
  BY <1>1, <1>2, TakesCalls, AfterKeeps
<1>5. /\ Pending(ThreadCall(t)) /\ TaskInv(t) /\ starts[t] = "thread" /\ th \in Tasks
      /\ ThreadCall(t) # TurnCall(t) /\ ThreadCall(t) \in Call
  BY <1>1, CallFacts DEF Pending, RuntimeInv, TypeOK, TaskInv
<1>7. /\ starts'[t] = s /\ \A u \in Tasks \ {t} : starts'[u] = starts[u]
      /\ starts[t] \notin {"none"} \union BeginEnded /\ s # "none" /\ ~ Known(t)
  <2>1. ~ Pending(TurnCall(t))
    BY <1>5 DEF TaskInv
  <2>. QED
    BY <1>2, <1>5, <2>1 DEF RuntimeInv, TypeOK, BeginEnded, Known, Pending
<1>8. turns[t] = "none" /\ cleaned[t] = 0
  BY <1>7, KnownTasks DEF TabInv, TurnInv
<1>9. /\ ~ Asked(t) /\ ~ TaskOver(t)
      /\ \A u \in Tasks \ {t} : thread[u] = th => starts[u] = "none" \/ TaskOver(u)
  BY <1>7, OthersOver
<1>10. \A u \in Tasks : Granted(TurnCall(u)) \in jobs' <=> Granted(TurnCall(u)) \in jobs
  <2>1. \A u \in Tasks : TurnCall(u) # ThreadCall(t)
    BY CallFacts
  <2>. QED
    BY <1>1, <2>1, JobFacts
<1>11. \A u \in Tasks : Remains(u) /\ (starts[u] = "none" <=> starts'[u] = "none")
  BY <1>1, <1>7, <1>9, <1>10 DEF Remains, TaskOver, TaskEnded, Asked, Known
<1>12. \A u \in Tasks \ {t} : Alone(u)
  BY <1>1, <1>7, <1>10 DEF Alone
<1>13. ShutdownInv' /\ ProcessEnds
  BY <1>1, ShutdownKept DEF TabInv, ProcessEnds
<1>14. ListInv'
  BY <1>1, <1>3, ListKept DEF TabInv
<1>15. /\ \A u \in Tasks : CleanupCall(u) \notin new
       /\ \A u \in Tasks, by \in Callers : InterruptCall(u, by) \notin new
  BY CallFacts
<1>16. CleanupInv'
  BY <1>1, <1>4, <1>15, CleanupsKept DEF TabInv
<1>17. TurnInv(t)' /\ \A u \in Tasks : StopInv(u)'
  <2>1. TurnInv(t)'
    BY <1>1, <1>8, <1>10, <1>11, <1>13, TurnKept DEF TabInv
  <2>2. \A u \in Tasks : StopInv(u)'
    BY <1>1, <1>4, <1>11, <1>15, StopKept DEF TabInv
  <2>. QED
    BY <2>1, <2>2
<1>18. ASSUME Calm(th)
       PROVE  /\ CalmThread(th)'
              /\ \A u \in Tasks : thread[u] = th =>
                   CalmTask(u)' /\ (u \in ChromeTasks => CalmTurn(u)')
  <2>1. th \notin browserCleanups /\ CalmThread(th)
    BY <1>5, <1>7, <1>18 DEF TabInv, CalmThread
  <2>2. CalmThread(th)'
    BY <1>1, <1>3, <2>1 DEF CalmThread
  <2>3. ASSUME NEW u \in Tasks, thread[u] = th, u # t
        PROVE  CalmTask(u)' /\ (u \in ChromeTasks => CalmTurn(u)')
    <3>1. CalmTask(u) /\ (u \in ChromeTasks => CalmTurn(u)) /\ ~ Asked(u) /\ Alone(u)
      BY <1>12, <1>18, <2>3, AskedAlone DEF TabInv
    <3>2. starts[u] = "none" \/ TaskOver(u)
      BY <1>9, <2>3
    <3>3. CalmTask(u)'
      <4>1. \A by \in Callers : stops'[u][by] = "none"
        BY <1>1, <3>1 DEF Asked
      <4>2. starts[u] = "none" => turns[u] = "none"
        <5>1. starts[u] = "none" => ~ Known(u)
          BY DEF RuntimeInv, TaskInv, Known, Pending, BeginEnded
        <5>. QED
          BY <5>1, KnownTasks
      <4>. QED
        BY <1>1, <1>11, <3>1, <3>2, <4>1, <4>2 DEF CalmTask, Alone, Remains
    <3>4. u \in ChromeTasks => CalmTurn(u)'
      <4>1. process = "running" =>
              ~ (starts[u] \in {"turn", "started"} /\ turns[u] \in {"none", "running"})
        BY <3>1, <3>2, OverTurn
      <4>. QED
        BY <1>1, <3>1, <4>1 DEF CalmTurn, Alone, Asked
    <3>. QED
      BY <3>3, <3>4
  <2>4. CalmTask(t)'
    BY <1>1, <1>8, <1>9 DEF CalmTask, Asked
  <2>5. t \in ChromeTasks => CalmTurn(t)'
    BY <1>1, <1>2, <1>3, <1>7, <1>8, <1>9 DEF CalmTurn, Asked
  <2>. QED
    BY <2>2, <2>3, <2>4, <2>5
<1>19. \A z \in Tasks \ {th} :
         /\ z \in browserCleanups' <=> z \in browserCleanups
         /\ z \in DOMAIN browserThreads' <=> z \in DOMAIN browserThreads
         /\ z \in DOMAIN browserThreads => browserThreads'[z] = browserThreads[z]
  BY <1>1, <1>3
<1>. QED
  BY <1>1, <1>11, <1>12, <1>13, <1>14, <1>16, <1>17, <1>18, <1>19, StepInThread

\* The turn is started: the thread is listed with it.
LEMMA TurnKeepsTabs ==
  ASSUME RuntimeInv, TabInv, NEW t \in Tasks, TurnStarted(t)
  PROVE  TabInv'
<1>. DEFINE th == thread[t]
            job == Granted(TurnCall(t))
<1>1. /\ job \in jobs /\ jobs' = jobs \ {job}
      /\ UNCHANGED <<process, ready, launch, closing, calls, thread, stops, browserCleanups, queue,
                     told, turns, cleaned>>
  BY DEF TurnStarted, Granted
<1>2. PICK s \in BeginEnded :
        /\ starts' = [starts EXCEPT ![t] = s]
        /\ s = "rejected" => ~ ready
  BY DEF TurnStarted, BeginEnded
<1>3. /\ Pending(TurnCall(t)) /\ TaskInv(t) /\ starts[t] = "turn" /\ th \in Tasks
      /\ TurnCall(t) \in Call /\ launch = "listening" /\ Known(t)
  BY <1>1, CallFacts DEF Pending, Known, RuntimeInv, TypeOK, TaskInv
<1>4. /\ DOMAIN browserThreads' = DOMAIN browserThreads
      /\ \A z \in DOMAIN browserThreads :
           \/ browserThreads'[z] = browserThreads[z]
           \/ z = th /\ browserThreads'[z] = t
  BY DEF TurnStarted
<1>5. Kept({})
  <2>1. calls' = calls \union {}
    BY <1>1
  <2>. QED
    BY <1>1, <2>1, TakesCalls, AfterKeeps
<1>6. /\ starts'[t] = s /\ \A u \in Tasks \ {t} : starts'[u] = starts[u]
      /\ starts[t] \notin {"none"} \union BeginEnded /\ s # "none" /\ Known(t)'
  BY <1>2, <1>3 DEF RuntimeInv, TypeOK, BeginEnded, Known
<1>7. /\ turns[t] # "none" /\ ~ Asked(t) /\ ~ TaskOver(t)
  BY <1>1, <1>6, OthersOver DEF TabInv, TurnInv
<1>8. \A u \in Tasks : Granted(TurnCall(u)) \in jobs' => Granted(TurnCall(u)) \in jobs
  BY <1>1
<1>9. \A u \in Tasks \ {t} : Granted(TurnCall(u)) \in jobs' <=> Granted(TurnCall(u)) \in jobs
  <2>1. \A u \in Tasks \ {t} : TurnCall(u) # TurnCall(t)
    BY CallFacts
  <2>. QED
    BY <1>1, <2>1, JobFacts
<1>10. \A u \in Tasks : Remains(u) /\ (starts[u] = "none" <=> starts'[u] = "none")
  BY <1>1, <1>6, <1>7, <1>9 DEF Remains, TaskOver, TaskEnded, Asked, Known
<1>11. \A u \in Tasks \ {t} : Alone(u)
  BY <1>1, <1>6, <1>8 DEF Alone
<1>12. ShutdownInv' /\ ProcessEnds
  BY <1>1, ShutdownKept DEF TabInv, ProcessEnds
<1>13. ListInv'
  BY <1>1, <1>3, <1>4, ListKept DEF TabInv
<1>14. CleanupInv'
  BY <1>1, <1>5, CleanupsKept DEF TabInv
<1>15. TurnInv(t)'
  <2>1. s = "rejected" => process # "running"
    BY <1>2, <1>3 DEF TabInv, ShutdownInv
  <2>. QED
    BY <1>1, <1>3, <1>6, <1>7, <1>8, <2>1 DEF TabInv, TurnInv
<1>16. \A u \in Tasks : StopInv(u)'
  BY <1>1, <1>5, <1>10, StopKept DEF TabInv
<1>17. ASSUME Calm(th)
       PROVE  /\ CalmThread(th)'
              /\ \A u \in Tasks : thread[u] = th =>
                   CalmTask(u)' /\ (u \in ChromeTasks => CalmTurn(u)')
  <2>1. CalmThread(th) /\ CalmTask(t)
    BY <1>3, <1>17 DEF TabInv
  <2>2. th \in DOMAIN browserThreads => turns[t] = "running"
    BY <1>7, <2>1 DEF CalmTask, RuntimeInv, TypeOK
  <2>3. CalmThread(th)'
    BY <1>1, <1>4, <1>6, <1>10, <2>1, <2>2 DEF CalmThread, Remains
  <2>4. ASSUME NEW u \in Tasks, thread[u] = th
        PROVE  CalmTask(u)' /\ (u \in ChromeTasks => CalmTurn(u)')
    <3>1. CalmTask(u) /\ (u \in ChromeTasks => CalmTurn(u))
      BY <1>17, <2>4 DEF TabInv
    <3>2. CalmTask(u)'
      BY <1>1, <1>4, <1>10, <3>1, CalmTaskKept
    <3>3. starts'[u] \in {"turn", "started"} => starts[u] \in {"turn", "started"}
      BY <1>3, <1>6
    <3>4. CalmTurn(u) => CalmTurn(u)'
      BY <1>1, <1>4, <1>12, <3>3, CalmTurnKept DEF Asked
    <3>. QED
      BY <3>1, <3>2, <3>4
  <2>. QED
    BY <2>3, <2>4
<1>18. \A z \in Tasks \ {th} :
         /\ z \in browserCleanups' <=> z \in browserCleanups
         /\ z \in DOMAIN browserThreads' <=> z \in DOMAIN browserThreads
         /\ z \in DOMAIN browserThreads => browserThreads'[z] = browserThreads[z]
  BY <1>1, <1>4
<1>. QED
  BY <1>1, <1>10, <1>11, <1>12, <1>13, <1>14, <1>15, <1>16, <1>17, <1>18, StepInThread

-----------------------------------------------------------------------------
(* Closing tabs.                                                           *)

\* The tabs of t are asked for.
Closes(t) ==
  thread[t] \notin browserCleanups /\ thread[t] \in DOMAIN browserThreads /\ process = "running"

LEMMA ClosingTabs ==
  ASSUME RuntimeInv, TabInv, NEW t \in Tasks, CleanupBrowserTabs(t)
  PROVE  /\ calls' = IF Closes(t) THEN calls \union {CleanupCall(t)} ELSE calls
         /\ browserCleanups' = IF Closes(t) THEN browserCleanups \union {thread[t]}
                               ELSE browserCleanups
         /\ \A u \in Tasks : cleaned'[u] = IF Closes(t) /\ u = t THEN cleaned[u] + 1 ELSE cleaned[u]
         /\ \A z \in DOMAIN browserThreads' :
              z \in DOMAIN browserThreads /\ browserThreads'[z] = browserThreads[z]
         /\ \A z \in DOMAIN browserThreads \ {thread[t]} : z \in DOMAIN browserThreads'
         /\ Calm(thread[t]) => thread[t] \notin DOMAIN browserThreads'
<1>1. /\ calls' = IF Closes(t) THEN calls \union {CleanupCall(t)} ELSE calls
      /\ browserCleanups' = IF Closes(t) THEN browserCleanups \union {thread[t]}
                            ELSE browserCleanups
      /\ cleaned' = IF Closes(t) THEN [cleaned EXCEPT ![t] = @ + 1] ELSE cleaned
      /\ browserThreads' = IF thread[t] \notin browserCleanups /\ thread[t] \in DOMAIN browserThreads
                           THEN Restrict(browserThreads, DOMAIN browserThreads \ {thread[t]})
                           ELSE browserThreads
  BY DEF CleanupBrowserTabs, Closes
<1>2. \A u \in Tasks : cleaned'[u] = IF Closes(t) /\ u = t THEN cleaned[u] + 1 ELSE cleaned[u]
  BY <1>1 DEF RuntimeInv, TypeOK
<1>3. /\ \A z \in DOMAIN browserThreads' :
           z \in DOMAIN browserThreads /\ browserThreads'[z] = browserThreads[z]
      /\ \A z \in DOMAIN browserThreads \ {thread[t]} : z \in DOMAIN browserThreads'
      /\ thread[t] \in DOMAIN browserThreads' => thread[t] \in browserCleanups
  BY <1>1 DEF Restrict
<1>4. Calm(thread[t]) => thread[t] \notin DOMAIN browserThreads'
  <2>1. thread[t] \in Tasks
    BY DEF RuntimeInv, TypeOK
  <2>2. Calm(thread[t]) /\ thread[t] \in browserCleanups => thread[t] \notin DOMAIN browserThreads
    BY <2>1 DEF TabInv, CalmThread
  <2>. QED
    BY <1>3, <2>2
<1>. QED
  BY <1>1, <1>2, <1>3, <1>4

\* One request at most is under way for a thread.
LEMMA ClosingKeepsCleanups ==
  ASSUME RuntimeInv, TabInv, NEW t \in Tasks, CleanupBrowserTabs(t), thread' = thread,
         NEW gone, jobs' = jobs \ gone
  PROVE  CleanupInv'
<1>1. Kept({CleanupCall(t)})
  <2>1. calls' = calls \union {CleanupCall(t)} \/ calls' = calls \union {}
    BY ClosingTabs
  <2>2. Kept({CleanupCall(t)}) \/ Kept({})
    BY <2>1, TakesCalls, AfterKeeps
  <2>. QED
    BY <2>2 DEF Kept
<1>2. \A u \in Tasks : CleanupCall(u) \in Call /\ (u # t => CleanupCall(u) # CleanupCall(t))
  BY CallFacts
<1>3. CASE Closes(t)
  <2>1. \A u \in Tasks : Pending(CleanupCall(u)) => thread[u] # thread[t]
    BY <1>3 DEF Closes, TabInv, CleanupInv
  <2>2. Single(CleanupCall(t))'
    BY <2>1 DEF Pending, Single
  <2>3. thread[t] \in browserCleanups' /\ browserCleanups \subseteq browserCleanups'
    BY <1>3, ClosingTabs
  <2>4. ASSUME NEW u \in Tasks
        PROVE  /\ Single(CleanupCall(u))'
               /\ Pending(CleanupCall(u))' =>
                    u = t \/ (Pending(CleanupCall(u)) /\ thread[u] # thread[t])
    <3>1. CASE u = t
      BY <2>2, <3>1
    <3>2. CASE u # t
      <4>1. CleanupCall(u) \in Call \ {CleanupCall(t)} /\ Single(CleanupCall(u))
        BY <1>2, <3>2 DEF TabInv, CleanupInv
      <4>. QED
        BY <1>1, <2>1, <4>1 DEF Kept
    <3>. QED
      BY <3>1, <3>2
  <2>5. ASSUME NEW u \in Tasks, Pending(CleanupCall(u))'
        PROVE  thread[u] \in browserCleanups'
    <3>1. Pending(CleanupCall(u)) => thread[u] \in browserCleanups
      BY DEF TabInv, CleanupInv
    <3>. QED
      BY <2>3, <2>4, <2>5, <3>1
  <2>6. ASSUME NEW u \in Tasks, Pending(CleanupCall(u))',
               NEW v \in Tasks, Pending(CleanupCall(v))', thread[v] = thread[u]
        PROVE  v = u
    <3>1. Pending(CleanupCall(u)) /\ Pending(CleanupCall(v)) => v = u
      BY <2>6 DEF TabInv, CleanupInv
    <3>. QED
      BY <2>4, <2>6, <3>1
  <2>. QED
    BY <2>4, <2>5, <2>6 DEF CleanupInv
<1>4. CASE ~ Closes(t)
  <2>1. calls' = calls \union {} /\ browserCleanups' = browserCleanups
    BY <1>4, ClosingTabs
  <2>2. Kept({})
    BY <2>1, TakesCalls, AfterKeeps
  <2>. QED
    BY <2>1, <2>2, CleanupsKept DEF TabInv
<1>. QED
  BY <1>3, <1>4

\* What is so of the listed threads when a step only takes from them.
LEMMA UnlistingKeepsList ==
  ASSUME RuntimeInv, TabInv, NEW t \in Tasks, CleanupBrowserTabs(t), thread' = thread
  PROVE  /\ ListInv'
         /\ \A z \in Tasks \ {thread[t]} :
              /\ z \in browserCleanups' <=> z \in browserCleanups
              /\ z \in DOMAIN browserThreads' <=> z \in DOMAIN browserThreads
              /\ z \in DOMAIN browserThreads => browserThreads'[z] = browserThreads[z]
<1>1. ListInv'
  BY ClosingTabs, ListKept DEF TabInv
<1>. QED
  BY <1>1, ClosingTabs

\* The process has closed them: whoever waits for that returns.
LEMMA CleanupKeepsTabs ==
  ASSUME RuntimeInv, TabInv, NEW t \in Tasks, NEW ok \in BOOLEAN, CleanupEnds(t, ok)
  PROVE  TabInv'
<1>. DEFINE th == thread[t]
<1>1. PICK job \in jobs :
        job \in {Granted(CleanupCall(t)), Denied(CleanupCall(t))} /\ jobs' = jobs \ {job}
  <2>1. CASE ok = TRUE
    BY <2>1 DEF CleanupEnds, Granted
  <2>2. CASE ok = FALSE
    BY <2>2 DEF CleanupEnds, Denied
  <2>. QED
    BY <2>1, <2>2
<1>2. /\ UNCHANGED <<process, ready, launch, closing, calls, starts, thread, browserThreads, told,
                     turns, cleaned>>
      /\ browserCleanups' = browserCleanups \ {th}
      /\ queue' = queue \/ queue' = Append(queue, Note(t))
  BY DEF CleanupEnds
<1>3. \A u \in Tasks, by \in Callers :
        \/ stops'[u][by] = stops[u][by]
        \/ /\ thread[u] = th /\ stops[u][by] = "cleaning" /\ stops'[u][by] \in StopEnded
  BY DEF CleanupEnds, StopResult, StopEnded
<1>4. /\ Pending(CleanupCall(t)) /\ th \in browserCleanups /\ th \in Tasks
      /\ \A u \in Tasks : Pending(CleanupCall(u)) /\ thread[u] = th => u = t
      /\ CleanupCall(t) \in Call /\ Single(CleanupCall(t))
  BY <1>1, CallFacts DEF Pending, RuntimeInv, TypeOK, TabInv, CleanupInv
<1>5. Kept({}) /\ After({job}, {})
  <2>1. calls' = calls \union {}
    BY <1>2
  <2>. QED
    BY <1>1, <2>1, TakesCalls, AfterKeeps
<1>6. ~ Pending(CleanupCall(t))'
  BY <1>1, <1>2, <1>4, JobFacts DEF Pending, Single
<1>7. \A u \in Tasks : Granted(TurnCall(u)) \in jobs' <=> Granted(TurnCall(u)) \in jobs
  <2>1. \A u \in Tasks : TurnCall(u) # CleanupCall(t)
    BY CallFacts
  <2>. QED
    BY <1>1, <2>1, JobFacts
<1>8. \A u \in Tasks : /\ Asked(u)' <=> Asked(u)
                       /\ Remains(u)
  BY <1>2, <1>3, <1>7 DEF Remains, TaskOver, TaskEnded, Asked, Known, StopEnded, Callers
<1>9. \A u \in Tasks : Alone(u)
  <2>1. Note(t) \in Event \ {Completion(u) : u \in Tasks}
    BY EventFacts
  <2>2. ASSUME NEW u \in Tasks, Completion(u) \in Range(queue')
        PROVE  Completion(u) \in Range(queue)
    BY <1>2, <2>1, <2>2, NothingCompletes
  <2>. QED
    BY <1>2, <1>7, <2>2 DEF Alone
<1>10. ListInv' /\ ProcessEnds /\ ShutdownInv'
  <2>1. ShutdownInv'
    BY <1>2, <1>3 DEF TabInv, ShutdownInv, Callers
  <2>. QED
    BY <1>2, <2>1 DEF TabInv, ListInv, ProcessEnds
<1>11. CleanupInv'
  <2>1. \A u \in Tasks : CleanupCall(u) \in Call
    BY CallFacts
  <2>2. \A u \in Tasks : Pending(CleanupCall(u))' => Pending(CleanupCall(u)) /\ thread[u] # th
    BY <1>4, <1>5, <1>6, <2>1 DEF Kept
  <2>. QED
    BY <1>2, <1>5, <2>1, <2>2 DEF TabInv, CleanupInv, Kept
<1>12. TurnInv(t)'
  BY <1>8, <1>9, <1>10, TurnKept DEF TabInv, Alone
<1>13. ASSUME NEW u \in Tasks
       PROVE  StopInv(u)'
  <2>1. \A by \in Callers : InterruptCall(u, by) \in Call \ {}
    BY CallFacts
  <2>2. ASSUME NEW by \in Callers
        PROVE  /\ Single(InterruptCall(u, by))'
               /\ Pending(InterruptCall(u, by))' => stops'[u][by] = "asked"
    <3>1. /\ Single(InterruptCall(u, by))
          /\ Pending(InterruptCall(u, by)) => stops[u][by] = "asked"
      BY DEF TabInv, StopInv
    <3>. QED
      BY <1>3, <1>5, <2>1, <3>1 DEF Kept
  <2>. QED
    BY <1>2, <1>8, <2>2 DEF TabInv, StopInv
<1>14. ASSUME Calm(th)
       PROVE  /\ CalmThread(th)'
              /\ \A u \in Tasks : thread[u] = th =>
                   CalmTask(u)' /\ (u \in ChromeTasks => CalmTurn(u)')
  <2>1. th \notin DOMAIN browserThreads' /\ th \notin browserCleanups'
    BY <1>2, <1>4, <1>14 DEF TabInv, CalmThread
  <2>2. ASSUME NEW u \in Tasks, thread[u] = th
        PROVE  CalmTask(u)' /\ (u \in ChromeTasks => CalmTurn(u)')
    <3>1. u \in ChromeTasks => CalmTurn(u)
      BY <1>14, <2>2 DEF TabInv
    <3>2. CalmTurn(u) => CalmTurn(u)'
      BY <1>2, <1>8, <1>10, CalmTurnKept
    <3>3. CalmTask(u)'
      BY <1>2, <2>1, <2>2 DEF CalmTask
    <3>. QED
      BY <3>1, <3>2, <3>3
  <2>. QED
    BY <1>2, <2>1, <2>2 DEF CalmThread
<1>. QED
  BY <1>2, <1>3, <1>8, <1>9, <1>10, <1>11, <1>12, <1>13, <1>14, StepInThread

-----------------------------------------------------------------------------
(* Interrupting a turn, and its end.                                       *)

\* The interrupt is taken: the tabs of the turn are closed.
LEMMA InterruptedKeepsTabs ==
  ASSUME RuntimeInv, TabInv, NEW t \in Tasks, NEW by \in Callers, Interrupted(t, by)
  PROVE  TabInv'
<1>. DEFINE th == thread[t]
            call == InterruptCall(t, by)
            job == Granted(call)
<1>1. /\ job \in jobs /\ jobs' = jobs \ {job} /\ CleanupBrowserTabs(t)
      /\ UNCHANGED <<process, ready, launch, closing, starts, thread, queue, told, turns>>
  BY DEF Interrupted, Granted
<1>2. /\ stops[t][by] = "asked" /\ Asked(t) /\ Single(call) /\ call \in Call /\ th \in Tasks
      /\ Known(t)
  <2>1. Pending(call)
    BY <1>1 DEF Pending
  <2>. QED
    BY <2>1, CallFacts, KnownTasks DEF TabInv, StopInv, Asked, RuntimeInv, TypeOK
<1>3. /\ stops'[t][by] \in {"cleaning"} \union StopEnded
      /\ stops'[t][by] = "done" => th \notin browserCleanups'
      /\ \A u \in Tasks, b \in Callers : u # t \/ b # by => stops'[u][b] = stops[u][b]
  BY <1>1 DEF Interrupted, StopResult, StopEnded, RuntimeInv, TypeOK
<1>4. PICK new \in {{}, {CleanupCall(t)}} : calls' = calls \union new
  <2>1. calls \union {} = calls
    OBVIOUS
  <2>. QED
    BY <1>1, <2>1, ClosingTabs
<1>5. Kept(new)
  BY <1>1, <1>4, TakesCalls, AfterKeeps
<1>6. ~ Pending(call)'
  <2>1. call # CleanupCall(t)
    BY CallFacts
  <2>. QED
    BY <1>1, <1>2, <1>4, <2>1, JobFacts DEF Pending, Single
<1>7. \A u \in Tasks : Granted(TurnCall(u)) \in jobs' <=> Granted(TurnCall(u)) \in jobs
  <2>1. \A u \in Tasks : TurnCall(u) # call
    BY CallFacts
  <2>. QED
    BY <1>1, <2>1, JobFacts
<1>8. \A u \in Tasks : Remains(u) /\ (Asked(u)' <=> Asked(u))
  BY <1>1, <1>2, <1>3, <1>7 DEF Remains, TaskOver, TaskEnded, Asked, Known, StopEnded, Callers
<1>9. \A u \in Tasks \ {t} : Alone(u)
  BY <1>1, <1>7, ClosingTabs DEF Alone
<1>10. ProcessEnds /\ ShutdownInv'
  <2>1. ShutdownInv'
    BY <1>1, <1>2, <1>3 DEF TabInv, ShutdownInv, Callers, StopEnded
  <2>. QED
    BY <1>1, <2>1 DEF ProcessEnds
<1>11. CleanupInv'
  BY <1>1, ClosingKeepsCleanups
<1>12. TurnInv(t)'
  BY <1>1, <1>2, <1>7, <1>8, <1>10, TurnKept DEF TabInv
<1>13. ASSUME NEW u \in Tasks
       PROVE  StopInv(u)'
  <2>1. \A b \in Callers : InterruptCall(u, b) \in Call \ new
    BY CallFacts
  <2>2. ASSUME NEW b \in Callers
        PROVE  /\ Single(InterruptCall(u, b))'
               /\ Pending(InterruptCall(u, b))' => stops'[u][b] = "asked"
    <3>1. /\ Single(InterruptCall(u, b))
          /\ Pending(InterruptCall(u, b)) => stops[u][b] = "asked"
      BY DEF TabInv, StopInv
    <3>. QED
      BY <1>3, <1>5, <1>6, <2>1, <3>1 DEF Kept
  <2>. QED
    BY <1>1, <1>8, <2>2 DEF TabInv, StopInv
<1>14. ASSUME Calm(th)
       PROVE  /\ CalmThread(th)'
              /\ \A u \in Tasks : thread[u] = th =>
                   CalmTask(u)' /\ (u \in ChromeTasks => CalmTurn(u)')
  <2>1. th \notin DOMAIN browserThreads'
    BY <1>1, <1>14, ClosingTabs
  <2>2. \A u \in Tasks : thread[u] = th => u = t
    BY <1>2, <1>14, AskedAlone
  <2>3. CalmThread(th)'
    BY <1>1, <1>2, <1>8, <2>1, <2>2 DEF CalmThread, Remains
  <2>4. CalmTask(t)'
    <3>1. CalmTask(t)
      BY <1>14 DEF TabInv
    <3>2. ASSUME NEW b \in Callers, stops'[t][b] = "done"
          PROVE  th \notin browserCleanups'
      <4>1. CASE b = by
        BY <1>3, <3>2, <4>1
      <4>2. CASE b # by
        <5>1. th \notin DOMAIN browserThreads /\ th \notin browserCleanups
          BY <1>3, <3>1, <3>2, <4>2 DEF CalmTask
        <5>. QED
          BY <1>1, <5>1, ClosingTabs DEF Closes
      <4>. QED
        BY <4>1, <4>2
    <3>. QED
      BY <1>1, <2>1, <3>2 DEF CalmTask
  <2>5. ASSUME t \in ChromeTasks
        PROVE  CalmTurn(t)'
    <3>1. CalmTurn(t) /\ Asked(t) /\ Asked(t)' /\ CalmThread(th)
      BY <1>2, <1>8, <1>14, <2>5 DEF TabInv
    <3>2. CASE Closes(t)
      <4>1. cleaned[t] = 0 /\ cleaned'[t] = 1
        BY <1>1, <3>1, <3>2, ClosingTabs DEF Closes, CalmTurn
      <4>. QED
        BY <1>1, <2>1, <3>1, <4>1 DEF CalmTurn
    <3>3. CASE ~ Closes(t)
      <4>1. /\ cleaned'[t] = cleaned[t]
            /\ process = "running" => th \notin DOMAIN browserThreads
        BY <1>1, <1>2, <3>1, <3>3, ClosingTabs DEF Closes, CalmThread
      <4>. QED
        BY <1>1, <2>1, <3>1, <4>1 DEF CalmTurn
    <3>. QED
      BY <3>2, <3>3
  <2>. QED
    BY <2>2, <2>3, <2>4, <2>5
<1>15. \A u \in Tasks : thread[u] # th => \A b \in Callers : stops'[u][b] = stops[u][b]
  BY <1>3
<1>. QED
  BY <1>1, <1>8, <1>9, <1>10, <1>11, <1>12, <1>13, <1>14, <1>15, UnlistingKeepsList, StepInThread

\* An interrupt is sent, or refused.
LEMMA InterruptsKeepTabs ==
  ASSUME RuntimeInv, TabInv, NEW t \in Tasks, NEW by \in Callers,
         InterruptTask(t, by) \/ InterruptRejected(t, by)
  PROVE  TabInv'
<1>. DEFINE th == thread[t]
            call == InterruptCall(t, by)
<1>1. /\ UNCHANGED <<process, ready, launch, closing, starts, thread, browserThreads,
                     browserCleanups, queue, told, turns, cleaned>>
      /\ \/ /\ jobs' = jobs /\ calls' = calls \union {call} /\ by # "shutdown"
            /\ starts[t] = "started" /\ Completion(t) \notin told
            /\ stops[t][by] = "none" /\ stops'[t][by] = "asked"
         \/ /\ Denied(call) \in jobs /\ jobs' = jobs \ {Denied(call)} /\ calls' = calls
            /\ stops'[t][by] = "failed"
      /\ \A u \in Tasks, b \in Callers : u # t \/ b # by => stops'[u][b] = stops[u][b]
  BY DEF InterruptTask, InterruptRejected, Denied, RuntimeInv, TypeOK
<1>2. call \in Call /\ Single(call) /\ (Pending(call) => stops[t][by] = "asked") /\ th \in Tasks
  BY CallFacts DEF TabInv, StopInv, RuntimeInv, TypeOK
<1>3. Denied(call) \in jobs => stops[t][by] = "asked"
  BY <1>2 DEF Pending
<1>4. PICK gone \in {{}, {Denied(call)}}, new \in {{}, {call}} :
        jobs' = jobs \ gone /\ calls' = calls \union new
  <2>1. jobs \ {} = jobs /\ calls \union {} = calls
    OBVIOUS
  <2>. QED
    BY <1>1, <2>1
<1>5. Kept(new)
  BY <1>4, TakesCalls, AfterKeeps
<1>6. \A u \in Tasks : Granted(TurnCall(u)) \in jobs' <=> Granted(TurnCall(u)) \in jobs
  BY <1>4, JobFacts
<1>7. /\ \A u \in Tasks : Remains(u)
      /\ \A u \in Tasks \ {t} : Asked(u)' <=> Asked(u)
      /\ Asked(t)'
  BY <1>1, <1>3, <1>6 DEF Remains, TaskOver, TaskEnded, Asked, Known, Callers
<1>8. \A u \in Tasks : Alone(u)
  BY <1>1, <1>6 DEF Alone
<1>9. ListInv' /\ ProcessEnds /\ ShutdownInv'
  <2>1. ShutdownInv'
    BY <1>1, <1>3 DEF TabInv, ShutdownInv, Callers, StopEnded
  <2>. QED
    BY <1>1, <2>1 DEF TabInv, ListInv, ProcessEnds
<1>10. \A u \in Tasks : CleanupCall(u) \notin new
  BY CallFacts
<1>11. CleanupInv'
  BY <1>1, <1>5, <1>10, CleanupsKept DEF TabInv
<1>12. TurnInv(t)'
  BY <1>7, <1>8, <1>9, TurnKept DEF TabInv, Alone
<1>13. ASSUME NEW u \in Tasks
       PROVE  StopInv(u)'
  <2>1. Asked(u)' => starts'[u] \in BeginEnded
    <3>1. starts[t] \in BeginEnded
      <4>1. CASE starts[t] = "started"
        BY <4>1 DEF BeginEnded
      <4>2. CASE Denied(call) \in jobs
        BY <4>2, KnownTasks DEF Pending
      <4>. QED
        BY <1>1, <4>1, <4>2
    <3>. QED
      BY <1>1, <1>7, <3>1 DEF TabInv, StopInv
  <2>2. ASSUME NEW b \in Callers
        PROVE  /\ Single(InterruptCall(u, b))'
               /\ Pending(InterruptCall(u, b))' => stops'[u][b] = "asked"
    <3>1. /\ Single(InterruptCall(u, b)) /\ InterruptCall(u, b) \in Call
          /\ Pending(InterruptCall(u, b)) => stops[u][b] = "asked"
      BY CallFacts DEF TabInv, StopInv
    <3>2. CASE u = t /\ b = by
      <4>1. CASE stops[t][by] = "none" /\ calls' = calls \union {call} /\ jobs' = jobs
                   /\ stops'[t][by] = "asked"
        BY <3>1, <3>2, <4>1 DEF Pending, Single
      <4>2. CASE Denied(call) \in jobs /\ jobs' = jobs \ {Denied(call)} /\ calls' = calls
        BY <3>1, <3>2, <4>2, JobFacts DEF Pending, Single
      <4>. QED
        BY <1>1, <4>1, <4>2
    <3>3. CASE u # t \/ b # by
      <4>1. InterruptCall(u, b) # call
        BY <3>3, CallFacts
      <4>. QED
        BY <1>1, <1>5, <3>1, <3>3, <4>1 DEF Kept
    <3>. QED
      BY <3>2, <3>3
  <2>. QED
    BY <2>1, <2>2 DEF StopInv
<1>14. ASSUME Calm(th), Calm(th)'
       PROVE  /\ CalmThread(th)'
              /\ \A u \in Tasks : thread[u] = th =>
                   CalmTask(u)' /\ (u \in ChromeTasks => CalmTurn(u)')
  <2>1. \A u \in Tasks : thread[u] = th => u = t
    BY <1>1, <1>7, <1>14 DEF Calm, Disturbed, Asked
  <2>2. CalmThread(th)'
    <3>1. CalmThread(th)
      BY <1>2, <1>14 DEF TabInv
    <3>. QED
      BY <1>1, <1>2, <1>7, <3>1, CalmThreadKept
  <2>3. CalmTask(t) /\ CalmTask(t)'
    <3>1. CalmTask(t)
      BY <1>14 DEF TabInv
    <3>2. \A b \in Callers : stops'[t][b] = "done" => stops[t][b] = "done"
      BY <1>1
    <3>. QED
      BY <1>1, <1>7, <3>1, <3>2, CalmTaskKept
  <2>4. ASSUME t \in ChromeTasks
        PROVE  CalmTurn(t)'
    <3>1. CalmTurn(t)
      BY <1>14, <2>4 DEF TabInv
    <3>2. CASE Asked(t)
      BY <1>1, <1>7, <3>1, <3>2 DEF CalmTurn
    <3>3. CASE ~ Asked(t)
      <4>1. stops[t][by] # "asked"
        BY <3>3 DEF Asked
      <4>2. starts[t] = "started" /\ Completion(t) \notin told
        BY <1>1, <1>3, <4>1
      <4>3. ~ TaskOver(t)
        BY <3>3, <4>2 DEF TaskOver, TaskEnded, Asked, Callers
      <4>4. turns[t] \in {"completed", "late"} => th \notin DOMAIN browserThreads
        BY <2>3, <4>3 DEF CalmTask
      <4>5. turns[t] \in {"none", "running", "completed", "late"}
        BY DEF RuntimeInv, TypeOK
      <4>. QED
        BY <1>1, <1>7, <3>1, <3>3, <4>2, <4>4, <4>5 DEF CalmTurn
    <3>. QED
      BY <3>2, <3>3
  <2>. QED
    BY <2>1, <2>2, <2>3, <2>4
<1>. QED
  BY <1>1, <1>7, <1>8, <1>9, <1>11, <1>12, <1>13, <1>14, StepInThread

\* The turn ends: its tabs are closed.
LEMMA CompletionKeepsTabs ==
  ASSUME RuntimeInv, TabInv, NEW t \in Tasks, TurnCompleted(t)
  PROVE  TabInv'
<1>. DEFINE th == thread[t]
<1>1. /\ turns[t] = "running" /\ CleanupBrowserTabs(t)
      /\ queue' = Append(queue, Completion(t))
      /\ UNCHANGED <<process, ready, launch, closing, jobs, starts, thread, stops, told>>
  BY DEF TurnCompleted
<1>2. /\ turns'[t] = IF process = "none" THEN "late" ELSE "completed"
      /\ \A u \in Tasks \ {t} : turns'[u] = turns[u]
  BY DEF TurnCompleted, RuntimeInv, TypeOK
<1>3. /\ th \in Tasks /\ Known(t) /\ starts[t] \in {"turn"} \union BeginEnded
      /\ starts[t] = "rejected" => process # "running"
      /\ Completion(t) \notin told
  <2>1. Known(t) /\ TaskInv(t) /\ TurnInv(t)
    BY <1>1, KnownTasks DEF RuntimeInv, TabInv
  <2>2. Granted(TurnCall(t)) \in jobs => starts[t] = "turn"
    BY <2>1 DEF TaskInv, Pending
  <2>. QED
    BY <1>1, <2>1, <2>2 DEF Known, TurnInv, RuntimeInv, TypeOK
<1>4. Kept({CleanupCall(t)})
  <2>1. jobs' = jobs \ {} /\ (calls' = calls \union {} \/ calls' = calls \union {CleanupCall(t)})
    BY <1>1, ClosingTabs
  <2>2. Kept({}) \/ Kept({CleanupCall(t)})
    BY <2>1, TakesCalls, AfterKeeps
  <2>. QED
    BY <2>2 DEF Kept
<1>5. \A u \in Tasks : Remains(u) /\ (Asked(u)' <=> Asked(u)) /\ (Known(u)' <=> Known(u))
  BY <1>1 DEF Remains, TaskOver, TaskEnded, Asked, Known
<1>6. \A u \in Tasks \ {t} : Alone(u)
  <2>1. Completion(t) \in Event \ {Completion(u) : u \in Tasks \ {t}}
    BY EventFacts
  <2>2. ASSUME NEW u \in Tasks \ {t}, Completion(u) \in Range(queue')
        PROVE  Completion(u) \in Range(queue)
    BY <1>1, <2>1, <2>2, NothingCompletes
  <2>. QED
    BY <1>1, <1>2, <2>2, ClosingTabs DEF Alone
<1>7. ProcessEnds /\ ShutdownInv'
  BY <1>1, ShutdownKept DEF TabInv, ProcessEnds
<1>8. CleanupInv'
  <2>1. jobs' = jobs \ {}
    BY <1>1
  <2>. QED
    BY <1>1, <2>1, ClosingKeepsCleanups
<1>9. TurnInv(t)'
  <2>1. TurnInv(t)
    BY DEF TabInv
  <2>. QED
    BY <1>1, <1>2, <1>3, <1>5, <2>1 DEF TurnInv
<1>10. \A u \in Tasks : StopInv(u)'
  <2>1. \A u \in Tasks, by \in Callers : InterruptCall(u, by) \notin {CleanupCall(t)}
    BY CallFacts
  <2>. QED
    BY <1>1, <1>4, <1>5, <2>1, StopKept DEF TabInv
<1>11. ASSUME Calm(th)
       PROVE  /\ CalmThread(th)'
              /\ \A u \in Tasks : thread[u] = th =>
                   CalmTask(u)' /\ (u \in ChromeTasks => CalmTurn(u)')
  <2>1. th \notin DOMAIN browserThreads' /\ CalmThread(th)
    BY <1>1, <1>3, <1>11, ClosingTabs DEF TabInv
  \* Another task of the thread is over, and so is its turn.
  <2>2. ASSUME NEW u \in Tasks \ {t}, thread[u] = th, starts[u] # "none", process = "running"
        PROVE  /\ Known(u)
               /\ ~ (starts[u] \in {"turn", "started"} /\ turns[u] \in {"none", "running"})
    <3>1. ~ Asked(u) /\ ~ Asked(t)
      BY <1>11, <2>2, AskedAlone
    <3>2. ~ TaskOver(t)
      BY <1>3, <2>2, <3>1 DEF TaskOver, TaskEnded, Asked, Callers
    <3>3. TaskOver(u)
      BY <1>3, <2>2, <3>2 DEF TabInv, ThreadInv, BeginEnded
    <3>. QED
      BY <2>2, <3>1, <3>3, OverTurn
  <2>3. CalmThread(th)'
    <3>1. CASE Closes(t)
      <4>1. \A u \in Tasks : thread[u] = th => starts[u] = "none" \/ Known(u)
        BY <1>3, <2>2, <3>1 DEF Closes
      <4>. QED
        BY <1>1, <1>5, <2>1, <4>1 DEF CalmThread
    <3>2. CASE ~ Closes(t)
      <4>1. browserCleanups' = browserCleanups
        BY <1>1, <3>2, ClosingTabs
      <4>. QED
        BY <1>1, <1>5, <2>1, <4>1 DEF CalmThread
    <3>. QED
      BY <3>1, <3>2
  <2>4. ASSUME NEW u \in Tasks, thread[u] = th
        PROVE  CalmTask(u)'
    <3>1. ASSUME NEW by \in Callers, stops[u][by] = "done"
          PROVE  th \notin browserCleanups'
      <4>1. th \notin DOMAIN browserThreads /\ th \notin browserCleanups
        BY <1>11, <2>4, <3>1 DEF TabInv, CalmTask
      <4>. QED
        BY <1>1, <4>1, ClosingTabs DEF Closes
    <3>. QED
      BY <1>1, <2>1, <2>4, <3>1 DEF CalmTask
  <2>5. ASSUME t \in ChromeTasks
        PROVE  CalmTurn(t)'
    <3>1. CalmTurn(t)
      BY <1>11, <2>5 DEF TabInv
    <3>2. process = "running" => starts[t] \in {"turn", "started"}
      BY <1>3 DEF BeginEnded
    <3>3. CASE Closes(t)
      <4>1. cleaned[t] = 0 /\ cleaned'[t] = 1
        BY <1>1, <3>1, <3>2, <3>3, ClosingTabs DEF Closes, CalmTurn
      <4>. QED
        BY <1>1, <1>2, <2>1, <4>1 DEF CalmTurn
    <3>4. CASE ~ Closes(t)
      <4>1. cleaned'[t] = cleaned[t]
        BY <1>1, <3>4, ClosingTabs
      <4>2. process = "running" => th \notin DOMAIN browserThreads
        BY <1>3, <2>1, <3>4 DEF Closes, CalmThread
      <4>. QED
        BY <1>1, <1>2, <2>1, <3>1, <3>2, <4>1, <4>2 DEF CalmTurn
    <3>. QED
      BY <3>3, <3>4
  <2>6. ASSUME NEW u \in ChromeTasks \ {t}, thread[u] = th, u \in Tasks
        PROVE  CalmTurn(u)'
    <3>1. CalmTurn(u) /\ ~ Asked(u) /\ Alone(u)
      BY <1>6, <1>11, <2>6, AskedAlone DEF TabInv
    <3>2. process = "running" =>
            ~ (starts[u] \in {"turn", "started"} /\ turns[u] \in {"none", "running"})
      BY <2>2, <2>6
    <3>. QED
      BY <1>1, <1>5, <2>6, <3>1, <3>2 DEF CalmTurn, Alone
  <2>. QED
    BY <2>3, <2>4, <2>5, <2>6
<1>. QED
  BY <1>1, <1>5, <1>6, <1>7, <1>8, <1>9, <1>10, <1>11, UnlistingKeepsList, StepInThread

-----------------------------------------------------------------------------
(* The other steps.                                                        *)

\* A response settles its request; with that of turn/start the turn runs.
LEMMA RespondKeepsTabs ==
  ASSUME RuntimeInv, TabInv, NEW c \in calls, NEW ok \in BOOLEAN, Respond(c, ok)
  PROVE  TabInv'
<1>1. /\ calls' = calls \ {c} /\ jobs' = jobs \union {[call |-> c, ok |-> ok]}
      /\ UNCHANGED <<process, ready, launch, closing, starts, thread, stops, browserThreads,
                     browserCleanups, queue, told, cleaned>>
  BY DEF Respond
<1>2. Kept({}) /\ After({}, {}) /\ c \in Call
  BY <1>1, SettlesCalls, AfterKeeps DEF RuntimeInv, TypeOK
<1>3. ShutdownInv' /\ ProcessEnds
  BY <1>1, ShutdownKept DEF TabInv, ProcessEnds
<1>4. CASE \A t \in Tasks : ~ (c = TurnCall(t) /\ ok)
  <2>1. turns' = turns
    <3>1. ~ (c.op = "turn" /\ ok)
      BY <1>2, <1>4, CallCases, CallFacts DEF LaunchOps
    <3>. QED
      BY <3>1 DEF Respond
  <2>2. \A t \in Tasks : Granted(TurnCall(t)) \in jobs' <=> Granted(TurnCall(t)) \in jobs
    BY <1>1, <1>4 DEF Granted
  <2>. QED
    BY <1>1, <1>2, <1>3, <2>1, <2>2, QuietStep
<1>5. ASSUME NEW t \in Tasks, c = TurnCall(t), ok
      PROVE  TabInv'
  <2>1. jobs' = jobs \union {Granted(TurnCall(t))}
    BY <1>1, <1>5 DEF Granted
  <2>2. turns'[t] = "running" /\ \A u \in Tasks \ {t} : turns'[u] = turns[u]
    BY <1>5, CallFacts DEF Respond, RuntimeInv, TypeOK
  <2>3. /\ starts[t] = "turn" /\ ~ Known(t) /\ Known(t)' /\ turns[t] = "none" /\ cleaned[t] = 0
        /\ ~ Asked(t) /\ thread[t] \in Tasks
    <3>1. Pending(TurnCall(t)) /\ TaskInv(t)
      BY <1>5 DEF Pending, RuntimeInv
    <3>2. starts[t] = "turn" /\ ~ Known(t)
      BY <1>5, <3>1 DEF TaskInv, Single, Known, BeginEnded
    <3>. QED
      BY <2>1, <3>2, KnownTasks, OthersOver DEF Known, TabInv, TurnInv, RuntimeInv, TypeOK,
                                               BeginEnded
  <2>4. \A u \in Tasks \ {t} : Granted(TurnCall(u)) \in jobs' => Granted(TurnCall(u)) \in jobs
    <3>1. \A u \in Tasks \ {t} : TurnCall(u) # TurnCall(t)
      BY CallFacts
    <3>. QED
      BY <2>1, <3>1, JobFacts
  <2>5. \A u \in Tasks : Remains(u) /\ (Asked(u)' <=> Asked(u))
    BY <1>1, <2>1 DEF Remains, TaskOver, TaskEnded, Asked, Known
  <2>6. \A u \in Tasks \ {t} : Alone(u)
    BY <1>1, <2>2, <2>4 DEF Alone
  <2>7. ListInv' /\ CleanupInv'
    BY <1>1, <1>2, CleanupsKept DEF TabInv, ListInv
  <2>8. TurnInv(t)'
    BY <1>1, <2>2, <2>3 DEF TabInv, TurnInv
  <2>9. \A u \in Tasks : StopInv(u)'
    BY <1>1, <1>2, <2>5, StopKept DEF TabInv
  <2>10. ASSUME Calm(thread[t])
         PROVE  /\ CalmThread(thread[t])'
                /\ \A u \in Tasks : thread[u] = thread[t] =>
                     CalmTask(u)' /\ (u \in ChromeTasks => CalmTurn(u)')
    <3>1. CalmThread(thread[t])'
      <4>1. CalmThread(thread[t]) /\ browserThreads \in [DOMAIN browserThreads -> Tasks \union {NoTask}]
        BY <2>3, <2>10 DEF TabInv, RuntimeInv, ConnectionInv
      <4>2. thread[t] \in DOMAIN browserThreads =>
              browserThreads[thread[t]] = NoTask \/ turns'[browserThreads[thread[t]]] = "running"
        BY <2>2, <4>1 DEF CalmThread
      <4>. QED
        BY <1>1, <2>5, <4>1, <4>2 DEF CalmThread, Remains
    <3>2. ASSUME NEW u \in Tasks, thread[u] = thread[t]
          PROVE  CalmTask(u)' /\ (u \in ChromeTasks => CalmTurn(u)')
      <4>1. CalmTask(u) /\ (u \in ChromeTasks => CalmTurn(u))
        BY <2>10, <3>2 DEF TabInv
      <4>2. u = t \/ turns'[u] = turns[u]
        BY <2>2
      <4>3. CalmTask(u)'
        BY <1>1, <2>2, <2>5, <4>1, <4>2, CalmTaskKept
      <4>4. CalmTurn(u) => CalmTurn(u)'
        BY <1>1, <1>3, <2>2, <2>3, <2>5, <4>2, CalmTurnKept
      <4>. QED
        BY <4>1, <4>3, <4>4
    <3>. QED
      BY <3>1, <3>2
  <2>. QED
    BY <1>1, <1>3, <2>5, <2>6, <2>7, <2>8, <2>9, <2>10, StepInThread
<1>. QED
  BY <1>4, <1>5

\* Shutdown interrupts the turns that are listed: these run.
LEMMA ShutdownKeepsTabs ==
  ASSUME RuntimeInv, TabInv, Shutdown
  PROVE  TabInv'
<1>. DEFINE running == {browserThreads[th] : th \in DOMAIN browserThreads} \ {NoTask}
            asked == {InterruptCall(t, "shutdown") : t \in running}
<1>1. /\ UNCHANGED <<process, ready, launch, jobs, starts, thread, browserThreads,
                     browserCleanups, queue, told, turns, cleaned>>
      /\ closing = "no" /\ closing' = "interrupting"
      /\ \A t \in Tasks, by \in Callers \ {"shutdown"} : stops'[t][by] = stops[t][by]
      /\ \A t \in Tasks \ running : stops'[t]["shutdown"] = "none"
      /\ \A t \in Tasks \intersect running :
           stops'[t]["shutdown"] = IF ready THEN "asked" ELSE "failed"
      /\ calls' = IF ready THEN calls \union asked ELSE calls
  BY DEF Shutdown, RuntimeInv, TypeOK, Callers
<1>2. /\ \A t \in Tasks : stops[t]["shutdown"] = "none" /\ ~ Pending(InterruptCall(t, "shutdown"))
      /\ "shutdown" \in Callers
  BY <1>1 DEF TabInv, ShutdownInv, StopInv, Callers
<1>3. ASSUME NEW t \in Tasks, t \in running
      PROVE  /\ starts[t] \in BeginEnded /\ thread[t] \in DOMAIN browserThreads
             /\ browserThreads[thread[t]] = t
  <2>1. PICK th \in DOMAIN browserThreads : browserThreads[th] = t
    BY <1>3
  <2>2. t \in Range(browserThreads) /\ t # NoTask
    BY <2>1, RuntimeAssumption DEF Range
  <2>. QED
    BY <2>1, <2>2, KnownTasks DEF TabInv, ListInv
<1>. HIDE DEF running
<1>4. \A t \in Tasks : /\ Remains(t)
                       /\ t \notin running => (Asked(t)' <=> Asked(t))
  BY <1>1, <1>2 DEF Remains, TaskOver, TaskEnded, Asked, Known, Callers
<1>5. PICK new \in SUBSET asked : calls' = calls \union new
  <2>1. {} \in SUBSET asked /\ calls \union {} = calls
    OBVIOUS
  <2>. QED
    BY <1>1, <2>1
<1>6. jobs' = jobs \ {}
  BY <1>1
<1>7. Kept(new)
  BY <1>5, <1>6, TakesCalls, AfterKeeps
<1>8. ThreadInv' /\ \A th \in Tasks : Calm(th)' => Calm(th)
  BY <1>1, <1>4, ThreadsRemain DEF TabInv
<1>9. ListInv' /\ ProcessEnds /\ ShutdownInv'
  <2>1. ShutdownInv'
    BY <1>1 DEF TabInv, ShutdownInv
  <2>. QED
    BY <1>1, <2>1 DEF TabInv, ListInv, ProcessEnds
<1>10. CleanupInv'
  <2>1. \A t \in Tasks : \A u : CleanupCall(t) # InterruptCall(u, "shutdown")
    BY DEF CleanupCall, InterruptCall
  <2>. QED
    BY <1>1, <1>7, <2>1, CleanupsKept DEF TabInv
<1>11. ASSUME NEW t \in Tasks
       PROVE  TurnInv(t)'
  BY <1>1, <1>4, <1>9, TurnKept DEF TabInv
<1>12. ASSUME NEW t \in Tasks
       PROVE  StopInv(t)'
  <2>1. Asked(t)' => starts'[t] \in BeginEnded
    BY <1>1, <1>3, <1>4 DEF TabInv, StopInv
  <2>2. ASSUME NEW by \in Callers \ {"shutdown"}
        PROVE  /\ Single(InterruptCall(t, by))'
               /\ Pending(InterruptCall(t, by))' => stops'[t][by] = "asked"
    <3>1. InterruptCall(t, by) \in Call \ new
      <4>1. \A u : InterruptCall(t, by) # InterruptCall(u, "shutdown")
        BY DEF InterruptCall
      <4>. QED
        BY <4>1, CallFacts
    <3>2. /\ Single(InterruptCall(t, by))
          /\ Pending(InterruptCall(t, by)) => stops[t][by] = "asked"
      BY DEF TabInv, StopInv
    <3>. QED
      BY <1>1, <1>7, <3>1, <3>2 DEF Kept
  <2>3. /\ Single(InterruptCall(t, "shutdown"))'
        /\ Pending(InterruptCall(t, "shutdown"))' => stops'[t]["shutdown"] = "asked"
    <3>1. Single(InterruptCall(t, "shutdown"))'
      BY <1>1, <1>2 DEF Single, Pending
    <3>2. ASSUME Pending(InterruptCall(t, "shutdown"))'
          PROVE  ready /\ t \in running
      <4>1. ready /\ InterruptCall(t, "shutdown") \in asked
        BY <1>1, <1>2, <3>2 DEF Pending
      <4>2. \A u : InterruptCall(u, "shutdown") = InterruptCall(t, "shutdown") => u = t
        BY DEF InterruptCall
      <4>. QED
        BY <4>1, <4>2
    <3>. QED
      BY <1>1, <3>1, <3>2
  <2>. QED
    BY <2>1, <2>2, <2>3 DEF StopInv
<1>13. ASSUME NEW th \in Tasks, Calm(th)'
       PROVE  CalmThread(th)'
  BY <1>1, <1>4, <1>8, <1>13, CalmThreadKept DEF TabInv
<1>14. ASSUME NEW t \in Tasks, Calm(thread[t])'
       PROVE  CalmTask(t)' /\ (t \in ChromeTasks => CalmTurn(t)')
  <2>1. thread[t] \in Tasks /\ Calm(thread[t])
    BY <1>1, <1>8, <1>14 DEF RuntimeInv, TypeOK
  <2>2. CalmTask(t) /\ (t \in ChromeTasks => CalmTurn(t)) /\ CalmThread(thread[t])
    BY <2>1 DEF TabInv
  <2>3. CalmTask(t)'
    <3>1. \A by \in Callers : stops'[t][by] = "done" => stops[t][by] = "done"
      BY <1>1
    <3>. QED
      BY <1>1, <1>4, <2>2, <3>1, CalmTaskKept
  <2>4. ASSUME CalmTurn(t)
        PROVE  CalmTurn(t)'
    <3>1. CASE t \notin running
      BY <1>1, <1>4, <1>9, <2>4, <3>1, CalmTurnKept
    <3>2. CASE t \in running
      <4>1. turns[t] = "running" /\ t # NoTask
        BY <1>3, <2>2, <3>2, RuntimeAssumption DEF CalmThread
      <4>2. process = "running" => starts[t] = "started"
        BY <1>3, <3>2, <4>1 DEF TabInv, TurnInv, BeginEnded
      <4>3. process = "running" => cleaned[t] = 0
        BY <1>3, <2>4, <3>2, <4>1, <4>2 DEF CalmTurn
      <4>. QED
        BY <1>1, <1>3, <2>4, <3>2, <4>1, <4>3 DEF CalmTurn
    <3>. QED
      BY <3>1, <3>2
  <2>. QED
    BY <2>2, <2>3, <2>4
<1>. QED
  BY <1>1, <1>8, <1>9, <1>10, <1>11, <1>12, <1>13, <1>14, RuntimeAssumption DEF TabInv

\* A task is accepted: in a thread of its own, or in one whose tasks are over.
LEMMA AcceptingKeepsTabs ==
  ASSUME RuntimeInv, TabInv, NEW t \in Tasks, NEW from \in Tasks, StartTask(t, from)
  PROVE  TabInv'
<1>1. /\ jobs = {} /\ starts[t] = "none"
      /\ from # t => /\ TaskEnded(from)
                     /\ \A u \in Tasks : thread[u] = thread[from] => TaskOver(u)
      /\ UNCHANGED <<process, ready, launch, closing, calls, jobs, stops, browserThreads,
                     browserCleanups, queue, told, turns, cleaned>>
  BY DEF StartTask, NextCallback
<1>2. /\ starts'[t] = "preparing" /\ thread'[t] = thread[from]
      /\ \A u \in Tasks \ {t} : starts'[u] = starts[u] /\ thread'[u] = thread[u]
      /\ \A u \in Tasks : thread[u] \in Tasks
  BY DEF StartTask, RuntimeInv, TypeOK
<1>3. /\ thread[t] = t /\ ~ Asked(t) /\ ~ Known(t) /\ turns[t] = "none" /\ cleaned[t] = 0
      /\ \A u \in Tasks \ {t} : thread[u] # t
  <2>1. ~ Known(t) /\ ~ Asked(t)
    BY <1>1 DEF Known, TabInv, StopInv, BeginEnded
  <2>. QED
    BY <1>1, <2>1, KnownTasks DEF TabInv, ThreadInv, TurnInv
<1>4. \A u \in Tasks : Asked(u)' <=> Asked(u)
  BY <1>1 DEF Asked
<1>5. \A u \in Tasks : Remains(u)
  BY <1>1, <1>2, <1>4 DEF Remains, TaskOver, TaskEnded, Known, BeginEnded
<1>6. \A u \in Tasks : starts[u] # "none" => starts'[u] # "none" /\ thread'[u] = thread[u]
  BY <1>1, <1>2
<1>7. ThreadInv'
  <2>1. ASSUME from # t
        PROVE  starts[from] # "none"
    <3>1. TaskEnded(from)
      BY <1>1, <2>1
    <3>2. Completion(from) \in told \/ Asked(from)
      BY <3>1 DEF TaskEnded, Asked, Callers
    <3>. QED
      BY <3>2 DEF RuntimeInv, TaskInv, TabInv, StopInv, BeginEnded
  <2>2. ASSUME NEW u \in Tasks, thread'[u] # u
        PROVE  starts'[u] # "none" /\ starts'[thread'[u]] # "none"
    <3>1. CASE u = t
      <4>1. from # t
        BY <1>2, <1>3, <2>2, <3>1
      <4>2. starts[thread[from]] # "none"
        BY <2>1, <4>1 DEF TabInv, ThreadInv
      <4>. QED
        BY <1>2, <1>6, <3>1, <4>2
    <3>2. CASE u # t
      BY <1>2, <1>6, <2>2, <3>2 DEF TabInv, ThreadInv
    <3>. QED
      BY <3>1, <3>2
  <2>3. ASSUME NEW u \in Tasks \ {t}, thread'[u] = thread'[t]
        PROVE  TaskOver(u)'
    <3>1. thread[u] = thread[from]
      BY <1>2, <2>3
    <3>2. from # t
      BY <1>3, <2>3, <3>1
    <3>. QED
      BY <1>1, <1>5, <3>1, <3>2 DEF Remains
  <2>4. ASSUME NEW u \in Tasks \ {t}, NEW v \in Tasks \ {t}, thread'[u] = thread'[v],
               starts'[u] # "none", starts'[v] # "none"
        PROVE  u = v \/ TaskOver(u)' \/ TaskOver(v)'
    BY <1>2, <1>5, <2>4 DEF TabInv, ThreadInv, Remains
  <2>. QED
    BY <2>2, <2>3, <2>4 DEF ThreadInv
<1>8. ASSUME NEW th \in Tasks, Disturbed(th)
      PROVE  Disturbed(th)'
  <2>1. PICK u \in Tasks, v \in Tasks : thread[u] = th /\ Asked(u) /\ thread[v] = th /\ v # u
    BY <1>8 DEF Disturbed, Asked
  <2>2. u # t
    BY <1>3, <2>1
  <2>3. v # t
    BY <1>3, <2>1, <2>2
  <2>. QED
    BY <1>2, <1>4, <2>1, <2>2, <2>3 DEF Disturbed, Asked
<1>9. ListInv' /\ ShutdownInv' /\ ProcessEnds
  BY <1>1, <1>6, ListKept, ShutdownKept DEF TabInv, ProcessEnds
<1>10. \A c : (Pending(c)' <=> Pending(c)) /\ (Single(c)' <=> Single(c))
  BY <1>1 DEF Pending, Single
<1>11. CleanupInv'
  <2>1. Kept({})
    BY <1>10 DEF Kept
  <2>. QED
    BY <1>1, <1>6, <2>1, CleanupsKept DEF TabInv
<1>12. ASSUME NEW u \in Tasks
       PROVE  TurnInv(u)' /\ StopInv(u)'
  <2>1. TurnInv(u)'
    BY <1>1, <1>2, <1>5, <1>9, TurnKept DEF TabInv
  <2>2. StopInv(u)'
    BY <1>1, <1>4, <1>5, <1>10 DEF TabInv, StopInv, Remains
  <2>. QED
    BY <2>1, <2>2
<1>13. ASSUME NEW th \in Tasks, Calm(th)'
       PROVE  CalmThread(th)'
  <2>1. CalmThread(th)
    BY <1>8, <1>13 DEF TabInv, Calm
  <2>. QED
    BY <1>1, <1>2, <1>5, <2>1 DEF CalmThread, Remains
<1>14. ASSUME NEW u \in Tasks, Calm(thread[u])'
       PROVE  CalmTask(u)' /\ (u \in ChromeTasks => CalmTurn(u)')
  <2>1. CASE u = t
    <3>1. \A by \in Callers : stops'[t][by] = "none"
      BY <1>1, <1>3 DEF Asked
    <3>2. CalmTask(t)'
      BY <1>1, <1>3, <3>1 DEF CalmTask
    <3>3. CalmTurn(t)'
      BY <1>1, <1>2, <1>3, <1>4 DEF CalmTurn
    <3>. QED
      BY <2>1, <3>2, <3>3
  <2>2. CASE u # t
    <3>1. thread'[u] = thread[u] /\ thread[u] \in Tasks /\ starts'[u] = starts[u]
      BY <1>2, <2>2
    <3>2. Calm(thread[u])
      BY <1>8, <1>14, <3>1 DEF Calm
    <3>3. CalmTask(u) /\ (u \in ChromeTasks => CalmTurn(u))
      BY <3>2 DEF TabInv
    <3>4. CalmTask(u)'
      BY <1>1, <1>5, <3>1, <3>3, CalmTaskKept
    <3>5. CalmTurn(u) => CalmTurn(u)'
      BY <1>1, <1>4, <1>9, <3>1, CalmTurnKept
    <3>. QED
      BY <3>3, <3>4, <3>5
  <2>. QED
    BY <2>1, <2>2
<1>. QED
  BY <1>7, <1>9, <1>11, <1>12, <1>13, <1>14, RuntimeAssumption DEF TabInv

-----------------------------------------------------------------------------
(* Every step keeps the invariant.                                         *)

LEMMA TabInvStep == RuntimeInv /\ TabInv /\ [Next]_vars => TabInv'
<1>. SUFFICES ASSUME RuntimeInv, TabInv, [Next]_vars PROVE TabInv'
  OBVIOUS
<1>1. CASE ProcessExit \/ Drained \/ ConnectionFails \/ RequestTimeout \/ Close
  BY <1>1, FailingKeepsTabs
<1>2. CASE Initialized \/ CapabilitiesLoaded \/ LaunchFails
  BY <1>2, LaunchKeepsTabs
<1>3. ASSUME NEW t \in Tasks, SendThread(t) \/ \E th \in Tasks : StartTask(t, th)
      PROVE  TabInv'
  BY <1>3, SendKeepsTabs, AcceptingKeepsTabs
<1>4. ASSUME NEW t \in Tasks, Continue(t)
      PROVE  TabInv'
  BY <1>4, RejectionKeepsTabs, ListingKeepsTabs, TurnKeepsTabs, CleanupKeepsTabs,
     InterruptedKeepsTabs, InterruptsKeepTabs DEF Continue
<1>5. ASSUME NEW t \in Tasks, NEW by \in Callers, InterruptTask(t, by)
      PROVE  TabInv'
  BY <1>5, InterruptsKeepTabs
<1>6. ASSUME NEW t \in Tasks, TurnCompleted(t)
      PROVE  TabInv'
  BY <1>6, CompletionKeepsTabs
<1>7. ASSUME NEW call \in calls, NEW ok \in BOOLEAN, Respond(call, ok)
      PROVE  TabInv'
  BY <1>7, RespondKeepsTabs
<1>8. CASE \/ \E t \in Tasks : NotePosted(t) \/ \E p \in Permissions : AskPermission(p, t)
           \/ \E p \in Permissions : PermissionResolved(p) \/ ResolvePermission(p)
           \/ Flush \/ AwaitCleanups \/ UNCHANGED vars
  BY <1>8, LinesKeepTabs
<1>9. CASE Shutdown
  BY <1>9, ShutdownKeepsTabs
<1>. QED
  BY <1>1, <1>2, <1>3, <1>4, <1>5, <1>6, <1>7, <1>8, <1>9 DEF Next

LEMMA TabInvariant == Spec => []TabInv
BY RuntimeInvariant, TabInvInit, TabInvStep, PTL DEF Spec

(* The tabs of a browser turn are closed once it is over, by one request,  *)
(* whether its own end, an interrupt or shutdown asks first; a turn that   *)
(* shutdown finds listed runs; and while tabs of a thread are being closed *)
(* nothing is started in it.                                               *)
THEOREM TabsAlwaysClose == Spec => []TabsAreClosed
BY RuntimeInvariant, TabInvariant, TabsFollow, PTL

(* Shutdown kills the process only when its own interrupts are answered    *)
(* and the tabs that it waits for are closed; nothing is ready after that. *)
THEOREM ShutdownAlwaysWaits == Spec => ShutdownWaits
<1>1. RuntimeInv /\ TabInv /\ RuntimeInv' /\ TabInv' /\ [Next]_vars =>
        [closing' = "closed" =>
           /\ ~ ready'
           /\ closing # "closed" =>
                \A t \in Tasks :
                  /\ InterruptCall(t, "shutdown") \notin calls
                  /\ CleanupCall(t) \in calls =>
                       /\ thread[t] \notin awaited
                       /\ stops[t]["shutdown"] # "done" \/ Disturbed(thread[t])]_vars
  BY ShutdownFollows
<1>. QED
  BY <1>1, RuntimeInvariant, TabInvariant, PTL DEF Spec, ShutdownWaits

=============================================================================
