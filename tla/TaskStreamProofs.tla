--------------------------- MODULE TaskStreamProofs ---------------------------
(***************************************************************************)
(* Theorems about the life of a task and its event stream, for every set   *)
(* of tasks, permissions and readers and every bound: the log of a task    *)
(* tells all of it, and every connection follows the log however often it  *)
(* is replaced.                                                            *)
(***************************************************************************)
EXTENDS TaskStream, SequenceTheorems, TLAPS

-----------------------------------------------------------------------------
(* A task at a time.                                                       *)

EventTypes == {"progress", "permission-required", "permission-resolved"} \union Terminal

LEMMA LoggedFacts ==
  ASSUME NEW events \in Seq(Event), NEW type \in EventTypes,
         NEW p \in Permissions \union {NoPermission}
  PROVE  LET longer == Logged(events, type, p)
         IN  /\ longer \in Seq(Event)
             /\ Len(events) \in Nat
             /\ Len(longer) = Len(events) + 1
             /\ \A i \in 1 .. Len(events) : longer[i] = events[i]
             /\ longer[Len(events) + 1] = [type |-> type, permission |-> p]
<1>1. [type |-> type, permission |-> p] \in Event
  BY DEF Event, EventTypes
<1>. QED
  BY <1>1, AppendProperties, LenProperties DEF Logged

\* What may become of the view of a task.
Goes(v, w) ==
  \/ w = v
  \/ v.status = "absent" /\ w = Begun
  \/ /\ v.status = "running"
     /\ \/ w = Reported(v)
        \/ \E p \in Permissions : v.permission = NoPermission /\ w = Prompted(v, p)
        \/ v.permission # NoPermission /\ w = Answered(v)
        \/ \E status \in Terminal : w = Ended(v, status)

LEMMA StepGoes ==
  ASSUME TypeOK, [Next]_view, NEW t \in Tasks
  PROVE  Goes(view[t], view'[t])
<1>1. ASSUME NEW u \in Tasks, Begin(u)
      PROVE  Goes(view[t], view'[t])
  BY <1>1 DEF Begin, Goes, TypeOK
<1>2. ASSUME NEW u \in Tasks, Report(u)
      PROVE  Goes(view[t], view'[t])
  BY <1>2 DEF Report, Goes, TypeOK
<1>3. ASSUME NEW u \in Tasks, Answer(u)
      PROVE  Goes(view[t], view'[t])
  BY <1>3 DEF Answer, Goes, TypeOK
<1>4. ASSUME NEW u \in Tasks, NEW p \in Permissions, Ask(u, p)
      PROVE  Goes(view[t], view'[t])
  BY <1>4 DEF Ask, Goes, TypeOK
<1>5. ASSUME NEW u \in Tasks, NEW status \in Terminal, End(u, status)
      PROVE  Goes(view[t], view'[t])
  BY <1>5 DEF End, Goes, TypeOK
<1>6. CASE EndAll
  BY <1>6 DEF EndAll, Goes, Terminal
<1>7. CASE UNCHANGED view
  BY <1>7 DEF Goes
<1>. QED
  BY <1>1, <1>2, <1>3, <1>4, <1>5, <1>6, <1>7 DEF Next

\* The new view of a task that has not stayed as it was.
Grown(v, w, type, p) ==
  /\ w.events = Logged(v.events, type, p)
  /\ v.status \in {"absent", "running"}
  /\ type \in Terminal => w.status = type /\ w.permission = NoPermission
  /\ type \notin Terminal => w.status = "running"
  /\ type = "progress" => w.permission = v.permission
  /\ type = "permission-required" => w.permission = p /\ v.permission = NoPermission
  /\ type = "permission-resolved" => w.permission = NoPermission

\* Nothing is known of a task that has not begun.
Unbegun(v) == v.status = "absent" => v.events = <<>> /\ v.permission = NoPermission

LEMMA GoesGrown ==
  ASSUME NEW v \in TaskView, NEW w, Unbegun(v), Goes(v, w), w # v
  PROVE  \E type \in EventTypes, p \in Permissions \union {NoPermission} :
           Grown(v, w, type, p)
<1>1. CASE v.status = "absent" /\ w = Begun
  <2>1. Grown(v, w, "progress", NoPermission)
    BY <1>1 DEF Grown, Begun, Unbegun, Terminal
  <2>. QED
    BY <2>1 DEF EventTypes
<1>2. CASE v.status = "running" /\ w = Reported(v)
  <2>1. Grown(v, w, "progress", NoPermission)
    BY <1>2 DEF Grown, Reported, Continued, Terminal
  <2>. QED
    BY <2>1 DEF EventTypes
<1>3. ASSUME NEW p \in Permissions,
             v.status = "running", v.permission = NoPermission, w = Prompted(v, p)
      PROVE  \E type \in EventTypes : Grown(v, w, type, p)
  <2>1. Grown(v, w, "permission-required", p)
    BY <1>3 DEF Grown, Prompted, Continued, Terminal
  <2>. QED
    BY <2>1 DEF EventTypes
<1>4. CASE v.status = "running" /\ w = Answered(v)
  <2>1. Grown(v, w, "permission-resolved", v.permission)
    BY <1>4 DEF Grown, Answered, Continued, Terminal
  <2>. QED
    BY <2>1 DEF EventTypes, TaskView
<1>5. ASSUME NEW status \in Terminal, v.status = "running", w = Ended(v, status)
      PROVE  \E type \in EventTypes : Grown(v, w, type, NoPermission)
  <2>1. Grown(v, w, status, NoPermission)
    BY <1>5 DEF Grown, Ended, Terminal
  <2>. QED
    BY <2>1 DEF EventTypes
<1>. QED
  BY <1>1, <1>2, <1>3, <1>4, <1>5 DEF Goes

-----------------------------------------------------------------------------
(* The log of a task.                                                      *)

Outcome(v) ==
  /\ \A i \in 1 .. Len(v.events) : v.events[i].type \in Terminal => i = Len(v.events)
  /\ v.status \in Terminal =>
       Len(v.events) > 0 /\ v.events[Len(v.events)].type = v.status
  /\ v.status \notin Terminal =>
       \A i \in 1 .. Len(v.events) : v.events[i].type \notin Terminal

\* The request for p is in the log, and no resolution follows it.
OpenIn(events, p) ==
  \E i \in 1 .. Len(events) :
    /\ events[i] = [type |-> "permission-required", permission |-> p]
    /\ \A j \in i .. Len(events) : events[j].type # "permission-resolved"

Prompt(v) ==
  \A p \in Permissions : v.permission = p <=> v.status = "running" /\ OpenIn(v.events, p)

LEMMA GrownType ==
  ASSUME NEW v \in TaskView, NEW w, Goes(v, w)
  PROVE  w \in TaskView
<1>1. \A type \in EventTypes, p \in Permissions \union {NoPermission} :
        Logged(v.events, type, p) \in Seq(Event)
  BY LoggedFacts DEF TaskView
<1>2. Begun \in TaskView
  <2>1. <<>> \in Seq(Event)
    OBVIOUS
  <2>2. Logged(<<>>, "progress", NoPermission) \in Seq(Event)
    BY <2>1, LoggedFacts DEF EventTypes
  <2>. QED
    BY <2>2 DEF Begun, TaskView, Statuses
<1>3. \A type \in EventTypes, p, q \in Permissions \union {NoPermission} :
        Continued(v, q, type, p) \in TaskView
  BY <1>1 DEF Continued, TaskView
<1>4. \A status \in Terminal : Ended(v, status) \in TaskView
  BY <1>1 DEF Ended, TaskView, Statuses, EventTypes
<1>5. v.permission \in Permissions \union {NoPermission}
  BY DEF TaskView
<1>6. {"progress", "permission-required", "permission-resolved"} \subseteq EventTypes
  BY DEF EventTypes
<1>7. Reported(v) \in TaskView
  BY <1>3, <1>5, <1>6 DEF Reported
<1>8. \A p \in Permissions : Prompted(v, p) \in TaskView
  BY <1>3, <1>6 DEF Prompted
<1>9. Answered(v) \in TaskView
  BY <1>3, <1>5, <1>6 DEF Answered
<1>. QED
  BY <1>2, <1>4, <1>7, <1>8, <1>9 DEF Goes

LEMMA GrownOutcome ==
  ASSUME NEW v \in TaskView, NEW w, NEW type \in EventTypes,
         NEW p \in Permissions \union {NoPermission},
         Grown(v, w, type, p), Outcome(v)
  PROVE  Outcome(w)
<1>1. v.events \in Seq(Event)
  BY DEF TaskView
<1>2. /\ Len(v.events) \in Nat
      /\ Len(w.events) = Len(v.events) + 1
      /\ \A i \in 1 .. Len(v.events) : w.events[i] = v.events[i]
      /\ w.events[Len(v.events) + 1].type = type
  <2> DEFINE longer == Logged(v.events, type, p)
  <2>1. w.events = longer
    BY DEF Grown
  <2>2. /\ Len(v.events) \in Nat
        /\ Len(longer) = Len(v.events) + 1
        /\ \A i \in 1 .. Len(v.events) : longer[i] = v.events[i]
        /\ longer[Len(v.events) + 1] = [type |-> type, permission |-> p]
    BY <1>1, LoggedFacts
  <2> HIDE DEF longer
  <2>. QED
    BY <2>1, <2>2
<1>3. \A i \in 1 .. Len(v.events) : v.events[i].type \notin Terminal
  BY DEF Outcome, Grown, Terminal
<1>4. \A i \in 1 .. Len(w.events) : i \in 1 .. Len(v.events) \/ i = Len(v.events) + 1
  BY <1>2
<1>5. IF type \in Terminal THEN w.status = type ELSE w.status \notin Terminal
  BY DEF Grown, EventTypes, Terminal
<1>. QED
  BY <1>2, <1>3, <1>4, <1>5 DEF Outcome

LEMMA GrownOpen ==
  ASSUME NEW events \in Seq(Event), NEW type \in EventTypes,
         NEW p \in Permissions \union {NoPermission}, NEW q \in Permissions
  PROVE  OpenIn(Logged(events, type, p), q) <=>
           \/ type = "permission-required" /\ p = q
           \/ type # "permission-resolved" /\ OpenIn(events, q)
<1> DEFINE longer == Logged(events, type, p)
           n == Len(events)
<1>1. /\ n \in Nat /\ Len(longer) = n + 1
      /\ \A i \in 1 .. n : longer[i] = events[i]
      /\ longer[n + 1] = [type |-> type, permission |-> p]
  BY LoggedFacts
<1> HIDE DEF longer, n
<1>2. \A i \in 1 .. n + 1 : i \in 1 .. n \/ i = n + 1
  BY <1>1
<1>3. ASSUME NEW i \in 1 .. n
      PROVE  (\A j \in i .. n + 1 : longer[j].type # "permission-resolved") <=>
               /\ type # "permission-resolved"
               /\ \A j \in i .. n : events[j].type # "permission-resolved"
  BY <1>1, <1>3
<1>4. (\A j \in n + 1 .. n + 1 : longer[j].type # "permission-resolved") <=>
        type # "permission-resolved"
  BY <1>1
<1>5. OpenIn(longer, q) <=>
        \/ longer[n + 1] = [type |-> "permission-required", permission |-> q]
             /\ type # "permission-resolved"
        \/ /\ type # "permission-resolved"
           /\ \E i \in 1 .. n :
                /\ events[i] = [type |-> "permission-required", permission |-> q]
                /\ \A j \in i .. n : events[j].type # "permission-resolved"
  <2>1. OpenIn(longer, q) <=>
          \E i \in 1 .. n + 1 :
            /\ longer[i] = [type |-> "permission-required", permission |-> q]
            /\ \A j \in i .. n + 1 : longer[j].type # "permission-resolved"
    BY <1>1 DEF OpenIn
  <2>2. n + 1 \in 1 .. n + 1 /\ \A i \in 1 .. n : i \in 1 .. n + 1
    BY <1>1
  <2>. QED
    BY <1>1, <1>2, <1>3, <1>4, <2>1, <2>2
<1>. QED
  BY <1>1, <1>5 DEF OpenIn, longer, n

LEMMA GrownPrompt ==
  ASSUME NEW v \in TaskView, NEW w, NEW type \in EventTypes,
         NEW p \in Permissions \union {NoPermission},
         Grown(v, w, type, p), Unbegun(v), Prompt(v)
  PROVE  Prompt(w)
<1> SUFFICES ASSUME NEW q \in Permissions
             PROVE  w.permission = q <=> w.status = "running" /\ OpenIn(w.events, q)
  BY DEF Prompt
<1>1. v.events \in Seq(Event)
  BY DEF TaskView
<1>2. OpenIn(w.events, q) <=> \/ type = "permission-required" /\ p = q
                              \/ type # "permission-resolved" /\ OpenIn(v.events, q)
  BY <1>1, GrownOpen DEF Grown
<1>3. q # NoPermission
  BY NoPermissionAssumption
<1>4. v.permission = q <=> v.status = "running" /\ OpenIn(v.events, q)
  BY DEF Prompt
<1>5. v.status = "absent" => v.permission = NoPermission /\ ~ OpenIn(v.events, q)
  BY DEF Unbegun, OpenIn
<1>6. v.status \in {"absent", "running"}
  BY DEF Grown
<1>7. CASE type \in Terminal
  BY <1>3, <1>7 DEF Grown, Terminal
<1>8. CASE type = "progress"
  BY <1>2, <1>3, <1>4, <1>5, <1>6, <1>8 DEF Grown, Terminal
<1>9. CASE type = "permission-required"
  BY <1>2, <1>3, <1>4, <1>5, <1>6, <1>9 DEF Grown, Terminal
<1>10. CASE type = "permission-resolved"
  BY <1>2, <1>3, <1>10 DEF Grown, Terminal
<1>. QED
  BY <1>7, <1>8, <1>9, <1>10 DEF EventTypes

-----------------------------------------------------------------------------
(* The log of every task.                                                  *)

LogOf(v) == Unbegun(v) /\ Outcome(v) /\ Prompt(v)

LogInv == TypeOK /\ \A t \in Tasks : LogOf(view[t])

LEMMA GoesLog ==
  ASSUME NEW v \in TaskView, NEW w, Goes(v, w), LogOf(v)
  PROVE  LogOf(w)
<1>1. CASE w = v
  BY <1>1
<1>2. CASE w # v
  <2>1. PICK type \in EventTypes, p \in Permissions \union {NoPermission} :
          Grown(v, w, type, p)
    BY <1>2, GoesGrown DEF LogOf
  <2>2. Outcome(w) /\ Prompt(w)
    BY <2>1, GrownOutcome, GrownPrompt DEF LogOf
  <2>3. w.status # "absent"
    BY <2>1 DEF Grown, Terminal
  <2>. QED
    BY <2>2, <2>3 DEF LogOf, Unbegun
<1>. QED
  BY <1>1, <1>2

LEMMA InitLog == Init => LogInv
<1> SUFFICES ASSUME Init
             PROVE  LogInv
  OBVIOUS
<1>1. [status |-> "absent", permission |-> NoPermission, events |-> <<>>] \in TaskView
  BY DEF TaskView, Statuses
<1>2. TypeOK
  BY <1>1 DEF Init, TypeOK
<1>3. ASSUME NEW t \in Tasks
      PROVE  LogOf(view[t])
  <2>1. /\ view[t].status = "absent" /\ view[t].permission = NoPermission
        /\ view[t].events = <<>> /\ Len(view[t].events) = 0
    BY DEF Init
  <2>2. Unbegun(view[t])
    BY <2>1 DEF Unbegun
  <2>3. Outcome(view[t])
    BY <2>1 DEF Outcome, Terminal
  <2>4. Prompt(view[t])
    BY <2>1, NoPermissionAssumption DEF Prompt
  <2>. QED
    BY <2>2, <2>3, <2>4 DEF LogOf
<1>. QED
  BY <1>2, <1>3 DEF LogInv

LEMMA StepView ==
  ASSUME [Next]_view, TypeOK
  PROVE  \E f : view' = [t \in Tasks |-> f[t]]
<1>1. CASE UNCHANGED view
  BY <1>1 DEF TypeOK
<1>2. ASSUME NEW t \in Tasks, NEW w, view' = [view EXCEPT ![t] = w]
      PROVE  view' = [u \in Tasks |-> view'[u]]
  BY <1>2 DEF TypeOK
<1>3. CASE EndAll
  BY <1>3 DEF EndAll
<1>. QED
  BY <1>1, <1>2, <1>3 DEF Next, Begin, Report, Answer, Ask, End

LEMMA StepLog == LogInv /\ [Next]_view => LogInv'
<1> SUFFICES ASSUME LogInv, [Next]_view
             PROVE  LogInv'
  OBVIOUS
<1>1. \A t \in Tasks : Goes(view[t], view'[t])
  BY StepGoes DEF LogInv
<1>2. \A t \in Tasks : view'[t] \in TaskView
  BY <1>1, GrownType DEF LogInv, TypeOK
<1>3. view' = [t \in Tasks |-> view'[t]]
  BY StepView DEF LogInv
<1>4. TypeOK'
  BY <1>2, <1>3 DEF TypeOK
<1>5. \A t \in Tasks : LogOf(view'[t])
  BY <1>1, GoesLog DEF LogInv, TypeOK
<1>. QED
  BY <1>4, <1>5 DEF LogInv

\* TaskLifecycle!LogIsTrue: the log of a task tells whether and how it ended
\* and which prompt is open.
LEMMA LogInvIsTrue == LogInv => LogIsTrue
  BY DEF LogInv, LogIsTrue, LogMatchesStatus, PromptMatchesLog, LogOf, Outcome, Prompt, OpenIn
\* TaskLifecycle promises it: the log of a task tells whether and how the
\* task ended and which prompt is open (LogIsTrue).
THEOREM LifecycleLogIsTrue == Spec => []LogIsTrue
<1>1. LogInv /\ UNCHANGED view => LogInv'
  BY StepLog
<1>. QED
  BY InitLog, StepLog, LogInvIsTrue, PTL DEF Spec

-----------------------------------------------------------------------------
(* The ids of consecutive events.                                          *)

Counts(s, m, n) ==
  s \in Seq(Nat) /\ Len(s) = n - m /\ \A i \in 1 .. n - m : s[i] = m + i

LEMMA IntervalSeq ==
  ASSUME NEW m \in Nat, NEW n \in Nat, m <= n
  PROVE  Counts(Interval(m, n), m, n)
<1>1. n - m \in Nat
  OBVIOUS
<1>2. Interval(m, n) \in [1 .. n - m -> Nat]
  BY DEF Interval
<1>. QED
  BY <1>1, <1>2 DEF Interval, Counts

LEMMA CountsEqual ==
  ASSUME NEW m \in Nat, NEW n \in Nat, m <= n, NEW s, Counts(s, m, n)
  PROVE  s = Interval(m, n)
<1>1. Counts(Interval(m, n), m, n)
  BY IntervalSeq
<1> DEFINE t == Interval(m, n)
<1> HIDE DEF t
<1>. QED
  BY <1>1, SeqEqual DEF Counts, t

LEMMA IntervalEmpty ==
  ASSUME NEW m \in Nat
  PROVE  Interval(m, m) = <<>>
<1>1. Interval(m, m) \in Seq(Nat) /\ Len(Interval(m, m)) = 0
  BY IntervalSeq DEF Counts
<1>. QED
  BY <1>1, EmptySeq

LEMMA IntervalConcat ==
  ASSUME NEW l \in Nat, NEW m \in Nat, NEW n \in Nat, l <= m, m <= n
  PROVE  Interval(l, m) \o Interval(m, n) = Interval(l, n)
<1> DEFINE a == Interval(l, m)
           b == Interval(m, n)
<1>1. Counts(a, l, m) /\ Counts(b, m, n)
  BY IntervalSeq
<1> HIDE DEF a, b
<1>2. /\ a \o b \in Seq(Nat)
      /\ Len(a \o b) = n - l
      /\ \A i \in 1 .. n - l : (a \o b)[i] = IF i <= m - l THEN a[i] ELSE b[i - (m - l)]
  <2>1. Len(a) + Len(b) = n - l
    BY <1>1 DEF Counts
  <2>2. /\ a \o b \in Seq(Nat)
        /\ Len(a \o b) = Len(a) + Len(b)
        /\ \A i \in 1 .. Len(a) + Len(b) :
             (a \o b)[i] = IF i <= Len(a) THEN a[i] ELSE b[i - Len(a)]
    BY <1>1, ConcatProperties DEF Counts
  <2>3. Len(a) = m - l
    BY <1>1 DEF Counts
  <2>. QED
    BY <2>1, <2>2, <2>3
<1>3. ASSUME NEW i \in 1 .. n - l
      PROVE  (a \o b)[i] = l + i
  <2>1. CASE i <= m - l
    <3>1. i \in 1 .. m - l
      BY <2>1
    <3>. QED
      BY <1>1, <1>2, <2>1, <3>1 DEF Counts
  <2>2. CASE ~ (i <= m - l)
    <3>1. i - (m - l) \in 1 .. n - m /\ m + (i - (m - l)) = l + i
      BY <2>2
    <3>. QED
      BY <1>1, <1>2, <2>2, <3>1 DEF Counts
  <2>. QED
    BY <2>1, <2>2
<1>4. Counts(a \o b, l, n)
  BY <1>2, <1>3 DEF Counts
<1>5. l <= n
  OBVIOUS
<1>. QED
  BY <1>4, <1>5, CountsEqual DEF a, b

LEMMA IntervalHead ==
  ASSUME NEW m \in Nat, NEW n \in Nat, m <= n, Interval(m, n) # <<>>
  PROVE  /\ m < n
         /\ Head(Interval(m, n)) = m + 1
         /\ Tail(Interval(m, n)) = Interval(m + 1, n)
<1> DEFINE a == Interval(m, n)
<1>1. m < n
  BY IntervalEmpty
<1>2. Counts(a, m, n) /\ a # <<>>
  BY IntervalSeq
<1> HIDE DEF a
<1>3. Head(a) = m + 1
  BY <1>1, <1>2 DEF Counts
<1>4. /\ Tail(a) \in Seq(Nat)
      /\ Len(Tail(a)) = Len(a) - 1
      /\ \A i \in 1 .. Len(Tail(a)) : Tail(a)[i] = a[i + 1]
  BY <1>2, HeadTailProperties DEF Counts
<1>5. Len(a) - 1 = n - (m + 1)
  BY <1>2 DEF Counts
<1>6. ASSUME NEW i \in 1 .. n - (m + 1)
      PROVE  Tail(a)[i] = m + 1 + i
  <2>1. i + 1 \in 1 .. n - m /\ m + (i + 1) = m + 1 + i
    OBVIOUS
  <2>. QED
    BY <1>2, <1>4, <1>5, <2>1 DEF Counts
<1>7. Counts(Tail(a), m + 1, n)
  BY <1>4, <1>5, <1>6 DEF Counts
<1>8. Tail(a) = Interval(m + 1, n)
  <2>1. m + 1 \in Nat /\ m + 1 <= n
    BY <1>1
  <2>. QED
    BY <1>7, <2>1, CountsEqual
<1>. QED
  BY <1>1, <1>3, <1>8 DEF a

LEMMA IntervalAppend ==
  ASSUME NEW n \in Nat
  PROVE  Append(Interval(0, n), n + 1) = Interval(0, n + 1)
<1> DEFINE a == Interval(0, n)
<1>1. Counts(a, 0, n)
  BY IntervalSeq
<1> HIDE DEF a
<1>2. /\ Append(a, n + 1) \in Seq(Nat) /\ Len(Append(a, n + 1)) = n + 1
      /\ \A i \in 1 .. n : Append(a, n + 1)[i] = a[i]
      /\ Append(a, n + 1)[n + 1] = n + 1
  BY <1>1, AppendProperties DEF Counts
<1>3. ASSUME NEW i \in 1 .. n + 1
      PROVE  Append(a, n + 1)[i] = 0 + i
  <2>1. i \in 1 .. n \/ i = n + 1
    OBVIOUS
  <2>. QED
    BY <1>1, <1>2, <2>1 DEF Counts
<1>4. Counts(Append(a, n + 1), 0, n + 1)
  BY <1>2, <1>3 DEF Counts
<1>5. 0 \in Nat /\ n + 1 \in Nat /\ 0 <= n + 1
  OBVIOUS
<1>. QED
  BY <1>4, <1>5, CountsEqual DEF a

-----------------------------------------------------------------------------
(* A reader and the connections it has used.                               *)

\* Strengthens ConnectionsFollowLog, for a reader R with the connections C: a
\* source in use was given no outcome yet, and the bridge ended a response
\* only because the task had ended.
Follows(R, C) ==
  LET t == R.task
      m == Len(R.received)
  IN  /\ t = NoTask <=> R.source = "none"
      /\ t = NoTask => R.received = <<>>
      /\ t # NoTask =>
           /\ view[t].status # "absent"
           /\ R.received = Interval(0, m)
           /\ m <= Len(Log(t))
           /\ R.source \in {"connecting", "open"} =>
                \A i \in 1 .. m : Log(t)[i].type \notin Terminal
      /\ R.source = "open" =>
           /\ C[R.line].wire = Interval(m, Len(Log(t)))
           /\ C[R.line].listening <=> view[t].status = "running"
      /\ \A n \in Lines :
           /\ C[n].listening => t # NoTask /\ view[t].status = "running"
           /\ C[n].state = "ended" => t # NoTask /\ view[t].status \in Terminal

ReaderInv(r) == Follows(readers[r], connections[r])

StreamInv == LogInv /\ StreamTypeOK /\ \A r \in Readers : ReaderInv(r)

LEMMA StreamInvFollowsLog == StreamInv => ConnectionsFollowLog
<1> SUFFICES ASSUME StreamInv
             PROVE  ConnectionsFollowLog
  OBVIOUS
<1>1. LogIsTrue
  BY LogInvIsTrue DEF StreamInv
<1>2. ReceivedInOrder
  BY DEF ReceivedInOrder, StreamInv, ReaderInv, Follows, LastEventId
<1>3. WireIsTheRest
  BY DEF WireIsTheRest, StreamInv, ReaderInv, Follows, LastEventId, Current
<1>4. NoListenerAfterEnd
  BY DEF NoListenerAfterEnd, StreamInv, ReaderInv, Follows
<1>5. ASSUME NEW r \in Readers, readers[r].source = "open", Current(r).state = "ended"
      PROVE  Current(r).wire # <<>>
  <2> DEFINE t == readers[r].task
             n == Len(Log(t))
             m == LastEventId(r)
  <2>1. readers[r] \in Reader
    BY DEF StreamInv, StreamTypeOK
  <2>2. t \in Tasks /\ view[t].status \in Terminal
    BY <1>5, <2>1 DEF StreamInv, ReaderInv, Follows, Reader, Current
  <2>3. n \in Nat /\ n > 0 /\ Log(t)[n].type \in Terminal
    <3>1. view[t] \in TaskView /\ LogOf(view[t])
      BY <2>2 DEF StreamInv, LogInv, TypeOK
    <3>. QED
      BY <2>2, <3>1 DEF LogOf, Outcome, Log, TaskView
  <2>4. /\ Current(r).wire = Interval(m, n) /\ m \in Nat /\ m <= n
        /\ \A i \in 1 .. m : Log(t)[i].type \notin Terminal
    BY <1>5, <2>1, <2>2 DEF StreamInv, ReaderInv, Follows, Reader, Current, LastEventId
  <2>5. m < n
    <3> HIDE DEF m, n
    <3>. QED
      BY <2>3, <2>4
  <2>6. Len(Interval(m, n)) = n - m
    BY <2>3, <2>4, IntervalSeq DEF Counts
  <2> HIDE DEF m, n
  <2>. QED
    BY <2>3, <2>4, <2>5, <2>6, EmptySeq
<1>. QED
  BY <1>1, <1>2, <1>3, <1>4, <1>5 DEF ConnectionsFollowLog, EndedAfterOutcome

LEMMA InitStream == StreamInit => StreamInv
<1> SUFFICES ASSUME StreamInit
             PROVE  StreamInv
  OBVIOUS
<1>1. LogInv
  BY InitLog DEF StreamInit
<1>2. <<>> \in Seq(Nat) /\ 0 \in Lines
  BY MaxDropsAssumption DEF Lines
<1>3. StreamTypeOK
  BY <1>1, <1>2 DEF StreamInit, StreamTypeOK, LogInv, Reader, Connection
<1>4. \A r \in Readers : ReaderInv(r)
  BY DEF StreamInit, ReaderInv, Follows
<1>. QED
  BY <1>1, <1>3, <1>4 DEF StreamInv

\* What a step of the tasks means to a log that is being replayed.
LEMMA StepGrows ==
  ASSUME LogInv, [Next]_view, NEW t \in Tasks
  PROVE  /\ view'[t] \in TaskView
         /\ Len(Log(t)) \in Nat /\ Len(view'[t].events) \in Nat
         /\ Len(Log(t)) <= Len(view'[t].events)
         /\ \A i \in 1 .. Len(Log(t)) : view'[t].events[i] = Log(t)[i]
         /\ view[t].status # "absent" => view'[t].status # "absent"
         /\ view[t].status \in Terminal => view'[t] = view[t]
<1>1. view[t] \in TaskView /\ Goes(view[t], view'[t]) /\ Unbegun(view[t])
  BY StepGoes DEF LogInv, TypeOK, LogOf
<1>2. view'[t] \in TaskView
  BY <1>1, GrownType
<1>3. Len(Log(t)) \in Nat /\ Len(view'[t].events) \in Nat
  BY <1>1, <1>2 DEF Log, TaskView
<1>4. CASE view'[t] = view[t]
  BY <1>1, <1>2, <1>3, <1>4 DEF Log
<1>5. CASE view'[t] # view[t]
  <2>1. PICK type \in EventTypes, p \in Permissions \union {NoPermission} :
          Grown(view[t], view'[t], type, p)
    BY <1>1, <1>5, GoesGrown
  <2>2. view'[t].status # "absent" /\ view[t].status \notin Terminal
    BY <2>1 DEF Grown, Terminal
  <2>3. view'[t].events = Logged(Log(t), type, p) /\ Log(t) \in Seq(Event)
    BY <1>1, <2>1 DEF Grown, Log, TaskView
  <2> DEFINE longer == Logged(Log(t), type, p)
  <2>4. /\ Len(longer) = Len(Log(t)) + 1
        /\ \A i \in 1 .. Len(Log(t)) : longer[i] = Log(t)[i]
    BY <2>3, LoggedFacts
  <2> HIDE DEF longer
  <2>5. view'[t].events = longer
    BY <2>3 DEF longer
  <2>. QED
    BY <1>2, <1>3, <2>2, <2>4, <2>5
<1>. QED
  BY <1>4, <1>5

LEMMA ReaderFacts ==
  ASSUME StreamInv, NEW r \in Readers
  PROVE  /\ readers[r] \in Reader
         /\ readers[r].line \in Lines
         /\ connections[r] \in [Lines -> Connection]
         /\ LastEventId(r) \in Nat
         /\ readers[r].source # "none" =>
              /\ readers[r].task \in Tasks /\ readers[r].task # NoTask
              /\ view[readers[r].task] \in TaskView
              /\ Len(Log(readers[r].task)) \in Nat
              /\ LastEventId(r) <= Len(Log(readers[r].task))
              /\ view[readers[r].task].status # "absent"
<1>1. readers[r] \in Reader /\ connections[r] \in [Lines -> Connection]
  BY DEF StreamInv, StreamTypeOK
<1>2. LastEventId(r) \in Nat
  BY <1>1 DEF Reader, LastEventId
<1>3. readers[r].source # "none" =>
        /\ readers[r].task \in Tasks /\ readers[r].task # NoTask
        /\ LastEventId(r) <= Len(Log(readers[r].task))
        /\ view[readers[r].task].status # "absent"
  <2>1. Follows(readers[r], connections[r])
    BY DEF StreamInv, ReaderInv
  <2>2. readers[r].task \in Tasks \union {NoTask}
    BY <1>1 DEF Reader
  <2>. QED
    BY <2>1, <2>2 DEF Follows, LastEventId
<1>4. ASSUME NEW t \in Tasks
      PROVE  view[t] \in TaskView /\ Len(Log(t)) \in Nat
  <2>1. view[t] \in TaskView
    BY DEF StreamInv, LogInv, TypeOK
  <2>. QED
    BY <2>1 DEF TaskView, Log
<1>. QED
  BY <1>1, <1>2, <1>3, <1>4 DEF Reader

\* A step of one reader is right if what it makes of this reader is.
LEMMA StepOfReader ==
  ASSUME StreamInv, NEW r \in Readers, UNCHANGED view,
         NEW R \in Reader, NEW C \in [Lines -> Connection], Follows(R, C),
         readers' = [readers EXCEPT ![r] = R],
         connections' = [connections EXCEPT ![r] = C]
  PROVE  StreamInv'
<1>1. LogInv'
  BY StepLog DEF StreamInv
<1>2. readers' \in [Readers -> Reader] /\ connections' \in [Readers -> [Lines -> Connection]]
  BY DEF StreamInv, StreamTypeOK
<1>3. StreamTypeOK'
  BY <1>1, <1>2 DEF StreamTypeOK, LogInv
<1>4. ASSUME NEW q \in Readers
      PROVE  ReaderInv(q)'
  <2>1. Follows(readers'[q], connections'[q])
    BY DEF StreamInv, StreamTypeOK, ReaderInv
  <2>. QED
    BY <2>1 DEF ReaderInv, Follows, Log
<1>. QED
  BY <1>1, <1>3, <1>4 DEF StreamInv

LEMMA StepOpen ==
  ASSUME StreamInv, NEW r \in Readers, NEW t \in Tasks, Open(r, t)
  PROVE  StreamInv'
<1> DEFINE R == [readers[r] EXCEPT !.task = t, !.source = "connecting"]
           C == connections[r]
<1>1. readers[r] \in Reader /\ C \in [Lines -> Connection]
  BY ReaderFacts
<1>2. Follows(readers[r], C) /\ readers[r].source = "none"
  BY DEF StreamInv, ReaderInv, Open
<1>3. t # NoTask /\ view[t].status # "absent" /\ Len(Log(t)) \in Nat
  BY MaxDropsAssumption DEF Open, StreamInv, LogInv, TypeOK, TaskView, Log
<1>4. R \in Reader
  BY <1>1 DEF Reader
<1>5. /\ R.task = t /\ R.source = "connecting" /\ R.line = readers[r].line
      /\ R.received = <<>> /\ Len(R.received) = 0
  BY <1>1, <1>2 DEF Reader, Follows
<1>6. readers' = [readers EXCEPT ![r] = R] /\ connections' = [connections EXCEPT ![r] = C]
      /\ UNCHANGED view
  BY DEF Open, StreamInv, StreamTypeOK
<1>7. \A n \in Lines : ~ C[n].listening /\ C[n].state # "ended"
  BY <1>2 DEF Follows
<1> HIDE DEF R, C
<1>8. Interval(0, 0) = <<>>
  BY IntervalEmpty
<1>9. Follows(R, C)
  BY <1>3, <1>5, <1>7, <1>8 DEF Follows
<1>. QED
  BY <1>1, <1>4, <1>6, <1>9, StepOfReader

LEMMA StepConnect ==
  ASSUME StreamInv, NEW r \in Readers, Connect(r)
  PROVE  StreamInv'
<1> DEFINE t == readers[r].task
           m == LastEventId(r)
           n == Len(Log(t))
           running == view[t].status = "running"
           replay == [state |-> IF running THEN "live" ELSE "ended",
                      listening |-> running, wire |-> Interval(m, n)]
           R == [readers[r] EXCEPT !.source = "open"]
           C == [connections[r] EXCEPT ![readers[r].line] = replay]
<1>1. /\ readers[r] \in Reader /\ readers[r].line \in Lines
      /\ connections[r] \in [Lines -> Connection]
      /\ m \in Nat /\ n \in Nat /\ m <= n /\ t \in Tasks /\ t # NoTask
      /\ view[t] \in TaskView /\ view[t].status # "absent"
  BY ReaderFacts DEF Connect
<1>2. Follows(readers[r], connections[r]) /\ readers[r].source = "connecting"
  BY DEF StreamInv, ReaderInv, Connect
<1>3. Interval(m, n) \in Seq(Nat)
  BY <1>1, IntervalSeq DEF Counts
<1>4. replay \in Connection
  BY <1>3 DEF Connection
<1>5. /\ readers' = [readers EXCEPT ![r] = R]
      /\ connections' = [connections EXCEPT ![r] = C]
      /\ UNCHANGED view
  BY DEF Connect, StreamInv, StreamTypeOK
<1>6. running \/ view[t].status \in Terminal
  BY <1>1 DEF TaskView, Statuses
<1>7. R \in Reader /\ R.task = t /\ R.source = "open"
      /\ R.line = readers[r].line /\ R.received = readers[r].received
  BY <1>1 DEF Reader
<1>8. /\ replay.state = "ended" => ~ running
      /\ replay.listening <=> running
      /\ replay.wire = Interval(m, n)
  OBVIOUS
<1> HIDE DEF replay
<1>9. C \in [Lines -> Connection] /\ C[R.line] = replay
      /\ \A k \in Lines : C[k] = replay \/ C[k] = connections[r][k]
  BY <1>1, <1>4, <1>7
<1> HIDE DEF R, C
<1>10. Follows(R, C)
  BY <1>1, <1>2, <1>6, <1>7, <1>8, <1>9 DEF Follows, LastEventId
<1>. QED
  BY <1>5, <1>7, <1>9, <1>10, StepOfReader

LEMMA StepDeliver ==
  ASSUME StreamInv, NEW r \in Readers, Deliver(r)
  PROVE  StreamInv'
<1> DEFINE t == readers[r].task
           line == readers[r].line
           m == LastEventId(r)
           n == Len(Log(t))
           wire == connections[r][line].wire
           R == [readers[r] EXCEPT !.received = Append(@, Head(wire)),
                                   !.source = IF EndsTask(t, Head(wire)) THEN "closed" ELSE @]
           C == [connections[r] EXCEPT ![line].wire = Tail(@)]
<1>1. /\ readers[r] \in Reader /\ line \in Lines
      /\ connections[r] \in [Lines -> Connection]
      /\ m \in Nat /\ n \in Nat /\ m <= n /\ t \in Tasks /\ t # NoTask
      /\ view[t] \in TaskView /\ view[t].status # "absent"
  BY ReaderFacts DEF Deliver
<1>2. /\ Follows(readers[r], connections[r]) /\ readers[r].source = "open"
      /\ wire # <<>>
  BY DEF StreamInv, ReaderInv, Deliver, Current
<1>3. /\ wire = Interval(m, n) /\ readers[r].received = Interval(0, m)
      /\ \A i \in 1 .. m : Log(t)[i].type \notin Terminal
  BY <1>1, <1>2 DEF Follows, LastEventId
<1>4. m < n /\ Head(wire) = m + 1 /\ Tail(wire) = Interval(m + 1, n)
  BY <1>1, <1>2, <1>3, IntervalHead
<1>5. Append(readers[r].received, Head(wire)) = Interval(0, m + 1)
  BY <1>1, <1>3, <1>4, IntervalAppend
<1>6. /\ Interval(0, m + 1) \in Seq(Nat) /\ Len(Interval(0, m + 1)) = m + 1
      /\ Interval(m + 1, n) \in Seq(Nat)
  <2>1. m + 1 \in Nat /\ 0 <= m + 1 /\ m + 1 <= n /\ n \in Nat /\ 0 \in Nat
    BY <1>1, <1>4
  <2>2. Counts(Interval(0, m + 1), 0, m + 1) /\ Counts(Interval(m + 1, n), m + 1, n)
    BY <2>1, IntervalSeq
  <2>. QED
    BY <2>1, <2>2 DEF Counts
<1>7. /\ readers' = [readers EXCEPT ![r] = R]
      /\ connections' = [connections EXCEPT ![r] = C]
      /\ UNCHANGED view
  BY DEF Deliver, Current, StreamInv, StreamTypeOK
<1>8. /\ R \in Reader /\ R.task = t /\ R.line = line
      /\ R.received = Interval(0, m + 1) /\ Len(R.received) = m + 1
      /\ R.source = IF EndsTask(t, m + 1) THEN "closed" ELSE "open"
  BY <1>1, <1>2, <1>4, <1>5, <1>6 DEF Reader
<1>9. /\ C \in [Lines -> Connection]
      /\ C[line].wire = Interval(m + 1, n)
      /\ \A k \in Lines : /\ C[k].state = connections[r][k].state
                          /\ C[k].listening <=> connections[r][k].listening
  BY <1>1, <1>4, <1>6 DEF Connection
<1>10. R.source = "open" => \A i \in 1 .. m + 1 : Log(t)[i].type \notin Terminal
  BY <1>1, <1>3, <1>8 DEF EndsTask
<1> HIDE DEF R, C, m, n
<1>11. m + 1 <= n
  BY <1>1, <1>4
<1>12. Follows(R, C)
  BY <1>1, <1>2, <1>8, <1>9, <1>10, <1>11 DEF Follows, n
<1>. QED
  BY <1>7, <1>8, <1>9, <1>12, StepOfReader

LEMMA StepDrop ==
  ASSUME StreamInv, NEW r \in Readers, Drop(r)
  PROVE  StreamInv'
<1> DEFINE line == readers[r].line
           R == [readers[r] EXCEPT !.source = "connecting", !.line = @ + 1]
           lost == [connections[r][line] EXCEPT !.wire = <<>>]
           C == [connections[r] EXCEPT ![line] = lost]
<1>1. /\ readers[r] \in Reader /\ line \in Lines
      /\ connections[r] \in [Lines -> Connection]
  BY ReaderFacts
<1>2. /\ Follows(readers[r], connections[r]) /\ readers[r].source = "open"
      /\ line + 1 \in Lines
  BY <1>1, MaxDropsAssumption DEF StreamInv, ReaderInv, Drop, Lines
<1>3. /\ readers' = [readers EXCEPT ![r] = R]
      /\ connections' = [connections EXCEPT ![r] = C]
      /\ UNCHANGED view
  BY DEF Drop, StreamInv, StreamTypeOK
<1>4. /\ R \in Reader /\ R.task = readers[r].task /\ R.source = "connecting"
      /\ R.received = readers[r].received
  BY <1>1, <1>2 DEF Reader
<1>5. /\ C \in [Lines -> Connection]
      /\ \A k \in Lines : /\ C[k].state = connections[r][k].state
                          /\ C[k].listening <=> connections[r][k].listening
  <2>1. connections[r][line] \in Connection
    BY <1>1
  <2>2. /\ lost \in Connection
        /\ lost.state = connections[r][line].state
        /\ lost.listening = connections[r][line].listening
    <3>1. <<>> \in Seq(Nat)
      OBVIOUS
    <3>. QED
      BY <2>1, <3>1 DEF Connection
  <2> HIDE DEF lost
  <2>3. /\ C \in [Lines -> Connection]
        /\ \A k \in Lines : C[k] = IF k = line THEN lost ELSE connections[r][k]
    BY <1>1, <2>2
  <2> HIDE DEF C
  <2>. QED
    BY <2>2, <2>3
<1> HIDE DEF R, C
<1>6. Follows(R, C)
  BY <1>2, <1>4, <1>5 DEF Follows
<1>. QED
  BY <1>3, <1>4, <1>5, <1>6, StepOfReader

LEMMA StepClose ==
  ASSUME StreamInv, NEW r \in Readers, Close(r)
  PROVE  StreamInv'
<1> DEFINE R == [readers[r] EXCEPT !.source = "left"]
           C == connections[r]
<1>1. readers[r] \in Reader /\ C \in [Lines -> Connection]
  BY ReaderFacts
<1>2. Follows(readers[r], C) /\ readers[r].source \in {"connecting", "open"}
  BY DEF StreamInv, ReaderInv, Close
<1>3. /\ readers' = [readers EXCEPT ![r] = R]
      /\ connections' = [connections EXCEPT ![r] = C]
      /\ UNCHANGED view
  BY DEF Close, StreamInv, StreamTypeOK
<1>4. /\ R \in Reader /\ R.task = readers[r].task /\ R.source = "left"
      /\ R.received = readers[r].received
  BY <1>1 DEF Reader
<1> HIDE DEF R, C
<1>5. Follows(R, C)
  BY <1>2, <1>4 DEF Follows
<1>. QED
  BY <1>1, <1>3, <1>4, <1>5, StepOfReader

LEMMA StepHangUp ==
  ASSUME StreamInv, NEW r \in Readers, NEW n \in Lines, HangUp(r, n)
  PROVE  StreamInv'
<1> DEFINE gone == [state |-> "gone", listening |-> FALSE, wire |-> <<>>]
           R == readers[r]
           C == [connections[r] EXCEPT ![n] = gone]
<1>1. R \in Reader /\ R.line \in Lines /\ connections[r] \in [Lines -> Connection]
  BY ReaderFacts
<1>2. /\ Follows(R, connections[r])
      /\ R.source = "open" => n # R.line
  BY DEF StreamInv, ReaderInv, HangUp
<1>3. /\ readers' = [readers EXCEPT ![r] = R]
      /\ connections' = [connections EXCEPT ![r] = C]
      /\ UNCHANGED view
  BY DEF HangUp, StreamInv, StreamTypeOK
<1>4. gone \in Connection /\ ~ gone.listening /\ gone.state # "ended"
  BY DEF Connection
<1> HIDE DEF gone
<1>5. /\ C \in [Lines -> Connection]
      /\ \A k \in Lines : C[k] = IF k = n THEN gone ELSE connections[r][k]
  BY <1>1, <1>4
<1> HIDE DEF R, C
<1>6. Follows(R, C)
  BY <1>1, <1>2, <1>4, <1>5 DEF Follows
<1>. QED
  BY <1>1, <1>3, <1>5, <1>6, StepOfReader

LEMMA ToldFacts ==
  ASSUME NEW c \in Connection, NEW t
  PROVE  /\ ~ c.listening => Told(c, t) = c
         /\ c.listening =>
              /\ Told(c, t).state = IF view'[t].status \in Terminal THEN "ended" ELSE "live"
              /\ (Told(c, t).listening <=> view'[t].status \notin Terminal)
              /\ Told(c, t).wire = c.wire \o Interval(Len(Log(t)), Len(view'[t].events))
BY DEF Told, Connection

\* What the bridge tells a reader that a step of the tasks has changed the log.
LEMMA StepEmit ==
  ASSUME StreamInv, Emit
  PROVE  StreamInv'
<1>1. LogInv' /\ [Next]_view
  BY StepLog DEF StreamInv, Emit
<1>2. ASSUME NEW r \in Readers, readers[r].task = NoTask
      PROVE  /\ connections'[r] \in [Lines -> Connection]
             /\ ReaderInv(r)'
  <2>1. /\ connections[r] \in [Lines -> Connection]
        /\ Follows(readers[r], connections[r]) /\ readers'[r] = readers[r]
    BY ReaderFacts DEF StreamInv, ReaderInv, Emit
  <2>2. connections'[r] = connections[r]
    BY <1>2, <2>1 DEF Emit
  <2>. QED
    BY <1>2, <2>1, <2>2 DEF ReaderInv, Follows
<1>3. ASSUME NEW r \in Readers, readers[r].task # NoTask
      PROVE  /\ connections'[r] \in [Lines -> Connection]
             /\ ReaderInv(r)'
  <2> DEFINE t == readers[r].task
             R == readers[r]
             C == connections[r]
             D == connections'[r]
             m == Len(R.received)
             n == Len(Log(t))
             k == Len(view'[t].events)
  <2>1. /\ R \in Reader /\ R.line \in Lines /\ C \in [Lines -> Connection]
        /\ m \in Nat /\ t \in Tasks /\ m <= n /\ view[t] \in TaskView
        /\ Follows(R, C) /\ readers' = readers /\ view[t].status # "absent"
    <3>1. R.source # "none"
      BY <1>3 DEF StreamInv, ReaderInv, Follows
    <3>. QED
      BY <3>1, ReaderFacts DEF StreamInv, ReaderInv, Emit, LastEventId
  <2>2. /\ view'[t] \in TaskView /\ n \in Nat /\ k \in Nat /\ n <= k
        /\ \A i \in 1 .. n : view'[t].events[i] = Log(t)[i]
        /\ view'[t].status # "absent"
        /\ view[t].status \in Terminal => view'[t] = view[t]
    BY <1>1, <2>1, StepGrows DEF StreamInv
  <2>3. /\ view[t].status = "running" \/ view[t].status \in Terminal
        /\ view'[t].status = "running" \/ view'[t].status \in Terminal
        /\ "running" \notin Terminal
    BY <2>1, <2>2 DEF TaskView, Statuses, Terminal
  <2>4. \A l \in Lines : D[l] = Told(C[l], t)
    BY <1>3 DEF Emit
  <2>5. D = [l \in Lines |-> Told(C[l], t)]
    BY <1>3 DEF Emit
  <2> HIDE DEF D, n, m, k
  <2>6. Interval(n, k) \in Seq(Nat)
    BY <2>2, IntervalSeq DEF Counts
  <2>7. ASSUME NEW l \in Lines
        PROVE  Told(C[l], t) \in Connection
    <3>1. C[l] \in Connection
      BY <2>1
    <3>2. C[l].wire \o Interval(n, k) \in Seq(Nat)
      BY <2>6, <3>1 DEF Connection
    <3>. QED
      BY <3>1, <3>2 DEF Told, Connection, n, k
  <2>8. D \in [Lines -> Connection]
    BY <2>5, <2>7
  <2>9. ASSUME NEW l \in Lines
        PROVE  /\ D[l].listening <=> C[l].listening /\ view'[t].status = "running"
               /\ D[l].state = "ended" => view'[t].status \in Terminal
    <3>1. C[l].state = "ended" => view[t].status \in Terminal
      BY <2>1 DEF Follows
    <3>2. C[l] \in Connection /\ D[l] = Told(C[l], t)
      BY <2>1, <2>4
    <3>3. CASE ~ C[l].listening
      <4>1. D[l] = C[l]
        BY <3>2, <3>3, ToldFacts
      <4>. QED
        BY <2>2, <3>1, <3>3, <4>1
    <3>4. CASE C[l].listening
      <4>1. D[l].state = IF view'[t].status \in Terminal THEN "ended" ELSE "live"
        <5>1. Told(C[l], t).state = IF view'[t].status \in Terminal THEN "ended" ELSE "live"
          BY <3>2, <3>4, ToldFacts, Zenon
        <5>. QED
          BY <3>2, <5>1, Zenon
      <4>2. D[l].listening <=> view'[t].status \notin Terminal
        <5>1. Told(C[l], t).listening <=> view'[t].status \notin Terminal
          BY <3>2, <3>4, ToldFacts
        <5>. QED
          BY <3>2, <5>1, Zenon
      <4>3. view'[t].status \notin Terminal <=> view'[t].status = "running"
        BY <2>3
      <4>4. D[l].state = "ended" => view'[t].status \in Terminal
        BY <4>1
      <4>. QED
        BY <3>4, <4>2, <4>3, <4>4, Zenon
    <3>. QED
      BY <3>3, <3>4
  <2>10. ASSUME R.source = "open"
         PROVE  /\ D[R.line].wire = Interval(m, k)
                /\ D[R.line].listening <=> view'[t].status = "running"
    <3>1. /\ C[R.line].wire = Interval(m, n)
          /\ C[R.line].listening <=> view[t].status = "running"
      BY <2>1, <2>10 DEF Follows, m, n
    <3>2. CASE view[t].status = "running"
      <4>1. D[R.line].wire = C[R.line].wire \o Interval(n, k)
        <5>1. C[R.line] \in Connection /\ D[R.line] = Told(C[R.line], t)
          BY <2>1, <2>4
        <5>. QED
          BY <3>1, <3>2, <5>1, ToldFacts DEF n, k
      <4>2. Interval(m, n) \o Interval(n, k) = Interval(m, k)
        BY <2>1, <2>2, IntervalConcat
      <4>. QED
        BY <2>1, <2>9, <3>1, <3>2, <4>1, <4>2
    <3>3. CASE view[t].status \in Terminal
      <4>1. D[R.line] = C[R.line] /\ k = n
        <5>1. C[R.line] \in Connection /\ D[R.line] = Told(C[R.line], t)
          BY <2>1, <2>4
        <5>2. ~ C[R.line].listening
          BY <2>3, <3>1, <3>3
        <5>. QED
          BY <2>2, <3>3, <5>1, <5>2, ToldFacts DEF n, k, Log
      <4>. QED
        BY <2>2, <2>3, <3>1, <3>3, <4>1
    <3>. QED
      BY <2>3, <3>2, <3>3
  <2>11. R.source \in {"connecting", "open"} =>
           \A i \in 1 .. m : view'[t].events[i].type \notin Terminal
    <3>1. \A i \in 1 .. m : i \in 1 .. n
      BY <2>1, <2>2
    <3>. QED
      BY <1>3, <2>1, <2>2, <3>1 DEF Follows, m
  <2>12. m <= k
    BY <2>1, <2>2
  <2>13. ReaderInv(r)'
    BY <1>3, <2>1, <2>2, <2>9, <2>10, <2>11, <2>12 DEF ReaderInv, Follows, Log, m, k, D
  <2>. QED
    BY <2>8, <2>13 DEF D
<1>4. connections' \in [Readers -> [Lines -> Connection]]
  BY <1>2, <1>3 DEF Emit
<1>5. StreamTypeOK'
  BY <1>1, <1>4 DEF StreamInv, StreamTypeOK, LogInv, Emit
<1>. QED
  BY <1>1, <1>2, <1>3, <1>5 DEF StreamInv

LEMMA StepStream == StreamInv /\ [StreamNext]_streamVars => StreamInv'
<1> SUFFICES ASSUME StreamInv, [StreamNext]_streamVars
             PROVE  StreamInv'
  OBVIOUS
<1>1. CASE Emit
  BY <1>1, StepEmit
<1>2. ASSUME NEW r \in Readers,
             \/ \E t \in Tasks : Open(r, t)
             \/ Connect(r) \/ Deliver(r) \/ Drop(r) \/ Close(r)
             \/ \E n \in Lines : HangUp(r, n)
      PROVE  StreamInv'
  BY <1>2, StepOpen, StepConnect, StepDeliver, StepDrop, StepClose, StepHangUp
<1>3. CASE UNCHANGED streamVars
  <2>1. LogInv'
    BY <1>3, StepLog DEF StreamInv, streamVars
  <2>2. StreamTypeOK'
    BY <1>3, <2>1 DEF StreamInv, StreamTypeOK, LogInv, streamVars
  <2>3. \A r \in Readers : ReaderInv(r)'
    BY <1>3 DEF StreamInv, ReaderInv, Follows, Log, streamVars
  <2>. QED
    BY <2>1, <2>2, <2>3 DEF StreamInv
<1>. QED
  BY <1>1, <1>2, <1>3 DEF StreamNext

\* The bridge's connections and the readers' event sources are what their
\* types say, whatever breaks (task-routes.ts, agent-bridge.ts).
THEOREM StreamTypeCorrect == StreamSpec => []StreamTypeOK
<1>1. StreamInv => StreamTypeOK
  BY DEF StreamInv
<1>. QED
  BY <1>1, InitStream, StepStream, PTL DEF StreamSpec

\* However often its connection breaks, a reader is given the log from the
\* first event on, each event once and in order; what a live connection still
\* owes it is exactly the rest; a response ends only after the outcome; and no
\* listener outlives its task (task-routes.ts:175-232).
THEOREM StreamFollowsLog == StreamSpec => []ConnectionsFollowLog
  BY InitStream, StepStream, StreamInvFollowsLog, PTL DEF StreamSpec
=============================================================================
