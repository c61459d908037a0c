--------------------------- MODULE AgentStoreProofs ---------------------------
(***************************************************************************)
(* Theorems about the client's Agent store, for every set of tasks and     *)
(* permissions and every bound: however answers, replayed events, reloads  *)
(* and restarts of the bridge cross, the lists of the page agree, what it  *)
(* shows of an outcome and of a prompt is what the bridge has told, and    *)
(* it forgets no task that runs.                                           *)
(***************************************************************************)
EXTENDS AgentStore, FiniteSetTheorems, SequenceTheorems, TLAPS

-----------------------------------------------------------------------------
(* The invariant.                                                          *)

Opening == {"health", "put", "get"}

\* The promises of the page that start or restore t: asked for, or answered.
Promised(t) == {r \in asked : r.task = t /\ r.heard /\ r.op \in Opening}
Settled(t) == {r \in replies : r.task = t /\ r.op \in Opening}

\* The bridge has nothing to start for t.
Quiet(t) == Puts(t) = {} /\ t \notin beginning

\* It is being cancelled by the page there is.
Cancels(t) ==
  \/ \E r \in asked : r.op = "cancel" /\ r.task = t /\ r.heard
  \/ \E r \in replies : r.op = "cancel" /\ r.task = t

\* One promise at a time opens a session, and nothing else touches its state.
OpeningInv(t) ==
  /\ \A q, r \in Promised(t) : q = r
  /\ \A q, r \in Settled(t) : q = r
  /\ Promised(t) = {} \/ Settled(t) = {}
  /\ Promised(t) \union Settled(t) # {} =>
       /\ t \in sessions /\ t \notin nonRestorable
       /\ states[t].task = "none" /\ states[t].shown = 0
       /\ states[t].permission = NoPermission /\ ~ states[t].unavailable
       /\ states[t].starting \/ states[t].restoring

\* A session is of an id that was generated; its stream, and what it means to
\* cancel it.
SessionInv(t) ==
  /\ t \in sessions => t \in used
  /\ t \in DOMAIN streams =>
       t \in sessions /\ states[t].task = "running" /\ states[t].shown = streams[t]
  /\ Cancels(t) => t \in used /\ (t \in sessions => states[t].task # "none")

\* The bridge starts a task for one promise, once; not one the page has been
\* refused, and none that the page has an answer about.
StartInv(t) ==
  /\ Known(t) => Quiet(t)
  /\ Known(t) \/ ~ Quiet(t) =>
       /\ t \in used
       /\ \A r \in Promised(t) : r.op # "health"
       /\ \A r \in Settled(t) : r.op # "health" /\ ~ (r.op = "put" /\ r.answer = "refused")
       /\ t \in sessions => states[t].task # "none" \/ ~ states[t].unavailable
  /\ t \in sessions /\ states[t].task # "none" => Quiet(t)
  /\ \A r \in Settled(t) : r.answer \in {"running"} \union Terminal => Quiet(t)
  /\ t \notin overtaken /\ ~ Quiet(t) => \E r \in Promised(t) : r.op = "put"

\* A task that runs has a session that is remembered: an answer is due, or
\* it is shown running.
RememberedInv(t) ==
  t \notin overtaken /\ view[t].status = "running" =>
    /\ t \in sessions /\ t \notin nonRestorable
    /\ \/ Promised(t) \union Settled(t) # {}
       \/ states[t].task = "running" /\ ~ states[t].unavailable

OutcomeInv(t) ==
  t \in sessions /\ states[t].task \in Terminal =>
    view[t].status = states[t].task \/ restarts > 0

TaskInv(t) ==
  /\ OpeningInv(t) /\ SessionInv(t) /\ StartInv(t)
  /\ RememberedInv(t) /\ OutcomeInv(t)

\* An answer that a task has ended is true, and no answer says that of one
\* that runs, unless its start was overtaken by a reload.
AnswerInv(r) ==
  /\ r.op = "get" => r.answer \in {"running", "missing", "lost"} \union Terminal
  /\ r.op \in {"get", "cancel"} /\ r.answer \in Terminal =>
       view[r.task].status = r.answer \/ restarts > 0
  /\ r.task \notin overtaken /\ view[r.task].status = "running" =>
       /\ r.op \in {"put", "get"} => r.answer = "running"
       /\ r.op = "cancel" => r.answer \notin {"missing"} \union Terminal
  /\ r.op = "permission" /\ r.answer = "ok" => r.permission \in decided

\* The log of a task: the event that ends it tells how, and a request comes
\* before its resolution and after that of every other.
Holds(v, i, type, p) == v.events[i] = [type |-> type, permission |-> p]
SettledBy(v, n, p) == \E j \in 1 .. n : Holds(v, j, "permission-resolved", p)

EndsInv(v) ==
  \A i \in 1 .. Len(v.events) :
    v.events[i].type \in Terminal => v.status = v.events[i].type

RequestInv(v, i) ==
  /\ v.events[i].permission \in Permissions
  /\ ~ SettledBy(v, i, v.events[i].permission)
  /\ \A k \in 1 .. i - 1, p \in Permissions :
       Holds(v, k, "permission-required", p) => SettledBy(v, i, p)
  /\ v.status = "running" =>
       \/ v.permission = v.events[i].permission
       \/ SettledBy(v, Len(v.events), v.events[i].permission)

LogInv(v) ==
  /\ EndsInv(v)
  /\ \A i \in 1 .. Len(v.events) :
       v.events[i].type = "permission-required" => RequestInv(v, i)

\* PromptIsDelivered and SubmittingIsReal of one task.
Delivered(t) ==
  t \in DOMAIN streams /\ Known(t) =>
    /\ streams[t] <= Len(view[t].events)
    /\ \A p \in Permissions :
         states[t].permission = p <=>
           /\ \E i \in 1 .. streams[t] : Holds(view[t], i, "permission-required", p)
           /\ ~ SettledBy(view[t], streams[t], p)

\* A decision about p is under way, or the bridge has accepted one.
Decides(t, p) ==
  \/ p \in decided
  \/ \E r \in asked : /\ r.op = "permission" /\ r.heard
                      /\ r.task = t /\ r.permission = p
  \/ \E r \in replies : r.op = "permission" /\ r.task = t /\ r.permission = p

Submitting(t) ==
  t \in sessions /\ states[t].submitting => Decides(t, states[t].permission)

PromptInv(t) == Delivered(t) /\ Submitting(t)

\* What a page may ask for, and that it opens a sole session once.
ListsInv ==
  /\ DOMAIN states = sessions
  /\ \A t, u \in sessions \intersect SoleTasks : t = u
  /\ \A r \in asked : r.op = "permission" => r.permission \in Permissions

StoreInv ==
  /\ StoreTypeOK /\ ListsInv
  /\ \A r \in replies : AnswerInv(r)
  /\ \A t \in Tasks : TaskInv(t) /\ LogInv(view[t]) /\ PromptInv(t)

-----------------------------------------------------------------------------
(* What the operators return.                                              *)

LEMMA WithoutIs ==
  ASSUME NEW map, NEW S
  PROVE  /\ DOMAIN Without(map, S) = DOMAIN map \ S
         /\ \A u \in DOMAIN map \ S : Without(map, S)[u] = map[u]
BY DEF Without, Restrict

LEMMA UpdatedIs ==
  ASSUME NEW t, NEW s
  PROVE  /\ DOMAIN Updated(t, s) = DOMAIN states
         /\ t \in DOMAIN states => Updated(t, s)[t] = s
         /\ \A u \in DOMAIN states : u # t => Updated(t, s)[u] = states[u]
BY DEF Updated

LEMMA NewStateType ==
  /\ [NewState EXCEPT !.starting = TRUE] \in TaskState
  /\ [NewState EXCEPT !.restoring = TRUE] \in TaskState
BY DEF NewState, TaskState

\* What each update does to the state of a task.
LEMMA FinishedState ==
  ASSUME NEW s \in TaskState, NEW status \in Terminal
  PROVE  LET q == Finished(s, status)
         IN  /\ q \in TaskState
             /\ q.task = status /\ q.shown = s.shown
             /\ q.permission = NoPermission /\ q.submitting = FALSE
             /\ q.unavailable = FALSE /\ q.starting = s.starting
             /\ q.restoring = s.restoring
<1>1. Finished(s, status) =
        [s EXCEPT !.task = status, !.permission = NoPermission, !.always = FALSE,
                  !.submitting = FALSE, !.cancelling = FALSE,
                  !.unavailable = FALSE, !.error = FALSE]
  BY DEF Finished
<1>. QED
  BY <1>1 DEF TaskState

LEMMA ConnectedState ==
  ASSUME NEW s \in TaskState
  PROVE  LET q == [s EXCEPT !.task = "running", !.unavailable = FALSE,
                             !.error = FALSE, !.starting = FALSE]
         IN  /\ q \in TaskState
             /\ q.task = "running" /\ q.shown = s.shown
             /\ q.permission = s.permission /\ q.submitting = s.submitting
             /\ q.unavailable = FALSE /\ q.starting = FALSE
             /\ q.restoring = s.restoring
<1>. DEFINE a == [s EXCEPT !.task = "running", !.unavailable = FALSE]
<1>1. /\ a \in TaskState /\ a.task = "running" /\ ~ a.unavailable
      /\ a.shown = s.shown /\ a.permission = s.permission
      /\ a.submitting = s.submitting /\ a.starting = s.starting
      /\ a.restoring = s.restoring
  BY DEF TaskState
<1>2. [s EXCEPT !.task = "running", !.unavailable = FALSE,
                !.error = FALSE, !.starting = FALSE]
        = [a EXCEPT !.error = FALSE, !.starting = FALSE]
  OBVIOUS
<1>. HIDE DEF a
<1>. QED
  BY <1>1, <1>2 DEF TaskState

LEMMA RestoredState ==
  ASSUME NEW s \in TaskState
  PROVE  LET q == [s EXCEPT !.restoring = FALSE]
         IN  /\ q \in TaskState
             /\ q.task = s.task /\ q.shown = s.shown
             /\ q.permission = s.permission /\ q.submitting = s.submitting
             /\ q.unavailable = s.unavailable /\ q.starting = s.starting
             /\ q.restoring = FALSE
BY DEF TaskState

LEMMA RunningState ==
  ASSUME NEW s \in TaskState
  PROVE  LET q == [s EXCEPT !.task = "running"]
         IN  /\ q \in TaskState
             /\ q.task = "running" /\ q.shown = s.shown
             /\ q.permission = s.permission /\ q.submitting = s.submitting
             /\ q.unavailable = s.unavailable /\ q.starting = s.starting
             /\ q.restoring = s.restoring
BY DEF TaskState

LEMMA ErrorState ==
  ASSUME NEW s \in TaskState
  PROVE  LET q == [s EXCEPT !.error = TRUE]
         IN  /\ q \in TaskState
             /\ q.task = s.task /\ q.shown = s.shown
             /\ q.permission = s.permission /\ q.submitting = s.submitting
             /\ q.unavailable = s.unavailable /\ q.starting = s.starting
             /\ q.restoring = s.restoring
BY DEF TaskState

LEMMA CancelledState ==
  ASSUME NEW s \in TaskState, NEW b \in BOOLEAN
  PROVE  LET q == [s EXCEPT !.unavailable = b, !.error = TRUE, !.cancelling = FALSE]
         IN  /\ q \in TaskState
             /\ q.task = s.task /\ q.shown = s.shown
             /\ q.permission = s.permission /\ q.submitting = s.submitting
             /\ q.unavailable = b /\ q.starting = s.starting
             /\ q.restoring = s.restoring
BY DEF TaskState

LEMMA CancellingState ==
  ASSUME NEW s \in TaskState
  PROVE  LET q == [s EXCEPT !.cancelling = TRUE, !.error = FALSE]
         IN  /\ q \in TaskState
             /\ q.task = s.task /\ q.shown = s.shown
             /\ q.permission = s.permission /\ q.submitting = s.submitting
             /\ q.unavailable = s.unavailable /\ q.starting = s.starting
             /\ q.restoring = s.restoring
BY DEF TaskState

LEMMA UndecidedState ==
  ASSUME NEW s \in TaskState
  PROVE  LET q == [s EXCEPT !.error = TRUE, !.submitting = FALSE, !.always = FALSE]
         IN  /\ q \in TaskState
             /\ q.task = s.task /\ q.shown = s.shown
             /\ q.permission = s.permission /\ q.submitting = FALSE
             /\ q.unavailable = s.unavailable /\ q.starting = s.starting
             /\ q.restoring = s.restoring
BY DEF TaskState

LEMMA DecidedState ==
  ASSUME NEW s \in TaskState, NEW b \in BOOLEAN
  PROVE  LET q == Submitted([s EXCEPT !.always = b])
         IN  /\ q \in TaskState
             /\ q.task = s.task /\ q.shown = s.shown
             /\ q.permission = s.permission /\ q.submitting = TRUE
             /\ q.unavailable = s.unavailable /\ q.starting = s.starting
             /\ q.restoring = s.restoring
<1>. DEFINE a == [s EXCEPT !.always = b]
<1>1. /\ a \in TaskState /\ a.task = s.task /\ a.unavailable = s.unavailable
      /\ a.shown = s.shown /\ a.permission = s.permission
      /\ a.starting = s.starting /\ a.restoring = s.restoring
  BY DEF TaskState
<1>2. Submitted(a) = [a EXCEPT !.submitting = TRUE, !.error = FALSE]
  BY DEF Submitted
<1>. HIDE DEF a
<1>3. LET q == Submitted(a)
      IN  /\ q \in TaskState
          /\ q.task = s.task /\ q.shown = s.shown
          /\ q.permission = s.permission /\ q.submitting = TRUE
          /\ q.unavailable = s.unavailable /\ q.starting = s.starting
          /\ q.restoring = s.restoring
  BY <1>1, <1>2 DEF TaskState
<1>. QED
  BY <1>3 DEF a

LEMMA ShownIs ==
  ASSUME NEW s \in TaskState, NEW e,
         e.permission \in Permissions \union {NoPermission}
  PROVE  LET q == Shown(s, e)
             resolves == e.type = "permission-resolved" /\ s.permission = e.permission
         IN  /\ q \in TaskState
             /\ q.task = s.task /\ q.shown = s.shown + 1
             /\ q.unavailable = s.unavailable
             /\ e.type = "permission-required" =>
                  q.permission = e.permission /\ q.submitting = s.always
             /\ resolves => q.permission = NoPermission /\ q.submitting = FALSE
             /\ e.type # "permission-required" /\ ~ resolves =>
                  q.permission = s.permission /\ q.submitting = s.submitting
<1>. DEFINE seen == [s EXCEPT !.shown = @ + 1]
            prompt == [seen EXCEPT !.permission = e.permission,
                                   !.submitting = FALSE, !.error = FALSE]
            closed == [seen EXCEPT !.permission = NoPermission,
                                   !.submitting = FALSE, !.error = FALSE]
            resolves == e.type = "permission-resolved" /\ s.permission = e.permission
<1>1. /\ seen \in TaskState /\ seen.task = s.task /\ seen.shown = s.shown + 1
      /\ seen.unavailable = s.unavailable /\ seen.permission = s.permission
      /\ seen.submitting = s.submitting
  BY DEF TaskState
<1>. HIDE DEF seen
<1>2. /\ prompt \in TaskState /\ prompt.task = s.task /\ prompt.shown = s.shown + 1
      /\ prompt.unavailable = s.unavailable /\ prompt.permission = e.permission
      /\ prompt.submitting = FALSE
  BY <1>1 DEF TaskState
<1>3. /\ closed \in TaskState /\ closed.task = s.task /\ closed.shown = s.shown + 1
      /\ closed.unavailable = s.unavailable /\ closed.permission = NoPermission
      /\ closed.submitting = FALSE
  BY <1>1 DEF TaskState
<1>4. /\ Submitted(prompt) \in TaskState /\ Submitted(prompt).task = s.task
      /\ Submitted(prompt).shown = s.shown + 1
      /\ Submitted(prompt).unavailable = s.unavailable
      /\ Submitted(prompt).permission = e.permission
      /\ Submitted(prompt).submitting = TRUE
  <2>. HIDE DEF prompt
  <2>. QED
    BY <1>2 DEF Submitted, TaskState
<1>5. s.always \in BOOLEAN
  BY DEF TaskState
<1>6. CASE e.type = "permission-required"
  <2>1. Shown(s, e) = IF s.always THEN Submitted(prompt) ELSE prompt
    BY <1>6 DEF Shown, seen
  <2>. HIDE DEF prompt, closed
  <2>. QED
    BY <1>2, <1>4, <1>5, <1>6, <2>1
<1>7. CASE resolves
  <2>1. Shown(s, e) = closed
    BY <1>7 DEF Shown, seen
  <2>. HIDE DEF prompt, closed
  <2>. QED
    BY <1>3, <1>7, <2>1
<1>8. CASE e.type # "permission-required" /\ ~ resolves
  <2>1. Shown(s, e) = seen
    BY <1>8 DEF Shown, seen
  <2>. HIDE DEF prompt, closed
  <2>. QED
    BY <1>1, <1>8, <2>1
<1>. QED
  BY <1>6, <1>7, <1>8

LEMMA AskType ==
  ASSUME NEW t \in Tasks, NEW op \in Operations,
         NEW p \in Permissions \union {NoPermission}
  PROVE  /\ Ask(op, t, p) \in Request
         /\ Ask(op, t, p).op = op /\ Ask(op, t, p).task = t
         /\ Ask(op, t, p).permission = p /\ Ask(op, t, p).heard
BY DEF Ask, Request

\* What the bridge takes up it answers, if it is heard.
LEMMA AnswerAllIs ==
  ASSUME asked \subseteq Request, replies \subseteq Reply,
         NEW rs \in SUBSET asked, NEW answer \in Answer, AnswerAll(rs, answer)
  PROVE  /\ asked' = asked \ rs /\ asked' \subseteq Request
         /\ replies \subseteq replies' /\ replies' \subseteq Reply
         /\ \A r \in replies' : r \in replies \/
              \E q \in rs : /\ q.heard
                            /\ r.op = q.op /\ r.task = q.task
                            /\ r.permission = q.permission /\ r.answer = answer
         /\ \A q \in rs : q.heard =>
              \E r \in replies' : /\ r.op = q.op /\ r.task = q.task
                                  /\ r.permission = q.permission /\ r.answer = answer
<1>. DEFINE reply(q) == [op |-> q.op, task |-> q.task, permission |-> q.permission,
                         answer |-> answer]
<1>1. asked' = asked \ rs
      /\ replies' = replies \union {reply(q) : q \in {q \in rs : q.heard}}
  BY DEF AnswerAll
<1>2. \A q \in rs : reply(q) \in Reply
  BY DEF Request, Reply
<1>3. \A q \in rs : /\ reply(q).op = q.op /\ reply(q).task = q.task
                    /\ reply(q).permission = q.permission /\ reply(q).answer = answer
  OBVIOUS
<1>. HIDE DEF reply
<1>. QED
  BY <1>1, <1>2, <1>3

-----------------------------------------------------------------------------
(* Types.                                                                  *)

BridgeTypes ==
  /\ Bridge!TypeOK
  /\ beginning \subseteq Tasks /\ decided \subseteq Permissions
  /\ asked \subseteq Request /\ replies \subseteq Reply
  /\ \A r \in asked : r.op = "permission" => r.permission \in Permissions
  /\ used \subseteq Tasks /\ overtaken \subseteq Tasks
  /\ reloads \in 0 .. MaxReloads /\ restarts \in 0 .. MaxRestarts

PageTypes ==
  /\ sessions \subseteq Tasks /\ nonRestorable \subseteq Tasks
  /\ DOMAIN states = sessions
  /\ \A t \in sessions : states[t] \in TaskState
  /\ DOMAIN streams \subseteq Tasks
  /\ \A t \in DOMAIN streams : streams[t] \in Nat
  /\ \A t, u \in sessions \intersect SoleTasks : t = u

LEMMA TypesAre == StoreTypeOK /\ ListsInv <=> BridgeTypes /\ PageTypes
BY DEF StoreTypeOK, ListsInv, BridgeTypes, PageTypes

LEMMA ViewTypes ==
  ASSUME Bridge!TypeOK, NEW t \in Tasks
  PROVE  /\ view[t].status \in {"absent", "running"} \union Terminal
         /\ view[t].permission \in Permissions \union {NoPermission}
         /\ view[t].events \in Seq(Bridge!Event)
BY DEF Bridge!TypeOK, Bridge!TaskView, Bridge!Statuses, Terminal

\* What a state is replaced with is a state.
LEMMA UpdatedTypes ==
  ASSUME PageTypes, NEW t \in Tasks, NEW s,
         t \in sessions => s \in TaskState,
         states' = Updated(t, s)
  PROVE  /\ DOMAIN states' = sessions
         /\ \A u \in sessions : states'[u] \in TaskState
BY UpdatedIs DEF PageTypes

LEMMA DismissTypes ==
  ASSUME PageTypes, NEW ts, DismissAll(ts)
  PROVE  PageTypes'
<1>1. DOMAIN states' = sessions \ ts /\ DOMAIN streams' = DOMAIN streams \ ts
  BY WithoutIs DEF DismissAll, PageTypes
<1>2. \A u \in sessions \ ts : states'[u] = states[u]
  BY WithoutIs DEF DismissAll, PageTypes
<1>3. \A u \in DOMAIN streams \ ts : streams'[u] = streams[u]
  BY WithoutIs DEF DismissAll, PageTypes
<1>. QED
  BY <1>1, <1>2, <1>3 DEF DismissAll, PageTypes

LEMMA StartTypes ==
  ASSUME PageTypes, NEW t \in Tasks, NEW others, StartReserved(t, others),
         asked \subseteq Request,
         t \in SoleTasks => \A u \in sessions \intersect SoleTasks : u \in others \union {t}
  PROVE  PageTypes' /\ asked' = asked \union {Ask("health", t, NoPermission)}
<1>. DEFINE s == [NewState EXCEPT !.starting = TRUE]
<1>0. s \in TaskState
  BY NewStateType
<1>. HIDE DEF s
<1>1. /\ sessions' = (sessions \ others) \union {t}
      /\ nonRestorable' = nonRestorable \ (others \union {t})
      /\ states' = With(Without(states, others), t, s)
      /\ streams' = Without(streams, others)
      /\ asked' = asked \union {Ask("health", t, NoPermission)}
  BY DEF StartReserved, s
<1>2. /\ DOMAIN Without(states, others) = sessions \ others
      /\ \A u \in sessions \ others : Without(states, others)[u] = states[u]
  BY WithoutIs DEF PageTypes
<1>3. /\ DOMAIN states' = sessions'
      /\ states'[t] = s
      /\ \A u \in sessions \ others : u # t => states'[u] = states[u]
  BY <1>1, <1>2 DEF With
<1>4. /\ DOMAIN streams' = DOMAIN streams \ others
      /\ \A u \in DOMAIN streams \ others : streams'[u] = streams[u]
  BY <1>1, WithoutIs
<1>5. \A u \in sessions' : states'[u] \in TaskState
  BY <1>0, <1>1, <1>3 DEF PageTypes
<1>6. \A u, w \in sessions' \intersect SoleTasks : u = w
  BY <1>1 DEF PageTypes
<1>. QED
  BY <1>1, <1>3, <1>4, <1>5, <1>6 DEF PageTypes

LEMMA FinishTypes ==
  ASSUME PageTypes, NEW t \in Tasks, NEW s, t \in sessions => s \in TaskState,
         NEW status \in Terminal, FinishTask(t, s, status)
  PROVE  PageTypes'
<1>1. states' = Updated(t, Finished(s, status)) /\ streams' = Without(streams, {t})
      /\ UNCHANGED sessions /\ nonRestorable' \subseteq nonRestorable \union {t}
  BY DEF FinishTask
<1>2. DOMAIN states' = sessions /\ \A u \in sessions : states'[u] \in TaskState
  BY <1>1, UpdatedTypes, FinishedState
<1>3. DOMAIN streams' = DOMAIN streams \ {t}
      /\ \A u \in DOMAIN streams \ {t} : streams'[u] = streams[u]
  BY <1>1, WithoutIs
<1>. QED
  BY <1>1, <1>2, <1>3 DEF PageTypes

LEMMA FailTypes ==
  ASSUME PageTypes, NEW t \in Tasks, NEW unavailable \in BOOLEAN,
         StartFailed(t, unavailable)
  PROVE  PageTypes'
<1>. DEFINE s == [states[t] EXCEPT !.unavailable = unavailable,
                                   !.error = TRUE, !.starting = FALSE]
<1>1. states' = Updated(t, s) /\ streams' = Without(streams, {t})
      /\ UNCHANGED sessions /\ nonRestorable' \subseteq nonRestorable \union {t}
  BY DEF StartFailed
<1>2. t \in sessions => s \in TaskState
  BY DEF PageTypes, TaskState
<1>. HIDE DEF s
<1>3. DOMAIN states' = sessions /\ \A u \in sessions : states'[u] \in TaskState
  BY <1>1, <1>2, UpdatedTypes
<1>4. DOMAIN streams' = DOMAIN streams \ {t}
      /\ \A u \in DOMAIN streams \ {t} : streams'[u] = streams[u]
  BY <1>1, WithoutIs
<1>. QED
  BY <1>1, <1>3, <1>4 DEF PageTypes

\* A task that runs goes on with one event more, or ends with it.
Grows(t) ==
  /\ view[t].status = "running"
  /\ view'[t].status \in {"running"} \union Terminal
  /\ \A u \in Tasks \ {t} : view'[u] = view[u]
  /\ Len(view'[t].events) = Len(view[t].events) + 1
  /\ \A i \in 1 .. Len(view[t].events) : view'[t].events[i] = view[t].events[i]

LEMMA GrowIs ==
  ASSUME Bridge!TypeOK, NEW t \in Tasks, view[t].status = "running",
         NEW status \in {"running"} \union Terminal,
         NEW p \in Permissions \union {NoPermission}, NEW e \in Bridge!Event,
         view' = [view EXCEPT ![t] = [status |-> status, permission |-> p,
                                      events |-> Append(view[t].events, e)]]
  PROVE  /\ Bridge!TypeOK' /\ Grows(t)
         /\ view'[t].status = status /\ view'[t].permission = p
         /\ view'[t].events[Len(view[t].events) + 1] = e
<1>. DEFINE events == Append(view[t].events, e)
<1>1. view \in [Tasks -> Bridge!TaskView]
  BY DEF Bridge!TypeOK
<1>2. view[t].events \in Seq(Bridge!Event)
  BY ViewTypes
<1>3. /\ events \in Seq(Bridge!Event)
      /\ Len(events) = Len(view[t].events) + 1
      /\ events[Len(view[t].events) + 1] = e
      /\ \A i \in 1 .. Len(view[t].events) : events[i] = view[t].events[i]
  BY <1>2, AppendProperties
<1>. HIDE DEF events
<1>4. view' = [view EXCEPT ![t] = [status |-> status, permission |-> p,
                                   events |-> events]]
  BY DEF events
<1>5. view'[t] = [status |-> status, permission |-> p, events |-> events]
      /\ \A u \in Tasks \ {t} : view'[u] = view[u]
  BY <1>1, <1>4
<1>6. [status |-> status, permission |-> p, events |-> events] \in Bridge!TaskView
  BY <1>3 DEF Bridge!TaskView, Bridge!Statuses, Terminal
<1>7. Bridge!TypeOK'
  BY <1>1, <1>4, <1>6 DEF Bridge!TypeOK
<1>. QED
  BY <1>3, <1>5, <1>7 DEF Grows

\* What the bridge's task does, as GrowIs has it.
LEMMA BridgeMoves ==
  ASSUME Bridge!TypeOK, NEW t \in Tasks
  PROVE  /\ Bridge!Report(t) =>
              /\ view[t].status = "running"
              /\ view' = [view EXCEPT ![t] =
                   [status |-> "running", permission |-> view[t].permission,
                    events |-> Append(view[t].events,
                      [type |-> "progress", permission |-> NoPermission])]]
         /\ Bridge!Answer(t) =>
              /\ view[t].status = "running" /\ view[t].permission # NoPermission
              /\ view' = [view EXCEPT ![t] =
                   [status |-> "running", permission |-> NoPermission,
                    events |-> Append(view[t].events,
                      [type |-> "permission-resolved",
                       permission |-> view[t].permission])]]
         /\ \A p \in Permissions : Bridge!Ask(t, p) =>
              /\ view[t].status = "running" /\ view[t].permission = NoPermission
              /\ \A i \in 1 .. Len(view[t].events) : view[t].events[i].permission # p
              /\ view' = [view EXCEPT ![t] =
                   [status |-> "running", permission |-> p,
                    events |-> Append(view[t].events,
                      [type |-> "permission-required", permission |-> p])]]
         /\ \A status \in Terminal : Bridge!End(t, status) =>
              /\ view[t].status = "running"
              /\ view' = [view EXCEPT ![t] =
                   [status |-> status, permission |-> NoPermission,
                    events |-> Append(view[t].events,
                      [type |-> status, permission |-> NoPermission])]]
BY DEF Bridge!TypeOK, Bridge!Report, Bridge!Reported, Bridge!Answer, Bridge!Answered,
       Bridge!Ask, Bridge!Prompted, Bridge!End, Bridge!Ended, Bridge!Continued,
       Bridge!Logged, Bridge!Mentions

LEMMA EventTypes ==
  ASSUME NEW type \in {"progress", "permission-required", "permission-resolved"}
                        \union Terminal,
         NEW p \in Permissions \union {NoPermission}
  PROVE  [type |-> type, permission |-> p] \in Bridge!Event
BY DEF Bridge!Event, Terminal

LEMMA EndGrows ==
  ASSUME Bridge!TypeOK, NEW t \in Tasks, NEW status \in Terminal,
         Bridge!End(t, status)
  PROVE  Bridge!TypeOK' /\ Grows(t) /\ view'[t].status = status
<1>. DEFINE e == [type |-> status, permission |-> NoPermission]
<1>1. /\ view[t].status = "running"
      /\ view' = [view EXCEPT ![t] = [status |-> status, permission |-> NoPermission,
                                      events |-> Append(view[t].events, e)]]
  BY BridgeMoves
<1>2. e \in Bridge!Event
  BY EventTypes
<1>. HIDE DEF e
<1>. QED
  BY <1>1, <1>2, GrowIs

LEMMA BridgeTaskGrows ==
  ASSUME Bridge!TypeOK, BridgeTask
  PROVE  Bridge!TypeOK' /\ \E t \in Tasks : Grows(t)
<1>1. ASSUME NEW t \in Tasks, Bridge!Report(t)
      PROVE  Bridge!TypeOK' /\ Grows(t)
  <2>. DEFINE e == [type |-> "progress", permission |-> NoPermission]
  <2>1. /\ view[t].status = "running"
        /\ view' = [view EXCEPT ![t] = [status |-> "running", permission |-> view[t].permission,
                                        events |-> Append(view[t].events, e)]]
    BY <1>1, BridgeMoves
  <2>2. e \in Bridge!Event /\ view[t].permission \in Permissions \union {NoPermission}
    BY EventTypes, ViewTypes
  <2>. HIDE DEF e
  <2>. QED
    BY <2>1, <2>2, GrowIs
<1>2. ASSUME NEW t \in Tasks, Bridge!Answer(t)
      PROVE  Bridge!TypeOK' /\ Grows(t)
  <2>. DEFINE e == [type |-> "permission-resolved", permission |-> view[t].permission]
  <2>1. /\ view[t].status = "running"
        /\ view' = [view EXCEPT ![t] = [status |-> "running", permission |-> NoPermission,
                                        events |-> Append(view[t].events, e)]]
    BY <1>2, BridgeMoves
  <2>2. e \in Bridge!Event /\ NoPermission \in Permissions \union {NoPermission}
    BY EventTypes, ViewTypes
  <2>. HIDE DEF e
  <2>. QED
    BY <2>1, <2>2, GrowIs
<1>3. ASSUME NEW t \in Tasks, NEW p \in Permissions, Bridge!Ask(t, p)
      PROVE  Bridge!TypeOK' /\ Grows(t)
  <2>. DEFINE e == [type |-> "permission-required", permission |-> p]
  <2>1. /\ view[t].status = "running"
        /\ view' = [view EXCEPT ![t] = [status |-> "running", permission |-> p,
                                        events |-> Append(view[t].events, e)]]
    BY <1>3, BridgeMoves
  <2>2. e \in Bridge!Event /\ p \in Permissions \union {NoPermission}
    BY EventTypes, ViewTypes
  <2>. HIDE DEF e
  <2>. QED
    BY <2>1, <2>2, GrowIs
<1>4. ASSUME NEW t \in Tasks, NEW status \in Terminal, Bridge!End(t, status)
      PROVE  Bridge!TypeOK' /\ Grows(t)
  BY <1>4, EndGrows
<1>. QED
  BY <1>1, <1>2, <1>3, <1>4 DEF BridgeTask

\* Every request that is taken up is answered by one of the bridge.
LEMMA AnswerTypes ==
  ASSUME BridgeTypes, NEW rs \in SUBSET asked, NEW answer \in Answer,
         AnswerAll(rs, answer)
  PROVE  /\ asked' \subseteq Request /\ replies' \subseteq Reply
         /\ \A r \in asked' : r.op = "permission" => r.permission \in Permissions
BY AnswerAllIs DEF BridgeTypes

\* The bridge's steps leave the page alone.
LEMMA BridgeStepTypes ==
  ASSUME StoreAssumption, BridgeTypes, PageTypes,
         BridgeTask \/ BridgeRestart \/ \E t \in Tasks : BridgeAnswers(t)
  PROVE  BridgeTypes' /\ PageTypes'
<1>1. CASE BridgeTask
  BY <1>1, BridgeTaskGrows DEF BridgeTypes, PageTypes, BridgeTask, page, counters
<1>2. CASE BridgeRestart
  <2>1. Bridge!TypeOK'
    BY <1>2 DEF BridgeRestart, Bridge!TypeOK, Bridge!TaskView, Bridge!Statuses
  <2>2. /\ asked' \subseteq Request /\ replies' \subseteq Reply
        /\ \A r \in asked' : r.op = "permission" => r.permission \in Permissions
    BY <1>2, AnswerTypes DEF BridgeRestart, Answer
  <2>. QED
    BY <1>2, <2>1, <2>2 DEF BridgeTypes, PageTypes, BridgeRestart, page, StoreAssumption
<1>3. ASSUME NEW t \in Tasks, BridgeAnswers(t)
      PROVE  BridgeTypes' /\ PageTypes'
  <2>1. CASE BridgeHealth(t)
    <3>1. PICK r \in asked, answer \in {"ok", "refused"} : AnswerAll({r}, answer)
      BY <2>1 DEF BridgeHealth
    <3>2. /\ asked' \subseteq Request /\ replies' \subseteq Reply
          /\ \A q \in asked' : q.op = "permission" => q.permission \in Permissions
      BY <3>1, AnswerTypes DEF Answer
    <3>. QED
      BY <2>1, <3>2 DEF BridgeHealth, BridgeTypes, PageTypes, bridge, page, counters,
                        Bridge!TypeOK
  <2>2. CASE BridgePut(t)
    BY <2>2 DEF BridgePut, BridgeTypes, PageTypes, page, counters, Bridge!TypeOK
  <2>3. CASE BridgeBegins(t)
    <3>1. Puts(t) \in SUBSET asked /\ "running" \in Answer
      BY DEF Puts, Answer
    <3>2. /\ asked' \subseteq Request /\ replies' \subseteq Reply
          /\ \A q \in asked' : q.op = "permission" => q.permission \in Permissions
      BY <2>3, <3>1, AnswerTypes DEF BridgeBegins
    <3>3. Bridge!Begun \in Bridge!TaskView
      <4>1. [type |-> "progress", permission |-> NoPermission] \in Bridge!Event
        BY EventTypes
      <4>. QED
        BY <4>1 DEF Bridge!Begun, Bridge!TaskView, Bridge!Statuses, Bridge!Logged
    <3>4. Bridge!TypeOK'
      BY <2>3, <3>3 DEF BridgeBegins, Bridge!Begin, Bridge!TypeOK, BridgeTypes
    <3>. QED
      BY <2>3, <3>2, <3>4 DEF BridgeBegins, BridgeTypes, PageTypes, page, counters
  <2>4. CASE BridgeRefuses(t)
    <3>1. Puts(t) \in SUBSET asked /\ "refused" \in Answer
      BY DEF Puts, Answer
    <3>2. /\ asked' \subseteq Request /\ replies' \subseteq Reply
          /\ \A q \in asked' : q.op = "permission" => q.permission \in Permissions
      BY <2>4, <3>1, AnswerTypes DEF BridgeRefuses
    <3>. QED
      BY <2>4, <3>2 DEF BridgeRefuses, BridgeTypes, PageTypes, page, counters, Bridge!TypeOK
  <2>5. CASE BridgeGet(t)
    <3>. DEFINE answer == IF Known(t) THEN view[t].status ELSE "missing"
    <3>1. PICK r \in asked : AnswerAll({r}, answer)
      BY <2>5 DEF BridgeGet
    <3>2. answer \in Answer
      BY ViewTypes DEF Answer, Known, BridgeTypes
    <3>3. /\ asked' \subseteq Request /\ replies' \subseteq Reply
          /\ \A q \in asked' : q.op = "permission" => q.permission \in Permissions
      BY <3>1, <3>2, AnswerTypes
    <3>. QED
      BY <2>5, <3>3 DEF BridgeGet, BridgeTypes, PageTypes, bridge, page, counters,
                        Bridge!TypeOK
  <2>6. CASE BridgeCancel(t)
    <3>1. PICK r \in asked, answer \in {"missing", "refused"} \union Terminal :
            AnswerAll({r}, answer) /\ (UNCHANGED view \/ Bridge!End(t, "cancelled"))
      <4>1. "cancelled" \in Terminal
        BY DEF Terminal, Bridge!Terminal
      <4>. QED
        BY <2>6, <4>1 DEF BridgeCancel
    <3>2. /\ asked' \subseteq Request /\ replies' \subseteq Reply
          /\ \A q \in asked' : q.op = "permission" => q.permission \in Permissions
      BY <3>1, AnswerTypes DEF Answer
    <3>3. Bridge!TypeOK'
      <4>1. CASE Bridge!End(t, "cancelled")
        BY <4>1, EndGrows DEF BridgeTypes, Terminal, Bridge!Terminal
      <4>. QED
        BY <3>1, <4>1 DEF BridgeTypes, Bridge!TypeOK
    <3>. QED
      BY <2>6, <3>2, <3>3 DEF BridgeCancel, BridgeTypes, PageTypes, page, counters
  <2>7. CASE BridgePermission(t)
    <3>1. PICK r \in asked :
            /\ r.op = "permission"
            /\ AnswerAll({r}, "ok") \/ AnswerAll({r}, "missing")
            /\ decided' \in {decided, decided \union {r.permission}}
      BY <2>7 DEF BridgePermission
    <3>2. /\ asked' \subseteq Request /\ replies' \subseteq Reply
          /\ \A q \in asked' : q.op = "permission" => q.permission \in Permissions
      BY <3>1, AnswerTypes DEF Answer
    <3>. QED
      BY <2>7, <3>1, <3>2 DEF BridgePermission, BridgeTypes, PageTypes, page, counters,
                              Bridge!TypeOK
  <2>. QED
    BY <1>3, <2>1, <2>2, <2>3, <2>4, <2>5, <2>6, <2>7 DEF BridgeAnswers
<1>. QED
  BY <1>1, <1>2, <1>3

\* Starting a task, or dismissing one, leaves the bridge alone.
LEMMA UserStepTypes ==
  ASSUME StoreAssumption, BridgeTypes, PageTypes,
         \/ DismissFailed \/ Reload
         \/ \E t \in Tasks :
              \/ StartTask(t) \/ RetrySame(t) \/ \E u \in Tasks : RetryOther(t, u)
              \/ Dismiss(t)
  PROVE  BridgeTypes' /\ PageTypes'
<1>. USE DEF Operations
<1>1. \A t \in Tasks : Ask("health", t, NoPermission) \in Request
                       /\ Ask("health", t, NoPermission).op # "permission"
  BY AskType
<1>2. ASSUME NEW ts, DismissAll(ts), UNCHANGED <<bridge, asked, replies, counters>>
      PROVE  BridgeTypes' /\ PageTypes'
  BY <1>2, DismissTypes DEF BridgeTypes, bridge, counters, Bridge!TypeOK
<1>3. ASSUME NEW t \in Tasks, NEW others, StartReserved(t, others),
             t \in SoleTasks =>
               \A u \in sessions \intersect SoleTasks : u \in others \union {t},
             UNCHANGED <<bridge, replies, overtaken, reloads, restarts>>,
             used' \subseteq Tasks
      PROVE  BridgeTypes' /\ PageTypes'
  <2>1. PageTypes' /\ asked' = asked \union {Ask("health", t, NoPermission)}
    BY <1>3, StartTypes DEF BridgeTypes
  <2>2. /\ asked' \subseteq Request
        /\ \A r \in asked' : r.op = "permission" => r.permission \in Permissions
    BY <1>1, <2>1 DEF BridgeTypes
  <2>. QED
    BY <1>3, <2>1, <2>2 DEF BridgeTypes, bridge, Bridge!TypeOK
<1>4. CASE DismissFailed
  BY <1>2, <1>4 DEF DismissFailed
<1>5. CASE Reload
  <2>. DEFINE gets == {Ask("get", t, NoPermission) : t \in Persisted}
  <2>1. Persisted \subseteq Tasks
    BY DEF Persisted, PageTypes
  <2>2. \A r \in gets : r \in Request /\ r.op # "permission"
    BY <2>1, AskType
  <2>. HIDE DEF gets
  <2>3. PICK sent \in SUBSET asked :
          asked' = {[r EXCEPT !.heard = FALSE] : r \in sent} \union gets
    BY <1>5 DEF Reload, gets
  <2>4. \A r \in sent : /\ [r EXCEPT !.heard = FALSE] \in Request
                        /\ [r EXCEPT !.heard = FALSE].op = r.op
                        /\ [r EXCEPT !.heard = FALSE].permission = r.permission
    BY DEF BridgeTypes, Request
  <2>5. /\ asked' \subseteq Request
        /\ \A r \in asked' : r.op = "permission" => r.permission \in Permissions
    <3>. DEFINE unheard(r) == [r EXCEPT !.heard = FALSE]
    <3>1. asked' = {unheard(r) : r \in sent} \union gets
      BY <2>3
    <3>2. \A r \in sent : /\ unheard(r) \in Request /\ unheard(r).op = r.op
                          /\ unheard(r).permission = r.permission
      BY <2>4
    <3>. HIDE DEF unheard
    <3>. QED
      BY <2>2, <3>1, <3>2 DEF BridgeTypes
  <2>6. BridgeTypes'
    <3>1. reloads' \in 0 .. MaxReloads /\ UNCHANGED <<bridge, used, restarts>>
          /\ replies' = {} /\ overtaken' \subseteq overtaken \union beginning \union Tasks
      BY <1>5 DEF Reload, BridgeTypes, StoreAssumption
    <3>. QED
      BY <2>5, <3>1 DEF BridgeTypes, bridge, Bridge!TypeOK
  <2>7. \A t \in Persisted : states'[t] \in TaskState
    BY <1>5, NewStateType DEF Reload
  <2>8. sessions' = Persisted /\ nonRestorable' = {} /\ DOMAIN states' = Persisted
        /\ streams' = <<>>
    BY <1>5 DEF Reload
  <2>9. DOMAIN streams' = {}
    BY <2>8
  <2>10. \A t, u \in Persisted \intersect SoleTasks : t = u
    BY DEF Persisted, PageTypes
  <2>. QED
    BY <2>1, <2>6, <2>7, <2>8, <2>9, <2>10 DEF PageTypes
<1>6. ASSUME NEW t \in Tasks, StartTask(t)
      PROVE  BridgeTypes' /\ PageTypes'
  <2>. DEFINE others == IF t \in SoleTasks THEN sessions \intersect SoleTasks ELSE {}
  <2>1. used' \subseteq Tasks
    BY <1>6 DEF StartTask, BridgeTypes
  <2>. QED
    BY <1>3, <1>6, <2>1 DEF StartTask
<1>7. ASSUME NEW t \in Tasks, RetrySame(t)
      PROVE  BridgeTypes' /\ PageTypes'
  <2>1. \A u \in sessions \intersect SoleTasks : t \in SoleTasks => u = t
    BY <1>7 DEF RetrySame, PageTypes
  <2>. QED
    BY <1>3, <1>7, <2>1 DEF RetrySame, counters, BridgeTypes
<1>8. ASSUME NEW t \in Tasks, NEW u \in Tasks, RetryOther(t, u)
      PROVE  BridgeTypes' /\ PageTypes'
  <2>1. \A w \in sessions \intersect SoleTasks : u \in SoleTasks => w = t
    BY <1>8 DEF RetryOther, PageTypes
  <2>2. used' \subseteq Tasks
    BY <1>8 DEF RetryOther, BridgeTypes
  <2>. QED
    BY <1>3, <1>8, <2>1, <2>2 DEF RetryOther
<1>9. ASSUME NEW t \in Tasks, Dismiss(t)
      PROVE  BridgeTypes' /\ PageTypes'
  BY <1>2, <1>9 DEF Dismiss
<1>. QED
  BY <1>4, <1>5, <1>6, <1>7, <1>8, <1>9

\* The answers and the stream change the state of one session.
LEMMA PageStepTypes ==
  ASSUME StoreAssumption, BridgeTypes, PageTypes, \A t \in Tasks : LogInv(view[t]),
         \A r \in replies : AnswerInv(r),
         \/ \E r \in replies : Answered(r)
         \/ \E t \in Tasks :
              \/ StreamEvent(t) \/ StreamLost(t) \/ CancelTask(t)
              \/ \E always \in BOOLEAN : ResolvePermission(t, always)
  PROVE  BridgeTypes' /\ PageTypes'
<1>. DEFINE BridgeSame == UNCHANGED <<bridge, counters>>
<1>1. ASSUME BridgeSame, asked' \subseteq Request, replies' \subseteq replies,
             \A r \in asked' : r.op = "permission" => r.permission \in Permissions
      PROVE  BridgeTypes'
  BY <1>1 DEF BridgeTypes, bridge, counters, Bridge!TypeOK
<1>2. ASSUME NEW t \in Tasks, NEW s, t \in sessions => s \in TaskState,
             states' = Updated(t, s), UNCHANGED <<sessions, nonRestorable>>,
             \/ UNCHANGED streams
             \/ streams' = Without(streams, {t})
             \/ streams' = Connected(t)
             \/ streams' = [streams EXCEPT ![t] = @ + 1]
      PROVE  PageTypes'
  <2>1. DOMAIN states' = sessions /\ \A u \in sessions : states'[u] \in TaskState
    BY <1>2, UpdatedTypes
  <2>2. DOMAIN streams' \subseteq Tasks /\ \A u \in DOMAIN streams' : streams'[u] \in Nat
    <3>1. CASE streams' = Without(streams, {t})
      <4>1. DOMAIN streams' = DOMAIN streams \ {t}
            /\ \A u \in DOMAIN streams \ {t} : streams'[u] = streams[u]
        BY <3>1, WithoutIs
      <4>. QED
        BY <4>1 DEF PageTypes
    <3>2. CASE streams' = Connected(t)
      BY <3>2 DEF PageTypes, Connected, With
    <3>3. CASE streams' = [streams EXCEPT ![t] = @ + 1]
      BY <3>3 DEF PageTypes
    <3>. QED
      BY <1>2, <3>1, <3>2, <3>3 DEF PageTypes
  <2>. QED
    BY <1>2, <2>1, <2>2 DEF PageTypes
<1>3. \A t \in sessions : states[t] \in TaskState
  BY DEF PageTypes
<1>4. \A r \in replies : r.task \in Tasks
  BY DEF BridgeTypes, Reply
<1>5. ASSUME NEW r \in replies, HealthAnswered(r)
      PROVE  BridgeTypes' /\ PageTypes'
  <2>1. asked' \in {asked, asked \union {Ask("put", r.task, NoPermission)}}
    BY <1>5 DEF HealthAnswered
  <2>2. Ask("put", r.task, NoPermission) \in Request
        /\ Ask("put", r.task, NoPermission).op = "put"
    BY <1>4, AskType DEF Operations
  <2>3. BridgeTypes'
    BY <1>1, <1>5, <2>1, <2>2 DEF BridgeTypes, HealthAnswered, Take
  <2>4. PageTypes'
    <3>1. CASE UNCHANGED page
      BY <3>1 DEF PageTypes, page
    <3>2. CASE StartFailed(r.task, TRUE)
      BY <1>4, <3>2, FailTypes
    <3>. QED
      BY <1>5, <3>1, <3>2 DEF HealthAnswered
  <2>. QED
    BY <2>3, <2>4
<1>6. ASSUME NEW r \in replies, PutAnswered(r)
      PROVE  BridgeTypes' /\ PageTypes'
  <2>1. BridgeTypes'
    BY <1>1, <1>6 DEF BridgeTypes, PutAnswered, Take
  <2>2. CASE r.answer = "running"
    <3>. DEFINE s == [states[r.task] EXCEPT !.task = "running", !.unavailable = FALSE,
                                            !.error = FALSE, !.starting = FALSE]
    <3>1. r.task \in sessions => s \in TaskState
      BY <1>3, ConnectedState
    <3>. QED
      BY <1>2, <1>4, <1>6, <2>1, <2>2, <3>1 DEF PutAnswered
  <2>3. CASE r.answer # "running"
    <3>1. StartFailed(r.task, r.answer = "refused") /\ (r.answer = "refused") \in BOOLEAN
      BY <1>6, <2>3 DEF PutAnswered
    <3>. QED
      BY <1>4, <2>1, <3>1, FailTypes
  <2>. QED
    BY <2>2, <2>3
<1>7. ASSUME NEW r \in replies, RestoreAnswered(r)
      PROVE  BridgeTypes' /\ PageTypes'
  <2>. DEFINE t == r.task
              s == [states[t] EXCEPT !.restoring = FALSE]
  <2>0. BridgeTypes'
    BY <1>1, <1>7 DEF BridgeTypes, RestoreAnswered, Take
  <2>1. t \in sessions => s \in TaskState
    BY <1>3 DEF TaskState
  <2>2. CASE states' = Updated(t, [s EXCEPT !.task = "running"])
             /\ streams' = Connected(t) /\ UNCHANGED <<sessions, nonRestorable>>
    <3>1. t \in sessions => [s EXCEPT !.task = "running"] \in TaskState
      BY <2>1 DEF TaskState
    <3>. QED
      BY <1>2, <1>4, <2>0, <2>2, <3>1
  <2>3. CASE states' = Updated(t, Finished(s, r.answer)) /\ r.answer \in Terminal
             /\ UNCHANGED <<sessions, nonRestorable, streams>>
    <3>1. t \in sessions => Finished(s, r.answer) \in TaskState
      BY <2>1, <2>3, FinishedState
    <3>. QED
      BY <1>2, <1>4, <2>0, <2>3, <3>1
  <2>4. CASE states' = Updated(t, [s EXCEPT !.error = TRUE])
             /\ UNCHANGED <<sessions, nonRestorable, streams>>
    <3>1. t \in sessions => [s EXCEPT !.error = TRUE] \in TaskState
      BY <2>1 DEF TaskState
    <3>. QED
      BY <1>2, <1>4, <2>0, <2>4, <3>1
  <2>5. CASE DismissAll({t})
    BY <2>0, <2>5, DismissTypes
  <2>. QED
    <3>1. r.answer \in {"running", "missing", "lost"} \union Terminal
      BY <1>7 DEF AnswerInv, RestoreAnswered
    <3>. QED
      BY <1>7, <2>2, <2>3, <2>4, <2>5, <3>1 DEF RestoreAnswered
<1>8. ASSUME NEW r \in replies, CancelAnswered(r)
      PROVE  BridgeTypes' /\ PageTypes'
  <2>. DEFINE t == r.task
              missing == (r.answer = "missing")
              s == [states[t] EXCEPT !.unavailable = missing,
                                     !.error = TRUE, !.cancelling = FALSE]
  <2>0. BridgeTypes'
    BY <1>1, <1>8 DEF BridgeTypes, CancelAnswered, Take
  <2>1. CASE r.answer \in Terminal /\ t \in DOMAIN states
    BY <1>3, <1>4, <1>8, <2>0, <2>1, FinishTypes DEF CancelAnswered
  <2>2. CASE r.answer \in Terminal /\ t \notin DOMAIN states
    BY <1>4, <1>8, <2>0, <2>2 DEF CancelAnswered, PageTypes
  <2>3. CASE r.answer \notin Terminal /\ t \in DOMAIN states
    <3>1. states' = [states EXCEPT ![t] = s] /\ UNCHANGED <<sessions, nonRestorable, streams>>
      BY <1>8, <2>3 DEF CancelAnswered
    <3>2. t \in sessions => s \in TaskState
      <4>1. missing \in BOOLEAN
        OBVIOUS
      <4>. HIDE DEF missing
      <4>. QED
        BY <1>3, <4>1, CancelledState
    <3>. HIDE DEF s
    <3>. QED
      BY <1>2, <1>4, <2>0, <2>3, <3>1, <3>2 DEF Updated
  <2>4. CASE r.answer \notin Terminal /\ t \notin DOMAIN states
    BY <1>8, <2>0, <2>4 DEF CancelAnswered, PageTypes
  <2>. QED
    BY <2>1, <2>2, <2>3, <2>4
<1>9. ASSUME NEW r \in replies, PermissionAnswered(r)
      PROVE  BridgeTypes' /\ PageTypes'
  <2>. DEFINE t == r.task
              s == [states[t] EXCEPT !.error = TRUE, !.submitting = FALSE,
                                     !.always = FALSE]
  <2>0. BridgeTypes'
    BY <1>1, <1>9 DEF BridgeTypes, PermissionAnswered, Take
  <2>1. CASE states' = states
    BY <1>9, <2>0, <2>1 DEF PermissionAnswered, PageTypes
  <2>2. CASE states' # states
    <3>1. /\ t \in DOMAIN states /\ states' = [states EXCEPT ![t] = s]
          /\ UNCHANGED <<sessions, nonRestorable, streams>>
      BY <1>9, <2>2 DEF PermissionAnswered
    <3>2. t \in sessions => s \in TaskState
      BY <1>3, UndecidedState
    <3>. HIDE DEF s
    <3>. QED
      BY <1>2, <1>4, <2>0, <3>1, <3>2 DEF Updated
  <2>. QED
    BY <2>1, <2>2
<1>10. ASSUME NEW t \in Tasks, StreamEvent(t)
       PROVE  BridgeTypes' /\ PageTypes'
  <2>. DEFINE event == view[t].events[streams[t] + 1]
              s == states[t]
  <2>1. event \in Bridge!Event
    <3>1. view[t].events \in Seq(Bridge!Event)
      BY ViewTypes DEF BridgeTypes
    <3>2. streams[t] + 1 \in 1 .. Len(view[t].events)
      BY <1>10, <3>1 DEF StreamEvent, PageTypes
    <3>. QED
      BY <3>1, <3>2
  <2>2. event.permission \in Permissions \union {NoPermission}
    BY <2>1 DEF Bridge!Event
  <2>. HIDE DEF event
  <2>3. CASE event.type \in Terminal
    <3>1. FinishTask(t, [s EXCEPT !.shown = @ + 1], event.type) /\ UNCHANGED asked
      BY <1>10, <2>3 DEF StreamEvent, event
    <3>2. t \in sessions => [s EXCEPT !.shown = @ + 1] \in TaskState
      BY <1>3 DEF TaskState
    <3>3. PageTypes'
      BY <2>3, <3>1, <3>2, FinishTypes
    <3>4. BridgeTypes'
      BY <1>1, <1>10, <3>1 DEF StreamEvent, BridgeTypes
    <3>. QED
      BY <3>3, <3>4
  <2>4. CASE event.type \notin Terminal
    <3>1. /\ states' = Updated(t, Shown(s, event))
          /\ streams' = [streams EXCEPT ![t] = @ + 1]
          /\ asked' = IF s.always /\ event.type = "permission-required"
                      THEN asked \union {Ask("permission", t, event.permission)}
                      ELSE asked
          /\ UNCHANGED <<sessions, nonRestorable>>
      BY <1>10, <2>4 DEF StreamEvent, event
    <3>2. t \in sessions => Shown(s, event) \in TaskState
      BY <1>3, <2>2, ShownIs
    <3>3. PageTypes'
      BY <1>2, <3>1, <3>2
    <3>4. event.type = "permission-required" => event.permission \in Permissions
      <4>1. view[t].events \in Seq(Bridge!Event)
        BY ViewTypes DEF BridgeTypes
      <4>2. streams[t] + 1 \in 1 .. Len(view[t].events)
        BY <1>10, <4>1 DEF StreamEvent, PageTypes
      <4>. QED
        BY <4>2 DEF event, LogInv, RequestInv
    <3>5. /\ asked' \subseteq Request
          /\ \A r \in asked' : r.op = "permission" => r.permission \in Permissions
      BY <2>2, <3>1, <3>4, AskType DEF BridgeTypes, Operations
    <3>6. BridgeTypes'
      BY <1>1, <1>10, <3>5 DEF StreamEvent
    <3>. QED
      BY <3>3, <3>6
  <2>. QED
    BY <2>3, <2>4
<1>11. ASSUME NEW t \in Tasks, StreamLost(t)
       PROVE  BridgeTypes' /\ PageTypes'
  <2>1. BridgeTypes'
    BY <1>1, <1>11 DEF StreamLost, BridgeTypes
  <2>2. t \in sessions => [states[t] EXCEPT !.error = TRUE] \in TaskState
    BY <1>3 DEF TaskState
  <2>. QED
    BY <1>2, <1>11, <2>1, <2>2 DEF StreamLost
<1>12. ASSUME NEW t \in Tasks, CancelTask(t)
       PROVE  BridgeTypes' /\ PageTypes'
  <2>. DEFINE s == [states[t] EXCEPT !.cancelling = TRUE, !.error = FALSE]
  <2>1. /\ t \in DOMAIN states /\ states' = [states EXCEPT ![t] = s]
        /\ asked' = asked \union {Ask("cancel", t, NoPermission)}
        /\ UNCHANGED <<bridge, replies, sessions, nonRestorable, streams, counters>>
    BY <1>12 DEF CancelTask
  <2>2. /\ asked' \subseteq Request
        /\ \A r \in asked' : r.op = "permission" => r.permission \in Permissions
    BY <2>1, AskType DEF BridgeTypes, Operations
  <2>3. BridgeTypes'
    BY <1>1, <2>1, <2>2
  <2>4. t \in sessions => s \in TaskState
    BY <1>3 DEF TaskState
  <2>. HIDE DEF s
  <2>. QED
    BY <1>2, <2>1, <2>3, <2>4 DEF Updated
<1>13. ASSUME NEW t \in Tasks, NEW always \in BOOLEAN, ResolvePermission(t, always)
       PROVE  BridgeTypes' /\ PageTypes'
  <2>. DEFINE p == states[t].permission
              s == Submitted([states[t] EXCEPT !.always = @ \/ always])
  <2>1. /\ t \in DOMAIN states /\ states' = [states EXCEPT ![t] = s]
        /\ p # NoPermission
        /\ asked' = asked \union {Ask("permission", t, p)}
        /\ UNCHANGED <<bridge, replies, sessions, nonRestorable, streams, counters>>
    BY <1>13 DEF ResolvePermission
  <2>2. p \in Permissions
    BY <1>3, <2>1 DEF TaskState, PageTypes
  <2>3. /\ asked' \subseteq Request
        /\ \A r \in asked' : r.op = "permission" => r.permission \in Permissions
    BY <2>1, <2>2, AskType DEF BridgeTypes, Operations
  <2>4. BridgeTypes'
    BY <1>1, <2>1, <2>3
  <2>5. t \in sessions => s \in TaskState
    <3>1. (states[t].always \/ always) \in BOOLEAN
      OBVIOUS
    <3>. DEFINE b == states[t].always \/ always
                s1 == [states[t] EXCEPT !.always = b]
    <3>. HIDE DEF b
    <3>2. t \in sessions => s1 \in TaskState
      BY <1>3, <3>1 DEF b, TaskState
    <3>3. t \in sessions => s = [s1 EXCEPT !.submitting = TRUE, !.error = FALSE]
      BY DEF Submitted, b
    <3>. HIDE DEF s1
    <3>. QED
      BY <3>2, <3>3 DEF TaskState
  <2>. HIDE DEF s
  <2>. QED
    BY <1>2, <2>1, <2>4, <2>5 DEF Updated
<1>. QED
  BY <1>5, <1>6, <1>7, <1>8, <1>9, <1>10, <1>11, <1>12, <1>13 DEF Answered

LEMMA TypesStep ==
  ASSUME StoreAssumption, BridgeTypes, PageTypes, \A t \in Tasks : LogInv(view[t]),
         \A r \in replies : AnswerInv(r),
         [StoreNext]_vars
  PROVE  BridgeTypes' /\ PageTypes'
<1>1. CASE UNCHANGED vars
  BY <1>1 DEF vars, bridge, page, BridgeTypes, PageTypes, Bridge!TypeOK
<1>. QED
  BY <1>1, BridgeStepTypes, UserStepTypes, PageStepTypes DEF StoreNext

-----------------------------------------------------------------------------
(* The log of a task.                                                      *)

\* Event e tells what became of v, which ran: its status and what is pending.
Tells(v, status, p, e) ==
  /\ e.type \in Terminal => status = e.type
  /\ status = "running" =>
       \A q \in Permissions : v.permission = q =>
         p = q \/ e = [type |-> "permission-resolved", permission |-> q]
  /\ e.type = "permission-required" =>
       /\ e.permission \in Permissions /\ p = e.permission
       /\ v.permission \notin Permissions
       /\ \A i \in 1 .. Len(v.events) : v.events[i].permission # e.permission

LEMMA LogGrows ==
  ASSUME NEW v, NEW w, LogInv(v), NEW n \in Nat, Len(v.events) = n,
         v.status = "running", w.status \in {"running"} \union Terminal,
         NEW e, Len(w.events) = n + 1, w.events[n + 1] = e,
         \A i \in 1 .. n : w.events[i] = v.events[i],
         Tells(v, w.status, w.permission, e)
  PROVE  LogInv(w)
<1>1. "running" \notin Terminal
  BY DEF Terminal, Bridge!Terminal
<1>2. \A i \in 1 .. n : v.events[i].type \notin Terminal
  BY <1>1 DEF LogInv, EndsInv
<1>3. EndsInv(w)
  <2>. SUFFICES ASSUME NEW i \in 1 .. n + 1, w.events[i].type \in Terminal
                PROVE  w.status = w.events[i].type
    BY DEF EndsInv
  <2>1. i \in 1 .. n \/ i = n + 1
    OBVIOUS
  <2>. QED
    BY <1>2, <2>1 DEF Tells
<1>4. ASSUME NEW m \in 0 .. n, NEW p \in Permissions
      PROVE  SettledBy(w, m, p) <=> SettledBy(v, m, p)
  <2>1. \A j \in 1 .. m : w.events[j] = v.events[j]
    OBVIOUS
  <2>. QED
    BY <2>1 DEF SettledBy, Holds
<1>5. n \in 0 .. n
  OBVIOUS
<1>6. ASSUME NEW m \in 0 .. n, NEW p \in Permissions, SettledBy(w, m, p)
      PROVE  SettledBy(w, n + 1, p)
  <2>1. PICK j \in 1 .. m : Holds(w, j, "permission-resolved", p)
    BY <1>6 DEF SettledBy
  <2>2. j \in 1 .. n + 1
    OBVIOUS
  <2>. QED
    BY <2>1, <2>2 DEF SettledBy
<1>7. ASSUME NEW i \in 1 .. n, w.events[i].type = "permission-required"
      PROVE  RequestInv(w, i)
  <2>. DEFINE q == v.events[i].permission
  <2>1. RequestInv(v, i) /\ w.events[i] = v.events[i]
    BY <1>7 DEF LogInv
  <2>2. q \in Permissions /\ ~ SettledBy(w, i, q)
    BY <1>4, <2>1 DEF RequestInv
  <2>3. ASSUME NEW k \in 1 .. i - 1, NEW p \in Permissions,
               Holds(w, k, "permission-required", p)
        PROVE  SettledBy(w, i, p)
    <3>1. k \in 1 .. n /\ Holds(v, k, "permission-required", p)
      BY <2>3 DEF Holds
    <3>2. SettledBy(v, i, p)
      BY <2>1, <3>1 DEF RequestInv
    <3>. QED
      BY <1>4, <3>2
  <2>4. ASSUME w.status = "running"
        PROVE  w.permission = q \/ SettledBy(w, n + 1, q)
    <3>1. CASE SettledBy(v, n, q)
      BY <1>4, <1>5, <1>6, <2>2, <3>1
    <3>2. CASE v.permission = q
      <4>1. CASE e = [type |-> "permission-resolved", permission |-> q]
        BY <4>1 DEF SettledBy, Holds
      <4>. QED
        BY <2>2, <2>4, <3>2, <4>1 DEF Tells
    <3>. QED
      BY <2>1, <3>1, <3>2 DEF RequestInv
  <2>. QED
    BY <2>1, <2>2, <2>3, <2>4 DEF RequestInv
<1>8. ASSUME e.type = "permission-required"
      PROVE  RequestInv(w, n + 1)
  <2>. DEFINE q == e.permission
  <2>0. /\ q \in Permissions /\ w.permission = q /\ v.permission \notin Permissions
        /\ \A i \in 1 .. n : v.events[i].permission # q
    BY <1>8 DEF Tells
  <2>1. ~ SettledBy(w, n + 1, q)
    <3>. SUFFICES ASSUME NEW j \in 1 .. n + 1, Holds(w, j, "permission-resolved", q)
                  PROVE  FALSE
      BY DEF SettledBy
    <3>1. CASE j = n + 1
      BY <1>8, <3>1 DEF Holds
    <3>2. CASE j \in 1 .. n
      BY <2>0, <3>2 DEF Holds
    <3>. QED
      BY <3>1, <3>2
  <2>2. ASSUME NEW k \in 1 .. n, NEW p \in Permissions,
               Holds(w, k, "permission-required", p)
        PROVE  SettledBy(w, n + 1, p)
    <3>1. v.events[k] = [type |-> "permission-required", permission |-> p]
      BY <2>2 DEF Holds
    <3>2. SettledBy(v, n, p)
      BY <2>0, <3>1 DEF LogInv, RequestInv
    <3>. QED
      BY <1>4, <1>5, <1>6, <3>2
  <2>. QED
    BY <2>0, <2>1, <2>2 DEF RequestInv
<1>9. ASSUME NEW i \in 1 .. Len(w.events), w.events[i].type = "permission-required"
      PROVE  RequestInv(w, i)
  <2>1. i \in 1 .. n \/ i = n + 1
    OBVIOUS
  <2>. QED
    BY <1>7, <1>8, <1>9, <2>1
<1>. QED
  BY <1>3, <1>9 DEF LogInv

LEMMA LogsStep ==
  ASSUME StoreAssumption, BridgeTypes, \A t \in Tasks : LogInv(view[t]), StoreNext
  PROVE  \A t \in Tasks : LogInv(view'[t])
<1>0. Bridge!TypeOK
  BY DEF BridgeTypes
<1>1. ASSUME NEW t \in Tasks, view[t].status = "running",
             NEW status \in {"running"} \union Terminal,
             NEW p \in Permissions \union {NoPermission}, NEW e \in Bridge!Event,
             view' = [view EXCEPT ![t] = [status |-> status, permission |-> p,
                                          events |-> Append(view[t].events, e)]],
             Tells(view[t], status, p, e)
      PROVE  \A u \in Tasks : LogInv(view'[u])
  <2>. DEFINE n == Len(view[t].events)
  <2>1. /\ Grows(t) /\ view'[t].status = status /\ view'[t].permission = p
        /\ view'[t].events[n + 1] = e
    BY <1>0, <1>1, GrowIs
  <2>2. n \in Nat
    BY <1>0, ViewTypes
  <2>3. /\ Len(view'[t].events) = n + 1
        /\ \A i \in 1 .. n : view'[t].events[i] = view[t].events[i]
        /\ \A u \in Tasks \ {t} : view'[u] = view[u]
    BY <2>1 DEF Grows
  <2>4. LogInv(view'[t])
    <3>. DEFINE v == view[t]
                w == view'[t]
    <3>1. LogInv(v)
      OBVIOUS
    <3>. HIDE DEF v, w
    <3>2. /\ Len(v.events) = n /\ v.status = "running" /\ w.status = status
          /\ Len(w.events) = n + 1 /\ w.events[n + 1] = e
          /\ \A i \in 1 .. n : w.events[i] = v.events[i]
      BY <1>1, <2>1, <2>3 DEF v, w
    <3>3. Tells(v, w.status, w.permission, e)
      BY <1>1, <2>1 DEF v, w
    <3>. HIDE DEF n
    <3>5. LogInv(w)
      BY <2>2, <3>1, <3>2, <3>3, LogGrows
    <3>. QED
      BY <3>5 DEF w
  <2>. QED
    BY <2>3, <2>4
<1>2. ASSUME NEW t \in Tasks, Bridge!Report(t)
      PROVE  \A u \in Tasks : LogInv(view'[u])
  <2>. DEFINE e == [type |-> "progress", permission |-> NoPermission]
  <2>1. /\ view[t].status = "running"
        /\ view' = [view EXCEPT ![t] =
                      [status |-> "running", permission |-> view[t].permission,
                       events |-> Append(view[t].events, e)]]
    BY <1>0, <1>2, BridgeMoves
  <2>2. e \in Bridge!Event /\ view[t].permission \in Permissions \union {NoPermission}
    BY <1>0, EventTypes, ViewTypes
  <2>3. Tells(view[t], "running", view[t].permission, e)
    BY DEF Tells, Terminal, Bridge!Terminal
  <2>. HIDE DEF e
  <2>. QED
    BY <1>1, <2>1, <2>2, <2>3
<1>3. ASSUME NEW t \in Tasks, Bridge!Answer(t)
      PROVE  \A u \in Tasks : LogInv(view'[u])
  <2>. DEFINE e == [type |-> "permission-resolved", permission |-> view[t].permission]
  <2>1. /\ view[t].status = "running"
        /\ view' = [view EXCEPT ![t] =
                      [status |-> "running", permission |-> NoPermission,
                       events |-> Append(view[t].events, e)]]
    BY <1>0, <1>3, BridgeMoves
  <2>2. e \in Bridge!Event
    BY <1>0, EventTypes, ViewTypes
  <2>3. Tells(view[t], "running", NoPermission, e)
    BY DEF Tells, Terminal, Bridge!Terminal
  <2>. HIDE DEF e
  <2>. QED
    BY <1>1, <2>1, <2>2, <2>3
<1>4. ASSUME NEW t \in Tasks, NEW p \in Permissions, Bridge!Ask(t, p)
      PROVE  \A u \in Tasks : LogInv(view'[u])
  <2>. DEFINE e == [type |-> "permission-required", permission |-> p]
  <2>1. /\ view[t].status = "running" /\ view[t].permission = NoPermission
        /\ \A i \in 1 .. Len(view[t].events) : view[t].events[i].permission # p
        /\ view' = [view EXCEPT ![t] =
                      [status |-> "running", permission |-> p,
                       events |-> Append(view[t].events, e)]]
    BY <1>0, <1>4, BridgeMoves
  <2>2. e \in Bridge!Event
    BY EventTypes
  <2>3. Tells(view[t], "running", p, e)
    BY <2>1 DEF Tells, StoreAssumption, Terminal, Bridge!Terminal
  <2>. HIDE DEF e
  <2>. QED
    BY <1>1, <2>1, <2>2, <2>3
<1>5. ASSUME NEW t \in Tasks, NEW status \in Terminal, Bridge!End(t, status)
      PROVE  \A u \in Tasks : LogInv(view'[u])
  <2>. DEFINE e == [type |-> status, permission |-> NoPermission]
  <2>1. /\ view[t].status = "running"
        /\ view' = [view EXCEPT ![t] =
                      [status |-> status, permission |-> NoPermission,
                       events |-> Append(view[t].events, e)]]
    BY <1>0, <1>5, BridgeMoves
  <2>2. e \in Bridge!Event
    BY EventTypes
  <2>3. Tells(view[t], status, NoPermission, e)
    BY DEF Tells, Terminal, Bridge!Terminal
  <2>. HIDE DEF e
  <2>. QED
    BY <1>1, <2>1, <2>2, <2>3
<1>6. CASE BridgeTask
  BY <1>2, <1>3, <1>4, <1>5, <1>6 DEF BridgeTask
<1>7. CASE BridgeRestart
  BY <1>7 DEF BridgeRestart, LogInv, EndsInv
<1>8. ASSUME NEW t \in Tasks, BridgeBegins(t)
      PROVE  \A u \in Tasks : LogInv(view'[u])
  <2>1. view' = [view EXCEPT ![t] = Bridge!Begun]
    BY <1>8 DEF BridgeBegins, Bridge!Begin
  <2>2. /\ Bridge!Begun.events =
             <<[type |-> "progress", permission |-> NoPermission]>>
    BY DEF Bridge!Begun, Bridge!Logged
  <2>3. /\ Len(Bridge!Begun.events) = 1
        /\ Bridge!Begun.events[1].type = "progress"
    BY <2>2
  <2>4. LogInv(Bridge!Begun)
    BY <2>3 DEF LogInv, EndsInv, Terminal, Bridge!Terminal
  <2>. QED
    BY <1>0, <2>1, <2>4 DEF Bridge!TypeOK
<1>9. ASSUME NEW t \in Tasks, BridgeCancel(t)
      PROVE  \A u \in Tasks : LogInv(view'[u])
  <2>1. UNCHANGED view \/ Bridge!End(t, "cancelled")
    BY <1>9 DEF BridgeCancel
  <2>2. "cancelled" \in Terminal
    BY DEF Terminal, Bridge!Terminal
  <2>. QED
    BY <1>5, <2>1, <2>2
<1>10. ASSUME UNCHANGED view
       PROVE  \A u \in Tasks : LogInv(view'[u])
  BY <1>10
<1>11. BridgeTask \/ BridgeRestart \/ UNCHANGED view
       \/ \E t \in Tasks : BridgeBegins(t) \/ BridgeCancel(t)
  BY DEF StoreNext, BridgeAnswers, BridgeHealth, BridgePut, BridgeRefuses, BridgeGet,
         BridgePermission, StartTask, RetrySame, RetryOther, Dismiss, StreamEvent,
         StreamLost, ResolvePermission, CancelTask, DismissFailed, Reload, Answered,
         HealthAnswered, PutAnswered, RestoreAnswered, CancelAnswered,
         PermissionAnswered, bridge
<1>. QED
  BY <1>6, <1>7, <1>8, <1>9, <1>10, <1>11

-----------------------------------------------------------------------------
(* What is asked and answered for a task, and what is shown of it.         *)

\* Nobody has asked or told anything of u.
CallsSame(u) ==
  /\ Promised(u)' = Promised(u) /\ Settled(u)' = Settled(u)
  /\ Puts(u)' = Puts(u)
  /\ Cancels(u)' => Cancels(u)

\* What is shown of u is what was shown.
LooksSame(s, q) ==
  /\ q.task = s.task /\ q.shown = s.shown /\ q.permission = s.permission
  /\ q.unavailable = s.unavailable
  /\ q.starting = s.starting /\ q.restoring = s.restoring

PageSame(u) ==
  /\ u \in sessions' <=> u \in sessions
  /\ u \in nonRestorable' <=> u \in nonRestorable
  /\ u \in sessions => LooksSame(states[u], states'[u])
  /\ u \in DOMAIN streams' => u \in DOMAIN streams /\ streams'[u] = streams[u]

\* The bridge has gone on with u, or not; what it has begun it has begun.
StatusKept(u) ==
  \/ view'[u].status = view[u].status
  \/ view[u].status = "running" /\ view'[u].status \in Terminal

HistoryKept(u) ==
  /\ u \in used => u \in used'
  /\ u \in overtaken' <=> u \in overtaken
  /\ restarts > 0 => restarts' > 0

\* What concerns no task is kept of every task.
LEMMA TaskKept ==
  ASSUME NEW u, TaskInv(u), CallsSame(u), PageSame(u), StatusKept(u), HistoryKept(u),
         Quiet(u)' <=> Quiet(u)
  PROVE  TaskInv(u)'
<1>1. Quiet(u)' <=> Quiet(u)
  OBVIOUS
<1>2. /\ Known(u)' <=> Known(u)
      /\ view'[u].status = "running" => view[u].status = "running"
      /\ view[u].status \in Terminal => view'[u].status = view[u].status
  BY DEF Known, StatusKept, Terminal, Bridge!Terminal
<1>3. OpeningInv(u)'
  BY DEF TaskInv, OpeningInv, CallsSame, PageSame, LooksSame
<1>4. SessionInv(u)'
  BY DEF TaskInv, SessionInv, CallsSame, PageSame, LooksSame, HistoryKept
<1>5. StartInv(u)'
  <2>. USE <1>1, <1>2 DEF TaskInv, StartInv, CallsSame, PageSame, LooksSame, HistoryKept
  <2>1. Known(u)' => Quiet(u)'
    OBVIOUS
  <2>2. (Known(u) \/ ~ Quiet(u))' =>
          /\ u \in used'
          /\ \A r \in Promised(u)' : r.op # "health"
          /\ \A r \in Settled(u)' :
               r.op # "health" /\ ~ (r.op = "put" /\ r.answer = "refused")
          /\ u \in sessions' => states'[u].task # "none" \/ ~ states'[u].unavailable
    OBVIOUS
  <2>3. u \in sessions' /\ states'[u].task # "none" => Quiet(u)'
    OBVIOUS
  <2>4. \A r \in Settled(u)' : r.answer \in {"running"} \union Terminal => Quiet(u)'
    OBVIOUS
  <2>5. u \notin overtaken' /\ ~ Quiet(u)' => \E r \in Promised(u)' : r.op = "put"
    OBVIOUS
  <2>. QED
    BY <2>1, <2>2, <2>3, <2>4, <2>5
<1>6. RememberedInv(u)'
  BY <1>2 DEF TaskInv, RememberedInv, CallsSame, PageSame, LooksSame, HistoryKept
<1>7. OutcomeInv(u)'
  BY <1>2 DEF TaskInv, OutcomeInv, PageSame, LooksSame, HistoryKept
<1>. QED
  BY <1>3, <1>4, <1>5, <1>6, <1>7 DEF TaskInv

\* The answer that a request gets.
ReplyTo(q, answer) == [op |-> q.op, task |-> q.task, permission |-> q.permission,
                       answer |-> answer]

LEMMA ReplyToIs ==
  ASSUME NEW q, NEW answer
  PROVE  /\ ReplyTo(q, answer).op = q.op /\ ReplyTo(q, answer).task = q.task
         /\ ReplyTo(q, answer).permission = q.permission
         /\ ReplyTo(q, answer).answer = answer
BY DEF ReplyTo

\* The answers that rs get, and those of the promises of t among them.
Replied(rs, answer) == {ReplyTo(q, answer) : q \in {q \in rs : q.heard}}
RepliesTo(t, rs, answer) == {ReplyTo(q, answer) : q \in rs \intersect Promised(t)}

LEMMA RepliesAre ==
  ASSUME NEW rs, NEW answer, AnswerAll(rs, answer)
  PROVE  asked' = asked \ rs /\ replies' = replies \union Replied(rs, answer)
BY DEF AnswerAll, ReplyTo, Replied

\* The bridge answers requests of t.
LEMMA AnswerIs ==
  ASSUME NEW t, NEW rs \in SUBSET asked, \A r \in rs : r.task = t,
         NEW answer, AnswerAll(rs, answer)
  PROVE  /\ \A u : u # t => CallsSame(u)
         /\ Promised(t)' = Promised(t) \ rs
         /\ Settled(t)' = Settled(t) \union RepliesTo(t, rs, answer)
         /\ Puts(t)' = Puts(t) \ rs
         /\ Cancels(t)' => Cancels(t)
<1>1. asked' = asked \ rs /\ replies' = replies \union Replied(rs, answer)
  BY RepliesAre
<1>2. \A q : /\ ReplyTo(q, answer).op = q.op /\ ReplyTo(q, answer).task = q.task
  BY ReplyToIs
<1>3. \A u : Promised(u)' = Promised(u) \ rs /\ Puts(u)' = Puts(u) \ rs
  BY <1>1 DEF Promised, Puts
<1>4. \A u : u # t => rs \intersect Promised(u) = {} /\ rs \intersect Puts(u) = {}
  BY DEF Promised, Puts
<1>5. \A u : u # t => Settled(u)' = Settled(u)
  BY <1>1, <1>2 DEF Settled, Replied
<1>6. Settled(t)' = Settled(t) \union RepliesTo(t, rs, answer)
  BY <1>1, <1>2 DEF Settled, Promised, RepliesTo, Replied
<1>7. \A u : Cancels(u)' => Cancels(u)
  BY <1>1, <1>2 DEF Cancels, Replied
<1>. QED
  BY <1>1, <1>3, <1>4, <1>5, <1>6, <1>7 DEF CallsSame

LEMMA AnswerOne ==
  ASSUME NEW t, NEW r \in asked, r.task = t, NEW answer, AnswerAll({r}, answer)
  PROVE  /\ \A u : u # t => CallsSame(u)
         /\ \A a \in replies' : a \in replies \/ a = ReplyTo(r, answer)
         /\ Promised(t)' = Promised(t) \ {r}
         /\ Settled(t)' = Settled(t) \union
              (IF r \in Promised(t) THEN {ReplyTo(r, answer)} ELSE {})
         /\ Puts(t)' = Puts(t) \ {r}
         /\ Cancels(t)' => Cancels(t)
<1>. DEFINE rs == {r}
<1>1. rs \in SUBSET asked /\ (\A q \in rs : q.task = t) /\ AnswerAll(rs, answer)
  OBVIOUS
<1>. HIDE DEF rs
<1>2. replies' = replies \union Replied(rs, answer)
  BY <1>1, RepliesAre
<1>3. Settled(t)' = Settled(t) \union RepliesTo(t, rs, answer)
  BY <1>1, AnswerIs
<1>4. /\ \A u : u # t => CallsSame(u)
      /\ Promised(t)' = Promised(t) \ rs /\ Puts(t)' = Puts(t) \ rs
      /\ Cancels(t)' => Cancels(t)
  BY <1>1, AnswerIs
<1>5. \A a \in replies' : a \in replies \/ a = ReplyTo(r, answer)
  BY <1>2 DEF rs, Replied
<1>6. Settled(t)' = Settled(t) \union
        (IF r \in Promised(t) THEN {ReplyTo(r, answer)} ELSE {})
  BY <1>3 DEF rs, RepliesTo
<1>. QED
  BY <1>4, <1>5, <1>6 DEF rs

\* The page asks something of t.
LEMMA AskIs ==
  ASSUME NEW t, NEW op, NEW p, asked' = asked \union {Ask(op, t, p)},
         replies' \subseteq replies
  PROVE  /\ \A u : u # t => Promised(u)' = Promised(u) /\ Puts(u)' = Puts(u)
         /\ op \in Opening => Promised(t)' = Promised(t) \union {Ask(op, t, p)}
         /\ op \notin Opening => Promised(t)' = Promised(t)
         /\ op # "put" => Puts(t)' = Puts(t)
         /\ \A u : Cancels(u)' => Cancels(u) \/ (u = t /\ op = "cancel")
<1>. DEFINE r == Ask(op, t, p)
<1>1. r.op = op /\ r.task = t /\ r.heard
  BY DEF Ask
<1>2. asked' = asked \union {r}
  OBVIOUS
<1>. HIDE DEF r
<1>3. \A u : u # t => Promised(u)' = Promised(u) /\ Puts(u)' = Puts(u)
  BY <1>1, <1>2 DEF Promised, Puts
<1>4. /\ op \in Opening => Promised(t)' = Promised(t) \union {r}
      /\ op \notin Opening => Promised(t)' = Promised(t)
  BY <1>1, <1>2 DEF Promised
<1>5. op # "put" => Puts(t)' = Puts(t)
  BY <1>1, <1>2 DEF Puts
<1>6. \A u : Cancels(u)' => Cancels(u) \/ (u = t /\ op = "cancel")
  BY <1>1, <1>2 DEF Cancels
<1>. QED
  BY <1>3, <1>4, <1>5, <1>6 DEF r

-----------------------------------------------------------------------------
(* The bridge's steps keep what is known of each task.                     *)

CallsInv ==
  /\ \A t \in Tasks : TaskInv(t)
  /\ \A r \in replies : AnswerInv(r)

LEMMA PageKept ==
  ASSUME UNCHANGED page
  PROVE  \A u : PageSame(u)
BY DEF page, PageSame, LooksSame

LEMMA CountersKept ==
  ASSUME UNCHANGED counters
  PROVE  \A u : HistoryKept(u)
BY DEF counters, HistoryKept

LEMMA AnswerKept ==
  ASSUME NEW r, AnswerInv(r), StatusKept(r.task), HistoryKept(r.task),
         decided \subseteq decided'
  PROVE  AnswerInv(r)'
<1>1. /\ view'[r.task].status = "running" => view[r.task].status = "running"
      /\ \A a \in Terminal : view[r.task].status = a => view'[r.task].status = a
  BY DEF StatusKept, Terminal, Bridge!Terminal
<1>. QED
  BY <1>1 DEF AnswerInv, HistoryKept

\* The answer to a promise takes its place.
LEMMA PromiseAnswered ==
  ASSUME NEW t, TaskInv(t), NEW rs, NEW answer,
         Promised(t)' = Promised(t) \ rs,
         Settled(t)' = Settled(t) \union RepliesTo(t, rs, answer),
         Cancels(t)' => Cancels(t), PageSame(t), HistoryKept(t)
  PROVE  OpeningInv(t)' /\ SessionInv(t)'
<1>1. OpeningInv(t) /\ SessionInv(t)
  BY DEF TaskInv
<1>2. SessionInv(t)'
  BY <1>1 DEF SessionInv, PageSame, LooksSame, HistoryKept
<1>3. CASE rs \intersect Promised(t) = {}
  <2>1. Promised(t)' = Promised(t) /\ Settled(t)' = Settled(t)
    BY <1>3 DEF RepliesTo
  <2>2. OpeningInv(t)'
    BY <1>1, <2>1 DEF OpeningInv, PageSame, LooksSame
  <2>. QED
    BY <1>2, <2>2
<1>4. CASE rs \intersect Promised(t) # {}
  <2>1. PICK q : q \in rs /\ Promised(t) = {q} /\ Settled(t) = {}
    BY <1>1, <1>4 DEF OpeningInv
  <2>2. Promised(t)' = {} /\ Settled(t)' = {ReplyTo(q, answer)}
    BY <2>1 DEF RepliesTo
  <2>3. OpeningInv(t)'
    BY <1>1, <2>1, <2>2 DEF OpeningInv, PageSame, LooksSame
  <2>. QED
    BY <1>2, <2>3
<1>. QED
  BY <1>3, <1>4

LEMMA OutcomeKept ==
  ASSUME NEW t, OutcomeInv(t), PageSame(t), StatusKept(t), HistoryKept(t)
  PROVE  OutcomeInv(t)'
<1>1. \A a \in Terminal : view[t].status = a => view'[t].status = a
  BY DEF StatusKept, Terminal, Bridge!Terminal
<1>. QED
  BY <1>1 DEF OutcomeInv, PageSame, LooksSame, HistoryKept

LEMMA TaskGoesOn ==
  ASSUME BridgeTypes, CallsInv, BridgeTask
  PROVE  CallsInv'
<1>1. PICK t \in Tasks : Grows(t)
  BY BridgeTaskGrows DEF BridgeTypes
<1>2. \A u \in Tasks : StatusKept(u)
  BY <1>1 DEF Grows, StatusKept
<1>3. UNCHANGED page /\ UNCHANGED counters
      /\ UNCHANGED <<beginning, decided, asked, replies>>
  BY DEF BridgeTask
<1>4. \A u : CallsSame(u)
  BY <1>3 DEF CallsSame, Promised, Settled, Puts, Cancels
<1>5. ASSUME NEW u \in Tasks
      PROVE  TaskInv(u)'
  <2>1. TaskInv(u) /\ CallsSame(u) /\ PageSame(u) /\ StatusKept(u) /\ HistoryKept(u)
    BY <1>2, <1>3, <1>4, PageKept, CountersKept DEF CallsInv
  <2>2. Quiet(u)' <=> Quiet(u)
    BY <1>3, <2>1 DEF Quiet, CallsSame
  <2>. QED
    BY <2>1, <2>2, TaskKept
<1>6. \A r \in replies' : r \in replies /\ r.task \in Tasks
  BY <1>3 DEF BridgeTypes, Reply
<1>7. \A r \in replies' : AnswerInv(r)'
  BY <1>2, <1>3, <1>6, CountersKept, AnswerKept DEF CallsInv
<1>. QED
  BY <1>5, <1>7 DEF CallsInv

\* One request is answered, and starts nothing.
LEMMA OneAnswered ==
  ASSUME BridgeTypes, CallsInv, NEW t \in Tasks, NEW r \in asked, r.task = t,
         r.op # "put", NEW answer, AnswerAll({r}, answer),
         UNCHANGED page, UNCHANGED counters, UNCHANGED beginning,
         \A u \in Tasks : StatusKept(u), decided \subseteq decided',
         AnswerInv(ReplyTo(r, answer))',
         answer \in {"running"} \union Terminal /\ r.op \in Opening => Quiet(t)
  PROVE  CallsInv'
<1>1. /\ \A u : u # t => CallsSame(u)
      /\ \A a \in replies' : a \in replies \/ a = ReplyTo(r, answer)
      /\ Promised(t)' = Promised(t) \ {r}
      /\ Settled(t)' = Settled(t) \union
           (IF r \in Promised(t) THEN {ReplyTo(r, answer)} ELSE {})
      /\ Puts(t)' = Puts(t) \ {r}
      /\ Cancels(t)' => Cancels(t)
  BY AnswerOne
<1>2. \A u : PageSame(u) /\ HistoryKept(u)
  BY PageKept, CountersKept
<1>3. ASSUME NEW u \in Tasks, u # t
      PROVE  TaskInv(u)'
  <2>1. TaskInv(u) /\ CallsSame(u) /\ PageSame(u) /\ StatusKept(u) /\ HistoryKept(u)
    BY <1>1, <1>2, <1>3 DEF CallsInv
  <2>2. Quiet(u)' <=> Quiet(u)
    BY <2>1 DEF Quiet, CallsSame
  <2>. QED
    BY <2>1, <2>2, TaskKept
<1>4. TaskInv(t) /\ Puts(t)' = Puts(t)
  BY <1>1 DEF CallsInv, Puts
<1>5. ASSUME r \notin Promised(t)
      PROVE  TaskInv(t)'
  <2>1. CallsSame(t)
    BY <1>1, <1>4, <1>5 DEF CallsSame
  <2>2. PageSame(t) /\ StatusKept(t) /\ HistoryKept(t)
    BY <1>2
  <2>3. Quiet(t)' <=> Quiet(t)
    BY <2>1 DEF Quiet, CallsSame
  <2>. QED
    BY <1>4, <2>1, <2>2, <2>3, TaskKept
<1>6. ASSUME r \in Promised(t)
      PROVE  TaskInv(t)'
  <2>0. r.op \in Opening
    BY <1>6 DEF Promised
  <2>1. Promised(t) = {r} /\ Settled(t) = {} /\ t \in sessions /\ t \notin nonRestorable
        /\ states[t].task = "none" /\ ~ states[t].unavailable
    BY <1>4, <1>6 DEF TaskInv, OpeningInv
  <2>2. Promised(t)' = {} /\ Settled(t)' = {ReplyTo(r, answer)}
    BY <1>1, <2>1
  <2>3. /\ ReplyTo(r, answer).op = r.op /\ ReplyTo(r, answer).answer = answer
    BY ReplyToIs
  <2>4. OpeningInv(t)' /\ SessionInv(t)'
    <3>1. Cancels(t)' => Cancels(t)
      BY <1>1
    <3>2. Settled(t)' = Settled(t) \union RepliesTo(t, {r}, answer)
      BY <1>6, <2>1, <2>2 DEF RepliesTo
    <3>. QED
      BY <1>1, <1>2, <1>4, <3>1, <3>2, PromiseAnswered
  <2>5. OutcomeInv(t)'
    BY <1>2, <1>4, OutcomeKept DEF TaskInv
  <2>6. /\ Quiet(t)' <=> Quiet(t)
        /\ Known(t)' <=> Known(t)
        /\ view'[t].status = "running" => view[t].status = "running"
    BY <1>4 DEF Quiet, Known, StatusKept, Terminal, Bridge!Terminal
  <2>7. /\ Known(t) \/ ~ Quiet(t) => r.op # "health" /\ t \in used
        /\ Known(t) => Quiet(t)
        /\ t \notin overtaken => Quiet(t)
    BY <1>4, <2>1 DEF TaskInv, StartInv
  <2>8. t \in sessions' /\ t \notin nonRestorable' /\ states'[t].task = "none"
        /\ ~ states'[t].unavailable /\ (t \in overtaken' <=> t \in overtaken)
    BY <1>2, <2>1 DEF PageSame, LooksSame, HistoryKept
  <2>9. StartInv(t)'
    BY <1>2, <2>0, <2>2, <2>3, <2>6, <2>7, <2>8 DEF StartInv, HistoryKept
  <2>10. RememberedInv(t)'
    BY <2>2, <2>8 DEF RememberedInv
  <2>. QED
    BY <2>4, <2>5, <2>9, <2>10 DEF TaskInv
<1>7. ASSUME NEW q \in replies'
      PROVE  AnswerInv(q)'
  <2>1. CASE q \in replies
    <3>1. q.task \in Tasks
      BY <2>1 DEF BridgeTypes, Reply
    <3>. QED
      BY <1>2, <2>1, <3>1, AnswerKept DEF CallsInv
  <2>2. CASE q = ReplyTo(r, answer)
    BY <2>2
  <2>. QED
    BY <1>1, <2>1, <2>2
<1>. QED
  BY <1>3, <1>5, <1>6, <1>7 DEF CallsInv

LEMMA HealthTold ==
  ASSUME BridgeTypes, CallsInv, NEW t \in Tasks, BridgeHealth(t)
  PROVE  CallsInv'
<1>1. PICK r \in asked, answer \in {"ok", "refused"} :
        r.op = "health" /\ r.task = t /\ AnswerAll({r}, answer)
  BY DEF BridgeHealth
<1>2. UNCHANGED page /\ UNCHANGED counters /\ UNCHANGED <<view, beginning, decided>>
  BY DEF BridgeHealth, bridge
<1>3. AnswerInv(ReplyTo(r, answer))'
  BY <1>1, ReplyToIs DEF AnswerInv
<1>4. answer \notin {"running"} \union Terminal
  BY DEF Terminal, Bridge!Terminal
<1>. QED
  BY <1>1, <1>2, <1>3, <1>4, OneAnswered DEF StatusKept

LEMMA GetTold ==
  ASSUME BridgeTypes, CallsInv, NEW t \in Tasks, BridgeGet(t)
  PROVE  CallsInv'
<1>1. PICK r \in asked, answer \in {"missing", view[t].status} :
        /\ r.op = "get" /\ r.task = t /\ AnswerAll({r}, answer)
        /\ answer = IF Known(t) THEN view[t].status ELSE "missing"
  BY DEF BridgeGet
<1>2. UNCHANGED page /\ UNCHANGED counters /\ UNCHANGED <<view, beginning, decided>>
  BY DEF BridgeGet, bridge
<1>3. view[t].status \in {"absent", "running"} \union Terminal
  BY ViewTypes DEF BridgeTypes
<1>4. AnswerInv(ReplyTo(r, answer))'
  <2>1. /\ ReplyTo(r, answer).op = "get" /\ ReplyTo(r, answer).task = t
        /\ ReplyTo(r, answer).answer = answer
    BY <1>1, ReplyToIs
  <2>. QED
    BY <1>1, <1>2, <1>3, <2>1 DEF AnswerInv, Known, Terminal, Bridge!Terminal
<1>5. answer \in {"running"} \union Terminal => Quiet(t)
  <2>1. Known(t) => Quiet(t)
    BY DEF CallsInv, TaskInv, StartInv
  <2>2. ~ Known(t) => answer = "missing"
    BY <1>1
  <2>. QED
    BY <2>1, <2>2 DEF Terminal, Bridge!Terminal
<1>6. \A u \in Tasks : StatusKept(u)
  BY <1>2 DEF StatusKept
<1>. QED
  BY <1>1, <1>2, <1>4, <1>5, <1>6, OneAnswered

LEMMA PermissionTold ==
  ASSUME BridgeTypes, CallsInv, NEW t \in Tasks, BridgePermission(t)
  PROVE  CallsInv'
<1>1. PICK r \in asked, answer \in {"ok", "missing"} :
        /\ r.op = "permission" /\ r.task = t /\ AnswerAll({r}, answer)
        /\ decided \subseteq decided' /\ (answer = "ok" => r.permission \in decided')
  BY DEF BridgePermission
<1>2. UNCHANGED page /\ UNCHANGED counters /\ UNCHANGED <<view, beginning>>
  BY DEF BridgePermission
<1>3. AnswerInv(ReplyTo(r, answer))'
  BY <1>1, ReplyToIs DEF AnswerInv
<1>4. answer \notin {"running"} \union Terminal
  BY DEF Terminal, Bridge!Terminal
<1>. QED
  BY <1>1, <1>2, <1>3, <1>4, OneAnswered DEF StatusKept

LEMMA CancelTold ==
  ASSUME BridgeTypes, CallsInv, NEW t \in Tasks, BridgeCancel(t)
  PROVE  CallsInv'
<1>. USE DEF Terminal, Bridge!Terminal
<1>1. PICK r \in asked, answer \in {"missing", "refused"} \union Terminal :
        /\ r.op = "cancel" /\ r.task = t /\ AnswerAll({r}, answer)
        /\ \/ UNCHANGED view /\ ~ Known(t) /\ answer = "missing"
           \/ UNCHANGED view /\ answer \in {"refused", view[t].status}
                /\ view[t].status \in Terminal
           \/ UNCHANGED view /\ answer = "refused"
           \/ Bridge!End(t, "cancelled") /\ answer = "cancelled"
  BY DEF BridgeCancel
<1>2. UNCHANGED page /\ UNCHANGED counters /\ UNCHANGED <<beginning, decided>>
  BY DEF BridgeCancel
<1>3. Bridge!End(t, "cancelled") => Grows(t) /\ view'[t].status = "cancelled"
  BY EndGrows DEF BridgeTypes
<1>4. \A u \in Tasks : StatusKept(u)
  BY <1>1, <1>3 DEF StatusKept, Grows
<1>5. AnswerInv(ReplyTo(r, answer))'
  <2>1. /\ ReplyTo(r, answer).op = "cancel" /\ ReplyTo(r, answer).task = t
        /\ ReplyTo(r, answer).answer = answer
    BY <1>1, ReplyToIs
  <2>. QED
    BY <1>1, <1>3, <2>1 DEF AnswerInv, Known
<1>6. r.op # "put" /\ r.op \notin Opening
  BY <1>1 DEF Opening
<1>. QED
  BY <1>1, <1>2, <1>4, <1>5, <1>6, OneAnswered

LEMMA PutTaken ==
  ASSUME BridgeTypes, CallsInv, NEW t \in Tasks, BridgePut(t)
  PROVE  CallsInv'
<1>1. UNCHANGED page /\ UNCHANGED counters /\ UNCHANGED <<view, decided, asked, replies>>
      /\ beginning' = beginning \union {t} /\ Puts(t) # {}
  BY DEF BridgePut
<1>2. \A u : /\ CallsSame(u) /\ PageSame(u) /\ HistoryKept(u) /\ StatusKept(u)
             /\ Quiet(u)' <=> Quiet(u)
  BY <1>1, PageKept, CountersKept
     DEF CallsSame, Promised, Settled, Puts, Cancels, StatusKept, Quiet
<1>3. \A u \in Tasks : TaskInv(u)'
  BY <1>2, TaskKept DEF CallsInv
<1>4. \A r \in replies' : AnswerInv(r)'
  BY <1>1, <1>2, AnswerKept DEF CallsInv
<1>. QED
  BY <1>3, <1>4 DEF CallsInv

\* A start that is over, and how: told to whoever asked for it.
LEMMA StartTold ==
  ASSUME CallsInv, NEW t \in Tasks, NEW answer, AnswerAll(Puts(t), answer),
         UNCHANGED page, UNCHANGED counters, beginning' = beginning \ {t},
         UNCHANGED decided, \A u \in Tasks \ {t} : view'[u] = view[u]
  PROVE  /\ \A u \in Tasks \ {t} : TaskInv(u)'
         /\ OpeningInv(t)' /\ SessionInv(t)' /\ Quiet(t)'
         /\ Promised(t)' = Promised(t) \ Puts(t)
         /\ Settled(t)' = Settled(t) \union RepliesTo(t, Puts(t), answer)
         /\ replies' = replies \union Replied(Puts(t), answer)
<1>. DEFINE rs == Puts(t)
<1>0. rs \in SUBSET asked /\ \A r \in rs : r.task = t
  BY DEF Puts
<1>. HIDE DEF rs
<1>1. /\ \A u : u # t => CallsSame(u)
      /\ Promised(t)' = Promised(t) \ rs
      /\ Settled(t)' = Settled(t) \union RepliesTo(t, rs, answer)
      /\ Puts(t)' = Puts(t) \ rs
      /\ Cancels(t)' => Cancels(t)
  <2>1. AnswerAll(rs, answer)
    BY DEF rs
  <2>. QED
    BY <1>0, <2>1, AnswerIs
<1>2. \A u : PageSame(u) /\ HistoryKept(u)
  BY PageKept, CountersKept
<1>3. ASSUME NEW u \in Tasks \ {t}
      PROVE  TaskInv(u)'
  <2>1. TaskInv(u) /\ CallsSame(u) /\ StatusKept(u)
    BY <1>1 DEF CallsInv, StatusKept
  <2>2. Quiet(u)' <=> Quiet(u)
    BY <2>1 DEF Quiet, CallsSame
  <2>. QED
    BY <1>2, <2>1, <2>2, TaskKept
<1>4. OpeningInv(t)' /\ SessionInv(t)'
  <2>1. TaskInv(t) /\ PageSame(t) /\ HistoryKept(t)
    BY <1>2 DEF CallsInv
  <2>. QED
    BY <1>1, <2>1, PromiseAnswered
<1>5. Quiet(t)'
  BY <1>1 DEF Quiet, rs
<1>. QED
  BY <1>1, <1>3, <1>4, <1>5, RepliesAre DEF rs

LEMMA TaskBegun ==
  ASSUME BridgeTypes, CallsInv, NEW t \in Tasks, BridgeBegins(t)
  PROVE  CallsInv'
<1>. USE DEF Terminal, Bridge!Terminal
<1>1. /\ UNCHANGED page /\ UNCHANGED counters /\ UNCHANGED decided
      /\ beginning' = beginning \ {t} /\ t \in beginning
      /\ AnswerAll(Puts(t), "running") /\ view[t].status = "absent"
      /\ view'[t].status = "running" /\ \A u \in Tasks \ {t} : view'[u] = view[u]
  BY DEF BridgeBegins, Bridge!Begin, Bridge!Begun, BridgeTypes, Bridge!TypeOK
<1>2. /\ \A u \in Tasks \ {t} : TaskInv(u)'
      /\ OpeningInv(t)' /\ SessionInv(t)' /\ Quiet(t)'
      /\ Promised(t)' = Promised(t) \ Puts(t)
      /\ Settled(t)' = Settled(t) \union RepliesTo(t, Puts(t), "running")
      /\ replies' = replies \union Replied(Puts(t), "running")
  BY <1>1, StartTold
<1>3. /\ UNCHANGED <<used, overtaken, restarts, sessions, nonRestorable, states>>
      /\ ~ Known(t) /\ ~ Quiet(t)
  BY <1>1 DEF page, counters, Known, Quiet
<1>4. TaskInv(t)
  BY DEF CallsInv
<1>5. \A a \in RepliesTo(t, Puts(t), "running") : a.op = "put" /\ a.answer = "running"
  BY ReplyToIs DEF RepliesTo, Puts
<1>6. StartInv(t)'
  BY <1>2, <1>3, <1>4, <1>5 DEF TaskInv, StartInv
<1>7. RememberedInv(t)'
  <2>1. SUFFICES ASSUME t \notin overtaken
                 PROVE  t \in sessions /\ t \notin nonRestorable /\ Settled(t)' # {}
    BY <1>3 DEF RememberedInv
  <2>2. PICK r \in Promised(t) : r.op = "put"
    BY <1>3, <1>4, <2>1 DEF TaskInv, StartInv
  <2>3. ReplyTo(r, "running") \in Settled(t)'
    BY <1>2, <2>2 DEF RepliesTo, Puts, Promised
  <2>. QED
    BY <1>4, <2>2, <2>3 DEF TaskInv, OpeningInv
<1>8. OutcomeInv(t)'
  BY <1>3, <1>4 DEF TaskInv, StartInv, OutcomeInv
<1>9. ASSUME NEW q \in replies', q \in replies, q.task # t
      PROVE  AnswerInv(q)'
  <2>1. q.task \in Tasks
    BY <1>9 DEF BridgeTypes, Reply
  <2>2. StatusKept(q.task) /\ HistoryKept(q.task)
    BY <1>1, <1>9, <2>1, CountersKept DEF StatusKept
  <2>. QED
    BY <1>1, <1>9, <2>2, AnswerKept DEF CallsInv
<1>10. ASSUME NEW q \in replies', q \in replies, q.task = t
       PROVE  AnswerInv(q)'
  <2>1. AnswerInv(q)
    BY <1>10 DEF CallsInv
  <2>2. ASSUME t \notin overtaken
        PROVE  q.op \notin {"put", "get", "cancel"}
    <3>1. PICK r \in Promised(t) : r.op = "put"
      BY <1>3, <1>4, <2>2 DEF TaskInv, StartInv
    <3>2. Settled(t) = {} /\ ~ Cancels(t)
      BY <1>4, <3>1 DEF TaskInv, OpeningInv, SessionInv
    <3>. QED
      BY <1>10, <3>2 DEF Settled, Cancels, Opening
  <2>. QED
    BY <1>1, <1>3, <1>10, <2>1, <2>2 DEF AnswerInv
<1>11. ASSUME NEW q \in Replied(Puts(t), "running")
       PROVE  AnswerInv(q)'
  <2>1. q.op = "put" /\ q.answer = "running"
    BY ReplyToIs DEF Replied, Puts
  <2>. QED
    BY <2>1 DEF AnswerInv
<1>. QED
  BY <1>2, <1>6, <1>7, <1>8, <1>9, <1>10, <1>11 DEF CallsInv, TaskInv

LEMMA TaskRefused ==
  ASSUME BridgeTypes, CallsInv, NEW t \in Tasks, BridgeRefuses(t)
  PROVE  CallsInv'
<1>. USE DEF Terminal, Bridge!Terminal
<1>1. /\ UNCHANGED page /\ UNCHANGED counters /\ UNCHANGED <<view, decided>>
      /\ beginning' = beginning \ {t} /\ ~ Known(t)
      /\ AnswerAll(Puts(t), "refused")
  BY DEF BridgeRefuses
<1>2. /\ \A u \in Tasks \ {t} : TaskInv(u)'
      /\ OpeningInv(t)' /\ SessionInv(t)' /\ Quiet(t)'
      /\ Promised(t)' = Promised(t) \ Puts(t)
      /\ Settled(t)' = Settled(t) \union RepliesTo(t, Puts(t), "refused")
      /\ replies' = replies \union Replied(Puts(t), "refused")
  BY <1>1, StartTold
<1>3. TaskInv(t)
  BY DEF CallsInv
<1>4. StartInv(t)' /\ RememberedInv(t)'
  BY <1>1, <1>2 DEF StartInv, RememberedInv, Known
<1>5. \A u : PageSame(u) /\ HistoryKept(u) /\ StatusKept(u)
  BY <1>1, PageKept, CountersKept DEF StatusKept
<1>6. OutcomeInv(t)'
  BY <1>3, <1>5, OutcomeKept DEF TaskInv
<1>7. ASSUME NEW q \in replies', q \in replies
      PROVE  AnswerInv(q)'
  BY <1>1, <1>5, <1>7, AnswerKept DEF CallsInv
<1>8. ASSUME NEW q \in Replied(Puts(t), "refused")
      PROVE  AnswerInv(q)'
  <2>1. q.op = "put" /\ q.task = t
    BY ReplyToIs DEF Replied, Puts
  <2>. QED
    BY <1>1, <2>1 DEF AnswerInv, Known
<1>. QED
  BY <1>2, <1>4, <1>6, <1>7, <1>8 DEF CallsInv, TaskInv

LEMMA BridgeRestarted ==
  ASSUME BridgeTypes, CallsInv, BridgeRestart
  PROVE  CallsInv'
<1>. USE DEF Terminal, Bridge!Terminal
<1>1. /\ UNCHANGED page /\ UNCHANGED <<decided, used, overtaken>>
      /\ AnswerAll(asked, "lost") /\ beginning' = {}
      /\ restarts' > 0 /\ \A u \in Tasks : view'[u].status = "absent"
  BY DEF BridgeRestart, BridgeTypes
<1>2. asked' = {} /\ replies' = replies \union Replied(asked, "lost")
  BY <1>1, RepliesAre
<1>3. ASSUME NEW u \in Tasks
      PROVE  TaskInv(u)'
  <2>1. /\ Promised(u)' = {} /\ Quiet(u)' /\ ~ Known(u)'
        /\ Promised(u)' = Promised(u) \ asked
    BY <1>1, <1>2 DEF Promised, Quiet, Puts, Known
  <2>2. Settled(u)' = Settled(u) \union RepliesTo(u, asked, "lost")
    BY <1>2, ReplyToIs DEF Settled, Promised, RepliesTo, Replied
  <2>3. Cancels(u)' => Cancels(u)
    BY <1>2, ReplyToIs DEF Cancels, Replied
  <2>4. TaskInv(u) /\ PageSame(u) /\ HistoryKept(u)
    BY <1>1, PageKept DEF CallsInv, HistoryKept
  <2>5. OpeningInv(u)' /\ SessionInv(u)'
    BY <2>1, <2>2, <2>3, <2>4, PromiseAnswered
  <2>6. StartInv(u)' /\ RememberedInv(u)' /\ OutcomeInv(u)'
    BY <1>1, <2>1 DEF StartInv, RememberedInv, OutcomeInv
  <2>. QED
    BY <2>5, <2>6 DEF TaskInv
<1>4. ASSUME NEW q \in replies', q \in replies
      PROVE  AnswerInv(q)'
  <2>1. AnswerInv(q) /\ q.task \in Tasks
    BY <1>4 DEF CallsInv, BridgeTypes, Reply
  <2>. QED
    BY <1>1, <2>1 DEF AnswerInv
<1>5. ASSUME NEW q \in Replied(asked, "lost")
      PROVE  AnswerInv(q)'
  <2>1. q.answer = "lost" /\ q.task \in Tasks
    BY ReplyToIs DEF Replied, BridgeTypes, Request
  <2>. QED
    BY <1>1, <2>1 DEF AnswerInv
<1>. QED
  BY <1>2, <1>3, <1>4, <1>5 DEF CallsInv

-----------------------------------------------------------------------------
(* The page's steps keep what is known of each task.                       *)

LEMMA OthersKept ==
  ASSUME CallsInv, UNCHANGED bridge, NEW ts,
         \A u : u \notin ts => CallsSame(u) /\ PageSame(u),
         \A u : HistoryKept(u)
  PROVE  \A u \in Tasks \ ts : TaskInv(u)'
<1>. SUFFICES ASSUME NEW u \in Tasks \ ts
              PROVE  TaskInv(u)'
  OBVIOUS
<1>1. TaskInv(u) /\ CallsSame(u) /\ PageSame(u) /\ StatusKept(u) /\ HistoryKept(u)
  BY DEF CallsInv, StatusKept, bridge
<1>2. Quiet(u)' <=> Quiet(u)
  BY <1>1 DEF Quiet, CallsSame, bridge
<1>. QED
  BY <1>1, <1>2, TaskKept

LEMMA AnswersKept ==
  ASSUME CallsInv, UNCHANGED bridge, \A u : HistoryKept(u), replies' \subseteq replies
  PROVE  \A r \in replies' : AnswerInv(r)'
<1>. SUFFICES ASSUME NEW r \in replies'
              PROVE  AnswerInv(r)'
  OBVIOUS
<1>1. AnswerInv(r) /\ StatusKept(r.task) /\ HistoryKept(r.task) /\ decided \subseteq decided'
  BY DEF CallsInv, StatusKept, bridge
<1>. QED
  BY <1>1, AnswerKept

\* A page that changes one state and one stream, of a session or of none.
LEMMA LooksElsewhere ==
  ASSUME PageTypes, NEW t, NEW s, states' = Updated(t, s), UNCHANGED sessions,
         nonRestorable \subseteq nonRestorable',
         nonRestorable' \subseteq nonRestorable \union {t},
         \/ UNCHANGED streams
         \/ streams' = Without(streams, {t})
         \/ streams' = Connected(t)
         \/ streams' = [streams EXCEPT ![t] = @ + 1]
  PROVE  /\ \A u : u \notin {t} => PageSame(u)
         /\ t \in sessions => states'[t] = s
<1>1. /\ t \in sessions => states'[t] = s
      /\ \A u \in sessions : u # t => states'[u] = states[u]
  BY UpdatedIs DEF PageTypes
<1>2. \A u \in DOMAIN streams' : u # t => u \in DOMAIN streams /\ streams'[u] = streams[u]
  <2>1. CASE streams' = Without(streams, {t})
    <3>1. /\ DOMAIN streams' = DOMAIN streams \ {t}
          /\ \A u \in DOMAIN streams \ {t} : streams'[u] = streams[u]
      BY <2>1, WithoutIs
    <3>. QED
      BY <3>1
  <2>2. CASE streams' = Connected(t)
    BY <2>2 DEF Connected, With
  <2>3. CASE streams' = [streams EXCEPT ![t] = @ + 1]
    BY <2>3
  <2>. QED
    BY <2>1, <2>2, <2>3
<1>. QED
  BY <1>1, <1>2 DEF PageSame, LooksSame

\* No promise of t is left: what its session, if any, has to be then.
Rests(t) ==
  /\ t \in sessions => t \in used
  /\ t \in DOMAIN streams =>
       t \in sessions /\ states[t].task = "running" /\ states[t].shown = streams[t]
  /\ Cancels(t) => t \in used /\ (t \in sessions => states[t].task # "none")
  /\ (Known(t) \/ ~ Quiet(t)) /\ t \in sessions =>
       states[t].task # "none" \/ ~ states[t].unavailable
  /\ t \in sessions /\ states[t].task # "none" => Quiet(t)
  /\ t \notin overtaken /\ view[t].status = "running" =>
       /\ t \in sessions /\ t \notin nonRestorable
       /\ states[t].task = "running" /\ ~ states[t].unavailable
  /\ OutcomeInv(t)

LEMMA IdleTask ==
  ASSUME NEW t, TaskInv(t), Promised(t) = {},
         Promised(t)' = {}, Settled(t)' = {}, Quiet(t)' <=> Quiet(t),
         UNCHANGED bridge, HistoryKept(t), Rests(t)'
  PROVE  TaskInv(t)'
<1>1. OpeningInv(t)'
  BY DEF OpeningInv
<1>2. SessionInv(t)'
  BY DEF SessionInv, Rests
<1>3. Known(t)' <=> Known(t)
  BY DEF Known, bridge
<1>4. StartInv(t)'
  <2>1. (Known(t)' => Quiet(t)') /\ ((Known(t) \/ ~ Quiet(t))' => t \in used')
    BY <1>3 DEF TaskInv, StartInv, HistoryKept
  <2>2. t \notin overtaken' => Quiet(t)'
    BY DEF TaskInv, StartInv, HistoryKept
  <2>. QED
    BY <2>1, <2>2 DEF StartInv, Rests
<1>5. RememberedInv(t)' /\ OutcomeInv(t)'
  BY DEF RememberedInv, Rests
<1>. QED
  BY <1>1, <1>2, <1>4, <1>5 DEF TaskInv

\* What an answer or an event makes of the session it is about.
LEMMA AnswerTaken ==
  ASSUME BridgeTypes, PageTypes, CallsInv, UNCHANGED bridge, UNCHANGED counters,
         UNCHANGED sessions,
         nonRestorable \subseteq nonRestorable',
         NEW t \in Tasks, nonRestorable' \subseteq nonRestorable \union {t},
         NEW s, states' = Updated(t, s),
         \/ UNCHANGED streams
         \/ streams' = Without(streams, {t})
         \/ streams' = Connected(t)
         \/ streams' = [streams EXCEPT ![t] = @ + 1],
         \A u : u # t => CallsSame(u), replies' \subseteq replies,
         TaskInv(t)'
  PROVE  CallsInv'
<1>1. \A u : u \notin {t} => PageSame(u)
  BY LooksElsewhere
<1>2. \A u : HistoryKept(u)
  BY CountersKept
<1>3. \A u : u \notin {t} => CallsSame(u) /\ PageSame(u)
  BY <1>1
<1>4. \A u \in Tasks \ {t} : TaskInv(u)'
  BY <1>2, <1>3, OthersKept
<1>5. \A r \in replies' : AnswerInv(r)'
  BY <1>2, AnswersKept
<1>. QED
  BY <1>4, <1>5 DEF CallsInv

\* A promise of t that is answered is the only one there is.
LEMMA OnlyPromise ==
  ASSUME BridgeTypes, CallsInv, NEW r \in replies, r.op \in Opening
  PROVE  LET t == r.task
         IN  /\ t \in Tasks /\ TaskInv(t) /\ AnswerInv(r)
             /\ Promised(t) = {} /\ Settled(t) = {r}
             /\ t \in sessions /\ t \notin nonRestorable /\ t \notin DOMAIN streams
             /\ states[t].task = "none" /\ states[t].shown = 0
             /\ states[t].permission = NoPermission /\ ~ states[t].unavailable
             /\ ~ Cancels(t) /\ t \in used
             /\ t \notin overtaken => Quiet(t)
             /\ r.answer \in {"running"} \union Terminal => Quiet(t)
<1>. DEFINE t == r.task
<1>1. t \in Tasks /\ AnswerInv(r) /\ r \in Settled(t)
  BY DEF BridgeTypes, Reply, CallsInv, Settled
<1>2. TaskInv(t)
  BY <1>1 DEF CallsInv
<1>3. /\ Promised(t) = {} /\ Settled(t) = {r}
      /\ t \in sessions /\ t \notin nonRestorable
      /\ states[t].task = "none" /\ states[t].shown = 0
      /\ states[t].permission = NoPermission /\ ~ states[t].unavailable
  BY <1>1, <1>2 DEF TaskInv, OpeningInv
<1>4. t \notin DOMAIN streams /\ ~ Cancels(t) /\ t \in used
  BY <1>2, <1>3 DEF TaskInv, SessionInv
<1>5. /\ t \notin overtaken => Quiet(t)
      /\ r.answer \in {"running"} \union Terminal => Quiet(t)
  BY <1>1, <1>2, <1>3 DEF TaskInv, StartInv
<1>. QED
  BY <1>1, <1>2, <1>3, <1>4, <1>5

LEMMA TakenIs ==
  ASSUME NEW r, Take(r), UNCHANGED asked, UNCHANGED bridge
  PROVE  LET t == r.task
         IN  /\ \A u : u # t => CallsSame(u)
             /\ Promised(t)' = Promised(t) /\ Settled(t)' = Settled(t) \ {r}
             /\ Puts(t)' = Puts(t) /\ (Quiet(t)' <=> Quiet(t))
             /\ Cancels(t)' => Cancels(t)
             /\ replies' \subseteq replies
<1>. DEFINE t == r.task
<1>1. replies' = replies \ {r} /\ asked' = asked
  BY DEF Take
<1>2. \A u : /\ Promised(u)' = Promised(u) /\ Puts(u)' = Puts(u)
             /\ Cancels(u)' => Cancels(u)
             /\ Settled(u)' = Settled(u) \ {r}
  BY <1>1 DEF Promised, Puts, Cancels, Settled
<1>3. \A u : u # t => Settled(u)' = Settled(u)
  BY <1>2 DEF Settled
<1>4. Quiet(t)' <=> Quiet(t)
  BY <1>2 DEF Quiet, bridge
<1>. QED
  BY <1>1, <1>2, <1>3, <1>4 DEF CallsSame

\* A start that failed: no task of the bridge is lost, unless a reload came.
LEMMA FailureTaken ==
  ASSUME BridgeTypes, PageTypes, CallsInv, UNCHANGED bridge, UNCHANGED counters,
         NEW r \in replies, r.op \in Opening, Take(r), UNCHANGED asked,
         NEW b \in BOOLEAN, StartFailed(r.task, b),
         b => ~ Known(r.task) /\ Quiet(r.task),
         ~ (r.task \notin overtaken /\ view[r.task].status = "running")
  PROVE  CallsInv'
<1>. DEFINE t == r.task
            s == [states[t] EXCEPT !.unavailable = b, !.error = TRUE,
                                   !.starting = FALSE]
<1>1. /\ t \in Tasks /\ TaskInv(t) /\ Promised(t) = {} /\ Settled(t) = {r}
      /\ t \in sessions /\ states[t].task = "none"
      /\ ~ Cancels(t) /\ t \in used
  BY OnlyPromise
<1>2. /\ \A u : u # t => CallsSame(u)
      /\ Promised(t)' = Promised(t) /\ Settled(t)' = Settled(t) \ {r}
      /\ Quiet(t)' <=> Quiet(t)
      /\ Cancels(t)' => Cancels(t)
      /\ replies' \subseteq replies
  BY TakenIs
<1>3. /\ states' = Updated(t, s) /\ streams' = Without(streams, {t})
      /\ nonRestorable \subseteq nonRestorable'
      /\ nonRestorable' \subseteq nonRestorable \union {t}
      /\ UNCHANGED sessions
  BY DEF StartFailed
<1>4. s.task = "none" /\ s.unavailable = b
  <2>1. states[t] \in TaskState
    BY <1>1 DEF PageTypes
  <2>. QED
    BY <1>1, <2>1 DEF TaskState
<1>. HIDE DEF s
<1>5. states'[t] = s
  BY <1>1, <1>3, LooksElsewhere
<1>6. t \notin DOMAIN streams'
  <2>1. DOMAIN streams' = DOMAIN streams \ {t}
    BY <1>3, WithoutIs
  <2>. QED
    BY <2>1
<1>7. HistoryKept(t) /\ t \in used' /\ t \in sessions'
      /\ view' = view /\ (Known(t)' <=> Known(t)) /\ overtaken' = overtaken
  BY <1>1, <1>3, CountersKept DEF counters, bridge, Known
<1>8. Rests(t)'
  BY <1>1, <1>2, <1>4, <1>5, <1>6, <1>7 DEF Rests, OutcomeInv, Terminal, Bridge!Terminal
<1>9. Promised(t)' = {} /\ Settled(t)' = {}
  BY <1>1, <1>2
<1>10. TaskInv(t)'
  BY <1>1, <1>2, <1>7, <1>8, <1>9, IdleTask
<1>. QED
  BY <1>1, <1>2, <1>3, <1>10, AnswerTaken

LEMMA HealthTaken ==
  ASSUME BridgeTypes, PageTypes, CallsInv, NEW r \in replies, HealthAnswered(r)
  PROVE  CallsInv'
<1>. DEFINE t == r.task
<1>1. UNCHANGED bridge /\ UNCHANGED counters /\ r.op = "health" /\ r.op \in Opening
      /\ Take(r)
  BY DEF HealthAnswered, Opening
<1>2. /\ t \in Tasks /\ TaskInv(t) /\ Promised(t) = {} /\ Settled(t) = {r}
      /\ t \in sessions /\ t \notin nonRestorable /\ t \notin DOMAIN streams
      /\ states[t].task = "none" /\ ~ states[t].unavailable
      /\ ~ Cancels(t) /\ t \in used
  BY <1>1, OnlyPromise
<1>3. ~ Known(t) /\ Quiet(t)
  BY <1>1, <1>2 DEF TaskInv, StartInv
<1>4. view[t].status # "running"
  BY <1>3 DEF Known
<1>5. CASE r.answer # "ok"
  <2>1. StartFailed(t, TRUE) /\ UNCHANGED asked
    BY <1>5 DEF HealthAnswered
  <2>. QED
    BY <1>1, <1>3, <1>4, <2>1, FailureTaken
<1>6. CASE r.answer = "ok"
  <2>. DEFINE put == Ask("put", t, NoPermission)
  <2>1. /\ asked' = asked \union {put} /\ replies' = replies \ {r}
        /\ UNCHANGED page
    BY <1>1, <1>6 DEF HealthAnswered, Take
  <2>2. /\ \A u : u # t => CallsSame(u)
        /\ Promised(t)' = Promised(t) \union {put}
        /\ Settled(t)' = Settled(t) \ {r}
        /\ Cancels(t)' => Cancels(t)
    <3>1. /\ \A u : u # t => Promised(u)' = Promised(u) /\ Puts(u)' = Puts(u)
          /\ Promised(t)' = Promised(t) \union {put}
          /\ \A u : Cancels(u)' => Cancels(u)
      BY <2>1, AskIs DEF Opening
    <3>2. \A u : Settled(u)' = Settled(u) \ {r} /\ (u # t => r \notin Settled(u))
      BY <2>1 DEF Settled
    <3>. QED
      BY <3>1, <3>2 DEF CallsSame
  <2>3. /\ Promised(t)' = {put} /\ Settled(t)' = {} /\ put.op = "put"
    BY <1>2, <2>2 DEF Ask
  <2>4. \A u : HistoryKept(u) /\ PageSame(u)
    BY <1>1, <2>1, CountersKept, PageKept
  <2>. HIDE DEF put
  <2>5. /\ t \in sessions' /\ t \notin nonRestorable' /\ t \notin DOMAIN streams'
        /\ states' = states /\ t \in used' /\ ~ Known(t)' /\ view'[t].status # "running"
    BY <1>1, <1>2, <1>3, <1>4, <2>1 DEF page, counters, bridge, Known
  <2>6. OpeningInv(t)'
    <3>1. /\ states'[t].shown = 0 /\ states'[t].permission = NoPermission
          /\ (states'[t].starting \/ states'[t].restoring)
      BY <1>2, <2>1 DEF TaskInv, OpeningInv, page
    <3>. QED
      BY <1>2, <2>3, <2>5, <3>1 DEF OpeningInv
  <2>7. SessionInv(t)'
    BY <1>2, <2>2, <2>5 DEF SessionInv
  <2>8. StartInv(t)'
    BY <1>2, <2>3, <2>5 DEF StartInv
  <2>9. RememberedInv(t)' /\ OutcomeInv(t)'
    BY <1>2, <2>5 DEF RememberedInv, OutcomeInv, Terminal, Bridge!Terminal
  <2>10. \A u : u \notin {t} => CallsSame(u) /\ PageSame(u)
    BY <2>2, <2>4
  <2>11. \A u \in Tasks \ {t} : TaskInv(u)'
    BY <1>1, <2>4, <2>10, OthersKept
  <2>12. \A q \in replies' : AnswerInv(q)'
    BY <1>1, <2>1, <2>4, AnswersKept
  <2>. QED
    BY <2>6, <2>7, <2>8, <2>9, <2>11, <2>12 DEF CallsInv, TaskInv
<1>. QED
  BY <1>5, <1>6

\* A stream that is opened shows nothing yet, one that is closed nothing more.
LEMMA StreamIs ==
  ASSUME NEW t
  PROVE  /\ streams' = Connected(t) => t \in DOMAIN streams' /\ streams'[t] = 0
         /\ streams' = Without(streams, {t}) => t \notin DOMAIN streams'
<1>1. DOMAIN Without(streams, {t}) = DOMAIN streams \ {t}
  BY WithoutIs
<1>2. DOMAIN Connected(t) = DOMAIN streams \union {t} /\ Connected(t)[t] = 0
  BY DEF Connected, With
<1>. QED
  BY <1>1, <1>2

\* A task that the page takes up as running, by its start or by a restore.
LEMMA RunningTaken ==
  ASSUME BridgeTypes, PageTypes, CallsInv, UNCHANGED bridge, UNCHANGED counters,
         NEW r \in replies, r.op \in Opening, Take(r), UNCHANGED asked,
         r.answer = "running", NEW s, states' = Updated(r.task, s),
         s.task = "running", s.shown = 0, ~ s.unavailable,
         streams' = Connected(r.task), UNCHANGED <<sessions, nonRestorable>>
  PROVE  CallsInv'
<1>. DEFINE t == r.task
<1>1. /\ t \in Tasks /\ TaskInv(t) /\ Promised(t) = {} /\ Settled(t) = {r}
      /\ t \in sessions /\ t \notin nonRestorable /\ ~ Cancels(t) /\ t \in used
      /\ Quiet(t)
  BY OnlyPromise
<1>2. /\ \A u : u # t => CallsSame(u)
      /\ Promised(t)' = {} /\ Settled(t)' = {}
      /\ Quiet(t)' <=> Quiet(t)
      /\ Cancels(t)' => Cancels(t)
      /\ replies' \subseteq replies
  BY <1>1, TakenIs
<1>3. states'[t] = s
  BY <1>1, LooksElsewhere
<1>4. HistoryKept(t) /\ t \in used'
  BY <1>1, CountersKept DEF counters
<1>5. streams'[t] = 0
  BY StreamIs
<1>6. Rests(t)'
  BY <1>1, <1>2, <1>3, <1>4, <1>5 DEF Rests, OutcomeInv, Terminal, Bridge!Terminal
<1>7. TaskInv(t)'
  BY <1>1, <1>2, <1>4, <1>6, IdleTask
<1>. QED
  BY <1>1, <1>2, <1>7, AnswerTaken

LEMMA StartTaken ==
  ASSUME BridgeTypes, PageTypes, CallsInv, NEW r \in replies, PutAnswered(r)
  PROVE  CallsInv'
<1>. DEFINE t == r.task
<1>1. UNCHANGED bridge /\ UNCHANGED counters /\ r.op = "put" /\ r.op \in Opening
      /\ Take(r) /\ UNCHANGED asked
  BY DEF PutAnswered, Opening
<1>2. /\ t \in Tasks /\ TaskInv(t) /\ Settled(t) = {r} /\ t \in sessions
      /\ states[t].task = "none" /\ states[t].shown = 0 /\ AnswerInv(r)
  BY <1>1, OnlyPromise
<1>3. CASE r.answer = "running"
  <2>. DEFINE s == [states[t] EXCEPT !.task = "running", !.unavailable = FALSE,
                                     !.error = FALSE, !.starting = FALSE]
  <2>1. s.task = "running" /\ s.shown = 0 /\ ~ s.unavailable
    <3>1. states[t] \in TaskState
      BY <1>2 DEF PageTypes
    <3>. QED
      BY <1>2, <3>1 DEF TaskState
  <2>2. states' = Updated(t, s) /\ streams' = Connected(t)
        /\ UNCHANGED <<sessions, nonRestorable>>
    BY <1>3 DEF PutAnswered
  <2>. HIDE DEF s
  <2>. QED
    BY <1>1, <1>3, <2>1, <2>2, RunningTaken
<1>4. CASE r.answer # "running"
  <2>. DEFINE b == r.answer = "refused"
  <2>1. StartFailed(t, b) /\ b \in BOOLEAN
    BY <1>4 DEF PutAnswered
  <2>2. b => ~ Known(t) /\ Quiet(t)
    BY <1>1, <1>2 DEF TaskInv, StartInv
  <2>3. ~ (t \notin overtaken /\ view[t].status = "running")
    BY <1>1, <1>2, <1>4 DEF AnswerInv
  <2>. HIDE DEF b
  <2>. QED
    BY <1>1, <2>1, <2>2, <2>3, FailureTaken
<1>. QED
  BY <1>3, <1>4

\* The sessions that are dismissed, and the others.
LEMMA DismissIs ==
  ASSUME PageTypes, NEW ts, DismissAll(ts)
  PROVE  /\ \A u : u \notin ts => PageSame(u)
         /\ \A u \in ts : u \notin sessions' /\ u \notin DOMAIN streams'
<1>1. DOMAIN states' = sessions \ ts /\ DOMAIN streams' = DOMAIN streams \ ts
  BY WithoutIs DEF DismissAll, PageTypes
<1>2. \A u \in sessions \ ts : states'[u] = states[u]
  BY WithoutIs DEF DismissAll, PageTypes
<1>3. \A u \in DOMAIN streams \ ts : streams'[u] = streams[u]
  BY WithoutIs DEF DismissAll, PageTypes
<1>. QED
  BY <1>1, <1>2, <1>3 DEF DismissAll, PageSame, LooksSame

\* A session that may go: no promise is about it, and its task does not run.
LEMMA GoneTask ==
  ASSUME NEW t, TaskInv(t), Promised(t) = {}, Promised(t)' = {}, Settled(t)' = {},
         Quiet(t)' <=> Quiet(t), UNCHANGED bridge, HistoryKept(t),
         Cancels(t)' => Cancels(t), t \notin sessions', t \notin DOMAIN streams',
         ~ (t \notin overtaken /\ view[t].status = "running")
  PROVE  TaskInv(t)'
<1>1. Cancels(t)' => t \in used'
  BY DEF TaskInv, SessionInv, HistoryKept
<1>2. ~ (t \notin overtaken' /\ view'[t].status = "running")
  BY DEF HistoryKept, bridge
<1>3. Rests(t)'
  BY <1>1, <1>2 DEF Rests, OutcomeInv
<1>. QED
  BY <1>3, IdleTask

LEMMA RestoreTaken ==
  ASSUME BridgeTypes, PageTypes, CallsInv, NEW r \in replies, RestoreAnswered(r)
  PROVE  CallsInv'
<1>. DEFINE t == r.task
            s == [states[t] EXCEPT !.restoring = FALSE]
<1>1. UNCHANGED bridge /\ UNCHANGED counters /\ r.op = "get" /\ r.op \in Opening
      /\ Take(r) /\ UNCHANGED asked
  BY DEF RestoreAnswered, Opening
<1>2. /\ t \in Tasks /\ TaskInv(t) /\ Promised(t) = {} /\ Settled(t) = {r}
      /\ t \in sessions /\ t \notin nonRestorable /\ t \notin DOMAIN streams
      /\ states[t].task = "none" /\ states[t].shown = 0 /\ ~ states[t].unavailable
      /\ ~ Cancels(t) /\ t \in used /\ AnswerInv(r)
      /\ r.answer \in {"running"} \union Terminal => Quiet(t)
  BY <1>1, OnlyPromise
<1>3. /\ s \in TaskState /\ s.task = "none" /\ s.shown = 0 /\ ~ s.unavailable
  <2>1. states[t] \in TaskState
    BY <1>2 DEF PageTypes
  <2>. QED
    BY <1>2, <2>1, RestoredState
<1>4. /\ \A u : u # t => CallsSame(u)
      /\ Promised(t)' = {} /\ Settled(t)' = {}
      /\ Quiet(t)' <=> Quiet(t)
      /\ Cancels(t)' => Cancels(t)
      /\ replies' \subseteq replies
  BY <1>1, <1>2, TakenIs
<1>5. HistoryKept(t) /\ t \in used' /\ view' = view /\ restarts' = restarts
      /\ overtaken' = overtaken /\ (Known(t)' <=> Known(t))
  BY <1>1, <1>2, CountersKept DEF counters, bridge, Known
<1>6. \/ /\ r.answer = "running"
         /\ states' = Updated(t, [s EXCEPT !.task = "running"])
         /\ streams' = Connected(t) /\ UNCHANGED <<sessions, nonRestorable>>
      \/ /\ r.answer \in Terminal /\ states' = Updated(t, Finished(s, r.answer))
         /\ UNCHANGED <<sessions, nonRestorable, streams>>
      \/ r.answer # "running" /\ DismissAll({t})
      \/ /\ r.answer = "lost" /\ states' = Updated(t, [s EXCEPT !.error = TRUE])
         /\ UNCHANGED <<sessions, nonRestorable, streams>>
  <2>1. r.answer \in {"running", "missing", "lost"} \union Terminal
    BY <1>1, <1>2 DEF AnswerInv
  <2>. QED
    BY <2>1 DEF RestoreAnswered, Terminal, Bridge!Terminal
<1>7. r.answer # "running" => ~ (t \notin overtaken /\ view[t].status = "running")
  BY <1>1, <1>2 DEF AnswerInv
<1>. HIDE DEF s
<1>8. CASE r.answer = "running" /\ states' = Updated(t, [s EXCEPT !.task = "running"])
           /\ streams' = Connected(t) /\ UNCHANGED <<sessions, nonRestorable>>
  <2>. DEFINE q == [s EXCEPT !.task = "running"]
  <2>1. q.task = "running" /\ q.shown = 0 /\ ~ q.unavailable
    BY <1>3, RunningState
  <2>2. states' = Updated(t, q) /\ streams' = Connected(t) /\ r.answer = "running"
        /\ UNCHANGED <<sessions, nonRestorable>>
    BY <1>8
  <2>. HIDE DEF q
  <2>. QED
    BY <1>1, <2>1, <2>2, RunningTaken
<1>9. ASSUME NEW q, q.task = "none" \/ (q.task = r.answer /\ r.answer \in Terminal),
             ~ q.unavailable, r.answer # "running",
             states' = Updated(t, q), UNCHANGED <<sessions, nonRestorable, streams>>
      PROVE  CallsInv'
  <2>1. states'[t] = q
    BY <1>2, <1>9, LooksElsewhere
  <2>2. q.task \in Terminal => view[t].status = q.task \/ restarts > 0
    BY <1>1, <1>2, <1>9 DEF AnswerInv, Terminal, Bridge!Terminal
  <2>3. Rests(t)'
    BY <1>2, <1>4, <1>5, <1>7, <1>9, <2>1, <2>2 DEF Rests, OutcomeInv
  <2>4. TaskInv(t)'
    BY <1>1, <1>2, <1>4, <1>5, <2>3, IdleTask
  <2>. QED
    BY <1>1, <1>2, <1>4, <1>9, <2>4, AnswerTaken
<1>10. CASE r.answer \in Terminal /\ states' = Updated(t, Finished(s, r.answer))
            /\ UNCHANGED <<sessions, nonRestorable, streams>>
  <2>1. Finished(s, r.answer).task = r.answer /\ ~ Finished(s, r.answer).unavailable
    BY <1>3, <1>10, FinishedState
  <2>2. r.answer # "running"
    BY <1>10 DEF Terminal, Bridge!Terminal
  <2>. QED
    BY <1>9, <1>10, <2>1, <2>2
<1>11. CASE r.answer = "lost" /\ states' = Updated(t, [s EXCEPT !.error = TRUE])
            /\ UNCHANGED <<sessions, nonRestorable, streams>>
  <2>. DEFINE q == [s EXCEPT !.error = TRUE]
  <2>1. q.task = "none" /\ ~ q.unavailable
    BY <1>3, ErrorState
  <2>2. states' = Updated(t, q) /\ UNCHANGED <<sessions, nonRestorable, streams>>
        /\ r.answer # "running"
    BY <1>11
  <2>. HIDE DEF q
  <2>. QED
    BY <1>9, <2>1, <2>2
<1>12. CASE r.answer # "running" /\ DismissAll({t})
  <2>1. /\ \A u : u \notin {t} => CallsSame(u) /\ PageSame(u)
        /\ t \notin sessions' /\ t \notin DOMAIN streams'
    <3>1. /\ \A u : u \notin {t} => PageSame(u)
          /\ \A u \in {t} : u \notin sessions' /\ u \notin DOMAIN streams'
      BY <1>12, DismissIs
    <3>. QED
      BY <1>4, <3>1
  <2>2. TaskInv(t)'
    BY <1>1, <1>2, <1>4, <1>5, <1>7, <1>12, <2>1, GoneTask
  <2>3. \A u : HistoryKept(u)
    BY <1>1, CountersKept
  <2>4. \A u \in Tasks \ {t} : TaskInv(u)'
    BY <1>1, <2>1, <2>3, OthersKept
  <2>5. \A q \in replies' : AnswerInv(q)'
    BY <1>1, <1>4, <2>3, AnswersKept
  <2>. QED
    BY <2>2, <2>4, <2>5 DEF CallsInv
<1>. QED
  BY <1>6, <1>8, <1>10, <1>11, <1>12

\* A session that is shown running, or has been: nothing is promised about it.
LEMMA NotPromised ==
  ASSUME NEW t, TaskInv(t), t \notin sessions \/ states[t].task # "none"
  PROVE  Promised(t) = {} /\ Settled(t) = {}
BY DEF TaskInv, OpeningInv

\* The answer to a cancellation.
LEMMA CancelTaken ==
  ASSUME BridgeTypes, PageTypes, CallsInv, NEW r \in replies, CancelAnswered(r)
  PROVE  CallsInv'
<1>. DEFINE t == r.task
<1>1. UNCHANGED bridge /\ UNCHANGED counters /\ r.op = "cancel" /\ Take(r)
      /\ UNCHANGED asked /\ Cancels(t)
  BY DEF CancelAnswered, Cancels
<1>2. t \in Tasks /\ TaskInv(t) /\ AnswerInv(r)
  BY DEF CallsInv, BridgeTypes, Reply
<1>3. t \in used /\ (t \in sessions => states[t].task # "none")
  BY <1>1, <1>2 DEF TaskInv, SessionInv
<1>4. Promised(t) = {} /\ Settled(t) = {}
  BY <1>2, <1>3, NotPromised
<1>5. /\ \A u : u # t => CallsSame(u)
      /\ Promised(t)' = {} /\ Settled(t)' = {}
      /\ Quiet(t)' <=> Quiet(t)
      /\ Cancels(t)' => Cancels(t)
      /\ replies' \subseteq replies
  BY <1>1, <1>4, TakenIs
<1>6. HistoryKept(t) /\ t \in used' /\ view' = view /\ restarts' = restarts
      /\ overtaken' = overtaken /\ (Known(t)' <=> Known(t))
  BY <1>1, <1>3, CountersKept DEF counters, bridge, Known
<1>7. /\ t \notin overtaken /\ view[t].status = "running" =>
           r.answer \notin {"missing"} \union Terminal
      /\ r.answer \in Terminal => view[t].status = r.answer \/ restarts > 0
  BY <1>1, <1>2 DEF AnswerInv
<1>8. t \in sessions => states[t] \in TaskState
  BY DEF PageTypes
<1>9. CASE r.answer \in Terminal /\ t \in sessions
  <2>. DEFINE q == Finished(states[t], r.answer)
  <2>1. states' = Updated(t, q) /\ streams' = Without(streams, {t})
        /\ nonRestorable \subseteq nonRestorable'
        /\ nonRestorable' \subseteq nonRestorable \union {t} /\ UNCHANGED sessions
    BY <1>9 DEF CancelAnswered, FinishTask, PageTypes
  <2>2. q.task = r.answer
    BY <1>8, <1>9, FinishedState
  <2>. HIDE DEF q
  <2>3. states'[t] = q /\ t \notin DOMAIN streams'
    BY <1>9, <2>1, LooksElsewhere, StreamIs
  <2>4. Quiet(t)
    BY <1>2, <1>3, <1>9 DEF TaskInv, StartInv
  <2>5. q.task # "none"
    BY <1>9, <2>2 DEF Terminal, Bridge!Terminal
  <2>6. Rests(t)'
    BY <1>5, <1>6, <1>7, <1>9, <2>1, <2>2, <2>3, <2>4, <2>5 DEF Rests, OutcomeInv
  <2>7. TaskInv(t)'
    BY <1>1, <1>2, <1>4, <1>5, <1>6, <2>6, IdleTask
  <2>. QED
    BY <1>1, <1>2, <1>5, <2>1, <2>7, AnswerTaken
<1>10. CASE r.answer \notin Terminal /\ t \in sessions
  <2>. DEFINE b == r.answer = "missing"
              q == [states[t] EXCEPT !.unavailable = b, !.error = TRUE,
                                     !.cancelling = FALSE]
  <2>0. b \in BOOLEAN
    OBVIOUS
  <2>1. states' = Updated(t, q) /\ UNCHANGED <<sessions, nonRestorable, streams>>
    BY <1>10 DEF CancelAnswered, PageTypes, Updated
  <2>. HIDE DEF b
  <2>2. q.task = states[t].task /\ q.shown = states[t].shown /\ q.unavailable = b
    BY <1>8, <1>10, <2>0 DEF TaskState
  <2>. HIDE DEF q
  <2>3. states'[t] = q
    BY <1>10, <2>1, LooksElsewhere
  <2>4. t \notin overtaken /\ view[t].status = "running" =>
          /\ t \notin nonRestorable /\ states[t].task = "running" /\ ~ b
    BY <1>2, <1>4, <1>7 DEF TaskInv, RememberedInv, b
  <2>5. Rests(t)'
    BY <1>2, <1>3, <1>5, <1>6, <1>10, <2>1, <2>2, <2>3, <2>4
       DEF Rests, OutcomeInv, TaskInv, SessionInv, StartInv
  <2>6. TaskInv(t)'
    BY <1>1, <1>2, <1>4, <1>5, <1>6, <2>5, IdleTask
  <2>. QED
    BY <1>1, <1>2, <1>5, <2>1, <2>6, AnswerTaken
<1>11. CASE t \notin sessions
  <2>1. /\ UNCHANGED <<sessions, states, streams>>
        /\ nonRestorable \subseteq nonRestorable'
        /\ nonRestorable' \subseteq nonRestorable \union {t}
    BY <1>11 DEF CancelAnswered, PageTypes
  <2>2. ~ (t \notin overtaken /\ view[t].status = "running")
    BY <1>2, <1>11 DEF TaskInv, RememberedInv
  <2>3. t \notin sessions' /\ t \notin DOMAIN streams'
    BY <1>2, <1>11, <2>1 DEF TaskInv, SessionInv
  <2>4. TaskInv(t)'
    BY <1>1, <1>2, <1>4, <1>5, <1>6, <2>2, <2>3, GoneTask
  <2>5. states' = Updated(t, NewState)
    BY <1>11, <2>1 DEF Updated, PageTypes
  <2>. QED
    BY <1>1, <1>2, <1>5, <2>1, <2>4, <2>5, AnswerTaken
<1>. QED
  BY <1>9, <1>10, <1>11

\* A session that is shown running goes on so: what is asked and shown of it
\* does not say that it has ended.
LEMMA LooksKept ==
  ASSUME BridgeTypes, PageTypes, CallsInv, UNCHANGED bridge, UNCHANGED counters,
         NEW t \in Tasks, NEW q, states' = Updated(t, q),
         UNCHANGED <<sessions, nonRestorable>>,
         UNCHANGED streams \/ streams' = Without(streams, {t}),
         t \in sessions => LooksSame(states[t], q),
         \A u : u # t => CallsSame(u), CallsSame(t), replies' \subseteq replies
  PROVE  CallsInv'
<1>1. TaskInv(t)
  BY DEF CallsInv
<1>2. t \in sessions => states'[t] = q
  BY LooksElsewhere
<1>3. t \in DOMAIN streams' => t \in DOMAIN streams /\ streams'[t] = streams[t]
  BY StreamIs
<1>4. PageSame(t)
  BY <1>2, <1>3 DEF PageSame
<1>5. StatusKept(t) /\ HistoryKept(t)
  BY CountersKept DEF StatusKept, bridge
<1>6. Quiet(t)' <=> Quiet(t)
  BY DEF Quiet, CallsSame, bridge
<1>7. TaskInv(t)'
  BY <1>1, <1>4, <1>5, <1>6, TaskKept
<1>. QED
  BY <1>7, AnswerTaken

LEMMA StreamClosed ==
  ASSUME BridgeTypes, PageTypes, CallsInv, NEW t \in Tasks, StreamLost(t)
  PROVE  CallsInv'
<1>. DEFINE q == [states[t] EXCEPT !.error = TRUE]
<1>1. /\ UNCHANGED bridge /\ UNCHANGED counters /\ UNCHANGED <<asked, replies>>
      /\ states' = Updated(t, q) /\ streams' = Without(streams, {t})
      /\ UNCHANGED <<sessions, nonRestorable>>
  BY DEF StreamLost
<1>2. t \in sessions => LooksSame(states[t], q)
  BY ErrorState DEF PageTypes, LooksSame
<1>. HIDE DEF q
<1>3. \A u : CallsSame(u)
  BY <1>1 DEF CallsSame, Promised, Settled, Puts, Cancels
<1>. QED
  BY <1>1, <1>2, <1>3, LooksKept

LEMMA DecisionTaken ==
  ASSUME BridgeTypes, PageTypes, CallsInv, NEW r \in replies, PermissionAnswered(r)
  PROVE  CallsInv'
<1>. DEFINE t == r.task
            q == [states[t] EXCEPT !.error = TRUE, !.submitting = FALSE,
                                   !.always = FALSE]
<1>1. /\ UNCHANGED bridge /\ UNCHANGED counters /\ UNCHANGED asked /\ Take(r)
      /\ UNCHANGED <<sessions, nonRestorable, streams>> /\ t \in Tasks
      /\ states' = states \/ states' = Updated(t, q)
  BY DEF PermissionAnswered, Updated, BridgeTypes, Reply
<1>2. t \in sessions => LooksSame(states[t], q)
  BY UndecidedState DEF PageTypes, LooksSame
<1>. HIDE DEF q
<1>3. replies' \subseteq replies /\ \A u : u # t => CallsSame(u)
  BY <1>1, TakenIs
<1>4. CallsSame(t)
  <2>1. r \notin Settled(t)
    BY DEF Settled, Opening, PermissionAnswered
  <2>2. /\ Settled(t)' = Settled(t) /\ Promised(t)' = Promised(t)
        /\ Puts(t)' = Puts(t)
        /\ Cancels(t)' => Cancels(t)
    BY <1>1, <2>1, TakenIs
  <2>. QED
    BY <2>2 DEF CallsSame
<1>5. CASE states' = Updated(t, q)
  <2>1. /\ UNCHANGED bridge /\ UNCHANGED counters /\ t \in Tasks
        /\ UNCHANGED <<sessions, nonRestorable>> /\ UNCHANGED streams
    BY <1>1
  <2>. QED
    BY <1>2, <1>3, <1>4, <1>5, <2>1, LooksKept
<1>6. CASE states' = states
  <2>1. \A u : PageSame(u) /\ HistoryKept(u)
    BY <1>1, <1>6, PageKept, CountersKept DEF page
  <2>2. \A u : u \notin {} => CallsSame(u) /\ PageSame(u)
    BY <1>3, <1>4, <2>1
  <2>3. \A u \in Tasks \ {} : TaskInv(u)'
    BY <1>1, <2>1, <2>2, OthersKept
  <2>4. \A a \in replies' : AnswerInv(a)'
    BY <1>1, <1>3, <2>1, AnswersKept
  <2>. QED
    BY <2>3, <2>4 DEF CallsInv
<1>. QED
  BY <1>1, <1>5, <1>6

LEMMA DecisionAsked ==
  ASSUME BridgeTypes, PageTypes, CallsInv, NEW t \in Tasks, NEW always \in BOOLEAN,
         ResolvePermission(t, always)
  PROVE  CallsInv'
<1>. DEFINE b == states[t].always \/ always
            p == states[t].permission
            q == Submitted([states[t] EXCEPT !.always = b])
<1>1. /\ UNCHANGED bridge /\ UNCHANGED counters /\ UNCHANGED replies
      /\ UNCHANGED <<sessions, nonRestorable, streams>>
      /\ states' = Updated(t, q) /\ asked' = asked \union {Ask("permission", t, p)}
  BY DEF ResolvePermission, Updated
<1>2. t \in sessions => LooksSame(states[t], q)
  <2>1. b \in BOOLEAN
    OBVIOUS
  <2>. HIDE DEF b
  <2>. QED
    BY <2>1, DecidedState DEF PageTypes, LooksSame
<1>. HIDE DEF q
<1>3. \A u : CallsSame(u)
  <2>1. /\ \A u : u # t => Promised(u)' = Promised(u) /\ Puts(u)' = Puts(u)
        /\ Promised(t)' = Promised(t) /\ Puts(t)' = Puts(t)
        /\ \A u : Cancels(u)' => Cancels(u)
    BY <1>1, AskIs DEF Opening
  <2>. QED
    BY <1>1, <2>1 DEF CallsSame, Settled
<1>. QED
  BY <1>1, <1>2, <1>3, LooksKept

\* The session of a task that runs is not being opened, and its stream is one
\* of a session that is shown running.
LEMMA CancelAsked ==
  ASSUME BridgeTypes, PageTypes, CallsInv, NEW t \in Tasks, CancelTask(t)
  PROVE  CallsInv'
<1>. DEFINE q == [states[t] EXCEPT !.cancelling = TRUE, !.error = FALSE]
<1>1. /\ UNCHANGED bridge /\ UNCHANGED counters /\ UNCHANGED replies
      /\ UNCHANGED <<sessions, nonRestorable, streams>>
      /\ t \in sessions /\ states[t].task = "running"
      /\ states' = Updated(t, q)
      /\ asked' = asked \union {Ask("cancel", t, NoPermission)}
  BY DEF CancelTask, Updated, PageTypes
<1>2. LooksSame(states[t], q)
  BY <1>1, CancellingState DEF PageTypes, LooksSame
<1>. HIDE DEF q
<1>3. /\ \A u : Promised(u)' = Promised(u) /\ Puts(u)' = Puts(u)
      /\ \A u : u # t => CallsSame(u)
  <2>1. /\ \A u : u # t => Promised(u)' = Promised(u) /\ Puts(u)' = Puts(u)
        /\ Promised(t)' = Promised(t) /\ Puts(t)' = Puts(t)
        /\ \A u : u # t => (Cancels(u)' => Cancels(u))
    BY <1>1, AskIs DEF Opening
  <2>. QED
    BY <1>1, <2>1 DEF CallsSame, Settled
<1>4. TaskInv(t)
  BY DEF CallsInv
<1>5. Promised(t) = {} /\ Settled(t) = {} /\ Promised(t)' = {} /\ Settled(t)' = {}
  BY <1>1, <1>3, <1>4, NotPromised DEF Settled
<1>6. /\ HistoryKept(t) /\ view' = view /\ restarts' = restarts /\ used' = used
      /\ overtaken' = overtaken /\ (Known(t)' <=> Known(t))
      /\ (Quiet(t)' <=> Quiet(t))
  BY <1>1, <1>3, CountersKept DEF counters, bridge, Known, Quiet
<1>7. states'[t] = q
  BY <1>1, LooksElsewhere
<1>8. Rests(t)'
  BY <1>1, <1>2, <1>4, <1>5, <1>6, <1>7
     DEF Rests, OutcomeInv, TaskInv, SessionInv, StartInv, RememberedInv, LooksSame,
         Terminal, Bridge!Terminal
<1>9. TaskInv(t)'
  BY <1>1, <1>4, <1>5, <1>6, <1>8, IdleTask
<1>. QED
  BY <1>1, <1>3, <1>9, AnswerTaken

\* The event that ends a task tells how it ended; any other leaves it running.
LEMMA EventTaken ==
  ASSUME BridgeTypes, PageTypes, CallsInv, NEW t \in Tasks, LogInv(view[t]),
         StreamEvent(t)
  PROVE  CallsInv'
<1>. DEFINE event == view[t].events[streams[t] + 1]
<1>1. TaskInv(t)
  BY DEF CallsInv
<1>2. /\ UNCHANGED bridge /\ UNCHANGED counters /\ UNCHANGED replies
      /\ t \in sessions /\ t \in DOMAIN streams /\ states[t].task = "running"
      /\ states[t].shown = streams[t] /\ states[t] \in TaskState
  BY <1>1 DEF StreamEvent, TaskInv, SessionInv, PageTypes
<1>3. Promised(t) = {} /\ Settled(t) = {} /\ Quiet(t) /\ t \in used
  BY <1>1, <1>2, NotPromised DEF TaskInv, StartInv, SessionInv
<1>4. streams[t] \in Nat /\ streams[t] + 1 \in 1 .. Len(view[t].events)
      /\ event \in Bridge!Event
  <2>1. view[t].events \in Seq(Bridge!Event) /\ streams[t] \in Nat
    BY <1>2, ViewTypes DEF BridgeTypes, PageTypes
  <2>2. streams[t] + 1 \in 1 .. Len(view[t].events)
    BY <2>1 DEF StreamEvent
  <2>. QED
    BY <2>1, <2>2
<1>5. event.permission \in Permissions \union {NoPermission}
      /\ (event.type \in Terminal => view[t].status = event.type)
  BY <1>4 DEF Bridge!Event, LogInv, EndsInv
<1>6. HistoryKept(t) /\ view' = view /\ used' = used /\ overtaken' = overtaken
      /\ (Known(t)' <=> Known(t))
  BY <1>2, CountersKept DEF counters, bridge, Known
<1>7. CASE event.type \in Terminal
  <2>. DEFINE s == [states[t] EXCEPT !.shown = @ + 1]
              q == Finished(s, event.type)
  <2>1. s \in TaskState
    BY <1>2 DEF TaskState
  <2>. HIDE DEF s
  <2>2. q.task = event.type /\ q.task # "running" /\ q.task # "none"
    BY <1>7, <2>1, FinishedState DEF Terminal, Bridge!Terminal
  <2>3. /\ states' = Updated(t, q) /\ streams' = Without(streams, {t})
        /\ nonRestorable \subseteq nonRestorable'
        /\ nonRestorable' \subseteq nonRestorable \union {t}
        /\ UNCHANGED sessions /\ UNCHANGED asked
    BY <1>7 DEF StreamEvent, FinishTask, s
  <2>. HIDE DEF q, event
  <2>4. states'[t] = q /\ t \notin DOMAIN streams'
    BY <1>2, <2>3, LooksElsewhere, StreamIs
  <2>5. \A u : CallsSame(u)
    BY <1>2, <2>3 DEF CallsSame, Promised, Settled, Puts, Cancels
  <2>6. Promised(t)' = {} /\ Settled(t)' = {} /\ Quiet(t)'
        /\ (Quiet(t)' <=> Quiet(t))
    BY <1>2, <1>3, <2>5 DEF CallsSame, Quiet, bridge
  <2>7. view[t].status # "running"
    BY <1>5, <1>7, <2>2
  <2>8. Rests(t)'
    BY <1>3, <1>5, <1>6, <2>2, <2>3, <2>4, <2>6, <2>7, <1>7 DEF Rests, OutcomeInv
  <2>9. TaskInv(t)'
    BY <1>1, <1>2, <1>3, <1>6, <2>6, <2>8, IdleTask
  <2>10. replies' \subseteq replies /\ \A u : u # t => CallsSame(u)
    BY <1>2, <2>5
  <2>. QED
    BY <1>2, <2>3, <2>9, <2>10, AnswerTaken
<1>8. CASE event.type \notin Terminal
  <2>. DEFINE q == Shown(states[t], event)
  <2>. HIDE DEF event
  <2>1. /\ q.task = "running" /\ q.shown = streams[t] + 1
        /\ q.unavailable = states[t].unavailable
    BY <1>2, <1>5, ShownIs
  <2>2. /\ states' = Updated(t, q) /\ streams' = [streams EXCEPT ![t] = @ + 1]
        /\ asked' = asked \/ asked' = asked \union {Ask("permission", t, event.permission)}
        /\ UNCHANGED <<sessions, nonRestorable>>
    BY <1>8 DEF StreamEvent, event
  <2>. HIDE DEF q
  <2>3. states'[t] = q /\ streams'[t] = streams[t] + 1
    BY <1>2, <2>2, LooksElsewhere
  <2>4. \A u : CallsSame(u)
    <3>1. CASE asked' = asked
      BY <1>2, <3>1 DEF CallsSame, Promised, Settled, Puts, Cancels
    <3>2. CASE asked' = asked \union {Ask("permission", t, event.permission)}
      <4>1. /\ \A u : u # t => Promised(u)' = Promised(u) /\ Puts(u)' = Puts(u)
            /\ Promised(t)' = Promised(t) /\ Puts(t)' = Puts(t)
            /\ \A u : Cancels(u)' => Cancels(u)
        BY <1>2, <3>2, AskIs DEF Opening
      <4>. QED
        BY <1>2, <4>1 DEF CallsSame, Settled
    <3>. QED
      BY <2>2, <3>1, <3>2
  <2>5. Promised(t)' = {} /\ Settled(t)' = {} /\ Quiet(t)'
        /\ (Quiet(t)' <=> Quiet(t))
    BY <1>2, <1>3, <2>4 DEF CallsSame, Quiet, bridge
  <2>6. t \notin overtaken /\ view[t].status = "running" =>
          t \notin nonRestorable /\ ~ states[t].unavailable
    BY <1>1, <1>3 DEF TaskInv, RememberedInv
  <2>7. Rests(t)'
    BY <1>2, <1>3, <1>6, <2>1, <2>2, <2>3, <2>5, <2>6
       DEF Rests, OutcomeInv, Terminal, Bridge!Terminal
  <2>8. TaskInv(t)'
    BY <1>1, <1>2, <1>3, <1>6, <2>5, <2>7, IdleTask
  <2>9. /\ nonRestorable \subseteq nonRestorable'
        /\ nonRestorable' \subseteq nonRestorable \union {t}
        /\ UNCHANGED sessions
        /\ replies' \subseteq replies /\ \A u : u # t => CallsSame(u)
    BY <1>2, <2>2, <2>4
  <2>. QED
    BY <1>2, <2>2, <2>8, <2>9, AnswerTaken
<1>. QED
  BY <1>7, <1>8

\* What may be dismissed, or replaced, does not run and awaits nothing.
LEMMA MayGo ==
  ASSUME NEW t, TaskInv(t), t \in sessions,
         CanDismiss(states[t]) \/ ~ Active(states[t])
  PROVE  /\ Promised(t) = {} /\ Settled(t) = {}
         /\ ~ (t \notin overtaken /\ view[t].status = "running")
<1>1. ~ states[t].starting /\ ~ states[t].restoring
  BY DEF CanDismiss, Active
<1>2. Promised(t) = {} /\ Settled(t) = {}
  BY <1>1 DEF TaskInv, OpeningInv
<1>3. ~ (states[t].task = "running" /\ ~ states[t].unavailable)
  BY DEF CanDismiss, Active, Terminal, Bridge!Terminal
<1>. QED
  BY <1>2, <1>3 DEF TaskInv, RememberedInv

LEMMA SessionsDismissed ==
  ASSUME BridgeTypes, PageTypes, CallsInv, NEW ts \in SUBSET Tasks, DismissAll(ts),
         UNCHANGED <<bridge, asked, replies, counters>>,
         \A t \in ts : t \in sessions /\ CanDismiss(states[t])
  PROVE  CallsInv'
<1>1. /\ \A u : u \notin ts => PageSame(u)
      /\ \A u \in ts : u \notin sessions' /\ u \notin DOMAIN streams'
  BY DismissIs
<1>2. UNCHANGED bridge /\ UNCHANGED counters
  OBVIOUS
<1>3. \A u : HistoryKept(u)
  BY <1>2, CountersKept
<1>4. \A u : CallsSame(u)
  BY DEF CallsSame, Promised, Settled, Puts, Cancels
<1>5. \A u \in Tasks \ ts : TaskInv(u)'
  BY <1>1, <1>2, <1>3, <1>4, OthersKept
<1>6. ASSUME NEW t \in ts
      PROVE  TaskInv(t)'
  <2>1. TaskInv(t) /\ t \in sessions /\ CanDismiss(states[t])
    BY DEF CallsInv
  <2>2. /\ Promised(t) = {} /\ Settled(t) = {}
        /\ ~ (t \notin overtaken /\ view[t].status = "running")
    BY <2>1, MayGo
  <2>3. /\ Promised(t)' = {} /\ Settled(t)' = {} /\ (Quiet(t)' <=> Quiet(t))
        /\ (Cancels(t)' => Cancels(t))
    BY <1>2, <1>4, <2>2 DEF CallsSame, Quiet, bridge
  <2>. QED
    BY <1>1, <1>2, <1>3, <2>1, <2>2, <2>3, GoneTask
<1>7. \A r \in replies' : AnswerInv(r)'
  BY <1>2, <1>3, AnswersKept
<1>. QED
  BY <1>5, <1>6, <1>7 DEF CallsInv

LEMMA DismissTaken ==
  ASSUME BridgeTypes, PageTypes, CallsInv, NEW t \in Tasks, Dismiss(t)
  PROVE  CallsInv'
<1>1. DismissAll({t}) /\ UNCHANGED <<bridge, asked, replies, counters>>
      /\ t \in sessions /\ CanDismiss(states[t])
  BY DEF Dismiss, PageTypes
<1>2. {t} \in SUBSET Tasks /\ \A u \in {t} : u \in sessions /\ CanDismiss(states[u])
  BY <1>1
<1>. QED
  BY <1>1, <1>2, SessionsDismissed

LEMMA DismissFailedTaken ==
  ASSUME BridgeTypes, PageTypes, CallsInv, DismissFailed
  PROVE  CallsInv'
<1>. DEFINE ts == {t \in sessions : /\ t \in nonRestorable \/ states[t].unavailable
                                   /\ CanDismiss(states[t])}
<1>1. DismissAll(ts) /\ UNCHANGED <<bridge, asked, replies, counters>>
  BY DEF DismissFailed
<1>2. ts \in SUBSET Tasks /\ \A t \in ts : t \in sessions /\ CanDismiss(states[t])
  BY DEF PageTypes
<1>. HIDE DEF ts
<1>. QED
  BY <1>1, <1>2, SessionsDismissed

\* The sessions that a new one replaces, the new one, and the others.
LEMMA ReservedIs ==
  ASSUME PageTypes, NEW t, NEW others, StartReserved(t, others)
  PROVE  /\ \A u : u \notin others \union {t} => PageSame(u)
         /\ \A u \in others : u # t => u \notin sessions' /\ u \notin DOMAIN streams'
         /\ t \in sessions' /\ t \notin nonRestorable'
         /\ states'[t] = [NewState EXCEPT !.starting = TRUE]
         /\ t \in DOMAIN streams' => t \in DOMAIN streams
         /\ asked' = asked \union {Ask("health", t, NoPermission)}
<1>. DEFINE s == [NewState EXCEPT !.starting = TRUE]
<1>1. /\ sessions' = (sessions \ others) \union {t}
      /\ nonRestorable' = nonRestorable \ (others \union {t})
      /\ states' = With(Without(states, others), t, s)
      /\ streams' = Without(streams, others)
      /\ asked' = asked \union {Ask("health", t, NoPermission)}
  BY DEF StartReserved
<1>. HIDE DEF s
<1>2. /\ DOMAIN Without(states, others) = sessions \ others
      /\ \A u \in sessions \ others : Without(states, others)[u] = states[u]
  BY WithoutIs DEF PageTypes
<1>3. /\ states'[t] = s
      /\ \A u \in sessions \ others : u # t => states'[u] = states[u]
  BY <1>1, <1>2 DEF With
<1>4. /\ DOMAIN streams' = DOMAIN streams \ others
      /\ \A u \in DOMAIN streams \ others : streams'[u] = streams[u]
  BY <1>1, WithoutIs
<1>. QED
  BY <1>1, <1>3, <1>4 DEF PageSame, LooksSame, s

\* A session begins that the bridge has nothing of.
LEMMA SessionReserved ==
  ASSUME BridgeTypes, PageTypes, CallsInv, UNCHANGED <<bridge, replies, overtaken, restarts>>,
         used \subseteq used',
         NEW t \in Tasks, NEW others \in SUBSET Tasks, StartReserved(t, others),
         \A u \in others : u \in sessions /\
                           (CanDismiss(states[u]) \/ ~ Active(states[u])),
         Promised(t) = {}, Settled(t) = {}, ~ Known(t), Quiet(t), ~ Cancels(t),
         t \notin DOMAIN streams, t \in used'
  PROVE  CallsInv'
<1>. DEFINE ask == Ask("health", t, NoPermission)
<1>1. /\ \A u : u \notin others \union {t} => PageSame(u)
      /\ \A u \in others : u # t => u \notin sessions' /\ u \notin DOMAIN streams'
      /\ t \in sessions' /\ t \notin nonRestorable'
      /\ states'[t] = [NewState EXCEPT !.starting = TRUE]
      /\ t \notin DOMAIN streams'
      /\ asked' = asked \union {ask}
  BY ReservedIs
<1>2. /\ \A u : u # t => CallsSame(u)
      /\ Promised(t)' = {ask} /\ Settled(t)' = {} /\ Puts(t)' = Puts(t)
      /\ ~ Cancels(t)'
  <2>1. /\ \A u : u # t => Promised(u)' = Promised(u) /\ Puts(u)' = Puts(u)
        /\ Promised(t)' = Promised(t) \union {ask} /\ Puts(t)' = Puts(t)
        /\ \A u : Cancels(u)' => Cancels(u)
    BY <1>1, AskIs DEF Opening
  <2>. QED
    BY <2>1 DEF CallsSame, Settled
<1>3. ask.op = "health"
  BY DEF Ask
<1>. HIDE DEF ask
<1>4. UNCHANGED bridge
  OBVIOUS
<1>5. \A u : HistoryKept(u)
  BY DEF HistoryKept
<1>6. \A u : u \notin others \union {t} => CallsSame(u) /\ PageSame(u)
  BY <1>1, <1>2
<1>7. \A u \in Tasks \ (others \union {t}) : TaskInv(u)'
  BY <1>4, <1>5, <1>6, OthersKept
<1>8. ASSUME NEW u \in others, u # t
      PROVE  TaskInv(u)'
  <2>1. TaskInv(u) /\ u \in sessions /\ (CanDismiss(states[u]) \/ ~ Active(states[u]))
    BY DEF CallsInv
  <2>2. /\ Promised(u) = {} /\ Settled(u) = {}
        /\ ~ (u \notin overtaken /\ view[u].status = "running")
    BY <2>1, MayGo
  <2>3. /\ Promised(u)' = {} /\ Settled(u)' = {} /\ (Quiet(u)' <=> Quiet(u))
        /\ (Cancels(u)' => Cancels(u))
    BY <1>2, <1>4, <1>8, <2>2 DEF CallsSame, Quiet, bridge
  <2>4. u \notin sessions' /\ u \notin DOMAIN streams'
    BY <1>1, <1>8
  <2>. QED
    BY <1>4, <1>5, <2>1, <2>2, <2>3, <2>4, GoneTask
<1>9. TaskInv(t)'
  <2>1. /\ states'[t].task = "none" /\ states'[t].shown = 0
        /\ states'[t].permission = NoPermission /\ ~ states'[t].unavailable
        /\ states'[t].starting
    BY <1>1 DEF NewState
  <2>2. ~ Known(t)' /\ Quiet(t)' /\ view'[t].status # "running"
    BY <1>2 DEF Known, Quiet, bridge
  <2>3. OpeningInv(t)' /\ SessionInv(t)'
    BY <1>1, <1>2, <2>1 DEF OpeningInv, SessionInv
  <2>4. StartInv(t)' /\ RememberedInv(t)' /\ OutcomeInv(t)'
    BY <1>2, <2>1, <2>2
       DEF StartInv, RememberedInv, OutcomeInv, Terminal, Bridge!Terminal
  <2>. QED
    BY <2>3, <2>4 DEF TaskInv
<1>10. \A r \in replies' : AnswerInv(r)'
  BY <1>4, <1>5, AnswersKept
<1>. QED
  BY <1>7, <1>8, <1>9, <1>10 DEF CallsInv

\* Nothing is known of an id that was never generated.
LEMMA FreshTask ==
  ASSUME NEW t, TaskInv(t), t \notin used
  PROVE  /\ Promised(t) = {} /\ Settled(t) = {} /\ ~ Known(t) /\ Quiet(t)
         /\ ~ Cancels(t) /\ t \notin DOMAIN streams
<1>1. t \notin sessions /\ ~ Cancels(t) /\ t \notin DOMAIN streams
  BY DEF TaskInv, SessionInv
<1>. QED
  BY <1>1, NotPromised DEF TaskInv, StartInv

LEMMA SessionStarted ==
  ASSUME BridgeTypes, PageTypes, CallsInv,
         \E t \in Tasks : StartTask(t) \/ RetrySame(t) \/ \E u \in Tasks : RetryOther(t, u)
  PROVE  CallsInv'
<1>1. ASSUME NEW t \in Tasks, StartTask(t)
      PROVE  CallsInv'
  <2>. DEFINE others == IF t \in SoleTasks THEN sessions \intersect SoleTasks ELSE {}
  <2>1. /\ UNCHANGED <<bridge, replies, overtaken, restarts>>
        /\ used \subseteq used' /\ t \in used' /\ t \notin used
        /\ StartReserved(t, others) /\ \A u \in others : ~ Active(states[u])
    BY <1>1 DEF StartTask
  <2>2. others \in SUBSET Tasks /\ \A u \in others : u \in sessions
    BY DEF PageTypes
  <2>. HIDE DEF others
  <2>3. /\ Promised(t) = {} /\ Settled(t) = {} /\ ~ Known(t) /\ Quiet(t)
        /\ ~ Cancels(t) /\ t \notin DOMAIN streams
    BY <2>1, FreshTask DEF CallsInv
  <2>. QED
    BY <2>1, <2>2, <2>3, SessionReserved
<1>2. ASSUME NEW t \in Tasks, RetrySame(t)
      PROVE  CallsInv'
  <2>. DEFINE others == {}
  <2>1. /\ UNCHANGED <<bridge, replies, overtaken, restarts>> /\ used \subseteq used'
        /\ t \in sessions /\ ~ Active(states[t]) /\ StartReserved(t, others)
        /\ states[t].task = "none" /\ states[t].unavailable
    BY <1>2 DEF RetrySame, counters
  <2>2. TaskInv(t)
    BY DEF CallsInv
  <2>3. Promised(t) = {} /\ Settled(t) = {}
    BY <2>1, <2>2, MayGo
  <2>4. /\ ~ Known(t) /\ Quiet(t) /\ ~ Cancels(t) /\ t \notin DOMAIN streams
        /\ t \in used'
    BY <2>1, <2>2 DEF TaskInv, StartInv, SessionInv
  <2>5. others \in SUBSET Tasks
        /\ \A u \in others : u \in sessions /\
                             (CanDismiss(states[u]) \/ ~ Active(states[u]))
    OBVIOUS
  <2>. HIDE DEF others
  <2>. QED
    BY <2>1, <2>3, <2>4, <2>5, SessionReserved
<1>3. ASSUME NEW t \in Tasks, NEW u \in Tasks, RetryOther(t, u)
      PROVE  CallsInv'
  <2>. DEFINE others == {t}
  <2>1. /\ UNCHANGED <<bridge, replies, overtaken, restarts>>
        /\ used \subseteq used' /\ u \in used' /\ u \notin used
        /\ t \in sessions /\ CanDismiss(states[t]) /\ StartReserved(u, others)
    BY <1>3 DEF RetryOther
  <2>2. /\ Promised(u) = {} /\ Settled(u) = {} /\ ~ Known(u) /\ Quiet(u)
        /\ ~ Cancels(u) /\ u \notin DOMAIN streams
    BY <2>1, FreshTask DEF CallsInv
  <2>3. others \in SUBSET Tasks
        /\ \A w \in others : w \in sessions /\
                             (CanDismiss(states[w]) \/ ~ Active(states[w]))
    BY <2>1
  <2>. HIDE DEF others
  <2>. QED
    BY <2>1, <2>2, <2>3, SessionReserved
<1>. QED
  BY <1>1, <1>2, <1>3

\* After a reload the page knows the sessions it remembers, and awaits the
\* answer about each; of what it had asked, starts may be under way still.
LEMMA PageReloaded ==
  ASSUME BridgeTypes, PageTypes, CallsInv, Reload
  PROVE  CallsInv'
<1>. DEFINE gets == {Ask("get", t, NoPermission) : t \in Persisted}
<1>1. /\ UNCHANGED <<view, beginning, used, restarts>>
      /\ sessions' = Persisted /\ nonRestorable' = {} /\ replies' = {}
      /\ states' = [t \in Persisted |-> [NewState EXCEPT !.restoring = TRUE]]
      /\ DOMAIN streams' = {}
  BY DEF Reload, bridge
<1>2. PICK sent \in SUBSET asked :
        asked' = {[r EXCEPT !.heard = FALSE] : r \in sent} \union gets
  BY DEF Reload
<1>3. \A t \in Tasks : t \in overtaken' <=> t \in overtaken \/ ~ Quiet(t)
  BY DEF Reload, Quiet
<1>. DEFINE unheard(r) == [r EXCEPT !.heard = FALSE]
<1>4. \A r \in sent : /\ unheard(r).op = r.op /\ unheard(r).task = r.task
                      /\ ~ unheard(r).heard
  BY DEF BridgeTypes, Request
<1>5. \A t : LET r == Ask("get", t, NoPermission)
             IN  r.op = "get" /\ r.task = t /\ r.heard
  BY DEF Ask
<1>6. asked' = {unheard(r) : r \in sent} \union gets
  BY <1>2
<1>7. Persisted \subseteq Tasks
  BY DEF Persisted, PageTypes
<1>8. ASSUME NEW t \in Tasks
      PROVE  /\ t \in Persisted => Promised(t)' = {Ask("get", t, NoPermission)}
             /\ t \notin Persisted => Promised(t)' = {}
             /\ ~ Cancels(t)' /\ Settled(t)' = {}
             /\ Quiet(t) => Quiet(t)'
  <2>. HIDE DEF unheard
  <2>1. \A r \in asked' : r.heard => r \in gets /\ r.op = "get"
    BY <1>4, <1>5, <1>6
  <2>2. \A r \in gets : r.task = t => t \in Persisted /\ r = Ask("get", t, NoPermission)
    BY <1>5
  <2>3. t \in Persisted => Ask("get", t, NoPermission) \in asked'
    BY <1>6
  <2>. HIDE DEF gets
  <2>4. \A r \in Promised(t)' : t \in Persisted /\ r = Ask("get", t, NoPermission)
    BY <2>1, <2>2 DEF Promised
  <2>5. t \in Persisted => Ask("get", t, NoPermission) \in Promised(t)'
    BY <1>5, <2>3 DEF Promised, Opening
  <2>6. ~ Cancels(t)' /\ Settled(t)' = {}
    BY <1>1, <2>1 DEF Cancels, Settled
  <2>7. Quiet(t) => Quiet(t)'
    <3>1. \A r \in asked' : r.op = "put" =>
            \E q \in sent : q.op = "put" /\ q.task = r.task
      BY <1>4, <1>5, <1>6 DEF gets
    <3>. QED
      BY <1>1, <3>1 DEF Quiet, Puts
  <2>. QED
    BY <2>4, <2>5, <2>6, <2>7
<1>9. ASSUME NEW t \in Tasks
      PROVE  TaskInv(t)'
  <2>0. TaskInv(t)
    BY DEF CallsInv
  <2>1. t \in Persisted =>
          /\ states'[t].task = "none" /\ states'[t].shown = 0
          /\ states'[t].permission = NoPermission /\ ~ states'[t].unavailable
          /\ states'[t].restoring
    BY <1>1 DEF NewState
  <2>2. Known(t)' <=> Known(t)
    BY <1>1 DEF Known
  <2>3. t \in Persisted => t \in sessions
    BY DEF Persisted
  <2>4. OpeningInv(t)'
    BY <1>1, <1>8, <2>1 DEF OpeningInv
  <2>5. SessionInv(t)'
    BY <1>1, <1>8, <2>0, <2>3 DEF SessionInv, TaskInv
  <2>6. StartInv(t)'
    <3>1. \A r \in Promised(t)' : r.op = "get"
      BY <1>5, <1>8
    <3>2. /\ Known(t)' => Quiet(t)'
          /\ (Known(t) \/ ~ Quiet(t))' => t \in used'
          /\ t \notin overtaken' => Quiet(t)'
      BY <1>1, <1>3, <1>8, <2>0, <2>2 DEF TaskInv, StartInv
    <3>. QED
      BY <1>1, <1>8, <2>1, <3>1, <3>2 DEF StartInv
  <2>7. RememberedInv(t)'
    <3>1. t \notin overtaken' /\ view'[t].status = "running" => t \in Persisted
      BY <1>1, <1>3, <2>0 DEF TaskInv, RememberedInv, Persisted
    <3>. QED
      BY <1>1, <1>8, <3>1 DEF RememberedInv
  <2>8. OutcomeInv(t)'
    BY <1>1, <2>1 DEF OutcomeInv, Terminal, Bridge!Terminal
  <2>. QED
    BY <2>4, <2>5, <2>6, <2>7, <2>8 DEF TaskInv
<1>. QED
  BY <1>1, <1>9 DEF CallsInv

LEMMA CallsStep ==
  ASSUME BridgeTypes, PageTypes, CallsInv, \A t \in Tasks : LogInv(view[t]),
         [StoreNext]_vars
  PROVE  CallsInv'
<1>1. CASE UNCHANGED vars
  <2>1. UNCHANGED bridge /\ UNCHANGED counters /\ UNCHANGED page
        /\ UNCHANGED <<asked, replies>>
    BY <1>1 DEF vars, bridge, counters, page
  <2>2. \A u : HistoryKept(u) /\ PageSame(u)
    BY <2>1, CountersKept, PageKept
  <2>3. \A u : u \notin {} => CallsSame(u) /\ PageSame(u)
    BY <2>1, <2>2 DEF CallsSame, Promised, Settled, Puts, Cancels
  <2>4. \A u \in Tasks \ {} : TaskInv(u)'
    BY <2>1, <2>2, <2>3, OthersKept
  <2>5. \A r \in replies' : AnswerInv(r)'
    BY <2>1, <2>2, AnswersKept
  <2>. QED
    BY <2>4, <2>5 DEF CallsInv
<1>2. CASE BridgeTask \/ BridgeRestart
  BY <1>2, TaskGoesOn, BridgeRestarted
<1>3. ASSUME NEW t \in Tasks, BridgeAnswers(t)
      PROVE  CallsInv'
  BY <1>3, HealthTold, PutTaken, TaskBegun, TaskRefused, GetTold, CancelTold,
     PermissionTold DEF BridgeAnswers
<1>4. ASSUME NEW t \in Tasks,
             StartTask(t) \/ RetrySame(t) \/ \E u \in Tasks : RetryOther(t, u)
      PROVE  CallsInv'
  BY <1>4, SessionStarted
<1>5. ASSUME NEW t \in Tasks,
             \/ Dismiss(t) \/ StreamEvent(t) \/ StreamLost(t) \/ CancelTask(t)
             \/ \E always \in BOOLEAN : ResolvePermission(t, always)
      PROVE  CallsInv'
  BY <1>5, DismissTaken, EventTaken, StreamClosed, CancelAsked, DecisionAsked
<1>6. ASSUME NEW r \in replies, Answered(r)
      PROVE  CallsInv'
  BY <1>6, HealthTaken, StartTaken, RestoreTaken, CancelTaken, DecisionTaken DEF Answered
<1>7. CASE DismissFailed \/ Reload
  BY <1>7, DismissFailedTaken, PageReloaded
<1>. QED
  BY <1>1, <1>2, <1>3, <1>4, <1>5, <1>6, <1>7 DEF StoreNext

-----------------------------------------------------------------------------
(* What is shown of a prompt.                                              *)

\* No decision is lost track of.
DecisionsKept(t) == \A p : Decides(t, p) => Decides(t, p)'

\* A step leaves u, its session and its stream alone, or they are gone.
Untouched(u) ==
  /\ u \in sessions' => u \in sessions /\ states'[u] = states[u]
  /\ u \in DOMAIN streams' =>
       u \in DOMAIN streams /\ u \in sessions' /\ streams'[u] = streams[u]

LEMMA PromptKept ==
  ASSUME NEW u, PromptInv(u), DecisionsKept(u), Untouched(u), view'[u] = view[u]
  PROVE  PromptInv(u)'
<1>1. Submitting(u)'
  BY DEF PromptInv, Submitting, DecisionsKept, Untouched
<1>2. Delivered(u)'
  BY DEF PromptInv, Delivered, Untouched, Known, Holds, SettledBy
<1>. QED
  BY <1>1, <1>2 DEF PromptInv

LEMMA DecisionsAnswered ==
  ASSUME NEW rs, NEW answer, AnswerAll(rs, answer), decided \subseteq decided'
  PROVE  \A t : DecisionsKept(t)
<1>1. asked' = asked \ rs /\ replies' = replies \union Replied(rs, answer)
  BY RepliesAre
<1>. SUFFICES ASSUME NEW t, NEW p, Decides(t, p)
              PROVE  Decides(t, p)'
  BY DEF DecisionsKept
<1>2. ASSUME NEW r \in asked, r.op = "permission", r.heard, r.task = t, r.permission = p
      PROVE  Decides(t, p)'
  <2>1. CASE r \in rs
    <3>1. ReplyTo(r, answer) \in replies'
      BY <1>1, <1>2, <2>1 DEF Replied
    <3>. QED
      BY <1>2, <3>1, ReplyToIs DEF Decides
  <2>2. CASE r \notin rs
    BY <1>1, <1>2, <2>2 DEF Decides
  <2>. QED
    BY <2>1, <2>2
<1>. QED
  BY <1>1, <1>2 DEF Decides

\* Of what the page takes up and asks, only the answer to a decision matters.
LEMMA DecisionsRemain ==
  ASSUME UNCHANGED decided, asked \subseteq asked',
         \A r \in replies : r.op = "permission" => r \in replies'
  PROVE  \A t : DecisionsKept(t)
BY DEF DecisionsKept, Decides

\* A page that changes one state and one stream.
LEMMA OthersUntouched ==
  ASSUME PageTypes, CallsInv', NEW t, NEW s, states' = Updated(t, s), UNCHANGED sessions,
         \/ UNCHANGED streams
         \/ streams' = Without(streams, {t})
         \/ streams' = Connected(t)
         \/ streams' = [streams EXCEPT ![t] = @ + 1]
  PROVE  \A u \in Tasks : u # t => Untouched(u)
<1>. SUFFICES ASSUME NEW u \in Tasks, u # t
              PROVE  Untouched(u)
  OBVIOUS
<1>1. u \in sessions => states'[u] = states[u]
  BY UpdatedIs DEF PageTypes
<1>2. u \in DOMAIN streams' => u \in DOMAIN streams /\ streams'[u] = streams[u]
  <2>1. CASE streams' = Without(streams, {t})
    <3>1. /\ DOMAIN streams' = DOMAIN streams \ {t}
          /\ \A w \in DOMAIN streams \ {t} : streams'[w] = streams[w]
      BY <2>1, WithoutIs
    <3>. QED
      BY <3>1
  <2>2. CASE streams' = Connected(t)
    BY <2>2 DEF Connected, With
  <2>3. CASE streams' = [streams EXCEPT ![t] = @ + 1]
    BY <2>3
  <2>. QED
    BY <2>1, <2>2, <2>3
<1>3. u \in DOMAIN streams' => u \in sessions'
  BY DEF CallsInv, TaskInv, SessionInv
<1>. QED
  BY <1>1, <1>2, <1>3 DEF Untouched

\* A prompt is asked for, or no longer open, one event later.
LEMMA PromptGoesOn ==
  ASSUME NoPermission \notin Permissions, NEW v, LogInv(v), NEW n \in Nat,
         n + 1 \in 1 .. Len(v.events), v.events[n + 1] \in Bridge!Event,
         NEW s \in TaskState,
         NEW p \in Permissions,
         s.permission = p <=> /\ \E i \in 1 .. n : Holds(v, i, "permission-required", p)
                              /\ ~ SettledBy(v, n, p)
  PROVE  Shown(s, v.events[n + 1]).permission = p <=>
           /\ \E i \in 1 .. n + 1 : Holds(v, i, "permission-required", p)
           /\ ~ SettledBy(v, n + 1, p)
<1>. DEFINE Requested(m) == \E i \in 1 .. m : Holds(v, i, "permission-required", p)
<1>. DEFINE q == Shown(s, v.events[n + 1])
<1>1. PICK e \in Bridge!Event : e = v.events[n + 1]
  OBVIOUS
<1>2. \A type : Holds(v, n + 1, type, p) <=> e.type = type /\ e.permission = p
  BY <1>1 DEF Holds, Bridge!Event
<1>3. \A i : i \in 1 .. n + 1 <=> i \in 1 .. n \/ i = n + 1
  OBVIOUS
<1>4. Requested(n + 1) <=>
        Requested(n) \/ (e.type = "permission-required" /\ e.permission = p)
  BY <1>2, <1>3
<1>5. SettledBy(v, n + 1, p) <=>
        SettledBy(v, n, p) \/ (e.type = "permission-resolved" /\ e.permission = p)
  BY <1>2, <1>3 DEF SettledBy
<1>6. e.permission \in Permissions \union {NoPermission}
  BY DEF Bridge!Event
<1>7. s.permission = p <=> Requested(n) /\ ~ SettledBy(v, n, p)
  OBVIOUS
<1>8. /\ e.type = "permission-required" => q.permission = e.permission
      /\ e.type = "permission-resolved" /\ s.permission = e.permission =>
           q.permission = NoPermission
      /\ e.type # "permission-required"
         /\ ~ (e.type = "permission-resolved" /\ s.permission = e.permission) =>
           q.permission = s.permission
  BY <1>1, <1>6, ShownIs
<1>9. ASSUME e.type = "permission-required"
      PROVE  /\ e.permission = p => ~ SettledBy(v, n + 1, p)
             /\ e.permission # p /\ Requested(n) => SettledBy(v, n + 1, p)
  <2>1. RequestInv(v, n + 1) /\ v.events[n + 1].permission = e.permission
    BY <1>1, <1>9 DEF LogInv
  <2>2. (n + 1) - 1 = n
    OBVIOUS
  <2>. QED
    BY <2>1, <2>2 DEF RequestInv
<1>. HIDE DEF q, Requested
<1>10. q.permission = p <=> Requested(n + 1) /\ ~ SettledBy(v, n + 1, p)
  <2>1. CASE e.type = "permission-required"
    BY <1>4, <1>8, <1>9, <2>1
  <2>2. CASE e.type # "permission-required" /\ e.permission = p
    BY <1>4, <1>5, <1>7, <1>8, <2>2
  <2>3. CASE e.type # "permission-required" /\ e.permission # p
    BY <1>4, <1>5, <1>7, <1>8, <2>3
  <2>. QED
    BY <2>1, <2>2, <2>3
<1>. QED
  BY <1>10 DEF q, Requested

\* How the stream of a task whose state becomes s goes on, unless it delivers.
StreamFits(t, s) ==
  \/ UNCHANGED streams /\ s.permission = states[t].permission
  \/ UNCHANGED streams /\ t \notin DOMAIN streams
  \/ streams' = Without(streams, {t})
  \/ streams' = Connected(t) /\ s.permission = NoPermission

LEMMA PromptUpdated ==
  ASSUME NoPermission \notin Permissions, BridgeTypes, PageTypes, CallsInv',
         UNCHANGED bridge, \A u \in Tasks : PromptInv(u),
         NEW t \in Tasks, NEW s, states' = Updated(t, s), UNCHANGED sessions,
         StreamFits(t, s), \A u : u # t => DecisionsKept(u),
         t \in sessions /\ s.submitting => Decides(t, s.permission)'
  PROVE  \A u \in Tasks : PromptInv(u)'
<1>0. view' = view
  BY DEF bridge
<1>1. \/ UNCHANGED streams
      \/ streams' = Without(streams, {t})
      \/ streams' = Connected(t)
      \/ streams' = [streams EXCEPT ![t] = @ + 1]
  BY DEF StreamFits
<1>2. \A u \in Tasks : u # t => Untouched(u)
  BY <1>1, OthersUntouched
<1>3. \A u \in Tasks : u # t => PromptInv(u)'
  BY <1>0, <1>2, PromptKept
<1>4. t \in sessions => states'[t] = s
  BY UpdatedIs DEF PageTypes
<1>5. Submitting(t)'
  BY <1>4 DEF Submitting
<1>6. t \in DOMAIN streams' => t \in sessions
  BY DEF CallsInv, TaskInv, SessionInv
<1>7. Delivered(t)'
  <2>1. CASE UNCHANGED streams /\ s.permission = states[t].permission
    BY <1>0, <1>4, <1>6, <2>1 DEF PromptInv, Delivered, Known, Holds, SettledBy
  <2>2. CASE t \notin DOMAIN streams'
    BY <2>2 DEF Delivered
  <2>3. CASE streams' = Connected(t) /\ s.permission = NoPermission
    <3>1. streams'[t] = 0
      BY <2>3, StreamIs
    <3>2. 0 <= Len(view'[t].events)
      <4>1. view[t].events \in Seq(Bridge!Event)
        BY ViewTypes DEF BridgeTypes
      <4>. QED
        BY <1>0, <4>1
    <3>3. t \in DOMAIN streams' => states'[t].permission \notin Permissions
      BY <1>4, <1>6, <2>3
    <3>. QED
      BY <3>1, <3>2, <3>3 DEF Delivered
  <2>. QED
    BY <2>1, <2>2, <2>3, StreamIs DEF StreamFits
<1>. QED
  BY <1>3, <1>5, <1>7 DEF PromptInv

PromptsInv == \A t \in Tasks : PromptInv(t)

LEMMA PromptsOfBridge ==
  ASSUME BridgeTypes, PageTypes, CallsInv, PromptsInv,
         BridgeTask \/ BridgeRestart \/ \E t \in Tasks : BridgeAnswers(t)
  PROVE  PromptsInv'
<1>1. UNCHANGED page
  BY DEF BridgeTask, BridgeRestart, BridgeAnswers, BridgeHealth, BridgePut, BridgeBegins,
         BridgeRefuses, BridgeGet, BridgeCancel, BridgePermission
<1>2. \A u : DecisionsKept(u)
  <2>1. decided \subseteq decided'
    BY DEF BridgeTask, BridgeRestart, BridgeAnswers, BridgeHealth, BridgePut, BridgeBegins,
           BridgeRefuses, BridgeGet, BridgeCancel, BridgePermission, bridge
  <2>2. \/ UNCHANGED <<asked, replies>>
        \/ \E rs, answer : AnswerAll(rs, answer)
    BY DEF BridgeTask, BridgeRestart, BridgeAnswers, BridgeHealth, BridgePut, BridgeBegins,
           BridgeRefuses, BridgeGet, BridgeCancel, BridgePermission
  <2>3. CASE UNCHANGED <<asked, replies>>
    BY <2>1, <2>3 DEF DecisionsKept, Decides
  <2>. QED
    BY <2>1, <2>2, <2>3, DecisionsAnswered
<1>3. ASSUME NEW u \in Tasks
      PROVE  Submitting(u)'
  <2>1. sessions' = sessions /\ states' = states /\ Submitting(u)
    BY <1>1 DEF page, PromptsInv, PromptInv
  <2>. QED
    BY <1>2, <2>1 DEF Submitting, DecisionsKept
<1>4. ASSUME NEW u \in Tasks
      PROVE  Delivered(u)'
  <2>1. UNCHANGED <<states, streams>> /\ Delivered(u) /\ TaskInv(u)
    BY <1>1 DEF page, PromptsInv, PromptInv, CallsInv
  <2>2. CASE view'[u] = view[u]
    BY <2>1, <2>2 DEF Delivered, Known, Holds, SettledBy
  <2>3. CASE Grows(u)
    <3>. DEFINE n == Len(view[u].events)
    <3>1. n \in Nat
      BY ViewTypes DEF BridgeTypes
    <3>2. /\ Len(view'[u].events) = n + 1 /\ Known(u)
          /\ \A i \in 1 .. n : view'[u].events[i] = view[u].events[i]
      BY <2>3 DEF Grows, Known
    <3>. SUFFICES ASSUME u \in DOMAIN streams
                  PROVE  Delivered(u)'
      BY <2>1 DEF Delivered
    <3>3. streams[u] \in Nat /\ streams[u] <= n
      BY <2>1, <3>2 DEF Delivered, PageTypes
    <3>. HIDE DEF n
    <3>4. \A i \in 1 .. streams[u] : view'[u].events[i] = view[u].events[i]
      BY <3>1, <3>2, <3>3
    <3>5. ASSUME NEW p \in Permissions
          PROVE  /\ \A type : \A i \in 1 .. streams[u] :
                      Holds(view'[u], i, type, p) <=> Holds(view[u], i, type, p)
                 /\ SettledBy(view'[u], streams[u], p) <=> SettledBy(view[u], streams[u], p)
      BY <3>4 DEF Holds, SettledBy
    <3>6. streams[u] <= Len(view'[u].events)
      BY <3>1, <3>2, <3>3
    <3>. QED
      BY <2>1, <3>2, <3>5, <3>6 DEF Delivered
  <2>4. CASE BridgeBegins(u)
    <3>0. ~ Quiet(u)
      BY <2>4 DEF BridgeBegins, Quiet
    <3>1. u \notin DOMAIN streams
      BY <2>1, <3>0 DEF TaskInv, StartInv, SessionInv
    <3>. QED
      BY <2>1, <3>1 DEF Delivered
  <2>5. CASE BridgeRestart
    BY <2>5 DEF Delivered, BridgeRestart, Known
  <2>6. CASE BridgeTask
    <3>1. \E t \in Tasks : Grows(t)
      BY <2>6, BridgeTaskGrows DEF BridgeTypes
    <3>2. Grows(u) \/ view'[u] = view[u]
      BY <3>1 DEF Grows
    <3>. QED
      BY <2>2, <2>3, <3>2
  <2>7. ASSUME NEW t \in Tasks, BridgeAnswers(t)
        PROVE  Delivered(u)'
    <3>1. CASE BridgeBegins(t)
      <4>1. t # u => view'[u] = view[u]
        BY <3>1 DEF BridgeBegins, Bridge!Begin, BridgeTypes, Bridge!TypeOK
      <4>. QED
        BY <2>2, <2>4, <3>1, <4>1
    <3>2. CASE BridgeCancel(t)
      <4>1. UNCHANGED view \/ Bridge!End(t, "cancelled")
        BY <3>2 DEF BridgeCancel
      <4>2. CASE Bridge!End(t, "cancelled")
        <5>1. Grows(t)
          BY <4>2, EndGrows DEF BridgeTypes, Terminal, Bridge!Terminal
        <5>2. Grows(u) \/ view'[u] = view[u]
          BY <5>1 DEF Grows
        <5>. QED
          BY <2>2, <2>3, <5>2
      <4>. QED
        BY <2>2, <4>1, <4>2
    <3>3. CASE ~ BridgeBegins(t) /\ ~ BridgeCancel(t)
      <4>1. view' = view
        BY <2>7, <3>3 DEF BridgeAnswers, BridgeHealth, BridgePut, BridgeRefuses,
                          BridgeGet, BridgePermission, bridge
      <4>. QED
        BY <2>2, <4>1
    <3>. QED
      BY <3>1, <3>2, <3>3
  <2>. QED
    BY <2>5, <2>6, <2>7
<1>. QED
  BY <1>3, <1>4 DEF PromptsInv, PromptInv

LEMMA DismissUntouched ==
  ASSUME PageTypes, CallsInv', NEW ts, DismissAll(ts)
  PROVE  \A u \in Tasks : Untouched(u)
<1>1. DOMAIN streams' = DOMAIN streams \ ts /\ sessions' = sessions \ ts
  BY WithoutIs DEF DismissAll
<1>2. \A u \in sessions \ ts : states'[u] = states[u]
  BY WithoutIs DEF DismissAll, PageTypes
<1>3. \A u \in DOMAIN streams \ ts : streams'[u] = streams[u]
  BY WithoutIs DEF DismissAll
<1>4. \A u \in Tasks : u \in DOMAIN streams' => u \in sessions'
  BY DEF CallsInv, TaskInv, SessionInv
<1>. QED
  BY <1>1, <1>2, <1>3, <1>4 DEF Untouched

LEMMA PromptsDismissed ==
  ASSUME PageTypes, CallsInv', PromptsInv, NEW ts, DismissAll(ts),
         UNCHANGED <<bridge, asked, replies, counters>>
  PROVE  PromptsInv'
<1>1. view' = view /\ \A u : DecisionsKept(u)
  BY DEF bridge, DecisionsKept, Decides
<1>2. \A u \in Tasks : Untouched(u)
  BY DismissUntouched
<1>. QED
  BY <1>1, <1>2, PromptKept DEF PromptsInv

LEMMA PromptsReserved ==
  ASSUME PageTypes, CallsInv', PromptsInv, NEW t \in Tasks, NEW others,
         StartReserved(t, others), UNCHANGED bridge, UNCHANGED replies
  PROVE  PromptsInv'
<1>. DEFINE s == [NewState EXCEPT !.starting = TRUE]
<1>1. /\ sessions' = (sessions \ others) \union {t}
      /\ states' = With(Without(states, others), t, s)
      /\ streams' = Without(streams, others) /\ asked \subseteq asked'
  BY DEF StartReserved
<1>2. s.task = "none" /\ s.submitting = FALSE
  BY DEF NewState
<1>. HIDE DEF s
<1>3. /\ DOMAIN Without(states, others) = sessions \ others
      /\ \A u \in sessions \ others : Without(states, others)[u] = states[u]
  BY WithoutIs DEF PageTypes
<1>4. /\ states'[t] = s
      /\ \A u \in sessions \ others : u # t => states'[u] = states[u]
  BY <1>1, <1>3 DEF With
<1>5. /\ DOMAIN streams' = DOMAIN streams \ others
      /\ \A u \in DOMAIN streams \ others : streams'[u] = streams[u]
  BY <1>1, WithoutIs
<1>6. \A u \in Tasks : u \in DOMAIN streams' => u \in sessions' /\ states'[u].task = "running"
  BY DEF CallsInv, TaskInv, SessionInv
<1>7. view' = view /\ \A u : DecisionsKept(u)
  BY <1>1, DecisionsRemain DEF bridge
<1>8. \A u \in Tasks : u # t => Untouched(u)
  BY <1>1, <1>4, <1>5, <1>6 DEF Untouched
<1>9. \A u \in Tasks : u # t => PromptInv(u)'
  BY <1>7, <1>8, PromptKept DEF PromptsInv
<1>10. PromptInv(t)'
  BY <1>2, <1>4, <1>6 DEF PromptInv, Delivered, Submitting
<1>. QED
  BY <1>9, <1>10 DEF PromptsInv

LEMMA PromptsReloaded ==
  ASSUME Reload
  PROVE  PromptsInv'
<1>1. /\ sessions' = Persisted /\ streams' = <<>>
      /\ states' = [t \in Persisted |-> [NewState EXCEPT !.restoring = TRUE]]
  BY DEF Reload
<1>2. DOMAIN streams' = {} /\ \A u \in sessions' : ~ states'[u].submitting
  BY <1>1 DEF NewState
<1>. QED
  BY <1>2 DEF PromptsInv, PromptInv, Delivered, Submitting

\* Sessions come and go.
LEMMA PromptsOfSessions ==
  ASSUME PageTypes, CallsInv', PromptsInv,
         \/ DismissFailed \/ Reload
         \/ \E t \in Tasks :
              \/ StartTask(t) \/ RetrySame(t) \/ \E u \in Tasks : RetryOther(t, u)
              \/ Dismiss(t)
  PROVE  PromptsInv'
<1>1. CASE DismissFailed
  BY <1>1, PromptsDismissed DEF DismissFailed
<1>2. CASE Reload
  BY <1>2, PromptsReloaded
<1>3. ASSUME NEW t \in Tasks, Dismiss(t)
      PROVE  PromptsInv'
  BY <1>3, PromptsDismissed DEF Dismiss
<1>4. ASSUME NEW t \in Tasks, NEW others, StartReserved(t, others),
             UNCHANGED bridge, UNCHANGED replies
      PROVE  PromptsInv'
  BY <1>4, PromptsReserved
<1>5. ASSUME NEW t \in Tasks,
             StartTask(t) \/ RetrySame(t) \/ \E u \in Tasks : RetryOther(t, u)
      PROVE  PromptsInv'
  BY <1>4, <1>5 DEF StartTask, RetrySame, RetryOther
<1>. QED
  BY <1>1, <1>2, <1>3, <1>5

\* A step that opens no prompt and submits no decision.
LEMMA PromptShown ==
  ASSUME NoPermission \notin Permissions, BridgeTypes, PageTypes, CallsInv', PromptsInv,
         UNCHANGED bridge, NEW t \in Tasks, NEW s, states' = Updated(t, s),
         UNCHANGED sessions, StreamFits(t, s), \A u : DecisionsKept(u),
         t \in sessions /\ s.submitting =>
           states[t].submitting /\ s.permission = states[t].permission
  PROVE  PromptsInv'
<1>1. t \in sessions /\ s.submitting => Decides(t, s.permission)'
  BY DEF PromptsInv, PromptInv, Submitting, DecisionsKept
<1>2. \A u : u # t => DecisionsKept(u)
  OBVIOUS
<1>3. \A u \in Tasks : PromptInv(u)
  BY DEF PromptsInv
<1>4. \A u \in Tasks : PromptInv(u)'
  BY <1>1, <1>2, <1>3, PromptUpdated
<1>. QED
  BY <1>4 DEF PromptsInv

LEMMA PromptsOfAnswers ==
  ASSUME NoPermission \notin Permissions, BridgeTypes, PageTypes, CallsInv, CallsInv',
         PromptsInv, NEW r \in replies, r.op # "permission", Answered(r)
  PROVE  PromptsInv'
<1>. DEFINE t == r.task
<1>1. /\ UNCHANGED bridge /\ t \in Tasks /\ AnswerInv(r)
      /\ asked \subseteq asked' /\ Take(r)
  BY DEF Answered, HealthAnswered, PutAnswered, RestoreAnswered, CancelAnswered,
         PermissionAnswered, BridgeTypes, Reply, CallsInv
<1>2. \A u : DecisionsKept(u)
  <2>1. UNCHANGED decided /\ asked \subseteq asked'
        /\ \A q \in replies : q.op = "permission" => q \in replies'
    BY <1>1 DEF bridge, Take
  <2>. QED
    BY <2>1, DecisionsRemain
<1>3. \A u \in sessions : states[u] \in TaskState
  BY DEF PageTypes
<1>4. ASSUME NEW s, states' = Updated(t, s), UNCHANGED sessions, StreamFits(t, s),
             t \in sessions /\ s.submitting =>
               states[t].submitting /\ s.permission = states[t].permission
      PROVE  PromptsInv'
  BY <1>1, <1>2, <1>4, PromptShown
<1>5. CASE UNCHANGED <<sessions, states, streams>>
  <2>1. \A u \in Tasks : Untouched(u)
    BY <1>5 DEF Untouched, CallsInv, TaskInv, SessionInv
  <2>2. view' = view
    BY <1>1 DEF bridge
  <2>. QED
    BY <1>2, <2>1, <2>2, PromptKept DEF PromptsInv
<1>6. ASSUME NEW b \in BOOLEAN, StartFailed(t, b)
      PROVE  PromptsInv'
  <2>. DEFINE s == [states[t] EXCEPT !.unavailable = b, !.error = TRUE,
                                     !.starting = FALSE]
  <2>1. states' = Updated(t, s) /\ streams' = Without(streams, {t}) /\ UNCHANGED sessions
    BY <1>6 DEF StartFailed
  <2>2. t \in sessions =>
          s.submitting = states[t].submitting /\ s.permission = states[t].permission
    BY <1>3 DEF TaskState
  <2>. HIDE DEF s
  <2>. QED
    BY <1>4, <2>1, <2>2 DEF StreamFits
<1>7. ASSUME NEW s, NEW status \in Terminal, FinishTask(t, s, status),
             t \in sessions => s \in TaskState
      PROVE  PromptsInv'
  <2>. DEFINE q == Finished(s, status)
  <2>1. states' = Updated(t, q) /\ streams' = Without(streams, {t}) /\ UNCHANGED sessions
    BY <1>7 DEF FinishTask
  <2>2. t \in sessions => q.submitting = FALSE
    BY <1>7, FinishedState
  <2>. HIDE DEF q
  <2>. QED
    BY <1>4, <2>1, <2>2 DEF StreamFits
<1>8. CASE HealthAnswered(r)
  BY <1>5, <1>6, <1>8 DEF HealthAnswered, page
<1>9. CASE PutAnswered(r)
  <2>1. r.op \in Opening
    BY <1>9 DEF PutAnswered, Opening
  <2>2. t \in sessions /\ states[t].permission = NoPermission
    BY <2>1, OnlyPromise
  <2>3. CASE r.answer = "running"
    <3>. DEFINE s == [states[t] EXCEPT !.task = "running", !.unavailable = FALSE,
                                       !.error = FALSE, !.starting = FALSE]
    <3>1. states' = Updated(t, s) /\ streams' = Connected(t) /\ UNCHANGED sessions
      BY <1>9, <2>3 DEF PutAnswered
    <3>2. s.submitting = states[t].submitting /\ s.permission = states[t].permission
      <4>1. states[t] \in TaskState
        BY <1>3, <2>2
      <4>. QED
        BY <4>1 DEF TaskState
    <3>. HIDE DEF s
    <3>. QED
      BY <1>4, <2>2, <3>1, <3>2 DEF StreamFits
  <2>4. CASE r.answer # "running"
    BY <1>6, <1>9, <2>4 DEF PutAnswered
  <2>. QED
    BY <2>3, <2>4
<1>10. CASE RestoreAnswered(r)
  <2>. DEFINE s == [states[t] EXCEPT !.restoring = FALSE]
  <2>1. r.op = "get" /\ r.op \in Opening
    BY <1>10 DEF RestoreAnswered, Opening
  <2>2. /\ t \in sessions /\ states[t].permission = NoPermission
        /\ t \notin DOMAIN streams
    BY <2>1, OnlyPromise
  <2>3. /\ s \in TaskState /\ s.submitting = states[t].submitting
        /\ s.permission = NoPermission
    <3>1. states[t] \in TaskState
      BY <1>3, <2>2
    <3>. QED
      BY <2>2, <3>1, RestoredState
  <2>. HIDE DEF s
  <2>4. CASE states' = Updated(t, [s EXCEPT !.task = "running"])
             /\ streams' = Connected(t) /\ UNCHANGED sessions
    <3>. DEFINE q == [s EXCEPT !.task = "running"]
    <3>1. q.submitting = s.submitting /\ q.permission = NoPermission
      BY <2>3, RunningState
    <3>2. states' = Updated(t, q) /\ streams' = Connected(t) /\ UNCHANGED sessions
      BY <2>4
    <3>. HIDE DEF q
    <3>. QED
      BY <1>4, <2>2, <2>3, <3>1, <3>2 DEF StreamFits
  <2>5. CASE states' = Updated(t, Finished(s, r.answer)) /\ r.answer \in Terminal
             /\ UNCHANGED <<sessions, streams>>
    <3>1. Finished(s, r.answer).submitting = FALSE
      BY <2>3, <2>5, FinishedState
    <3>. QED
      BY <1>4, <2>2, <2>5, <3>1 DEF StreamFits
  <2>6. CASE states' = Updated(t, [s EXCEPT !.error = TRUE])
             /\ UNCHANGED <<sessions, streams>>
    <3>. DEFINE q == [s EXCEPT !.error = TRUE]
    <3>1. q.submitting = s.submitting /\ q.permission = NoPermission
      BY <2>3, ErrorState
    <3>2. states' = Updated(t, q) /\ UNCHANGED <<sessions, streams>>
      BY <2>6
    <3>. HIDE DEF q
    <3>. QED
      BY <1>4, <2>2, <2>3, <3>1, <3>2 DEF StreamFits
  <2>7. CASE DismissAll({t})
    <3>1. \A u \in Tasks : Untouched(u)
      BY <2>7, DismissUntouched
    <3>2. view' = view
      BY <1>1 DEF bridge
    <3>. QED
      BY <1>2, <3>1, <3>2, PromptKept DEF PromptsInv
  <2>8. r.answer \in {"running", "missing", "lost"} \union Terminal
    BY <1>1, <2>1 DEF AnswerInv
  <2>. QED
    BY <1>10, <2>4, <2>5, <2>6, <2>7, <2>8 DEF RestoreAnswered, s
<1>11. CASE CancelAnswered(r)
  <2>1. CASE r.answer \in Terminal
    BY <1>3, <1>5, <1>7, <1>11, <2>1 DEF CancelAnswered, PageTypes
  <2>2. CASE r.answer \notin Terminal
    <3>1. CASE t \notin sessions
      BY <1>5, <1>11, <2>2, <3>1 DEF CancelAnswered, PageTypes
    <3>2. CASE t \in sessions
      <4>. DEFINE b == r.answer = "missing"
                  q == [states[t] EXCEPT !.unavailable = b, !.error = TRUE,
                                         !.cancelling = FALSE]
      <4>0. b \in BOOLEAN
        OBVIOUS
      <4>1. states' = Updated(t, q) /\ UNCHANGED <<sessions, streams>>
        BY <1>11, <2>2, <3>2 DEF CancelAnswered, PageTypes, Updated
      <4>. HIDE DEF b
      <4>2. q.submitting = states[t].submitting /\ q.permission = states[t].permission
        <5>1. states[t] \in TaskState
          BY <1>3, <3>2
        <5>. QED
          BY <4>0, <5>1 DEF TaskState
      <4>. HIDE DEF q
      <4>. QED
        BY <1>4, <4>1, <4>2 DEF StreamFits
    <3>. QED
      BY <3>1, <3>2
  <2>. QED
    BY <2>1, <2>2
<1>12. ~ PermissionAnswered(r)
  BY DEF PermissionAnswered
<1>. QED
  BY <1>8, <1>9, <1>10, <1>11, <1>12 DEF Answered

\* A decision that fails leaves its prompt open, if it is on the screen still.
LEMMA PromptsDecided ==
  ASSUME NoPermission \notin Permissions, BridgeTypes, PageTypes, CallsInv, CallsInv',
         PromptsInv, NEW r \in replies, NEW t \in Tasks, r.task = t,
         PermissionAnswered(r)
  PROVE  PromptsInv'
<1>1. /\ UNCHANGED bridge /\ AnswerInv(r) /\ r.op = "permission"
      /\ UNCHANGED <<asked, sessions, streams>> /\ replies' = replies \ {r}
  BY DEF PermissionAnswered, Take, BridgeTypes, Reply, CallsInv
<1>2. view' = view /\ decided' = decided
  BY <1>1 DEF bridge
<1>3. \A u : u # t => DecisionsKept(u)
  BY <1>1, <1>2 DEF DecisionsKept, Decides
<1>4. \A p : Decides(t, p) =>
        Decides(t, p)' \/ (p = r.permission /\ r.answer # "ok")
  BY <1>1, <1>2 DEF Decides, AnswerInv
<1>5. CASE /\ states' = [states EXCEPT
                 ![t] = [states[t] EXCEPT !.error = TRUE, !.submitting = FALSE,
                                          !.always = FALSE]]
           /\ t \in DOMAIN states
  <2>0. PICK s : s = [states[t] EXCEPT !.error = TRUE, !.submitting = FALSE,
                                       !.always = FALSE]
    OBVIOUS
  <2>1. states' = Updated(t, s)
    BY <1>5, <2>0 DEF Updated
  <2>2. s.submitting = FALSE /\ s.permission = states[t].permission
    <3>1. states[t] \in TaskState
      BY <1>5 DEF PageTypes
    <3>. QED
      BY <2>0, <3>1, UndecidedState
  <2>3. StreamFits(t, s)
    BY <1>1, <2>2 DEF StreamFits
  <2>4. \A u \in Tasks : PromptInv(u)
    BY DEF PromptsInv
  <2>5. t \in sessions /\ s.submitting => Decides(t, s.permission)'
    BY <2>2
  <2>6. UNCHANGED sessions /\ UNCHANGED bridge
    BY <1>1
  <2>7. \A u \in Tasks : PromptInv(u)'
    BY <1>3, <2>1, <2>3, <2>4, <2>5, <2>6, PromptUpdated
  <2>. QED
    BY <2>7 DEF PromptsInv
<1>6. CASE /\ states' = states
           /\ r.answer = "ok" \/ t \notin sessions \/ states[t].permission # r.permission
  <2>1. \A u \in Tasks : Untouched(u)
    BY <1>1, <1>6 DEF Untouched, CallsInv, TaskInv, SessionInv
  <2>2. \A u \in Tasks : u # t => PromptInv(u)'
    BY <1>2, <1>3, <2>1, PromptKept DEF PromptsInv
  <2>3. Delivered(t) /\ Submitting(t)
    BY <1>1 DEF PromptsInv, PromptInv
  <2>4. Delivered(t)'
    BY <1>1, <1>2, <1>6, <2>3 DEF Delivered, Known, Holds, SettledBy
  <2>5. Submitting(t)'
    BY <1>1, <1>4, <1>6, <2>3 DEF Submitting
  <2>. QED
    BY <2>2, <2>4, <2>5 DEF PromptsInv, PromptInv
<1>. QED
  BY <1>5, <1>6 DEF PermissionAnswered, PageTypes

\* A prompt comes up, goes away or is decided.
LEMMA PromptsOfTask ==
  ASSUME NoPermission \notin Permissions, BridgeTypes, PageTypes, CallsInv, CallsInv',
         PromptsInv, NEW t \in Tasks, LogInv(view[t]),
         \/ StreamEvent(t) \/ StreamLost(t) \/ CancelTask(t)
         \/ \E always \in BOOLEAN : ResolvePermission(t, always)
  PROVE  PromptsInv'
<1>1. /\ UNCHANGED bridge /\ UNCHANGED replies /\ asked \subseteq asked' /\ view' = view
      /\ UNCHANGED decided
  BY DEF StreamEvent, StreamLost, CancelTask, ResolvePermission, bridge
<1>2. \A u : DecisionsKept(u)
  BY <1>1, DecisionsRemain
<1>3. t \in sessions => states[t] \in TaskState
  BY DEF PageTypes
<1>4. CASE StreamLost(t)
  <2>. DEFINE q == [states[t] EXCEPT !.error = TRUE]
  <2>1. states' = Updated(t, q) /\ streams' = Without(streams, {t}) /\ UNCHANGED sessions
    BY <1>4 DEF StreamLost
  <2>2. t \in sessions =>
          q.submitting = states[t].submitting /\ q.permission = states[t].permission
    BY <1>3, ErrorState
  <2>. HIDE DEF q
  <2>3. StreamFits(t, q)
    BY <2>1 DEF StreamFits
  <2>. QED
    BY <1>1, <1>2, <2>1, <2>2, <2>3, PromptShown
<1>5. CASE CancelTask(t)
  <2>. DEFINE q == [states[t] EXCEPT !.cancelling = TRUE, !.error = FALSE]
  <2>1. states' = Updated(t, q) /\ UNCHANGED <<sessions, streams>> /\ t \in sessions
    BY <1>5 DEF CancelTask, Updated, PageTypes
  <2>2. q.submitting = states[t].submitting /\ q.permission = states[t].permission
    BY <1>3, <2>1, CancellingState
  <2>. HIDE DEF q
  <2>3. StreamFits(t, q)
    BY <2>1, <2>2 DEF StreamFits
  <2>. QED
    BY <1>1, <1>2, <2>1, <2>2, <2>3, PromptShown
<1>6. ASSUME NEW always \in BOOLEAN, ResolvePermission(t, always)
      PROVE  PromptsInv'
  <2>0. PICK s, p : /\ s = Submitted([states[t] EXCEPT !.always = @ \/ always])
                    /\ p = states[t].permission
    OBVIOUS
  <2>1. /\ states' = Updated(t, s) /\ UNCHANGED <<sessions, streams>> /\ t \in sessions
        /\ asked' = asked \union {Ask("permission", t, p)}
    BY <1>6, <2>0 DEF ResolvePermission, Updated, PageTypes
  <2>2. s.permission = p
    <3>. DEFINE b == states[t].always \/ always
    <3>1. b \in BOOLEAN /\ s = Submitted([states[t] EXCEPT !.always = b])
      BY <2>0
    <3>2. states[t] \in TaskState
      BY <1>3, <2>1
    <3>. HIDE DEF b
    <3>3. Submitted([states[t] EXCEPT !.always = b]).permission = states[t].permission
      BY <3>1, <3>2, DecidedState
    <3>. QED
      BY <2>0, <3>1, <3>3
  <2>3. Decides(t, p)'
    <3>1. Ask("permission", t, p) \in asked'
      BY <2>1
    <3>. QED
      BY <3>1 DEF Decides, Ask
  <2>4. StreamFits(t, s)
    BY <2>0, <2>1, <2>2 DEF StreamFits
  <2>5. t \in sessions /\ s.submitting => Decides(t, s.permission)'
    BY <2>2, <2>3
  <2>6. \A u \in Tasks : PromptInv(u)
    BY DEF PromptsInv
  <2>7. \A u : u # t => DecisionsKept(u)
    BY <1>2
  <2>8. UNCHANGED bridge /\ UNCHANGED sessions
    BY <1>1, <2>1
  <2>9. states' = Updated(t, s)
    BY <2>1
  <2>10. \A u \in Tasks : PromptInv(u)'
    BY <2>4, <2>5, <2>6, <2>7, <2>8, <2>9, PromptUpdated
  <2>. QED
    BY <2>10 DEF PromptsInv
<1>7. CASE StreamEvent(t)
  <2>. DEFINE event == view[t].events[streams[t] + 1]
              n == streams[t]
  <2>1. /\ t \in sessions /\ t \in DOMAIN streams /\ n \in Nat
        /\ states[t] \in TaskState /\ UNCHANGED sessions
    BY <1>7 DEF StreamEvent, CallsInv, TaskInv, SessionInv, PageTypes, FinishTask
  <2>2. /\ n + 1 \in 1 .. Len(view[t].events) /\ event \in Bridge!Event
        /\ event.permission \in Permissions \union {NoPermission}
    <3>1. view[t].events \in Seq(Bridge!Event)
      BY ViewTypes DEF BridgeTypes
    <3>2. n + 1 \in 1 .. Len(view[t].events)
      BY <1>7, <2>1, <3>1 DEF StreamEvent
    <3>3. event \in Bridge!Event
      BY <3>1, <3>2
    <3>. QED
      BY <3>2, <3>3 DEF Bridge!Event
  <2>3. CASE event.type \in Terminal
    <3>. DEFINE s == [states[t] EXCEPT !.shown = @ + 1]
                q == Finished(s, event.type)
    <3>1. s \in TaskState
      BY <2>1 DEF TaskState
    <3>. HIDE DEF s
    <3>2. q.submitting = FALSE
      BY <2>3, <3>1, FinishedState
    <3>3. states' = Updated(t, q) /\ streams' = Without(streams, {t})
      BY <1>7, <2>3 DEF StreamEvent, FinishTask, s
    <3>. HIDE DEF q, event, n
    <3>4. StreamFits(t, q)
      BY <3>3 DEF StreamFits
    <3>. QED
      BY <1>1, <1>2, <2>1, <3>2, <3>3, <3>4, PromptShown
  <2>4. CASE event.type \notin Terminal
    <3>. DEFINE q == Shown(states[t], event)
    <3>1. /\ states' = Updated(t, q) /\ streams' = [streams EXCEPT ![t] = @ + 1]
          /\ states[t].always /\ event.type = "permission-required" =>
               asked' = asked \union {Ask("permission", t, event.permission)}
      BY <1>7, <2>4 DEF StreamEvent
    <3>2. \A u \in Tasks : u # t => Untouched(u)
      BY <2>1, <3>1, OthersUntouched
    <3>3. \A u \in Tasks : u # t => PromptInv(u)'
      BY <1>1, <1>2, <3>2, PromptKept DEF PromptsInv
    <3>4. states'[t] = q /\ streams'[t] = n + 1 /\ t \in DOMAIN streams'
      BY <2>1, <3>1, UpdatedIs DEF PageTypes
    <3>5. Delivered(t) /\ Submitting(t)
      BY DEF PromptsInv, PromptInv
    <3>6. Delivered(t)'
      <4>1. ASSUME Known(t), NEW p \in Permissions
            PROVE  q.permission = p <=>
                     /\ \E i \in 1 .. n + 1 : Holds(view[t], i, "permission-required", p)
                     /\ ~ SettledBy(view[t], n + 1, p)
        <5>1. states[t].permission = p <=>
                /\ \E i \in 1 .. n : Holds(view[t], i, "permission-required", p)
                /\ ~ SettledBy(view[t], n, p)
          BY <2>1, <3>5, <4>1 DEF Delivered
        <5>. HIDE DEF n
        <5>. QED
          BY <2>1, <2>2, <5>1, PromptGoesOn DEF n
      <4>2. n + 1 <= Len(view[t].events)
        BY <2>2
      <4>. HIDE DEF q, n, event
      <4>. QED
        BY <1>1, <3>4, <4>1, <4>2 DEF Delivered, Known, Holds, SettledBy
    <3>7. Submitting(t)'
      <4>1. PICK e, s, o : e = event /\ s = states[t] /\ o = Shown(s, e)
        OBVIOUS
      <4>2. s \in TaskState /\ e.permission \in Permissions \union {NoPermission}
        BY <2>1, <2>2, <4>1
      <4>3. states'[t] = o /\ sessions' = sessions
        BY <2>1, <3>4, <4>1
      <4>4. /\ e.type = "permission-required" =>
                 o.permission = e.permission /\ o.submitting = s.always
            /\ e.type = "permission-resolved" /\ s.permission = e.permission =>
                 o.permission = NoPermission /\ o.submitting = FALSE
            /\ e.type # "permission-required"
               /\ ~ (e.type = "permission-resolved" /\ s.permission = e.permission) =>
                 o.permission = s.permission /\ o.submitting = s.submitting
        <5>1. /\ e.type = "permission-required" =>
                   Shown(s, e).permission = e.permission /\ Shown(s, e).submitting = s.always
              /\ e.type = "permission-resolved" /\ s.permission = e.permission =>
                   Shown(s, e).permission = NoPermission /\ Shown(s, e).submitting = FALSE
              /\ e.type # "permission-required"
                 /\ ~ (e.type = "permission-resolved" /\ s.permission = e.permission) =>
                   Shown(s, e).permission = s.permission /\ Shown(s, e).submitting = s.submitting
          BY <4>2, ShownIs
        <5>. QED
          BY <4>1, <5>1
      <4>5. s.always /\ e.type = "permission-required" => Decides(t, e.permission)'
        <5>1. s.always /\ e.type = "permission-required" =>
                Ask("permission", t, e.permission) \in asked'
          BY <3>1, <4>1
        <5>. QED
          BY <5>1 DEF Decides, Ask
      <4>6. s.submitting => Decides(t, s.permission)'
        BY <1>2, <2>1, <3>5, <4>1 DEF Submitting, DecisionsKept
      <4>7. o.submitting => Decides(t, o.permission)'
        BY <4>4, <4>5, <4>6
      <4>. QED
        BY <4>3, <4>7 DEF Submitting
    <3>. QED
      BY <3>3, <3>6, <3>7 DEF PromptsInv, PromptInv
  <2>. QED
    BY <2>3, <2>4
<1>. QED
  BY <1>4, <1>5, <1>6, <1>7

LEMMA PromptsStep ==
  ASSUME NoPermission \notin Permissions, BridgeTypes, PageTypes, CallsInv, CallsInv',
         \A t \in Tasks : LogInv(view[t]), PromptsInv, [StoreNext]_vars
  PROVE  PromptsInv'
<1>1. CASE UNCHANGED vars
  <2>1. view' = view /\ UNCHANGED <<decided, asked, replies, sessions, states, streams>>
    BY <1>1 DEF vars, bridge, page
  <2>2. \A u : DecisionsKept(u)
    BY <2>1 DEF DecisionsKept, Decides
  <2>3. \A u \in Tasks : Untouched(u)
    BY <2>1 DEF Untouched, CallsInv, TaskInv, SessionInv
  <2>. QED
    BY <2>1, <2>2, <2>3, PromptKept DEF PromptsInv
<1>2. CASE BridgeTask \/ BridgeRestart \/ \E t \in Tasks : BridgeAnswers(t)
  BY <1>2, PromptsOfBridge
<1>3. CASE \/ DismissFailed \/ Reload
           \/ \E t \in Tasks :
                \/ StartTask(t) \/ RetrySame(t) \/ \E u \in Tasks : RetryOther(t, u)
                \/ Dismiss(t)
  BY <1>3, PromptsOfSessions
<1>4. ASSUME NEW t \in Tasks,
             \/ StreamEvent(t) \/ StreamLost(t) \/ CancelTask(t)
             \/ \E always \in BOOLEAN : ResolvePermission(t, always)
      PROVE  PromptsInv'
  <2>1. LogInv(view[t])
    OBVIOUS
  <2>. QED
    BY <1>4, <2>1, PromptsOfTask
<1>5. ASSUME NEW r \in replies, Answered(r)
      PROVE  PromptsInv'
  <2>1. r.task \in Tasks
    BY DEF BridgeTypes, Reply
  <2>2. CASE r.op = "permission"
    <3>1. PermissionAnswered(r)
      BY <1>5, <2>2 DEF Answered, HealthAnswered, PutAnswered, RestoreAnswered,
                        CancelAnswered
    <3>. QED
      BY <2>1, <3>1, PromptsDecided
  <2>3. CASE r.op # "permission"
    BY <1>5, <2>3, PromptsOfAnswers
  <2>. QED
    BY <2>2, <2>3
<1>6. BridgeTask \/ BridgeRestart \/ (\E t \in Tasks : BridgeAnswers(t))
      \/ DismissFailed \/ Reload
      \/ (\E t \in Tasks :
            \/ StartTask(t) \/ RetrySame(t) \/ \E u \in Tasks : RetryOther(t, u)
            \/ Dismiss(t))
      \/ (\E t \in Tasks :
            \/ StreamEvent(t) \/ StreamLost(t) \/ CancelTask(t)
            \/ \E always \in BOOLEAN : ResolvePermission(t, always))
      \/ (\E r \in replies : Answered(r)) \/ UNCHANGED vars
  BY DEF StoreNext
<1>. QED
  BY <1>1, <1>2, <1>3, <1>4, <1>5, <1>6

-----------------------------------------------------------------------------
(* The theorems.                                                           *)

LEMMA StoreBegins ==
  ASSUME StoreAssumption, StoreInit
  PROVE  StoreInv
<1>1. /\ asked = {} /\ replies = {} /\ sessions = {} /\ nonRestorable = {}
      /\ beginning = {} /\ decided = {} /\ used = {} /\ overtaken = {}
      /\ DOMAIN states = {} /\ DOMAIN streams = {}
      /\ reloads = 0 /\ restarts = 0
  BY DEF StoreInit
<1>2. \A t \in Tasks : /\ view[t].status = "absent" /\ view[t].events = <<>>
                       /\ view[t].permission = NoPermission
  BY DEF StoreInit, Bridge!Init
<1>3. StoreTypeOK
  <2>1. Bridge!TypeOK
    BY DEF StoreInit, Bridge!Init, Bridge!TypeOK, Bridge!TaskView, Bridge!Statuses
  <2>. QED
    BY <1>1, <2>1 DEF StoreTypeOK, StoreAssumption
<1>4. ListsInv
  BY <1>1 DEF ListsInv
<1>5. ASSUME NEW t \in Tasks
      PROVE  TaskInv(t)
  <2>1. /\ Promised(t) = {} /\ Settled(t) = {} /\ Puts(t) = {} /\ Quiet(t)
        /\ ~ Cancels(t) /\ ~ Known(t) /\ view[t].status # "running"
        /\ t \notin sessions /\ t \notin DOMAIN streams
    BY <1>1, <1>2 DEF Promised, Settled, Puts, Quiet, Cancels, Known
  <2>. QED
    BY <2>1 DEF TaskInv, OpeningInv, SessionInv, StartInv, RememberedInv, OutcomeInv
<1>6. ASSUME NEW t \in Tasks
      PROVE  LogInv(view[t])
  <2>1. Len(view[t].events) = 0
    BY <1>2
  <2>. QED
    BY <2>1 DEF LogInv, EndsInv
<1>7. \A t \in Tasks : PromptInv(t)
  BY <1>1 DEF PromptInv, Delivered, Submitting
<1>. QED
  BY <1>1, <1>3, <1>4, <1>5, <1>6, <1>7 DEF StoreInv

LEMMA StoreStep ==
  ASSUME StoreAssumption, StoreInv, [StoreNext]_vars
  PROVE  StoreInv'
<1>1. BridgeTypes /\ PageTypes
  BY TypesAre DEF StoreInv
<1>2. /\ CallsInv /\ PromptsInv
      /\ \A r \in replies : AnswerInv(r)
      /\ \A t \in Tasks : LogInv(view[t])
  BY DEF StoreInv, CallsInv, PromptsInv
<1>3. BridgeTypes' /\ PageTypes'
  BY <1>1, <1>2, TypesStep
<1>4. CallsInv'
  BY <1>1, <1>2, CallsStep
<1>5. \A t \in Tasks : LogInv(view'[t])
  <2>1. CASE UNCHANGED vars
    BY <1>2, <2>1 DEF vars, bridge
  <2>2. CASE StoreNext
    BY <1>1, <1>2, <2>2, LogsStep
  <2>. QED
    BY <2>1, <2>2
<1>6. PromptsInv'
  <2>1. NoPermission \notin Permissions
    BY DEF StoreAssumption
  <2>. QED
    BY <1>1, <1>2, <1>4, <2>1, PromptsStep
<1>7. (StoreTypeOK /\ ListsInv)'
  BY <1>3 DEF StoreTypeOK, ListsInv, BridgeTypes, PageTypes
<1>8. \A t \in Tasks : LogInv(view[t])'
  BY <1>5 DEF LogInv, EndsInv, RequestInv, Holds, SettledBy
<1>. QED
  BY <1>4, <1>6, <1>7, <1>8 DEF StoreInv, CallsInv, PromptsInv

(* The invariant of the store (stores/agent.ts): what the page knows of a  *)
(* task, what it has asked and been answered about it, and what the bridge *)
(* has begun, fit together in every state.                                 *)
THEOREM StoreInvariant == StoreSpec => []StoreInv
<1>1. StoreInit => StoreInv
  BY StoreAssumption, StoreBegins
<1>2. StoreInv /\ [StoreNext]_vars => StoreInv'
  BY StoreAssumption, StoreStep
<1>. QED
  BY <1>1, <1>2, PTL DEF StoreSpec

(* The variables of the page and of the bridge always have their types.    *)
THEOREM StoreTypeCorrect == StoreSpec => []StoreTypeOK
<1>1. StoreInv => StoreTypeOK
  BY DEF StoreInv
<1>. QED
  BY <1>1, StoreInvariant, PTL

(* There are a state and a session of the same tasks, streams only of those *)
(* that are shown running, and never two imports, or two drafts for one    *)
(* contact, at a time (stores/agent.ts:389-420).                           *)
THEOREM SessionsAlwaysAgree == StoreSpec => []SessionsAgree
<1>1. ASSUME StoreInv
      PROVE  ListsAgree
  <2>1. DOMAIN states = sessions /\ \A t \in DOMAIN streams : t \in Tasks
    BY <1>1 DEF StoreInv, ListsInv, StoreTypeOK
  <2>2. \A t \in Tasks : SessionInv(t)
    BY <1>1 DEF StoreInv, TaskInv
  <2>. QED
    BY <2>1, <2>2 DEF ListsAgree, SessionInv
<1>2. ASSUME StoreInv
      PROVE  Cardinality(sessions \intersect SoleTasks) <= 1
  <2>. DEFINE S == sessions \intersect SoleTasks
  <2>1. \A t, u \in S : t = u
    BY <1>2 DEF StoreInv, ListsInv
  <2>2. S = {} \/ \E t : S = {t}
    BY <2>1
  <2>3. CASE S = {}
    BY <2>3, FS_EmptySet
  <2>4. ASSUME NEW t, S = {t}
        PROVE  Cardinality(S) <= 1
    <3>1. Cardinality({t}) = 1
      BY FS_Singleton
    <3>. QED
      BY <2>4, <3>1
  <2>. QED
    BY <2>2, <2>3, <2>4
<1>3. StoreInv => SessionsAgree
  BY <1>1, <1>2 DEF SessionsAgree
<1>. QED
  BY <1>3, StoreInvariant, PTL

(* An outcome that is shown is the bridge's, as long as the bridge has not *)
(* been restarted: no late answer, replay or restore makes one up          *)
(* (stores/agent.ts: restoreSession, cancelTask, applyEvent).              *)
THEOREM OutcomesAreTrue == StoreSpec => []OutcomeIsTrue
<1>1. StoreInv => OutcomeIsTrue
  BY DEF StoreInv, ListsInv, StoreTypeOK, TaskInv, OutcomeInv, OutcomeIsTrue
<1>. QED
  BY <1>1, StoreInvariant, PTL

(* A task that runs would be found again after a reload, unless a reload   *)
(* came while its start was under way (stores/agent.ts: saveSessions).     *)
THEOREM RunningTasksAreRemembered == StoreSpec => []RunningIsRemembered
<1>1. StoreInv => RunningIsRemembered
  BY DEF StoreInv, TaskInv, RememberedInv, RunningIsRemembered, Persisted
<1>. QED
  BY <1>1, StoreInvariant, PTL

(* The prompt on the screen is the one that is open, and its buttons wait  *)
(* for a decision that is under way or that the bridge has accepted        *)
(* (stores/agent.ts:559-620).                                              *)
THEOREM PromptsAreCurrent == StoreSpec => []PromptIsCurrent
<1>1. ASSUME StoreInv
      PROVE  PromptIsDelivered
  <2>1. \A t \in DOMAIN streams : t \in Tasks /\ Delivered(t)
    BY <1>1 DEF StoreInv, StoreTypeOK, PromptInv
  <2>. QED
    BY <2>1 DEF PromptIsDelivered, Delivered, Holds, SettledBy
<1>2. ASSUME StoreInv
      PROVE  SubmittingIsReal
  <2>1. \A t \in DOMAIN states : t \in Tasks /\ t \in sessions /\ Submitting(t)
    BY <1>2 DEF StoreInv, ListsInv, StoreTypeOK, PromptInv
  <2>. QED
    BY <2>1 DEF SubmittingIsReal, Submitting, Decides
<1>3. StoreInv => PromptIsCurrent
  BY <1>1, <1>2 DEF PromptIsCurrent
<1>. QED
  BY <1>3, StoreInvariant, PTL

=============================================================================
