----------------------------- MODULE OutreachStore -----------------------------
(***************************************************************************)
(* The client's Outreach store (stores/outreach.ts) with the Apply or the  *)
(* Track view that drives it: the contacts of the post that is open, the   *)
(* draft that is edited, and what becomes of the results of Agent tasks,   *)
(* of which many run at a time and end while anything else is on the       *)
(* screen.                                                                 *)
(*                                                                         *)
(* The server's contacts are rows that a request reads or changes at one   *)
(* moment; its answer reaches the page later, or never.  Of the Agent      *)
(* store (module AgentStore) this module keeps what the Outreach store     *)
(* reads: the sessions, how their tasks ended and with which output.       *)
(***************************************************************************)
EXTENDS Naturals, Sequences, FiniteSets, Functions, TLC

CONSTANTS
  PostIds,      \* job posts
  Discoveries,  \* ids of contact tasks, each generated once
  Revisions,    \* ids of draft tasks
  People,       \* profile URLs that a discovery can return
  None,         \* null
  MaxContacts,  \* bound: contacts that are ever created
  MaxCalls,     \* bound: requests the page ever makes of the server
  MaxReloads,   \* bound: reloads of the page
  Starts        \* what was saved, and used up of the bounds, before the start

ASSUME OutreachAssumption ==
  /\ None \notin PostIds \union Discoveries \union Revisions \union People
  /\ Discoveries \intersect Revisions = {}
  /\ {"found", "typed"} \intersect (Revisions \union {None}) = {}
  /\ MaxContacts \in Nat /\ MaxCalls \in Nat /\ MaxReloads \in Nat

VARIABLES
  workspace,  \* "apply" or "track": the view the page shows, once and for all
  saved,      \* the server's contacts
  created,    \* history: how many contacts the server has created
  orphans,    \* creations that a page asked for before it was reloaded
  overtaken,  \* history: people whose result was being saved at a reload
  sessions,   \* the Agent store's outreach sessions, with resultStates
  spent,      \* task ids that were generated
  queues,     \* contactResultQueues: per post, the tasks whose results are to
              \* be saved, with the person each returned
  work,       \* per post, how far the first of them is
  calls,      \* other requests under way
  asked,      \* how many there have been
  postId, selected, contacts, contact, draft, updating, loading, returnPost,
  entries,    \* TrackView: the contacts of the list it loaded last
  overlapped, \* history: contacts removed while others were read, or out of sight
  reloads

server == <<saved, created, orphans>>
results == <<sessions, spent, queues, work>>
page == <<postId, selected, contacts, contact, draft, updating, loading, returnPost>>
outreachVars == <<workspace, server, overtaken, results, calls, asked, page, entries, overlapped,
                  reloads>>

TaskIds == Discoveries \union Revisions

\* A draft is the text a contact was found with, one the user typed, or one
\* a revision returned.
Text == {"found", "typed"} \union Revisions

\* Whether a contact was messaged is left out.
Contact == [id : 1 .. MaxContacts, post : PostIds, person : People,
            draft : Text]

\* What earlier pages have left behind: ids in the order of creation, no
\* person twice for a post, and no draft of a task that is still to come.
ASSUME StartsAssumption ==
  \A start \in Starts :
    /\ start.workspace \in {"apply", "track"}
    /\ start.saved \subseteq Contact /\ Cardinality(start.saved) \in 0 .. MaxContacts
    /\ \A c \in start.saved : c.id <= Cardinality(start.saved)
    /\ \A c, d \in start.saved :
         c.id = d.id \/ (c.post = d.post /\ c.person = d.person) => c = d
    /\ start.spent \subseteq TaskIds
    /\ \A c \in start.saved : c.draft \in Revisions => c.draft \in start.spent

\* result: the entry of resultStates - none, one without an error (set),
\* saving, saving though the contacts could not be listed (unlisted), or an
\* error after which the result can be saved again or the task has to run
\* again.
Session == [post : PostIds, id : 0 .. MaxContacts, draft : Text \union {None},
            status : {"running", "completed", "failed", "cancelled", "unavailable"},
            output : People \union Revisions \union {None},
            result : {"none", "set", "saving", "unlisted", "save", "task"}]

Call == [op : {"list", "draft", "messaged", "remove", "track"},
         post : PostIds \union {None}, id : 0 .. MaxContacts,
         draft : Text \union {None},
         task : TaskIds \union {None},  \* the task whose context is restored
         current : BOOLEAN,             \* its revision is still the latest
         answer : {"none", "ok", "failed"}, got : SUBSET Contact]

Idle == [stage |-> "idle", got |-> None]

\* The sessions with t among them, or without ts.
With(map, t, session) ==
  [u \in DOMAIN map \union {t} |-> IF u = t THEN session ELSE map[u]]
Without(ts) == Restrict(sessions, DOMAIN sessions \ ts)

Of(post, cs) == {c \in cs : c.post = post}
Running(t) == sessions[t].status = "running"
Saving(t) == sessions[t].result \in {"saving", "unlisted"}
Active == selected # None /\ Running(selected)

\* An output that is not what the task was for counts as a failure.
Forgotten(s) ==
  \/ s.status \in {"failed", "cancelled", "unavailable"}
  \/ s.status = "completed" /\ s.output = None

\* dismissFailedTasks.
Remaining == [t \in {u \in DOMAIN sessions : ~ Forgotten(sessions[u])} |-> sessions[t]]

Ask(op, post, c, task) ==
  [op |-> op, post |-> post, id |-> IF c = None THEN 0 ELSE c.id,
   draft |-> IF op = "draft" THEN draft ELSE None, task |-> task,
   current |-> TRUE, answer |-> "none", got |-> {}]

\* A revision counter goes on: earlier requests of its kind are outdated.
Outdated(ops, cs) == {IF k.op \in ops THEN [k EXCEPT !.current = FALSE] ELSE k : k \in cs}

Updates == {"draft", "messaged", "remove"}

-----------------------------------------------------------------------------
(* What is open.                                                           *)

\* openForPost(post, taskId), with clearView when the post changes.  known:
\* the contacts that are shown at once.
OpenFor(p, task, kept, known) ==
  LET t == IF task \in DOMAIN kept /\ kept[task].post = p THEN task ELSE None
      own == IF t \in Revisions THEN {c \in known : c.id = kept[t].id} ELSE {}
  IN  /\ postId' = p
      /\ selected' = t
      /\ contacts' = known
      /\ contact' = IF own = {} THEN None ELSE CHOOSE c \in own : TRUE
      /\ draft' = IF t \in Revisions THEN kept[t].draft ELSE None
      /\ returnPost' = IF returnPost = p THEN None ELSE returnPost
      /\ updating' = (updating /\ postId = p)

\* The requests that go on when p is opened: clearView outdates all others.
Kept(p) == IF postId = p THEN calls ELSE Outdated({"list"} \union Updates, calls)

Shown(p) == IF postId = p THEN contacts ELSE {}

Counted == asked < MaxCalls /\ asked' = asked + 1

\* fetchContacts(p), for a task that is restored or for the list itself.
Fetch(p, task, cs) ==
  /\ Counted
  /\ calls' = Outdated({"list"}, cs) \union {Ask("list", p, None, task)}
  /\ loading' = TRUE

\* ApplyView.openOutreach.
OpenOutreach(p) ==
  /\ workspace = "apply"
  /\ \/ \E t \in DOMAIN sessions : sessions[t].post = p
     \/ ~ (postId = p /\ (loading \/ updating))
  /\ sessions' = Remaining
  /\ OpenFor(p, None, Remaining, Shown(p))
  /\ Fetch(p, None, Kept(p))
  /\ UNCHANGED <<server, overtaken, spent, queues, work, entries, overlapped, reloads>>

\* TrackView: another application is selected, and its contacts are shown as
\* they were when the list was loaded.
TrackPost(p) ==
  /\ workspace = "track" /\ entries # None /\ postId # p
  /\ sessions' = Remaining
  /\ OpenFor(p, None, Remaining, Of(p, entries))
  /\ calls' = Kept(p)
  /\ loading' = FALSE
  /\ UNCHANGED <<server, overtaken, spent, queues, work, entries, overlapped, reloads, asked>>

\* restoreTaskContext: when the view is opened, after a reload or a
\* navigation, or when the contacts of a task could not be listed.
RestoreTask(t) ==
  /\ t \in DOMAIN sessions /\ t = selected
  /\ LET p == sessions[t].post IN
       /\ sessions' = Remaining
       /\ OpenFor(p, t, Remaining, Shown(p))
       /\ Fetch(p, t, Kept(p))
  /\ UNCHANGED <<server, overtaken, spent, queues, work, entries, overlapped, reloads>>

\* openTask, of a discovery: the list of contacts shows no draft task.
OpenTask(t) ==
  /\ t \in Discoveries \intersect DOMAIN sessions /\ sessions[t].post = postId
  /\ sessions' = Remaining
  /\ OpenFor(postId, t, Remaining, contacts)
  /\ UNCHANGED <<server, overtaken, spent, queues, work, calls, loading, entries,
                 overlapped, reloads, asked>>

\* reset: another post is selected in the Apply view.
Reset ==
  /\ workspace = "apply" /\ postId # None
  /\ sessions' = Remaining
  /\ postId' = None /\ selected' = None
  /\ contacts' = {} /\ contact' = None /\ draft' = None
  /\ updating' = FALSE /\ loading' = FALSE /\ returnPost' = None
  /\ calls' = Outdated({"list"} \union Updates, calls)
  /\ UNCHANGED <<server, overtaken, spent, queues, work, entries, overlapped, reloads, asked>>

\* selectContact, from the list, which is hidden while it is loaded.
SelectContact(c) ==
  /\ c \in contacts /\ ~ loading
  /\ selected' = None /\ contact' = c /\ draft' = c.draft
  /\ UNCHANGED <<server, overtaken, results, calls, postId, contacts, updating,
                 loading, returnPost, entries, overlapped, reloads, asked>>

\* OutreachPanel.showContacts: a task that is over is dismissed
\* (clearInactiveTask), and what is left without a task is closed.
ShowContacts ==
  LET over == selected # None /\ ~ Active /\ ~ Saving(selected)
      closed == selected = None \/ over
  IN  /\ selected # None \/ contact # None
      /\ sessions' = IF over THEN Without({selected}) ELSE sessions
      /\ selected' = IF over THEN None ELSE selected
      /\ contact' = IF closed THEN None ELSE contact
      /\ draft' = IF closed THEN None ELSE draft
      /\ UNCHANGED <<server, overtaken, spent, queues, work, calls, postId, contacts,
                     updating, loading, returnPost, entries, overlapped, reloads, asked>>

\* Mutant of ClosePanel: a task that is gone stays selected.
ClosePanelSelected ==
  /\ sessions' = Remaining /\ sessions' # sessions
  /\ UNCHANGED <<server, overtaken, spent, queues, work, calls, page, entries, overlapped,
                 reloads, asked>>

\* The panel closes or the route changes: dismissFailedTasks, after which the
\* store's watch deselects a task that is gone.
ClosePanel ==
  /\ sessions' = Remaining /\ sessions' # sessions
  /\ selected' = IF selected \in DOMAIN Remaining THEN selected ELSE None
  /\ UNCHANGED <<server, overtaken, spent, queues, work, calls, postId, contacts, contact,
                 draft, updating, loading, returnPost, entries, overlapped, reloads, asked>>

-----------------------------------------------------------------------------
(* Requests that read or change contacts.                                  *)

\* The user edits the draft, which is locked while a task is on the screen.
Type ==
  /\ contact # None /\ ~ Active /\ draft' = "typed" /\ draft # "typed"
  /\ UNCHANGED <<server, overtaken, results, calls, postId, selected, contacts, contact,
                 updating, loading, returnPost, entries, overlapped, reloads, asked>>

\* updateContactMessaged, saveDraft and removeContact: one at a time.
Change(op) ==
  /\ op \in Updates
  /\ contact # None /\ ~ updating /\ Counted
  /\ op = "draft" => draft # contact.draft /\ draft # None
  /\ op = "remove" => ~ Active
  /\ updating' = TRUE
  /\ calls' = Outdated(Updates, calls) \union {Ask(op, postId, contact, None)}
  /\ UNCHANGED <<server, overtaken, results, postId, selected, contacts, contact, draft,
                 loading, returnPost, entries, overlapped, reloads>>

\* loadTrackedPosts.
LoadTracked ==
  /\ workspace = "track" /\ Counted
  /\ calls' = Outdated({"track"}, calls) \union {Ask("track", None, None, None)}
  /\ UNCHANGED <<server, overtaken, results, page, entries, overlapped, reloads>>

\* The server handles a request, or fails.  A contact that is gone is 404.
Handle(k) ==
  LET old == {c \in saved : c.id = k.id /\ c.post = k.post}
      new == CASE k.op = "draft" -> {[c EXCEPT !.draft = k.draft] : c \in old}
               [] k.op = "messaged" -> old
               [] OTHER -> {}
      reads == k.op \in {"list", "track"}
      Answered(answer, got) ==
        calls' = (calls \ {k}) \union {[k EXCEPT !.answer = answer, !.got = got]}
  IN  /\ k \in calls /\ k.answer = "none"
      /\ \/ /\ reads
            /\ Answered("ok", IF k.op = "list" THEN Of(k.post, saved) ELSE saved)
            /\ UNCHANGED saved
         \/ /\ ~ reads /\ old # {}
            /\ saved' = (saved \ old) \union new
            /\ Answered("ok", new)
         \/ Answered("failed", {}) /\ UNCHANGED saved
      /\ UNCHANGED <<created, orphans, overtaken, results, page, entries, overlapped,
                     reloads, asked>>

Ids(cs) == {c.id : c \in cs}

\* Contacts that were read earlier are on their way to the page.
Reading == loading \/ \E p \in PostIds : work[p] # Idle

\* What the list answer makes of a restored task: its contact and draft, or
\* an error after which the task has to run again.
Restored(t, got) ==
  LET own == {c \in got : c.id = sessions[t].id}
  IN  IF t \in Revisions /\ selected = t
      THEN /\ contact' = IF own = {} THEN contact ELSE CHOOSE c \in own : TRUE
           /\ draft' = IF own = {} THEN draft ELSE sessions[t].draft
           /\ sessions' = IF own = {} THEN [sessions EXCEPT ![t].result = "task"]
                                      ELSE sessions
      ELSE UNCHANGED <<contact, draft, sessions>>

\* Mutant of Listed: the answer of any list request is taken.
ListedLate(k) ==
  /\ k \in calls /\ k.op = "list" /\ k.answer = "ok" /\ postId = k.post
  /\ contacts' = k.got \union {c \in contacts : c.id \notin Ids(k.got)}
  /\ loading' = (loading /\ ~ k.current)
  /\ calls' = calls \ {k}
  /\ IF k.task \in DOMAIN sessions
     THEN Restored(k.task, k.got) ELSE UNCHANGED <<contact, draft, sessions>>
  /\ UNCHANGED <<server, overtaken, spent, queues, work, postId, selected, updating,
                 returnPost, entries, overlapped, reloads, asked>>

\* The list is merged: contacts that are shown and not in it stay.
Listed(k) ==
  /\ k \in calls /\ k.op = "list" /\ k.answer = "ok" /\ k.current
  /\ contacts' = k.got \union {c \in contacts : c.id \notin Ids(k.got)}
  /\ loading' = FALSE
  /\ calls' = calls \ {k}
  /\ IF k.task \in DOMAIN sessions
     THEN Restored(k.task, k.got) ELSE UNCHANGED <<contact, draft, sessions>>
  /\ UNCHANGED <<server, overtaken, spent, queues, work, postId, selected, updating,
                 returnPost, entries, overlapped, reloads, asked>>

\* The task that was restored may run again, also while its result is saved.
ListFailed(k) ==
  /\ k \in calls /\ k.op = "list" /\ k.answer = "failed" /\ k.current
  /\ loading' = FALSE
  /\ calls' = calls \ {k}
  /\ sessions' = IF k.task \in DOMAIN sessions
                 THEN [sessions EXCEPT
                         ![k.task].result = IF Saving(k.task) THEN "unlisted" ELSE "task"]
                 ELSE sessions
  /\ UNCHANGED <<server, overtaken, spent, queues, work, postId, selected, contacts,
                 contact, draft, updating, returnPost, entries, overlapped, reloads, asked>>

\* Whatever answers an outdated request is dropped.
Drop(k) ==
  /\ k \in calls /\ k.answer # "none" /\ ~ k.current
  /\ calls' = calls \ {k}
  /\ overlapped' = IF k.op = "remove" THEN overlapped \union {k.id} ELSE overlapped
  /\ UNCHANGED <<server, overtaken, results, page, entries, reloads, asked>>

\* TrackView's watch of the selected entry: setContactsForPost.
Tracked(new) ==
  /\ entries' = new
  /\ contacts' = IF postId = None THEN contacts ELSE Of(postId, new)

Replaced(c, cs) == {IF d.id = c.id THEN c ELSE d : d \in cs}

\* A contact was changed.  In the Track view a saved draft also goes into the
\* list that was loaded (handleDraftSaved), from which the contacts of the
\* post are then shown again.
Changed(k) ==
  /\ k \in calls /\ k.op \in {"draft", "messaged"} /\ k.answer = "ok" /\ k.current
  /\ LET c == CHOOSE new \in k.got : TRUE IN
       /\ IF workspace = "track" /\ k.op = "draft" /\ entries # None
          THEN Tracked(Replaced(c, entries))
          ELSE contacts' = Replaced(c, contacts) /\ UNCHANGED entries
       /\ contact' = IF contact # None /\ contact.id = c.id THEN c ELSE contact
  /\ updating' = FALSE
  /\ calls' = calls \ {k}
  /\ UNCHANGED <<server, overtaken, results, postId, selected, draft, loading, returnPost,
                 overlapped, reloads, asked>>

\* A contact was removed: the Track view then loads its list again.
Removed(k) ==
  /\ k \in calls /\ k.op = "remove" /\ k.answer = "ok" /\ k.current
  /\ contacts' = {c \in contacts : c.id # k.id}
  /\ IF contact # None /\ contact.id = k.id
     THEN contact' = None /\ draft' = None ELSE UNCHANGED <<contact, draft>>
  /\ overlapped' = IF Reading THEN overlapped \union {k.id} ELSE overlapped
  /\ updating' = FALSE
  /\ calls' = IF workspace = "track"
              THEN Outdated({"track"}, calls \ {k}) \union {Ask("track", None, None, None)}
              ELSE calls \ {k}
  /\ UNCHANGED <<server, overtaken, results, postId, selected, loading, returnPost, entries,
                 reloads, asked>>

ChangeFailed(k) ==
  /\ k \in calls /\ k.op \in Updates /\ k.answer = "failed" /\ k.current
  /\ updating' = FALSE
  /\ calls' = calls \ {k}
  /\ UNCHANGED <<server, overtaken, results, postId, selected, contacts, contact, draft,
                 loading, returnPost, entries, overlapped, reloads, asked>>

TrackLoaded(k) ==
  /\ k \in calls /\ k.op = "track" /\ k.answer # "none" /\ k.current
  /\ IF k.answer = "ok" THEN Tracked(k.got) ELSE UNCHANGED <<entries, contacts>>
  /\ calls' = calls \ {k}
  /\ UNCHANGED <<server, overtaken, results, postId, selected, contact, draft, updating,
                 loading, returnPost, overlapped, reloads, asked>>

-----------------------------------------------------------------------------
(* Tasks.                                                                  *)

NewSession(p, id, text) ==
  [post |-> p, id |-> id, draft |-> text, status |-> "running", output |-> None,
   result |-> "none"]

\* startContactDiscovery.
Discover(t) ==
  /\ t \in Discoveries \ spent
  /\ postId # None /\ ~ loading /\ ~ updating
  /\ spent' = spent \union {t}
  /\ sessions' = With(sessions, t, NewSession(postId, 0, None))
  /\ selected' = t /\ contact' = None /\ draft' = None /\ returnPost' = None
  /\ UNCHANGED <<server, overtaken, queues, work, calls, postId, contacts, updating,
                 loading, entries, overlapped, reloads, asked>>

\* The draft tasks of a contact: one may be active, a later one replaces those
\* that are over.
RevisionsOf(id) == {t \in Revisions \intersect DOMAIN sessions : sessions[t].id = id}

\* requestDraftRevision.
Revise(t) ==
  /\ t \in Revisions \ spent
  /\ contact # None /\ draft # None /\ ~ Active
  /\ \A u \in RevisionsOf(contact.id) : ~ Running(u)
  /\ spent' = spent \union {t}
  /\ sessions' = With(Without(RevisionsOf(contact.id)), t,
                       NewSession(postId, contact.id, draft))
  /\ selected' = t
  /\ UNCHANGED <<server, overtaken, queues, work, calls, postId, contacts, contact,
                 draft, updating, loading, returnPost, entries, overlapped, reloads, asked>>

\* A task ends; a start that fails makes it unavailable, and what the user
\* cancelled in the Apply view brings the list of contacts back after a reload.
End(t, status) ==
  /\ t \in DOMAIN sessions /\ Running(t)
  /\ status \in {"completed", "failed", "cancelled", "unavailable"}
  /\ \E output \in {None} \union (IF t \in Revisions THEN {t} ELSE People) :
       /\ status # "completed" => output = None
       /\ sessions' = [sessions EXCEPT
            ![t].status = status, ![t].output = output,
            ![t].result = IF status = "unavailable" THEN "task" ELSE @]
  /\ returnPost' = IF /\ status = "cancelled" /\ workspace = "apply"
                      /\ selected = t /\ postId = sessions[t].post
                   THEN postId ELSE returnPost
  /\ UNCHANGED <<server, overtaken, spent, queues, work, calls, postId, selected, contacts,
                 contact, draft, updating, loading, entries, overlapped, reloads, asked>>

Finish(t) == Without({t})

\* enqueueContactResult: the task goes with its output, whatever becomes of the
\* session.
Enqueued(t) ==
  [queues EXCEPT ![sessions[t].post] = Append(@, [task |-> t, person |-> sessions[t].output])]

\* applyAgentTask, by the store's watch of the tasks, of a failure and of a
\* discovery: the result is saved when the earlier ones of its post are.
ApplyTask(t) ==
  /\ t \in DOMAIN sessions
  /\ sessions[t].result = "none"
  /\ \/ /\ sessions[t].status = "failed"
        /\ sessions' = [sessions EXCEPT ![t].result = "task"]
        /\ UNCHANGED queues
     \/ /\ t \in Discoveries /\ sessions[t].status = "completed"
        /\ sessions' = [sessions EXCEPT ![t].result = "saving"]
        /\ queues' = Enqueued(t)
  /\ UNCHANGED <<server, overtaken, spent, work, calls, page, entries, overlapped, reloads, asked>>

\* Mutant of ApplyDraft: whatever is on the screen gets the draft.
ApplyDraftAnywhere(t) ==
  /\ t \in Revisions \intersect DOMAIN sessions
  /\ sessions[t].status = "completed" /\ sessions[t].result = "none"
  /\ contact # None
  /\ draft' = sessions[t].output
  /\ sessions' = Finish(t)
  /\ selected' = None
  /\ UNCHANGED <<server, overtaken, spent, queues, work, calls, postId, contacts, contact,
                 updating, loading, returnPost, entries, overlapped, reloads, asked>>

\* applyDraftResult: only while the task and its contact are on the screen.
ApplyDraft(t) ==
  /\ t \in Revisions \intersect DOMAIN sessions
  /\ sessions[t].status = "completed" /\ sessions[t].result = "none"
  /\ selected = t /\ contact # None
  /\ CASE postId # sessions[t].post \/ contact.id # sessions[t].id ->
            /\ sessions' = [sessions EXCEPT ![t].result = "set"]
            /\ UNCHANGED <<draft, selected>>
       [] sessions[t].output = None ->
            /\ sessions' = [sessions EXCEPT ![t].result = "task"]
            /\ UNCHANGED <<draft, selected>>
       [] OTHER ->
            /\ draft' = sessions[t].output
            /\ sessions' = Finish(t)
            /\ selected' = None
  /\ UNCHANGED <<server, overtaken, spent, queues, work, calls, postId, contacts, contact,
                 updating, loading, returnPost, entries, overlapped, reloads, asked>>

\* retryTask: a contact that could not be saved is saved, any other task runs
\* again - a start that failed under its id, the others under a new one, also
\* when the contacts could not be listed while the result was being saved.
RetrySave ==
  /\ selected \in Discoveries /\ sessions[selected].status = "completed"
  /\ sessions[selected].result = "save"
  /\ sessions' = [sessions EXCEPT ![selected].result = "saving"]
  /\ queues' = Enqueued(selected)
  /\ returnPost' = None
  /\ UNCHANGED <<server, overtaken, spent, work, calls, postId, selected, contacts, contact,
                 draft, updating, loading, entries, overlapped, reloads, asked>>

RetryRun(u) ==
  /\ selected # None /\ ~ Active
  /\ LET s == sessions[selected]
         same == s.status = "unavailable"
     IN  /\ \/ s.status \in {"cancelled", "failed", "unavailable"}
            \/ s.result \in {"task", "unlisted"}
         /\ selected \in Revisions =>
              contact # None /\ contact.id = s.id /\ draft # None
                /\ s.id \in Ids(contacts)
         /\ IF same THEN u = selected
                    ELSE u \notin spent /\ (u \in Revisions <=> selected \in Revisions)
         /\ sessions' = With(Without({selected}), u, NewSession(s.post, s.id, s.draft))
  /\ spent' = spent \union {u}
  /\ selected' = u /\ returnPost' = None
  /\ UNCHANGED <<server, overtaken, queues, work, calls, postId, contacts, contact, draft,
                 updating, loading, entries, overlapped, reloads, asked>>

-----------------------------------------------------------------------------
(* The results of discoveries, saved one after the other for a post.       *)

Step(p, stage, got) == work' = [work EXCEPT ![p] = [stage |-> stage, got |-> got]]

First(p) == Head(queues[p])
IsQueued(p, t) == \E i \in 1 .. Len(queues[p]) : queues[p][i].task = t

\* Mutant of SaveBegins: results are saved without looking who is there.
SaveBeginsBlindly(p) ==
  /\ queues[p] # <<>> /\ work[p] = Idle
  /\ Step(p, IF First(p).person = None THEN "invalid" ELSE "create", None)
  /\ UNCHANGED <<server, overtaken, sessions, spent, queues, calls, page, entries,
                 overlapped, reloads, asked>>

\* applyContactResult: the person is looked up first.
SaveBegins(p) ==
  /\ queues[p] # <<>> /\ work[p] = Idle
  /\ Step(p, IF First(p).person = None THEN "invalid" ELSE "list", None)
  /\ UNCHANGED <<server, overtaken, sessions, spent, queues, calls, page, entries,
                 overlapped, reloads, asked>>

\* The server lists the contacts, newest first.
SaveLooksUp(p) ==
  /\ work[p].stage = "list"
  /\ LET there == {c \in Of(p, saved) : c.person = First(p).person}
     IN  \/ IF there = {} THEN Step(p, "create", None)
            ELSE Step(p, "saved", CHOOSE c \in there : \A d \in there : d.id <= c.id)
         \/ Step(p, "error", None)
  /\ UNCHANGED <<server, overtaken, sessions, spent, queues, calls, page, entries,
                 overlapped, reloads, asked>>

Created(p, person) ==
  [id |-> created + 1, post |-> p, person |-> person, draft |-> "found"]

\* The server creates the contact; its answer may be lost, or it may fail.
SaveCreates(p) ==
  /\ work[p].stage = "create" /\ created < MaxContacts
  /\ LET c == Created(p, First(p).person)
     IN  \/ /\ saved' = saved \union {c} /\ created' = created + 1
            /\ Step(p, "saved", c) \/ Step(p, "error", None)
         \/ UNCHANGED <<saved, created>> /\ Step(p, "error", None)
  /\ UNCHANGED <<orphans, overtaken, sessions, spent, queues, calls, page, entries,
                 overlapped, reloads, asked>>

\* A contact that a page asked for before it was reloaded.
OrphanCreates ==
  /\ created < MaxContacts
  /\ \E o \in orphans :
       /\ saved' = saved \union {Created(o.post, o.person)}
       /\ orphans' = orphans \ {o}
  /\ created' = created + 1
  /\ UNCHANGED <<overtaken, results, calls, page, entries, overlapped, reloads, asked>>

\* The saved contact is shown if its post is open, and opened if its task is,
\* unless the session is gone.
SaveShown(p) ==
  /\ work[p].stage = "saved"
  /\ LET t == First(p).task
         c == work[p].got
         shown == postId = p /\ t \in DOMAIN sessions
     IN  /\ contacts' = IF shown THEN {c} \union {d \in contacts : d.id # c.id}
                                 ELSE contacts
         /\ IF shown /\ selected = t THEN contact' = c /\ draft' = c.draft
                                     ELSE UNCHANGED <<contact, draft>>
         /\ sessions' = Finish(t)
         /\ selected' = IF selected = t THEN None ELSE selected
  /\ Step(p, "idle", None)
  /\ queues' = [queues EXCEPT ![p] = Tail(@)]
  /\ UNCHANGED <<server, overtaken, spent, calls, postId, updating, loading, returnPost,
                 entries, overlapped, reloads, asked>>

\* Mutant of SaveFails: a result that failed goes on waiting.
SaveFailsSilently(p) ==
  /\ work[p].stage \in {"invalid", "error"}
  /\ Step(p, "idle", None)
  /\ queues' = [queues EXCEPT ![p] = Tail(@)]
  /\ UNCHANGED <<server, overtaken, sessions, spent, calls, page, entries, overlapped,
                 reloads, asked>>

SaveFails(p) ==
  /\ work[p].stage \in {"invalid", "error"}
  /\ LET t == First(p).task
         result == IF work[p].stage = "invalid" THEN "task" ELSE "save"
     IN  sessions' = IF t \in DOMAIN sessions
                     THEN [sessions EXCEPT ![t].result = result] ELSE sessions
  /\ Step(p, "idle", None)
  /\ queues' = [queues EXCEPT ![p] = Tail(@)]
  /\ UNCHANGED <<server, overtaken, spent, calls, page, entries, overlapped, reloads, asked>>

\* The page is loaded again: what it was asking for is asked or not, and one
\* of the sessions that are remembered is opened, or else the list of contacts
\* that a cancellation leads back to.
Reload ==
  /\ reloads < MaxReloads
  /\ reloads' = reloads + 1
  /\ LET creating == {p \in PostIds : work[p].stage = "create"}
         creations == {[post |-> p, person |-> First(p).person] : p \in creating}
         open == {c \in calls : c.op \in Updates /\ c.answer = "none"}
     IN  /\ \E sent \in SUBSET creations : orphans' = orphans \union sent
         /\ overtaken' = overtaken \union creations
         /\ calls' = Outdated(Updates, open)
  /\ sessions' = [t \in DOMAIN Remaining |-> [Remaining[t] EXCEPT !.result = "none"]]
  /\ queues' = [p \in PostIds |-> <<>>]
  /\ work' = [p \in PostIds |-> Idle]
  /\ selected' \in IF returnPost # None \/ sessions' = <<>> THEN {None} ELSE DOMAIN sessions'
  /\ postId' = IF selected' = None THEN returnPost ELSE sessions'[selected'].post
  /\ draft' = IF selected' \in Revisions THEN sessions'[selected'].draft ELSE None
  /\ contacts' = {} /\ contact' = None /\ updating' = FALSE /\ loading' = FALSE
  /\ entries' = None
  /\ overlapped' = {}
  /\ UNCHANGED <<saved, created, spent, returnPost, asked>>

\* restoreContactList, after such a reload: what it restores is forgotten (in
\* the code when the list has been answered).
RestoreList ==
  /\ workspace = "apply" /\ returnPost # None /\ postId = returnPost
  /\ Fetch(postId, None, calls)
  /\ returnPost' = None
  /\ UNCHANGED <<server, overtaken, results, postId, selected, contacts, contact, draft,
                 updating, entries, overlapped, reloads>>

-----------------------------------------------------------------------------

OutreachInit ==
  /\ \E start \in Starts :
       /\ workspace = start.workspace
       /\ saved = start.saved /\ created = Cardinality(saved)
       /\ spent = start.spent /\ asked = start.asked /\ reloads = start.reloads
  /\ orphans = {} /\ overtaken = {}
  /\ sessions = <<>>
  /\ queues = [p \in PostIds |-> <<>>] /\ work = [p \in PostIds |-> Idle]
  /\ calls = {}
  /\ postId = None /\ selected = None /\ contacts = {} /\ contact = None
  /\ draft = None /\ updating = FALSE /\ loading = FALSE /\ returnPost = None
  /\ entries = None /\ overlapped = {}

OutreachStep ==
  \/ \E p \in PostIds :
       \/ OpenOutreach(p) \/ TrackPost(p)
       \/ SaveBegins(p) \/ SaveLooksUp(p) \/ SaveCreates(p)
       \/ SaveShown(p) \/ SaveFails(p)
  \/ \E t \in TaskIds :
       \/ RestoreTask(t) \/ OpenTask(t) \/ Discover(t) \/ Revise(t)
       \/ ApplyTask(t) \/ ApplyDraft(t) \/ RetryRun(t)
       \/ \E status \in {"completed", "failed", "cancelled", "unavailable"} : End(t, status)
  \/ \E c \in contacts : SelectContact(c)
  \/ \E op \in Updates : Change(op)
  \/ \E k \in calls :
       \/ Handle(k) \/ Listed(k) \/ ListFailed(k) \/ Drop(k) \/ Changed(k)
       \/ Removed(k) \/ ChangeFailed(k) \/ TrackLoaded(k)
  \/ Reset \/ ShowContacts \/ ClosePanel \/ Type \/ LoadTracked \/ RetrySave
  \/ OrphanCreates \/ Reload \/ RestoreList

OutreachNext == OutreachStep /\ UNCHANGED workspace

OutreachSpec == OutreachInit /\ [][OutreachNext]_outreachVars

-----------------------------------------------------------------------------
(* Properties.                                                             *)

OutreachTypeOK ==
  /\ workspace \in {"apply", "track"}
  /\ saved \subseteq Contact /\ created \in 0 .. MaxContacts
  /\ orphans \union overtaken \subseteq [post : PostIds, person : People]
  /\ DOMAIN sessions \subseteq spent /\ spent \subseteq TaskIds
  /\ \A t \in DOMAIN sessions : sessions[t] \in Session
  /\ queues \in [PostIds -> Seq([task : Discoveries, person : People \union {None}])]
  /\ \A p \in PostIds :
       /\ work[p].stage \in {"idle", "invalid", "list", "create", "saved", "error"}
       /\ work[p].got \in Contact \union {None}
  /\ calls \subseteq Call
  /\ postId \in PostIds \union {None} /\ selected \in DOMAIN sessions \union {None}
  /\ contacts \subseteq Contact /\ contact \in Contact \union {None}
  /\ draft \in Text \union {None}
  /\ updating \in BOOLEAN /\ loading \in BOOLEAN
  /\ returnPost \in PostIds \union {None}
  /\ entries = None \/ entries \subseteq Contact

(* A person is saved once for a post, however many discoveries return them *)
(* and however often a result is saved again - unless the page was         *)
(* reloaded while the contact was being created.                           *)
PersonSavedOnce ==
  \A c, d \in saved :
    c.post = d.post /\ c.person = d.person /\ c # d =>
      [post |-> c.post, person |-> c.person] \in overtaken

(* A result is never stuck, nor saved for two tasks at a time.  What is    *)
(* being saved waits in the queue of its post; what waits there is of one  *)
(* task, which has not been finished or reported before its turn, though   *)
(* it may have been dismissed - as invalid, or by a retry after the        *)
(* contacts could not be listed (outreach.ts:664) - and whatever is worked *)
(* on is first in a queue.  A draft task on the screen has its contact     *)
(* beside it, so that no draft is left without being shown or reported.    *)
ResultsProceed ==
  /\ \A t \in DOMAIN sessions :
       /\ sessions[t].result # "set"
       /\ Saving(t) => IsQueued(sessions[t].post, t)
  /\ \A p \in PostIds :
       /\ work[p].stage # "idle" => queues[p] # <<>>
       /\ \A i \in 1 .. Len(queues[p]) :
            LET t == queues[p][i].task IN
              /\ t \in DOMAIN sessions => Saving(t) /\ sessions[t].post = p
              /\ \A j \in 1 .. Len(queues[p]) : queues[p][j].task = t => i = j

(* A draft that a task revised is only ever beside the contact it was      *)
(* revised for, whatever was selected while the task ran.                  *)
DraftFitsContact ==
  [][\A t \in Revisions \intersect DOMAIN sessions :
       draft' = t /\ draft # t => contact' # None /\ contact'.id = sessions[t].id]_outreachVars

(* The contacts on the screen are of the post that is open, and one that   *)
(* was removed does not come back: what is shown is saved or being         *)
(* removed, unless contacts were being read when the removal ended, or the *)
(* post was left before it did.  The contact that is open is one of them.  *)
ShownContactsExist ==
  workspace = "apply" =>
    /\ contact # None => contact.id \in Ids(contacts)
    /\ \A c \in contacts :
         /\ c.post = postId
         /\ \/ c.id \in Ids(saved)
            \/ c.id \in overlapped
            \/ \E k \in calls : k.op = "remove" /\ k.id = c.id

(* "saves an edited outreach draft before reopening it"                    *)
(* (client/src/__tests__/apply-view.test.ts:382): a contact whose draft is *)
(* saved is there to be opened again.                                      *)
SavedDraftIsListed ==
  [][\A k \in calls : /\ Changed(k) /\ k.op = "draft"
                      /\ k.id \in Ids(contacts)
                      => k.id \in Ids(contacts')]_outreachVars

=============================================================================
