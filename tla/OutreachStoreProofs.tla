------------------------- MODULE OutreachStoreProofs -------------------------
(***************************************************************************)
(* Theorems about the Outreach store, for every set of posts, tasks and    *)
(* people and every bound: however tasks, requests, the user and reloads   *)
(* cross, no result is stuck, a draft is only beside the contact it was    *)
(* written for, nobody is saved twice for a post, and the contacts on the  *)
(* screen are there.                                                       *)
(***************************************************************************)
EXTENDS OutreachStore, FiniteSetTheorems, SequenceTheorems, TLAPS

-----------------------------------------------------------------------------
(* The invariant.                                                          *)

\* What can be written in a draft: W, in the parts of the invariant.  The
\* draft of a task is not among it while the task has a session.
Words ==
  {x \in Text \union {None} : x \in Revisions => x \in spent \ DOMAIN sessions}

Rows(W) == {c \in Contact : c.draft \in W}
PeopleOfPosts == [post : PostIds, person : People]

ServerTypes(W) ==
  /\ saved \subseteq Rows(W) /\ created \in 0 .. MaxContacts
  /\ orphans \subseteq PeopleOfPosts /\ overtaken \subseteq PeopleOfPosts

Fits(t, s, W) ==
  /\ s \in Session /\ s.draft \in W
  /\ t \in Revisions => s.output \in {None, t}
  /\ t \notin Revisions => s.output \in {None} \union People

SessionTypes(W) ==
  /\ DOMAIN sessions \subseteq spent /\ spent \subseteq TaskIds
  /\ \A t \in DOMAIN sessions : Fits(t, sessions[t], W)

Stages == {"idle", "invalid", "list", "create", "saved", "error"}
Works(W) == [stage : Stages, got : Rows(W) \union {None}]

Entries == [task : Discoveries, person : People \union {None}]
Entry(t) == [task |-> t, person |-> sessions[t].output]

WorkTypes(W) ==
  /\ queues \in [PostIds -> Seq(Entries)]
  /\ work \in [PostIds -> Works(W)]
  /\ \A p \in PostIds :
       /\ work[p].stage = "idle" => work[p] = Idle
       /\ work[p].stage = "saved" => work[p].got \in Rows(W) /\ work[p].got.post = p

\* The answer to a change is the contact that was changed.
CallFits(k, W) ==
  /\ k \in Call /\ k.draft \in W /\ k.got \subseteq Rows(W)
  /\ k.op = "draft" => k.draft # None
  /\ k.op = "list" => k.post \in PostIds
  /\ k.op \in {"draft", "messaged"} /\ k.answer = "ok" =>
       k.got # {} /\ \A c \in k.got : c.id = k.id
  /\ k.op # "track" => \A c \in k.got : c.post = k.post

CallTypes(W) == \A k \in calls : CallFits(k, W)

PageTypes(W) ==
  /\ postId \in PostIds \union {None} /\ selected \in DOMAIN sessions \union {None}
  /\ contacts \subseteq Rows(W) /\ contact \in Rows(W) \union {None}
  /\ postId = None => contact = None /\ contacts = {}
  /\ draft \in W
  /\ updating \in BOOLEAN /\ loading \in BOOLEAN
  /\ returnPost \in PostIds \union {None}
  /\ entries = None \/ entries \subseteq Rows(W)

TypesOver(W) ==
  /\ workspace \in {"apply", "track"}
  /\ ServerTypes(W) /\ SessionTypes(W) /\ WorkTypes(W) /\ CallTypes(W) /\ PageTypes(W)

\* What waits is of a discovery, once, and is being saved unless its session
\* was dismissed.
QueueInv(p) ==
  /\ \A i \in 1 .. Len(queues[p]) :
       LET t == queues[p][i].task IN
         /\ t \in Discoveries \intersect spent
         /\ t \in DOMAIN sessions => sessions[t].post = p /\ Saving(t)
  /\ \A i, j \in 1 .. Len(queues[p]) : queues[p][i].task = queues[p][j].task => i = j

\* What is worked on is the first of them, which is not invalid when the
\* server has been asked.
WorkInv(p) ==
  /\ work[p].stage # "idle" => queues[p] # <<>>
  /\ work[p].stage \in {"list", "create", "saved", "error"} => First(p).person # None

WaitingInv(t) ==
  Saving(t) =>
    /\ t \in Discoveries /\ sessions[t].status = "completed"
    /\ IsQueued(sessions[t].post, t)

SavingInv ==
  /\ \A p \in PostIds : QueueInv(p) /\ WorkInv(p)
  /\ \A t \in DOMAIN sessions : WaitingInv(t)

\* The task on the screen is of the post that is open, and the contact
\* beside a draft task is the one it writes to.
OpenInv ==
  /\ selected # None => sessions[selected].post = postId
  /\ selected \in Revisions /\ contact # None => contact.id = sessions[selected].id
  /\ \A t \in DOMAIN sessions : sessions[t].result # "set"

\* Ids are given once; a person who is being created is not there, and whom
\* an earlier page may yet create was overtaken.
PersonInv ==
  /\ \A c, d \in saved : c.id = d.id => c = d
  /\ \A c \in saved : c.id <= created
  /\ orphans \subseteq overtaken
  /\ PersonSavedOnce
  /\ \A p \in PostIds : work[p].stage = "create" =>
       \/ [post |-> p, person |-> First(p).person] \in overtaken
       \/ \A c \in saved : ~ (c.post = p /\ c.person = First(p).person)

\* A contact is there, or its removal is known and not yet shown, or was
\* shown while contacts were being read.
Lives(id) ==
  \/ id \in Ids(saved)
  \/ id \in overlapped
  \/ \E k \in calls : k.op = "remove" /\ k.answer = "ok" /\ k.id = id

\* The requests whose answers are taken: one for the list, one for a change,
\* of the post that is open.
CurrentInv ==
  /\ \A k, l \in calls : k.op = "list" /\ l.op = "list" /\ k.current /\ l.current => k = l
  /\ \A k, l \in calls : k.op \in Updates /\ l.op \in Updates /\ k.current /\ l.current => k = l
  /\ \A k \in calls : k.op = "list" /\ k.current => loading /\ k.post = postId
  /\ \A k \in calls : k.op \in Updates /\ k.current => k.post = postId

ScreenInv ==
  /\ \A k \in calls : k.op # "track"
  /\ \A k \in calls : k.op = "list" /\ k.current => \A c \in k.got : Lives(c.id)
  /\ \A p \in PostIds : work[p].stage = "saved" => Lives(work[p].got.id)
  /\ contact # None => contact.id \in Ids(contacts)
  /\ \A c \in contacts : c.post = postId /\ Lives(c.id)

OutreachInv ==
  /\ TypesOver(Words) /\ SavingInv /\ OpenInv /\ PersonInv /\ CurrentInv
  /\ workspace = "apply" => ScreenInv

-----------------------------------------------------------------------------
(* Which steps touch which part of the state.                              *)

\* The server's contacts change by its own steps; a reload leaves orphans.
ServerKept == UNCHANGED <<saved, created, orphans, overtaken>>

LEMMA ServerSteps ==
  ASSUME OutreachStep
  PROVE  \/ ServerKept
         \/ \E p \in PostIds : SaveCreates(p)
         \/ \E k \in calls : Handle(k)
         \/ OrphanCreates \/ Reload
<1>1. \A p : OpenOutreach(p) \/ TrackPost(p) \/ SaveBegins(p) \/ SaveLooksUp(p)
            \/ SaveShown(p) \/ SaveFails(p) => ServerKept
  BY DEF OpenOutreach, TrackPost, SaveBegins, SaveLooksUp, SaveShown, SaveFails,
         ServerKept, server
<1>2. \A t : RestoreTask(t) \/ OpenTask(t) \/ Discover(t) \/ Revise(t) \/ ApplyTask(t)
            \/ ApplyDraft(t) \/ RetryRun(t) => ServerKept
  BY DEF RestoreTask, OpenTask, Discover, Revise, ApplyTask, ApplyDraft, RetryRun,
         ServerKept, server
<1>3. \A t, status : End(t, status) => ServerKept
  BY DEF End, ServerKept, server
<1>4. \A k : Listed(k) \/ ListFailed(k) \/ Drop(k) \/ Changed(k) \/ Removed(k)
            \/ ChangeFailed(k) \/ TrackLoaded(k) => ServerKept
  BY DEF Listed, ListFailed, Drop, Changed, Removed, ChangeFailed, TrackLoaded,
         ServerKept, server
<1>5. \A c : SelectContact(c) \/ Change(c) => ServerKept
  BY DEF SelectContact, Change, ServerKept, server
<1>6. Reset \/ ShowContacts \/ ClosePanel \/ Type \/ LoadTracked \/ RetrySave
       \/ RestoreList => ServerKept
  BY DEF Reset, ShowContacts, ClosePanel, Type, LoadTracked, RetrySave, RestoreList,
         ServerKept, server
<1>7. QED  BY <1>1, <1>2, <1>3, <1>4, <1>5, <1>6 DEF OutreachStep

\* Sessions.
SessionsKept == UNCHANGED <<sessions, spent>>
EndStates == {"completed", "failed", "cancelled", "unavailable"}

LEMMA SessionSteps ==
  ASSUME OutreachStep
  PROVE  \/ SessionsKept
         \/ \E p \in PostIds : OpenOutreach(p) \/ TrackPost(p) \/ SaveShown(p)
                               \/ SaveFails(p)
         \/ \E t \in TaskIds : RestoreTask(t) \/ OpenTask(t) \/ Discover(t) \/ Revise(t)
                               \/ ApplyTask(t) \/ ApplyDraft(t) \/ RetryRun(t)
         \/ \E t \in TaskIds, status \in EndStates : End(t, status)
         \/ \E k \in calls : Listed(k) \/ ListFailed(k)
         \/ Reset \/ ShowContacts \/ ClosePanel \/ RetrySave \/ Reload
<1>1. \A p : SaveBegins(p) \/ SaveLooksUp(p) \/ SaveCreates(p) => SessionsKept
  BY DEF SaveBegins, SaveLooksUp, SaveCreates, SessionsKept, results
<1>2. \A k : Handle(k) \/ Drop(k) \/ Changed(k) \/ Removed(k) \/ ChangeFailed(k)
            \/ TrackLoaded(k) => SessionsKept
  BY DEF Handle, Drop, Changed, Removed, ChangeFailed, TrackLoaded, SessionsKept,
         results
<1>3. \A c : SelectContact(c) \/ Change(c) => SessionsKept
  BY DEF SelectContact, Change, SessionsKept, results
<1>4. Type \/ LoadTracked \/ OrphanCreates \/ RestoreList => SessionsKept
  BY DEF Type, LoadTracked, OrphanCreates, RestoreList, SessionsKept, results
<1>5. QED  BY <1>1, <1>2, <1>3, <1>4 DEF OutreachStep, EndStates

\* What is being saved.
WorkKept == UNCHANGED <<queues, work>>

LEMMA WorkSteps ==
  ASSUME OutreachStep
  PROVE  \/ WorkKept
         \/ \E p \in PostIds : SaveBegins(p) \/ SaveLooksUp(p) \/ SaveCreates(p)
                               \/ SaveShown(p) \/ SaveFails(p)
         \/ \E t \in TaskIds : ApplyTask(t)
         \/ RetrySave \/ Reload
<1>1. \A p : OpenOutreach(p) \/ TrackPost(p) => WorkKept
  BY DEF OpenOutreach, TrackPost, WorkKept, results
<1>2. \A t : RestoreTask(t) \/ OpenTask(t) \/ Discover(t) \/ Revise(t) \/ ApplyDraft(t)
            \/ RetryRun(t) => WorkKept
  BY DEF RestoreTask, OpenTask, Discover, Revise, ApplyDraft, RetryRun, WorkKept,
         results
<1>3. \A t, status : End(t, status) => WorkKept
  BY DEF End, WorkKept, results
<1>4. \A k : Handle(k) \/ Listed(k) \/ ListFailed(k) \/ Drop(k) \/ Changed(k)
            \/ Removed(k) \/ ChangeFailed(k) \/ TrackLoaded(k) => WorkKept
  BY DEF Handle, Listed, ListFailed, Drop, Changed, Removed, ChangeFailed, TrackLoaded,
         WorkKept, results
<1>5. \A c : SelectContact(c) \/ Change(c) => WorkKept
  BY DEF SelectContact, Change, WorkKept, results
<1>6. Reset \/ ShowContacts \/ ClosePanel \/ Type \/ LoadTracked \/ OrphanCreates
       \/ RestoreList => WorkKept
  BY DEF Reset, ShowContacts, ClosePanel, Type, LoadTracked, OrphanCreates, RestoreList,
         WorkKept, results
<1>7. QED  BY <1>1, <1>2, <1>3, <1>4, <1>5, <1>6 DEF OutreachStep

\* Requests.
CallsKept == UNCHANGED calls

LEMMA CallSteps ==
  ASSUME OutreachStep
  PROVE  \/ CallsKept
         \/ \E p \in PostIds : OpenOutreach(p) \/ TrackPost(p)
         \/ \E t \in TaskIds : RestoreTask(t)
         \/ \E k \in calls : Handle(k) \/ Listed(k) \/ ListFailed(k) \/ Drop(k)
                             \/ Changed(k) \/ Removed(k) \/ ChangeFailed(k)
                             \/ TrackLoaded(k)
         \/ \E op \in Updates : Change(op)
         \/ Reset \/ LoadTracked \/ Reload \/ RestoreList
<1>1. \A p : SaveBegins(p) \/ SaveLooksUp(p) \/ SaveCreates(p) \/ SaveShown(p)
            \/ SaveFails(p) => CallsKept
  BY DEF SaveBegins, SaveLooksUp, SaveCreates, SaveShown, SaveFails, CallsKept
<1>2. \A t : OpenTask(t) \/ Discover(t) \/ Revise(t) \/ ApplyTask(t) \/ ApplyDraft(t)
            \/ RetryRun(t) => CallsKept
  BY DEF OpenTask, Discover, Revise, ApplyTask, ApplyDraft, RetryRun, CallsKept
<1>3. \A t, status : End(t, status) => CallsKept
  BY DEF End, CallsKept
<1>4. \A c : SelectContact(c) => CallsKept
  BY DEF SelectContact, CallsKept
<1>5. ShowContacts \/ ClosePanel \/ Type \/ RetrySave \/ OrphanCreates => CallsKept
  BY DEF ShowContacts, ClosePanel, Type, RetrySave, OrphanCreates, CallsKept
<1>6. QED  BY <1>1, <1>2, <1>3, <1>4, <1>5 DEF OutreachStep

\* The page.
PageKept ==
  /\ DOMAIN sessions' = DOMAIN sessions
  /\ UNCHANGED <<postId, selected, contacts, contact, draft, updating, loading, returnPost,
                 entries>>

LEMMA PageSteps ==
  ASSUME OutreachStep
  PROVE  \/ PageKept
         \/ \E p \in PostIds : OpenOutreach(p) \/ TrackPost(p) \/ SaveShown(p)
         \/ \E t \in TaskIds : RestoreTask(t) \/ OpenTask(t) \/ Discover(t) \/ Revise(t)
                               \/ ApplyDraft(t) \/ RetryRun(t)
         \/ \E t \in TaskIds, status \in EndStates : End(t, status)
         \/ \E k \in calls : Listed(k) \/ ListFailed(k) \/ Changed(k) \/ Removed(k)
                             \/ ChangeFailed(k) \/ TrackLoaded(k)
         \/ \E c \in contacts : SelectContact(c)
         \/ \E op \in Updates : Change(op)
         \/ Reset \/ ShowContacts \/ ClosePanel \/ Type \/ RetrySave \/ Reload
         \/ RestoreList
<1>1. \A p : SaveBegins(p) \/ SaveLooksUp(p) \/ SaveCreates(p) \/ SaveFails(p) => PageKept
  BY DEF SaveBegins, SaveLooksUp, SaveCreates, SaveFails, PageKept, page, results
<1>2. \A t : ApplyTask(t) => PageKept
  BY DEF ApplyTask, PageKept, page, results
<1>3. \A k : Handle(k) \/ Drop(k) => PageKept
  BY DEF Handle, Drop, PageKept, page, results
<1>4. LoadTracked \/ OrphanCreates => PageKept
  BY DEF LoadTracked, OrphanCreates, PageKept, page, results
<1>5. QED  BY <1>1, <1>2, <1>3, <1>4 DEF OutreachStep, EndStates

-----------------------------------------------------------------------------
(* Types.                                                                  *)

\* The texts a step can take from the state before it.
Vocabulary(W) == W \subseteq Text \union {None} /\ {None, "found", "typed"} \subseteq W

Grounds(W) == Vocabulary(W) /\ TypesOver(W) /\ SavingInv /\ CurrentInv

LEMMA FirstInQueue ==
  ASSUME NEW W, Grounds(W), NEW p \in PostIds, queues[p] # <<>>
  PROVE  /\ queues[p] \in Seq(Entries) /\ Len(queues[p]) \in Nat /\ 1 \in 1 .. Len(queues[p])
         /\ First(p) = queues[p][1] /\ First(p) \in Entries
         /\ First(p).task \in Discoveries /\ First(p).task \in spent
         /\ First(p).task \in DOMAIN sessions =>
              sessions[First(p).task].post = p /\ Saving(First(p).task)
<1>1. queues[p] \in Seq(Entries)
  BY DEF Grounds, TypesOver, WorkTypes
<1>2. Len(queues[p]) \in Nat /\ Len(queues[p]) # 0
  BY <1>1, EmptySeq
<1>3. First(p) = queues[p][1]
  BY <1>1 DEF First
<1>4. 1 \in 1 .. Len(queues[p])
  BY <1>2
<1>5. queues[p][1] \in Entries
  BY <1>1, <1>4
<1>6. QueueInv(p)
  BY DEF Grounds, SavingInv
<1>7. QED  BY <1>1, <1>2, <1>3, <1>4, <1>5, <1>6 DEF QueueInv

\* Who is being saved.
LEMMA PersonIsKnown ==
  ASSUME NEW W, Grounds(W), NEW p \in PostIds,
         work[p].stage \in {"list", "create", "saved", "error"}
  PROVE  queues[p] # <<>> /\ First(p).person \in People
<1>1. WorkInv(p)
  BY DEF Grounds, SavingInv
<1>2. queues[p] # <<>> /\ First(p).person # None
  BY <1>1 DEF WorkInv
<1>3. First(p) \in Entries
  BY <1>2, FirstInQueue
<1>4. QED  BY <1>2, <1>3 DEF Entries

\* The contacts a request is about, and what a change makes of one of them.
Meant(k) == {c \in saved : c.id = k.id /\ c.post = k.post}
Written(c, k) == IF k.op = "draft" THEN [c EXCEPT !.draft = k.draft] ELSE c

Done(k, answer, got) ==
  calls' = (calls \ {k}) \union {[k EXCEPT !.answer = answer, !.got = got]}

LEMMA HandledIs ==
  ASSUME NEW W, Grounds(W), NEW k \in calls, Handle(k)
  PROVE  /\ k.answer = "none"
         /\ \/ Done(k, "failed", {}) /\ saved' = saved
            \/ k.op = "list" /\ Done(k, "ok", Of(k.post, saved)) /\ saved' = saved
            \/ k.op = "track" /\ Done(k, "ok", saved) /\ saved' = saved
            \/ /\ k.op \in {"draft", "messaged"} /\ Meant(k) # {}
               /\ Done(k, "ok", {Written(c, k) : c \in Meant(k)})
               /\ saved' = (saved \ Meant(k)) \union {Written(c, k) : c \in Meant(k)}
            \/ k.op = "remove" /\ Done(k, "ok", {}) /\ saved' = saved \ Meant(k)
<1>1. k.op \in {"list", "draft", "messaged", "remove", "track"}
  BY DEF Grounds, TypesOver, CallTypes, CallFits, Call
<1>2. CASE k.op = "draft"
  <2>1. {Written(c, k) : c \in Meant(k)} = {[c EXCEPT !.draft = k.draft] : c \in Meant(k)}
    BY <1>2 DEF Written
  <2>2. QED  BY <1>2, <2>1 DEF Handle, Meant, Done
<1>3. CASE k.op = "messaged"
  <2>1. {Written(c, k) : c \in Meant(k)} = Meant(k)
    BY <1>3 DEF Written
  <2>2. QED  BY <1>3, <2>1 DEF Handle, Meant, Done
<1>4. CASE k.op = "remove"
  BY <1>4 DEF Handle, Meant, Done
<1>5. CASE k.op \in {"list", "track"}
  BY <1>5 DEF Handle, Done
<1>6. QED  BY <1>1, <1>2, <1>3, <1>4, <1>5

\* What a change makes of a contact.
LEMMA WrittenIs ==
  ASSUME NEW W, Grounds(W), NEW k \in calls, NEW c \in Rows(W)
  PROVE  /\ Written(c, k) \in Rows(W)
         /\ Written(c, k).id = c.id /\ Written(c, k).post = c.post
         /\ Written(c, k).person = c.person
<1>1. c \in Contact /\ CallFits(k, W)
  BY DEF Rows, Grounds, TypesOver, CallTypes
<1>2. CASE k.op # "draft"
  BY <1>2 DEF Written
<1>3. CASE k.op = "draft"
  <2>1. k.draft \in Text /\ k.draft \in W
    BY <1>1, <1>3 DEF CallFits, Call, Grounds, Vocabulary
  <2>2. Written(c, k) = [c EXCEPT !.draft = k.draft]
    BY <1>3 DEF Written
  <2>3. Written(c, k) \in Contact /\ Written(c, k).draft = k.draft
          /\ Written(c, k).id = c.id /\ Written(c, k).post = c.post
          /\ Written(c, k).person = c.person
    BY <1>1, <2>1, <2>2 DEF Contact
  <2>4. QED  BY <2>1, <2>3 DEF Rows
<1>4. QED  BY <1>2, <1>3

LEMMA HandleServer ==
  ASSUME NEW W, Grounds(W), NEW k \in calls, Handle(k)
  PROVE  ServerTypes(W)'
<1>1. ServerTypes(W) /\ saved \subseteq Rows(W)
  BY DEF Grounds, TypesOver, ServerTypes
<1>2. \A c \in saved : Written(c, k) \in Rows(W)
  BY <1>1, WrittenIs
<1>3. saved' \subseteq Rows(W)
  <2>1. saved' \subseteq saved \union {Written(c, k) : c \in Meant(k)}
    BY HandledIs
  <2>2. QED  BY <1>1, <1>2, <2>1 DEF Meant
<1>4. UNCHANGED <<created, orphans, overtaken>>
  BY DEF Handle
<1>5. QED  BY <1>1, <1>3, <1>4 DEF ServerTypes

LEMMA CreatedRow ==
  ASSUME NEW W, Grounds(W), NEW p \in PostIds, NEW person \in People, created < MaxContacts
  PROVE  /\ Created(p, person) \in Rows(W)
         /\ Created(p, person).id = created + 1
         /\ Created(p, person).post = p /\ Created(p, person).person = person
         /\ created + 1 \in 0 .. MaxContacts
<1>1. created \in 0 .. MaxContacts /\ MaxContacts \in Nat
  BY OutreachAssumption DEF Grounds, TypesOver, ServerTypes
<1>2. created + 1 \in 1 .. MaxContacts /\ created + 1 \in 0 .. MaxContacts
  BY <1>1
<1>3. "found" \in Text /\ "found" \in W
  BY DEF Text, Grounds, Vocabulary
<1>4. QED  BY <1>2, <1>3 DEF Created, Rows, Contact

LEMMA ServerTypesStep ==
  ASSUME NEW W, Grounds(W), OutreachStep
  PROVE  ServerTypes(W)'
<1>1. ServerTypes(W)
  BY DEF Grounds, TypesOver
<1>2. CASE ServerKept
  BY <1>1, <1>2 DEF ServerKept, ServerTypes
<1>3. ASSUME NEW k \in calls, Handle(k)  PROVE ServerTypes(W)'
  BY <1>3, HandleServer
<1>4. ASSUME NEW p \in PostIds, SaveCreates(p)  PROVE ServerTypes(W)'
  <2>1. created < MaxContacts /\ UNCHANGED <<orphans, overtaken>>
    BY <1>4 DEF SaveCreates
  <2>2. First(p).person \in People
    BY <1>4, PersonIsKnown DEF SaveCreates
  <2>3. /\ Created(p, First(p).person) \in Rows(W)
        /\ created + 1 \in 0 .. MaxContacts
    BY <2>1, <2>2, CreatedRow
  <2>4. \/ /\ saved' = saved \union {Created(p, First(p).person)}
           /\ created' = created + 1
        \/ UNCHANGED <<saved, created>>
    BY <1>4 DEF SaveCreates
  <2>5. QED  BY <1>1, <2>1, <2>3, <2>4 DEF ServerTypes
<1>5. CASE OrphanCreates
  <2>1. created < MaxContacts /\ UNCHANGED overtaken /\ created' = created + 1
    BY <1>5 DEF OrphanCreates
  <2>2. PICK o \in orphans : /\ saved' = saved \union {Created(o.post, o.person)}
                             /\ orphans' = orphans \ {o}
    BY <1>5 DEF OrphanCreates
  <2>3. o.post \in PostIds /\ o.person \in People
    BY <1>1, <2>2 DEF ServerTypes, PeopleOfPosts
  <2>4. Created(o.post, o.person) \in Rows(W) /\ created + 1 \in 0 .. MaxContacts
    BY <2>1, <2>3, CreatedRow
  <2>5. QED  BY <1>1, <2>1, <2>2, <2>4 DEF ServerTypes
<1>6. CASE Reload
  <2>1. \A p \in PostIds : work[p].stage = "create" =>
          [post |-> p, person |-> First(p).person] \in PeopleOfPosts
    BY PersonIsKnown DEF PeopleOfPosts
  <2>2. orphans' \subseteq PeopleOfPosts /\ overtaken' \subseteq PeopleOfPosts
    BY <1>1, <1>6, <2>1 DEF Reload, ServerTypes
  <2>3. UNCHANGED <<saved, created>>
    BY <1>6 DEF Reload
  <2>4. QED  BY <1>1, <2>2, <2>3 DEF ServerTypes
<1>7. QED  BY <1>2, <1>3, <1>4, <1>5, <1>6, ServerSteps

\* What the operators on sessions return.
LEMMA WithoutIs ==
  ASSUME NEW ts
  PROVE  /\ DOMAIN Without(ts) = DOMAIN sessions \ ts
         /\ \A t \in DOMAIN Without(ts) : Without(ts)[t] = sessions[t]
BY DEF Without, Restrict

LEMMA RemainingIs ==
  /\ DOMAIN Remaining = {t \in DOMAIN sessions : ~ Forgotten(sessions[t])}
  /\ \A t \in DOMAIN Remaining : Remaining[t] = sessions[t]
BY DEF Remaining

\* Some sessions are left as they were, and some have another result.
Fewer == DOMAIN sessions' \subseteq DOMAIN sessions
SameOrResult ==
  /\ Fewer
  /\ \A t \in DOMAIN sessions' :
       \/ sessions'[t] = sessions[t]
       \/ \E r \in {"none", "set", "saving", "unlisted", "save", "task"} :
            sessions'[t] = [sessions[t] EXCEPT !.result = r]

LEMMA ResultFits ==
  ASSUME NEW t, NEW s, NEW W, Fits(t, s, W), 
         NEW r \in {"none", "set", "saving", "unlisted", "save", "task"}
  PROVE  Fits(t, [s EXCEPT !.result = r], W)
<1>1. s \in Session
  BY DEF Fits
<1>2. [s EXCEPT !.result = r] \in Session
  BY <1>1 DEF Session
<1>3. /\ [s EXCEPT !.result = r].draft = s.draft
      /\ [s EXCEPT !.result = r].output = s.output
  BY <1>1 DEF Session
<1>4. QED  BY <1>2, <1>3 DEF Fits

LEMMA FewerFit ==
  ASSUME NEW W, Grounds(W), SameOrResult, spent' = spent
  PROVE  SessionTypes(W)'
<1>1. SessionTypes(W)
  BY DEF Grounds, TypesOver
<1>2. DOMAIN sessions' \subseteq spent' /\ spent' \subseteq TaskIds
  BY <1>1 DEF SessionTypes, SameOrResult, Fewer
<1>3. ASSUME NEW t \in DOMAIN sessions'  PROVE Fits(t, sessions'[t], W)
  <2>1. t \in DOMAIN sessions /\ Fits(t, sessions[t], W)
    BY <1>1 DEF SessionTypes, SameOrResult, Fewer
  <2>2. CASE sessions'[t] = sessions[t]
    BY <2>1, <2>2
  <2>3. ASSUME NEW r \in {"none", "set", "saving", "unlisted", "save", "task"},
               sessions'[t] = [sessions[t] EXCEPT !.result = r]
        PROVE  Fits(t, sessions'[t], W)
    <3>1. Fits(t, [sessions[t] EXCEPT !.result = r], W)
      BY <2>1, ResultFits
    <3>2. QED  BY <2>3, <3>1
  <2>4. QED  BY <2>2, <2>3 DEF SameOrResult
<1>4. QED  BY <1>2, <1>3 DEF SessionTypes

\* Steps after which a session is new, or has ended.
LEMMA NewFits ==
  ASSUME NEW W, Grounds(W), NEW t \in TaskIds, NEW p \in PostIds,
         NEW id \in 0 .. MaxContacts, NEW text \in W
  PROVE  Fits(t, NewSession(p, id, text), W)
<1>1. text \in Text \union {None}
  BY DEF Grounds, Vocabulary
<1>2. NewSession(p, id, text) \in Session
  BY <1>1 DEF NewSession, Session
<1>3. QED  BY <1>2 DEF NewSession, Fits

LEMMA AddedFit ==
  ASSUME NEW W, Grounds(W), NEW t \in TaskIds, NEW s, Fits(t, s, W), NEW ts,
         sessions' = With(Without(ts), t, s), spent' = spent \union {t}
  PROVE  SessionTypes(W)'
<1>1. SessionTypes(W)
  BY DEF Grounds, TypesOver
<1>2. /\ DOMAIN sessions' = (DOMAIN sessions \ ts) \union {t}
      /\ sessions'[t] = s
      /\ \A u \in DOMAIN sessions' \ {t} : u \in DOMAIN sessions /\ sessions'[u] = sessions[u]
  <2>1. PICK others : others = Without(ts)
    OBVIOUS
  <2>2. /\ DOMAIN others = DOMAIN sessions \ ts
        /\ \A u \in DOMAIN others : others[u] = sessions[u]
    BY <2>1, WithoutIs
  <2>3. sessions' = With(others, t, s)
    BY <2>1
  <2>4. /\ DOMAIN sessions' = DOMAIN others \union {t} /\ sessions'[t] = s
        /\ \A u \in DOMAIN others \ {t} : sessions'[u] = others[u]
    BY <2>3 DEF With
  <2>5. QED  BY <2>2, <2>4
<1>3. DOMAIN sessions' \subseteq spent' /\ spent' \subseteq TaskIds
  BY <1>1, <1>2 DEF SessionTypes
<1>4. \A u \in DOMAIN sessions' : Fits(u, sessions'[u], W)
  BY <1>1, <1>2 DEF SessionTypes
<1>5. QED  BY <1>3, <1>4 DEF SessionTypes

LEMMA EndFits ==
  ASSUME NEW W, Grounds(W), NEW t \in TaskIds, NEW status \in EndStates, End(t, status)
  PROVE  SessionTypes(W)'
<1>1. SessionTypes(W) /\ t \in DOMAIN sessions
  BY DEF Grounds, TypesOver, End
<1>2. PICK output \in {None} \union (IF t \in Revisions THEN {t} ELSE People) :
        sessions' = [sessions EXCEPT
          ![t].status = status, ![t].output = output,
          ![t].result = IF status = "unavailable" THEN "task" ELSE @]
  BY DEF End
<1>3. DOMAIN sessions' = DOMAIN sessions /\ spent' = spent
  BY <1>2 DEF End
<1>4. \A u \in DOMAIN sessions \ {t} : sessions'[u] = sessions[u]
  BY <1>2
<1>5. Fits(t, sessions[t], W)
  BY <1>1 DEF SessionTypes
<1>6. PICK r \in {"none", "set", "saving", "unlisted", "save", "task"} :
        sessions'[t] = [sessions[t] EXCEPT !.status = status, !.output = output, !.result = r]
  BY <1>1, <1>2, <1>5 DEF Fits, Session
<1>7. output \in People \union Revisions \union {None}
  OBVIOUS
<1>8. sessions'[t] \in Session /\ sessions'[t].draft = sessions[t].draft
        /\ sessions'[t].output = output
  BY <1>5, <1>6, <1>7 DEF Fits, Session, EndStates
<1>9. Fits(t, sessions'[t], W)
  BY <1>5, <1>8 DEF Fits
<1>10. QED  BY <1>1, <1>3, <1>4, <1>9 DEF SessionTypes

\* What a step that does not add a session or end its task makes of them.
LEMMA DismissedAreFewer ==
  ASSUME sessions' = Remaining \/ \E ts : sessions' = Without(ts)
  PROVE  SameOrResult
<1>1. CASE sessions' = Remaining
  BY <1>1, RemainingIs DEF SameOrResult, Fewer
<1>2. ASSUME NEW ts, sessions' = Without(ts)  PROVE SameOrResult
  BY <1>2, WithoutIs DEF SameOrResult, Fewer
<1>3. QED  BY <1>1, <1>2

LEMMA ResultIsSame ==
  ASSUME NEW t, NEW r \in {"none", "set", "saving", "unlisted", "save", "task"},
         sessions' = [sessions EXCEPT ![t].result = r]
  PROVE  SameOrResult
BY DEF SameOrResult, Fewer

LEMMA RestoredIsSame ==
  ASSUME NEW k, Listed(k)
  PROVE  sessions' = sessions \/ sessions' = [sessions EXCEPT ![k.task].result = "task"]
BY DEF Listed, Restored

LEMMA UnlistedIs ==
  ASSUME NEW k, ListFailed(k)
  PROVE  \E r \in {"unlisted", "task"} :
           \/ sessions' = sessions
           \/ /\ sessions' = [sessions EXCEPT ![k.task].result = r]
              /\ k.task \in DOMAIN sessions
              /\ r = "unlisted" <=> Saving(k.task)
<1>1. PICK r : r = IF Saving(k.task) THEN "unlisted" ELSE "task"
  OBVIOUS
<1>2. r \in {"unlisted", "task"} /\ (r = "unlisted" <=> Saving(k.task))
  BY <1>1
<1>3. sessions' = IF k.task \in DOMAIN sessions
                  THEN [sessions EXCEPT ![k.task].result = r] ELSE sessions
  BY <1>1 DEF ListFailed
<1>4. QED  BY <1>2, <1>3

LEMMA ReloadIsSame ==
  ASSUME Reload
  PROVE  SameOrResult
<1>1. sessions' = [t \in DOMAIN Remaining |-> [Remaining[t] EXCEPT !.result = "none"]]
  BY DEF Reload
<1>2. \A t \in DOMAIN Remaining : t \in DOMAIN sessions /\ Remaining[t] = sessions[t]
  BY RemainingIs
<1>3. /\ DOMAIN sessions' = DOMAIN Remaining
      /\ \A t \in DOMAIN Remaining : sessions'[t] = [sessions[t] EXCEPT !.result = "none"]
  BY <1>1, <1>2
<1>4. QED  BY <1>2, <1>3 DEF SameOrResult, Fewer

LEMMA SessionTypesStep ==
  ASSUME NEW W, Grounds(W), OutreachStep
  PROVE  SessionTypes(W)'
<1>1. SessionTypes(W) /\ PageTypes(W) /\ OutreachAssumption
  BY OutreachAssumption DEF Grounds, TypesOver
<1>2. CASE SessionsKept
  BY <1>1, <1>2 DEF SessionsKept, SessionTypes
<1>3. ASSUME SameOrResult, spent' = spent  PROVE SessionTypes(W)'
  BY <1>3, FewerFit
<1>4. ASSUME NEW p \in PostIds, OpenOutreach(p) \/ TrackPost(p)  PROVE SessionTypes(W)'
  BY <1>3, <1>4, DismissedAreFewer DEF OpenOutreach, TrackPost
<1>5. ASSUME NEW p \in PostIds, SaveShown(p)  PROVE SessionTypes(W)'
  BY <1>3, <1>5, DismissedAreFewer DEF SaveShown, Finish
<1>6. ASSUME NEW p \in PostIds, SaveFails(p)  PROVE SessionTypes(W)'
  <2>1. spent' = spent
    BY <1>6 DEF SaveFails
  <2>2. PICK r \in {"save", "task"} :
          \/ sessions' = sessions
          \/ sessions' = [sessions EXCEPT ![First(p).task].result = r]
    BY <1>6 DEF SaveFails
  <2>3. CASE sessions' = sessions
    BY <1>1, <2>1, <2>3 DEF SessionTypes
  <2>4. CASE sessions' = [sessions EXCEPT ![First(p).task].result = r]
    BY <1>3, <2>1, <2>4, ResultIsSame
  <2>5. QED  BY <2>2, <2>3, <2>4
<1>7. ASSUME NEW t \in TaskIds, RestoreTask(t) \/ OpenTask(t)  PROVE SessionTypes(W)'
  BY <1>3, <1>7, DismissedAreFewer DEF RestoreTask, OpenTask
<1>8. ASSUME NEW t \in TaskIds, Discover(t)  PROVE SessionTypes(W)'
  <2>1. sessions' = With(sessions, t, NewSession(postId, 0, None)) /\ spent' = spent \union {t}
    BY <1>8 DEF Discover
  <2>2. postId \in PostIds /\ 0 \in 0 .. MaxContacts /\ None \in W
    BY <1>1, <1>8 DEF Discover, PageTypes, Grounds, Vocabulary, OutreachAssumption
  <2>3. Fits(t, NewSession(postId, 0, None), W)
    BY <2>2, NewFits
  <2>4. /\ DOMAIN sessions' = DOMAIN sessions \union {t}
        /\ sessions'[t] = NewSession(postId, 0, None)
        /\ \A u \in DOMAIN sessions \ {t} : sessions'[u] = sessions[u]
    BY <2>1 DEF With
  <2>5. QED  BY <1>1, <2>1, <2>3, <2>4 DEF SessionTypes
<1>9. ASSUME NEW t \in TaskIds, Revise(t)  PROVE SessionTypes(W)'
  <2>1. contact # None
    BY <1>9 DEF Revise
  <2>2. contact.id \in 0 .. MaxContacts /\ draft \in W
    BY <1>1, <2>1 DEF PageTypes, Rows, Contact
  <2>3. postId \in PostIds
    BY <1>1, <2>1 DEF PageTypes
  <2>4. Fits(t, NewSession(postId, contact.id, draft), W)
    BY <2>2, <2>3, NewFits
  <2>5. /\ sessions' = With(Without(RevisionsOf(contact.id)), t,
                            NewSession(postId, contact.id, draft))
        /\ spent' = spent \union {t}
    BY <1>9 DEF Revise
  <2>6. QED  BY <2>4, <2>5, AddedFit
<1>10. ASSUME NEW t \in TaskIds, ApplyTask(t)  PROVE SessionTypes(W)'
  BY <1>3, <1>10, ResultIsSame DEF ApplyTask
<1>11. ASSUME NEW t \in TaskIds, ApplyDraft(t)  PROVE SessionTypes(W)'
  <2>1. /\ spent' = spent
        /\ \/ sessions' = [sessions EXCEPT ![t].result = "set"]
           \/ sessions' = [sessions EXCEPT ![t].result = "task"]
           \/ sessions' = Without({t})
    BY <1>11 DEF ApplyDraft, Finish
  <2>2. QED  BY <1>3, <2>1, ResultIsSame, DismissedAreFewer
<1>12. ASSUME NEW t \in TaskIds, RetryRun(t)  PROVE SessionTypes(W)'
  <2>1. selected \in DOMAIN sessions
    BY <1>1, <1>12 DEF RetryRun, PageTypes
  <2>2. Fits(selected, sessions[selected], W)
    BY <1>1, <2>1 DEF SessionTypes
  <2>3. /\ sessions[selected].post \in PostIds /\ sessions[selected].id \in 0 .. MaxContacts
        /\ sessions[selected].draft \in W
    BY <2>2 DEF Fits, Session
  <2>4. Fits(t, NewSession(sessions[selected].post, sessions[selected].id,
                           sessions[selected].draft), W)
    BY <2>3, NewFits
  <2>5. /\ sessions' = With(Without({selected}), t,
             NewSession(sessions[selected].post, sessions[selected].id,
                        sessions[selected].draft))
        /\ spent' = spent \union {t}
    BY <1>12 DEF RetryRun
  <2>6. QED  BY <2>4, <2>5, AddedFit
<1>13. ASSUME NEW t \in TaskIds, NEW status \in EndStates, End(t, status)
       PROVE  SessionTypes(W)'
  BY <1>13, EndFits
<1>14. ASSUME NEW k \in calls, Listed(k)  PROVE SessionTypes(W)'
  <2>1. spent' = spent
    BY <1>14 DEF Listed
  <2>2. sessions' = sessions \/ sessions' = [sessions EXCEPT ![k.task].result = "task"]
    BY <1>14, RestoredIsSame
  <2>3. CASE sessions' = sessions
    BY <1>1, <2>1, <2>3 DEF SessionTypes
  <2>4. CASE sessions' = [sessions EXCEPT ![k.task].result = "task"]
    BY <1>3, <2>1, <2>4, ResultIsSame
  <2>5. QED  BY <2>2, <2>3, <2>4
<1>15. ASSUME NEW k \in calls, ListFailed(k)  PROVE SessionTypes(W)'
  <2>1. spent' = spent
    BY <1>15 DEF ListFailed
  <2>2. PICK r \in {"unlisted", "task"} :
          sessions' = sessions \/ sessions' = [sessions EXCEPT ![k.task].result = r]
    BY <1>15, UnlistedIs
  <2>3. CASE sessions' = sessions
    BY <1>1, <2>1, <2>3 DEF SessionTypes
  <2>4. CASE sessions' = [sessions EXCEPT ![k.task].result = r]
    BY <1>3, <2>1, <2>4, ResultIsSame
  <2>5. QED  BY <2>2, <2>3, <2>4
<1>16. CASE Reset \/ ClosePanel
  BY <1>3, <1>16, DismissedAreFewer DEF Reset, ClosePanel
<1>17. CASE ShowContacts
  <2>1. spent' = spent /\ (sessions' = sessions \/ sessions' = Without({selected}))
    BY <1>17 DEF ShowContacts
  <2>2. CASE sessions' = sessions
    BY <1>1, <2>1, <2>2 DEF SessionTypes
  <2>3. CASE sessions' = Without({selected})
    BY <1>3, <2>1, <2>3, DismissedAreFewer
  <2>4. QED  BY <2>1, <2>2, <2>3
<1>18. CASE RetrySave
  BY <1>3, <1>18, ResultIsSame DEF RetrySave
<1>19. CASE Reload
  BY <1>3, <1>19, ReloadIsSame DEF Reload
<1>20. QED
  BY <1>2, <1>4, <1>5, <1>6, <1>7, <1>8, <1>9, <1>10, <1>11, <1>12, <1>13, <1>14, <1>15,
     <1>16, <1>17, <1>18, <1>19, SessionSteps

\* The newest of some contacts.
LEMMA LeastExists ==
  ASSUME NEW T, T \subseteq Nat, T # {}
  PROVE  \E x \in T : \A y \in T : x <= y
<1>1. PICK R : R = OpToRel(<, Nat)
  OBVIOUS
<1>2. R = {ss \in Nat \X Nat : ss[1] < ss[2]}
  BY <1>1 DEF OpToRel
<1>3. IsWellFoundedOn(R, Nat)
  BY <1>1, NatLessThanWellFounded
<1>4. PICK x \in T : \A y \in T : ~ (<<y, x>> \in R)
  BY <1>3, WFMin
<1>5. ASSUME NEW y \in T  PROVE x <= y
  <2>1. x \in Nat /\ y \in Nat /\ <<y, x>> \notin R
    BY <1>4
  <2>2. ~ (y < x)
    BY <1>2, <2>1
  <2>3. QED  BY <2>1, <2>2
<1>6. QED  BY <1>4, <1>5

LEMMA NewestExists ==
  ASSUME NEW cs, cs \subseteq Contact, cs # {}, MaxContacts \in Nat
  PROVE  \E c \in cs : \A d \in cs : d.id <= c.id
<1>1. PICK T : T = {MaxContacts - c.id : c \in cs}
  OBVIOUS
<1>2. \A c \in cs : c.id \in Nat /\ MaxContacts - c.id \in Nat
  BY DEF Contact
<1>3. T \subseteq Nat /\ T # {}
  BY <1>1, <1>2
<1>4. PICK x \in T : \A y \in T : x <= y
  BY <1>3, LeastExists
<1>5. PICK c \in cs : x = MaxContacts - c.id
  BY <1>1, <1>4
<1>6. ASSUME NEW d \in cs  PROVE d.id <= c.id
  <2>1. MaxContacts - c.id <= MaxContacts - d.id
    BY <1>1, <1>4, <1>5
  <2>2. QED  BY <1>2, <2>1
<1>7. QED  BY <1>6

\* A step of saving: stage and got are what it leaves of the work for p.
Left(p, stage, got, W) ==
  /\ stage \in Stages /\ got \in Rows(W) \union {None}
  /\ stage = "idle" => got = None
  /\ stage = "saved" => got \in Rows(W) /\ got.post = p

LEMMA StepFits ==
  ASSUME NEW W, Grounds(W), NEW p \in PostIds, NEW stage, NEW got,
         Left(p, stage, got, W), Step(p, stage, got), queues' \in [PostIds -> Seq(Entries)]
  PROVE  WorkTypes(W)'
<1>1. WorkTypes(W)
  BY DEF Grounds, TypesOver
<1>2. [stage |-> stage, got |-> got] \in Works(W)
  BY DEF Left, Works
<1>3. work' \in [PostIds -> Works(W)]
  BY <1>1, <1>2 DEF Step, WorkTypes
<1>4. work'[p] = [stage |-> stage, got |-> got]
  BY <1>1 DEF Step, WorkTypes
<1>5. \A q \in PostIds \ {p} : work'[q] = work[q]
  BY <1>1 DEF Step, WorkTypes
<1>6. ASSUME NEW q \in PostIds
      PROVE  /\ work'[q].stage = "idle" => work'[q] = Idle
             /\ work'[q].stage = "saved" => work'[q].got \in Rows(W) /\ work'[q].got.post = q
  <2>1. CASE q = p
    BY <1>4, <2>1 DEF Left, Idle
  <2>2. CASE q # p
    BY <1>1, <1>5, <2>2 DEF WorkTypes
  <2>3. QED  BY <2>1, <2>2
<1>7. QED  BY <1>3, <1>6 DEF WorkTypes

LEMMA AppendFits ==
  ASSUME NEW W, Grounds(W), NEW p, NEW e \in Entries,
         queues' = [queues EXCEPT ![p] = Append(@, e)], work' = work
  PROVE  WorkTypes(W)'
<1>1. WorkTypes(W)
  BY DEF Grounds, TypesOver
<1>2. p \in PostIds => Append(queues[p], e) \in Seq(Entries)
  BY <1>1 DEF WorkTypes
<1>3. queues' \in [PostIds -> Seq(Entries)]
  BY <1>1, <1>2 DEF WorkTypes
<1>4. QED  BY <1>1, <1>3 DEF WorkTypes

\* What a discovery is queued with.
LEMMA EntryFits ==
  ASSUME NEW W, Grounds(W), NEW t \in Discoveries, t \in DOMAIN sessions
  PROVE  /\ Entry(t) \in Entries /\ Entry(t).task = t
         /\ Enqueued(t) = [queues EXCEPT ![sessions[t].post] = Append(@, Entry(t))]
<1>1. Fits(t, sessions[t], W)
  BY DEF Grounds, TypesOver, SessionTypes
<1>2. t \notin Revisions
  BY OutreachAssumption DEF OutreachAssumption
<1>3. sessions[t].output \in People \union {None}
  BY <1>1, <1>2 DEF Fits
<1>4. QED  BY <1>3 DEF Entry, Entries, Enqueued

LEMMA TailFits ==
  ASSUME NEW W, Grounds(W), NEW p \in PostIds, queues[p] # <<>>,
         queues' = [queues EXCEPT ![p] = Tail(@)]
  PROVE  queues' \in [PostIds -> Seq(Entries)]
<1>1. queues \in [PostIds -> Seq(Entries)]
  BY DEF Grounds, TypesOver, WorkTypes
<1>2. Tail(queues[p]) \in Seq(Entries)
  BY <1>1
<1>3. QED  BY <1>1, <1>2

LEMMA WorkTypesStep ==
  ASSUME NEW W, Grounds(W), OutreachStep
  PROVE  WorkTypes(W)'
<1>1. WorkTypes(W) /\ ServerTypes(W) /\ OutreachAssumption
  BY OutreachAssumption DEF Grounds, TypesOver
<1>2. CASE WorkKept
  BY <1>1, <1>2 DEF WorkKept, WorkTypes
<1>3. queues \in [PostIds -> Seq(Entries)]
  BY <1>1 DEF WorkTypes
<1>4. ASSUME NEW p \in PostIds, SaveBegins(p)  PROVE WorkTypes(W)'
  <2>1. queues' = queues /\ (Step(p, "invalid", None) \/ Step(p, "list", None))
    BY <1>4 DEF SaveBegins
  <2>2. Left(p, "invalid", None, W) /\ Left(p, "list", None, W)
    BY DEF Left, Stages
  <2>3. QED  BY <1>3, <2>1, <2>2, StepFits
<1>5. ASSUME NEW p \in PostIds, SaveLooksUp(p)  PROVE WorkTypes(W)'
  <2>1. PICK there : there = {c \in Of(p, saved) :
                                c.person = First(p).person}
    OBVIOUS
  <2>2. /\ queues' = queues
        /\ \/ there = {} /\ Step(p, "create", None)
           \/ /\ there # {}
              /\ Step(p, "saved", CHOOSE c \in there : \A d \in there : d.id <= c.id)
           \/ Step(p, "error", None)
    BY <1>5, <2>1 DEF SaveLooksUp
  <2>3. Left(p, "create", None, W) /\ Left(p, "error", None, W)
    BY DEF Left, Stages
  <2>4. \A c \in there : c \in Rows(W) /\ c.post = p /\ c \in Contact
    BY <1>1, <2>1 DEF Of, ServerTypes, Rows
  <2>5. ASSUME there # {}
        PROVE  Left(p, "saved", CHOOSE c \in there : \A d \in there : d.id <= c.id, W)
    <3>1. PICK c \in there : \A d \in there : d.id <= c.id
      BY <1>1, <2>4, <2>5, NewestExists DEF OutreachAssumption
    <3>2. (CHOOSE x \in there : \A d \in there : d.id <= x.id) \in there
      BY <3>1
    <3>3. QED  BY <2>4, <3>2 DEF Left, Stages
  <2>6. QED  BY <1>3, <2>2, <2>3, <2>5, StepFits
<1>6. ASSUME NEW p \in PostIds, SaveCreates(p)  PROVE WorkTypes(W)'
  <2>1. PICK c : c = Created(p, First(p).person)
    OBVIOUS
  <2>2. queues' = queues /\ (Step(p, "saved", c) \/ Step(p, "error", None))
    BY <1>6, <2>1 DEF SaveCreates
  <2>3. First(p).person \in People
    BY <1>6, PersonIsKnown DEF SaveCreates
  <2>4. c \in Rows(W) /\ c.post = p
    BY <1>6, <2>1, <2>3, CreatedRow DEF SaveCreates
  <2>5. Left(p, "saved", c, W) /\ Left(p, "error", None, W)
    BY <2>4 DEF Left, Stages
  <2>6. QED  BY <1>3, <2>2, <2>5, StepFits
<1>7. ASSUME NEW p \in PostIds, SaveShown(p) \/ SaveFails(p)  PROVE WorkTypes(W)'
  <2>1. Step(p, "idle", None) /\ queues' = [queues EXCEPT ![p] = Tail(@)]
    BY <1>7 DEF SaveShown, SaveFails
  <2>2. work[p].stage # "idle"
    BY <1>7 DEF SaveShown, SaveFails
  <2>3. queues[p] # <<>>
    BY <2>2 DEF Grounds, SavingInv, WorkInv
  <2>4. queues' \in [PostIds -> Seq(Entries)]
    BY <2>1, <2>3, TailFits
  <2>5. Left(p, "idle", None, W)
    BY DEF Left, Stages
  <2>6. QED  BY <2>1, <2>4, <2>5, StepFits
<1>8. ASSUME NEW t \in TaskIds, ApplyTask(t)  PROVE WorkTypes(W)'
  <2>1. CASE queues' = queues /\ work' = work
    BY <1>1, <2>1 DEF WorkTypes
  <2>2. CASE t \in Discoveries /\ queues' = Enqueued(t) /\ work' = work
    <3>1. t \in DOMAIN sessions
      BY <1>8 DEF ApplyTask
    <3>2. PICK p : p = sessions[t].post
      OBVIOUS
    <3>3. Entry(t) \in Entries /\ queues' = [queues EXCEPT ![p] = Append(@, Entry(t))]
      BY <2>2, <3>1, <3>2, EntryFits
    <3>4. PICK e \in Entries : queues' = [queues EXCEPT ![p] = Append(@, e)]
      BY <3>3
    <3>5. QED  BY <2>2, <3>4, AppendFits
  <2>3. QED  BY <1>8, <2>1, <2>2 DEF ApplyTask
<1>9. CASE RetrySave
  <2>1. selected \in Discoveries /\ work' = work /\ queues' = Enqueued(selected)
    BY <1>9 DEF RetrySave
  <2>2. selected \in DOMAIN sessions
    BY <2>1, OutreachAssumption
      DEF OutreachAssumption, Grounds, TypesOver, PageTypes
  <2>3. PICK p : p = sessions[selected].post
    OBVIOUS
  <2>4. Entry(selected) \in Entries
          /\ queues' = [queues EXCEPT ![p] = Append(@, Entry(selected))]
    BY <2>1, <2>2, <2>3, EntryFits
  <2>5. PICK e \in Entries : queues' = [queues EXCEPT ![p] = Append(@, e)]
    BY <2>4
  <2>6. QED  BY <2>1, <2>5, AppendFits
<1>10. CASE Reload
  <2>1. queues' = [p \in PostIds |-> <<>>] /\ work' = [p \in PostIds |-> Idle]
    BY <1>10 DEF Reload
  <2>2. Idle \in Works(W) /\ Idle.stage = "idle" /\ <<>> \in Seq(Entries)
    BY DEF Idle, Works, Stages
  <2>3. QED  BY <2>1, <2>2 DEF WorkTypes
<1>11. QED  BY <1>2, <1>4, <1>5, <1>6, <1>7, <1>8, <1>9, <1>10, WorkSteps

\* A new request, and those that are outdated.
LEMMA AskFits ==
  ASSUME NEW W, Grounds(W), NEW op \in {"list", "draft", "messaged", "remove", "track"},
         NEW p \in PostIds \union {None}, NEW c \in Rows(W) \union {None},
         NEW t \in TaskIds \union {None},
         op = "draft" => draft # None, op = "list" => p \in PostIds
  PROVE  CallFits(Ask(op, p, c, t), W)
<1>1. draft \in W /\ None \in W /\ W \subseteq Text \union {None}
  BY DEF Grounds, TypesOver, PageTypes, Vocabulary
<1>2. (IF c = None THEN 0 ELSE c.id) \in 0 .. MaxContacts
  BY OutreachAssumption DEF OutreachAssumption, Rows, Contact
<1>3. Ask(op, p, c, t) \in Call
  BY <1>1, <1>2 DEF Ask, Call
<1>4. QED  BY <1>1, <1>3 DEF Ask, CallFits

LEMMA OutdatedIs ==
  ASSUME NEW ops, NEW cs, NEW k \in Outdated(ops, cs)
  PROVE  \E l \in cs : \/ k = l /\ l.op \notin ops
                       \/ k = [l EXCEPT !.current = FALSE] /\ l.op \in ops
BY DEF Outdated

LEMMA OutdatedFits ==
  ASSUME NEW W, NEW ops, NEW cs, \A k \in cs : CallFits(k, W)
  PROVE  \A k \in Outdated(ops, cs) : CallFits(k, W)
<1>1. SUFFICES ASSUME NEW k \in Outdated(ops, cs)  PROVE CallFits(k, W)
  OBVIOUS
<1>2. PICK l \in cs : k = l \/ k = [l EXCEPT !.current = FALSE]
  BY OutdatedIs
<1>3. CallFits(l, W)
  BY <1>2
<1>4. CASE k = [l EXCEPT !.current = FALSE]
  <2>1. l \in Call
    BY <1>3 DEF CallFits
  <2>2. k \in Call /\ k.draft = l.draft /\ k.got = l.got /\ k.op = l.op /\ k.post = l.post
          /\ k.answer = l.answer /\ k.id = l.id
    BY <1>4, <2>1 DEF Call
  <2>3. QED  BY <1>3, <2>2 DEF CallFits
<1>5. QED  BY <1>2, <1>3, <1>4

\* The answer fits its request.
LEMMA HandleFits ==
  ASSUME NEW W, Grounds(W), NEW k \in calls, Handle(k)
  PROVE  CallTypes(W)'
<1>1. CallTypes(W) /\ CallFits(k, W) /\ saved \subseteq Rows(W)
  BY DEF Grounds, TypesOver, CallTypes, ServerTypes
<1>2. k \in Call
  BY <1>1 DEF CallFits
<1>3. ASSUME NEW answer \in {"ok", "failed"}, NEW got, got \subseteq Rows(W),
             answer = "ok" /\ k.op \in {"draft", "messaged"} =>
               got # {} /\ \A c \in got : c.id = k.id,
             k.op # "track" => \A c \in got : c.post = k.post,
             Done(k, answer, got)
      PROVE  CallTypes(W)'
  <2>1. PICK new : new = [k EXCEPT !.answer = answer, !.got = got]
    OBVIOUS
  <2>2. got \in SUBSET Contact
    BY <1>3 DEF Rows
  <2>3. new \in Call /\ new.answer = answer /\ new.got = got /\ new.op = k.op
          /\ new.post = k.post /\ new.id = k.id /\ new.draft = k.draft
    BY <1>2, <2>1, <2>2 DEF Call
  <2>4. CallFits(new, W)
    BY <1>1, <1>3, <2>3 DEF CallFits
  <2>5. calls' = (calls \ {k}) \union {new}
    BY <1>3, <2>1 DEF Done
  <2>6. QED  BY <1>1, <2>4, <2>5 DEF CallTypes
<1>4. CASE Done(k, "failed", {})
  BY <1>3, <1>4
<1>5. CASE k.op = "list" /\ Done(k, "ok", Of(k.post, saved))
  BY <1>1, <1>3, <1>5 DEF Of
<1>6. CASE k.op = "track" /\ Done(k, "ok", saved)
  BY <1>1, <1>3, <1>6
<1>7. CASE /\ k.op \in {"draft", "messaged"} /\ Meant(k) # {}
           /\ Done(k, "ok", {Written(c, k) : c \in Meant(k)})
  <2>1. \A c \in Meant(k) : /\ Written(c, k) \in Rows(W)
                            /\ Written(c, k).id = k.id /\ Written(c, k).post = k.post
    BY <1>1, WrittenIs DEF Meant
  <2>2. PICK got : got = {Written(c, k) : c \in Meant(k)}
    OBVIOUS
  <2>3. got \subseteq Rows(W) /\ got # {} /\ \A c \in got : c.id = k.id /\ c.post = k.post
    BY <1>7, <2>1, <2>2
  <2>4. QED  BY <1>3, <1>7, <2>2, <2>3
<1>8. CASE k.op = "remove" /\ Done(k, "ok", {})
  BY <1>3, <1>8
<1>9. QED  BY <1>4, <1>5, <1>6, <1>7, <1>8, HandledIs

LEMMA CallTypesStep ==
  ASSUME NEW W, Grounds(W), OutreachStep
  PROVE  CallTypes(W)'
<1>1. /\ CallTypes(W) /\ PageTypes(W) /\ SessionTypes(W) /\ OutreachAssumption
      /\ None \in Rows(W) \union {None} /\ None \in TaskIds \union {None}
  BY OutreachAssumption DEF Grounds, TypesOver
<1>2. CASE CallsKept
  BY <1>1, <1>2 DEF CallsKept, CallTypes
<1>3. ASSUME calls' \subseteq calls  PROVE CallTypes(W)'
  BY <1>1, <1>3 DEF CallTypes
<1>4. ASSUME NEW cs, \A k \in cs : CallFits(k, W), NEW p \in PostIds,
             NEW t \in TaskIds \union {None}, Fetch(p, t, cs)
      PROVE  CallTypes(W)'
  <2>1. CallFits(Ask("list", p, None, t), W)
    BY <1>1, AskFits
  <2>2. \A k \in Outdated({"list"}, cs) : CallFits(k, W)
    BY <1>4, OutdatedFits
  <2>3. calls' = Outdated({"list"}, cs) \union {Ask("list", p, None, t)}
    BY <1>4 DEF Fetch
  <2>4. QED  BY <2>1, <2>2, <2>3 DEF CallTypes
<1>5. \A p : \A k \in Kept(p) : CallFits(k, W)
  <2>1. \A k \in Outdated({"list"} \union Updates, calls) : CallFits(k, W)
    BY <1>1, OutdatedFits DEF CallTypes
  <2>2. QED  BY <1>1, <2>1 DEF Kept, CallTypes
<1>6. ASSUME NEW p \in PostIds, OpenOutreach(p)  PROVE CallTypes(W)'
  BY <1>1, <1>4, <1>5, <1>6 DEF OpenOutreach
<1>7. ASSUME NEW p \in PostIds, TrackPost(p)  PROVE CallTypes(W)'
  BY <1>5, <1>7 DEF TrackPost, CallTypes
<1>8. ASSUME NEW t \in TaskIds, RestoreTask(t)  PROVE CallTypes(W)'
  <2>1. sessions[t].post \in PostIds
    BY <1>1, <1>8 DEF RestoreTask, SessionTypes, Fits, Session
  <2>2. Fetch(sessions[t].post, t, Kept(sessions[t].post))
    BY <1>8 DEF RestoreTask
  <2>3. QED  BY <1>4, <1>5, <2>1, <2>2
<1>9. ASSUME NEW k \in calls, Handle(k)  PROVE CallTypes(W)'
  BY <1>9, HandleFits
<1>10. ASSUME NEW k \in calls, Listed(k) \/ ListFailed(k) \/ Drop(k) \/ Changed(k)
                                 \/ ChangeFailed(k) \/ TrackLoaded(k)
       PROVE  CallTypes(W)'
  <2>1. calls' = calls \ {k}
    BY <1>10 DEF Listed, ListFailed, Drop, Changed, ChangeFailed, TrackLoaded
  <2>2. QED  BY <1>3, <2>1
<1>11. ASSUME NEW cs, cs \subseteq calls
       PROVE  \A k \in Outdated({"track"}, cs) \union {Ask("track", None, None, None)} :
                CallFits(k, W)
  <2>1. CallFits(Ask("track", None, None, None), W)
    BY <1>1, AskFits
  <2>2. \A k \in Outdated({"track"}, cs) : CallFits(k, W)
    BY <1>1, <1>11, OutdatedFits DEF CallTypes
  <2>3. QED  BY <2>1, <2>2
<1>12. ASSUME NEW k \in calls, Removed(k)  PROVE CallTypes(W)'
  <2>1. \/ calls' = calls \ {k}
        \/ calls' = Outdated({"track"}, calls \ {k}) \union {Ask("track", None, None, None)}
    BY <1>12 DEF Removed
  <2>2. calls \ {k} \subseteq calls
    OBVIOUS
  <2>3. QED  BY <1>3, <1>11, <2>1, <2>2 DEF CallTypes
<1>13. ASSUME NEW op \in Updates, Change(op)  PROVE CallTypes(W)'
  <2>1. /\ op \in {"list", "draft", "messaged", "remove", "track"}
        /\ op = "draft" => draft # None
        /\ op = "list" => postId \in PostIds
        /\ postId \in PostIds \union {None} /\ contact \in Rows(W) \union {None}
    BY <1>1, <1>13 DEF Change, Updates, PageTypes
  <2>2. CallFits(Ask(op, postId, contact, None), W)
    BY <1>1, <2>1, AskFits
  <2>3. \A k \in Outdated(Updates, calls) : CallFits(k, W)
    BY <1>1, OutdatedFits DEF CallTypes
  <2>4. QED  BY <1>13, <2>2, <2>3 DEF Change, CallTypes
<1>14. CASE Reset
  BY <1>1, <1>14, OutdatedFits DEF Reset, CallTypes
<1>15. CASE LoadTracked
  BY <1>11, <1>15 DEF LoadTracked, CallTypes
<1>16. CASE Reload
  <2>1. PICK open : open = {c \in calls : c.op \in Updates /\ c.answer = "none"}
    OBVIOUS
  <2>2. \A k \in open : CallFits(k, W)
    BY <1>1, <2>1 DEF CallTypes
  <2>3. calls' = Outdated(Updates, open)
    BY <1>16, <2>1 DEF Reload
  <2>4. QED  BY <2>2, <2>3, OutdatedFits DEF CallTypes
<1>17. CASE RestoreList
  <2>1. postId \in PostIds /\ Fetch(postId, None, calls)
    BY <1>1, <1>17 DEF RestoreList, PageTypes
  <2>2. QED  BY <1>1, <1>4, <2>1 DEF CallTypes
<1>18. QED
  BY <1>2, <1>6, <1>7, <1>8, <1>9, <1>10, <1>12, <1>13, <1>14, <1>15, <1>16, <1>17, CallSteps

\* What is shown when a post is opened.
LEMMA OpenedFits ==
  ASSUME NEW W, Grounds(W), NEW p \in PostIds, NEW task, NEW kept, NEW known,
         OpenFor(p, task, kept, known), kept = sessions', known \subseteq Rows(W),
         \A t \in DOMAIN kept : kept[t].draft \in W,
         loading' \in BOOLEAN, entries' = entries
  PROVE  PageTypes(W)'
<1>1. PageTypes(W) /\ None \in W /\ None \notin PostIds
  BY OutreachAssumption DEF OutreachAssumption, Grounds, TypesOver, Vocabulary
<1>2. PICK t : t = IF task \in DOMAIN kept /\ kept[task].post = p THEN task ELSE None
  OBVIOUS
<1>3. PICK own : own = IF t \in Revisions THEN {c \in known : c.id = kept[t].id} ELSE {}
  OBVIOUS
<1>4. t \in DOMAIN kept \union {None} /\ own \subseteq Rows(W) /\ None \notin Revisions
  BY <1>2, <1>3, OutreachAssumption DEF OutreachAssumption
<1>5. /\ postId' = p /\ selected' = t /\ contacts' = known
      /\ contact' = IF own = {} THEN None ELSE CHOOSE c \in own : TRUE
      /\ draft' = IF t \in Revisions THEN kept[t].draft ELSE None
      /\ returnPost' = IF returnPost = p THEN None ELSE returnPost
      /\ updating' = (updating /\ postId = p)
  BY <1>2, <1>3 DEF OpenFor
<1>6. contact' \in Rows(W) \union {None}
  BY <1>4, <1>5
<1>7. draft' \in W
  BY <1>1, <1>4, <1>5
<1>8. selected' \in DOMAIN sessions' \union {None}
  BY <1>4, <1>5
<1>9. returnPost' \in PostIds \union {None} /\ updating' \in BOOLEAN
  BY <1>1, <1>5 DEF PageTypes
<1>10. QED  BY <1>1, <1>5, <1>6, <1>7, <1>8, <1>9 DEF PageTypes

LEMMA PageTypesStep ==
  ASSUME NEW W, Grounds(W), OutreachStep
  PROVE  \/ PageTypes(W)'
         \/ \E t \in TaskIds : ApplyDraft(t)
<1>1. /\ CallTypes(W) /\ PageTypes(W) /\ SessionTypes(W) /\ WorkTypes(W) /\ OutreachAssumption
      /\ {None, "found", "typed"} \subseteq W
  BY OutreachAssumption DEF Grounds, TypesOver, Vocabulary
<1>2. \A t \in DOMAIN sessions : sessions[t].draft \in W /\ sessions[t].post \in PostIds
  BY <1>1 DEF SessionTypes, Fits, Session
<1>3. CASE PageKept
  BY <1>1, <1>3 DEF PageKept, PageTypes
<1>4. \A t \in DOMAIN Remaining : Remaining[t].draft \in W
  BY <1>2, RemainingIs
<1>5. \A p : Shown(p) \subseteq Rows(W)
  BY <1>1 DEF Shown, PageTypes
<1>6. ASSUME NEW p \in PostIds, OpenOutreach(p)  PROVE PageTypes(W)'
  <2>1. /\ OpenFor(p, None, Remaining, Shown(p)) /\ Remaining = sessions'
        /\ loading' \in BOOLEAN /\ entries' = entries
    BY <1>6 DEF OpenOutreach, Fetch
  <2>2. QED  BY <1>4, <1>5, <2>1, OpenedFits
<1>7. ASSUME NEW p \in PostIds, TrackPost(p)  PROVE PageTypes(W)'
  <2>1. /\ OpenFor(p, None, Remaining, Of(p, entries)) /\ Remaining = sessions'
        /\ loading' \in BOOLEAN /\ entries' = entries
    BY <1>7 DEF TrackPost
  <2>2. Of(p, entries) \subseteq Rows(W)
    BY <1>1, <1>7 DEF TrackPost, Of, PageTypes
  <2>3. QED  BY <1>4, <2>1, <2>2, OpenedFits
<1>8. ASSUME NEW p \in PostIds, SaveShown(p)  PROVE PageTypes(W)'
  <2>1. PICK c : c = work[p].got
    OBVIOUS
  <2>2. c \in Rows(W) /\ c.draft \in W
    BY <1>1, <1>8, <2>1 DEF SaveShown, WorkTypes, Rows
  <2>3. PICK u : u = First(p).task
    OBVIOUS
  <2>4. /\ DOMAIN sessions' = DOMAIN sessions \ {u}
        /\ contacts' = contacts \/ contacts' = {c} \union {d \in contacts : d.id # c.id}
        /\ contacts' = contacts \/ postId = p
        /\ \/ UNCHANGED <<contact, draft>>
           \/ postId = p /\ contact' = c /\ draft' = c.draft
        /\ selected' = IF selected = u THEN None ELSE selected
        /\ UNCHANGED <<postId, updating, loading, returnPost, entries>>
    BY <1>8, <2>1, <2>3, WithoutIs DEF SaveShown, Finish
  <2>5. contacts' \subseteq Rows(W)
    BY <1>1, <2>2, <2>4 DEF PageTypes
  <2>6. contact' \in Rows(W) \union {None} /\ draft' \in W
    BY <1>1, <2>2, <2>4 DEF PageTypes
  <2>7. postId' = None => contact' = None /\ contacts' = {}
    BY <1>1, <2>4 DEF PageTypes, OutreachAssumption
  <2>8. QED  BY <1>1, <2>3, <2>4, <2>5, <2>6, <2>7 DEF PageTypes
<1>9. ASSUME NEW t \in TaskIds, RestoreTask(t)  PROVE PageTypes(W)'
  <2>1. /\ OpenFor(sessions[t].post, t, Remaining, Shown(sessions[t].post))
        /\ Remaining = sessions' /\ loading' \in BOOLEAN /\ entries' = entries
    BY <1>9 DEF RestoreTask, Fetch
  <2>2. sessions[t].post \in PostIds
    BY <1>2, <1>9 DEF RestoreTask
  <2>3. QED  BY <1>4, <1>5, <2>1, <2>2, OpenedFits
<1>10. ASSUME NEW t \in TaskIds, OpenTask(t)  PROVE PageTypes(W)'
  <2>1. /\ OpenFor(postId, t, Remaining, contacts) /\ Remaining = sessions'
        /\ loading' = loading /\ entries' = entries
    BY <1>10 DEF OpenTask
  <2>2. postId \in PostIds /\ contacts \subseteq Rows(W) /\ loading' \in BOOLEAN
    BY <1>1, <1>2, <1>10, <2>1 DEF OpenTask, PageTypes
  <2>3. QED  BY <1>4, <2>1, <2>2, OpenedFits
<1>11. ASSUME NEW t \in TaskIds, Discover(t)  PROVE PageTypes(W)'
  <2>1. DOMAIN sessions' = DOMAIN sessions \union {t}
    BY <1>11 DEF Discover, With
  <2>2. QED  BY <1>1, <1>11, <2>1 DEF Discover, PageTypes
<1>12. ASSUME NEW t \in TaskIds, Revise(t)  PROVE PageTypes(W)'
  <2>1. t \in DOMAIN sessions'
    BY <1>12 DEF Revise, With
  <2>2. QED  BY <1>1, <1>12, <2>1 DEF Revise, PageTypes
<1>13. ASSUME NEW t \in TaskIds, RetryRun(t)  PROVE PageTypes(W)'
  <2>1. t \in DOMAIN sessions'
    BY <1>13 DEF RetryRun, With
  <2>2. QED  BY <1>1, <1>13, <2>1 DEF RetryRun, PageTypes
<1>14. ASSUME NEW t \in TaskIds, NEW status \in EndStates, End(t, status)
       PROVE  PageTypes(W)'
  <2>1. DOMAIN sessions' = DOMAIN sessions
    BY <1>14 DEF End
  <2>2. QED  BY <1>1, <1>14, <2>1 DEF End, PageTypes
<1>15. ASSUME NEW k \in calls, Listed(k)  PROVE PageTypes(W)'
  <2>1. k.got \subseteq Rows(W) /\ k.post \in PostIds /\ k.post = postId
    BY <1>1, <1>15 DEF Listed, CallTypes, CallFits, Grounds, CurrentInv
  <2>2. contacts' \subseteq Rows(W)
    BY <1>1, <1>15, <2>1 DEF Listed, PageTypes
  <2>3. \/ UNCHANGED <<contact, draft>>
        \/ /\ k.task \in DOMAIN sessions
           /\ draft' = sessions[k.task].draft /\ contact' \in k.got
    <3>1. PICK own : own = {c \in k.got : c.id = sessions[k.task].id}
      OBVIOUS
    <3>2. CASE own = {}
      BY <1>15, <3>1, <3>2 DEF Listed, Restored
    <3>3. CASE own # {}
      <4>1. (CHOOSE c \in own : TRUE) \in k.got
        BY <3>1, <3>3
      <4>2. QED  BY <1>15, <3>1, <3>3, <4>1 DEF Listed, Restored
    <3>4. QED  BY <3>2, <3>3
  <2>4. contact' \in Rows(W) \union {None} /\ draft' \in W
    BY <1>1, <1>2, <2>1, <2>3 DEF PageTypes
  <2>5. DOMAIN sessions' = DOMAIN sessions
    BY <1>15, RestoredIsSame
  <2>6. /\ UNCHANGED <<postId, selected, updating, returnPost, entries>>
        /\ loading' = FALSE /\ postId # None
    BY <1>1, <1>15, <2>1 DEF Listed, OutreachAssumption
  <2>7. QED  BY <1>1, <2>2, <2>4, <2>5, <2>6 DEF PageTypes
<1>16. ASSUME NEW k \in calls, ListFailed(k)  PROVE PageTypes(W)'
  <2>1. DOMAIN sessions' = DOMAIN sessions
    BY <1>16 DEF ListFailed
  <2>2. QED  BY <1>1, <1>16, <2>1 DEF ListFailed, PageTypes
<1>17. ASSUME NEW new, new \subseteq Rows(W), Tracked(new)
       PROVE  /\ contacts' \subseteq Rows(W) /\ (entries' = None \/ entries' \subseteq Rows(W))
              /\ postId = None => contacts' = {}
  BY <1>1, <1>17 DEF Tracked, Of, PageTypes
<1>18. ASSUME NEW k \in calls, Changed(k)  PROVE PageTypes(W)'
  <2>1. PICK c : c = CHOOSE new \in k.got : TRUE
    OBVIOUS
  <2>2. c \in Rows(W)
    BY <1>1, <1>18, <2>1 DEF Changed, CallTypes, CallFits
  <2>3. /\ \/ entries # None /\ Tracked(Replaced(c, entries))
           \/ contacts' = Replaced(c, contacts) /\ UNCHANGED entries
        /\ contact' = IF contact # None /\ contact.id = c.id THEN c ELSE contact
        /\ updating' = FALSE
        /\ UNCHANGED <<postId, selected, draft, loading, returnPost>>
    BY <1>18, <2>1 DEF Changed
  <2>4. \A cs : cs \subseteq Rows(W) => Replaced(c, cs) \subseteq Rows(W)
    BY <2>2 DEF Replaced
  <2>5. Replaced(c, {}) = {}
    BY DEF Replaced
  <2>6. /\ contacts' \subseteq Rows(W) /\ (entries' = None \/ entries' \subseteq Rows(W))
        /\ postId = None => contacts' = {}
    <3>1. CASE entries # None /\ Tracked(Replaced(c, entries))
      <4>1. Replaced(c, entries) \subseteq Rows(W)
        BY <1>1, <2>4, <3>1 DEF PageTypes
      <4>2. QED  BY <1>17, <3>1, <4>1
    <3>2. CASE contacts' = Replaced(c, contacts) /\ UNCHANGED entries
      BY <1>1, <2>4, <2>5, <3>2 DEF PageTypes
    <3>3. QED  BY <2>3, <3>1, <3>2
  <2>7. DOMAIN sessions' = DOMAIN sessions
    BY <1>18 DEF Changed, results
  <2>8. QED  BY <1>1, <2>2, <2>3, <2>6, <2>7 DEF PageTypes
<1>19. ASSUME NEW k \in calls, Removed(k)  PROVE PageTypes(W)'
  <2>1. DOMAIN sessions' = DOMAIN sessions
    BY <1>19 DEF Removed, results
  <2>2. QED  BY <1>1, <1>19, <2>1 DEF Removed, PageTypes
<1>20. ASSUME NEW k \in calls, ChangeFailed(k)  PROVE PageTypes(W)'
  <2>1. DOMAIN sessions' = DOMAIN sessions
    BY <1>20 DEF ChangeFailed, results
  <2>2. QED  BY <1>1, <1>20, <2>1 DEF ChangeFailed, PageTypes
<1>21. ASSUME NEW k \in calls, TrackLoaded(k)  PROVE PageTypes(W)'
  <2>1. DOMAIN sessions' = DOMAIN sessions
          /\ UNCHANGED <<postId, selected, contact, draft, updating, loading, returnPost>>
    BY <1>21 DEF TrackLoaded, results
  <2>2. k.got \subseteq Rows(W)
    BY <1>1 DEF CallTypes, CallFits
  <2>3. Tracked(k.got) \/ UNCHANGED <<entries, contacts>>
    BY <1>21 DEF TrackLoaded
  <2>4. QED  BY <1>1, <1>17, <2>1, <2>2, <2>3 DEF PageTypes
<1>22. ASSUME NEW c \in contacts, SelectContact(c)  PROVE PageTypes(W)'
  <2>1. DOMAIN sessions' = DOMAIN sessions /\ c \in Rows(W) /\ c.draft \in W
    BY <1>1, <1>22 DEF SelectContact, results, PageTypes, Rows
  <2>2. QED  BY <1>1, <1>22, <2>1 DEF SelectContact, PageTypes
<1>23. ASSUME NEW op \in Updates, Change(op)  PROVE PageTypes(W)'
  <2>1. DOMAIN sessions' = DOMAIN sessions
    BY <1>23 DEF Change, results
  <2>2. QED  BY <1>1, <1>23, <2>1 DEF Change, PageTypes
<1>24. CASE Reset
  BY <1>1, <1>24 DEF Reset, PageTypes
<1>25. CASE ShowContacts
  <2>1. \/ sessions' = sessions /\ selected' = selected
        \/ sessions' = Without({selected}) /\ selected' = None
    BY <1>25 DEF ShowContacts
  <2>2. selected' \in DOMAIN sessions' \union {None}
    BY <1>1, <2>1 DEF PageTypes
  <2>3. QED  BY <1>1, <1>25, <2>2 DEF ShowContacts, PageTypes
<1>26. CASE ClosePanel
  BY <1>1, <1>26 DEF ClosePanel, PageTypes
<1>27. CASE Type
  BY <1>1, <1>27 DEF Type, results, PageTypes
<1>28. CASE RetrySave
  BY <1>1, <1>28 DEF RetrySave, PageTypes
<1>29. CASE Reload
  <2>1. /\ sessions' = [t \in DOMAIN Remaining |-> [Remaining[t] EXCEPT !.result = "none"]]
        /\ selected' \in {None} \union DOMAIN sessions'
        /\ postId' = IF selected' = None THEN returnPost ELSE sessions'[selected'].post
        /\ draft' = IF selected' \in Revisions THEN sessions'[selected'].draft ELSE None
        /\ contacts' = {} /\ contact' = None /\ updating' = FALSE /\ loading' = FALSE
        /\ entries' = None /\ returnPost' = returnPost
    BY <1>29 DEF Reload
  <2>2. SessionTypes(W)'
    BY <1>29, SessionTypesStep DEF OutreachStep
  <2>3. \A t \in DOMAIN sessions' : sessions'[t].draft \in W /\ sessions'[t].post \in PostIds
    BY <2>2 DEF SessionTypes, Fits, Session
  <2>4. postId' \in PostIds \union {None} /\ draft' \in W
    BY <1>1, <2>1, <2>3 DEF PageTypes, OutreachAssumption
  <2>5. QED  BY <1>1, <2>1, <2>4 DEF PageTypes
<1>30. CASE RestoreList
  <2>1. DOMAIN sessions' = DOMAIN sessions
    BY <1>30 DEF RestoreList, results
  <2>2. QED  BY <1>1, <1>30, <2>1 DEF RestoreList, Fetch, PageTypes
<1>31. QED
  BY <1>3, <1>6, <1>7, <1>8, <1>9, <1>10, <1>11, <1>12, <1>13, <1>14, <1>15, <1>16, <1>18,
     <1>19, <1>20, <1>21, <1>22, <1>23, <1>24, <1>25, <1>26, <1>27, <1>28, <1>29, <1>30,
     PageSteps

\* The draft of a task is beside its contact when its session has ended.
LEMMA ApplyDraftFits ==
  ASSUME NEW W, Grounds(W), NEW V, W \subseteq V, NEW t, ApplyDraft(t),
         t \notin DOMAIN sessions' => t \in V
  PROVE  PageTypes(V)'
<1>1. PageTypes(W) /\ SessionTypes(W)
  BY DEF Grounds, TypesOver
<1>2. Rows(W) \subseteq Rows(V)
  BY DEF Rows
<1>3. /\ t \in Revisions /\ t \in DOMAIN sessions /\ selected = t
      /\ UNCHANGED <<postId, contacts, contact, updating, loading, returnPost, entries>>
  BY DEF ApplyDraft
<1>4. CASE DOMAIN sessions' = DOMAIN sessions /\ UNCHANGED <<draft, selected>>
  BY <1>1, <1>2, <1>3, <1>4 DEF PageTypes
<1>5. CASE /\ sessions[t].output # None /\ draft' = sessions[t].output
           /\ sessions' = Without({t}) /\ selected' = None
  <2>1. sessions[t].output = t
    BY <1>1, <1>3, <1>5 DEF SessionTypes, Fits
  <2>2. t \notin DOMAIN sessions'
    BY <1>5, WithoutIs
  <2>3. draft' \in V
    BY <1>5, <2>1, <2>2
  <2>4. QED  BY <1>1, <1>2, <1>3, <1>5, <2>3 DEF PageTypes
<1>6. \/ DOMAIN sessions' = DOMAIN sessions /\ UNCHANGED <<draft, selected>>
      \/ /\ sessions[t].output # None /\ draft' = sessions[t].output
         /\ sessions' = Without({t}) /\ selected' = None
  BY DEF ApplyDraft, Finish
<1>7. QED  BY <1>4, <1>5, <1>6

\* A task whose session is gone does not get another.
LEMMA NoneComesBack ==
  ASSUME NEW W, Grounds(W), OutreachStep
  PROVE  spent \subseteq spent' /\ DOMAIN sessions' \intersect spent \subseteq DOMAIN sessions
<1>1. CASE SessionsKept
  BY <1>1 DEF SessionsKept
<1>2. ASSUME spent' = spent, Fewer
      PROVE  spent \subseteq spent' /\ DOMAIN sessions' \intersect spent \subseteq DOMAIN sessions
  BY <1>2 DEF Fewer
<1>3. ASSUME NEW p \in PostIds, OpenOutreach(p) \/ TrackPost(p) \/ SaveShown(p) \/ SaveFails(p)
      PROVE  spent' = spent /\ Fewer
  <2>1. CASE OpenOutreach(p) \/ TrackPost(p)
    BY <2>1, RemainingIs DEF OpenOutreach, TrackPost, Fewer
  <2>2. CASE SaveShown(p)
    BY <2>2, WithoutIs DEF SaveShown, Finish, Fewer
  <2>3. CASE SaveFails(p)
    <3>1. spent' = spent /\ DOMAIN sessions' = DOMAIN sessions
      BY <2>3 DEF SaveFails
    <3>2. QED  BY <3>1 DEF Fewer
  <2>4. QED  BY <1>3, <2>1, <2>2, <2>3
<1>4. ASSUME NEW t \in TaskIds, RestoreTask(t) \/ OpenTask(t) \/ ApplyTask(t) \/ ApplyDraft(t)
      PROVE  spent' = spent /\ Fewer
  <2>1. CASE RestoreTask(t) \/ OpenTask(t)
    BY <2>1, RemainingIs DEF RestoreTask, OpenTask, Fewer
  <2>2. CASE ApplyTask(t)
    BY <2>2 DEF ApplyTask, Fewer
  <2>3. CASE ApplyDraft(t)
    <3>1. spent' = spent
      BY <2>3 DEF ApplyDraft
    <3>2. DOMAIN sessions' = DOMAIN sessions \/ sessions' = Without({t})
      BY <2>3 DEF ApplyDraft, Finish
    <3>3. QED  BY <3>1, <3>2, WithoutIs DEF Fewer
  <2>4. QED  BY <1>4, <2>1, <2>2, <2>3
<1>5. ASSUME NEW t \in TaskIds, Discover(t) \/ Revise(t) \/ RetryRun(t)
      PROVE  spent \subseteq spent' /\ DOMAIN sessions' \intersect spent \subseteq DOMAIN sessions
  <2>1. CASE Discover(t)
    BY <2>1 DEF Discover, With
  <2>2. CASE Revise(t)
    <3>1. DOMAIN sessions' = DOMAIN Without(RevisionsOf(contact.id)) \union {t}
      BY <2>2 DEF Revise, With
    <3>2. QED  BY <2>2, <3>1, WithoutIs DEF Revise
  <2>3. CASE RetryRun(t)
    <3>1. DOMAIN sessions' = DOMAIN Without({selected}) \union {t}
      BY <2>3 DEF RetryRun, With
    <3>2. t \notin spent \/ t = selected
      BY <2>3 DEF RetryRun
    <3>3. selected \in DOMAIN sessions
      BY <2>3 DEF RetryRun, Grounds, TypesOver, PageTypes
    <3>4. QED  BY <2>3, <3>1, <3>2, <3>3, WithoutIs DEF RetryRun
  <2>4. QED  BY <1>5, <2>1, <2>2, <2>3
<1>6. ASSUME NEW t \in TaskIds, NEW status \in EndStates, End(t, status)
      PROVE  spent' = spent /\ Fewer
  <2>1. spent' = spent /\ DOMAIN sessions' = DOMAIN sessions
    BY <1>6 DEF End
  <2>2. QED  BY <2>1 DEF Fewer
<1>7. ASSUME NEW k \in calls, Listed(k) \/ ListFailed(k)  PROVE spent' = spent /\ Fewer
  <2>1. CASE Listed(k)
    <3>1. spent' = spent /\ DOMAIN sessions' = DOMAIN sessions
      BY <2>1, RestoredIsSame DEF Listed
    <3>2. QED  BY <3>1 DEF Fewer
  <2>2. CASE ListFailed(k)
    <3>1. spent' = spent /\ DOMAIN sessions' = DOMAIN sessions
      BY <2>2 DEF ListFailed
    <3>2. QED  BY <3>1 DEF Fewer
  <2>3. QED  BY <1>7, <2>1, <2>2
<1>8. CASE Reset \/ ClosePanel
  BY <1>2, <1>8, RemainingIs DEF Reset, ClosePanel, Fewer
<1>9. CASE ShowContacts
  <2>1. spent' = spent /\ (sessions' = sessions \/ sessions' = Without({selected}))
    BY <1>9 DEF ShowContacts
  <2>2. QED  BY <2>1, WithoutIs
<1>10. CASE RetrySave
  BY <1>2, <1>10 DEF RetrySave, Fewer
<1>11. CASE Reload
  BY <1>2, <1>11, ReloadIsSame DEF SameOrResult, Reload
<1>12. QED
  BY <1>1, <1>2, <1>3, <1>4, <1>5, <1>6, <1>7, <1>8, <1>9, <1>10, <1>11, SessionSteps

LEMMA WordsRemain ==
  ASSUME NEW W, Grounds(W), W = Words, OutreachStep
  PROVE  W \subseteq Words'
BY NoneComesBack DEF Words

LEMMA Widened ==
  ASSUME NEW W, NEW V, W \subseteq V, ServerTypes(W)', SessionTypes(W)', WorkTypes(W)',
         CallTypes(W)'
  PROVE  ServerTypes(V)' /\ SessionTypes(V)' /\ WorkTypes(V)' /\ CallTypes(V)'
<1>1. Rows(W) \subseteq Rows(V)
  BY DEF Rows
<1>2. ServerTypes(V)'
  BY <1>1 DEF ServerTypes
<1>3. SessionTypes(V)'
  BY DEF SessionTypes, Fits
<1>4. WorkTypes(V)'
  <2>1. Works(W) \subseteq Works(V)
    BY <1>1 DEF Works
  <2>2. QED  BY <1>1, <2>1 DEF WorkTypes
<1>5. CallTypes(V)'
  <2>1. \A k : CallFits(k, W) => CallFits(k, V)
    BY <1>1 DEF CallFits
  <2>2. QED  BY <2>1 DEF CallTypes
<1>6. QED  BY <1>2, <1>3, <1>4, <1>5

LEMMA PageWidened ==
  ASSUME NEW W, NEW V, W \subseteq V, PageTypes(W)'
  PROVE  PageTypes(V)'
<1>1. Rows(W) \subseteq Rows(V)
  BY DEF Rows
<1>2. QED  BY <1>1 DEF PageTypes

LEMMA WordsAreVocabulary == Vocabulary(Words)
BY OutreachAssumption DEF OutreachAssumption, Vocabulary, Words, Text

LEMMA TypesStep ==
  ASSUME TypesOver(Words), SavingInv, CurrentInv, OutreachNext
  PROVE  TypesOver(Words)'
<1>1. PICK W : W = Words
  OBVIOUS
<1>2. Grounds(W) /\ OutreachStep
  BY <1>1, WordsAreVocabulary DEF Grounds, OutreachNext
<1>3. PICK V : V = Words'
  OBVIOUS
<1>4. W \subseteq V
  BY <1>1, <1>2, <1>3, WordsRemain
<1>5. ServerTypes(V)' /\ SessionTypes(V)' /\ WorkTypes(V)' /\ CallTypes(V)'
  BY <1>2, <1>4, Widened, ServerTypesStep, SessionTypesStep, WorkTypesStep, CallTypesStep
<1>6. PageTypes(V)'
  <2>1. CASE PageTypes(W)'
    BY <1>4, <2>1, PageWidened
  <2>2. ASSUME NEW t \in TaskIds, ApplyDraft(t)  PROVE PageTypes(V)'
    <3>1. t \in Revisions /\ t \in spent'
      BY <1>2, <2>2 DEF ApplyDraft, Grounds, TypesOver, SessionTypes
    <3>2. t \notin DOMAIN sessions' => t \in V
      BY <1>3, <3>1 DEF Words, Text
    <3>3. QED  BY <1>2, <1>4, <2>2, <3>2, ApplyDraftFits
  <2>3. QED  BY <1>2, <2>1, <2>2, PageTypesStep
<1>7. workspace' \in {"apply", "track"}
  BY DEF TypesOver, OutreachNext
<1>8. TypesOver(V)'
  BY <1>5, <1>6, <1>7 DEF TypesOver
<1>9. QED  BY <1>3, <1>8

-----------------------------------------------------------------------------
(* Which requests are current.                                             *)

\* None of these, or one of p.
NoneOf(ops, cs) == \A k \in cs : k.op \in ops => ~ k.current
OneOf(ops, cs, p) ==
  /\ \A k, l \in cs : k.op \in ops /\ l.op \in ops /\ k.current /\ l.current => k = l
  /\ \A k \in cs : k.op \in ops /\ k.current => k.post = p

LEMMA CurrentIs ==
  CurrentInv <=> /\ OneOf({"list"}, calls, postId) /\ OneOf(Updates, calls, postId)
                 /\ loading \/ NoneOf({"list"}, calls)
BY DEF CurrentInv, OneOf, NoneOf

LEMMA CurrentIsThen ==
  ASSUME OneOf({"list"}, calls', postId'), OneOf(Updates, calls', postId'),
         loading' \/ NoneOf({"list"}, calls')
  PROVE  CurrentInv'
BY DEF CurrentInv, OneOf, NoneOf

LEMMA NoneIsOne ==
  ASSUME NEW ops, NEW cs, NEW p, NoneOf(ops, cs)
  PROVE  OneOf(ops, cs, p)
BY DEF NoneOf, OneOf

LEMMA OutdatedAreNone ==
  ASSUME NEW ops, NEW cs, \A k \in cs : k \in Call, NEW some, some \subseteq ops
  PROVE  NoneOf(some, Outdated(ops, cs))
<1>1. SUFFICES ASSUME NEW k \in Outdated(ops, cs), k.op \in some  PROVE ~ k.current
  BY DEF NoneOf
<1>2. PICK l \in cs : \/ k = l /\ l.op \notin ops
                      \/ k = [l EXCEPT !.current = FALSE] /\ l.op \in ops
  BY OutdatedIs
<1>3. l \in Call
  BY <1>2
<1>4. CASE k = [l EXCEPT !.current = FALSE]
  BY <1>3, <1>4 DEF Call
<1>5. QED  BY <1>1, <1>2, <1>4

LEMMA OthersAreOne ==
  ASSUME NEW ops, NEW cs, \A k \in cs : k \in Call, NEW others, others \intersect ops = {},
         NEW p, OneOf(ops, cs, p)
  PROVE  OneOf(ops, Outdated(others, cs), p)
<1>1. ASSUME NEW k \in Outdated(others, cs), k.op \in ops  PROVE k \in cs
  <2>1. PICK l \in cs : \/ k = l
                        \/ k = [l EXCEPT !.current = FALSE] /\ l.op \in others
    BY OutdatedIs
  <2>2. CASE k = [l EXCEPT !.current = FALSE] /\ l.op \in others
    <3>1. l \in Call
      BY <2>1
    <3>2. k.op = l.op
      BY <2>2, <3>1 DEF Call
    <3>3. QED  BY <1>1, <2>2, <3>2
  <2>3. QED  BY <2>1, <2>2
<1>2. QED  BY <1>1 DEF OneOf

LEMMA OthersAreNone ==
  ASSUME NEW ops, NEW cs, \A k \in cs : k \in Call, NEW others, others \intersect ops = {},
         NoneOf(ops, cs)
  PROVE  NoneOf(ops, Outdated(others, cs))
<1>1. ASSUME NEW k \in Outdated(others, cs), k.op \in ops  PROVE ~ k.current
  <2>1. PICK l \in cs : \/ k = l
                        \/ k = [l EXCEPT !.current = FALSE] /\ l.op \in others
    BY OutdatedIs
  <2>2. CASE k = [l EXCEPT !.current = FALSE] /\ l.op \in others
    <3>1. l \in Call
      BY <2>1
    <3>2. k.op = l.op
      BY <2>2, <3>1 DEF Call
    <3>3. QED  BY <1>1, <2>2, <3>2
  <2>3. QED  BY <1>1, <2>1, <2>2 DEF NoneOf
<1>2. QED  BY <1>1 DEF NoneOf

\* What is asked for becomes the only one.
LEMMA AskIsOne ==
  ASSUME NEW ops, NEW cs, NoneOf(ops, cs), NEW k, NEW p, k.post = p
  PROVE  OneOf(ops, cs \union {k}, p)
BY DEF NoneOf, OneOf

LEMMA AskIsOther ==
  ASSUME NEW ops, NEW cs, NEW p, NEW k, k.op \notin ops
  PROVE  /\ OneOf(ops, cs, p) => OneOf(ops, cs \union {k}, p)
         /\ NoneOf(ops, cs) => NoneOf(ops, cs \union {k})
BY DEF OneOf, NoneOf

LEMMA FewerCalls ==
  ASSUME NEW ops, NEW cs, NEW p, NEW fewer, fewer \subseteq cs
  PROVE  /\ OneOf(ops, cs, p) => OneOf(ops, fewer, p)
         /\ NoneOf(ops, cs) => NoneOf(ops, fewer)
BY DEF OneOf, NoneOf

\* The answer to a request does not make it current.
LEMMA DoneIsOne ==
  ASSUME NEW k \in calls, k \in Call, NEW answer, NEW got, Done(k, answer, got), NEW ops, NEW p
  PROVE  /\ OneOf(ops, calls, p) => OneOf(ops, calls', p)
         /\ NoneOf(ops, calls) => NoneOf(ops, calls')
<1>1. PICK new : new = [k EXCEPT !.answer = answer, !.got = got]
  OBVIOUS
<1>2. new.op = k.op /\ new.current = k.current /\ new.post = k.post
  BY <1>1 DEF Call
<1>3. calls' = (calls \ {k}) \union {new}
  BY <1>1 DEF Done
<1>4. ASSUME OneOf(ops, calls, p)  PROVE OneOf(ops, calls', p)
  <2>1. \A l \in calls' : l.op \in ops /\ l.current => l.post = p
    BY <1>2, <1>3, <1>4 DEF OneOf
  <2>2. ASSUME NEW l \in calls', NEW m \in calls', l.op \in ops, m.op \in ops,
               l.current, m.current
        PROVE  l = m
    BY <1>2, <1>3, <1>4, <2>2 DEF OneOf
  <2>3. QED  BY <2>1, <2>2 DEF OneOf
<1>5. ASSUME NoneOf(ops, calls)  PROVE NoneOf(ops, calls')
  BY <1>2, <1>3, <1>5 DEF NoneOf
<1>6. QED  BY <1>4, <1>5

LEMMA KeptIsOne ==
  ASSUME CurrentInv, \A k \in calls : k \in Call, NEW p
  PROVE  OneOf(Updates, Kept(p), p) /\ OneOf({"list"}, Kept(p), p)
           /\ (postId # p => NoneOf({"list"}, Kept(p)))
<1>1. CASE postId = p
  BY <1>1, CurrentIs DEF Kept
<1>2. CASE postId # p
  <2>1. /\ NoneOf(Updates, Outdated({"list"} \union Updates, calls))
        /\ NoneOf({"list"}, Outdated({"list"} \union Updates, calls))
    BY OutdatedAreNone
  <2>2. QED  BY <1>2, <2>1, NoneIsOne DEF Kept
<1>3. QED  BY <1>1, <1>2

LEMMA FetchIsOne ==
  ASSUME NEW p, NEW t, NEW cs, \A k \in cs : k \in Call, OneOf(Updates, cs, p),
         Fetch(p, t, cs), postId' = p
  PROVE  CurrentInv'
<1>1. calls' = Outdated({"list"}, cs) \union {Ask("list", p, None, t)} /\ loading'
  BY DEF Fetch
<1>2. NoneOf({"list"}, Outdated({"list"}, cs))
  BY OutdatedAreNone
<1>3. OneOf(Updates, Outdated({"list"}, cs), p)
  BY OthersAreOne DEF Updates
<1>4. Ask("list", p, None, t).post = p /\ Ask("list", p, None, t).op \notin Updates
  BY DEF Ask, Updates
<1>5. OneOf({"list"}, calls', p) /\ OneOf(Updates, calls', p)
  BY <1>1, <1>2, <1>3, <1>4, AskIsOne, AskIsOther
<1>6. QED  BY <1>1, <1>5, CurrentIsThen

LEMMA CurrentStep ==
  ASSUME NEW W, Grounds(W), OutreachStep
  PROVE  CurrentInv'
<1>1. /\ CurrentInv /\ OneOf({"list"}, calls, postId) /\ OneOf(Updates, calls, postId)
      /\ loading \/ NoneOf({"list"}, calls)
  BY CurrentIs DEF Grounds
<1>2. \A k \in calls : k \in Call
  BY DEF Grounds, TypesOver, CallTypes, CallFits
<1>3. \A p : \A k \in Kept(p) : k \in Call
  <2>1. CallTypes(W)
    BY DEF Grounds, TypesOver
  <2>2. \A k \in Outdated({"list"} \union Updates, calls) : CallFits(k, W)
    BY <2>1, OutdatedFits DEF CallTypes
  <2>3. QED  BY <1>2, <2>2 DEF Kept, CallFits
<1>4. ASSUME UNCHANGED <<loading, postId>>, NEW fewer, fewer \subseteq calls, calls' = fewer
      PROVE  CurrentInv'
  BY <1>1, <1>4, FewerCalls, CurrentIsThen
<1>5. ASSUME NEW p \in PostIds, OpenOutreach(p)  PROVE CurrentInv'
  <2>1. Fetch(p, None, Kept(p)) /\ postId' = p
    BY <1>5 DEF OpenOutreach, OpenFor
  <2>2. QED  BY <1>1, <1>2, <1>3, <2>1, KeptIsOne, FetchIsOne
<1>6. ASSUME NEW p \in PostIds, TrackPost(p)  PROVE CurrentInv'
  <2>1. calls' = Kept(p) /\ postId' = p /\ postId # p
    BY <1>6 DEF TrackPost, OpenFor
  <2>2. QED  BY <1>1, <1>2, <2>1, KeptIsOne, CurrentIsThen
<1>7. ASSUME NEW t \in TaskIds, RestoreTask(t)  PROVE CurrentInv'
  <2>1. Fetch(sessions[t].post, t, Kept(sessions[t].post)) /\ postId' = sessions[t].post
    BY <1>7 DEF RestoreTask, OpenFor
  <2>2. QED  BY <1>1, <1>2, <1>3, <2>1, KeptIsOne, FetchIsOne
<1>8. ASSUME NEW t \in TaskIds, OpenTask(t)  PROVE CurrentInv'
  <2>1. calls' = calls /\ postId' = postId /\ loading' = loading
    BY <1>8 DEF OpenTask, OpenFor
  <2>2. QED  BY <1>4, <2>1
<1>9. CASE calls' = calls /\ UNCHANGED <<loading, postId>>
  BY <1>4, <1>9
<1>10. ASSUME NEW k \in calls, Handle(k)  PROVE CurrentInv'
  <2>1. PICK answer, got : Done(k, answer, got)
    BY <1>10, HandledIs
  <2>2. UNCHANGED <<loading, postId>>
    BY <1>10 DEF Handle, page
  <2>3. QED  BY <1>1, <1>2, <2>1, <2>2, DoneIsOne, CurrentIsThen
<1>11. ASSUME NEW k \in calls, Listed(k) \/ ListFailed(k)  PROVE CurrentInv'
  <2>1. calls' = calls \ {k} /\ k.op = "list" /\ k.current /\ postId' = postId
    BY <1>11 DEF Listed, ListFailed
  <2>2. NoneOf({"list"}, calls')
    BY <1>1, <2>1 DEF OneOf, NoneOf
  <2>3. OneOf(Updates, calls', postId') /\ OneOf({"list"}, calls', postId')
    BY <1>1, <2>1, <2>2, FewerCalls, NoneIsOne
  <2>4. QED  BY <2>2, <2>3, CurrentIsThen
<1>12. ASSUME NEW k \in calls, Drop(k) \/ Changed(k) \/ ChangeFailed(k) \/ TrackLoaded(k)
       PROVE  CurrentInv'
  <2>1. calls' = calls \ {k} /\ UNCHANGED <<loading, postId>>
    BY <1>12 DEF Drop, Changed, ChangeFailed, TrackLoaded, page
  <2>2. QED  BY <1>4, <2>1
<1>13. ASSUME NEW cs, cs \subseteq calls, UNCHANGED <<loading, postId>>,
              calls' = Outdated({"track"}, cs) \union {Ask("track", None, None, None)}
       PROVE  CurrentInv'
  <2>1. /\ OneOf({"list"}, cs, postId) /\ OneOf(Updates, cs, postId)
        /\ loading \/ NoneOf({"list"}, cs)
        /\ \A k \in cs : k \in Call
    BY <1>1, <1>2, <1>13, FewerCalls
  <2>2. PICK others : others = Outdated({"track"}, cs)
    OBVIOUS
  <2>3. {"track"} \intersect {"list"} = {} /\ {"track"} \intersect Updates = {}
    BY DEF Updates
  <2>4. \A k \in cs : k \in Call
    BY <1>2, <1>13
  <2>5. /\ OneOf({"list"}, others, postId) /\ OneOf(Updates, others, postId)
        /\ loading \/ NoneOf({"list"}, others)
    BY <2>1, <2>2, <2>3, <2>4, OthersAreOne, OthersAreNone
  <2>6. /\ Ask("track", None, None, None).op \notin {"list"}
        /\ Ask("track", None, None, None).op \notin Updates
    BY DEF Ask, Updates
  <2>7. QED  BY <1>13, <2>2, <2>5, <2>6, AskIsOther, CurrentIsThen
<1>14. ASSUME NEW k \in calls, Removed(k)  PROVE CurrentInv'
  <2>1. /\ UNCHANGED <<loading, postId>>
        /\ \/ calls' = calls \ {k}
           \/ calls' = Outdated({"track"}, calls \ {k}) \union {Ask("track", None, None, None)}
    BY <1>14 DEF Removed
  <2>2. QED  BY <1>4, <1>13, <2>1
<1>15. ASSUME NEW op \in Updates, Change(op)  PROVE CurrentInv'
  <2>1. /\ calls' = Outdated(Updates, calls) \union {Ask(op, postId, contact, None)}
        /\ UNCHANGED <<loading, postId>>
    BY <1>15 DEF Change
  <2>2. NoneOf(Updates, Outdated(Updates, calls))
    BY <1>2, OutdatedAreNone
  <2>3. Updates \intersect {"list"} = {}
    BY DEF Updates
  <2>4. /\ OneOf({"list"}, Outdated(Updates, calls), postId)
        /\ loading \/ NoneOf({"list"}, Outdated(Updates, calls))
    BY <1>1, <1>2, <2>3, OthersAreOne, OthersAreNone
  <2>5. Ask(op, postId, contact, None).post = postId
          /\ Ask(op, postId, contact, None).op \notin {"list"}
    BY <2>3 DEF Ask
  <2>6. QED  BY <2>1, <2>2, <2>4, <2>5, AskIsOne, AskIsOther, CurrentIsThen
<1>16. CASE Reset
  <2>1. calls' = Outdated({"list"} \union Updates, calls)
    BY <1>16 DEF Reset
  <2>2. NoneOf({"list"}, calls') /\ NoneOf(Updates, calls')
    BY <1>2, <2>1, OutdatedAreNone
  <2>3. QED  BY <2>2, NoneIsOne, CurrentIsThen
<1>17. CASE LoadTracked
  BY <1>13, <1>17 DEF LoadTracked, page
<1>18. CASE Reload
  <2>1. PICK open : open = {c \in calls : c.op \in Updates /\ c.answer = "none"}
    OBVIOUS
  <2>2. calls' = Outdated(Updates, open) /\ \A k \in open : k \in Call
    BY <1>2, <1>18, <2>1 DEF Reload
  <2>3. NoneOf(Updates, calls')
    BY <2>2, OutdatedAreNone
  <2>4. NoneOf({"list"}, open) /\ Updates \intersect {"list"} = {}
    BY <2>1 DEF NoneOf, Updates
  <2>5. NoneOf({"list"}, calls')
    BY <2>2, <2>4, OthersAreNone
  <2>6. QED  BY <2>3, <2>5, NoneIsOne, CurrentIsThen
<1>19. CASE RestoreList
  <2>1. Fetch(postId, None, calls) /\ postId' = postId
    BY <1>19 DEF RestoreList
  <2>2. QED  BY <1>1, <1>2, <2>1, FetchIsOne
<1>20. ASSUME CallsKept
       PROVE  \/ UNCHANGED <<loading, postId>>
              \/ \E t \in TaskIds : OpenTask(t)
              \/ \E p \in PostIds : OpenOutreach(p) \/ TrackPost(p)
              \/ \E t \in TaskIds : RestoreTask(t)
              \/ \E k \in calls : Listed(k) \/ ListFailed(k)
              \/ Reset \/ Reload \/ RestoreList
  <2>1. CASE PageKept
    BY <2>1 DEF PageKept
  <2>2. ASSUME NEW p \in PostIds, SaveShown(p)  PROVE UNCHANGED <<loading, postId>>
    BY <2>2 DEF SaveShown
  <2>3. ASSUME NEW t \in TaskIds, Discover(t) \/ Revise(t) \/ ApplyDraft(t) \/ RetryRun(t)
        PROVE  UNCHANGED <<loading, postId>>
    BY <2>3 DEF Discover, Revise, ApplyDraft, RetryRun
  <2>4. ASSUME NEW t, NEW status, End(t, status)  PROVE UNCHANGED <<loading, postId>>
    BY <2>4 DEF End
  <2>5. ASSUME NEW k \in calls, Changed(k) \/ Removed(k) \/ ChangeFailed(k) \/ TrackLoaded(k)
        PROVE  UNCHANGED <<loading, postId>>
    BY <2>5 DEF Changed, Removed, ChangeFailed, TrackLoaded
  <2>6. ASSUME NEW c, SelectContact(c) \/ Change(c)  PROVE UNCHANGED <<loading, postId>>
    BY <2>6 DEF SelectContact, Change
  <2>7. CASE ShowContacts \/ ClosePanel \/ Type \/ RetrySave
    BY <2>7 DEF ShowContacts, ClosePanel, Type, RetrySave
  <2>8. QED  BY <2>1, <2>2, <2>3, <2>4, <2>5, <2>6, <2>7, PageSteps
<1>21. CASE CallsKept
  BY <1>5, <1>6, <1>7, <1>8, <1>9, <1>11, <1>16, <1>18, <1>19, <1>20, <1>21 DEF CallsKept
<1>22. QED
  BY <1>5, <1>6, <1>7, <1>10, <1>11, <1>12, <1>14, <1>15, <1>16, <1>17, <1>18, <1>19, <1>21,
     CallSteps

-----------------------------------------------------------------------------
(* Results are saved one after the other.                                  *)

\* Steps that leave the queues alone: a session that is being saved may be
\* dismissed, or its contacts not be listed.
EntryWaits(t) ==
  /\ Saving(t)' /\ sessions'[t].post = sessions[t].post
  /\ sessions'[t].status = sessions[t].status

Steady ==
  /\ WorkKept
  /\ \A t \in DOMAIN sessions \intersect DOMAIN sessions' : Saving(t) => EntryWaits(t)
  /\ \A t \in DOMAIN sessions' : Saving(t)' =>
       t \in DOMAIN sessions /\ Saving(t) /\ EntryWaits(t)

LEMMA SteadySaves ==
  ASSUME NEW W, Grounds(W), OutreachStep, Steady
  PROVE  SavingInv'
<1>1. queues' = queues /\ work' = work
  BY DEF Steady, WorkKept
<1>2. spent \subseteq spent' /\ DOMAIN sessions' \intersect spent \subseteq DOMAIN sessions
  BY NoneComesBack
<1>3. SavingInv
  BY DEF Grounds
<1>4. ASSUME NEW p \in PostIds  PROVE QueueInv(p)'
  <2>1. ASSUME NEW i \in 1 .. Len(queues[p]), NEW t, t = queues[p][i].task
        PROVE  /\ t \in Discoveries \intersect spent'
               /\ t \in DOMAIN sessions' => sessions'[t].post = p /\ Saving(t)'
    <3>1. /\ t \in Discoveries \intersect spent
          /\ t \in DOMAIN sessions => sessions[t].post = p /\ Saving(t)
      BY <1>3, <2>1 DEF SavingInv, QueueInv
    <3>2. t \in DOMAIN sessions' => t \in DOMAIN sessions /\ EntryWaits(t)
      BY <1>2, <3>1 DEF Steady
    <3>3. QED  BY <1>2, <3>1, <3>2 DEF EntryWaits
  <2>2. \A i, j \in 1 .. Len(queues[p]) : queues[p][i].task = queues[p][j].task => i = j
    BY <1>3 DEF SavingInv, QueueInv
  <2>3. QED  BY <1>1, <2>1, <2>2 DEF QueueInv
<1>5. ASSUME NEW p \in PostIds  PROVE WorkInv(p)'
  BY <1>1, <1>3 DEF SavingInv, WorkInv, First
<1>6. ASSUME NEW t \in DOMAIN sessions'  PROVE WaitingInv(t)'
  <2>1. SUFFICES ASSUME Saving(t)'
                 PROVE  /\ t \in Discoveries /\ sessions'[t].status = "completed"
                        /\ IsQueued(sessions[t].post, t)'
    BY DEF WaitingInv
  <2>2. t \in DOMAIN sessions /\ Saving(t) /\ EntryWaits(t)
    BY <2>1 DEF Steady
  <2>3. t \in Discoveries /\ sessions[t].status = "completed" /\ IsQueued(sessions[t].post, t)
    BY <1>3, <2>2 DEF SavingInv, WaitingInv
  <2>4. QED  BY <1>1, <2>2, <2>3 DEF IsQueued, EntryWaits
<1>7. QED  BY <1>4, <1>5, <1>6 DEF SavingInv

\* Only the sessions of ts are different or gone, and none of those that are
\* left is being saved or was.
OnlyOf(ts) ==
  /\ \A t \in ts \intersect DOMAIN sessions' :
       ~ Saving(t)' /\ (t \in DOMAIN sessions => ~ Saving(t))
  /\ \A t \in DOMAIN sessions' : t \notin ts =>
       t \in DOMAIN sessions /\ sessions'[t] = sessions[t]

LEMMA OnlyOfIsSteady ==
  ASSUME NEW ts, OnlyOf(ts), WorkKept
  PROVE  Steady
BY DEF OnlyOf, Steady, EntryWaits, Saving

LEMMA RemainingIsSteady ==
  ASSUME sessions' = Remaining \/ \E ts : sessions' = Without(ts), WorkKept
  PROVE  Steady
<1>1. \A t \in DOMAIN sessions' : t \in DOMAIN sessions /\ sessions'[t] = sessions[t]
  <2>1. CASE sessions' = Remaining
    BY <2>1, RemainingIs
  <2>2. ASSUME NEW ts, sessions' = Without(ts)
        PROVE  \A t \in DOMAIN sessions' : t \in DOMAIN sessions /\ sessions'[t] = sessions[t]
    BY <2>2, WithoutIs
  <2>3. QED  BY <2>1, <2>2
<1>2. OnlyOf({})
  BY <1>1 DEF OnlyOf
<1>3. QED  BY <1>2, OnlyOfIsSteady

LEMMA ResultIsSteady ==
  ASSUME NEW W, Grounds(W), NEW t, NEW r, r # "saving", r # "unlisted", WorkKept,
         t \in DOMAIN sessions => ~ Saving(t),
         sessions' = [sessions EXCEPT ![t].result = r]
  PROVE  Steady
<1>1. DOMAIN sessions' = DOMAIN sessions
  OBVIOUS
<1>2. \A u \in DOMAIN sessions : u # t => sessions'[u] = sessions[u]
  OBVIOUS
<1>3. ASSUME t \in DOMAIN sessions  PROVE sessions'[t].result = r
  <2>1. sessions[t] \in Session
    BY <1>3 DEF Grounds, TypesOver, SessionTypes, Fits
  <2>2. QED  BY <1>3, <2>1 DEF Session
<1>4. OnlyOf({t})
  BY <1>1, <1>2, <1>3 DEF OnlyOf, Saving
<1>5. QED  BY <1>4, OnlyOfIsSteady

\* The contacts of a task whose result is being saved could not be listed.
LEMMA UnlistedIsSteady ==
  ASSUME NEW W, Grounds(W), NEW t \in DOMAIN sessions, WorkKept, Saving(t),
         sessions' = [sessions EXCEPT ![t].result = "unlisted"]
  PROVE  Steady
<1>1. DOMAIN sessions' = DOMAIN sessions
  OBVIOUS
<1>2. \A u \in DOMAIN sessions : u # t => sessions'[u] = sessions[u]
  OBVIOUS
<1>3. sessions[t] \in Session
  BY DEF Grounds, TypesOver, SessionTypes, Fits
<1>4. /\ sessions'[t].result = "unlisted" /\ sessions'[t].post = sessions[t].post
      /\ sessions'[t].status = sessions[t].status
  BY <1>3 DEF Session
<1>5. EntryWaits(t)
  BY <1>4 DEF EntryWaits, Saving
<1>6. \A u \in DOMAIN sessions : u # t => (Saving(u) <=> Saving(u)') /\ (Saving(u) => EntryWaits(u))
  BY <1>2 DEF EntryWaits, Saving
<1>7. QED  BY <1>1, <1>5, <1>6 DEF Steady

LEMMA SteadySteps ==
  ASSUME NEW W, Grounds(W), OutreachStep, WorkKept
  PROVE  Steady \/ RetrySave \/ \E t \in TaskIds : ApplyTask(t)
<1>1. SavingInv /\ SessionTypes(W) /\ PageTypes(W) /\ OutreachAssumption
  BY OutreachAssumption DEF Grounds, TypesOver
<1>2. \A t \in DOMAIN sessions : Saving(t) =>
        t \in Discoveries /\ sessions[t].status = "completed"
  BY <1>1 DEF SavingInv, WaitingInv
<1>3. ASSUME sessions' = sessions  PROVE Steady
  BY <1>3 DEF Steady, EntryWaits, Saving
<1>4. ASSUME NEW ts, sessions' = Without(ts)  PROVE Steady
  BY <1>4, RemainingIsSteady
<1>5. ASSUME NEW ts, NEW t, NEW p, NEW id, NEW text,
             sessions' = With(Without(ts), t, NewSession(p, id, text)),
             t \in DOMAIN sessions => ~ Saving(t)
      PROVE  Steady
  <2>1. PICK others : others = Without(ts)
    OBVIOUS
  <2>2. /\ DOMAIN others = DOMAIN sessions \ ts
        /\ \A u \in DOMAIN others : others[u] = sessions[u]
    BY <2>1, WithoutIs
  <2>3. /\ DOMAIN sessions' = DOMAIN others \union {t}
        /\ sessions'[t].result = "none"
        /\ \A u \in DOMAIN others \ {t} : sessions'[u] = others[u]
    BY <1>5, <2>1 DEF With, NewSession
  <2>4. OnlyOf({t})
    BY <1>5, <2>2, <2>3 DEF OnlyOf, Saving
  <2>5. QED  BY <2>4, OnlyOfIsSteady
<1>6. ASSUME NEW p \in PostIds, OpenOutreach(p) \/ TrackPost(p)  PROVE Steady
  BY <1>6, RemainingIsSteady DEF OpenOutreach, TrackPost
<1>7. ASSUME NEW p \in PostIds, SaveShown(p) \/ SaveFails(p)  PROVE FALSE
  <2>1. Step(p, "idle", None) /\ work[p].stage # "idle" /\ work' = work
    BY <1>7 DEF SaveShown, SaveFails, WorkKept
  <2>2. work \in [PostIds -> Works(W)]
    BY DEF Grounds, TypesOver, WorkTypes
  <2>3. QED  BY <2>1, <2>2 DEF Step
<1>8. ASSUME NEW t \in TaskIds, RestoreTask(t) \/ OpenTask(t)  PROVE Steady
  BY <1>8, RemainingIsSteady DEF RestoreTask, OpenTask
<1>9. ASSUME NEW t \in TaskIds, Discover(t)  PROVE Steady
  <2>1. t \notin DOMAIN sessions
    BY <1>1, <1>9 DEF Discover, SessionTypes
  <2>2. /\ DOMAIN sessions' = DOMAIN sessions \union {t}
        /\ sessions'[t].result = "none"
        /\ \A u \in DOMAIN sessions \ {t} : sessions'[u] = sessions[u]
    BY <1>9 DEF Discover, With, NewSession
  <2>3. OnlyOf({t})
    BY <2>1, <2>2 DEF OnlyOf, Saving
  <2>4. QED  BY <2>3, OnlyOfIsSteady
<1>10. ASSUME NEW t \in TaskIds, Revise(t)  PROVE Steady
  <2>1. t \notin DOMAIN sessions
    BY <1>1, <1>10 DEF Revise, SessionTypes
  <2>2. sessions' = With(Without(RevisionsOf(contact.id)), t,
                         NewSession(postId, contact.id, draft))
    BY <1>10 DEF Revise
  <2>3. QED  BY <1>5, <2>1, <2>2
<1>11. ASSUME NEW t \in TaskIds, ApplyDraft(t)  PROVE Steady
  <2>1. t \in DOMAIN sessions /\ ~ Saving(t)
    BY <1>11 DEF ApplyDraft, Saving
  <2>2. \/ sessions' = [sessions EXCEPT ![t].result = "set"]
        \/ sessions' = [sessions EXCEPT ![t].result = "task"]
        \/ sessions' = Without({t})
    BY <1>11 DEF ApplyDraft, Finish
  <2>3. CASE sessions' = [sessions EXCEPT ![t].result = "set"]
    BY <2>1, <2>3, ResultIsSteady
  <2>4. CASE sessions' = [sessions EXCEPT ![t].result = "task"]
    BY <2>1, <2>4, ResultIsSteady
  <2>5. CASE sessions' = Without({t})
    BY <1>4, <2>5
  <2>6. QED  BY <2>2, <2>3, <2>4, <2>5
<1>12. ASSUME NEW t \in TaskIds, RetryRun(t)  PROVE Steady
  <2>1. t \in DOMAIN sessions => sessions[t].status = "unavailable"
    BY <1>1, <1>12 DEF RetryRun, SessionTypes
  <2>2. sessions' = With(Without({selected}), t,
          NewSession(sessions[selected].post, sessions[selected].id, sessions[selected].draft))
    BY <1>12 DEF RetryRun
  <2>3. QED  BY <1>2, <1>5, <2>1, <2>2
<1>13. ASSUME NEW t \in TaskIds, NEW status \in EndStates, End(t, status)  PROVE Steady
  <2>1. t \in DOMAIN sessions /\ sessions[t].status = "running"
    BY <1>13 DEF End, Running
  <2>2. ~ Saving(t) /\ sessions[t] \in Session
    BY <1>1, <1>2, <2>1 DEF SessionTypes, Fits
  <2>3. PICK output : sessions' = [sessions EXCEPT
          ![t].status = status, ![t].output = output,
          ![t].result = IF status = "unavailable" THEN "task" ELSE @]
    BY <1>13 DEF End
  <2>4. /\ DOMAIN sessions' = DOMAIN sessions
        /\ \A u \in DOMAIN sessions : u # t => sessions'[u] = sessions[u]
    BY <2>3
  <2>5. sessions'[t].result \in {"task", sessions[t].result}
    BY <2>1, <2>2, <2>3 DEF Session
  <2>6. OnlyOf({t})
    BY <2>1, <2>2, <2>4, <2>5 DEF OnlyOf, Saving
  <2>7. QED  BY <2>6, OnlyOfIsSteady
<1>14. ASSUME NEW k \in calls, Listed(k)  PROVE Steady
  <2>1. \/ sessions' = sessions
        \/ k.task \in Revisions /\ sessions' = [sessions EXCEPT ![k.task].result = "task"]
    BY <1>14 DEF Listed, Restored
  <2>2. k.task \in Revisions /\ k.task \in DOMAIN sessions => ~ Saving(k.task)
    BY <1>1, <1>2 DEF OutreachAssumption
  <2>3. CASE k.task \in Revisions /\ sessions' = [sessions EXCEPT ![k.task].result = "task"]
    BY <2>2, <2>3, ResultIsSteady
  <2>4. CASE sessions' = sessions
    BY <1>3, <2>4
  <2>5. QED  BY <2>1, <2>3, <2>4
<1>15. ASSUME NEW k \in calls, ListFailed(k)  PROVE Steady
  <2>1. PICK r \in {"unlisted", "task"} :
          \/ sessions' = sessions
          \/ /\ sessions' = [sessions EXCEPT ![k.task].result = r]
             /\ k.task \in DOMAIN sessions
             /\ r = "unlisted" <=> Saving(k.task)
    BY <1>15, UnlistedIs
  <2>2. CASE sessions' = sessions
    BY <1>3, <2>2
  <2>3. CASE sessions' # sessions /\ r = "unlisted"
    BY <2>1, <2>3, UnlistedIsSteady
  <2>4. CASE sessions' # sessions /\ r = "task"
    BY <2>1, <2>4, ResultIsSteady
  <2>5. QED  BY <2>2, <2>3, <2>4
<1>16. CASE Reset \/ ClosePanel
  BY <1>16, RemainingIsSteady DEF Reset, ClosePanel
<1>17. CASE ShowContacts
  <2>1. sessions' = sessions \/ sessions' = Without({selected})
    BY <1>17 DEF ShowContacts
  <2>2. QED  BY <1>3, <1>4, <2>1
<1>18. CASE Reload
  <2>1. ASSUME NEW t \in DOMAIN sessions, Saving(t)  PROVE FALSE
    <3>1. IsQueued(sessions[t].post, t) /\ sessions[t].post \in PostIds
      BY <1>1, <2>1 DEF SavingInv, WaitingInv, SessionTypes, Fits, Session
    <3>2. queues[sessions[t].post] = <<>>
      BY <1>18, <3>1 DEF Reload, WorkKept
    <3>3. Len(queues[sessions[t].post]) = 0
      BY <3>2
    <3>4. QED  BY <3>1, <3>3 DEF IsQueued
  <2>2. \A t \in DOMAIN sessions' : sessions'[t].result = "none"
    <3>1. sessions' = [t \in DOMAIN Remaining |-> [Remaining[t] EXCEPT !.result = "none"]]
      BY <1>18 DEF Reload
    <3>2. \A t \in DOMAIN Remaining : Remaining[t] \in Session
      BY <1>1, RemainingIs DEF SessionTypes, Fits
    <3>3. QED  BY <3>1, <3>2 DEF Session
  <2>3. QED  BY <2>1, <2>2 DEF Steady, Saving
<1>19. QED
  BY <1>3, <1>6, <1>7, <1>8, <1>9, <1>10, <1>11, <1>12, <1>13, <1>14, <1>15, <1>16, <1>17,
     <1>18, SessionSteps DEF SessionsKept

\* The first in a queue stays it when one is appended.
LEMMA FirstRemains ==
  ASSUME NEW W, Grounds(W), NEW e \in Entries, NEW p \in PostIds, queues[p] # <<>>,
         NEW q, queues' = [queues EXCEPT ![q] = Append(@, e)]
  PROVE  queues'[p] # <<>> /\ First(p)' = First(p)
<1>1. queues \in [PostIds -> Seq(Entries)]
  BY DEF Grounds, TypesOver, WorkTypes
<1>2. PICK s : s = queues[p]
  OBVIOUS
<1>3. s \in Seq(Entries) /\ s # <<>>
  BY <1>1, <1>2
<1>4. Append(s, e) # <<>> /\ Head(Append(s, e)) = Head(s)
  <2>1. Len(s) \in Nat /\ 1 \in 1 .. Len(s) /\ Head(s) = s[1]
    BY <1>3, EmptySeq
  <2>2. /\ Append(s, e) \in Seq(Entries) /\ Len(Append(s, e)) = Len(s) + 1
        /\ \A i \in 1 .. Len(s) : Append(s, e)[i] = s[i]
    BY <1>3, AppendProperties
  <2>3. Len(Append(s, e)) # 0
    BY <2>1, <2>2
  <2>4. Append(s, e) # <<>> /\ Head(Append(s, e)) = Append(s, e)[1]
    BY <2>2, <2>3, EmptySeq
  <2>5. QED  BY <2>1, <2>2, <2>4
<1>5. queues'[p] = s \/ queues'[p] = Append(s, e)
  BY <1>1, <1>2
<1>6. QED  BY <1>2, <1>3, <1>4, <1>5 DEF First

\* A result is appended to the queue of its post.
LEMMA AppendSaves ==
  ASSUME NEW W, Grounds(W), NEW t \in Discoveries, t \in DOMAIN sessions,
         sessions[t].status = "completed", ~ Saving(t),
         sessions' = [sessions EXCEPT ![t].result = "saving"],
         queues' = Enqueued(t), work' = work, spent' = spent
  PROVE  SavingInv'
<1>1. PICK p : p = sessions[t].post
  OBVIOUS
<1>2. SavingInv /\ SessionTypes(W) /\ queues \in [PostIds -> Seq(Entries)]
  BY DEF Grounds, TypesOver, WorkTypes
<1>3. sessions[t] \in Session /\ p \in PostIds /\ t \in spent
  BY <1>1, <1>2 DEF SessionTypes, Fits, Session
<1>4. /\ DOMAIN sessions' = DOMAIN sessions
      /\ \A u \in DOMAIN sessions : u # t => sessions'[u] = sessions[u]
  OBVIOUS
<1>5. /\ Saving(t)' /\ sessions'[t].post = p /\ sessions'[t].status = "completed"
  BY <1>1, <1>3 DEF Session, Saving
<1>6. PICK q : q = queues[p]
  OBVIOUS
<1>7. q \in Seq(Entries) /\ Len(q) \in Nat
  BY <1>2, <1>3, <1>6
<1>8. PICK e \in Entries : e.task = t /\ queues' = [queues EXCEPT ![p] = Append(@, e)]
  BY <1>1, EntryFits
<1>9. /\ queues'[p] = Append(q, e)
      /\ \A r \in PostIds : r # p => queues'[r] = queues[r]
  BY <1>2, <1>3, <1>6, <1>8
<1>10. /\ Len(Append(q, e)) = Len(q) + 1
       /\ \A i \in 1 .. Len(q) : Append(q, e)[i] = q[i]
       /\ Append(q, e)[Len(q) + 1] = e
  BY <1>7, <1>8, AppendProperties
<1>11. \A r \in PostIds : \A i \in 1 .. Len(queues[r]) : queues[r][i].task # t
  BY <1>2 DEF SavingInv, QueueInv
\* Any other task is as it was.
<1>12. ASSUME NEW u, u # t
       PROVE  /\ u \in DOMAIN sessions' <=> u \in DOMAIN sessions
              /\ u \in DOMAIN sessions => sessions'[u] = sessions[u]
              /\ u \in DOMAIN sessions => (Saving(u)' <=> Saving(u))
  BY <1>4, <1>12 DEF Saving
<1>13. ASSUME NEW r \in PostIds, NEW i \in 1 .. Len(queues[r]), NEW u, u = queues[r][i].task
       PROVE  /\ u \in Discoveries \intersect spent'
              /\ u \in DOMAIN sessions' => sessions'[u].post = r /\ Saving(u)'
  <2>1. u # t
    BY <1>11, <1>13
  <2>2. /\ u \in Discoveries \intersect spent
        /\ u \in DOMAIN sessions => sessions[u].post = r /\ Saving(u)
    BY <1>2, <1>13 DEF SavingInv, QueueInv
  <2>3. QED  BY <1>12, <2>1, <2>2
<1>14. ASSUME NEW r \in PostIds  PROVE QueueInv(r)'
  <2>1. CASE r # p
    <3>1. \A i, j \in 1 .. Len(queues[r]) : queues[r][i].task = queues[r][j].task => i = j
      BY <1>2 DEF SavingInv, QueueInv
    <3>2. queues'[r] = queues[r]
      BY <1>9, <2>1
    <3>3. QED  BY <1>13, <3>1, <3>2 DEF QueueInv
  <2>2. CASE r = p
    <3>1. ASSUME NEW i \in 1 .. Len(q) + 1, NEW u, u = queues'[p][i].task
          PROVE  /\ u \in Discoveries \intersect spent'
                 /\ u \in DOMAIN sessions' => sessions'[u].post = p /\ Saving(u)'
      <4>1. CASE i \in 1 .. Len(q)
        <5>1. u = queues[p][i].task /\ i \in 1 .. Len(queues[p])
          BY <1>6, <1>9, <1>10, <3>1, <4>1
        <5>2. QED  BY <1>3, <1>13, <5>1
      <4>2. CASE i = Len(q) + 1
        <5>1. u = t
          BY <1>8, <1>9, <1>10, <3>1, <4>2
        <5>2. QED  BY <1>3, <1>5, <5>1
      <4>3. i \in 1 .. Len(q) \/ i = Len(q) + 1
        BY <1>7
      <4>4. QED  BY <4>1, <4>2, <4>3
    <3>2. ASSUME NEW i \in 1 .. Len(q) + 1, NEW j \in 1 .. Len(q) + 1,
                 queues'[p][i].task = queues'[p][j].task
          PROVE  i = j
      <4>1. \A k \in 1 .. Len(q) : queues'[p][k] = q[k] /\ q[k].task # t
        BY <1>3, <1>6, <1>9, <1>10, <1>11
      <4>2. queues'[p][Len(q) + 1].task = t
        BY <1>8, <1>9, <1>10
      <4>3. \A k, l \in 1 .. Len(q) : q[k].task = q[l].task => k = l
        BY <1>2, <1>3, <1>6 DEF SavingInv, QueueInv
      <4>4. (i \in 1 .. Len(q) \/ i = Len(q) + 1) /\ (j \in 1 .. Len(q) \/ j = Len(q) + 1)
        BY <1>7
      <4>5. CASE i \in 1 .. Len(q) /\ j \in 1 .. Len(q)
        BY <3>2, <4>1, <4>3, <4>5
      <4>6. CASE i = Len(q) + 1 \/ j = Len(q) + 1
        BY <3>2, <4>1, <4>2, <4>4, <4>6
      <4>7. QED  BY <4>4, <4>5, <4>6
    <3>3. Len(queues'[p]) = Len(q) + 1
      BY <1>9, <1>10
    <3>4. QED  BY <2>2, <3>1, <3>2, <3>3 DEF QueueInv
  <2>3. QED  BY <2>1, <2>2
<1>15. ASSUME NEW r \in PostIds  PROVE WorkInv(r)'
  <2>1. WorkInv(r)
    BY <1>2 DEF SavingInv
  <2>2. queues[r] # <<>> => queues'[r] # <<>> /\ First(r)' = First(r)
    BY <1>8, FirstRemains
  <2>3. QED  BY <2>1, <2>2 DEF WorkInv
<1>16. ASSUME NEW u \in DOMAIN sessions', Saving(u)'
       PROVE  /\ u \in Discoveries /\ sessions'[u].status = "completed"
              /\ IsQueued(sessions[u].post, u)'
  <2>1. CASE u = t
    <3>1. Len(q) + 1 \in 1 .. Len(queues'[p]) /\ queues'[p][Len(q) + 1].task = t
      BY <1>7, <1>8, <1>9, <1>10
    <3>2. QED  BY <1>5, <2>1, <3>1 DEF IsQueued
  <2>2. CASE u # t
    <3>1. /\ sessions'[u] = sessions[u] /\ sessions[u].post \in PostIds
          /\ u \in Discoveries /\ sessions[u].status = "completed"
          /\ IsQueued(sessions[u].post, u)
      BY <1>2, <1>12, <1>16, <2>2
        DEF SavingInv, WaitingInv, SessionTypes, Fits, Session
    <3>2. PICK i \in 1 .. Len(queues[sessions[u].post]) : queues[sessions[u].post][i].task = u
      BY <3>1 DEF IsQueued
    <3>3. CASE sessions[u].post = p
      <4>1. i \in 1 .. Len(Append(q, e)) /\ Append(q, e)[i].task = u
        BY <1>6, <1>7, <1>10, <3>2, <3>3
      <4>2. sessions'[u].post = p
        BY <3>1, <3>3
      <4>3. QED  BY <1>9, <3>1, <4>1, <4>2 DEF IsQueued
    <3>4. CASE sessions[u].post # p
      BY <1>9, <3>1, <3>2, <3>4 DEF IsQueued
    <3>5. QED  BY <3>3, <3>4
  <2>3. QED  BY <2>1, <2>2
<1>17. \A u \in DOMAIN sessions' : WaitingInv(u)'
  BY <1>16 DEF WaitingInv
<1>18. QED  BY <1>14, <1>15, <1>17 DEF SavingInv

\* The first of them goes, with its session or with a result that is not
\* being saved any more.
Served(p, t) ==
  /\ queues' = [queues EXCEPT ![p] = Tail(@)]
  /\ work' = [work EXCEPT ![p] = Idle]
  /\ spent' = spent
  /\ \A u \in DOMAIN sessions' : u \in DOMAIN sessions
  /\ \A u \in DOMAIN sessions : u # t => u \in DOMAIN sessions' /\ sessions'[u] = sessions[u]
  /\ t \in DOMAIN sessions' => ~ Saving(t)'

LEMMA ServedSaves ==
  ASSUME NEW W, Grounds(W), NEW p \in PostIds, queues[p] # <<>>,
         NEW t, t = First(p).task, Served(p, t)
  PROVE  SavingInv'
<1>1. SavingInv /\ SessionTypes(W)
  BY DEF Grounds, TypesOver
<1>2. queues \in [PostIds -> Seq(Entries)] /\ work \in [PostIds -> Works(W)]
  BY DEF Grounds, TypesOver, WorkTypes
<1>3. PICK q : q = queues[p]
  OBVIOUS
<1>4. /\ q \in Seq(Entries) /\ Len(q) \in Nat /\ 1 \in 1 .. Len(q) /\ q # <<>>
      /\ t = q[1].task
      /\ t \in DOMAIN sessions => sessions[t].post = p
  BY <1>3, FirstInQueue
<1>5. /\ queues'[p] = Tail(q) /\ work'[p] = Idle
      /\ \A r \in PostIds : r # p => queues'[r] = queues[r] /\ work'[r] = work[r]
  BY <1>2, <1>3 DEF Served
<1>6. /\ Len(Tail(q)) = Len(q) - 1
      /\ \A i \in 1 .. Len(q) - 1 : Tail(q)[i] = q[i + 1]
  BY <1>4, HeadTailProperties
<1>7. /\ \A i \in 1 .. Len(q) :
           /\ q[i].task \in Discoveries \intersect spent
           /\ q[i].task \in DOMAIN sessions =>
                sessions[q[i].task].post = p /\ Saving(q[i].task)
      /\ \A i, j \in 1 .. Len(q) : q[i].task = q[j].task => i = j
  BY <1>1, <1>3 DEF SavingInv, QueueInv
\* Any other task is as it was.
<1>8. ASSUME NEW u, u # t
      PROVE  /\ u \in DOMAIN sessions <=> u \in DOMAIN sessions'
             /\ u \in DOMAIN sessions => sessions'[u] = sessions[u]
             /\ u \in DOMAIN sessions => (Saving(u)' <=> Saving(u))
  BY <1>8 DEF Served, Saving
<1>9. ASSUME NEW r \in PostIds  PROVE QueueInv(r)'
  <2>1. CASE r # p
    <3>1. QueueInv(r) /\ queues'[r] = queues[r] /\ spent' = spent
      BY <1>1, <1>5, <2>1 DEF SavingInv, Served
    <3>2. ASSUME NEW i \in 1 .. Len(queues[r]), NEW x, x = queues[r][i].task
          PROVE  /\ x \in Discoveries \intersect spent
                 /\ x \in DOMAIN sessions' => sessions'[x].post = r /\ Saving(x)'
      <4>1. /\ x \in Discoveries \intersect spent
            /\ x \in DOMAIN sessions => sessions[x].post = r /\ Saving(x)
        BY <3>1, <3>2 DEF QueueInv
      <4>2. x \in DOMAIN sessions' => x \in DOMAIN sessions /\ x # t
        BY <1>4, <2>1, <4>1 DEF Served
      <4>3. QED  BY <1>8, <4>1, <4>2
    <3>3. QED  BY <3>1, <3>2 DEF QueueInv
  <2>2. CASE r = p
    <3>1. ASSUME NEW i \in 1 .. Len(q) - 1, NEW x, x = Tail(q)[i].task
          PROVE  /\ x \in Discoveries \intersect spent
                 /\ x \in DOMAIN sessions' => sessions'[x].post = p /\ Saving(x)'
      <4>1. i + 1 \in 1 .. Len(q) /\ x = q[i + 1].task /\ i + 1 # 1
        BY <1>4, <1>6, <3>1
      <4>2. x # t
        BY <1>4, <1>7, <4>1
      <4>3. QED  BY <1>7, <1>8, <4>1, <4>2
    <3>2. ASSUME NEW i \in 1 .. Len(q) - 1, NEW j \in 1 .. Len(q) - 1,
                 Tail(q)[i].task = Tail(q)[j].task
          PROVE  i = j
      <4>1. /\ i + 1 \in 1 .. Len(q) /\ j + 1 \in 1 .. Len(q)
            /\ q[i + 1].task = q[j + 1].task
        BY <1>4, <1>6, <3>2
      <4>2. i + 1 = j + 1
        BY <1>7, <4>1
      <4>3. QED  BY <1>4, <4>2
    <3>3. spent' = spent /\ queues'[p] = Tail(q) /\ Len(Tail(q)) = Len(q) - 1
      BY <1>5, <1>6 DEF Served
    <3>4. QED  BY <2>2, <3>1, <3>2, <3>3 DEF QueueInv
  <2>3. QED  BY <2>1, <2>2
<1>10. ASSUME NEW r \in PostIds  PROVE WorkInv(r)'
  <2>1. CASE r = p
    BY <1>5, <2>1 DEF WorkInv, Idle
  <2>2. CASE r # p
    BY <1>1, <1>5, <2>2 DEF SavingInv, WorkInv, First
  <2>3. QED  BY <2>1, <2>2
<1>11. ASSUME NEW u \in DOMAIN sessions', Saving(u)'
       PROVE  /\ u \in Discoveries /\ sessions'[u].status = "completed"
              /\ IsQueued(sessions[u].post, u)'
  <2>1. u # t
    BY <1>11 DEF Served
  <2>2. /\ sessions'[u] = sessions[u] /\ sessions[u].post \in PostIds
        /\ u \in Discoveries /\ sessions[u].status = "completed"
        /\ IsQueued(sessions[u].post, u)
    BY <1>1, <1>8, <1>11, <2>1 DEF SavingInv, WaitingInv, SessionTypes, Fits, Session
  <2>3. PICK i \in 1 .. Len(queues[sessions[u].post]) : queues[sessions[u].post][i].task = u
    BY <2>2 DEF IsQueued
  <2>4. CASE sessions[u].post = p
    <3>1. i \in 1 .. Len(q) /\ q[i].task = u
      BY <1>3, <2>3, <2>4
    <3>2. i # 1
      BY <1>4, <2>1, <3>1
    <3>3. i - 1 \in 1 .. Len(q) - 1 /\ Tail(q)[i - 1] = q[i - 1 + 1] /\ i - 1 + 1 = i
      BY <1>4, <1>6, <3>1, <3>2
    <3>4. i - 1 \in 1 .. Len(Tail(q)) /\ Tail(q)[i - 1].task = u
      BY <1>6, <3>1, <3>3
    <3>5. sessions'[u].post = p
      BY <2>2, <2>4
    <3>6. QED  BY <1>5, <2>2, <3>4, <3>5 DEF IsQueued
  <2>5. CASE sessions[u].post # p
    BY <1>5, <2>2, <2>3, <2>5 DEF IsQueued
  <2>6. QED  BY <2>4, <2>5
<1>12. \A u \in DOMAIN sessions' : WaitingInv(u)'
  BY <1>11 DEF WaitingInv
<1>13. QED  BY <1>9, <1>10, <1>12 DEF SavingInv

\* The work on the first of them goes on: stage is what comes next.
LEMMA WorkedSaves ==
  ASSUME NEW W, Grounds(W), NEW p \in PostIds, queues[p] # <<>>, NEW stage, NEW got,
         Step(p, stage, got), UNCHANGED <<sessions, spent, queues>>,
         stage \in {"list", "create", "saved", "error"} => First(p).person # None
  PROVE  SavingInv'
<1>1. SavingInv /\ work \in [PostIds -> Works(W)]
  BY DEF Grounds, TypesOver, WorkTypes
<1>2. work'[p].stage = stage /\ \A r \in PostIds : r # p => work'[r] = work[r]
  BY <1>1 DEF Step
<1>3. ASSUME NEW r \in PostIds  PROVE QueueInv(r)'
  BY <1>1 DEF SavingInv, QueueInv, Saving
<1>4. ASSUME NEW r \in PostIds  PROVE WorkInv(r)'
  <2>1. CASE r = p
    BY <1>2, <2>1 DEF WorkInv, First
  <2>2. CASE r # p
    BY <1>1, <1>2, <2>2 DEF SavingInv, WorkInv, First
  <2>3. QED  BY <2>1, <2>2
<1>5. ASSUME NEW t \in DOMAIN sessions'  PROVE WaitingInv(t)'
  BY <1>1 DEF SavingInv, WaitingInv, IsQueued, Saving
<1>6. QED  BY <1>3, <1>4, <1>5 DEF SavingInv

LEMMA SavingStep ==
  ASSUME NEW W, Grounds(W), OutreachStep
  PROVE  SavingInv'
<1>1. SavingInv /\ SessionTypes(W) /\ work \in [PostIds -> Works(W)]
  BY DEF Grounds, TypesOver, WorkTypes
<1>2. ASSUME NEW p \in PostIds, SaveBegins(p)  PROVE SavingInv'
  <2>1. queues[p] # <<>> /\ UNCHANGED <<sessions, spent, queues>>
    BY <1>2 DEF SaveBegins
  <2>2. Step(p, "invalid", None) \/ (First(p).person # None /\ Step(p, "list", None))
    BY <1>2 DEF SaveBegins
  <2>3. QED  BY <2>1, <2>2, WorkedSaves
<1>3. ASSUME NEW p \in PostIds, SaveLooksUp(p) \/ SaveCreates(p)  PROVE SavingInv'
  <2>1. work[p].stage \in {"list", "create", "saved", "error"}
          /\ UNCHANGED <<sessions, spent, queues>>
    BY <1>3 DEF SaveLooksUp, SaveCreates
  <2>2. queues[p] # <<>> /\ First(p).person # None
    BY <1>1, <2>1 DEF SavingInv, WorkInv
  <2>3. \E stage, got : Step(p, stage, got)
    <3>1. CASE SaveLooksUp(p)
      BY <3>1 DEF SaveLooksUp
    <3>2. CASE SaveCreates(p)
      BY <3>2 DEF SaveCreates
    <3>3. QED  BY <1>3, <3>1, <3>2
  <2>4. QED  BY <2>1, <2>2, <2>3, WorkedSaves
<1>4. ASSUME NEW p \in PostIds, SaveShown(p)  PROVE SavingInv'
  <2>1. queues[p] # <<>>
    BY <1>1, <1>4 DEF SaveShown, SavingInv, WorkInv
  <2>2. PICK t : t = First(p).task
    OBVIOUS
  <2>3. sessions' = Without({t}) /\ spent' = spent
    BY <1>4, <2>2 DEF SaveShown, Finish
  <2>4. /\ DOMAIN sessions' = DOMAIN sessions \ {t}
        /\ \A u \in DOMAIN sessions' : sessions'[u] = sessions[u]
    BY <2>3, WithoutIs
  <2>5. Served(p, t)
    BY <1>4, <2>3, <2>4 DEF SaveShown, Served, Step, Idle
  <2>6. QED  BY <2>1, <2>2, <2>5, ServedSaves
<1>5. ASSUME NEW p \in PostIds, SaveFails(p)  PROVE SavingInv'
  <2>1. queues[p] # <<>>
    BY <1>1, <1>5 DEF SaveFails, SavingInv, WorkInv
  <2>2. PICK t : t = First(p).task
    OBVIOUS
  <2>3. PICK r \in {"task", "save"} :
          sessions' = IF t \in DOMAIN sessions THEN [sessions EXCEPT ![t].result = r]
                                               ELSE sessions
    BY <1>5, <2>2 DEF SaveFails
  <2>4. /\ DOMAIN sessions' = DOMAIN sessions
        /\ \A u \in DOMAIN sessions : u # t => sessions'[u] = sessions[u]
    BY <2>3
  <2>5. t \in DOMAIN sessions => ~ Saving(t)'
    <3>1. t \in DOMAIN sessions => sessions[t] \in Session
      BY <1>1 DEF SessionTypes, Fits
    <3>2. QED  BY <2>3, <3>1 DEF Session, Saving
  <2>6. spent' = spent /\ queues' = [queues EXCEPT ![p] = Tail(@)]
          /\ work' = [work EXCEPT ![p] = Idle]
    BY <1>5 DEF SaveFails, Step, Idle
  <2>7. Served(p, t)
    BY <2>4, <2>5, <2>6 DEF Served
  <2>8. QED  BY <2>1, <2>2, <2>7, ServedSaves
<1>6. ASSUME NEW t \in TaskIds, ApplyTask(t)  PROVE SavingInv'
  <2>1. t \in DOMAIN sessions /\ ~ Saving(t) /\ work' = work /\ spent' = spent
    BY <1>6 DEF ApplyTask, Saving
  <2>2. CASE queues' = queues /\ sessions' = [sessions EXCEPT ![t].result = "task"]
    <3>1. Steady
      BY <2>1, <2>2, ResultIsSteady DEF WorkKept
    <3>2. QED  BY <3>1, SteadySaves
  <2>3. CASE /\ t \in Discoveries /\ sessions[t].status = "completed"
             /\ sessions' = [sessions EXCEPT ![t].result = "saving"]
             /\ queues' = Enqueued(t)
    BY <2>1, <2>3, AppendSaves
  <2>4. QED  BY <1>6, <2>2, <2>3 DEF ApplyTask
<1>7. CASE RetrySave
  <2>1. selected \in DOMAIN sessions
    BY <1>7, OutreachAssumption
      DEF RetrySave, Grounds, TypesOver, PageTypes, OutreachAssumption
  <2>2. /\ selected \in Discoveries /\ sessions[selected].status = "completed"
        /\ ~ Saving(selected)
        /\ sessions' = [sessions EXCEPT ![selected].result = "saving"]
        /\ queues' = Enqueued(selected) /\ work' = work /\ spent' = spent
    BY <1>7 DEF RetrySave, Saving
  <2>3. QED  BY <2>1, <2>2, AppendSaves
<1>8. CASE Reload
  <2>1. /\ queues' = [p \in PostIds |-> <<>>] /\ work' = [p \in PostIds |-> Idle]
        /\ sessions' = [t \in DOMAIN Remaining |-> [Remaining[t] EXCEPT !.result = "none"]]
    BY <1>8 DEF Reload
  <2>2. \A t \in DOMAIN sessions' : sessions'[t].result = "none"
    <3>1. \A t \in DOMAIN Remaining : Remaining[t] \in Session
      BY <1>1, RemainingIs DEF SessionTypes, Fits
    <3>2. QED  BY <2>1, <3>1 DEF Session
  <2>3. ASSUME NEW p \in PostIds  PROVE QueueInv(p)' /\ WorkInv(p)'
    <3>1. queues'[p] = <<>> /\ Len(queues'[p]) = 0 /\ work'[p].stage = "idle"
      BY <2>1 DEF Idle
    <3>2. QED  BY <3>1 DEF QueueInv, WorkInv
  <2>4. ASSUME NEW t \in DOMAIN sessions'  PROVE WaitingInv(t)'
    BY <2>2 DEF WaitingInv, Saving
  <2>5. QED  BY <2>3, <2>4 DEF SavingInv
<1>9. CASE WorkKept
  BY <1>6, <1>7, <1>9, SteadySaves, SteadySteps
<1>10. QED
  BY <1>2, <1>3, <1>4, <1>5, <1>6, <1>7, <1>8, <1>9, WorkSteps

-----------------------------------------------------------------------------
(* What is open.                                                           *)

\* Sessions stay those of their post and contact, and no result is lost.
SamePlace ==
  \A t \in DOMAIN sessions' :
    /\ t \in DOMAIN sessions
    /\ sessions'[t].post = sessions[t].post /\ sessions'[t].id = sessions[t].id
NotSet == \A t \in DOMAIN sessions : sessions[t].result # "set"

LEMMA FewerArePlaced ==
  ASSUME NEW W, Grounds(W), NotSet, sessions' = Remaining \/ \E ts : sessions' = Without(ts)
  PROVE  SamePlace /\ NotSet'
<1>1. CASE sessions' = Remaining
  BY <1>1, RemainingIs DEF SamePlace, NotSet
<1>2. ASSUME NEW ts, sessions' = Without(ts)  PROVE SamePlace /\ NotSet'
  BY <1>2, WithoutIs DEF SamePlace, NotSet
<1>3. QED  BY <1>1, <1>2

LEMMA ResultIsPlaced ==
  ASSUME NEW W, Grounds(W), NotSet, NEW t, NEW r, r # "set",
         sessions' = [sessions EXCEPT ![t].result = r]
  PROVE  SamePlace /\ NotSet'
<1>1. /\ DOMAIN sessions' = DOMAIN sessions
      /\ \A u \in DOMAIN sessions : u # t => sessions'[u] = sessions[u]
  OBVIOUS
<1>2. ASSUME t \in DOMAIN sessions
      PROVE  /\ sessions'[t].result = r /\ sessions'[t].post = sessions[t].post
             /\ sessions'[t].id = sessions[t].id
  <2>1. sessions[t] \in Session
    BY <1>2 DEF Grounds, TypesOver, SessionTypes, Fits
  <2>2. QED  BY <1>2, <2>1 DEF Session
<1>3. QED  BY <1>1, <1>2 DEF SamePlace, NotSet

\* A session that is new, beside those that are left.
LEMMA NewIsPlaced ==
  ASSUME NotSet, NEW ts, NEW t, NEW p, NEW id, NEW text,
         sessions' = With(Without(ts), t, NewSession(p, id, text))
  PROVE  /\ NotSet'
         /\ t \in DOMAIN sessions' /\ sessions'[t].post = p /\ sessions'[t].id = id
<1>1. PICK others : others = Without(ts)
  OBVIOUS
<1>2. /\ DOMAIN others = DOMAIN sessions \ ts
      /\ \A u \in DOMAIN others : others[u] = sessions[u]
  BY <1>1, WithoutIs
<1>3. /\ DOMAIN sessions' = DOMAIN others \union {t}
      /\ sessions'[t].result = "none" /\ sessions'[t].post = p /\ sessions'[t].id = id
      /\ \A u \in DOMAIN others \ {t} : sessions'[u] = others[u]
  BY <1>1 DEF With, NewSession
<1>4. QED  BY <1>2, <1>3 DEF NotSet

LEMMA EndIsPlaced ==
  ASSUME NEW W, Grounds(W), NotSet, NEW t \in TaskIds, NEW status, End(t, status)
  PROVE  SamePlace /\ NotSet'
<1>1. t \in DOMAIN sessions /\ sessions[t] \in Session
  BY DEF End, Grounds, TypesOver, SessionTypes, Fits
<1>2. PICK output : sessions' = [sessions EXCEPT
        ![t].status = status, ![t].output = output,
        ![t].result = IF status = "unavailable" THEN "task" ELSE @]
  BY DEF End
<1>3. /\ DOMAIN sessions' = DOMAIN sessions
      /\ \A u \in DOMAIN sessions : u # t => sessions'[u] = sessions[u]
  BY <1>2
<1>4. /\ sessions'[t].result \in {"task", sessions[t].result}
      /\ sessions'[t].post = sessions[t].post /\ sessions'[t].id = sessions[t].id
  BY <1>1, <1>2 DEF Session
<1>5. QED  BY <1>1, <1>3, <1>4 DEF SamePlace, NotSet

LEMMA ReloadIsPlaced ==
  ASSUME NEW W, Grounds(W), Reload
  PROVE  SamePlace /\ NotSet'
<1>1. sessions' = [t \in DOMAIN Remaining |-> [Remaining[t] EXCEPT !.result = "none"]]
  BY DEF Reload
<1>2. \A t \in DOMAIN Remaining : /\ t \in DOMAIN sessions /\ Remaining[t] = sessions[t]
                                  /\ sessions[t] \in Session
  BY RemainingIs DEF Grounds, TypesOver, SessionTypes, Fits
<1>3. \A t \in DOMAIN sessions' :
        /\ t \in DOMAIN sessions /\ sessions'[t].result = "none"
        /\ sessions'[t].post = sessions[t].post /\ sessions'[t].id = sessions[t].id
  BY <1>1, <1>2 DEF Session
<1>4. QED  BY <1>3 DEF SamePlace, NotSet

\* A draft is never without its contact when it is applied.
LEMMA DraftIsPlaced ==
  ASSUME NEW W, Grounds(W), OpenInv, NEW t, ApplyDraft(t)
  PROVE  SamePlace /\ NotSet'
<1>1. NotSet /\ t \in Revisions /\ selected = t /\ contact # None
  BY DEF OpenInv, NotSet, ApplyDraft
<1>2. t # None
  BY <1>1, OutreachAssumption DEF OutreachAssumption
<1>3. postId = sessions[t].post /\ contact.id = sessions[t].id
  BY <1>1, <1>2 DEF OpenInv
<1>4. \/ sessions' = [sessions EXCEPT ![t].result = "task"]
      \/ sessions' = Without({t})
  BY <1>3 DEF ApplyDraft, Finish
<1>5. CASE sessions' = [sessions EXCEPT ![t].result = "task"]
  BY <1>1, <1>5, ResultIsPlaced
<1>6. CASE sessions' = Without({t})
  BY <1>1, <1>6, FewerArePlaced
<1>7. QED  BY <1>4, <1>5, <1>6

LEMMA PlaceStep ==
  ASSUME NEW W, Grounds(W), OpenInv, OutreachStep
  PROVE  /\ NotSet'
         /\ SamePlace \/ \E t \in TaskIds : Discover(t) \/ Revise(t) \/ RetryRun(t)
<1>1. NotSet
  BY DEF OpenInv, NotSet
<1>2. ASSUME sessions' = sessions  PROVE SamePlace /\ NotSet'
  BY <1>1, <1>2 DEF SamePlace, NotSet
<1>3. ASSUME NEW p \in PostIds, OpenOutreach(p) \/ TrackPost(p) \/ SaveShown(p)
      PROVE  SamePlace /\ NotSet'
  <2>1. sessions' = Remaining \/ \E ts : sessions' = Without(ts)
    BY <1>3 DEF OpenOutreach, TrackPost, SaveShown, Finish
  <2>2. QED  BY <1>1, <2>1, FewerArePlaced
<1>4. ASSUME NEW p \in PostIds, SaveFails(p)  PROVE SamePlace /\ NotSet'
  <2>1. PICK r \in {"task", "save"} :
          \/ sessions' = sessions
          \/ sessions' = [sessions EXCEPT ![First(p).task].result = r]
    BY <1>4 DEF SaveFails
  <2>2. CASE sessions' = [sessions EXCEPT ![First(p).task].result = r]
    BY <1>1, <2>2, ResultIsPlaced
  <2>3. QED  BY <1>2, <2>1, <2>2
<1>5. ASSUME NEW t \in TaskIds, RestoreTask(t) \/ OpenTask(t)  PROVE SamePlace /\ NotSet'
  BY <1>1, <1>5, FewerArePlaced DEF RestoreTask, OpenTask
<1>6. ASSUME NEW t \in TaskIds, Discover(t)  PROVE NotSet'
  <2>1. /\ DOMAIN sessions' = DOMAIN sessions \union {t}
        /\ sessions'[t].result = "none"
        /\ \A u \in DOMAIN sessions \ {t} : sessions'[u] = sessions[u]
    BY <1>6 DEF Discover, With, NewSession
  <2>2. QED  BY <1>1, <2>1 DEF NotSet
<1>7. ASSUME NEW t \in TaskIds, Revise(t)  PROVE NotSet'
  <2>1. sessions' = With(Without(RevisionsOf(contact.id)), t,
                         NewSession(postId, contact.id, draft))
    BY <1>7 DEF Revise
  <2>2. QED  BY <1>1, <2>1, NewIsPlaced
<1>8. ASSUME NEW t \in TaskIds, RetryRun(t)  PROVE NotSet'
  <2>1. sessions' = With(Without({selected}), t,
          NewSession(sessions[selected].post, sessions[selected].id, sessions[selected].draft))
    BY <1>8 DEF RetryRun
  <2>2. QED  BY <1>1, <2>1, NewIsPlaced
<1>9. ASSUME NEW t \in TaskIds, ApplyTask(t)  PROVE SamePlace /\ NotSet'
  <2>1. PICK r \in {"task", "saving"} : sessions' = [sessions EXCEPT ![t].result = r]
    BY <1>9 DEF ApplyTask
  <2>2. QED  BY <1>1, <2>1, ResultIsPlaced
<1>10. ASSUME NEW t \in TaskIds, ApplyDraft(t)  PROVE SamePlace /\ NotSet'
  BY <1>10, DraftIsPlaced
<1>11. ASSUME NEW t \in TaskIds, NEW status \in EndStates, End(t, status)
       PROVE  SamePlace /\ NotSet'
  BY <1>1, <1>11, EndIsPlaced
<1>12. ASSUME NEW k \in calls, Listed(k) \/ ListFailed(k)  PROVE SamePlace /\ NotSet'
  <2>1. PICK r \in {"unlisted", "task"} :
          sessions' = sessions \/ sessions' = [sessions EXCEPT ![k.task].result = r]
    <3>1. CASE Listed(k)
      BY <3>1, RestoredIsSame
    <3>2. CASE ListFailed(k)
      BY <3>2, UnlistedIs
    <3>3. QED  BY <1>12, <3>1, <3>2
  <2>2. CASE sessions' = [sessions EXCEPT ![k.task].result = r]
    BY <1>1, <2>2, ResultIsPlaced
  <2>3. CASE sessions' = sessions
    BY <1>2, <2>3
  <2>4. QED  BY <2>1, <2>2, <2>3
<1>13. CASE Reset \/ ClosePanel
  <2>1. sessions' = Remaining
    BY <1>13 DEF Reset, ClosePanel
  <2>2. QED  BY <1>1, <2>1, FewerArePlaced
<1>14. CASE ShowContacts
  <2>1. sessions' = sessions \/ sessions' = Without({selected})
    BY <1>14 DEF ShowContacts
  <2>2. CASE sessions' = Without({selected})
    BY <1>1, <2>2, FewerArePlaced
  <2>3. QED  BY <1>2, <2>1, <2>2
<1>15. CASE RetrySave
  <2>1. sessions' = [sessions EXCEPT ![selected].result = "saving"]
    BY <1>15 DEF RetrySave
  <2>2. QED  BY <1>1, <2>1, ResultIsPlaced
<1>16. CASE Reload
  BY <1>16, ReloadIsPlaced
<1>17. CASE SessionsKept
  BY <1>2, <1>17 DEF SessionsKept
<1>18. QED
  BY <1>3, <1>4, <1>5, <1>6, <1>7, <1>8, <1>9, <1>10, <1>11, <1>12, <1>13, <1>14, <1>15,
     <1>16, <1>17, SessionSteps

\* The task on the screen stays, or goes.
LEMMA StaysOpen ==
  ASSUME OpenInv, SamePlace, selected' \in DOMAIN sessions' \union {None},
         selected' \in {selected, None}, postId' = postId,
         contact' = contact \/ contact' = None \/ (contact # None /\ contact'.id = contact.id)
  PROVE  /\ selected' # None => sessions'[selected'].post = postId'
         /\ selected' \in Revisions /\ contact' # None =>
              contact'.id = sessions'[selected'].id
<1>1. CASE selected' = None
  BY <1>1, OutreachAssumption DEF OutreachAssumption
<1>2. CASE selected' # None
  <2>1. selected' = selected /\ selected \in DOMAIN sessions'
    BY <1>2
  <2>2. sessions'[selected].post = sessions[selected].post
          /\ sessions'[selected].id = sessions[selected].id
    BY <2>1 DEF SamePlace
  <2>3. QED  BY <1>2, <2>1, <2>2 DEF OpenInv
<1>3. QED  BY <1>1, <1>2

LEMMA OpenedIsPlaced ==
  ASSUME NEW p, NEW task, NEW kept, NEW known, OpenFor(p, task, kept, known), kept = sessions'
  PROVE  /\ selected' # None => sessions'[selected'].post = postId'
         /\ selected' \in Revisions /\ contact' # None =>
              contact'.id = sessions'[selected'].id
<1>1. PICK t : t = IF task \in DOMAIN kept /\ kept[task].post = p THEN task ELSE None
  OBVIOUS
<1>2. PICK own : own = IF t \in Revisions THEN {c \in known : c.id = kept[t].id} ELSE {}
  OBVIOUS
<1>3. /\ postId' = p /\ selected' = t
      /\ contact' = IF own = {} THEN None ELSE CHOOSE c \in own : TRUE
  BY <1>1, <1>2 DEF OpenFor
<1>4. own # {} => contact' \in own
  BY <1>3
<1>5. QED  BY <1>1, <1>2, <1>3, <1>4

LEMMA OpenStep ==
  ASSUME NEW W, Grounds(W), OpenInv, OutreachStep,
         selected' \in DOMAIN sessions' \union {None}
  PROVE  OpenInv'
<1> DEFINE Placed == /\ selected' # None => sessions'[selected'].post = postId'
                     /\ selected' \in Revisions /\ contact' # None =>
                          contact'.id = sessions'[selected'].id
<1>1. /\ NotSet' /\ NotSet
      /\ SamePlace \/ \E t \in TaskIds : Discover(t) \/ Revise(t) \/ RetryRun(t)
      /\ PageTypes(W) /\ None \notin Revisions
  BY PlaceStep, OutreachAssumption
    DEF OutreachAssumption, Grounds, TypesOver, OpenInv, NotSet
<1>2. ASSUME NEW t \in TaskIds, Discover(t)  PROVE Placed
  <2>1. sessions' = With(sessions, t, NewSession(postId, 0, None))
    BY <1>2 DEF Discover
  <2>2. sessions'[t].post = postId
    BY <2>1 DEF With, NewSession
  <2>3. selected' = t /\ contact' = None /\ postId' = postId
    BY <1>2 DEF Discover
  <2>4. QED  BY <2>2, <2>3
<1>3. ASSUME NEW t \in TaskIds, Revise(t)  PROVE Placed
  <2>1. sessions' = With(Without(RevisionsOf(contact.id)), t,
                         NewSession(postId, contact.id, draft))
    BY <1>3 DEF Revise
  <2>2. sessions'[t].post = postId /\ sessions'[t].id = contact.id
    BY <1>1, <2>1, NewIsPlaced
  <2>3. selected' = t /\ contact' = contact /\ postId' = postId
    BY <1>3 DEF Revise
  <2>4. QED  BY <2>2, <2>3
<1>4. ASSUME NEW t \in TaskIds, RetryRun(t)  PROVE Placed
  <2>1. sessions' = With(Without({selected}), t,
          NewSession(sessions[selected].post, sessions[selected].id, sessions[selected].draft))
    BY <1>4 DEF RetryRun
  <2>2. sessions'[t].post = sessions[selected].post /\ sessions'[t].id = sessions[selected].id
    BY <1>1, <2>1, NewIsPlaced
  <2>3. /\ selected # None /\ selected' = t /\ contact' = contact /\ postId' = postId
        /\ t \in Revisions => contact.id = sessions[selected].id
    BY <1>4 DEF RetryRun
  <2>4. QED  BY <2>2, <2>3 DEF OpenInv
<1>5. ASSUME NEW p \in PostIds, OpenOutreach(p) \/ TrackPost(p)  PROVE Placed
  BY <1>5, OpenedIsPlaced DEF OpenOutreach, TrackPost
<1>6. ASSUME NEW t \in TaskIds, RestoreTask(t) \/ OpenTask(t)  PROVE Placed
  BY <1>6, OpenedIsPlaced DEF RestoreTask, OpenTask
<1>7. ASSUME Reload  PROVE Placed
  BY <1>7 DEF Reload
<1>8. ASSUME Reset  PROVE Placed
  BY <1>1, <1>8 DEF Reset
<1>9. ASSUME NEW c \in contacts, SelectContact(c)  PROVE Placed
  BY <1>1, <1>9 DEF SelectContact
<1>10. ASSUME SamePlace  PROVE Placed
  <2>1. ASSUME selected' \in {selected, None}, postId' = postId,
               contact' = contact \/ contact' = None
                 \/ (contact # None /\ contact'.id = contact.id)
        PROVE  Placed
    BY <1>10, <2>1, StaysOpen
  <2>2. ASSUME PageKept  PROVE Placed
    BY <2>1, <2>2 DEF PageKept
  <2>3. ASSUME NEW p \in PostIds, SaveShown(p)  PROVE Placed
    <3>1. PICK u : u = First(p).task
      OBVIOUS
    <3>2. selected' = (IF selected = u THEN None ELSE selected) /\ postId' = postId
            /\ (selected # u => contact' = contact)
      BY <2>3, <3>1 DEF SaveShown
    <3>3. CASE selected = u
      BY <1>1, <3>2, <3>3
    <3>4. CASE selected # u
      BY <2>1, <3>2, <3>4
    <3>5. QED  BY <3>3, <3>4
  <2>4. ASSUME NEW t \in TaskIds, ApplyDraft(t)  PROVE Placed
    BY <2>1, <2>4 DEF ApplyDraft
  <2>5. ASSUME NEW t \in TaskIds, NEW status, End(t, status)  PROVE Placed
    BY <2>1, <2>5 DEF End
  <2>6. ASSUME NEW k \in calls, Listed(k)  PROVE Placed
    <3>1. postId' = postId /\ selected' = selected
      BY <2>6 DEF Listed
    <3>2. PICK own : own = {c \in k.got : c.id = sessions[k.task].id}
      OBVIOUS
    <3>3. \/ contact' = contact
          \/ own # {} /\ selected = k.task /\ contact' = CHOOSE c \in own : TRUE
      BY <2>6, <3>2 DEF Listed, Restored
    <3>4. CASE contact' = contact
      BY <2>1, <3>1, <3>4
    <3>5. CASE own # {} /\ selected = k.task /\ contact' = CHOOSE c \in own : TRUE
      <4>1. contact' \in own
        BY <3>5
      <4>2. contact'.id = sessions[selected].id
        BY <3>2, <3>5, <4>1
      <4>3. selected' # None => /\ sessions'[selected].id = sessions[selected].id
                                /\ sessions'[selected].post = sessions[selected].post
        BY <1>10, <3>1 DEF SamePlace
      <4>4. QED  BY <1>1, <3>1, <4>2, <4>3 DEF OpenInv
    <3>6. QED  BY <3>3, <3>4, <3>5
  <2>7. ASSUME NEW k \in calls, Changed(k)  PROVE Placed
    <3>1. PICK c : c = CHOOSE new \in k.got : TRUE
      OBVIOUS
    <3>2. /\ contact' = IF contact # None /\ contact.id = c.id THEN c ELSE contact
          /\ postId' = postId /\ selected' = selected
      BY <2>7, <3>1 DEF Changed
    <3>3. QED  BY <2>1, <3>2
  <2>8. ASSUME NEW k \in calls, ListFailed(k) \/ Removed(k) \/ ChangeFailed(k)
                                \/ TrackLoaded(k)
        PROVE  Placed
    BY <2>1, <2>8 DEF ListFailed, Removed, ChangeFailed, TrackLoaded
  <2>9. ASSUME NEW op, Change(op)  PROVE Placed
    BY <2>1, <2>9 DEF Change
  <2>10. ASSUME ShowContacts \/ ClosePanel \/ Type \/ RetrySave \/ RestoreList  PROVE Placed
    BY <2>1, <2>10 DEF ShowContacts, ClosePanel, Type, RetrySave, RestoreList
  <2>11. QED
    BY <1>2, <1>3, <1>4, <1>5, <1>6, <1>7, <1>8, <1>9, <2>2, <2>3, <2>4, <2>5, <2>6, <2>7,
       <2>8, <2>9, <2>10, PageSteps
<1>11. Placed
  BY <1>1, <1>2, <1>3, <1>4, <1>10
<1>12. QED  BY <1>1, <1>11 DEF OpenInv, NotSet

-----------------------------------------------------------------------------
(* Whom the server knows.                                                  *)

\* Who is being created stays the one that was looked up.
Output(p) == First(p).person

LEMMA CreatingStays ==
  ASSUME NEW W, Grounds(W), OutreachStep, NEW p \in PostIds, work'[p].stage = "create"
  PROVE  \/ SaveLooksUp(p)
         \/ work[p].stage = "create" /\ Output(p)' = Output(p)
<1>1. work \in [PostIds -> Works(W)] /\ queues \in [PostIds -> Seq(Entries)]
  BY DEF Grounds, TypesOver, WorkTypes
<1>2. ASSUME work[p].stage = "create"  PROVE queues[p] # <<>>
  BY <1>2, PersonIsKnown
<1>3. ASSUME WorkKept  PROVE work[p].stage = "create" /\ Output(p)' = Output(p)
  BY <1>3 DEF WorkKept, Output, First
<1>4. ASSUME NEW t \in Discoveries, t \in DOMAIN sessions, work' = work, queues' = Enqueued(t)
      PROVE  work[p].stage = "create" /\ Output(p)' = Output(p)
  <2>1. Entry(t) \in Entries /\ queues' = [queues EXCEPT ![sessions[t].post] = Append(@, Entry(t))]
    BY <1>4, EntryFits
  <2>2. work[p].stage = "create" /\ queues[p] # <<>>
    BY <1>2, <1>4
  <2>3. First(p)' = First(p)
    BY <2>1, <2>2, FirstRemains
  <2>4. QED  BY <2>2, <2>3 DEF Output
<1>5. ASSUME NEW q \in PostIds, SaveBegins(q) \/ SaveLooksUp(q) \/ SaveCreates(q)
      PROVE  \/ SaveLooksUp(p)
             \/ work[p].stage = "create" /\ Output(p)' = Output(p)
  <2>1. queues' = queues /\ sessions' = sessions
    BY <1>5 DEF SaveBegins, SaveLooksUp, SaveCreates
  <2>2. CASE q # p
    <3>1. \E stage, got : Step(q, stage, got)
      <4>1. CASE SaveBegins(q)
        BY <4>1 DEF SaveBegins
      <4>2. CASE SaveLooksUp(q)
        BY <4>2 DEF SaveLooksUp
      <4>3. CASE SaveCreates(q)
        BY <4>3 DEF SaveCreates
      <4>4. QED  BY <1>5, <4>1, <4>2, <4>3
    <3>2. work'[p] = work[p]
      BY <1>1, <2>2, <3>1 DEF Step
    <3>3. QED  BY <2>1, <3>2 DEF Output, First
  <2>3. CASE q = p
    <3>1. CASE SaveBegins(q)
      <4>1. Step(p, "invalid", None) \/ Step(p, "list", None)
        BY <2>3, <3>1 DEF SaveBegins
      <4>2. QED  BY <1>1, <4>1 DEF Step
    <3>2. CASE SaveCreates(q)
      <4>1. \E got : Step(p, "saved", got) \/ Step(p, "error", got)
        BY <2>3, <3>2 DEF SaveCreates
      <4>2. QED  BY <1>1, <4>1 DEF Step
    <3>3. CASE SaveLooksUp(q)
      BY <2>3, <3>3
    <3>4. QED  BY <1>5, <3>1, <3>2, <3>3
  <2>4. QED  BY <2>2, <2>3
<1>6. ASSUME NEW q \in PostIds, SaveShown(q) \/ SaveFails(q)
      PROVE  work[p].stage = "create" /\ Output(p)' = Output(p)
  <2>1. /\ Step(q, "idle", None) /\ work[q].stage # "idle"
        /\ queues' = [queues EXCEPT ![q] = Tail(@)]
    BY <1>6 DEF SaveShown, SaveFails
  <2>2. q # p
    BY <1>1, <2>1 DEF Step
  <2>3. work'[p] = work[p] /\ queues'[p] = queues[p]
    BY <1>1, <2>1, <2>2 DEF Step
  <2>4. QED  BY <2>3 DEF Output, First
<1>7. ASSUME NEW t \in TaskIds, ApplyTask(t)
      PROVE  work[p].stage = "create" /\ Output(p)' = Output(p)
  <2>1. t \in DOMAIN sessions /\ work' = work
    BY <1>7 DEF ApplyTask
  <2>2. CASE queues' = queues
    BY <1>3, <2>1, <2>2 DEF WorkKept
  <2>3. CASE t \in Discoveries /\ queues' = Enqueued(t)
    BY <1>4, <2>1, <2>3
  <2>4. QED  BY <1>7, <2>2, <2>3 DEF ApplyTask
<1>8. ASSUME RetrySave  PROVE work[p].stage = "create" /\ Output(p)' = Output(p)
  <2>1. selected \in Discoveries /\ work' = work /\ queues' = Enqueued(selected)
    BY <1>8 DEF RetrySave
  <2>2. selected \in DOMAIN sessions
    BY <2>1, OutreachAssumption DEF OutreachAssumption, Grounds, TypesOver, PageTypes
  <2>3. QED  BY <1>4, <2>1, <2>2
<1>9. ASSUME Reload  PROVE FALSE
  BY <1>9 DEF Reload, Idle
<1>10. QED
  BY <1>3, <1>5, <1>6, <1>7, <1>8, <1>9, WorkSteps

Pair(p, person) == [post |-> p, person |-> person]

\* A contact that is new to the server: its person was not there, or was
\* overtaken.
LEMMA NewPerson ==
  ASSUME NEW W, Grounds(W), PersonInv, NEW p, NEW person, created < MaxContacts,
         saved' = saved \union {Created(p, person)}, created' = created + 1,
         orphans' \subseteq overtaken', overtaken \subseteq overtaken',
         \/ Pair(p, person) \in overtaken
         \/ \A c \in saved : ~ (c.post = p /\ c.person = person)
  PROVE  /\ \A c, d \in saved' : c.id = d.id => c = d
         /\ \A c \in saved' : c.id <= created'
         /\ PersonSavedOnce'
<1>1. created \in Nat /\ \A c \in saved : c.id \in Nat /\ c.id <= created
  <2>1. created \in Nat /\ saved \subseteq Contact
    BY OutreachAssumption DEF OutreachAssumption, Grounds, TypesOver, ServerTypes, Rows
  <2>2. QED  BY <2>1 DEF PersonInv, Contact
<1>2. PICK new : new = Created(p, person)
  OBVIOUS
<1>3. new.id = created + 1 /\ new.post = p /\ new.person = person
  BY <1>2 DEF Created
<1>4. saved' = saved \union {new}
  BY <1>2
<1>5. \A c \in saved : c.id # new.id
  BY <1>1, <1>3
<1>6. \A c, d \in saved' : c.id = d.id => c = d
  BY <1>4, <1>5 DEF PersonInv
<1>7. \A c \in saved' : c.id <= created'
  BY <1>1, <1>3, <1>4
<1>8. ASSUME NEW c \in saved', NEW d \in saved', c.post = d.post, c.person = d.person, c # d
      PROVE  Pair(c.post, c.person) \in overtaken
  <2>1. CASE c \in saved /\ d \in saved
    BY <1>8, <2>1 DEF PersonInv, PersonSavedOnce, Pair
  <2>2. CASE c = new
    BY <1>3, <1>4, <1>8, <2>2
  <2>3. CASE d = new
    BY <1>3, <1>4, <1>8, <2>3
  <2>4. QED  BY <1>4, <2>1, <2>2, <2>3
<1>9. PersonSavedOnce'
  BY <1>8 DEF PersonSavedOnce, Pair
<1>10. QED  BY <1>6, <1>7, <1>9

\* What the server has after it handled a request: contacts it had, or the
\* one that was changed.
LEMMA HandledContacts ==
  ASSUME NEW W, Grounds(W), NEW k \in calls, Handle(k)
  PROVE  \A x \in saved' : \E c \in saved :
           /\ x.id = c.id /\ x.post = c.post /\ x.person = c.person
           /\ x = IF c \in Meant(k) /\ saved' # saved THEN Written(c, k) ELSE c
<1>1. \A c \in saved : /\ Written(c, k).id = c.id /\ Written(c, k).post = c.post
                       /\ Written(c, k).person = c.person
  BY WrittenIs DEF Grounds, TypesOver, ServerTypes
<1>2. CASE saved' = saved
  BY <1>2
<1>3. CASE saved' = saved \ Meant(k)
  BY <1>3
<1>4. CASE saved' = (saved \ Meant(k)) \union {Written(c, k) : c \in Meant(k)} /\ saved' # saved
  <2>1. ASSUME NEW x \in saved'
        PROVE  \E c \in saved :
                 /\ x.id = c.id /\ x.post = c.post /\ x.person = c.person
                 /\ x = IF c \in Meant(k) /\ saved' # saved THEN Written(c, k) ELSE c
    <3>1. CASE x \in saved \ Meant(k)
      BY <3>1
    <3>2. ASSUME NEW c \in Meant(k), x = Written(c, k)
          PROVE  \E d \in saved :
                 /\ x.id = d.id /\ x.post = d.post /\ x.person = d.person
                 /\ x = IF d \in Meant(k) /\ saved' # saved THEN Written(d, k) ELSE d
      <4>1. c \in saved
        BY DEF Meant
      <4>2. QED  BY <1>1, <1>4, <3>2, <4>1
    <3>3. QED  BY <1>4, <3>1, <3>2
  <2>2. QED  BY <2>1
<1>5. QED  BY <1>2, <1>3, <1>4, HandledIs

LEMMA ServerPersons ==
  ASSUME NEW W, Grounds(W), PersonInv, OutreachStep
  PROVE  /\ \A c, d \in saved' : c.id = d.id => c = d
         /\ \A c \in saved' : c.id <= created'
         /\ orphans' \subseteq overtaken' /\ overtaken \subseteq overtaken'
         /\ PersonSavedOnce'
<1> DEFINE Known == /\ \A c, d \in saved' : c.id = d.id => c = d
                    /\ \A c \in saved' : c.id <= created'
                    /\ orphans' \subseteq overtaken' /\ overtaken \subseteq overtaken'
                    /\ PersonSavedOnce'
<1>1. ASSUME UNCHANGED <<saved, created>>, orphans' \subseteq overtaken',
             overtaken \subseteq overtaken'
      PROVE  Known
  BY <1>1 DEF PersonInv, PersonSavedOnce
<1>2. ASSUME ServerKept  PROVE Known
  BY <1>1, <1>2 DEF ServerKept, PersonInv
<1>3. ASSUME NEW p \in PostIds, SaveCreates(p)  PROVE Known
  <2>1. /\ work[p].stage = "create" /\ created < MaxContacts
        /\ UNCHANGED <<orphans, overtaken>>
        /\ \/ saved' = saved \union {Created(p, Output(p))} /\ created' = created + 1
           \/ UNCHANGED <<saved, created>>
    BY <1>3 DEF SaveCreates, Output
  <2>2. orphans' \subseteq overtaken' /\ overtaken \subseteq overtaken'
    BY <2>1 DEF PersonInv
  <2>3. \/ Pair(p, Output(p)) \in overtaken
        \/ \A c \in saved : ~ (c.post = p /\ c.person = Output(p))
    BY <2>1 DEF PersonInv, Pair, Output
  <2>4. CASE UNCHANGED <<saved, created>>
    BY <1>1, <2>2, <2>4
  <2>5. CASE saved' = saved \union {Created(p, Output(p))} /\ created' = created + 1
    BY <2>1, <2>2, <2>3, <2>5, NewPerson
  <2>6. QED  BY <2>1, <2>4, <2>5
<1>4. ASSUME NEW k \in calls, Handle(k)  PROVE Known
  <2>1. UNCHANGED <<created, orphans, overtaken>>
    BY <1>4 DEF Handle
  <2>2. \A x \in saved' : \E c \in saved :
          /\ x.id = c.id /\ x.post = c.post /\ x.person = c.person
          /\ x = IF c \in Meant(k) /\ saved' # saved THEN Written(c, k) ELSE c
    BY <1>4, HandledContacts
  <2>3. \A c, d \in saved : c.id = d.id => c = d
    BY DEF PersonInv
  <2>4. \A c, d \in saved' : c.id = d.id => c = d
    BY <2>2, <2>3
  <2>5. \A c \in saved' : c.id <= created'
    BY <2>1, <2>2 DEF PersonInv
  <2>6. ASSUME NEW x \in saved', NEW y \in saved', x.post = y.post, x.person = y.person, x # y
        PROVE  Pair(x.post, x.person) \in overtaken
    <3>1. PICK c \in saved : x.id = c.id /\ x.post = c.post /\ x.person = c.person
      BY <2>2
    <3>2. PICK d \in saved : y.id = d.id /\ y.post = d.post /\ y.person = d.person
      BY <2>2
    <3>3. c # d
      BY <2>4, <2>6, <3>1, <3>2
    <3>4. QED  BY <2>6, <3>1, <3>2, <3>3 DEF PersonInv, PersonSavedOnce, Pair
  <2>7. PersonSavedOnce'
    BY <2>1, <2>6 DEF PersonSavedOnce, Pair
  <2>8. QED  BY <2>1, <2>4, <2>5, <2>7 DEF PersonInv
<1>5. ASSUME OrphanCreates  PROVE Known
  <2>1. created < MaxContacts /\ UNCHANGED overtaken /\ created' = created + 1
    BY <1>5 DEF OrphanCreates
  <2>2. PICK o \in orphans : /\ saved' = saved \union {Created(o.post, o.person)}
                             /\ orphans' = orphans \ {o}
    BY <1>5 DEF OrphanCreates
  <2>3. o \in overtaken /\ o \in PeopleOfPosts
    BY <2>2 DEF PersonInv, Grounds, TypesOver, ServerTypes
  <2>4. Pair(o.post, o.person) = o
    BY <2>3 DEF Pair, PeopleOfPosts
  <2>5. orphans' \subseteq overtaken' /\ overtaken \subseteq overtaken'
    BY <2>1, <2>2 DEF PersonInv
  <2>6. QED  BY <2>1, <2>2, <2>3, <2>4, <2>5, NewPerson
<1>6. ASSUME Reload  PROVE Known
  <2>1. PICK creations : creations =
          {[post |-> p, person |-> First(p).person] :
             p \in {q \in PostIds : work[q].stage = "create"}}
    OBVIOUS
  <2>2. /\ \E sent \in SUBSET creations : orphans' = orphans \union sent
        /\ overtaken' = overtaken \union creations
        /\ UNCHANGED <<saved, created>>
    BY <1>6, <2>1 DEF Reload
  <2>3. orphans' \subseteq overtaken' /\ overtaken \subseteq overtaken'
    BY <2>2 DEF PersonInv
  <2>4. QED  BY <1>1, <2>2, <2>3
<1>7. QED  BY <1>2, <1>3, <1>4, <1>5, <1>6, ServerSteps

LEMMA PersonStep ==
  ASSUME NEW W, Grounds(W), PersonInv, OutreachStep
  PROVE  PersonInv'
<1>1. /\ \A c, d \in saved' : c.id = d.id => c = d
      /\ \A c \in saved' : c.id <= created'
      /\ orphans' \subseteq overtaken' /\ overtaken \subseteq overtaken'
      /\ PersonSavedOnce'
  BY ServerPersons
<1>2. ASSUME NEW p \in PostIds, work'[p].stage = "create"
      PROVE  \/ Pair(p, Output(p)') \in overtaken'
             \/ \A c \in saved' : ~ (c.post = p /\ c.person = Output(p)')
  <2>1. CASE SaveLooksUp(p)
    <3>1. UNCHANGED <<saved, sessions, queues>>
      BY <2>1 DEF SaveLooksUp, server
    <3>2. PICK there : there = {c \in Of(p, saved) : c.person = First(p).person}
      OBVIOUS
    <3>3. work \in [PostIds -> Works(W)]
      BY DEF Grounds, TypesOver, WorkTypes
    <3>4. there = {} \/ \E got : Step(p, "saved", got) \/ Step(p, "error", got)
      BY <2>1, <3>2 DEF SaveLooksUp
    <3>5. there = {}
      BY <1>2, <3>3, <3>4 DEF Step
    <3>6. QED  BY <3>1, <3>2, <3>5 DEF Of, Output, First
  <2>2. CASE work[p].stage = "create" /\ Output(p)' = Output(p)
    <3>1. PICK person : person = Output(p)
      OBVIOUS
    <3>2. \/ Pair(p, person) \in overtaken
          \/ \A c \in saved : ~ (c.post = p /\ c.person = person)
      BY <2>2, <3>1 DEF PersonInv, Pair, Output
    <3>3. ASSUME \A c \in saved : ~ (c.post = p /\ c.person = person)
          PROVE  \/ Pair(p, person) \in overtaken'
                 \/ \A c \in saved' : ~ (c.post = p /\ c.person = person)
      <4>1. CASE ServerKept \/ Reload
        BY <3>3, <4>1 DEF ServerKept, Reload
      <4>2. ASSUME NEW q \in PostIds, SaveCreates(q)
            PROVE  \A c \in saved' : ~ (c.post = p /\ c.person = person)
        <5>1. saved' = saved \/ saved' = saved \union {Created(q, Output(q))}
          BY <4>2 DEF SaveCreates, Output
        <5>2. q # p
          <6>1. \E got : Step(q, "saved", got) \/ Step(q, "error", got)
            BY <4>2 DEF SaveCreates
          <6>2. work \in [PostIds -> Works(W)]
            BY DEF Grounds, TypesOver, WorkTypes
          <6>3. QED  BY <1>2, <6>1, <6>2 DEF Step
        <5>3. Created(q, Output(q)).post = q
          BY DEF Created
        <5>4. QED  BY <3>3, <5>1, <5>2, <5>3
      <4>3. ASSUME NEW k \in calls, Handle(k)
            PROVE  \A c \in saved' : ~ (c.post = p /\ c.person = person)
        BY <3>3, <4>3, HandledContacts
      <4>4. ASSUME OrphanCreates
            PROVE  \/ Pair(p, person) \in overtaken'
                   \/ \A c \in saved' : ~ (c.post = p /\ c.person = person)
        <5>1. PICK o \in orphans : saved' = saved \union {Created(o.post, o.person)}
          BY <4>4 DEF OrphanCreates
        <5>2. o \in overtaken' /\ o \in PeopleOfPosts
          BY <1>1, <5>1 DEF PersonInv, Grounds, TypesOver, ServerTypes
        <5>3. Pair(o.post, o.person) = o
          BY <5>2 DEF Pair, PeopleOfPosts
        <5>4. Created(o.post, o.person).post = o.post
                /\ Created(o.post, o.person).person = o.person
          BY DEF Created
        <5>5. QED  BY <3>3, <5>1, <5>2, <5>3, <5>4
      <4>5. QED  BY <4>1, <4>2, <4>3, <4>4, ServerSteps
    <3>4. QED  BY <1>1, <2>2, <3>1, <3>2, <3>3
  <2>3. QED  BY <1>2, <2>1, <2>2, CreatingStays
<1>3. QED  BY <1>1, <1>2 DEF PersonInv, Pair, Output

-----------------------------------------------------------------------------
(* What is on the screen of the Apply view.                                *)

LEMMA OverlappedSteps ==
  ASSUME OutreachStep
  PROVE  \/ UNCHANGED overlapped
         \/ \E k \in calls : Drop(k) \/ Removed(k)
         \/ Reload
<1>1. \A p : OpenOutreach(p) \/ TrackPost(p) \/ SaveBegins(p) \/ SaveLooksUp(p)
            \/ SaveCreates(p) \/ SaveShown(p) \/ SaveFails(p) => UNCHANGED overlapped
  BY DEF OpenOutreach, TrackPost, SaveBegins, SaveLooksUp, SaveCreates, SaveShown, SaveFails
<1>2. \A t : RestoreTask(t) \/ OpenTask(t) \/ Discover(t) \/ Revise(t) \/ ApplyTask(t)
            \/ ApplyDraft(t) \/ RetryRun(t) => UNCHANGED overlapped
  BY DEF RestoreTask, OpenTask, Discover, Revise, ApplyTask, ApplyDraft, RetryRun
<1>3. \A t, status : End(t, status) => UNCHANGED overlapped
  BY DEF End
<1>4. \A k : Handle(k) \/ Listed(k) \/ ListFailed(k) \/ Changed(k) \/ ChangeFailed(k)
            \/ TrackLoaded(k) => UNCHANGED overlapped
  BY DEF Handle, Listed, ListFailed, Changed, ChangeFailed, TrackLoaded
<1>5. \A c : SelectContact(c) \/ Change(c) => UNCHANGED overlapped
  BY DEF SelectContact, Change
<1>6. Reset \/ ShowContacts \/ ClosePanel \/ Type \/ LoadTracked \/ RetrySave
       \/ OrphanCreates \/ RestoreList => UNCHANGED overlapped
  BY DEF Reset, ShowContacts, ClosePanel, Type, LoadTracked, RetrySave, OrphanCreates,
         RestoreList
<1>7. QED  BY <1>1, <1>2, <1>3, <1>4, <1>5, <1>6 DEF OutreachStep

\* The removal of a contact that was answered.
Gone(k, id) == k.op = "remove" /\ k.answer = "ok" /\ k.id = id

LEMMA OutdatedGone ==
  ASSUME NEW ops, NEW cs, NEW k \in cs, k \in Call, NEW id, Gone(k, id)
  PROVE  \E l \in Outdated(ops, cs) : Gone(l, id)
<1>1. CASE k.op \in ops
  <2>1. [k EXCEPT !.current = FALSE] \in Outdated(ops, cs)
    BY <1>1 DEF Outdated
  <2>2. Gone([k EXCEPT !.current = FALSE], id)
    BY DEF Call, Gone
  <2>3. QED  BY <2>1, <2>2
<1>2. CASE k.op \notin ops
  BY <1>2 DEF Outdated
<1>3. QED  BY <1>1, <1>2

\* It stays known until it is shown, or dropped.
LEMMA GoneStays ==
  ASSUME NEW W, Grounds(W), OutreachStep, NEW k \in calls, NEW id, Gone(k, id)
  PROVE  \/ \E l \in calls' : Gone(l, id)
         \/ Drop(k) \/ Removed(k) \/ Reload
<1>1. \A l \in calls : l \in Call
  BY DEF Grounds, TypesOver, CallTypes, CallFits
<1>2. ASSUME NEW p, \E l \in Kept(p) : Gone(l, id) /\ l \in Call, NEW t, Fetch(p, t, Kept(p))
      PROVE  \E l \in calls' : Gone(l, id)
  BY <1>2, OutdatedGone DEF Fetch
<1>3. \A p : \E l \in Kept(p) : Gone(l, id) /\ l \in Call
  <2>1. ASSUME NEW p  PROVE \E l \in Kept(p) : Gone(l, id) /\ l \in Call
    <3>1. CASE postId = p
      BY <1>1, <3>1 DEF Kept
    <3>2. CASE postId # p
      <4>1. PICK l \in Outdated({"list"} \union Updates, calls) : Gone(l, id)
        BY <1>1, OutdatedGone
      <4>2. \A m \in calls : CallFits(m, W)
        BY DEF Grounds, TypesOver, CallTypes
      <4>3. l \in Call
        BY <4>1, <4>2, OutdatedFits DEF CallFits
      <4>4. QED  BY <3>2, <4>1, <4>3 DEF Kept
    <3>3. QED  BY <3>1, <3>2
  <2>2. QED  BY <2>1
<1>4. ASSUME CallsKept  PROVE \E l \in calls' : Gone(l, id)
  BY <1>4 DEF CallsKept
<1>5. ASSUME NEW p \in PostIds, OpenOutreach(p) \/ TrackPost(p)
      PROVE  \E l \in calls' : Gone(l, id)
  <2>1. calls' = Kept(p) \/ Fetch(p, None, Kept(p))
    BY <1>5 DEF OpenOutreach, TrackPost
  <2>2. QED  BY <1>2, <1>3, <2>1
<1>6. ASSUME NEW t \in TaskIds, RestoreTask(t)  PROVE \E l \in calls' : Gone(l, id)
  BY <1>2, <1>3, <1>6 DEF RestoreTask
<1>7. ASSUME NEW l \in calls, Handle(l)  PROVE \E m \in calls' : Gone(m, id)
  <2>1. l.answer = "none"
    BY <1>7 DEF Handle
  <2>2. k # l
    BY <2>1, Zenon DEF Gone
  <2>3. k \in calls'
    BY <1>7, <2>2, HandledIs, ZenonT(40) DEF Done
  <2>4. QED  BY <2>3
<1>8. ASSUME NEW l \in calls, Listed(l) \/ ListFailed(l) \/ Changed(l) \/ ChangeFailed(l)
                              \/ TrackLoaded(l)
      PROVE  \E m \in calls' : Gone(m, id)
  <2>1. calls' = calls \ {l} /\ (l.op # "remove" \/ l.answer # "ok")
    BY <1>8 DEF Listed, ListFailed, Changed, ChangeFailed, TrackLoaded
  <2>2. k # l
    BY <2>1 DEF Gone
  <2>3. QED  BY <2>1, <2>2
<1>9. ASSUME NEW l \in calls, Drop(l)  PROVE Drop(k) \/ \E m \in calls' : Gone(m, id)
  BY <1>9 DEF Drop
<1>10. ASSUME NEW l \in calls, Removed(l)  PROVE Removed(k) \/ \E m \in calls' : Gone(m, id)
  <2>1. CASE k = l
    BY <1>10, <2>1
  <2>2. CASE k # l
    <3>1. \/ calls' = calls \ {l}
          \/ calls' = Outdated({"track"}, calls \ {l}) \union {Ask("track", None, None, None)}
      BY <1>10 DEF Removed
    <3>2. CASE calls' = calls \ {l}
      BY <2>2, <3>2
    <3>3. CASE calls' = Outdated({"track"}, calls \ {l}) \union {Ask("track", None, None, None)}
      <4>1. k \in calls \ {l} /\ k \in Call
        BY <1>1, <2>2
      <4>2. \E m \in Outdated({"track"}, calls \ {l}) : Gone(m, id)
        BY <4>1, OutdatedGone
      <4>3. QED  BY <3>3, <4>2
    <3>4. QED  BY <3>1, <3>2, <3>3
  <2>3. QED  BY <2>1, <2>2
<1>11. ASSUME NEW op \in Updates, Change(op)  PROVE \E m \in calls' : Gone(m, id)
  BY <1>1, <1>11, OutdatedGone DEF Change
<1>12. ASSUME Reset  PROVE \E m \in calls' : Gone(m, id)
  BY <1>1, <1>12, OutdatedGone DEF Reset
<1>13. ASSUME LoadTracked  PROVE \E m \in calls' : Gone(m, id)
  BY <1>1, <1>13, OutdatedGone DEF LoadTracked
<1>14. ASSUME RestoreList  PROVE \E m \in calls' : Gone(m, id)
  BY <1>1, <1>14, OutdatedGone DEF RestoreList, Fetch
<1>15. QED
  BY <1>4, <1>5, <1>6, <1>7, <1>8, <1>9, <1>10, <1>11, <1>12, <1>13, <1>14, CallSteps

\* Who was there is there, or the request that removed it is answered.
LEMMA SavedLives ==
  ASSUME NEW W, Grounds(W), OutreachStep, NEW id \in Ids(saved)
  PROVE  Lives(id)'
<1>1. ASSUME saved \subseteq saved'  PROVE Lives(id)'
  BY <1>1 DEF Lives, Ids
<1>2. ASSUME ServerKept \/ OrphanCreates \/ Reload  PROVE saved \subseteq saved'
  BY <1>2 DEF ServerKept, OrphanCreates, Reload
<1>3. ASSUME NEW p \in PostIds, SaveCreates(p)  PROVE saved \subseteq saved'
  BY <1>3 DEF SaveCreates
<1>4. ASSUME NEW k \in calls, Handle(k)  PROVE Lives(id)'
  <2>1. PICK c \in saved : c.id = id
    BY DEF Ids
  <2>2. CASE saved' = saved
    BY <1>1, <2>2
  <2>3. CASE saved' = (saved \ Meant(k)) \union {Written(d, k) : d \in Meant(k)}
    <3>1. Written(c, k).id = id
      BY <2>1, WrittenIs DEF Grounds, TypesOver, ServerTypes
    <3>2. c \in saved' \/ Written(c, k) \in saved'
      BY <2>1, <2>3
    <3>3. id \in Ids(saved')
      BY <2>1, <3>1, <3>2 DEF Ids
    <3>4. QED  BY <3>3 DEF Lives
  <2>4. CASE k.op = "remove" /\ Done(k, "ok", {}) /\ saved' = saved \ Meant(k)
    <3>1. CASE c \in Meant(k)
      <4>1. PICK new : new = [k EXCEPT !.answer = "ok", !.got = {}]
        OBVIOUS
      <4>2. k \in Call
        BY DEF Grounds, TypesOver, CallTypes, CallFits
      <4>3. new.op = "remove" /\ new.answer = "ok" /\ new.id = k.id
        BY <2>4, <4>1, <4>2 DEF Call
      <4>4. new \in calls'
        BY <2>4, <4>1 DEF Done
      <4>5. k.id = id
        BY <2>1, <3>1 DEF Meant
      <4>6. QED  BY <4>3, <4>4, <4>5 DEF Lives
    <3>2. CASE c \notin Meant(k)
      <4>1. id \in Ids(saved')
        BY <2>1, <2>4, <3>2 DEF Ids
      <4>2. QED  BY <4>1 DEF Lives
    <3>3. QED  BY <3>1, <3>2
  <2>5. QED  BY <1>4, <2>2, <2>3, <2>4, HandledIs
<1>5. QED  BY <1>1, <1>2, <1>3, <1>4, ServerSteps

\* A contact lives until its removal is shown while none are being read.
LEMMA LivesOn ==
  ASSUME NEW W, Grounds(W), OutreachStep, ~ Reload, NEW id, Lives(id)
  PROVE  Lives(id)' \/ \E k \in calls : Removed(k) /\ ~ Reading /\ k.id = id
<1>1. CASE id \in Ids(saved)
  BY <1>1, SavedLives
<1>2. CASE id \in overlapped
  <2>1. overlapped \subseteq overlapped'
    BY OverlappedSteps DEF Drop, Removed
  <2>2. QED  BY <1>2, <2>1 DEF Lives
<1>3. ASSUME NEW k \in calls, Gone(k, id)
      PROVE  Lives(id)' \/ \E l \in calls : Removed(l) /\ ~ Reading /\ l.id = id
  <2>1. CASE \E l \in calls' : Gone(l, id)
    BY <2>1 DEF Lives, Gone
  <2>2. CASE Drop(k)
    BY <1>3, <2>2 DEF Drop, Gone, Lives
  <2>3. CASE Removed(k)
    BY <1>3, <2>3 DEF Removed, Gone, Lives
  <2>4. QED  BY <1>3, <2>1, <2>2, <2>3, GoneStays
<1>4. QED  BY <1>1, <1>2, <1>3 DEF Lives, Gone

\* In the Apply view no list of all contacts is asked for, and who is in an
\* answer that will be taken lives.
IsAnswered(k) ==
  /\ k.op # "track"
  /\ k.op = "list" /\ k.current => \A c \in k.got : Lives(c.id)

LEMMA OutdatedAnswered ==
  ASSUME NEW ops, NEW cs, \A k \in cs : k \in Call /\ IsAnswered(k)
  PROVE  \A k \in Outdated(ops, cs) : IsAnswered(k)
<1>1. ASSUME NEW k \in Outdated(ops, cs)  PROVE IsAnswered(k)
  <2>1. PICK l \in cs : k = l \/ k = [l EXCEPT !.current = FALSE]
    BY OutdatedIs
  <2>2. CASE k = [l EXCEPT !.current = FALSE]
    <3>1. k.op = l.op /\ ~ k.current
      BY <2>1, <2>2 DEF Call
    <3>2. QED  BY <2>1, <3>1 DEF IsAnswered
  <2>3. QED  BY <2>1, <2>2
<1>2. QED  BY <1>1

LEMMA AnsweredStep ==
  ASSUME NEW W, Grounds(W), OutreachStep, workspace = "apply", ScreenInv
  PROVE  \A k \in calls' : IsAnswered(k)
<1>1. \A k \in calls : k \in Call /\ IsAnswered(k)
  BY DEF Grounds, TypesOver, CallTypes, CallFits, ScreenInv, IsAnswered
<1>2. \A op, p, c, t : op # "track" => IsAnswered(Ask(op, p, c, t))
  BY DEF Ask, IsAnswered
<1>3. \A p : \A k \in Kept(p) : k \in Call /\ IsAnswered(k)
  <2>1. \A k \in Outdated({"list"} \union Updates, calls) : IsAnswered(k)
    BY <1>1, OutdatedAnswered
  <2>2. \A k \in Outdated({"list"} \union Updates, calls) : CallFits(k, W)
    BY OutdatedFits DEF Grounds, TypesOver, CallTypes
  <2>3. QED  BY <1>1, <2>1, <2>2 DEF Kept, CallFits
<1>4. ASSUME NEW cs, \A k \in cs : k \in Call /\ IsAnswered(k), NEW p, NEW t, Fetch(p, t, cs)
      PROVE  \A k \in calls' : IsAnswered(k)
  <2>1. calls' = Outdated({"list"}, cs) \union {Ask("list", p, None, t)}
    BY <1>4 DEF Fetch
  <2>2. \A k \in Outdated({"list"}, cs) : IsAnswered(k)
    BY <1>4, OutdatedAnswered
  <2>3. QED  BY <1>2, <2>1, <2>2
<1>5. ASSUME CallsKept  PROVE \A k \in calls' : IsAnswered(k)
  BY <1>1, <1>5 DEF CallsKept
<1>6. ASSUME NEW p \in PostIds, OpenOutreach(p)  PROVE \A k \in calls' : IsAnswered(k)
  BY <1>3, <1>4, <1>6 DEF OpenOutreach
<1>7. ASSUME NEW p \in PostIds, TrackPost(p)  PROVE FALSE
  BY <1>7 DEF TrackPost
<1>8. ASSUME NEW t \in TaskIds, RestoreTask(t)  PROVE \A k \in calls' : IsAnswered(k)
  BY <1>3, <1>4, <1>8 DEF RestoreTask
<1>9. ASSUME NEW k \in calls, Handle(k)  PROVE \A l \in calls' : IsAnswered(l)
  <2>1. ASSUME NEW answer, NEW got, Done(k, answer, got), NEW l \in calls',
               k.op = "list" => \A c \in got : Lives(c.id)
        PROVE  IsAnswered(l)
    <3>1. PICK new : new = [k EXCEPT !.answer = answer, !.got = got]
      OBVIOUS
    <3>2. new.op = k.op /\ new.current = k.current /\ new.got = got
      BY <1>1, <3>1 DEF Call
    <3>3. l \in calls \/ l = new
      BY <2>1, <3>1 DEF Done
    <3>4. QED  BY <1>1, <2>1, <3>2, <3>3 DEF IsAnswered
  <2>2. \A c \in Of(k.post, saved) : Lives(c.id)
    BY DEF Of, Lives, Ids
  <2>3. k.op # "track"
    BY <1>1 DEF IsAnswered
  <2>4. CASE k.op = "list"
    <3>1. Done(k, "failed", {}) \/ Done(k, "ok", Of(k.post, saved))
      BY <1>9, <2>4, HandledIs
    <3>2. QED  BY <2>1, <2>2, <3>1
  <2>5. CASE k.op # "list"
    <3>1. \E answer, got : Done(k, answer, got)
      BY <1>9, HandledIs
    <3>2. QED  BY <2>1, <2>5, <3>1
  <2>6. QED  BY <2>4, <2>5
<1>10. ASSUME NEW k \in calls, Listed(k) \/ ListFailed(k) \/ Drop(k) \/ Changed(k)
                               \/ ChangeFailed(k) \/ TrackLoaded(k)
       PROVE  \A l \in calls' : IsAnswered(l)
  BY <1>1, <1>10 DEF Listed, ListFailed, Drop, Changed, ChangeFailed, TrackLoaded
<1>11. ASSUME NEW k \in calls, Removed(k)  PROVE \A l \in calls' : IsAnswered(l)
  BY <1>1, <1>11 DEF Removed
<1>12. ASSUME NEW op \in Updates, Change(op)  PROVE \A l \in calls' : IsAnswered(l)
  <2>1. calls' = Outdated(Updates, calls) \union {Ask(op, postId, contact, None)}
    BY <1>12 DEF Change
  <2>2. \A k \in Outdated(Updates, calls) : IsAnswered(k)
    BY <1>1, OutdatedAnswered
  <2>3. op # "track"
    BY <1>12 DEF Updates
  <2>4. QED  BY <1>2, <2>1, <2>2, <2>3
<1>13. ASSUME Reset  PROVE \A l \in calls' : IsAnswered(l)
  BY <1>1, <1>13, OutdatedAnswered DEF Reset
<1>14. ASSUME LoadTracked  PROVE FALSE
  BY <1>14 DEF LoadTracked
<1>15. ASSUME Reload  PROVE \A l \in calls' : IsAnswered(l)
  <2>1. PICK open : open = {c \in calls : c.op \in Updates /\ c.answer = "none"}
    OBVIOUS
  <2>2. calls' = Outdated(Updates, open) /\ \A k \in open : k \in Call /\ IsAnswered(k)
    BY <1>1, <1>15, <2>1 DEF Reload
  <2>3. QED  BY <2>2, OutdatedAnswered
<1>16. ASSUME RestoreList  PROVE \A l \in calls' : IsAnswered(l)
  BY <1>1, <1>4, <1>16 DEF RestoreList
<1>17. QED
  BY <1>5, <1>6, <1>7, <1>8, <1>9, <1>10, <1>11, <1>12, <1>13, <1>14, <1>15, <1>16, CallSteps

\* Who was found or created for a result lives.
LEMMA SavedStep ==
  ASSUME NEW W, Grounds(W), OutreachStep, ScreenInv, NEW p \in PostIds,
         work'[p].stage = "saved", NEW id, id = work'[p].got.id
  PROVE  Lives(id) \/ Lives(id)'
<1>1. work \in [PostIds -> Works(W)] /\ saved \subseteq Contact
  BY DEF Grounds, TypesOver, WorkTypes, ServerTypes, Rows
<1>2. CASE work'[p] = work[p]
  BY <1>2 DEF ScreenInv
<1>3. ASSUME NEW q \in PostIds, NEW stage, NEW got, Step(q, stage, got)
      PROVE  IF p = q THEN work'[p].stage = stage /\ work'[p].got = got
                      ELSE work'[p] = work[p]
  BY <1>1, <1>3 DEF Step
<1>4. ASSUME NEW q \in PostIds, SaveBegins(q)  PROVE work'[p] = work[p]
  <2>1. Step(q, "invalid", None) \/ Step(q, "list", None)
    BY <1>4 DEF SaveBegins
  <2>2. QED  BY <1>3, <2>1
<1>5. ASSUME NEW q \in PostIds, SaveLooksUp(q)
      PROVE  work'[p] = work[p] \/ Lives(id)
  <2>1. PICK there : there = {c \in Of(q, saved) :
                                c.person = First(q).person}
    OBVIOUS
  <2>2. \/ Step(q, "create", None)
        \/ /\ there # {}
           /\ Step(q, "saved", CHOOSE c \in there : \A d \in there : d.id <= c.id)
        \/ Step(q, "error", None)
    BY <1>5, <2>1 DEF SaveLooksUp
  <2>3. there # {} => (CHOOSE c \in there : \A d \in there : d.id <= c.id) \in there
    <3>1. there \subseteq Contact
      BY <1>1, <2>1 DEF Of
    <3>2. ASSUME there # {}
          PROVE  \E c \in there : \A d \in there : d.id <= c.id
      BY <3>1, <3>2, NewestExists, OutreachAssumption DEF OutreachAssumption
    <3>3. QED  BY <3>2
  <2>4. \A c \in there : Lives(c.id)
    BY <2>1 DEF Of, Lives, Ids
  <2>5. QED  BY <1>3, <2>2, <2>3, <2>4
<1>6. ASSUME NEW q \in PostIds, SaveCreates(q)
      PROVE  work'[p] = work[p] \/ Lives(id)'
  <2>1. \/ /\ saved' = saved \union {Created(q, Output(q))}
           /\ Step(q, "saved", Created(q, Output(q)))
        \/ Step(q, "error", None)
    BY <1>6 DEF SaveCreates, Output
  <2>2. CASE Step(q, "error", None)
    BY <1>3, <2>2
  <2>3. CASE /\ saved' = saved \union {Created(q, Output(q))}
             /\ Step(q, "saved", Created(q, Output(q)))
    <3>1. PICK c : c = Created(q, Output(q))
      OBVIOUS
    <3>2. c.id \in Ids(saved')
      BY <2>3, <3>1 DEF Ids
    <3>3. work'[p] = work[p] \/ work'[p].got = c
      BY <1>3, <2>3, <3>1
    <3>4. QED  BY <3>2, <3>3 DEF Lives
  <2>4. QED  BY <2>1, <2>2, <2>3
<1>7. ASSUME NEW q \in PostIds, SaveShown(q) \/ SaveFails(q)  PROVE work'[p] = work[p]
  <2>1. Step(q, "idle", None)
    BY <1>7 DEF SaveShown, SaveFails
  <2>2. QED  BY <1>3, <2>1
<1>8. ASSUME NEW t \in TaskIds, ApplyTask(t)  PROVE work'[p] = work[p]
  BY <1>8 DEF ApplyTask
<1>9. ASSUME RetrySave \/ WorkKept  PROVE work'[p] = work[p]
  BY <1>9 DEF RetrySave, WorkKept
<1>10. ASSUME Reload  PROVE FALSE
  BY <1>10 DEF Reload, Idle
<1>11. QED
  BY <1>2, <1>4, <1>5, <1>6, <1>7, <1>8, <1>9, <1>10, WorkSteps

\* Contacts that are shown were there before; the one that is open is one of
\* them.
Shows ==
  /\ contact' # None => contact'.id \in Ids(contacts')
  /\ \A c \in contacts' : c.post = postId' /\ Lives(c.id)

LEMMA ShowsAgain ==
  ASSUME ScreenInv, contacts' = contacts, postId' = postId, contact' \in {contact, None}
  PROVE  Shows
BY DEF ScreenInv, Shows

LEMMA OpenShows ==
  ASSUME NEW p, NEW task, NEW kept, NEW known, OpenFor(p, task, kept, known),
         \A c \in known : c.post = p /\ Lives(c.id)
  PROVE  Shows
<1>1. PICK t : t = IF task \in DOMAIN kept /\ kept[task].post = p THEN task ELSE None
  OBVIOUS
<1>2. PICK own : own = IF t \in Revisions THEN {c \in known : c.id = kept[t].id} ELSE {}
  OBVIOUS
<1>3. /\ postId' = p /\ contacts' = known
      /\ contact' = IF own = {} THEN None ELSE CHOOSE c \in own : TRUE
  BY <1>1, <1>2 DEF OpenFor
<1>4. contact' # None => contact' \in known
  BY <1>2, <1>3
<1>5. QED  BY <1>3, <1>4 DEF Shows, Ids

LEMMA ShowsStep ==
  ASSUME NEW W, Grounds(W), OutreachStep, workspace = "apply", ScreenInv
  PROVE  Shows
<1>1. /\ CallTypes(W) /\ PageTypes(W) /\ WorkTypes(W)
      /\ \A k \in calls : CallFits(k, W) /\ k \in Call
  BY DEF Grounds, TypesOver, CallTypes, CallFits
<1>2. ASSUME contacts' = contacts, postId' = postId, contact' \in {contact, None}  PROVE Shows
  BY <1>2, ShowsAgain
<1>3. ASSUME contacts' = {}, contact' = None  PROVE Shows
  BY <1>3 DEF Shows
<1>4. ASSUME PageKept  PROVE Shows
  BY <1>2, <1>4 DEF PageKept
<1>5. \A p : \A c \in Shown(p) : c.post = p /\ Lives(c.id)
  BY DEF Shown, ScreenInv
<1>6. ASSUME NEW p \in PostIds, OpenOutreach(p)  PROVE Shows
  BY <1>5, <1>6, OpenShows DEF OpenOutreach
<1>7. ASSUME NEW p \in PostIds, TrackPost(p)  PROVE Shows
  BY <1>7 DEF TrackPost
<1>8. ASSUME NEW t \in TaskIds, RestoreTask(t)  PROVE Shows
  BY <1>5, <1>8, OpenShows DEF RestoreTask
<1>9. ASSUME NEW t \in TaskIds, OpenTask(t)  PROVE Shows
  BY <1>9, OpenShows DEF OpenTask, ScreenInv
<1>10. ASSUME NEW p \in PostIds, SaveShown(p)  PROVE Shows
  <2>1. PICK c : c = work[p].got
    OBVIOUS
  <2>2. c.post = p /\ Lives(c.id)
    BY <1>1, <1>10, <2>1 DEF SaveShown, WorkTypes, ScreenInv
  <2>3. /\ \/ UNCHANGED <<contacts, contact>>
           \/ /\ postId = p /\ contacts' = {c} \union {d \in contacts : d.id # c.id}
              /\ contact' \in {contact, c}
        /\ postId' = postId
    BY <1>10, <2>1 DEF SaveShown
  <2>4. CASE /\ postId = p /\ contact' \in {contact, c}
             /\ contacts' = {c} \union {d \in contacts : d.id # c.id}
    <3>1. contacts' = {c} \union {d \in contacts : d.id # c.id}
      BY <2>4
    <3>2. Ids(contacts) \subseteq Ids(contacts') /\ c.id \in Ids(contacts')
      BY <3>1 DEF Ids
    <3>3. QED  BY <2>2, <2>3, <2>4, <3>1, <3>2 DEF ScreenInv, Shows
  <2>5. CASE UNCHANGED <<contacts, contact>>
    BY <1>2, <2>3, <2>5
  <2>6. QED  BY <2>3, <2>4, <2>5
<1>11. ASSUME NEW t \in TaskIds, Discover(t) \/ Revise(t) \/ ApplyDraft(t) \/ RetryRun(t)
       PROVE  Shows
  BY <1>2, <1>11 DEF Discover, Revise, ApplyDraft, RetryRun
<1>12. ASSUME NEW t, NEW status, End(t, status)  PROVE Shows
  BY <1>2, <1>12 DEF End
<1>13. ASSUME NEW k \in calls, Listed(k)  PROVE Shows
  <2>1. k.op = "list" /\ k.current /\ postId' = postId
    BY <1>13 DEF Listed
  <2>2. k.post = postId
    BY <2>1 DEF Grounds, CurrentInv
  <2>3. \A c \in k.got : c.post = postId /\ Lives(c.id)
    BY <1>1, <2>1, <2>2 DEF CallFits, ScreenInv
  <2>4. contacts' = k.got \union {c \in contacts : c.id \notin Ids(k.got)}
    BY <1>13 DEF Listed
  <2>5. Ids(contacts) \subseteq Ids(contacts') /\ Ids(k.got) \subseteq Ids(contacts')
    BY <2>4 DEF Ids
  <2>6. PICK own : own = {c \in k.got : c.id = sessions[k.task].id}
    OBVIOUS
  <2>7. contact' = contact \/ (own # {} /\ contact' = CHOOSE c \in own : TRUE)
    BY <1>13, <2>6 DEF Listed, Restored
  <2>8. contact' = contact \/ contact' \in k.got
    BY <2>6, <2>7
  <2>9. contact' # None => contact'.id \in Ids(contacts')
    <3>1. contact' \in k.got => contact'.id \in Ids(k.got)
      BY DEF Ids
    <3>2. QED  BY <2>5, <2>8, <3>1 DEF ScreenInv
  <2>10. \A c \in contacts' : c.post = postId' /\ Lives(c.id)
    BY <2>1, <2>3, <2>4 DEF ScreenInv
  <2>11. QED  BY <2>9, <2>10 DEF Shows
<1>14. ASSUME NEW k \in calls, Changed(k)  PROVE Shows
  <2>1. PICK c : c = CHOOSE new \in k.got : TRUE
    OBVIOUS
  <2>2. /\ k.op \in Updates /\ k.op # "track" /\ k.current /\ k.answer = "ok"
        /\ k.op \in {"draft", "messaged"}
    BY <1>14 DEF Changed, Updates
  <2>3. c \in k.got
    <3>1. k.got # {}
      BY <1>1, <2>2 DEF CallFits
    <3>2. QED  BY <2>1, <3>1
  <2>4. c.post = postId
    BY <1>1, <2>2, <2>3 DEF CallFits, Grounds, CurrentInv
  <2>5. /\ contacts' = Replaced(c, contacts) /\ postId' = postId
        /\ contact' = IF contact # None /\ contact.id = c.id THEN c ELSE contact
    BY <1>14, <2>1 DEF Changed
  <2>6. Ids(contacts) \subseteq Ids(contacts')
    BY <2>5 DEF Ids, Replaced
  <2>7. ASSUME NEW x \in contacts'  PROVE x.post = postId' /\ Lives(x.id)
    <3>1. PICK d \in contacts : x = IF d.id = c.id THEN c ELSE d
      BY <2>5 DEF Replaced
    <3>2. x.id = d.id /\ Lives(d.id) /\ d.post = postId
      BY <3>1 DEF ScreenInv
    <3>3. QED  BY <2>4, <2>5, <3>1, <3>2
  <2>8. contact' # None => contact # None /\ contact'.id = contact.id
    BY <2>5
  <2>9. QED  BY <2>6, <2>7, <2>8 DEF Shows, ScreenInv
<1>15. ASSUME NEW k \in calls, Removed(k)  PROVE Shows
  <2>1. /\ contacts' = {c \in contacts : c.id # k.id} /\ postId' = postId
        /\ \/ contact' = None
           \/ contact' = contact /\ (contact = None \/ contact.id # k.id)
    BY <1>15 DEF Removed
  <2>2. \A id \in Ids(contacts) : id # k.id => id \in Ids(contacts')
    BY <2>1 DEF Ids
  <2>3. QED  BY <2>1, <2>2 DEF ScreenInv, Shows
<1>16. ASSUME NEW k \in calls, ListFailed(k) \/ ChangeFailed(k)  PROVE Shows
  BY <1>2, <1>16 DEF ListFailed, ChangeFailed
<1>17. ASSUME NEW k \in calls, TrackLoaded(k)  PROVE Shows
  BY <1>17 DEF TrackLoaded, ScreenInv
<1>18. ASSUME NEW c \in contacts, SelectContact(c)  PROVE Shows
  BY <1>18 DEF SelectContact, ScreenInv, Shows, Ids
<1>19. ASSUME NEW op, Change(op)  PROVE Shows
  BY <1>2, <1>19 DEF Change
<1>20. ASSUME Reset \/ Reload  PROVE Shows
  BY <1>3, <1>20 DEF Reset, Reload
<1>21. ASSUME ShowContacts \/ ClosePanel \/ Type \/ RetrySave \/ RestoreList  PROVE Shows
  BY <1>2, <1>21 DEF ShowContacts, ClosePanel, Type, RetrySave, RestoreList
<1>22. QED
  BY <1>4, <1>6, <1>7, <1>8, <1>9, <1>10, <1>11, <1>12, <1>13, <1>14, <1>15, <1>16, <1>17,
     <1>18, <1>19, <1>20, <1>21, PageSteps

LEMMA ScreenStep ==
  ASSUME NEW W, Grounds(W), OutreachStep, workspace = "apply", ScreenInv
  PROVE  ScreenInv'
<1>1. Shows /\ \A k \in calls' : IsAnswered(k)
  BY ShowsStep, AnsweredStep
<1>2. \A k \in calls' : k.op # "track"
  BY <1>1 DEF IsAnswered
<1>3. CASE Reload
  <2>1. contacts' = {} /\ contact' = None /\ \A p \in PostIds : work'[p].stage = "idle"
    BY <1>3 DEF Reload, Idle
  <2>2. \A k \in calls' : k.op # "list"
    <3>1. PICK open : open = {c \in calls : c.op \in Updates /\ c.answer = "none"}
      OBVIOUS
    <3>2. calls' = Outdated(Updates, open)
      BY <1>3, <3>1 DEF Reload
    <3>3. \A k \in open : k \in Call /\ k.op # "list"
      BY <3>1 DEF Grounds, TypesOver, CallTypes, CallFits, Updates
    <3>4. ASSUME NEW k \in calls'  PROVE k.op # "list"
      <4>1. PICK l \in open : k = l \/ k = [l EXCEPT !.current = FALSE]
        BY <3>2, OutdatedIs
      <4>2. k.op = l.op
        BY <3>3, <4>1 DEF Call
      <4>3. QED  BY <3>3, <4>2
    <3>5. QED  BY <3>4
  <2>3. QED  BY <1>2, <2>1, <2>2 DEF ScreenInv
<1>4. CASE ~ Reload /\ \E k \in calls : Removed(k) /\ ~ Reading
  <2>1. PICK k \in calls : Removed(k) /\ ~ Reading
    BY <1>4
  <2>2. /\ calls' = calls \ {k} /\ work' = work /\ loading = FALSE
        /\ contacts' = {c \in contacts : c.id # k.id}
    BY <2>1 DEF Removed, results, Reading, Grounds, TypesOver, PageTypes
  <2>3. \A p \in PostIds : work'[p].stage = "idle"
    BY <2>1, <2>2 DEF Reading, Idle
  <2>4. \A l \in calls' : ~ (l.op = "list" /\ l.current)
    BY <2>2 DEF Grounds, CurrentInv
  <2>5. ASSUME NEW c \in contacts'  PROVE Lives(c.id)'
    <3>1. c.id # k.id /\ Lives(c.id)
      BY <1>1, <2>2 DEF Shows
    <3>2. \A l \in calls : Removed(l) => l = k
      BY <2>1 DEF Removed, Updates, Grounds, CurrentInv
    <3>3. QED  BY <1>4, <3>1, <3>2, LivesOn
  <2>6. QED  BY <1>1, <1>2, <2>3, <2>4, <2>5 DEF ScreenInv, Shows
<1>5. CASE ~ Reload /\ ~ \E k \in calls : Removed(k) /\ ~ Reading
  <2>1. \A id : Lives(id) => Lives(id)'
    BY <1>5, LivesOn
  <2>2. ASSUME NEW p \in PostIds, work'[p].stage = "saved", NEW id, id = work'[p].got.id
        PROVE  Lives(id)'
    BY <2>1, <2>2, SavedStep
  <2>3. \A p \in PostIds : work'[p].stage = "saved" =>
          \A id : id = work'[p].got.id => Lives(id)'
    BY <2>2
  <2>4. \A k \in calls' : k.op = "list" /\ k.current => \A c \in k.got : Lives(c.id)'
    BY <1>1, <2>1 DEF IsAnswered
  <2>5. \A c \in contacts' : c.post = postId' /\ Lives(c.id)'
    BY <1>1, <2>1 DEF Shows
  <2>6. (\A p \in PostIds : work[p].stage = "saved" => Lives(work[p].got.id))'
    BY <2>3 DEF Lives
  <2>7. (\A k \in calls : k.op = "list" /\ k.current => \A c \in k.got : Lives(c.id))'
    BY <2>4 DEF Lives
  <2>8. QED  BY <1>1, <1>2, <2>5, <2>6, <2>7 DEF ScreenInv, Shows
<1>6. QED  BY <1>3, <1>4, <1>5

-----------------------------------------------------------------------------
(* The invariant holds.                                                    *)

LEMMA OutreachStarts ==
  ASSUME OutreachInit
  PROVE  OutreachInv
<1>1. PICK start \in Starts :
        /\ workspace = start.workspace
        /\ saved = start.saved /\ created = Cardinality(saved) /\ spent = start.spent
  BY DEF OutreachInit
<1>2. /\ workspace \in {"apply", "track"}
      /\ saved \subseteq Contact /\ created \in 0 .. MaxContacts
      /\ \A c \in saved : c.id <= created
      /\ \A c, d \in saved : c.id = d.id \/ (c.post = d.post /\ c.person = d.person) => c = d
      /\ spent \subseteq TaskIds
      /\ \A c \in saved : c.draft \in Revisions => c.draft \in spent
  BY <1>1, StartsAssumption
<1>3. DOMAIN sessions = {}
  BY DEF OutreachInit
<1>4. /\ orphans = {} /\ overtaken = {} /\ calls = {}
      /\ queues = [p \in PostIds |-> <<>>] /\ work = [p \in PostIds |-> Idle]
      /\ postId = None /\ selected = None /\ contacts = {} /\ contact = None
      /\ draft = None /\ updating = FALSE /\ loading = FALSE /\ returnPost = None
      /\ entries = None /\ overlapped = {}
  BY DEF OutreachInit
<1>5. TypesOver(Words)
  <2>1. ServerTypes(Words)
    BY <1>2, <1>3, <1>4 DEF ServerTypes, Rows, Words, Contact
  <2>2. SessionTypes(Words)
    BY <1>2, <1>3 DEF SessionTypes
  <2>3. WorkTypes(Words)
    <3>1. Idle \in Works(Words) /\ Idle.stage = "idle"
      BY DEF Idle, Works, Stages
    <3>2. <<>> \in Seq(Entries)
      OBVIOUS
    <3>3. QED  BY <1>4, <3>1, <3>2 DEF WorkTypes
  <2>4. CallTypes(Words)
    BY <1>4 DEF CallTypes
  <2>5. PageTypes(Words)
    <3>1. None \in Words
      BY WordsAreVocabulary DEF Vocabulary
    <3>2. QED  BY <1>4, <3>1 DEF PageTypes
  <2>6. QED  BY <1>2, <2>1, <2>2, <2>3, <2>4, <2>5 DEF TypesOver
<1>6. SavingInv
  <2>1. ASSUME NEW p \in PostIds  PROVE QueueInv(p) /\ WorkInv(p)
    <3>1. queues[p] = <<>> /\ Len(queues[p]) = 0 /\ work[p].stage = "idle"
      BY <1>4 DEF Idle
    <3>2. QED  BY <3>1 DEF QueueInv, WorkInv
  <2>2. QED  BY <1>3, <2>1 DEF SavingInv
<1>7. OpenInv
  BY <1>3, <1>4 DEF OpenInv
<1>8. PersonInv
  <2>1. \A p \in PostIds : work[p].stage # "create"
    BY <1>4 DEF Idle
  <2>2. QED  BY <1>2, <1>4, <2>1 DEF PersonInv, PersonSavedOnce
<1>9. CurrentInv
  BY <1>4 DEF CurrentInv
<1>10. ScreenInv
  <2>1. \A p \in PostIds : work[p].stage # "saved"
    BY <1>4 DEF Idle
  <2>2. QED  BY <1>4, <2>1 DEF ScreenInv
<1>11. QED  BY <1>5, <1>6, <1>7, <1>8, <1>9, <1>10 DEF OutreachInv

LEMMA OutreachStays ==
  ASSUME OutreachInv, UNCHANGED outreachVars
  PROVE  OutreachInv'
<1> USE DEF outreachVars, server, results, page
<1>1. UNCHANGED <<sessions, spent>> /\ Words' = Words
  BY DEF Words
<1>2. TypesOver(Words)'
  <2>1. PICK W : W = Words
    OBVIOUS
  <2>2. TypesOver(W) /\ Words' = W
    BY <1>1, <2>1 DEF OutreachInv
  <2>3. ServerTypes(W)' /\ SessionTypes(W)' /\ WorkTypes(W)'
    BY <2>2 DEF TypesOver, ServerTypes, SessionTypes, WorkTypes
  <2>4. CallTypes(W)' /\ PageTypes(W)' /\ workspace' \in {"apply", "track"}
    BY <2>2 DEF TypesOver, CallTypes, PageTypes
  <2>5. TypesOver(W)'
    BY <2>3, <2>4 DEF TypesOver
  <2>6. QED  BY <2>2, <2>5
<1>3. SavingInv'
  BY DEF OutreachInv, SavingInv, QueueInv, WorkInv, WaitingInv, IsQueued, Saving, First
<1>4. OpenInv' /\ CurrentInv'
  BY DEF OutreachInv, OpenInv, CurrentInv
<1>5. PersonInv'
  BY DEF OutreachInv, PersonInv, PersonSavedOnce, First
<1>6. workspace' = "apply" => ScreenInv'
  BY DEF OutreachInv, ScreenInv, Lives
<1>7. QED  BY <1>2, <1>3, <1>4, <1>5, <1>6 DEF OutreachInv

LEMMA OutreachGoesOn ==
  ASSUME OutreachInv, OutreachNext
  PROVE  OutreachInv'
<1>1. PICK W : W = Words
  OBVIOUS
<1>2. Grounds(W) /\ OutreachStep /\ workspace' = workspace
  BY <1>1, WordsAreVocabulary DEF OutreachInv, Grounds, OutreachNext
<1>3. TypesOver(Words)'
  BY TypesStep DEF OutreachInv
<1>4. SavingInv' /\ CurrentInv'
  BY <1>2, SavingStep, CurrentStep
<1>5. OpenInv'
  <2>1. selected' \in DOMAIN sessions' \union {None}
    BY <1>3 DEF TypesOver, PageTypes
  <2>2. QED  BY <1>2, <2>1, OpenStep DEF OutreachInv
<1>6. PersonInv'
  BY <1>2, PersonStep DEF OutreachInv
<1>7. workspace' = "apply" => ScreenInv'
  BY <1>2, ScreenStep DEF OutreachInv
<1>8. QED  BY <1>3, <1>4, <1>5, <1>6, <1>7 DEF OutreachInv

\* The invariant of the Outreach store, of which the properties below are
\* parts or consequences.
THEOREM OutreachInvariant == OutreachSpec => []OutreachInv
<1>1. OutreachInit => OutreachInv
  BY OutreachStarts
<1>2. OutreachInv /\ [OutreachNext]_outreachVars => OutreachInv'
  BY OutreachStays, OutreachGoesOn
<1>3. QED  BY <1>1, <1>2, PTL DEF OutreachSpec

-----------------------------------------------------------------------------
(* What follows.                                                           *)

\* Every variable keeps its type, as far as a run checks it and further: a
\* draft that is saved or edited is not one of a task that still has its
\* session.
THEOREM OutreachTypeCorrect == OutreachSpec => []OutreachTypeOK
<1>1. ASSUME OutreachInv  PROVE OutreachTypeOK
  <2>1. PICK W : W = Words
    OBVIOUS
  <2>2. TypesOver(W) /\ W \subseteq Text \union {None}
    BY <1>1, <2>1 DEF OutreachInv, Words
  <2>3. Rows(W) \subseteq Contact
    BY DEF Rows
  <2>4. /\ saved \subseteq Contact /\ created \in 0 .. MaxContacts
        /\ orphans \union overtaken \subseteq [post : PostIds, person : People]
    BY <2>2, <2>3 DEF TypesOver, ServerTypes, PeopleOfPosts
  <2>5. /\ DOMAIN sessions \subseteq spent /\ spent \subseteq TaskIds
        /\ \A t \in DOMAIN sessions : sessions[t] \in Session
    BY <2>2 DEF TypesOver, SessionTypes, Fits
  <2>6. /\ queues \in [PostIds -> Seq([task : Discoveries, person : People \union {None}])]
        /\ \A p \in PostIds :
             /\ work[p].stage \in {"idle", "invalid", "list", "create", "saved", "error"}
             /\ work[p].got \in Contact \union {None}
    BY <2>2, <2>3 DEF TypesOver, WorkTypes, Works, Stages, Entries
  <2>7. calls \subseteq Call
    BY <2>2 DEF TypesOver, CallTypes, CallFits
  <2>8. PageTypes(W) /\ workspace \in {"apply", "track"}
    BY <2>2 DEF TypesOver
  <2>9. QED  BY <2>2, <2>3, <2>4, <2>5, <2>6, <2>7, <2>8 DEF OutreachTypeOK, PageTypes
<1>2. QED  BY <1>1, OutreachInvariant, PTL

\* A person is saved once for a post, however many discoveries return them
\* and however often a result is saved again, unless a page was reloaded
\* while it was creating the contact: results of a post are saved one after
\* the other, and each of them is looked up first.
THEOREM PeopleAreSavedOnce == OutreachSpec => []PersonSavedOnce
<1>1. OutreachInv => PersonSavedOnce
  BY DEF OutreachInv, PersonInv
<1>2. QED  BY <1>1, OutreachInvariant, PTL

\* What the Apply view shows is of the post that is open and still there, or
\* its removal is under way or was answered while contacts were being read;
\* the contact that is open is one of those that are listed.
THEOREM ShownContactsAreThere == OutreachSpec => []ShownContactsExist
<1>1. OutreachInv => ShownContactsExist
  BY DEF OutreachInv, ScreenInv, ShownContactsExist, Lives
<1>2. QED  BY <1>1, OutreachInvariant, PTL

\* No result is stuck, nor saved for two tasks at a time: a result that is
\* being saved waits in the queue of its post, each that waits is of one task,
\* which is being saved or was dismissed, and whatever is worked on is first
\* in a queue.
THEOREM ResultsGoOn == OutreachSpec => []ResultsProceed
<1>1. ASSUME OutreachInv  PROVE ResultsProceed
  <2>1. SavingInv /\ OpenInv
    BY <1>1 DEF OutreachInv
  <2>2. \A t \in DOMAIN sessions : Saving(t) => IsQueued(sessions[t].post, t)
    BY <2>1 DEF SavingInv, WaitingInv
  <2>3. \A p \in PostIds : QueueInv(p) /\ (work[p].stage # "idle" => queues[p] # <<>>)
    BY <2>1 DEF SavingInv, WorkInv
  <2>4. QED  BY <2>1, <2>2, <2>3 DEF ResultsProceed, OpenInv, QueueInv
<1>2. QED  BY <1>1, OutreachInvariant, PTL

\* A draft that a task revised is only put beside the contact it was revised
\* for: the only step that takes the text of a task that still has its
\* session is the one that ends it, with its contact on the screen.
THEOREM DraftsFitTheirContact == OutreachSpec => DraftFitsContact
<1>1. ASSUME OutreachInv, [OutreachNext]_outreachVars,
             NEW t \in Revisions \intersect DOMAIN sessions, draft' = t, draft # t
      PROVE  contact' # None /\ contact'.id = sessions[t].id
  <2>1. PICK W : W = Words
    OBVIOUS
  <2>2. Grounds(W) /\ OutreachStep
    <3>1. ~ UNCHANGED outreachVars
      BY <1>1 DEF outreachVars, page
    <3>2. QED  BY <1>1, <2>1, <3>1, WordsAreVocabulary DEF OutreachInv, Grounds, OutreachNext
  <2>3. t \notin W
    BY <2>1 DEF Words
  <2>4. ~ PageTypes(W)'
    BY <1>1, <2>3 DEF PageTypes
  <2>5. PICK u \in TaskIds : ApplyDraft(u)
    BY <2>2, <2>4, PageTypesStep
  <2>6. u \in Revisions \intersect DOMAIN sessions /\ contact # None /\ contact' = contact
    BY <2>5 DEF ApplyDraft
  <2>7. draft' = sessions[u].output /\ postId = sessions[u].post
          /\ contact.id = sessions[u].id
    BY <1>1, <2>5 DEF ApplyDraft
  <2>8. Fits(u, sessions[u], W)
    BY <2>2, <2>6 DEF Grounds, TypesOver, SessionTypes
  <2>9. sessions[u].output \in {None, u} /\ t # None
    BY <2>6, <2>8, OutreachAssumption DEF Fits, OutreachAssumption
  <2>10. u = t
    BY <1>1, <2>7, <2>9
  <2>11. QED  BY <2>6, <2>7, <2>10
<1>2. OutreachInv /\ [OutreachNext]_outreachVars =>
        [\A t \in Revisions \intersect DOMAIN sessions :
           draft' = t /\ draft # t =>
             contact' # None /\ contact'.id = sessions[t].id]_outreachVars
  BY <1>1
<1>3. QED  BY <1>2, OutreachInvariant, PTL DEF OutreachSpec, DraftFitsContact

=============================================================================
