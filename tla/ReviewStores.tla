----------------------------- MODULE ReviewStores ------------------------------
(***************************************************************************)
(* What the Review view shows of job posts: the post store (stores/post.ts)*)
(* with one canonical object per post, the lists that refer to it - posts  *)
(* the user added, and the results of the reports (stores/report.ts) - and *)
(* the import store (stores/job-post-import.ts), which saves what an Agent *)
(* task returns.                                                           *)
(*                                                                         *)
(* Requests are handled by the server in any order and answered in any     *)
(* order.  Of a post this module keeps its id and its revision, which      *)
(* stands for updatedAt and everything that changes with it.               *)
(***************************************************************************)
EXTENDS Naturals, FiniteSets, Functions

CONSTANTS
  Keys,         \* source keys; an import's URL leads to one of them
  MaxPosts,     \* bound: posts the server ever creates
  MaxRequests,  \* bound: requests the page ever makes
  MaxImports,   \* bound: Agent tasks that are ever started
  Missing       \* null

ASSUME ReviewAssumption ==
  MaxPosts \in Nat \ {0} /\ MaxRequests \in Nat /\ MaxImports \in Nat

VARIABLES
  rows,       \* the server's posts, by id
  lastId,     \* the id it gave last
  posts,      \* the canonical posts: the revision of each, by id
  added,      \* userAddedPosts
  reports,    \* posts in the results of the reports that are loaded
  mutations,  \* userAddedMutationRevisions
  mutation,   \* userAddedMutationRevision
  removing,   \* postRemoving
  session,    \* the import's session in the Agent store, with its task
  saving, retryMode,
  requests,   \* requests under way
  made, imports,
  late        \* history: posts removed while the answer to an import that may
              \* carry them was on its way

serverVars == <<rows, lastId>>
postStore == <<posts, added, mutations, mutation>>
importStore == <<session, saving, retryMode>>
reviewVars == <<serverVars, postStore, reports, removing, importStore, requests, made,
                imports, late>>

PostIdentifiers == 1 .. MaxPosts
Revision == 0 .. MaxRequests + MaxPosts

Row == [key : Keys, revision : Revision, added : BOOLEAN, reported : BOOLEAN]

Item == [id : PostIdentifiers, revision : Revision]

Import == [key : Keys, valid : BOOLEAN, number : 1 .. MaxImports,
           status : {"running", "completed", "failed", "cancelled"}]

\* null is none of the values it stands beside.
ASSUME MissingAssumption ==
  Missing \notin Import /\ Missing \notin PostIdentifiers /\ Missing \notin {"save", "task"}

\* since: the mutation revision when a list was asked for; import: the task
\* whose result is saved.
ReviewRequest == [op : {"list", "reports", "label", "remove", "add"},
                  id : 0 .. MaxPosts, key : Keys \union {Missing}, since : Nat,
                  import : 0 .. MaxImports,
                  answer : {"none", "ok", "failed"}, got : SUBSET Item]

Send(op, id, key, import) ==
  /\ made < MaxRequests
  /\ made' = made + 1
  /\ requests' = requests \union
       {[op |-> op, id |-> id, key |-> key, since |-> mutation, import |-> import,
         answer |-> "none", got |-> {}]}

ItemOf(id, table) == [id |-> id, revision |-> table[id].revision]
IdsOf(items) == {i.id : i \in items}
TableWith(table, id, value) ==
  [i \in DOMAIN table \union {id} |-> IF i = id THEN value ELSE table[i]]

-----------------------------------------------------------------------------
(* The server.                                                             *)

Upserted(key) ==
  LET own == {id \in DOMAIN rows : rows[id].key = key}
      id == IF own = {} THEN lastId + 1 ELSE CHOOSE i \in own : TRUE
      row == IF own = {}
             THEN [key |-> key, revision |-> 1, added |-> TRUE, reported |-> FALSE]
             ELSE [rows[id] EXCEPT !.revision = @ + 1, !.added = TRUE]
  IN  [id |-> id, rows |-> TableWith(rows, id, row)]

Answered(k, answer, got) ==
  requests' = (requests \ {k}) \union {[k EXCEPT !.answer = answer, !.got = got]}

\* A request is handled: lists read, a label or an import saves, a removal
\* deletes the post with its results.
Serve(k) ==
  /\ k \in requests /\ k.answer = "none"
  /\ \/ /\ k.op = "list" /\ UNCHANGED serverVars
        /\ Answered(k, "ok", {ItemOf(id, rows) : id \in {i \in DOMAIN rows : rows[i].added}})
     \/ /\ k.op = "reports" /\ UNCHANGED serverVars
        /\ Answered(k, "ok", {ItemOf(id, rows) : id \in {i \in DOMAIN rows : rows[i].reported}})
     \/ /\ k.op = "label" /\ k.id \in DOMAIN rows
        /\ rows' = [rows EXCEPT ![k.id].revision = @ + 1]
        /\ Answered(k, "ok", {ItemOf(k.id, rows')})
        /\ UNCHANGED lastId
     \/ /\ k.op = "remove" /\ k.id \in DOMAIN rows /\ rows[k.id].added
        /\ rows' = Restrict(rows, DOMAIN rows \ {k.id})
        /\ Answered(k, "ok", {})
        /\ UNCHANGED lastId
     \/ LET new == Upserted(k.key) IN
        /\ k.op = "add" /\ new.id \in PostIdentifiers
        /\ rows' = new.rows
        /\ lastId' = IF new.id > lastId THEN new.id ELSE lastId
        /\ Answered(k, "ok", {ItemOf(new.id, rows')})
     \/ Answered(k, "failed", {}) /\ UNCHANGED serverVars
  /\ UNCHANGED <<postStore, reports, removing, importStore, made, imports, late>>

-----------------------------------------------------------------------------
(* The post store and the reports.                                         *)

\* Mutant of Merged: the answer that comes last is kept.
MergedLast(items) ==
  [id \in DOMAIN posts \union IdsOf(items) |->
     IF id \in IdsOf(items) THEN (CHOOSE i \in items : i.id = id).revision ELSE posts[id]]

\* savePost: an answer never replaces a later revision.
Merged(items) ==
  [id \in DOMAIN posts \union IdsOf(items) |->
     LET new == {i.revision : i \in {j \in items : j.id = id}}
         old == IF id \in DOMAIN posts THEN {posts[id]} ELSE {}
     IN  CHOOSE r \in new \union old : \A s \in new \union old : s <= r]

Load(op) ==
  /\ op \in {"list", "reports"}
  /\ Send(op, 0, Missing, 0)
  /\ UNCHANGED <<serverVars, postStore, reports, removing, importStore, imports, late>>

\* updatePost, of a post that is shown.
Label(id) ==
  /\ id \in added \union reports
  /\ Send("label", id, Missing, 0)
  /\ UNCHANGED <<serverVars, postStore, reports, removing, importStore, imports, late>>

\* removeUserAddedPost: one at a time.
RemovePost(id) ==
  /\ id \in added /\ removing = Missing
  /\ removing' = id
  /\ Send("remove", id, Missing, 0)
  /\ UNCHANGED <<serverVars, postStore, reports, importStore, imports, late>>

Receive(k, op) == k \in requests /\ k.op = op /\ k.answer = "ok" /\ requests' = requests \ {k}

\* Mutant of ChangedSince: the list that was answered is the list.
ChangedNever(since) == {}

\* Posts that were added or removed after the list was asked for.
ChangedSince(since) == {id \in DOMAIN mutations : mutations[id] > since}

\* replaceUserAddedPosts.
ListAnswered(k) ==
  /\ Receive(k, "list")
  /\ added' = (IdsOf(k.got) \ ChangedSince(k.since)) \union (added \intersect ChangedSince(k.since))
  /\ posts' = Merged({i \in k.got : i.id \notin ChangedSince(k.since)})
  /\ UNCHANGED <<serverVars, mutations, mutation, reports, removing, importStore, made,
                 imports, late>>

\* fetchReports.
ReportsAnswered(k) ==
  /\ Receive(k, "reports")
  /\ reports' = IdsOf(k.got)
  /\ posts' = Merged(k.got)
  /\ UNCHANGED <<serverVars, added, mutations, mutation, removing, importStore, made,
                 imports, late>>

LabelAnswered(k) ==
  /\ Receive(k, "label")
  /\ posts' = Merged(k.got)
  /\ UNCHANGED <<serverVars, added, mutations, mutation, reports, removing, importStore,
                 made, imports, late>>

Mutated(id) ==
  /\ mutation' = mutation + 1
  /\ mutations' = TableWith(mutations, id, mutation + 1)

\* The post leaves the store and the results of the reports.
RemoveAnswered(k) ==
  /\ Receive(k, "remove")
  /\ Mutated(k.id)
  /\ added' = added \ {k.id}
  /\ posts' = Restrict(posts, DOMAIN posts \ {k.id})
  /\ reports' = reports \ {k.id}
  /\ late' = IF \E r \in requests : r.op = "add" THEN late \union {k.id} ELSE late
  /\ removing' = Missing
  /\ UNCHANGED <<serverVars, importStore, made, imports>>

\* A failure is shown; nothing else changes.
RequestFailed(k) ==
  /\ k \in requests /\ k.answer = "failed" /\ k.op # "add"
  /\ requests' = requests \ {k}
  /\ removing' = IF k.op = "remove" THEN Missing ELSE removing
  /\ UNCHANGED <<serverVars, postStore, reports, importStore, made, imports, late>>

-----------------------------------------------------------------------------
(* The import store.                                                       *)

\* Of Busy, and a mutant of it: a save is not part of an import.
BusyRunning == session # Missing /\ session.status = "running"

Busy == saving \/ BusyRunning

\* startImport: a new import takes the place of one that is over.
StartImport(key) ==
  /\ ~ Busy /\ imports < MaxImports
  /\ imports' = imports + 1
  /\ session' = [key |-> key, valid |-> FALSE, number |-> imports + 1, status |-> "running"]
  /\ retryMode' = Missing
  /\ UNCHANGED <<serverVars, postStore, reports, removing, saving, requests, made, late>>

\* The task ends, with a result that is valid or not.
ImportEnds(status, valid) ==
  /\ session # Missing /\ session.status = "running"
  /\ status \in {"completed", "failed", "cancelled"}
  /\ valid => status = "completed"
  /\ session' = [session EXCEPT !.status = status, !.valid = valid]
  /\ UNCHANGED <<serverVars, postStore, reports, removing, saving, retryMode, requests, made,
                 imports, late>>

\* processingTaskId.
Processing(number) == \E k \in requests : k.op = "add" /\ k.import = number

\* handleTask, when the watch sees that the task has ended or when the save is
\* retried: saveImportedPost asks the server to add the post.
HandleTask ==
  /\ session # Missing /\ session.status # "running" /\ ~ Processing(session.number)
  /\ retryMode \in {Missing, "save"}
  /\ IF session.valid
     THEN /\ saving' = TRUE /\ retryMode' = "save"
          /\ Send("add", 0, session.key, session.number)
     ELSE retryMode' = "task" /\ UNCHANGED <<saving, requests, made>>
  /\ UNCHANGED <<serverVars, postStore, reports, removing, session, imports, late>>

\* retry, of a task that did not return a post: it runs again.
RetryImport ==
  /\ session # Missing /\ ~ Busy /\ retryMode = "task" /\ imports < MaxImports
  /\ imports' = imports + 1
  /\ session' = [session EXCEPT !.status = "running", !.valid = FALSE, !.number = imports + 1]
  /\ retryMode' = Missing
  /\ UNCHANGED <<serverVars, postStore, reports, removing, saving, requests, made, late>>

\* dismissFailedTasks, on a navigation.  finishTask takes every import that is
\* over for one not to be remembered: it expects the post itself where the task
\* returns an object that holds it.  A save goes on without the session.
DismissImport ==
  /\ session # Missing /\ session.status # "running"
  /\ session' = Missing
  /\ UNCHANGED <<serverVars, postStore, reports, removing, saving, retryMode, requests,
                 made, imports, late>>

\* clearRestoredCancellation, when the Review view is opened.
ClearCancellation ==
  /\ session # Missing /\ session.status = "cancelled"
  /\ session' = Missing /\ retryMode' = Missing
  /\ UNCHANGED <<serverVars, postStore, reports, removing, saving, requests, made, imports,
                 late>>

\* Mutant of SaveEnds: a save whose session was dismissed does not end.
SaveEndsWithSession(k) ==
  saving' = (saving /\ (session = Missing \/ session.number # k.import))

\* A save is over, which is shown unless a later import has been started.
SaveEnds(k) == saving' = (saving /\ k.import # imports)

\* saveUserAddedPost, then the session of the import, if it is still there, is
\* dismissed.
AddAnswered(k) ==
  /\ Receive(k, "add")
  /\ LET id == CHOOSE i \in IdsOf(k.got) : TRUE IN
       /\ Mutated(id)
       /\ added' = added \union {id}
  /\ posts' = Merged(k.got)
  /\ session' = IF session # Missing /\ session.number = k.import THEN Missing ELSE session
  /\ SaveEnds(k)
  /\ UNCHANGED <<serverVars, reports, removing, retryMode, made, imports, late>>

\* The result stays with its session, if that is still there, and can be saved
\* again.
AddFailed(k) ==
  /\ k \in requests /\ k.answer = "failed" /\ k.op = "add"
  /\ requests' = requests \ {k}
  /\ SaveEnds(k)
  /\ UNCHANGED <<serverVars, postStore, reports, removing, session, retryMode, made, imports,
                 late>>

-----------------------------------------------------------------------------
(* The specification.                                                      *)

\* The database holds one post of a report, which a user may have imported too;
\* how many requests are left of the bound is open.
ReviewInit ==
  /\ \E key \in Keys, isAdded \in BOOLEAN :
       rows = [id \in {1} |-> [key |-> key, revision |-> 1, added |-> isAdded,
                               reported |-> TRUE]]
  /\ lastId = 1
  /\ posts = <<>> /\ added = {} /\ reports = {}
  /\ mutations = <<>> /\ mutation = 0
  /\ removing = Missing
  /\ session = Missing /\ saving = FALSE /\ retryMode = Missing
  /\ requests = {} /\ made \in 0 .. MaxRequests /\ imports = 0
  /\ late = {}

Answers(k) ==
  \/ Serve(k) \/ ListAnswered(k) \/ ReportsAnswered(k) \/ LabelAnswered(k)
  \/ RemoveAnswered(k) \/ RequestFailed(k) \/ AddAnswered(k) \/ AddFailed(k)

ReviewNext ==
  \/ \E op \in {"list", "reports"} : Load(op)
  \/ \E id \in PostIdentifiers : Label(id) \/ RemovePost(id)
  \/ \E key \in Keys : StartImport(key)
  \/ \E status \in {"completed", "failed", "cancelled"}, valid \in BOOLEAN :
       ImportEnds(status, valid)
  \/ HandleTask \/ RetryImport \/ DismissImport \/ ClearCancellation
  \/ \E k \in requests : Answers(k)

ReviewSpec == ReviewInit /\ [][ReviewNext]_reviewVars

-----------------------------------------------------------------------------
(* Properties.                                                             *)

(* What the lists refer to is a canonical post (post.ts:28), also when a   *)
(* post is removed while it is shown in both.                              *)
ReviewTypeOK ==
  /\ DOMAIN rows \subseteq PostIdentifiers /\ rows \in [DOMAIN rows -> Row]
  /\ DOMAIN posts \subseteq PostIdentifiers /\ posts \in [DOMAIN posts -> Revision]
  /\ added \union reports \subseteq DOMAIN posts
  /\ DOMAIN mutations \subseteq PostIdentifiers
  /\ \A id \in DOMAIN mutations : mutations[id] \in 1 .. mutation
  /\ removing \in PostIdentifiers \union {Missing}
  /\ session \in Import \union {Missing}
  /\ saving \in BOOLEAN /\ retryMode \in {"save", "task", Missing}
  /\ requests \subseteq ReviewRequest

(* The page follows the server however late an answer is.  No answer takes *)
(* a post back to an earlier revision (post.ts:36: "Equal or older         *)
(* responses cannot replace a canonical revision already in memory"); a    *)
(* post leaves the added ones only when the server has deleted it, or      *)
(* while the answer that adds it is on its way; and one that was deleted   *)
(* enters them only while the answer to its removal is on its way, or with *)
(* an import that was under way (post.ts:66-83).                           *)
PostsFollowServer ==
  [][/\ \A id \in DOMAIN posts \intersect DOMAIN posts' : posts'[id] >= posts[id]
     /\ \A id \in added \ added' :
          id \in DOMAIN rows => \E k \in requests : k.op = "add" /\ id \in IdsOf(k.got)
     /\ \A id \in added' \ added :
          \/ id \in DOMAIN rows \/ id \in late
          \/ \E k \in requests : k.op = "remove" /\ k.id = id]_reviewVars

(* One result is saved at a time, and to the end, also when a navigation   *)
(* has dismissed its session meanwhile (job-post-import.ts:121-144): the   *)
(* import store is saving exactly while the server has yet to answer for   *)
(* the latest import, so that it is not busy for ever, and no import       *)
(* begins that the answer to an earlier one would end.  A session that is  *)
(* there is then the one whose result is saved; and a valid result that    *)
(* could not be saved is saved again and not replaced by that of another   *)
(* task (job-post-import.ts:258).                                          *)
OneSaveAtATime ==
  LET adds == {k \in requests : k.op = "add"} IN
  /\ saving <=> adds # {}
  /\ \A k \in adds :
       /\ k.import = imports /\ \A l \in adds : l = k
       /\ session # Missing =>
            session.number = imports /\ session.valid /\ session.key = k.key
  /\ session # Missing /\ session.valid => retryMode # "task"

=============================================================================
