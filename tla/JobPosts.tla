-------------------------------- MODULE JobPosts --------------------------------
(***************************************************************************)
(* The server's transactions on job posts and search reports               *)
(* (db/repositories/job-post.repository.ts, search-report.repository.ts,   *)
(* lock-job-post-identities.ts) over Postgres under READ COMMITTED.        *)
(*                                                                         *)
(* A call is a transaction.  Importing a post or storing a report locks    *)
(* the identity tokens of its posts one at a time, in a fixed order; a     *)
(* report that must be net-new then reads all posts.  What a transaction   *)
(* writes is seen by others when it commits; until then the rows it has    *)
(* written are locked.  Removing an imported post takes no identity lock.  *)
(* Any transaction may fail at any point (the connection, its five seconds,*)
(* a deadlock resolved against it) and is then rolled back.                *)
(***************************************************************************)
EXTENDS JobListings

CONSTANTS
  Reports,        \* report identifiers
  Calls,          \* requests, each made once
  TokenRank,      \* the order of the sorted tokens: an injection into Nat
  EarlierPosts,   \* bound: posts that may be stored when the calls begin
  EarlierReports  \* bound: reports that may be stored then

Tokens == UNION {IdentityTokens[p] : p \in Posts}

ASSUME TokenRankAssumption ==
  /\ TokenRank \in [Tokens -> Nat]
  /\ \A x, y \in Tokens : TokenRank[x] = TokenRank[y] => x = y

ASSUME EarlierAssumption == EarlierPosts \subseteq Posts /\ EarlierReports \subseteq Reports

VARIABLES
  rows,       \* rows[k]: the post stored under source key k, or NoPost
  results,    \* results[r]: source keys of the posts report r recommends
  reported,   \* history: the stored posts r has recommended so far
  userAdded,  \* source keys of the posts a user has imported
  calls       \* calls[c]: the transaction of call c

database == <<rows, results, reported, userAdded>>
postVars == <<database, calls>>

Steps == {"new", "lock", "check", "claim", "write", "delete", "cascade", "done"}

Outcomes == {"none", "stored", "net-new", "conflict", "removed", "absent", "failed"}

Call == [kind : {"none", "import", "report", "netnew", "remove"},
         step : Steps,
         report : Reports \union {NoId},
         posts : SUBSET Posts,       \* the posts it was sent
         locks : SUBSET Tokens,      \* advisory locks it holds
         own : SUBSET Keys,          \* sameReportSourceKeys; of a removal, its row
         written : SUBSET Posts,     \* posts whose row it has written
         outcome : Outcomes]

NewCall == [kind |-> "none", step |-> "new", report |-> NoId, posts |-> {},
            locks |-> {}, own |-> {}, written |-> {}, outcome |-> "none"]

Stored(k) == rows[k] # NoPost

PostsInit ==
  /\ rows \in [Keys -> EarlierPosts \union {NoPost}]
  /\ \A k \in Keys : Stored(k) => rows[k].sourceKey = k
  /\ results \in [Reports -> SUBSET {k \in Keys : Stored(k)}]
  /\ \A r \in Reports \ EarlierReports : results[r] = {}
  /\ reported = results
  /\ userAdded \in SUBSET {k \in Keys : Stored(k)}
  /\ calls = [c \in Calls |-> NewCall]

At(c, step) == calls[c].step = step
Others(c) == Calls \ {c}
TokensOf(c) == UNION {IdentityTokens[p] : p \in calls[c].posts}

\* The end of a transaction releases everything it holds.
Finish(c, outcome) ==
  calls' = [calls EXCEPT ![c] = [NewCall EXCEPT !.step = "done", !.outcome = outcome]]

Advance(c, step) ==
  /\ calls' = [calls EXCEPT ![c].step = step]
  /\ UNCHANGED database

-----------------------------------------------------------------------------
(* Requests.                                                               *)

Request(c, kind, step, report, posts, own) ==
  /\ At(c, "new")
  /\ calls' = [calls EXCEPT ![c] = [NewCall EXCEPT !.kind = kind, !.step = step,
                              !.report = report, !.posts = posts, !.own = own]]
  /\ UNCHANGED database

RequestImport(c, p) == Request(c, "import", "lock", NoId, {p}, {})

RequestReport(c, r, input, guarded) ==
  Request(c, IF guarded THEN "netnew" ELSE "report",
          IF input = {} THEN IF guarded THEN "check" ELSE "claim" ELSE "lock", r, input, {})

\* The client names a row it has been shown.
RequestRemoval(c, k) ==
  Stored(k) /\ Request(c, "remove", "delete", NoId, {}, {k})

-----------------------------------------------------------------------------
(* lockJobPostIdentities.                                                  *)

AfterLocks(kind) ==
  CASE kind = "import" -> "write" [] kind = "report" -> "claim" [] OTHER -> "check"

Waiting(c) == TokensOf(c) \ calls[c].locks

\* Mutant of NextTokens: the tokens are locked as the posts list them.
UnsortedTokens(c) == Waiting(c)

NextTokens(c) ==
  {x \in Waiting(c) : \A y \in Waiting(c) : TokenRank[x] <= TokenRank[y]}

Lock(c) ==
  /\ At(c, "lock")
  /\ \E x \in NextTokens(c) :
       /\ \A d \in Others(c) : x \notin calls[d].locks
       /\ calls' = [calls EXCEPT ![c].locks = @ \union {x},
                      ![c].step = IF Waiting(c) = {x} THEN AfterLocks(calls[c].kind) ELSE @]
  /\ UNCHANGED database

-----------------------------------------------------------------------------
(* upsertNetNewById: the check.                                            *)

SameReportKeys(c) == results[calls[c].report]

ReservedTokens(c) ==
  UNION {IdentityTokens[rows[k]] :
           k \in {l \in Keys : Stored(l) /\ ~ (l \in KeysOf(calls[c].posts)
                                                /\ l \in SameReportKeys(c))}}

\* A post conflicts with a reserved token or with a post listed before it;
\* whether any does is independent of the order.
Conflicts(c) ==
  {p \in calls[c].posts :
     \/ IdentityTokens[p] \intersect ReservedTokens(c) # {}
     \/ \E q \in calls[c].posts \ {p} : SameJob(p, q)}

Check(c) ==
  /\ At(c, "check")
  /\ IF Conflicts(c) # {}
     THEN Finish(c, "conflict")
     ELSE calls' = [calls EXCEPT ![c].step = "claim", ![c].own = SameReportKeys(c)]
  /\ UNCHANGED database

-----------------------------------------------------------------------------
(* persistReport and upsertUserAdded: the writes.                          *)

\* A transaction between its claim and its end holds the rows of its report
\* and of its results.
Claims(d, r) == At(d, "write") /\ calls[d].report = r

\* createMany and update of the report, deleteMany of its results
Claim(c) ==
  /\ At(c, "claim")
  /\ \A d \in Others(c) : ~ Claims(d, calls[c].report)
  /\ Advance(c, "write")

\* A removal holds the row it has deleted.
Removes(d, k) == At(d, "cascade") /\ k \in calls[d].own

\* In a guarded report, update of a post of the same report fails if it was
\* removed since, and create of another one if it has been inserted since.
Write(c, p) ==
  /\ At(c, "write")
  /\ p \in calls[c].posts \ calls[c].written
  /\ \A d \in Others(c) : ~ Removes(d, p.sourceKey)
  /\ UNCHANGED database
  /\ IF calls[c].kind = "netnew" /\ Stored(p.sourceKey) # (p.sourceKey \in calls[c].own)
     THEN Finish(c, IF Stored(p.sourceKey) THEN "conflict" ELSE "failed")
     ELSE calls' = [calls EXCEPT ![c].written = @ \union {p}]

Commit(c) ==
  /\ At(c, "write")
  /\ calls[c].written = calls[c].posts
  /\ rows' = Upserted(rows, calls[c].posts)
  /\ IF calls[c].kind = "import"
     THEN /\ userAdded' = userAdded \union KeysOf(calls[c].posts)
          /\ UNCHANGED <<results, reported>>
     ELSE /\ results' = [results EXCEPT ![calls[c].report] = KeysOf(calls[c].posts)]
          /\ reported' = [reported EXCEPT ![calls[c].report] = @ \union KeysOf(calls[c].posts)]
          /\ UNCHANGED userAdded
  /\ Finish(c, IF calls[c].kind = "netnew" THEN "net-new" ELSE "stored")

-----------------------------------------------------------------------------
(* removeUserAdded.                                                        *)

\* Mutant of Removable: a post that only reports have stored is removed too.
RemovableUnasked(c) == \E k \in calls[c].own : Stored(k)

\* The row is there, and is one a user has imported.
Removable(c) == calls[c].own \intersect userAdded # {}

\* DELETE waits for a row another transaction has written or deleted.
Delete(c) ==
  /\ At(c, "delete")
  /\ \A d \in Others(c) : \A k \in calls[c].own :
       /\ ~ Removes(d, k)
       /\ At(d, "write") => k \notin KeysOf(calls[d].written)
  /\ IF Removable(c)
     THEN Advance(c, "cascade")
     ELSE Finish(c, "absent") /\ UNCHANGED database

\* Mutant of Cascade: reports go on listing the post.
CascadeUnreported(c) ==
  /\ At(c, "cascade")
  /\ rows' = [k \in Keys |-> IF k \in calls[c].own THEN NoPost ELSE rows[k]]
  /\ userAdded' = userAdded \ calls[c].own
  /\ Finish(c, "removed")
  /\ UNCHANGED <<results, reported>>

\* ON DELETE CASCADE waits for results another transaction has deleted.  The
\* row is then gone for good, for other removals too: a new row under its
\* source key has a new id.
Cascade(c) ==
  /\ At(c, "cascade")
  /\ \A d \in Others(c) : \A r \in Reports :
       Claims(d, r) => results[r] \intersect calls[c].own = {}
  /\ rows' = [k \in Keys |-> IF k \in calls[c].own THEN NoPost ELSE rows[k]]
  /\ results' = [r \in Reports |-> results[r] \ calls[c].own]
  /\ reported' = [r \in Reports |-> reported[r] \ calls[c].own]
  /\ userAdded' = userAdded \ calls[c].own
  /\ calls' = [d \in Calls |->
       IF d = c THEN [NewCall EXCEPT !.step = "done", !.outcome = "removed"]
       ELSE IF At(d, "delete") THEN [calls[d] EXCEPT !.own = @ \ calls[c].own]
       ELSE calls[d]]

Fail(c) ==
  /\ calls[c].step \notin {"new", "done"}
  /\ Finish(c, "failed")
  /\ UNCHANGED database

PostsNext ==
  \E c \in Calls :
    \/ \E p \in Posts : RequestImport(c, p) \/ Write(c, p)
    \/ \E r \in Reports, input \in Inputs, guarded \in BOOLEAN :
         RequestReport(c, r, input, guarded)
    \/ \E k \in Keys : RequestRemoval(c, k)
    \/ Lock(c) \/ Check(c) \/ Claim(c) \/ Commit(c)
    \/ Delete(c) \/ Cascade(c) \/ Fail(c)

PostsSpec == PostsInit /\ [][PostsNext]_postVars

-----------------------------------------------------------------------------
(* Properties.                                                             *)

PostsTypeOK ==
  /\ rows \in [Keys -> Posts \union {NoPost}]
  /\ results \in [Reports -> SUBSET {k \in Keys : Stored(k)}]
  /\ reported \in [Reports -> SUBSET {k \in Keys : Stored(k)}]
  /\ userAdded \in SUBSET {k \in Keys : Stored(k)}
  /\ calls \in [Calls -> Call]

WaitsFor(c, d) ==
  \/ At(c, "lock") /\ NextTokens(c) \intersect calls[d].locks # {}
  \/ At(c, "claim") /\ Claims(d, calls[c].report)

(* Transactions that lock identities never wait for one another in a ring: *)
(* in every group of them one is not waiting for another of the group      *)
(* (lock-job-post-identities.ts:13).                                       *)
NoLockCycle ==
  \A group \in SUBSET Calls : group # {} =>
    \E c \in group : \A d \in group \ {c} : ~ WaitsFor(c, d)

Identity == INSTANCE JobIdentity
  WITH reply <- [c \in Calls |-> calls[c].outcome]

(* The transactions implement JobIdentity: whatever the interleaving, a    *)
(* report that must be net-new is stored only while no other stored post   *)
(* shares a token with its posts, although they were compared before its   *)
(* rows are written; nothing is stored in part; and no post is created     *)
(* behind the check of another report.                                     *)
ImplementsIdentity == Identity!Spec

(* "Source keys and canonical URLs prevent duplicate job records"          *)
(* (README.md:61): no two rows are the same job.                           *)
OneRecordPerJob ==
  \A k, l \in Keys : Stored(k) /\ Stored(l) /\ SameJob(rows[k], rows[l]) => k = l

=============================================================================
