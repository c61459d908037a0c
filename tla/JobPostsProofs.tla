---------------------------- MODULE JobPostsProofs ----------------------------
(***************************************************************************)
(* Theorems about the transactions of the server on job posts and search   *)
(* reports, for every set of posts, reports and calls: transactions that   *)
(* lock identities never wait for one another in a ring, and whatever the  *)
(* interleaving the transactions implement JobIdentity.                    *)
(***************************************************************************)
EXTENDS JobPosts, FiniteSetTheorems, WellFoundedInduction, TLAPS

-----------------------------------------------------------------------------
(* The inductive invariant.                                                *)

\* What a transaction is about, at each of its steps.
Sound(call) ==
  /\ call.posts \in Inputs
  /\ call.kind \in {"report", "netnew"} => call.report \in Reports
  /\ call.kind = "import" => \E p \in Posts : call.posts = {p}
  /\ call.step \in {"new", "done"} => call.kind = "none" /\ call.posts = {}
  /\ call.step \in {"lock", "write"} => call.kind \in {"import", "report", "netnew"}
  /\ call.step = "check" => call.kind = "netnew"
  /\ call.step = "claim" => call.kind \in {"report", "netnew"}
  /\ call.step \in {"delete", "cascade"} =>
       call.kind = "remove" /\ \E k \in Keys : call.own \subseteq {k}
  /\ call.step # "done" => call.outcome = "none"

\* Locks are taken in the order of the tokens, and kept to the end.
Needed(call) == UNION {IdentityTokens[p] : p \in call.posts}

InOrder(call) ==
  /\ call.locks \subseteq Needed(call)
  /\ call.step = "lock" =>
       /\ Needed(call) \ call.locks # {}
       /\ \A x \in call.locks : \A y \in Needed(call) \ call.locks :
            TokenRank[x] < TokenRank[y]
  /\ call.step \in {"check", "claim", "write"} => call.locks = Needed(call)

LocksInv ==
  \A c \in Calls : \A d \in Others(c) : calls[c].locks \intersect calls[d].locks = {}

\* The row a removal has deleted is its own, and is one a user has imported.
RemovalInv ==
  \A c \in Calls : At(c, "cascade") =>
    /\ calls[c].own # {} /\ calls[c].own \subseteq userAdded
    /\ \A d \in Others(c) : At(d, "cascade") =>
         calls[c].own \intersect calls[d].own = {}

\* What the check of a net-new report found stays true while it holds the
\* tokens of its posts.
StillNetNew(call) ==
  call.kind = "netnew" /\ call.step \in {"claim", "write"} =>
    /\ \A p \in call.posts : \A k \in Keys :
         Stored(k) /\ SameJob(p, rows[k]) =>
           k \in KeysOf(call.posts) \intersect call.own \intersect reported[call.report]
    /\ \A p, q \in call.posts : SameJob(p, q) => p = q

DatabaseInv ==
  /\ \A k \in Keys : Stored(k) => rows[k].sourceKey = k
  /\ \A r \in Reports : results[r] \subseteq reported[r]

Begun == {c \in Calls : ~ At(c, "new")}

PostsInv ==
  /\ PostsTypeOK
  /\ \A c \in Calls : Sound(calls[c]) /\ InOrder(calls[c]) /\ StillNetNew(calls[c])
  /\ LocksInv /\ RemovalInv /\ DatabaseInv
  /\ IsFiniteSet(Begun)

-----------------------------------------------------------------------------
(* Posts and tokens.                                                       *)

LEMMA TokenFacts ==
  /\ \A p \in Posts : p.sourceKey \in Keys /\ IdentityTokens[p] \subseteq Tokens
  /\ \A p \in Posts : <<"source-key", p.sourceKey>> \in IdentityTokens[p]
  /\ \A p, q \in Posts : p.sourceKey = q.sourceKey => SameJob(p, q)
  /\ \A input \in SUBSET Posts : KeysOf(input) \subseteq Keys
  /\ \A x \in Tokens : TokenRank[x] \in Nat
<1>1. \A p \in Posts : p.sourceKey \in Keys /\ IdentityTokens[p] \subseteq Tokens
  BY DEF Keys, Tokens
<1>2. \A p \in Posts : <<"source-key", p.sourceKey>> \in IdentityTokens[p]
  BY DEF IdentityTokens
<1>3. \A p, q \in Posts : p.sourceKey = q.sourceKey => SameJob(p, q)
  BY <1>2 DEF SameJob
<1>4. \A input \in SUBSET Posts : KeysOf(input) \subseteq Keys
  BY DEF KeysOf, Keys
<1>5. \A x \in Tokens : TokenRank[x] \in Nat
  BY TokenRankAssumption
<1>. QED
  BY <1>1, <1>2, <1>3, <1>4, <1>5

LEMMA InputFacts ==
  /\ Inputs \subseteq SUBSET Posts
  /\ {} \in Inputs
  /\ \A p \in Posts : {p} \in Inputs
BY DEF Inputs

\* Storing posts puts each of them under its key and leaves the rest alone.
LEMMA UpsertedFacts ==
  ASSUME NEW old \in [Keys -> Posts \union {NoPost}], NEW input \in SUBSET Posts
  PROVE  /\ Upserted(old, input) \in [Keys -> Posts \union {NoPost}]
         /\ \A k \in KeysOf(input) :
              /\ Upserted(old, input)[k] \in input
              /\ Upserted(old, input)[k].sourceKey = k
         /\ \A k \in Keys \ KeysOf(input) : Upserted(old, input)[k] = old[k]
<1>1. ASSUME NEW k \in KeysOf(input)
      PROVE  /\ (CHOOSE p \in input : p.sourceKey = k) \in input
             /\ (CHOOSE p \in input : p.sourceKey = k).sourceKey = k
  BY <1>1 DEF KeysOf
<1>2. KeysOf(input) \subseteq Keys
  BY TokenFacts
<1>. QED
  BY <1>1, <1>2 DEF Upserted

LEMMA OutcomeCall ==
  ASSUME NEW outcome \in Outcomes
  PROVE  LET end == [NewCall EXCEPT !.step = "done", !.outcome = outcome]
         IN  /\ end \in Call /\ Sound(end) /\ InOrder(end) /\ StillNetNew(end)
             /\ end.locks = {} /\ end.step = "done" /\ end.outcome = outcome
<1>1. NewCall \in Call
  BY DEF NewCall, Call, Steps, Outcomes
<1>. QED
  BY <1>1, InputFacts DEF NewCall, Call, Steps, Sound, InOrder, StillNetNew, Needed

-----------------------------------------------------------------------------
(* A step of one call that leaves the database alone.                      *)

LEMMA CallFacts ==
  ASSUME PostsInv, NEW c \in Calls
  PROVE  /\ calls[c] \in Call /\ Sound(calls[c]) /\ InOrder(calls[c])
         /\ StillNetNew(calls[c])
         /\ calls[c].posts \in SUBSET Posts
         /\ TokensOf(c) = Needed(calls[c]) /\ TokensOf(c) \subseteq Tokens
         /\ Waiting(c) = Needed(calls[c]) \ calls[c].locks
<1>1. calls[c] \in Call /\ Sound(calls[c]) /\ InOrder(calls[c]) /\ StillNetNew(calls[c])
  BY DEF PostsInv, PostsTypeOK
<1>2. calls[c].posts \in SUBSET Posts
  BY <1>1 DEF Call
<1>3. TokensOf(c) = Needed(calls[c]) /\ Waiting(c) = Needed(calls[c]) \ calls[c].locks
  BY DEF TokensOf, Needed, Waiting
<1>4. TokensOf(c) \subseteq Tokens
  BY <1>2, TokenFacts DEF TokensOf
<1>. QED
  BY <1>1, <1>2, <1>3, <1>4

LEMMA CallStep ==
  ASSUME PostsInv, NEW c \in Calls, NEW new \in Call,
         calls' = [calls EXCEPT ![c] = new], UNCHANGED database,
         Sound(new), InOrder(new), StillNetNew(new),
         \A d \in Others(c) : new.locks \intersect calls[d].locks = {},
         new.step = "cascade" =>
           /\ new.own # {} /\ new.own \subseteq userAdded
           /\ \A d \in Others(c) : At(d, "cascade") => new.own \intersect calls[d].own = {}
  PROVE  PostsInv'
<1>1. /\ UNCHANGED <<rows, results, reported, userAdded>>
      /\ calls'[c] = new /\ \A d \in Others(c) : calls'[d] = calls[d]
  BY DEF database, PostsInv, PostsTypeOK, Others
<1>2. PostsTypeOK'
  BY <1>1 DEF PostsInv, PostsTypeOK, Stored
<1>3. ASSUME NEW d \in Calls
      PROVE  (Sound(calls[d]) /\ InOrder(calls[d]) /\ StillNetNew(calls[d]))'
  <2>1. StillNetNew(calls'[d]) /\ Sound(calls'[d]) /\ InOrder(calls'[d])
    BY <1>1, CallFacts DEF Others
  <2>. QED
    BY <1>1, <2>1 DEF Sound, InOrder, StillNetNew, Needed, Stored
<1>4. LocksInv'
  BY <1>1 DEF PostsInv, LocksInv, Others
<1>5. RemovalInv'
  BY <1>1 DEF PostsInv, RemovalInv, Others, At
<1>6. DatabaseInv'
  BY <1>1 DEF PostsInv, DatabaseInv, Stored
<1>7. IsFiniteSet(Begun)'
  <2>1. IsFiniteSet(Begun \union {c})
    BY FS_AddElement DEF PostsInv
  <2>2. Begun' \in SUBSET (Begun \union {c})
    BY <1>1 DEF Begun, At, Others
  <2>. QED
    BY <2>1, <2>2, FS_Subset
<1>. QED
  BY <1>2, <1>3, <1>4, <1>5, <1>6, <1>7 DEF PostsInv

LEMMA FinishStep ==
  ASSUME PostsInv, NEW c \in Calls, NEW outcome \in Outcomes,
         Finish(c, outcome), UNCHANGED database
  PROVE  PostsInv'
<1> DEFINE end == [NewCall EXCEPT !.step = "done", !.outcome = outcome]
<1>1. /\ end \in Call /\ Sound(end) /\ InOrder(end) /\ StillNetNew(end)
      /\ end.locks = {} /\ end.step = "done"
  BY OutcomeCall
<1>2. calls' = [calls EXCEPT ![c] = end]
  BY DEF Finish
<1> HIDE DEF end
<1>. QED
  BY <1>1, <1>2, CallStep

LEMMA RequestStep ==
  ASSUME PostsInv, NEW c \in Calls,
         NEW kind \in {"import", "report", "netnew", "remove"},
         NEW step \in {"lock", "check", "claim", "delete"},
         NEW report \in Reports \union {NoId}, NEW posts \in Inputs, NEW own \in SUBSET Keys,
         Request(c, kind, step, report, posts, own),
         kind \in {"report", "netnew"} => report \in Reports,
         kind = "import" => \E p \in Posts : posts = {p},
         IF step = "delete" THEN kind = "remove" /\ \E k \in Keys : own \subseteq {k}
                            ELSE kind # "remove",
         step \in {"check", "claim"} => posts = {} /\ kind = IF step = "check" THEN "netnew" ELSE "report",
         step = "lock" => posts # {}
  PROVE  PostsInv'
<1> DEFINE new == [NewCall EXCEPT !.kind = kind, !.step = step, !.report = report,
                                  !.posts = posts, !.own = own]
<1>1. /\ new.kind = kind /\ new.step = step /\ new.report = report /\ new.posts = posts
      /\ new.own = own /\ new.locks = {} /\ new.outcome = "none"
  BY DEF NewCall
<1>2. new \in Call
  <2>1. posts \in SUBSET Posts
    BY InputFacts
  <2>. QED
    BY <2>1 DEF NewCall, Call, Steps, Outcomes
<1>3. calls' = [calls EXCEPT ![c] = new] /\ UNCHANGED database
  BY DEF Request
<1> HIDE DEF new
<1>4. Sound(new)
  BY <1>1 DEF Sound
<1>5. InOrder(new)
  <2>1. posts # {} => Needed(new) # {}
    <3>1. ASSUME NEW p \in posts
          PROVE  <<"source-key", p.sourceKey>> \in Needed(new)
      <4>1. p \in Posts
        BY InputFacts
      <4>. QED
        BY <1>1, <4>1, TokenFacts DEF Needed
    <3>. QED
      BY <3>1
  <2>2. posts = {} => Needed(new) = {}
    BY <1>1 DEF Needed
  <2>. QED
    BY <1>1, <2>1, <2>2 DEF InOrder
<1>6. StillNetNew(new)
  BY <1>1 DEF StillNetNew
<1>. QED
  BY <1>1, <1>2, <1>3, <1>4, <1>5, <1>6, CallStep

LEMMA StepRequests ==
  ASSUME PostsInv, NEW c \in Calls,
         \/ \E p \in Posts : RequestImport(c, p)
         \/ \E r \in Reports, input \in Inputs, guarded \in BOOLEAN :
              RequestReport(c, r, input, guarded)
         \/ \E k \in Keys : RequestRemoval(c, k)
  PROVE  PostsInv'
<1>1. ASSUME NEW p \in Posts, RequestImport(c, p)
      PROVE  PostsInv'
  <2>1. Request(c, "import", "lock", NoId, {p}, {})
    BY <1>1 DEF RequestImport
  <2>2. {p} \in Inputs /\ {p} # {}
    BY InputFacts
  <2>. QED
    BY <2>1, <2>2, RequestStep
<1>2. ASSUME NEW r \in Reports, NEW input \in Inputs, NEW guarded \in BOOLEAN,
             RequestReport(c, r, input, guarded)
      PROVE  PostsInv'
  <2> DEFINE kind == IF guarded THEN "netnew" ELSE "report"
             step == IF input = {} THEN IF guarded THEN "check" ELSE "claim" ELSE "lock"
  <2>1. Request(c, kind, step, r, input, {})
    BY <1>2 DEF RequestReport
  <2>2. /\ kind \in {"report", "netnew"} /\ step \in {"lock", "check", "claim"}
        /\ step \in {"check", "claim"} =>
             input = {} /\ kind = IF step = "check" THEN "netnew" ELSE "report"
        /\ step = "lock" => input # {}
    OBVIOUS
  <2> HIDE DEF kind, step
  <2>. QED
    BY <2>1, <2>2, RequestStep
<1>3. ASSUME NEW k \in Keys, RequestRemoval(c, k)
      PROVE  PostsInv'
  BY <1>3, InputFacts, RequestStep DEF RequestRemoval
<1>. QED
  BY <1>1, <1>2, <1>3

LEMMA StepLock ==
  ASSUME PostsInv, NEW c \in Calls, Lock(c)
  PROVE  PostsInv'
<1> DEFINE call == calls[c]
<1>1. /\ call \in Call /\ Sound(call) /\ InOrder(call) /\ call.step = "lock"
      /\ Waiting(c) = Needed(call) \ call.locks /\ Needed(call) \subseteq Tokens
  BY CallFacts DEF Lock, At
<1>2. PICK x \in NextTokens(c) :
        /\ \A d \in Others(c) : x \notin calls[d].locks
        /\ calls' = [calls EXCEPT ![c].locks = @ \union {x},
                       ![c].step = IF Waiting(c) = {x} THEN AfterLocks(calls[c].kind) ELSE @]
  BY DEF Lock
<1> DEFINE step == IF Waiting(c) = {x} THEN AfterLocks(call.kind) ELSE call.step
           new == [call EXCEPT !.locks = @ \union {x}, !.step = step]
<1>3. /\ x \in Needed(call) /\ x \notin call.locks /\ x \in Tokens
      /\ \A y \in Needed(call) \ call.locks : TokenRank[x] <= TokenRank[y]
  BY <1>1, <1>2 DEF NextTokens
<1>4. step \in Steps /\ step \in {"lock", "check", "claim", "write"}
  BY <1>1 DEF AfterLocks, Steps
<1>5. /\ step = "check" => call.kind = "netnew"
      /\ step = "claim" => call.kind = "report"
      /\ step = "write" => call.kind = "import"
      /\ step = "lock" <=> Waiting(c) # {x}
  BY <1>1 DEF AfterLocks, Sound
<1>6. calls' = [calls EXCEPT ![c] = new] /\ UNCHANGED database
  BY <1>2 DEF Lock, PostsInv, PostsTypeOK
<1> HIDE DEF step
<1>7. /\ new \in Call /\ new.kind = call.kind /\ new.step = step /\ new.posts = call.posts
      /\ new.report = call.report /\ new.own = call.own /\ new.outcome = call.outcome
      /\ new.locks = call.locks \union {x}
  BY <1>1, <1>3, <1>4 DEF Call
<1> HIDE DEF new
<1>8. Sound(new)
  BY <1>1, <1>4, <1>5, <1>7 DEF Sound
<1>9. Needed(new) = Needed(call)
  BY <1>7 DEF Needed
<1>10. InOrder(new)
  <2>1. new.locks \subseteq Needed(new)
    BY <1>1, <1>3, <1>7, <1>9 DEF InOrder
  <2>2. new.step = "lock" => Needed(new) \ new.locks # {}
    BY <1>1, <1>3, <1>5, <1>7, <1>9
  <2>3. ASSUME NEW z \in new.locks, NEW y \in Needed(new) \ new.locks
        PROVE  TokenRank[z] < TokenRank[y]
    <3>1. y \in Needed(call) \ call.locks /\ y # x /\ y \in Tokens
      BY <1>1, <1>7, <1>9
    <3>2. CASE z \in call.locks
      BY <1>1, <3>1, <3>2 DEF InOrder
    <3>3. CASE z = x
      <4>1. TokenRank[x] # TokenRank[y]
        BY <1>3, <3>1, TokenRankAssumption
      <4>2. TokenRank[x] <= TokenRank[y] /\ TokenRank[x] \in Nat /\ TokenRank[y] \in Nat
        BY <1>3, <3>1, TokenFacts
      <4>. QED
        BY <3>3, <4>1, <4>2
    <3>. QED
      BY <1>7, <3>2, <3>3
  <2>4. new.step \in {"check", "claim", "write"} => new.locks = Needed(new)
    <3>1. new.step \in {"check", "claim", "write"} => Needed(call) \ call.locks = {x}
      BY <1>1, <1>5, <1>7
    <3>. QED
      BY <1>1, <1>3, <1>7, <1>9, <3>1 DEF InOrder
  <2>. QED
    BY <2>1, <2>2, <2>3, <2>4 DEF InOrder
<1>11. StillNetNew(new)
  BY <1>4, <1>5, <1>7 DEF StillNetNew
<1>12. \A d \in Others(c) : new.locks \intersect calls[d].locks = {}
  BY <1>2, <1>7 DEF PostsInv, LocksInv
<1>. QED
  BY <1>4, <1>6, <1>7, <1>8, <1>10, <1>11, <1>12, CallStep

\* The check of upsertNetNewById finds a conflict exactly if the report is not
\* net-new.
LEMMA ConflictsFound ==
  ASSUME PostsInv, NEW c \in Calls
  PROVE  Conflicts(c) = {} <=> NetNew(rows, calls[c].posts, SameReportKeys(c))
<1> DEFINE posts == calls[c].posts
           kept(k) == k \in KeysOf(posts) /\ k \in SameReportKeys(c)
<1>1. ASSUME NEW p \in posts
      PROVE  IdentityTokens[p] \intersect ReservedTokens(c) = {} <=>
               \A k \in Keys : Stored(k) /\ SameJob(p, rows[k]) => kept(k)
  BY DEF ReservedTokens, SameJob
<1>2. Conflicts(c) = {} <=>
        \A p \in posts : /\ IdentityTokens[p] \intersect ReservedTokens(c) = {}
                        /\ \A q \in posts \ {p} : ~ SameJob(p, q)
  BY DEF Conflicts
<1>3. (\A p, q \in posts : SameJob(p, q) => p = q) <=>
        (\A p \in posts : \A q \in posts \ {p} : ~ SameJob(p, q))
  OBVIOUS
<1>. QED
  BY <1>1, <1>2, <1>3 DEF NetNew, Stored

LEMMA StepCheck ==
  ASSUME PostsInv, NEW c \in Calls, Check(c)
  PROVE  PostsInv'
<1> DEFINE call == calls[c]
           new == [call EXCEPT !.step = "claim", !.own = SameReportKeys(c)]
<1>1. /\ call \in Call /\ Sound(call) /\ InOrder(call) /\ call.step = "check"
      /\ call.kind = "netnew" /\ call.report \in Reports
  BY CallFacts DEF Check, At, Sound
<1>2. SameReportKeys(c) \in SUBSET Keys /\ SameReportKeys(c) \subseteq reported[call.report]
  BY <1>1 DEF SameReportKeys, PostsInv, PostsTypeOK, DatabaseInv
<1>3. CASE Conflicts(c) # {}
  BY <1>3, FinishStep DEF Check, Outcomes
<1>4. CASE Conflicts(c) = {}
  <2>1. calls' = [calls EXCEPT ![c] = new] /\ UNCHANGED database
    BY <1>4 DEF Check
  <2>2. NetNew(rows, call.posts, SameReportKeys(c))
    BY <1>4, ConflictsFound
  <2>3. /\ new \in Call /\ new.kind = call.kind /\ new.step = "claim"
        /\ new.posts = call.posts /\ new.report = call.report
        /\ new.own = SameReportKeys(c) /\ new.outcome = call.outcome
        /\ new.locks = call.locks
    BY <1>1, <1>2 DEF Call, Steps
  <2> HIDE DEF new
  <2>4. Sound(new)
    BY <1>1, <2>3 DEF Sound
  <2>5. InOrder(new)
    BY <1>1, <2>3 DEF InOrder, Needed
  <2>6. StillNetNew(new)
    BY <1>2, <2>2, <2>3 DEF StillNetNew, NetNew, Stored
  <2>7. \A d \in Others(c) : new.locks \intersect calls[d].locks = {}
    BY <2>3 DEF PostsInv, LocksInv
  <2>. QED
    BY <2>1, <2>3, <2>4, <2>5, <2>6, <2>7, CallStep
<1>. QED
  BY <1>3, <1>4

LEMMA StepClaim ==
  ASSUME PostsInv, NEW c \in Calls, Claim(c)
  PROVE  PostsInv'
<1> DEFINE call == calls[c]
           new == [call EXCEPT !.step = "write"]
<1>1. /\ call \in Call /\ Sound(call) /\ InOrder(call) /\ StillNetNew(call)
      /\ call.step = "claim"
  BY CallFacts DEF Claim, At
<1>2. calls' = [calls EXCEPT ![c] = new] /\ UNCHANGED database
  BY DEF Claim, Advance, PostsInv, PostsTypeOK
<1>3. /\ new \in Call /\ new.kind = call.kind /\ new.step = "write"
      /\ new.posts = call.posts /\ new.report = call.report
      /\ new.own = call.own /\ new.outcome = call.outcome /\ new.locks = call.locks
  BY <1>1 DEF Call, Steps
<1> HIDE DEF new
<1>4. Sound(new)
  BY <1>1, <1>3 DEF Sound
<1>5. InOrder(new)
  BY <1>1, <1>3 DEF InOrder, Needed
<1>6. StillNetNew(new)
  BY <1>1, <1>3 DEF StillNetNew
<1>7. \A d \in Others(c) : new.locks \intersect calls[d].locks = {}
  BY <1>3 DEF PostsInv, LocksInv
<1>. QED
  BY <1>2, <1>3, <1>4, <1>5, <1>6, <1>7, CallStep

LEMMA StepWrite ==
  ASSUME PostsInv, NEW c \in Calls, NEW p \in Posts, Write(c, p)
  PROVE  PostsInv'
<1> DEFINE call == calls[c]
           new == [call EXCEPT !.written = @ \union {p}]
           fails == call.kind = "netnew" /\ Stored(p.sourceKey) # (p.sourceKey \in call.own)
<1>1. /\ call \in Call /\ Sound(call) /\ InOrder(call) /\ StillNetNew(call)
      /\ call.step = "write"
  BY CallFacts DEF Write, At
<1>2. CASE fails
  <2>1. PICK outcome \in {"conflict", "failed"} : Finish(c, outcome)
    BY <1>2 DEF Write
  <2>. QED
    BY <2>1, FinishStep DEF Write, Outcomes
<1>3. CASE ~ fails
  <2>1. calls' = [calls EXCEPT ![c] = new] /\ UNCHANGED database
    BY <1>3 DEF Write, PostsInv, PostsTypeOK
  <2>2. /\ new \in Call /\ new.kind = call.kind /\ new.step = "write"
        /\ new.posts = call.posts /\ new.report = call.report
        /\ new.own = call.own /\ new.outcome = call.outcome /\ new.locks = call.locks
    BY <1>1 DEF Call
  <2> HIDE DEF new
  <2>3. Sound(new)
    BY <1>1, <2>2 DEF Sound
  <2>4. InOrder(new)
    BY <1>1, <2>2 DEF InOrder, Needed
  <2>5. StillNetNew(new)
    BY <1>1, <2>2 DEF StillNetNew
  <2>6. \A d \in Others(c) : new.locks \intersect calls[d].locks = {}
    BY <2>2 DEF PostsInv, LocksInv
  <2>. QED
    BY <2>1, <2>2, <2>3, <2>4, <2>5, <2>6, CallStep
<1>. QED
  BY <1>2, <1>3

LEMMA StepDelete ==
  ASSUME PostsInv, NEW c \in Calls, Delete(c)
  PROVE  PostsInv'
<1> DEFINE call == calls[c]
           new == [call EXCEPT !.step = "cascade"]
<1>1. /\ call \in Call /\ Sound(call) /\ InOrder(call) /\ call.step = "delete"
  BY CallFacts DEF Delete, At
<1>2. CASE ~ Removable(c)
  BY <1>2, FinishStep DEF Delete, Outcomes
<1>3. CASE Removable(c)
  <2>1. calls' = [calls EXCEPT ![c] = new] /\ UNCHANGED database
    BY <1>3 DEF Delete, Advance, PostsInv, PostsTypeOK
  <2>2. /\ new \in Call /\ new.kind = call.kind /\ new.step = "cascade"
        /\ new.posts = call.posts /\ new.report = call.report
        /\ new.own = call.own /\ new.outcome = call.outcome /\ new.locks = call.locks
    BY <1>1 DEF Call, Steps
  <2>3. call.own # {} /\ call.own \subseteq userAdded
    BY <1>1, <1>3 DEF Removable, Sound
  <2>4. \A d \in Others(c) : At(d, "cascade") => call.own \intersect calls[d].own = {}
    BY DEF Delete, Removes
  <2> HIDE DEF new
  <2>5. Sound(new)
    BY <1>1, <2>2 DEF Sound
  <2>6. InOrder(new)
    BY <1>1, <2>2 DEF InOrder, Needed
  <2>7. StillNetNew(new)
    BY <2>2 DEF StillNetNew
  <2>8. \A d \in Others(c) : new.locks \intersect calls[d].locks = {}
    BY <2>2 DEF PostsInv, LocksInv
  <2>. QED
    BY <2>1, <2>2, <2>3, <2>4, <2>5, <2>6, <2>7, <2>8, CallStep
<1>. QED
  BY <1>2, <1>3

LEMMA StepFail ==
  ASSUME PostsInv, NEW c \in Calls, Fail(c)
  PROVE  PostsInv'
BY FinishStep DEF Fail, Outcomes

-----------------------------------------------------------------------------
(* The steps that change the database.                                     *)

\* Two calls that hold their tokens work on different jobs.
LEMMA HoldersDiffer ==
  ASSUME PostsInv, NEW c \in Calls, NEW d \in Others(c),
         calls[c].step \in {"claim", "write"}, calls[d].step \in {"claim", "write"},
         NEW p \in calls[c].posts, NEW q \in calls[d].posts
  PROVE  ~ SameJob(p, q)
<1>1. d \in Calls /\ calls[c].locks = Needed(calls[c]) /\ calls[d].locks = Needed(calls[d])
  BY CallFacts DEF Others, InOrder
<1>2. calls[c].locks \intersect calls[d].locks = {}
  BY DEF PostsInv, LocksInv
<1>. QED
  BY <1>1, <1>2 DEF Needed, SameJob

LEMMA StepCommit ==
  ASSUME PostsInv, NEW c \in Calls, Commit(c)
  PROVE  PostsInv'
<1> DEFINE call == calls[c]
           posts == call.posts
           outcome == IF call.kind = "netnew" THEN "net-new" ELSE "stored"
           end == [NewCall EXCEPT !.step = "done", !.outcome = outcome]
<1>1. /\ call \in Call /\ Sound(call) /\ call.step = "write"
      /\ posts \in SUBSET Posts /\ KeysOf(posts) \subseteq Keys
  BY CallFacts, TokenFacts DEF Commit, At
<1>2. /\ end \in Call /\ Sound(end) /\ InOrder(end) /\ StillNetNew(end)
      /\ end.locks = {} /\ end.step = "done"
  BY OutcomeCall DEF Outcomes
<1>3. calls' = [calls EXCEPT ![c] = end]
  BY DEF Commit, Finish
<1> HIDE DEF end
<1>4. calls'[c] = end /\ \A d \in Others(c) : calls'[d] = calls[d]
  BY <1>3 DEF PostsInv, PostsTypeOK, Others
<1>5. /\ rows' \in [Keys -> Posts \union {NoPost}]
      /\ \A k \in KeysOf(posts) : rows'[k] \in posts /\ rows'[k].sourceKey = k
      /\ \A k \in Keys \ KeysOf(posts) : rows'[k] = rows[k]
  BY <1>1, UpsertedFacts DEF Commit, PostsInv, PostsTypeOK
<1>6. \A k \in Keys : Stored(k)' <=> Stored(k) \/ k \in KeysOf(posts)
  BY <1>1, <1>5, NoPostAssumption DEF Stored
<1>7. /\ results' \in [Reports -> SUBSET {k \in Keys : Stored(k)'}]
      /\ reported' \in [Reports -> SUBSET {k \in Keys : Stored(k)'}]
      /\ userAdded' \subseteq {k \in Keys : Stored(k)'} /\ userAdded \subseteq userAdded'
      /\ \A r \in Reports : results'[r] \subseteq reported'[r] /\ reported[r] \subseteq reported'[r]
  <2>1. CASE call.kind = "import"
    BY <1>1, <1>6, <2>1 DEF Commit, PostsInv, PostsTypeOK, DatabaseInv
  <2>2. CASE call.kind # "import"
    BY <1>1, <1>6, <2>2 DEF Commit, PostsInv, PostsTypeOK, DatabaseInv
  <2>. QED
    BY <2>1, <2>2
<1>8. PostsTypeOK'
  BY <1>2, <1>3, <1>5, <1>7 DEF PostsInv, PostsTypeOK
<1>9. ASSUME NEW d \in Calls
      PROVE  (Sound(calls[d]) /\ InOrder(calls[d]) /\ StillNetNew(calls[d]))'
  <2>1. Sound(calls'[d]) /\ InOrder(calls'[d]) /\ StillNetNew(calls'[d])
    BY <1>2, <1>4, CallFacts DEF Others
  <2>2. ASSUME d # c, calls[d].kind = "netnew", calls[d].step \in {"claim", "write"},
               NEW p \in calls[d].posts, NEW k \in Keys, Stored(k)', SameJob(p, rows'[k])
        PROVE  k \in KeysOf(calls[d].posts) \intersect calls[d].own
                       \intersect reported'[calls[d].report]
    <3>1. calls'[d] = calls[d] /\ StillNetNew(calls[d]) /\ calls[d].report \in Reports
      BY <1>4, <2>2, CallFacts DEF Others, Sound
    <3>2. k \notin KeysOf(posts)
      BY <1>1, <1>5, <2>2, HoldersDiffer DEF Others
    <3>3. rows'[k] = rows[k] /\ Stored(k)
      BY <1>5, <1>6, <2>2, <3>2
    <3>. QED
      BY <1>7, <2>2, <3>1, <3>3 DEF StillNetNew
  <2>3. StillNetNew(calls[d])'
    <3>1. CASE d = c
      BY <1>2, <1>4, <3>1 DEF StillNetNew
    <3>2. CASE d # c
      <4>1. calls'[d] = calls[d]
        BY <1>4, <3>2 DEF Others
      <4>. QED
        BY <2>1, <2>2, <3>2, <4>1 DEF StillNetNew
    <3>. QED
      BY <3>1, <3>2
  <2>. QED
    BY <2>1, <2>3 DEF Sound, InOrder, Needed
<1>10. LocksInv'
  BY <1>2, <1>4 DEF PostsInv, LocksInv, Others
<1>11. RemovalInv'
  BY <1>2, <1>4, <1>7 DEF PostsInv, RemovalInv, Others, At
<1>12. DatabaseInv'
  <2>1. \A k \in Keys : Stored(k)' => rows'[k].sourceKey = k
    BY <1>5, <1>6 DEF PostsInv, DatabaseInv
  <2>. QED
    BY <1>7, <2>1 DEF DatabaseInv
<1>13. IsFiniteSet(Begun)'
  <2>1. Begun' \in SUBSET (Begun \union {c}) /\ IsFiniteSet(Begun \union {c})
    BY <1>4, FS_AddElement DEF Begun, At, Others, PostsInv
  <2>. QED
    BY <2>1, FS_Subset
<1>. QED
  BY <1>8, <1>9, <1>10, <1>11, <1>12, <1>13 DEF PostsInv

LEMMA StepCascade ==
  ASSUME PostsInv, NEW c \in Calls, Cascade(c)
  PROVE  PostsInv'
<1> DEFINE own == calls[c].own
           end == [NewCall EXCEPT !.step = "done", !.outcome = "removed"]
           less(d) == [calls[d] EXCEPT !.own = @ \ own]
<1>1. /\ calls[c] \in Call /\ calls[c].step = "cascade" /\ own \subseteq Keys
  BY CallFacts DEF Cascade, At, Call
<1>2. /\ end \in Call /\ Sound(end) /\ InOrder(end) /\ StillNetNew(end)
      /\ end.locks = {} /\ end.step = "done"
  BY OutcomeCall DEF Outcomes
<1>3. calls' = [d \in Calls |-> IF d = c THEN end ELSE IF At(d, "delete") THEN less(d) ELSE calls[d]]
  BY DEF Cascade
<1> HIDE DEF end
<1>4. ASSUME NEW d \in Calls, At(d, "delete")
      PROVE  /\ less(d) \in Call /\ less(d).kind = calls[d].kind /\ less(d).step = "delete"
             /\ less(d).posts = calls[d].posts /\ less(d).report = calls[d].report
             /\ less(d).own \subseteq calls[d].own /\ less(d).outcome = calls[d].outcome
             /\ less(d).locks = calls[d].locks
  <2>1. calls[d] \in Call
    BY CallFacts
  <2>. QED
    BY <1>4, <2>1 DEF Call, At
<1>5. ASSUME NEW d \in Calls
      PROVE  /\ calls'[d] \in Call
             /\ d = c => calls'[d] = end
             /\ d # c /\ ~ At(d, "delete") => calls'[d] = calls[d]
             /\ d # c /\ At(d, "delete") => calls'[d] = less(d)
  BY <1>2, <1>3, <1>4, CallFacts
<1>6. \A d \in Others(c) : calls'[d].step = calls[d].step /\ calls'[d].locks = calls[d].locks
  BY <1>4, <1>5 DEF Others, At
<1>7. /\ rows' \in [Keys -> Posts \union {NoPost}]
      /\ \A k \in Keys : rows'[k] = IF k \in own THEN NoPost ELSE rows[k]
  BY DEF Cascade, PostsInv, PostsTypeOK
<1>8. \A k \in Keys : Stored(k)' <=> Stored(k) /\ k \notin own
  BY <1>7 DEF Stored
<1>9. /\ results' \in [Reports -> SUBSET {k \in Keys : Stored(k)'}]
      /\ reported' \in [Reports -> SUBSET {k \in Keys : Stored(k)'}]
      /\ userAdded' = userAdded \ own /\ userAdded' \subseteq {k \in Keys : Stored(k)'}
      /\ \A r \in Reports : /\ results'[r] \subseteq reported'[r]
                           /\ reported'[r] = reported[r] \ own
  BY <1>8 DEF Cascade, PostsInv, PostsTypeOK, DatabaseInv
<1>10. PostsTypeOK'
  BY <1>3, <1>5, <1>7, <1>9 DEF PostsTypeOK
<1>11. ASSUME NEW d \in Calls
       PROVE  (Sound(calls[d]) /\ InOrder(calls[d]) /\ StillNetNew(calls[d]))'
  <2>1. CASE d = c
    BY <1>2, <1>5, <2>1 DEF Sound, InOrder, StillNetNew, Needed
  <2>2. CASE d # c /\ At(d, "delete")
    <3>1. Sound(calls[d]) /\ InOrder(calls[d])
      BY CallFacts
    <3> DEFINE new == less(d)
    <3>2. calls'[d] = new
      BY <1>5, <2>2
    <3>3. /\ new.kind = calls[d].kind /\ new.step = "delete"
          /\ new.posts = calls[d].posts /\ new.report = calls[d].report
          /\ new.own \subseteq calls[d].own /\ new.outcome = calls[d].outcome
          /\ new.locks = calls[d].locks
      BY <1>4, <2>2
    <3> HIDE DEF new
    <3>4. Sound(new)
      BY <2>2, <3>1, <3>3 DEF Sound, At
    <3>5. InOrder(new)
      BY <3>1, <3>3 DEF InOrder, Needed
    <3>. QED
      BY <3>2, <3>3, <3>4, <3>5 DEF Sound, InOrder, StillNetNew, Needed
  <2>3. CASE d # c /\ ~ At(d, "delete")
    <3>1. /\ calls'[d] = calls[d]
          /\ Sound(calls[d]) /\ InOrder(calls[d]) /\ StillNetNew(calls[d])
      BY <1>5, <2>3, CallFacts
    <3>2. ASSUME calls[d].kind = "netnew", calls[d].step \in {"claim", "write"},
                 NEW p \in calls[d].posts, NEW k \in Keys, Stored(k)', SameJob(p, rows'[k])
          PROVE  k \in KeysOf(calls[d].posts) \intersect calls[d].own
                         \intersect reported'[calls[d].report]
      <4>1. rows'[k] = rows[k] /\ Stored(k) /\ k \notin own /\ calls[d].report \in Reports
        BY <1>7, <1>8, <3>1, <3>2 DEF Sound
      <4>. QED
        BY <1>9, <3>1, <3>2, <4>1 DEF StillNetNew
    <3>3. StillNetNew(calls[d])'
      BY <3>1, <3>2 DEF StillNetNew
    <3>. QED
      BY <3>1, <3>3 DEF Sound, InOrder, Needed
  <2>. QED
    BY <2>1, <2>2, <2>3
<1>12. LocksInv'
  BY <1>2, <1>5, <1>6 DEF PostsInv, LocksInv, Others
<1>13. RemovalInv'
  <2>1. ASSUME NEW d \in Calls, At(d, "cascade")'
        PROVE  d # c /\ calls'[d] = calls[d] /\ At(d, "cascade")
    <3>1. d # c
      BY <1>2, <1>5, <2>1 DEF At
    <3>2. ~ At(d, "delete")
      BY <1>4, <1>5, <2>1, <3>1 DEF At
    <3>. QED
      BY <1>5, <2>1, <3>1, <3>2 DEF At
  <2>2. \A d \in Calls : At(d, "cascade") /\ d # c => calls[d].own \intersect own = {}
    BY <1>1 DEF PostsInv, RemovalInv, Others, At
  <2>. QED
    BY <1>9, <2>1, <2>2 DEF PostsInv, RemovalInv, Others
<1>14. DatabaseInv'
  <2>1. \A k \in Keys : Stored(k)' => rows'[k].sourceKey = k
    BY <1>7, <1>8 DEF PostsInv, DatabaseInv
  <2>. QED
    BY <1>9, <2>1 DEF DatabaseInv
<1>15. IsFiniteSet(Begun)'
  <2>1. Begun' \in SUBSET Begun
    BY <1>1, <1>5, <1>6 DEF Begun, At, Others
  <2>. QED
    BY <2>1, FS_Subset DEF PostsInv
<1>. QED
  BY <1>10, <1>11, <1>12, <1>13, <1>14, <1>15 DEF PostsInv

LEMMA InitPosts == PostsInit => PostsInv
<1> SUFFICES ASSUME PostsInit
             PROVE  PostsInv
  OBVIOUS
<1>1. NewCall \in Call /\ Sound(NewCall) /\ InOrder(NewCall) /\ StillNetNew(NewCall)
  BY InputFacts DEF NewCall, Call, Steps, Outcomes, Sound, InOrder, StillNetNew, Needed
<1>2. NewCall.step = "new" /\ NewCall.locks = {}
  BY DEF NewCall
<1>3. \A c \in Calls : calls[c] = NewCall
  BY DEF PostsInit
<1>4. rows \in [Keys -> Posts \union {NoPost}]
  BY EarlierAssumption DEF PostsInit
<1>5. PostsTypeOK
  BY <1>1, <1>3, <1>4 DEF PostsInit, PostsTypeOK
<1>6. \A c \in Calls : Sound(calls[c]) /\ InOrder(calls[c]) /\ StillNetNew(calls[c])
  BY <1>1, <1>3
<1>7. LocksInv /\ RemovalInv
  BY <1>2, <1>3 DEF LocksInv, RemovalInv, At
<1>8. DatabaseInv
  BY DEF PostsInit, DatabaseInv
<1>9. IsFiniteSet(Begun)
  <2>1. Begun = {}
    BY <1>2, <1>3 DEF Begun, At
  <2>. QED
    BY <2>1, FS_EmptySet
<1>. QED
  BY <1>5, <1>6, <1>7, <1>8, <1>9 DEF PostsInv

LEMMA StepPosts == PostsInv /\ [PostsNext]_postVars => PostsInv'
<1> SUFFICES ASSUME PostsInv, [PostsNext]_postVars
             PROVE  PostsInv'
  OBVIOUS
<1>1. ASSUME NEW c \in Calls, NEW p \in Posts, Write(c, p)
      PROVE  PostsInv'
  BY <1>1, StepWrite
<1>2. ASSUME NEW c \in Calls,
             Lock(c) \/ Check(c) \/ Claim(c) \/ Commit(c) \/ Delete(c) \/ Cascade(c) \/ Fail(c)
      PROVE  PostsInv'
  BY <1>2, StepLock, StepCheck, StepClaim, StepCommit, StepDelete, StepCascade, StepFail
<1>3. CASE UNCHANGED postVars
  BY <1>3 DEF postVars, database, PostsInv, PostsTypeOK, Stored, Sound, InOrder, Needed,
     StillNetNew, LocksInv, RemovalInv, DatabaseInv, Begun, At, Others
<1>. QED
  BY <1>1, <1>2, <1>3, StepRequests DEF PostsNext

\* The tables and the transactions are what their types say; in particular a
\* report lists only posts that are stored, whatever is removed meanwhile
\* (job-post.repository.ts, search-report.repository.ts).
THEOREM PostsTypeCorrect == PostsSpec => []PostsTypeOK
<1>1. PostsInv => PostsTypeOK
  BY DEF PostsInv
<1>. QED
  BY <1>1, InitPosts, StepPosts, PTL DEF PostsSpec

-----------------------------------------------------------------------------
(* No ring of transactions.                                                *)

\* A finite set of calls ordered by a number has a last one.
LEMMA LastCall ==
  ASSUME NEW group, IsFiniteSet(group), group # {}, NEW f \in [group -> Nat]
  PROVE  \E c \in group : \A d \in group : f[d] <= f[c]
<1> DEFINE after(c) == {d \in group : f[d] >= f[c]}
           family == {after(c) : c \in group}
<1>1. family \subseteq FiniteSubsetsOf(group) /\ family # {}
  <2>1. ASSUME NEW c \in group
        PROVE  after(c) \in FiniteSubsetsOf(group)
    <3> DEFINE s == after(c)
    <3>1. s \in SUBSET group
      OBVIOUS
    <3> HIDE DEF s
    <3>2. IsFiniteSet(s)
      BY <3>1, FS_Subset
    <3>. QED
      BY <3>1, <3>2 DEF FiniteSubsetsOf, s
  <2> HIDE DEF after
  <2>. QED
    BY <2>1
<1>2. PICK s \in family : \A t \in family : ~ (<<t, s>> \in StrictSubsetOrdering(group))
  BY <1>1, FS_StrictSubsetOrderingWellFounded, WFMin
<1>3. PICK c \in group : s = after(c)
  BY <1>2
<1>4. ASSUME NEW d \in group, ~ (f[d] <= f[c])
      PROVE  FALSE
  <2>1. f[c] \in Nat /\ f[d] \in Nat /\ f[d] > f[c]
    BY <1>4
  <2>2. after(d) \subseteq after(c)
    <3>1. ASSUME NEW e \in group, f[e] >= f[d]
          PROVE  f[e] >= f[c]
      <4>1. f[e] \in Nat
        OBVIOUS
      <4>. QED
        BY <2>1, <3>1, <4>1
    <3>. QED
      BY <3>1
  <2>3. c \in after(c) /\ c \notin after(d)
    BY <2>1
  <2>4. <<after(d), after(c)>> \in StrictSubsetOrdering(group)
    BY <2>2, <2>3 DEF StrictSubsetOrdering
  <2>. QED
    BY <1>2, <1>3, <2>4
<1>. QED
  BY <1>4

LEMMA NoCycle == PostsInv => NoLockCycle
<1> SUFFICES ASSUME PostsInv, NEW group \in SUBSET Calls, group # {}
             PROVE  \E c \in group : \A d \in group \ {c} : ~ WaitsFor(c, d)
  BY DEF NoLockCycle
<1>1. CASE \E c \in group : ~ At(c, "lock") /\ ~ At(c, "claim")
  BY <1>1 DEF WaitsFor
<1>2. CASE /\ \A c \in group : At(c, "lock") \/ At(c, "claim")
           /\ \E c \in group : At(c, "claim")
  BY <1>2 DEF WaitsFor, Claims, At
<1>3. CASE /\ \A c \in group : At(c, "lock")
           /\ \E c \in group : NextTokens(c) = {}
  BY <1>3 DEF WaitsFor, At
<1>4. CASE \A c \in group : At(c, "lock") /\ NextTokens(c) # {}
  <2> DEFINE next == [c \in group |-> CHOOSE x \in NextTokens(c) : TRUE]
             f == [c \in group |-> TokenRank[next[c]]]
  <2>1. ASSUME NEW c \in group
        PROVE  /\ next[c] \in NextTokens(c) /\ f[c] = TokenRank[next[c]]
               /\ NextTokens(c) \subseteq Waiting(c) /\ Waiting(c) \subseteq Tokens
    BY <1>4, CallFacts DEF NextTokens
  <2>2. f \in [group -> Nat]
    BY <2>1, TokenFacts
  <2>3. IsFiniteSet(group)
    <3>1. group \in SUBSET Begun
      BY <1>4 DEF Begun, At
    <3>. QED
      BY <3>1, FS_Subset DEF PostsInv
  <2> HIDE DEF next, f
  <2>4. PICK c \in group : \A d \in group : f[d] <= f[c]
    BY <2>2, <2>3, LastCall
  <2>5. ASSUME NEW d \in group \ {c}, WaitsFor(c, d)
        PROVE  FALSE
    <3>1. PICK x \in NextTokens(c) : x \in calls[d].locks
      BY <1>4, <2>5 DEF WaitsFor, At
    <3>2. TokenRank[x] < TokenRank[next[d]]
      BY <1>4, <2>1, <3>1, CallFacts DEF InOrder, At
    <3>3. TokenRank[next[c]] <= TokenRank[x]
      BY <2>1, <3>1 DEF NextTokens
    <3>4. TokenRank[x] \in Nat /\ TokenRank[next[c]] \in Nat /\ TokenRank[next[d]] \in Nat
      BY <2>1, <3>1, TokenFacts
    <3>. QED
      BY <2>1, <2>4, <3>2, <3>3, <3>4
  <2>. QED
    BY <2>5
<1>. QED
  BY <1>1, <1>2, <1>3, <1>4

\* lockJobPostIdentities sorts the tokens it locks: transactions that lock
\* identities never wait for one another in a ring, however many they are
\* (lock-job-post-identities.ts:13).
THEOREM NoRingOfLocks == PostsSpec => []NoLockCycle
  BY InitPosts, StepPosts, NoCycle, PTL DEF PostsSpec

-----------------------------------------------------------------------------
(* The transactions implement JobIdentity: each takes effect when it ends. *)

\* JobIdentity speaks of the listings JobPosts speaks of.
LEMMA SameListings ==
  /\ Identity!Keys = Keys /\ Identity!Inputs = Inputs
  /\ \A input : Identity!KeysOf(input) = KeysOf(input)
  /\ \A old, input : Identity!Upserted(old, input) = Upserted(old, input)
  /\ \A old, input, own : Identity!NetNew(old, input, own) <=> NetNew(old, input, own)
<1>1. Identity!Keys = Keys /\ Identity!Inputs = Inputs
  BY DEF Identity!Keys, Keys, Identity!Inputs, Inputs
<1>2. \A input : Identity!KeysOf(input) = KeysOf(input)
  BY DEF Identity!KeysOf, KeysOf
<1>3. \A old, input : Identity!Upserted(old, input) = Upserted(old, input)
  BY <1>1, <1>2 DEF Identity!Upserted, Upserted
<1>4. Identity!IdentityTokens = IdentityTokens
  BY DEF Identity!IdentityTokens, IdentityTokens, Identity!IdentityAliases, IdentityAliases,
     Identity!SystemAliases, SystemAliases, Identity!IsCanonicalJobUrl, IsCanonicalJobUrl,
     Identity!UuidHosts, UuidHosts
<1>5. \A p, q : Identity!SameJob(p, q) <=> SameJob(p, q)
  BY <1>4 DEF Identity!SameJob, SameJob
<1>6. \A old, input, own : Identity!NetNew(old, input, own) <=> NetNew(old, input, own)
  BY <1>1, <1>2, <1>5 DEF Identity!NetNew, NetNew
<1>. QED
  BY <1>1, <1>2, <1>3, <1>6

LEMMA RefineInit == PostsInit => Identity!Init
<1> SUFFICES ASSUME PostsInit
             PROVE  Identity!Init
  OBVIOUS
<1>1. \A c \in Calls : calls[c].outcome = "none"
  BY DEF PostsInit, NewCall
<1>2. rows \in [Keys -> Posts \union {NoPost}]
  BY EarlierAssumption DEF PostsInit
<1>. QED
  BY <1>1, <1>2, SameListings DEF PostsInit, Identity!Init, Stored

\* A step that ends no call is none to those who watch the replies.
LEMMA Stutters ==
  ASSUME UNCHANGED database, \A d \in Calls : calls'[d].outcome = calls[d].outcome
  PROVE  UNCHANGED Identity!vars
BY DEF Identity!vars, database

LEMMA Replies ==
  ASSUME PostsInv, NEW c \in Calls, NEW outcome \in Outcomes,
         calls[c].step # "done", calls'[c].outcome = outcome,
         \A d \in Others(c) : calls'[d].outcome = calls[d].outcome
  PROVE  Identity!Answer(c, outcome)
<1>1. calls[c].outcome = "none"
  BY CallFacts DEF Sound
<1>. QED
  BY <1>1 DEF Identity!Answer, Others

LEMMA FinishReplies ==
  ASSUME PostsInv, NEW c \in Calls, NEW outcome \in Outcomes,
         calls[c].step # "done", Finish(c, outcome)
  PROVE  Identity!Answer(c, outcome)
<1> DEFINE end == [NewCall EXCEPT !.step = "done", !.outcome = outcome]
<1>1. calls' = [calls EXCEPT ![c] = end] /\ end.outcome = outcome
  BY OutcomeCall DEF Finish
<1> HIDE DEF end
<1>2. calls'[c].outcome = outcome /\ \A d \in Others(c) : calls'[d].outcome = calls[d].outcome
  BY <1>1 DEF PostsInv, PostsTypeOK, Others
<1>. QED
  BY <1>2, Replies

\* A call that ends without a change is answered "absent" or "failed".
LEMMA RefineEnd ==
  ASSUME PostsInv, NEW c \in Calls, NEW outcome \in {"absent", "failed"},
         calls[c].step # "done", Finish(c, outcome), UNCHANGED database
  PROVE  Identity!Next
<1>1. Identity!Answer(c, outcome)
  BY FinishReplies DEF Outcomes
<1>2. Identity!Effect(outcome)
  BY DEF Identity!Effect, database
<1>. QED
  BY <1>1, <1>2 DEF Identity!Next

LEMMA RefineRefusal ==
  ASSUME PostsInv, NEW c \in Calls, calls[c].step # "done",
         calls[c].report \in Reports, ~ NetNew(rows, calls[c].posts, SameReportKeys(c)),
         Finish(c, "conflict"), UNCHANGED database
  PROVE  Identity!Next
<1>1. Identity!Answer(c, "conflict")
  BY FinishReplies DEF Outcomes
<1>2. calls[c].posts \in Inputs
  BY CallFacts DEF Sound
<1>3. Identity!RefuseReport(calls[c].report, calls[c].posts)
  BY SameListings DEF Identity!RefuseReport, SameReportKeys, database
<1>4. Identity!Effect("conflict")
  BY <1>2, <1>3, SameListings DEF Identity!Effect
<1>. QED
  BY <1>1, <1>4 DEF Identity!Next

LEMMA RefineCheck ==
  ASSUME PostsInv, NEW c \in Calls, Check(c)
  PROVE  [Identity!Next]_Identity!vars
<1>1. calls[c].step = "check" /\ calls[c].report \in Reports /\ calls[c] \in Call
  BY CallFacts DEF Check, At, Sound
<1>2. CASE Conflicts(c) # {}
  BY <1>1, <1>2, ConflictsFound, RefineRefusal DEF Check
<1>3. CASE Conflicts(c) = {}
  BY <1>1, <1>3, Stutters DEF Check, PostsInv, PostsTypeOK, Call
<1>. QED
  BY <1>2, <1>3

\* No row can appear behind the check of a report that holds its token, so a
\* write never finds one; an expected row may be gone.
LEMMA RefineWrite ==
  ASSUME PostsInv, NEW c \in Calls, NEW p \in Posts, Write(c, p)
  PROVE  [Identity!Next]_Identity!vars
<1> DEFINE call == calls[c]
           k == p.sourceKey
<1>1. /\ call \in Call /\ StillNetNew(call) /\ call.step = "write" /\ p \in call.posts
      /\ k \in Keys
  BY CallFacts, TokenFacts DEF Write, At
<1>2. CASE call.kind = "netnew" /\ Stored(k) # (k \in call.own)
  <2>1. Stored(k) => k \in call.own
    <3>1. ASSUME Stored(k)
          PROVE  SameJob(p, rows[k])
      <4>1. rows[k] \in Posts /\ rows[k].sourceKey = k
        BY <1>1, <3>1 DEF PostsInv, PostsTypeOK, DatabaseInv, Stored
      <4>. QED
        BY <4>1, TokenFacts
    <3>. QED
      BY <1>1, <1>2, <3>1 DEF StillNetNew
  <2>2. ~ Stored(k)
    BY <1>2, <2>1 DEF Stored
  <2>3. Finish(c, "failed")
    BY <1>2, <2>2 DEF Write
  <2>. QED
    BY <1>1, <2>3, RefineEnd DEF Write
<1>3. CASE ~ (call.kind = "netnew" /\ Stored(k) # (k \in call.own))
  BY <1>1, <1>3, Stutters DEF Write, PostsInv, PostsTypeOK, Call
<1>. QED
  BY <1>2, <1>3

LEMMA RefineCommit ==
  ASSUME PostsInv, NEW c \in Calls, Commit(c)
  PROVE  Identity!Next
<1> DEFINE call == calls[c]
<1>1. /\ call \in Call /\ Sound(call) /\ StillNetNew(call) /\ call.step = "write"
      /\ call.posts \in Inputs
  BY CallFacts DEF Commit, At, Sound
<1>2. /\ call.kind = "netnew" => Identity!Answer(c, "net-new")
      /\ call.kind # "netnew" => Identity!Answer(c, "stored")
  <2>1. CASE call.kind = "netnew"
    <3>1. Finish(c, "net-new")
      BY <2>1 DEF Commit, Finish
    <3>. QED
      BY <1>1, <2>1, <3>1, FinishReplies DEF Outcomes
  <2>2. CASE call.kind # "netnew"
    <3>1. Finish(c, "stored")
      BY <2>2 DEF Commit, Finish
    <3>. QED
      BY <1>1, <2>2, <3>1, FinishReplies DEF Outcomes
  <2>. QED
    BY <2>1, <2>2
<1>3. CASE call.kind = "import"
  <2>1. PICK p \in Posts : call.posts = {p}
    BY <1>1, <1>3 DEF Sound
  <2>2. KeysOf({p}) = {p.sourceKey}
    BY DEF KeysOf
  <2>3. Identity!Import(p)
    BY <1>3, <2>1, <2>2, SameListings DEF Commit, Identity!Import
  <2>4. Identity!Effect("stored")
    BY <2>3 DEF Identity!Effect
  <2>. QED
    BY <1>2, <1>3, <2>4 DEF Identity!Next
<1>4. CASE call.kind # "import"
  <2>1. call.report \in Reports /\ call.kind \in {"report", "netnew"}
    BY <1>1, <1>4 DEF Sound
  <2>2. Identity!StoreReport(call.report, call.posts)
    BY <1>4, SameListings DEF Commit, Identity!StoreReport
  <2>3. CASE call.kind = "report"
    <3>1. Identity!Effect("stored")
      BY <1>1, <2>1, <2>2, SameListings DEF Identity!Effect
    <3>. QED
      BY <1>2, <2>3, <3>1 DEF Identity!Next
  <2>4. CASE call.kind = "netnew"
    <3>1. NetNew(rows, call.posts, reported[call.report])
      BY <1>1, <2>4 DEF StillNetNew, NetNew, Stored
    <3>2. Identity!Effect("net-new")
      BY <1>1, <2>1, <2>2, <3>1, SameListings DEF Identity!Effect, Identity!StoreNetNewReport
    <3>. QED
      BY <1>2, <2>4, <3>2 DEF Identity!Next
  <2>. QED
    BY <2>1, <2>3, <2>4
<1>. QED
  BY <1>3, <1>4

LEMMA RefineCascade ==
  ASSUME PostsInv, NEW c \in Calls, Cascade(c)
  PROVE  Identity!Next
<1>1. calls[c].step = "cascade" /\ Sound(calls[c])
  BY CallFacts DEF Cascade, At
<1>2. PICK k \in Keys : calls[c].own = {k} /\ k \in userAdded
  <2>1. calls[c].own # {} /\ calls[c].own \subseteq userAdded
    BY <1>1 DEF PostsInv, RemovalInv, At
  <2>. QED
    BY <1>1, <2>1 DEF Sound
<1>3. Identity!Answer(c, "removed")
  <2>1. calls'[c].outcome = "removed"
    BY DEF Cascade, NewCall
  <2>2. ASSUME NEW d \in Others(c)
        PROVE  calls'[d].outcome = calls[d].outcome
    <3>1. calls[d] \in Call /\ d \in Calls /\ d # c
      BY CallFacts DEF Others
    <3>. QED
      BY <3>1 DEF Cascade, Call
  <2>. QED
    BY <1>1, <2>1, <2>2, Replies DEF Outcomes
<1>4. Identity!Remove(k)
  BY <1>2, SameListings DEF Cascade, Identity!Remove, PostsInv, PostsTypeOK
<1>5. Identity!Effect("removed")
  BY <1>4, SameListings DEF Identity!Effect
<1>. QED
  BY <1>3, <1>5 DEF Identity!Next

LEMMA RefineStep == PostsInv /\ [PostsNext]_postVars => [Identity!Next]_Identity!vars
<1> SUFFICES ASSUME PostsInv, [PostsNext]_postVars
             PROVE  [Identity!Next]_Identity!vars
  OBVIOUS
<1>1. ASSUME NEW c \in Calls, NEW kind, NEW step, NEW report, NEW posts, NEW own,
             Request(c, kind, step, report, posts, own)
      PROVE  UNCHANGED Identity!vars
  <2>1. calls[c].outcome = "none"
    BY <1>1, CallFacts DEF Request, At, Sound
  <2>2. calls'[c].outcome = "none" /\ \A d \in Others(c) : calls'[d] = calls[d]
    BY <1>1 DEF Request, NewCall, PostsInv, PostsTypeOK, Others
  <2>. QED
    BY <1>1, <2>1, <2>2, Stutters DEF Request, Others
<1>2. ASSUME NEW c \in Calls,
             \/ \E p \in Posts : RequestImport(c, p)
             \/ \E r \in Reports, input \in Inputs, guarded \in BOOLEAN :
                  RequestReport(c, r, input, guarded)
             \/ \E k \in Keys : RequestRemoval(c, k)
      PROVE  UNCHANGED Identity!vars
  BY <1>1, <1>2 DEF RequestImport, RequestReport, RequestRemoval
<1>3. ASSUME NEW c \in Calls, Lock(c)
      PROVE  UNCHANGED Identity!vars
  BY <1>3, Stutters DEF Lock, PostsInv, PostsTypeOK, Call
<1>4. ASSUME NEW c \in Calls, Claim(c)
      PROVE  UNCHANGED Identity!vars
  BY <1>4, Stutters DEF Claim, Advance, PostsInv, PostsTypeOK, Call
<1>5. ASSUME NEW c \in Calls, Delete(c)
      PROVE  [Identity!Next]_Identity!vars
  <2>1. CASE Removable(c)
    BY <1>5, <2>1, Stutters DEF Delete, Advance, PostsInv, PostsTypeOK, Call
  <2>2. CASE ~ Removable(c)
    BY <1>5, <2>2, RefineEnd DEF Delete, At
  <2>. QED
    BY <2>1, <2>2
<1>6. ASSUME NEW c \in Calls, Fail(c)
      PROVE  Identity!Next
  BY <1>6, RefineEnd DEF Fail
<1>7. CASE UNCHANGED postVars
  BY <1>7, Stutters DEF postVars
<1>. QED
  BY <1>2, <1>3, <1>4, <1>5, <1>6, <1>7, RefineCheck, RefineWrite, RefineCommit, RefineCascade
     DEF PostsNext

\* Importing, reporting and removing posts in transactions that lock, read and
\* write one after another is what JobIdentity promises: each takes effect at
\* one moment or not at all, and a report that must be net-new is stored only
\* while no other stored post is the same job as one of its posts
\* (job-post.repository.ts, search-report.repository.ts).
THEOREM PostsImplementIdentity == PostsSpec => ImplementsIdentity
<1>1. PostsInv /\ [PostsNext]_postVars => PostsInv' /\ [Identity!Next]_Identity!vars
  BY StepPosts, RefineStep
<1>2. PostsInit => PostsInv /\ Identity!Init
  BY InitPosts, RefineInit
<1>. QED
  BY <1>1, <1>2, PTL DEF PostsSpec, ImplementsIdentity, Identity!Spec
=============================================================================
