----------------------------- MODULE ClientProofs ------------------------------
(***************************************************************************)
(* Theorems about the client's pages of job posts and of automations, for  *)
(* every set of keys, of rules and of schedules, and every bound: however  *)
(* the answers to a page's requests overtake each other,                   *)
(*   - a page of posts that has heard everything shows the server's posts, *)
(*     but for those whose label it has not heard of, and saves one        *)
(*     import's result at a time, which does not end with its session;     *)
(*   - a save of automations changes nothing but what its page showed.     *)
(* And however long a week, and whatever the limits on times and positions *)
(* that fit each other: a schedule is read, written and predicted as its   *)
(* rule says.                                                              *)
(***************************************************************************)
EXTENDS MCClient, OutreachStoreProofs, FiniteSetTheorems, SequenceTheorems, WellFoundedInduction, TLAPS

-----------------------------------------------------------------------------
(* The posts of a page (ReviewStores): the invariant.                      *)

\* Requests the server has not handled; an import's post, or a removal, of
\* which the answer is on its way.
Unserved == {k \in requests : k.answer = "none"}
Adding(id) == \E k \in requests : k.op = "add" /\ k.answer = "ok" /\ id \in IdsOf(k.got)
Removing(id) == \E k \in requests : k.op = "remove" /\ k.answer = "ok" /\ k.id = id

\* Ids are given in order, and every revision is of a request that was handled.
CountsInv ==
  /\ lastId \in 0 .. MaxPosts /\ mutation \in Nat
  /\ made \in 0 .. MaxRequests /\ imports \in 0 .. MaxImports
  /\ IsFiniteSet(requests) /\ Cardinality(Unserved) <= made
  /\ \A id \in DOMAIN rows : id <= lastId /\ rows[id].revision + Cardinality(Unserved) <= 1 + made

\* What was asked for.
SentInv(k) ==
  /\ k.op \in {"label", "remove"} => k.id \in PostIdentifiers
  /\ k.op = "add" => k.key \in Keys
  /\ k.since <= mutation /\ k.import <= imports
  /\ \A i \in k.got : i.id <= lastId
  /\ \A i, j \in k.got : i.id = j.id => i = j

\* An answer says what is still so, but for what other answers will tell or
\* have told.
ListInv(k) ==
  /\ \A id \in DOMAIN rows \ IdsOf(k.got) :
       rows[id].added => Adding(id) \/ id \in ChangedSince(k.since)
  /\ \A id \in IdsOf(k.got) \ DOMAIN rows : Removing(id) \/ id \in ChangedSince(k.since)

ResultInv(k) ==
  \E id \in PostIdentifiers :
    /\ IdsOf(k.got) = {id}
    /\ id \in DOMAIN rows => rows[id].key = k.key
    /\ id \notin DOMAIN rows => Removing(id) \/ id \in late

AnswerInv(k) ==
  /\ k.op \in {"list", "add"} => \A id \in IdsOf(k.got) \intersect DOMAIN rows : rows[id].added
  /\ k.op = "remove" => k.id \notin DOMAIN rows /\ k.id <= lastId
  /\ k.op = "list" => ListInv(k)
  /\ k.op = "add" => ResultInv(k)

AddedInv == \A id \in added : id <= lastId /\ (id \in DOMAIN rows => rows[id].added)

\* The session is of the latest import, as is what is being saved.  A task that
\* runs has no result yet, and none that was handled, so that its result will be
\* saved.
Adds == {k \in requests : k.op = "add"}

SessionInv ==
  /\ session # Missing =>
       /\ session.number = imports
       /\ session.status = "running" => ~ session.valid /\ retryMode = Missing
       /\ session.valid => retryMode # "task"
  /\ saving <=> Adds # {}
  /\ \A k \in Adds :
       /\ k.import = imports /\ \A l \in Adds : l = k
       /\ session # Missing => session.valid /\ session.key = k.key

ReviewInv ==
  /\ ReviewTypeOK /\ CountsInv /\ AddedInv /\ SessionInv
  /\ \A k \in requests : SentInv(k) /\ (k.answer = "ok" => AnswerInv(k))

-----------------------------------------------------------------------------
(* Lemmas about the operators.                                             *)

LEMMA BoundsAreNatural ==
  /\ PostIdentifiers \subseteq Nat \ {0} /\ Revision \subseteq Nat /\ MaxPosts \in PostIdentifiers
  /\ Missing \notin Import /\ Missing \notin PostIdentifiers /\ Missing \notin {"save", "task"}
  BY ReviewAssumption, MissingAssumption DEF PostIdentifiers, Revision

LEMMA IdsOfItems ==
  ASSUME NEW items \in SUBSET Item
  PROVE  IdsOf(items) \subseteq PostIdentifiers
  BY DEF IdsOf, Item

\* savePost keeps the later revision, and every post there is.
LEMMA MergedIsLater ==
  ASSUME NEW items \in SUBSET Item,
         \A i, j \in items : i.id = j.id => i = j,
         DOMAIN posts \subseteq PostIdentifiers, posts \in [DOMAIN posts -> Revision]
  PROVE  /\ DOMAIN Merged(items) = DOMAIN posts \union IdsOf(items)
         /\ DOMAIN Merged(items) \subseteq PostIdentifiers
         /\ Merged(items) \in [DOMAIN Merged(items) -> Revision]
         /\ \A id \in DOMAIN posts : Merged(items)[id] >= posts[id]
<1>1. DOMAIN Merged(items) = DOMAIN posts \union IdsOf(items)
  BY DEF Merged
<1>2. ASSUME NEW id \in DOMAIN posts \union IdsOf(items)
      PROVE  /\ Merged(items)[id] \in Revision
             /\ id \in DOMAIN posts => Merged(items)[id] >= posts[id]
  <2> DEFINE new == {i.revision : i \in {j \in items : j.id = id}}
             old == IF id \in DOMAIN posts THEN {posts[id]} ELSE {}
  <2>1. Merged(items)[id] = CHOOSE r \in new \union old : \A s \in new \union old : s <= r
    BY <1>2 DEF Merged
  <2>2. new \subseteq Revision /\ old \subseteq Revision
    BY DEF Item
  <2>3. \A r, s \in new : r = s
    OBVIOUS
  <2>4. new \union old # {}
    BY <1>2 DEF IdsOf
  <2> HIDE DEF new
  <2>5. \E r \in new \union old : \A s \in new \union old : s <= r
    <3>1. CASE new = {}
      BY <2>2, <2>4, <3>1, BoundsAreNatural
    <3>2. CASE new # {}
      <4>1. PICK r \in new : TRUE
        BY <3>2
      <4>2. new = {r}
        BY <4>1, <2>3
      <4>3. r \in Nat /\ (id \in DOMAIN posts => posts[id] \in Nat)
        BY <4>1, <2>2, BoundsAreNatural
      <4>4. CASE id \in DOMAIN posts /\ posts[id] > r
        BY <4>2, <4>3, <4>4
      <4>5. CASE ~ (id \in DOMAIN posts /\ posts[id] > r)
        BY <4>2, <4>3, <4>5
      <4> QED BY <4>4, <4>5
    <3> QED BY <3>1, <3>2
  <2>6. /\ Merged(items)[id] \in new \union old
        /\ \A s \in new \union old : s <= Merged(items)[id]
    BY <2>1, <2>5
  <2>7. id \in DOMAIN posts => posts[id] <= Merged(items)[id]
    BY <2>6
  <2> QED BY <2>2, <2>6, <2>7, BoundsAreNatural
<1>3. DOMAIN Merged(items) \subseteq PostIdentifiers
  BY <1>1, IdsOfItems
<1>4. Merged(items) \in [DOMAIN Merged(items) -> Revision]
  <2>1. Merged(items) = [id \in DOMAIN Merged(items) |-> Merged(items)[id]]
    BY DEF Merged
  <2> QED BY <2>1, <1>1, <1>2
<1> QED BY <1>1, <1>2, <1>3, <1>4

\* The requests that are handled are counted by those that are left.
LEMMA SendCounts ==
  ASSUME CountsInv, NEW op, NEW id, NEW key, NEW import, Send(op, id, key, import)
  PROVE  /\ IsFiniteSet(requests') /\ Cardinality(Unserved) \in Nat
         /\ Cardinality(Unserved') \in Nat /\ Cardinality(Unserved') <= Cardinality(Unserved) + 1
         /\ made' = made + 1 /\ made < MaxRequests
<1> DEFINE r == [op |-> op, id |-> id, key |-> key, since |-> mutation, import |-> import,
                 answer |-> "none", got |-> {}]
<1>1. requests' = requests \union {r} /\ made' = made + 1 /\ made < MaxRequests
  BY DEF Send
<1>2. Unserved' = Unserved \union {r}
  BY <1>1 DEF Unserved
<1>3. IsFiniteSet(requests') /\ IsFiniteSet(Unserved)
  BY <1>1, FS_AddElement, FS_Subset DEF CountsInv, Unserved
<1>4. Cardinality(Unserved) \in Nat
  BY <1>3, FS_CardinalityType
<1>5. Cardinality(Unserved') = IF r \in Unserved THEN Cardinality(Unserved)
                                                 ELSE Cardinality(Unserved) + 1
  BY <1>2, <1>3, FS_AddElement
<1> QED BY <1>1, <1>3, <1>4, <1>5

LEMMA ServeCounts ==
  ASSUME CountsInv, NEW k \in requests, k.answer = "none", NEW answer \in {"ok", "failed"},
         NEW got, Answered(k, answer, got), requests \subseteq ReviewRequest
  PROVE  /\ IsFiniteSet(requests') /\ Cardinality(Unserved) \in Nat
         /\ Cardinality(Unserved') \in Nat /\ Cardinality(Unserved') + 1 <= Cardinality(Unserved)
<1>1. requests' = (requests \ {k}) \union {[k EXCEPT !.answer = answer, !.got = got]}
  BY DEF Answered
<1>2. [k EXCEPT !.answer = answer, !.got = got].answer = answer
  BY DEF ReviewRequest
<1>3. Unserved' = Unserved \ {k} /\ k \in Unserved
  BY <1>1, <1>2 DEF Unserved
<1>4. IsFiniteSet(requests') /\ IsFiniteSet(Unserved)
  BY <1>1, FS_AddElement, FS_RemoveElement, FS_Subset DEF CountsInv, Unserved
<1>5. Cardinality(Unserved') = Cardinality(Unserved) - 1 /\ IsFiniteSet(Unserved')
  BY <1>3, <1>4, FS_RemoveElement
<1>6. Cardinality(Unserved) \in Nat /\ Cardinality(Unserved') \in Nat
  BY <1>4, <1>5, FS_CardinalityType
<1> QED BY <1>4, <1>5, <1>6

LEMMA TakeCounts ==
  ASSUME CountsInv, NEW k \in requests, k.answer # "none", requests' = requests \ {k}
  PROVE  /\ IsFiniteSet(requests') /\ Cardinality(Unserved') = Cardinality(Unserved)
         /\ Cardinality(Unserved) \in Nat
<1>1. Unserved' = Unserved /\ requests' \subseteq requests
  BY DEF Unserved
<1>2. IsFiniteSet(Unserved)
  BY FS_Subset DEF CountsInv, Unserved
<1> QED BY <1>1, <1>2, FS_Subset, FS_CardinalityType DEF CountsInv

-----------------------------------------------------------------------------
(* What a step keeps.                                                      *)

LEMMA SentKept ==
  ASSUME ReviewInv, NEW k \in requests,
         lastId' \in Nat, lastId' >= lastId, mutation' \in Nat, mutation' >= mutation,
         imports' \in Nat, imports' >= imports
  PROVE  SentInv(k)'
<1>1. SentInv(k) /\ k \in ReviewRequest
  BY DEF ReviewInv, ReviewTypeOK
<1>2. k.since \in Nat /\ k.import \in Nat /\ \A i \in k.got : i.id \in Nat
  <2>1. k.since \in Nat /\ k.import \in 0 .. MaxImports /\ k.got \in SUBSET Item
    BY <1>1 DEF ReviewRequest
  <2>2. \A i \in k.got : i.id \in PostIdentifiers
    BY <2>1 DEF Item
  <2>3. PostIdentifiers \subseteq Nat
    BY BoundsAreNatural
  <2>4. k.import \in Nat
    BY <2>1
  <2> QED BY <2>1, <2>2, <2>3, <2>4
<1>3. lastId \in Nat /\ mutation \in Nat /\ imports \in Nat
  BY ReviewAssumption DEF ReviewInv, CountsInv
<1> QED BY <1>1, <1>2, <1>3 DEF SentInv

LEMMA AnswersKept ==
  ASSUME NEW k \in requests, AnswerInv(k),
         DOMAIN rows' = DOMAIN rows, lastId' = lastId, late \subseteq late',
         \A id \in DOMAIN rows : rows'[id].added = rows[id].added /\ rows'[id].key = rows[id].key,
         ChangedSince(k.since) \subseteq ChangedSince(k.since)',
         \A id \in PostIdentifiers :
           /\ Adding(id) => Adding(id)' \/ id \in ChangedSince(k.since)'
           /\ Removing(id) => \/ Removing(id)'
                              \/ id \in ChangedSince(k.since)' /\ (k.op = "add" => id \in late'),
         DOMAIN rows \subseteq PostIdentifiers, IdsOf(k.got) \subseteq PostIdentifiers
  PROVE  AnswerInv(k)'
<1>1. k.op = "list" => ListInv(k)'
  BY DEF AnswerInv, ListInv
<1>2. k.op = "add" => ResultInv(k)'
  BY DEF AnswerInv, ResultInv
<1> QED BY <1>1, <1>2 DEF AnswerInv

LEMMA GotIds ==
  ASSUME requests \subseteq ReviewRequest, NEW k \in requests
  PROVE  k.got \in SUBSET Item /\ IdsOf(k.got) \subseteq PostIdentifiers
  BY IdsOfItems DEF ReviewRequest

\* A request is sent.
LEMMA SendKeeps ==
  ASSUME ReviewInv,
         NEW op \in {"list", "reports", "label", "remove", "add"}, NEW id \in 0 .. MaxPosts,
         NEW key \in Keys \union {Missing}, NEW import \in 0 .. MaxImports,
         op \in {"label", "remove"} => id \in PostIdentifiers,
         op = "add" => key \in Keys,
         import <= imports,
         Send(op, id, key, import),
         UNCHANGED <<rows, lastId, postStore, late, imports>>
  PROVE  /\ requests' \subseteq ReviewRequest /\ CountsInv' /\ AddedInv'
         /\ \A k \in requests' : SentInv(k)' /\ (k.answer = "ok" => AnswerInv(k)')
<1>1. PICK r : /\ r = [op |-> op, id |-> id, key |-> key, since |-> mutation, import |-> import,
                         answer |-> "none", got |-> {}]
               /\ requests' = requests \union {r}
  BY DEF Send
<1>2. UNCHANGED <<added, mutations, mutation, posts>>
  BY DEF postStore
<1>3. mutation \in Nat /\ imports \in Nat /\ lastId \in Nat
  BY ReviewAssumption DEF ReviewInv, CountsInv
<1>4. requests' \subseteq ReviewRequest
  <2>1. r \in ReviewRequest
    BY <1>1, <1>3 DEF ReviewRequest
  <2> QED BY <2>1, <1>1 DEF ReviewInv, ReviewTypeOK
<1>5. CountsInv'
  <2>1. /\ IsFiniteSet(requests') /\ Cardinality(Unserved) \in Nat
        /\ Cardinality(Unserved') \in Nat /\ Cardinality(Unserved') <= Cardinality(Unserved) + 1
        /\ made' = made + 1 /\ made < MaxRequests
    BY SendCounts DEF ReviewInv
  <2>2. \A i \in DOMAIN rows : rows[i].revision \in Nat
    BY BoundsAreNatural DEF ReviewInv, ReviewTypeOK, Row
  <2>3. CountsInv /\ UNCHANGED <<rows, lastId, mutation, imports>>
    BY <1>2 DEF ReviewInv
  <2>4. made' \in 0 .. MaxRequests /\ Cardinality(Unserved') <= made'
    BY <2>1, <2>3, ReviewAssumption DEF CountsInv
  <2>5. ASSUME NEW i \in DOMAIN rows'
        PROVE  i <= lastId' /\ rows'[i].revision + Cardinality(Unserved') <= 1 + made'
    <3>1. /\ i <= lastId /\ rows[i].revision \in Nat /\ made \in Nat
          /\ rows[i].revision + Cardinality(Unserved) <= 1 + made
      BY <2>2, <2>3, <2>5, ReviewAssumption DEF CountsInv
    <3>2. rows'[i].revision = rows[i].revision /\ lastId' = lastId
      BY <2>3
    <3> HIDE DEF CountsInv
    <3> QED BY <3>1, <3>2, <2>1
  <2> QED BY <2>1, <2>3, <2>4, <2>5 DEF CountsInv
<1>6. AddedInv'
  BY <1>2 DEF ReviewInv, AddedInv
<1>7. SentInv(r)'
  BY <1>1, <1>2, <1>3 DEF SentInv
<1>8. ASSUME NEW k \in requests
      PROVE  SentInv(k)' /\ (k.answer = "ok" => AnswerInv(k)')
  <2>1. SentInv(k)'
    BY <1>2, <1>3, <1>8, SentKept
  <2>2. \A i \in PostIdentifiers : (Adding(i) => Adding(i)') /\ (Removing(i) => Removing(i)')
    BY <1>1 DEF Adding, Removing
  <2>3. ASSUME k.answer = "ok" PROVE AnswerInv(k)'
    <3>1. AnswerInv(k) /\ DOMAIN rows \subseteq PostIdentifiers /\ requests \subseteq ReviewRequest
      BY <1>8, <2>3 DEF ReviewInv, ReviewTypeOK
    <3>2. ChangedSince(k.since)' = ChangedSince(k.since)
      BY <1>2 DEF ChangedSince
    <3>3. IdsOf(k.got) \subseteq PostIdentifiers
      BY <3>1, <1>8, GotIds
    <3> QED BY <1>2, <1>8, <2>2, <3>1, <3>2, <3>3, AnswersKept
  <2> QED BY <2>1, <2>3
<1>9. r.answer = "none"
  BY <1>1
<1>10. ASSUME NEW k \in requests' PROVE SentInv(k)' /\ (k.answer = "ok" => AnswerInv(k)')
  <2>1. CASE k = r
    BY <1>7, <1>9, <2>1
  <2>2. CASE k # r
    <3>1. k \in requests
      BY <1>1, <1>10, <2>2
    <3> QED BY <3>1, <1>8
  <2> QED BY <2>1, <2>2
<1> QED BY <1>4, <1>5, <1>6, <1>10

\* An answer is taken from those that wait.
LEMMA TakeKeeps ==
  ASSUME ReviewInv, NEW k \in requests, k.answer # "none", requests' = requests \ {k},
         UNCHANGED <<rows, lastId, made, imports>>, mutation' \in Nat, mutation' >= mutation,
         late \subseteq late',
         \A s \in Nat : ChangedSince(s) \subseteq ChangedSince(s)',
         k.op = "add" /\ k.answer = "ok" =>
           \A id \in IdsOf(k.got), s \in Nat : s <= mutation => id \in ChangedSince(s)',
         k.op = "remove" /\ k.answer = "ok" =>
           /\ \A s \in Nat : s <= mutation => k.id \in ChangedSince(s)'
           /\ (\E r \in requests : r.op = "add") => k.id \in late'
  PROVE  /\ requests' \subseteq ReviewRequest /\ CountsInv'
         /\ \A r \in requests' : SentInv(r)' /\ (r.answer = "ok" => AnswerInv(r)')
<1>1. requests' \subseteq ReviewRequest
  BY DEF ReviewInv, ReviewTypeOK
<1>2. CountsInv'
  <2>1. CountsInv
    BY DEF ReviewInv
  <2>2. /\ IsFiniteSet(requests') /\ Cardinality(Unserved') = Cardinality(Unserved)
        /\ Cardinality(Unserved) \in Nat
    BY <2>1, TakeCounts
  <2> QED BY <2>1, <2>2 DEF CountsInv
<1>3. mutation \in Nat /\ imports \in Nat /\ lastId \in Nat
  BY ReviewAssumption DEF ReviewInv, CountsInv
<1>4. ASSUME NEW r \in requests'
      PROVE  SentInv(r)' /\ (r.answer = "ok" => AnswerInv(r)')
  <2>1. SentInv(r)'
    BY <1>3, <1>4, SentKept
  <2>2. ASSUME r.answer = "ok" PROVE AnswerInv(r)'
    <3>1. /\ AnswerInv(r) /\ SentInv(r) /\ DOMAIN rows \subseteq PostIdentifiers
          /\ requests \subseteq ReviewRequest /\ r \in requests
      BY <1>4, <2>2 DEF ReviewInv, ReviewTypeOK
    <3>2. r.since \in Nat /\ r.since <= mutation /\ IdsOf(r.got) \subseteq PostIdentifiers
      BY <3>1, GotIds DEF ReviewRequest, SentInv
    <3>3. ASSUME NEW id \in PostIdentifiers
          PROVE  /\ Adding(id) => Adding(id)' \/ id \in ChangedSince(r.since)'
                 /\ Removing(id) => \/ Removing(id)'
                                    \/ /\ id \in ChangedSince(r.since)'
                                       /\ r.op = "add" => id \in late'
      <4>1. ASSUME Adding(id) PROVE Adding(id)' \/ id \in ChangedSince(r.since)'
        <5>1. PICK a \in requests : a.op = "add" /\ a.answer = "ok" /\ id \in IdsOf(a.got)
          BY <4>1 DEF Adding
        <5>2. CASE a = k
          BY <5>1, <5>2, <3>2
        <5>3. CASE a # k
          <6>1. a \in requests'
            BY <5>3
          <6> QED BY <5>1, <6>1 DEF Adding
        <5> QED BY <5>2, <5>3
      <4>2. ASSUME Removing(id)
            PROVE  \/ Removing(id)'
                   \/ id \in ChangedSince(r.since)' /\ (r.op = "add" => id \in late')
        <5>1. PICK a \in requests : a.op = "remove" /\ a.answer = "ok" /\ a.id = id
          BY <4>2 DEF Removing
        <5>2. CASE a = k
          BY <5>1, <5>2, <3>1, <3>2
        <5>3. CASE a # k
          <6>1. a \in requests'
            BY <5>3
          <6> QED BY <5>1, <6>1 DEF Removing
        <5> QED BY <5>2, <5>3
      <4> QED BY <4>1, <4>2
    <3>4. ChangedSince(r.since) \subseteq ChangedSince(r.since)'
      BY <3>2
    <3> HIDE DEF AnswerInv, ReviewInv
    <3> QED BY <3>1, <3>2, <3>3, <3>4, AnswersKept
  <2> QED BY <2>1, <2>2
<1> QED BY <1>1, <1>2, <1>4

-----------------------------------------------------------------------------
(* The steps.                                                              *)

\* No save begins or ends.
LEMMA SessionKept ==
  ASSUME ReviewInv, UNCHANGED <<session, imports, saving, retryMode>>, Adds' = Adds
  PROVE  SessionInv'
  BY DEF ReviewInv, SessionInv

\* The save that is under way ends, with its session or without.
LEMMA SaveOver ==
  ASSUME ReviewInv, NEW k \in requests, k.op = "add", requests' = requests \ {k}, SaveEnds(k),
         session' \in {session, Missing}, UNCHANGED <<imports, retryMode>>
  PROVE  SessionInv' /\ saving' = FALSE
<1>1. k \in Adds /\ Adds' = Adds \ {k}
  BY DEF Adds
<1>2. k.import = imports /\ Adds = {k}
  BY <1>1 DEF ReviewInv, SessionInv
<1>3. Adds' = {} /\ saving' = FALSE
  BY <1>1, <1>2 DEF SaveEnds
<1> QED BY <1>3 DEF ReviewInv, SessionInv

\* The user asks for lists, labels and removes.
LEMMA AsksStep ==
  ASSUME ReviewInv,
         \/ \E op \in {"list", "reports"} : Load(op)
         \/ \E id \in PostIdentifiers : Label(id) \/ RemovePost(id)
  PROVE  ReviewInv'
<1>1. ASSUME NEW op \in {"list", "reports", "label", "remove"}, NEW id \in 0 .. MaxPosts,
             op \in {"label", "remove"} => id \in PostIdentifiers,
             Send(op, id, Missing, 0), removing' \in {id, removing}, op # "remove" => removing' = removing,
             UNCHANGED <<serverVars, postStore, reports, importStore, imports, late>>
      PROVE  ReviewInv'
  <2>1. 0 <= imports /\ 0 \in 0 .. MaxImports
    BY ReviewAssumption DEF ReviewInv, CountsInv
  <2>2. /\ requests' \subseteq ReviewRequest /\ CountsInv' /\ AddedInv'
        /\ \A k \in requests' : SentInv(k)' /\ (k.answer = "ok" => AnswerInv(k)')
    BY <1>1, <2>1, SendKeeps DEF serverVars
  <2>3. Adds' = Adds
    BY <1>1 DEF Send, Adds
  <2>4. SessionInv'
    BY <1>1, <2>3, SessionKept DEF importStore
  <2>5. removing' \in PostIdentifiers \union {Missing}
    BY <1>1 DEF ReviewInv, ReviewTypeOK
  <2>6. ReviewTypeOK'
    BY <1>1, <2>2, <2>5 DEF ReviewInv, ReviewTypeOK, serverVars, postStore, importStore
  <2> QED BY <2>2, <2>4, <2>6 DEF ReviewInv
<1>2. ASSUME NEW op \in {"list", "reports"}, Load(op) PROVE ReviewInv'
  <2>1. 0 \in 0 .. MaxPosts
    BY ReviewAssumption
  <2> QED BY <1>1, <1>2, <2>1 DEF Load
<1>3. ASSUME NEW id \in PostIdentifiers, Label(id) \/ RemovePost(id) PROVE ReviewInv'
  <2>1. id \in 0 .. MaxPosts
    BY ReviewAssumption DEF PostIdentifiers
  <2>2. CASE Label(id)
    BY <1>1, <2>1, <2>2 DEF Label
  <2>3. CASE RemovePost(id)
    BY <1>1, <2>1, <2>3 DEF RemovePost
  <2> QED BY <1>3, <2>2, <2>3
<1> QED BY <1>2, <1>3

\* Requests and posts stay as they are.
LEMMA ImportKeeps ==
  ASSUME ReviewInv, UNCHANGED <<serverVars, postStore, reports, removing, requests, made, late>>,
         imports' \in 0 .. MaxImports, imports' >= imports,
         session' \in Import \union {Missing}, saving' \in BOOLEAN,
         retryMode' \in {"save", "task", Missing}, SessionInv'
  PROVE  ReviewInv'
<1>1. UNCHANGED <<rows, lastId, posts, added, mutations, mutation>>
  BY DEF serverVars, postStore
<1>2. CountsInv' /\ AddedInv'
  BY <1>1 DEF ReviewInv, CountsInv, AddedInv, Unserved
<1>3. mutation \in Nat /\ imports \in Nat /\ lastId \in Nat /\ imports' \in Nat
  BY ReviewAssumption DEF ReviewInv, CountsInv
<1>4. ASSUME NEW k \in requests'
      PROVE  SentInv(k)' /\ (k.answer = "ok" => AnswerInv(k)')
  <2>1. SentInv(k)'
    BY <1>1, <1>3, <1>4, SentKept
  <2>2. ASSUME k.answer = "ok" PROVE AnswerInv(k)'
    <3>1. AnswerInv(k)
      BY <1>4, <2>2 DEF ReviewInv
    <3> QED BY <3>1, <1>1 DEF AnswerInv, ListInv, ResultInv, Adding, Removing, ChangedSince
  <2> QED BY <2>1, <2>2
<1>5. ReviewTypeOK'
  BY <1>1 DEF ReviewInv, ReviewTypeOK
<1> QED BY <1>2, <1>4, <1>5 DEF ReviewInv

LEMMA StartImportStep ==
  ASSUME ReviewInv, NEW key \in Keys, StartImport(key)
  PROVE  ReviewInv'
<1> DEFINE new == [key |-> key, valid |-> FALSE, number |-> imports + 1, status |-> "running"]
<1>1. imports \in 0 .. MaxImports /\ imports' = imports + 1 /\ imports < MaxImports /\ session' = new
  BY DEF ReviewInv, CountsInv, StartImport
<1>2. imports' \in 1 .. MaxImports /\ imports' \in 0 .. MaxImports /\ imports' >= imports
  BY <1>1, ReviewAssumption
<1>3. session' \in Import
  BY <1>1, <1>2 DEF Import
<1>4. Adds = {} /\ saving = FALSE /\ Adds' = Adds /\ saving' = saving /\ retryMode' = Missing
  BY DEF StartImport, Busy, ReviewInv, ReviewTypeOK, SessionInv, Adds
<1>5. session'.number = imports' /\ ~ session'.valid
  BY <1>1
<1>6. SessionInv'
  BY <1>4, <1>5 DEF SessionInv
<1> HIDE DEF new
<1> QED BY <1>2, <1>3, <1>6, ImportKeeps DEF StartImport, ReviewInv, ReviewTypeOK

LEMMA ImportEndsStep ==
  ASSUME ReviewInv, NEW status \in {"completed", "failed", "cancelled"}, NEW valid \in BOOLEAN,
         ImportEnds(status, valid)
  PROVE  ReviewInv'
<1>1. /\ session \in Import /\ session' = [session EXCEPT !.status = status, !.valid = valid]
      /\ imports' = imports /\ imports \in 0 .. MaxImports /\ requests' = requests
  BY DEF ImportEnds, ReviewInv, ReviewTypeOK, CountsInv
<1>2. /\ session' \in Import /\ session'.key = session.key /\ session'.number = session.number
      /\ session'.status = status
  BY <1>1 DEF Import
<1>3. Adds = {} /\ Adds' = Adds /\ retryMode = Missing
  BY <1>1 DEF ImportEnds, ReviewInv, SessionInv, Adds
<1>4. SessionInv'
  BY <1>1, <1>2, <1>3, MissingAssumption DEF SessionInv, ReviewInv, ImportEnds
<1> QED BY <1>1, <1>2, <1>4, ImportKeeps, ReviewAssumption DEF ImportEnds, ReviewInv, ReviewTypeOK

LEMMA RetryImportStep ==
  ASSUME ReviewInv, RetryImport
  PROVE  ReviewInv'
<1>1. /\ session \in Import /\ imports \in 0 .. MaxImports /\ requests' = requests
      /\ session' = [session EXCEPT !.status = "running", !.valid = FALSE, !.number = imports + 1]
      /\ imports' = imports + 1 /\ imports < MaxImports
  BY DEF RetryImport, ReviewInv, ReviewTypeOK, CountsInv
<1>2. imports' \in 1 .. MaxImports /\ imports' \in 0 .. MaxImports /\ imports' >= imports
  BY <1>1, ReviewAssumption
<1>3. session' \in Import /\ session'.number = imports' /\ ~ session'.valid
  BY <1>1, <1>2 DEF Import
<1>4. Adds = {} /\ saving = FALSE /\ Adds' = Adds /\ saving' = saving /\ retryMode' = Missing
  BY DEF RetryImport, Busy, ReviewInv, ReviewTypeOK, SessionInv, Adds
<1>5. SessionInv'
  BY <1>3, <1>4 DEF SessionInv
<1> QED BY <1>2, <1>3, <1>5, ImportKeeps DEF RetryImport, ReviewInv, ReviewTypeOK

LEMMA DismissImportStep ==
  ASSUME ReviewInv, DismissImport \/ ClearCancellation
  PROVE  ReviewInv'
<1>1. /\ session' = Missing /\ retryMode' \in {retryMode, Missing} /\ imports' = imports
      /\ UNCHANGED <<serverVars, postStore, reports, removing, saving, requests, made, late>>
  BY DEF DismissImport, ClearCancellation
<1>2. imports' \in 0 .. MaxImports /\ imports' >= imports
  BY <1>1, ReviewAssumption DEF ReviewInv, CountsInv
<1>3. Adds' = Adds
  BY <1>1 DEF Adds
<1>4. SessionInv'
  BY <1>1, <1>3 DEF SessionInv, ReviewInv
<1> QED BY <1>1, <1>2, <1>4, ImportKeeps DEF ReviewInv, ReviewTypeOK

\* The result of the task is saved, or there is none.
LEMMA HandleTaskStep ==
  ASSUME ReviewInv, HandleTask
  PROVE  ReviewInv'
<1>1. session \in Import /\ UNCHANGED <<session, imports, added, late>> /\ imports \in 0 .. MaxImports
  BY DEF HandleTask, ReviewInv, ReviewTypeOK, CountsInv, postStore
<1>2. CASE session.valid
  <2>1. /\ Send("add", 0, session.key, session.number) /\ saving' = TRUE /\ retryMode' = "save"
        /\ UNCHANGED <<rows, lastId, postStore, late, imports, reports, removing, session>>
    BY <1>2 DEF HandleTask, serverVars
  <2>2. session.key \in Keys /\ session.number \in 0 .. MaxImports /\ session.number <= imports
    BY <1>1, ReviewAssumption DEF Import, ReviewInv, SessionInv, HandleTask
  <2>3. 0 \in 0 .. MaxPosts
    BY ReviewAssumption
  <2>4. /\ requests' \subseteq ReviewRequest /\ CountsInv' /\ AddedInv'
        /\ \A k \in requests' : SentInv(k)' /\ (k.answer = "ok" => AnswerInv(k)')
    BY <2>1, <2>2, <2>3, SendKeeps
  <2>5. Adds = {} /\ session # Missing /\ session.number = imports
    BY DEF HandleTask, Processing, Adds, SessionInv, ReviewInv
  <2>6. PICK s : Adds' = {s} /\ s.import = session.number /\ s.key = session.key
    <3>1. PICK s : /\ s = [op |-> "add", id |-> 0, key |-> session.key, since |-> mutation,
                           import |-> session.number, answer |-> "none", got |-> {}]
                   /\ requests' = requests \union {s}
      BY <2>1 DEF Send
    <3>2. s.op = "add" /\ s.import = session.number /\ s.key = session.key
      BY <3>1
    <3>3. Adds' = {s}
      BY <2>5, <3>1, <3>2 DEF Adds
    <3> QED BY <3>2, <3>3
  <2>7. SessionInv'
    BY <1>2, <2>1, <2>5, <2>6 DEF SessionInv, ReviewInv, HandleTask
  <2>8. ReviewTypeOK'
    BY <2>1, <2>4 DEF ReviewInv, ReviewTypeOK, postStore
  <2> QED BY <2>4, <2>7, <2>8 DEF ReviewInv
<1>3. CASE ~ session.valid
  <2>1. /\ UNCHANGED <<serverVars, postStore, reports, removing, session, imports, late, saving, requests, made>>
        /\ retryMode' = "task"
    BY <1>3 DEF HandleTask
  <2>2. Adds' = Adds /\ session # Missing /\ session.status # "running"
    BY <2>1 DEF Adds, HandleTask
  <2>3. SessionInv'
    BY <1>3, <2>1, <2>2 DEF SessionInv, ReviewInv
  <2> QED BY <1>1, <2>1, <2>3, ImportKeeps, ReviewAssumption DEF ReviewInv, ReviewTypeOK
<1> QED BY <1>2, <1>3

\* An answer brings posts into the store, and lists refer to them.
LEMMA BringsStep ==
  ASSUME ReviewInv, NEW k \in requests, k.op \in {"list", "reports", "label"}, k.answer = "ok",
         requests' = requests \ {k},
         NEW items \in SUBSET k.got, posts' = Merged(items),
         added' \union reports' \subseteq added \union reports \union IdsOf(items),
         \A id \in added' : id \in added \/ (k.op = "list" /\ id \in IdsOf(items)),
         UNCHANGED <<serverVars, mutations, mutation, removing, importStore, made, imports, late>>
  PROVE  ReviewInv'
<1>1. k.got \in SUBSET Item /\ SentInv(k) /\ AnswerInv(k)
  BY GotIds DEF ReviewInv, ReviewTypeOK
<1>2. items \in SUBSET Item /\ \A i, j \in items : i.id = j.id => i = j
  BY <1>1 DEF SentInv
<1>3. /\ DOMAIN posts' = DOMAIN posts \union IdsOf(items) /\ DOMAIN posts' \subseteq PostIdentifiers
      /\ posts' \in [DOMAIN posts' -> Revision]
  BY <1>2, MergedIsLater DEF ReviewInv, ReviewTypeOK
<1>4. /\ UNCHANGED <<rows, lastId, imports, session, saving, retryMode, mutation, mutations>>
      /\ mutation \in Nat /\ late \subseteq late'
  BY DEF serverVars, importStore, ReviewInv, CountsInv
<1>5. /\ requests' \subseteq ReviewRequest /\ CountsInv'
      /\ \A r \in requests' : SentInv(r)' /\ (r.answer = "ok" => AnswerInv(r)')
  <2>1. \A s \in Nat : ChangedSince(s) \subseteq ChangedSince(s)'
    BY <1>4 DEF ChangedSince
  <2>2. mutation' \in Nat /\ mutation' >= mutation
    BY <1>4
  <2> QED BY <1>4, <2>1, <2>2, TakeKeeps
<1>6. AddedInv'
  <2>1. \A id \in IdsOf(items) : id <= lastId
    BY <1>1 DEF SentInv, IdsOf
  <2>2. k.op = "list" => \A id \in IdsOf(items) : id \in DOMAIN rows => rows[id].added
    BY <1>1 DEF AnswerInv, IdsOf
  <2> QED BY <1>4, <2>1, <2>2 DEF AddedInv, ReviewInv
<1>7. SessionInv'
  <2>1. Adds' = Adds
    BY DEF Adds
  <2> QED BY <1>4, <2>1, SessionKept
<1>8. ReviewTypeOK'
  <2>1. added' \union reports' \subseteq DOMAIN posts'
    BY <1>3 DEF ReviewInv, ReviewTypeOK
  <2>2. removing' = removing
    OBVIOUS
  <2> QED BY <1>3, <1>4, <1>5, <2>1, <2>2 DEF ReviewInv, ReviewTypeOK
<1> QED BY <1>5, <1>6, <1>7, <1>8 DEF ReviewInv

LEMMA ListAnsweredStep ==
  ASSUME ReviewInv, NEW k \in requests, ListAnswered(k)
  PROVE  ReviewInv'
<1> DEFINE items == {i \in k.got : i.id \notin ChangedSince(k.since)}
<1>1. IdsOf(items) = IdsOf(k.got) \ ChangedSince(k.since)
  BY DEF IdsOf
<1>2. /\ added' \subseteq added \union IdsOf(items) /\ posts' = Merged(items)
      /\ UNCHANGED <<serverVars, mutations, mutation, reports, removing, importStore, made,
                     imports, late>>
  BY <1>1 DEF ListAnswered
<1>3. k.op = "list" /\ k.answer = "ok" /\ requests' = requests \ {k} /\ items \in SUBSET k.got
  BY DEF ListAnswered, Receive
<1> HIDE DEF items
<1> QED BY <1>2, <1>3, BringsStep

LEMMA ReportsAnsweredStep ==
  ASSUME ReviewInv, NEW k \in requests, ReportsAnswered(k) \/ LabelAnswered(k)
  PROVE  ReviewInv'
<1>1. /\ added' = added /\ reports' \subseteq reports \union IdsOf(k.got) /\ posts' = Merged(k.got)
      /\ UNCHANGED <<serverVars, mutations, mutation, removing, importStore, made, imports, late>>
  BY DEF ReportsAnswered, LabelAnswered
<1>2. k.op \in {"reports", "label"} /\ k.answer = "ok" /\ requests' = requests \ {k}
  BY DEF ReportsAnswered, LabelAnswered, Receive
<1>3. k.got \in SUBSET k.got
  OBVIOUS
<1> QED BY <1>1, <1>2, <1>3, BringsStep

\* An error changes nothing but what it is shown as.
LEMMA FailedStep ==
  ASSUME ReviewInv, NEW k \in requests, RequestFailed(k) \/ AddFailed(k)
  PROVE  ReviewInv'
<1>1. /\ k.answer = "failed" /\ requests' = requests \ {k}
      /\ UNCHANGED <<rows, lastId, posts, added, mutations, mutation, reports, session, retryMode,
                     made, imports, late>>
      /\ removing' \in {Missing, removing}
  BY DEF RequestFailed, AddFailed, serverVars, postStore, importStore
<1>2. /\ requests' \subseteq ReviewRequest /\ CountsInv'
      /\ \A r \in requests' : SentInv(r)' /\ (r.answer = "ok" => AnswerInv(r)')
  <2>1. \A s \in Nat : ChangedSince(s) \subseteq ChangedSince(s)'
    BY <1>1 DEF ChangedSince
  <2>2. mutation' \in Nat /\ mutation' >= mutation
    BY <1>1 DEF ReviewInv, CountsInv
  <2> QED BY <1>1, <2>1, <2>2, TakeKeeps
<1>3. AddedInv'
  BY <1>1 DEF ReviewInv, AddedInv
<1>4. SessionInv' /\ saving' \in BOOLEAN
  <2>1. CASE RequestFailed(k)
    <3>1. Adds' = Adds /\ saving' = saving
      BY <2>1 DEF RequestFailed, Adds, importStore
    <3> QED BY <1>1, <3>1, SessionKept DEF ReviewInv, ReviewTypeOK
  <2>2. CASE AddFailed(k)
    BY <1>1, <2>2, SaveOver DEF AddFailed
  <2> QED BY <2>1, <2>2
<1>5. ReviewTypeOK'
  BY <1>1, <1>2, <1>4 DEF ReviewInv, ReviewTypeOK
<1> QED BY <1>2, <1>3, <1>4, <1>5 DEF ReviewInv

\* A mutation is later than every list that was asked for.
LEMMA MutatedIsLater ==
  ASSUME ReviewInv, NEW id, Mutated(id)
  PROVE  /\ mutation \in Nat /\ mutation' = mutation + 1
         /\ DOMAIN mutations' = DOMAIN mutations \union {id}
         /\ \A i \in DOMAIN mutations' : mutations'[i] \in 1 .. mutation'
         /\ \A s \in Nat : ChangedSince(s) \subseteq ChangedSince(s)'
         /\ \A s \in Nat : s <= mutation => id \in ChangedSince(s)'
<1>1. mutation \in Nat /\ mutation' = mutation + 1 /\ mutations' = TableWith(mutations, id, mutation + 1)
  BY DEF Mutated, ReviewInv, CountsInv
<1>2. /\ DOMAIN mutations' = DOMAIN mutations \union {id} /\ mutations'[id] = mutation + 1
      /\ \A i \in DOMAIN mutations : i # id => mutations'[i] = mutations[i]
  BY <1>1 DEF TableWith
<1>3. \A i \in DOMAIN mutations : mutations[i] \in 1 .. mutation
  BY DEF ReviewInv, ReviewTypeOK
<1>4. \A s \in Nat : ChangedSince(s) \subseteq ChangedSince(s)'
  <2> SUFFICES ASSUME NEW s \in Nat, NEW i \in ChangedSince(s)
               PROVE  i \in DOMAIN mutations' /\ mutations'[i] > s
    BY DEF ChangedSince
  <2>1. i \in DOMAIN mutations /\ mutations[i] > s /\ mutations[i] \in 1 .. mutation
    BY <1>3 DEF ChangedSince
  <2>2. mutations'[i] = mutations[i] \/ mutations'[i] = mutation + 1
    BY <1>2, <2>1
  <2> QED BY <1>1, <1>2, <2>1, <2>2
<1>5. \A s \in Nat : s <= mutation => id \in ChangedSince(s)'
  BY <1>1, <1>2 DEF ChangedSince
<1>6. \A i \in DOMAIN mutations' : mutations'[i] \in 1 .. mutation'
  BY <1>1, <1>2, <1>3
<1> QED BY <1>1, <1>2, <1>4, <1>5, <1>6

LEMMA RemoveAnsweredStep ==
  ASSUME ReviewInv, NEW k \in requests, RemoveAnswered(k)
  PROVE  ReviewInv'
<1>1. /\ k.op = "remove" /\ k.answer = "ok" /\ requests' = requests \ {k} /\ Mutated(k.id)
      /\ added' = added \ {k.id} /\ posts' = Restrict(posts, DOMAIN posts \ {k.id})
      /\ reports' = reports \ {k.id} /\ removing' = Missing
      /\ UNCHANGED <<rows, lastId, session, saving, retryMode, made, imports>>
  BY DEF RemoveAnswered, Receive, serverVars, importStore
<1>2. late' = IF \E r \in requests : r.op = "add" THEN late \union {k.id} ELSE late
  BY DEF RemoveAnswered
<1>3. /\ mutation \in Nat /\ mutation' = mutation + 1
      /\ DOMAIN mutations' = DOMAIN mutations \union {k.id}
      /\ \A i \in DOMAIN mutations' : mutations'[i] \in 1 .. mutation'
      /\ \A s \in Nat : ChangedSince(s) \subseteq ChangedSince(s)'
      /\ \A s \in Nat : s <= mutation => k.id \in ChangedSince(s)'
  BY <1>1, MutatedIsLater
<1>4. k.id \in PostIdentifiers
  BY <1>1 DEF ReviewInv, SentInv
<1>5. /\ requests' \subseteq ReviewRequest /\ CountsInv'
      /\ \A r \in requests' : SentInv(r)' /\ (r.answer = "ok" => AnswerInv(r)')
  <2>1. mutation' \in Nat /\ mutation' >= mutation /\ late \subseteq late'
    BY <1>2, <1>3
  <2>2. (\E r \in requests : r.op = "add") => k.id \in late'
    BY <1>2
  <2>3. k.answer # "none" /\ k.op # "add"
    BY <1>1
  <2> HIDE DEF ReviewInv
  <2> QED BY <1>1, <1>3, <2>1, <2>2, <2>3, TakeKeeps
<1>6. AddedInv' /\ SessionInv'
  <2>1. Adds' = Adds
    BY <1>1 DEF Adds
  <2> QED BY <1>1, <2>1, SessionKept DEF ReviewInv, AddedInv
<1>7. ReviewTypeOK'
  <2>1. /\ DOMAIN posts' = DOMAIN posts \ {k.id} /\ posts' \in [DOMAIN posts' -> Revision]
        /\ added' \union reports' \subseteq DOMAIN posts'
    BY <1>1 DEF Restrict, ReviewInv, ReviewTypeOK
  <2>2. DOMAIN posts' \subseteq PostIdentifiers /\ DOMAIN mutations' \subseteq PostIdentifiers
    BY <1>3, <1>4, <2>1 DEF ReviewInv, ReviewTypeOK
  <2> QED BY <1>1, <1>3, <1>5, <2>1, <2>2 DEF ReviewInv, ReviewTypeOK
<1> QED BY <1>5, <1>6, <1>7 DEF ReviewInv

\* The post an answer to an import brings.
LEMMA AddedPost ==
  ASSUME ReviewInv, NEW k \in requests, k.op = "add", k.answer = "ok"
  PROVE  LET id == CHOOSE i \in IdsOf(k.got) : TRUE IN
         /\ id \in PostIdentifiers /\ IdsOf(k.got) = {id} /\ id <= lastId
         /\ id \in DOMAIN rows => rows[id].added /\ rows[id].key = k.key
         /\ id \notin DOMAIN rows => Removing(id) \/ id \in late
<1>1. SentInv(k) /\ AnswerInv(k)
  BY DEF ReviewInv
<1>2. PICK id \in PostIdentifiers :
        /\ IdsOf(k.got) = {id}
        /\ id \in DOMAIN rows => rows[id].key = k.key
        /\ id \notin DOMAIN rows => Removing(id) \/ id \in late
  BY <1>1 DEF AnswerInv, ResultInv
<1>3. (CHOOSE i \in IdsOf(k.got) : TRUE) = id
  BY <1>2
<1>4. id <= lastId
  BY <1>1, <1>2 DEF SentInv, IdsOf
<1>5. id \in DOMAIN rows => rows[id].added
  BY <1>1, <1>2 DEF AnswerInv
<1> QED BY <1>2, <1>3, <1>4, <1>5

LEMMA AddAnsweredStep ==
  ASSUME ReviewInv, NEW k \in requests, AddAnswered(k)
  PROVE  ReviewInv'
<1>1. PICK id : /\ id = CHOOSE i \in IdsOf(k.got) : TRUE
                /\ k.op = "add" /\ k.answer = "ok" /\ requests' = requests \ {k}
                /\ Mutated(id) /\ added' = added \union {id} /\ posts' = Merged(k.got)
                /\ UNCHANGED <<rows, lastId, reports, removing, made, imports, late>>
  BY DEF AddAnswered, Receive, serverVars
<1>2. /\ id \in PostIdentifiers /\ IdsOf(k.got) = {id} /\ id <= lastId
      /\ id \in DOMAIN rows => rows[id].added
  BY <1>1, AddedPost
<1>3. /\ mutation \in Nat /\ mutation' = mutation + 1
      /\ DOMAIN mutations' = DOMAIN mutations \union {id}
      /\ \A i \in DOMAIN mutations' : mutations'[i] \in 1 .. mutation'
      /\ \A s \in Nat : ChangedSince(s) \subseteq ChangedSince(s)'
      /\ \A s \in Nat : s <= mutation => id \in ChangedSince(s)'
  BY <1>1, MutatedIsLater
<1>4. /\ DOMAIN posts' = DOMAIN posts \union {id} /\ DOMAIN posts' \subseteq PostIdentifiers
      /\ posts' \in [DOMAIN posts' -> Revision]
  <2>1. k.got \in SUBSET Item /\ \A i, j \in k.got : i.id = j.id => i = j
    BY GotIds DEF ReviewInv, ReviewTypeOK, SentInv
  <2> QED BY <1>1, <1>2, <2>1, MergedIsLater DEF ReviewInv, ReviewTypeOK
<1>5. /\ requests' \subseteq ReviewRequest /\ CountsInv'
      /\ \A r \in requests' : SentInv(r)' /\ (r.answer = "ok" => AnswerInv(r)')
  <2>1. mutation' \in Nat /\ mutation' >= mutation /\ late \subseteq late'
    BY <1>1, <1>3
  <2>2. k.answer # "none" /\ k.op # "remove"
    BY <1>1
  <2>3. \A i \in IdsOf(k.got), s \in Nat : s <= mutation => i \in ChangedSince(s)'
    BY <1>2, <1>3
  <2> HIDE DEF ReviewInv
  <2> QED BY <1>1, <1>3, <2>1, <2>2, <2>3, TakeKeeps
<1>6. AddedInv'
  BY <1>1, <1>2 DEF ReviewInv, AddedInv
<1>7. session' \in {session, Missing} /\ retryMode' = retryMode /\ SaveEnds(k)
  BY DEF AddAnswered
<1>8. SessionInv' /\ saving' = FALSE
  BY <1>1, <1>7, SaveOver
<1>9. ReviewTypeOK'
  BY <1>1, <1>2, <1>3, <1>4, <1>5, <1>7, <1>8 DEF ReviewInv, ReviewTypeOK
<1> QED BY <1>5, <1>6, <1>8, <1>9 DEF ReviewInv

\* The server handles k, and answers with some of its posts.  One that is new,
\* or was not among the added ones, is told by the answer to an import; one that
\* is gone by the answer to its removal.
LEMMA ServedKeeps ==
  ASSUME ReviewInv, NEW k \in requests, k.answer = "none",
         NEW answer \in {"ok", "failed"}, NEW ids \in SUBSET DOMAIN rows',
         Answered(k, answer, {ItemOf(id, rows') : id \in ids}),
         UNCHANGED <<postStore, reports, removing, importStore, made, imports, late>>,
         lastId' \in 0 .. MaxPosts, lastId' >= lastId,
         DOMAIN rows' \subseteq PostIdentifiers,
         rows' \in [DOMAIN rows' -> [key : Keys, revision : Nat, added : BOOLEAN,
                                     reported : BOOLEAN]],
         \A id \in DOMAIN rows' :
           /\ id <= lastId'
           /\ id \in DOMAIN rows =>
                /\ rows'[id].key = rows[id].key
                /\ rows[id].added => rows'[id].added
                /\ \/ rows'[id].added => rows[id].added
                   \/ k.op = "add" /\ answer = "ok" /\ id \in ids
                /\ rows'[id].revision <= rows[id].revision + 1
           /\ id \notin DOMAIN rows =>
                /\ id > lastId /\ rows'[id].revision = 1
                /\ k.op = "add" /\ answer = "ok" /\ id \in ids,
         \A id \in DOMAIN rows \ DOMAIN rows' : k.op = "remove" /\ answer = "ok" /\ k.id = id,
         answer = "ok" =>
           /\ k.op \in {"list", "add"} => \A id \in ids : rows'[id].added
           /\ k.op = "remove" => k.id \notin DOMAIN rows' /\ k.id <= lastId'
           /\ k.op = "list" => \A id \in DOMAIN rows' \ ids : ~ rows'[id].added
           /\ k.op = "add" => \E id \in ids : ids = {id} /\ rows'[id].key = k.key
  PROVE  ReviewInv'
<1>1. PICK got : got = {ItemOf(id, rows') : id \in ids}
  OBVIOUS
<1>2. PICK s : s = [k EXCEPT !.answer = answer, !.got = got]
  OBVIOUS
<1>3. /\ UNCHANGED <<posts, added, mutations, mutation, reports, removing, session, saving,
                     retryMode, made, imports, late>>
      /\ requests' = (requests \ {k}) \union {s}
  BY <1>1, <1>2 DEF postStore, importStore, Answered
<1>4. /\ k \in ReviewRequest /\ s.answer = answer /\ s.got = got
      /\ s.op = k.op /\ s.id = k.id /\ s.key = k.key /\ s.since = k.since /\ s.import = k.import
  BY <1>2 DEF ReviewInv, ReviewTypeOK, ReviewRequest
<1>5. /\ mutation \in Nat /\ imports \in Nat /\ lastId \in Nat /\ lastId' \in Nat /\ made \in 0 .. MaxRequests
      /\ CountsInv /\ DOMAIN rows \subseteq PostIdentifiers /\ rows \in [DOMAIN rows -> Row]
      /\ requests \subseteq ReviewRequest
  BY ReviewAssumption DEF ReviewInv, CountsInv, ReviewTypeOK
<1>6. PostIdentifiers \subseteq Nat /\ Revision \subseteq Nat
  BY BoundsAreNatural
<1>7. /\ IsFiniteSet(requests') /\ Cardinality(Unserved) \in Nat
      /\ Cardinality(Unserved') \in Nat /\ Cardinality(Unserved') + 1 <= Cardinality(Unserved)
  BY <1>5, ServeCounts
<1>8. ASSUME NEW id \in DOMAIN rows'
      PROVE  rows'[id].revision \in Nat /\ rows'[id].revision + Cardinality(Unserved') <= 1 + made
  <2>1. rows'[id].revision \in Nat /\ Cardinality(Unserved) <= made
    BY <1>5 DEF CountsInv
  <2>2. CASE id \in DOMAIN rows
    <3>1. /\ rows[id].revision \in Nat /\ rows[id].revision + Cardinality(Unserved) <= 1 + made
          /\ rows'[id].revision <= rows[id].revision + 1
      BY <1>5, <1>6, <2>2 DEF CountsInv, Row
    <3> HIDE DEF ReviewInv
    <3> QED BY <1>5, <1>7, <2>1, <3>1
  <2>3. CASE id \notin DOMAIN rows
    BY <1>5, <1>7, <2>1, <2>3
  <2> QED BY <2>1, <2>2, <2>3
<1>9. \A id \in DOMAIN rows' : rows'[id].revision \in Revision
  <2>1. ASSUME NEW id \in DOMAIN rows' PROVE rows'[id].revision \in Revision
    BY <1>5, <1>7, <1>8, ReviewAssumption DEF Revision
  <2> QED BY <2>1
<1>10. /\ got \in SUBSET Item /\ IdsOf(got) = ids /\ \A i \in got : i.id <= lastId'
       /\ \A i, j \in got : i.id = j.id => i = j
  <2>1. \A id \in ids : ItemOf(id, rows') \in Item /\ ItemOf(id, rows').id = id
    BY <1>9 DEF ItemOf, Item
  <2> QED BY <1>1, <2>1 DEF IdsOf
<1>11. s \in ReviewRequest
  BY <1>2, <1>4, <1>10 DEF ReviewRequest
<1>12. /\ \A id : (Adding(id) => Adding(id)') /\ (Removing(id) => Removing(id)')
       /\ k.op = "add" /\ answer = "ok" => \A id \in ids : Adding(id)'
       /\ k.op = "remove" /\ answer = "ok" => Removing(k.id)'
  BY <1>3, <1>4, <1>10 DEF Adding, Removing
<1>13. CountsInv'
  <2>1. Cardinality(Unserved') <= made
    BY <1>5, <1>7 DEF CountsInv
  <2> QED BY <1>3, <1>5, <1>7, <1>8, <2>1 DEF CountsInv
<1>14. AddedInv'
  <2>1. \A id \in added : id \in PostIdentifiers /\ id <= lastId
    BY DEF ReviewInv, ReviewTypeOK, AddedInv
  <2>2. \A id \in added : id \in DOMAIN rows' => id \in DOMAIN rows /\ rows[id].added
    BY <1>5, <1>6, <2>1 DEF ReviewInv, AddedInv
  <2> QED BY <1>3, <1>5, <1>6, <2>1, <2>2 DEF AddedInv
<1>15. SessionInv'
  <2>1. CASE k.op = "add"
    <3>1. Adds = {k} /\ Adds' = {s}
      BY <1>3, <1>4, <2>1 DEF ReviewInv, SessionInv, Adds
    <3> QED BY <1>3, <1>4, <3>1 DEF ReviewInv, SessionInv
  <2>2. CASE k.op # "add"
    <3>1. Adds' = Adds
      BY <1>3, <1>4, <2>2 DEF Adds
    <3> QED BY <1>3, <3>1, SessionKept
  <2> QED BY <2>1, <2>2
<1>16. SentInv(s)'
  BY <1>3, <1>4, <1>5, <1>10 DEF ReviewInv, SentInv
<1>17. s.answer = "ok" => AnswerInv(s)'
  BY <1>4, <1>10 DEF AnswerInv, ListInv, ResultInv
<1>18. ASSUME NEW r \in requests, r # k
       PROVE  SentInv(r)' /\ (r.answer = "ok" => AnswerInv(r)')
  <2>1. SentInv(r)'
    BY <1>3, <1>5, <1>18, SentKept
  <2>2. ASSUME r.answer = "ok" PROVE AnswerInv(r)'
    <3>1. AnswerInv(r) /\ SentInv(r) /\ IdsOf(r.got) \subseteq PostIdentifiers
      BY <1>5, <1>18, <2>2, GotIds DEF ReviewInv
    <3>2. \A id \in IdsOf(r.got) : id <= lastId
      BY <3>1 DEF SentInv, IdsOf
    <3>3. \A id \in PostIdentifiers : id <= lastId /\ id \in DOMAIN rows' => id \in DOMAIN rows
      BY <1>5, <1>6
    <3>4. ChangedSince(r.since)' = ChangedSince(r.since)
      BY <1>3 DEF ChangedSince
    <3>5. r.op \in {"list", "add"} =>
            \A id \in IdsOf(r.got) \intersect DOMAIN rows' : rows'[id].added
      BY <3>1, <3>2, <3>3 DEF AnswerInv
    <3>6. r.op = "remove" => r.id \notin DOMAIN rows' /\ r.id <= lastId'
      <4>1. r.op = "remove" => r.id \notin DOMAIN rows /\ r.id <= lastId /\ r.id \in PostIdentifiers
        BY <3>1 DEF AnswerInv, SentInv
      <4> QED BY <4>1, <3>3, <1>5, <1>6
    <3>7. r.op = "list" => ListInv(r)'
      BY <1>12, <3>1, <3>2, <3>3, <3>4 DEF AnswerInv, ListInv
    <3>8. r.op = "add" => ResultInv(r)'
      BY <1>3, <1>12, <3>1, <3>2, <3>3 DEF AnswerInv, ResultInv
    <3> QED BY <3>5, <3>6, <3>7, <3>8 DEF AnswerInv
  <2> QED BY <2>1, <2>2
<1>19. ReviewTypeOK'
  <2>1. rows' \in [DOMAIN rows' -> Row]
    BY <1>9 DEF Row
  <2>2. requests' \subseteq ReviewRequest
    BY <1>3, <1>5, <1>11
  <2> QED BY <1>3, <2>1, <2>2 DEF ReviewInv, ReviewTypeOK
<1>20. \A r \in requests' : SentInv(r)' /\ (r.answer = "ok" => AnswerInv(r)')
  BY <1>3, <1>16, <1>17, <1>18
<1> QED BY <1>13, <1>14, <1>15, <1>19, <1>20 DEF ReviewInv

LEMMA ServeStep ==
  ASSUME ReviewInv, NEW k \in requests, Serve(k)
  PROVE  ReviewInv'
<1>1. /\ k \in ReviewRequest /\ k.answer = "none" /\ SentInv(k)
      /\ UNCHANGED <<postStore, reports, removing, importStore, made, imports, late>>
  BY DEF Serve, ReviewInv, ReviewTypeOK
<1>2. /\ DOMAIN rows \subseteq PostIdentifiers /\ rows \in [DOMAIN rows -> Row]
      /\ lastId \in 0 .. MaxPosts /\ \A id \in DOMAIN rows : id <= lastId
  BY DEF ReviewInv, ReviewTypeOK, CountsInv
<1>3. /\ lastId \in Nat /\ PostIdentifiers \subseteq Nat /\ lastId <= lastId
      /\ \A id \in DOMAIN rows : rows[id].revision \in Nat /\ rows[id].revision <= rows[id].revision + 1
  BY <1>2, BoundsAreNatural DEF Row
<1>4. rows \in [DOMAIN rows -> [key : Keys, revision : Nat, added : BOOLEAN, reported : BOOLEAN]]
  BY <1>2, BoundsAreNatural DEF Row
\* The posts are as they were.
<1>5. ASSUME NEW answer \in {"ok", "failed"}, NEW ids \in SUBSET DOMAIN rows, UNCHANGED serverVars,
             Answered(k, answer, {ItemOf(id, rows) : id \in ids}),
             answer = "ok" => \/ k.op = "reports"
                              \/ k.op = "list" /\ ids = {i \in DOMAIN rows : rows[i].added}
      PROVE  ReviewInv'
  <2>1. rows' = rows /\ lastId' = lastId
    BY <1>5 DEF serverVars
  <2>2. Answered(k, answer, {ItemOf(id, rows') : id \in ids})
    BY <1>5, <2>1
  <2> HIDE DEF ReviewInv
  <2> QED BY <1>1, <1>2, <1>3, <1>4, <1>5, <2>1, <2>2, ServedKeeps
<1>6. CASE /\ k.op = "list" /\ UNCHANGED serverVars
           /\ Answered(k, "ok", {ItemOf(id, rows) : id \in {i \in DOMAIN rows : rows[i].added}})
  BY <1>5, <1>6
<1>7. CASE /\ k.op = "reports" /\ UNCHANGED serverVars
           /\ Answered(k, "ok", {ItemOf(id, rows) : id \in {i \in DOMAIN rows : rows[i].reported}})
  BY <1>5, <1>7
<1>8. CASE Answered(k, "failed", {}) /\ UNCHANGED serverVars
  <2>1. {} = {ItemOf(id, rows) : id \in {}} /\ {} \in SUBSET DOMAIN rows
    OBVIOUS
  <2> QED BY <1>5, <1>8, <2>1
<1>9. CASE /\ k.op = "label" /\ k.id \in DOMAIN rows
           /\ rows' = [rows EXCEPT ![k.id].revision = @ + 1]
           /\ Answered(k, "ok", {ItemOf(k.id, rows')})
           /\ UNCHANGED lastId
  <2>1. {ItemOf(k.id, rows')} = {ItemOf(id, rows') : id \in {k.id}}
    OBVIOUS
  <2>2. /\ DOMAIN rows' = DOMAIN rows
        /\ \A id \in DOMAIN rows :
             /\ rows'[id] \in [key : Keys, revision : Nat, added : BOOLEAN, reported : BOOLEAN]
             /\ rows'[id].key = rows[id].key /\ rows'[id].added = rows[id].added
             /\ rows'[id].revision <= rows[id].revision + 1
    <3>1. DOMAIN rows' = DOMAIN rows
      BY <1>9
    <3>2. ASSUME NEW id \in DOMAIN rows
          PROVE  /\ rows'[id] \in [key : Keys, revision : Nat, added : BOOLEAN, reported : BOOLEAN]
                 /\ rows'[id].key = rows[id].key /\ rows'[id].added = rows[id].added
                 /\ rows'[id].revision <= rows[id].revision + 1
      <4>1. CASE id = k.id
        <5>1. rows'[id] = [rows[id] EXCEPT !.revision = @ + 1]
          BY <1>9, <4>1
        <5> QED BY <1>3, <1>4, <5>1
      <4>2. CASE id # k.id
        <5>1. rows'[id] = rows[id]
          BY <1>9, <4>2
        <5> QED BY <1>3, <1>4, <5>1
      <4> QED BY <4>1, <4>2
    <3> QED BY <3>1, <3>2
  <2>3. rows' \in [DOMAIN rows' -> [key : Keys, revision : Nat, added : BOOLEAN, reported : BOOLEAN]]
    BY <1>9, <2>2
  <2>4. Answered(k, "ok", {ItemOf(id, rows') : id \in {k.id}})
    BY <1>9, <2>1
  <2>5. {k.id} \in SUBSET DOMAIN rows' /\ k.op = "label" /\ lastId' = lastId
    BY <1>9, <2>2
  <2> HIDE DEF ReviewInv
  <2> QED BY <1>1, <1>2, <1>3, <2>2, <2>3, <2>4, <2>5, ServedKeeps
<1>10. CASE /\ k.op = "remove" /\ k.id \in DOMAIN rows /\ rows[k.id].added
            /\ rows' = Restrict(rows, DOMAIN rows \ {k.id})
            /\ Answered(k, "ok", {})
            /\ UNCHANGED lastId
  <2>1. {} = {ItemOf(id, rows') : id \in {}} /\ {} \in SUBSET DOMAIN rows'
    OBVIOUS
  <2>2. DOMAIN rows' = DOMAIN rows \ {k.id} /\ \A id \in DOMAIN rows' : rows'[id] = rows[id]
    BY <1>10 DEF Restrict
  <2>3. rows' \in [DOMAIN rows' -> [key : Keys, revision : Nat, added : BOOLEAN, reported : BOOLEAN]]
    BY <1>4, <1>10, <2>2 DEF Restrict
  <2>4. Answered(k, "ok", {ItemOf(id, rows') : id \in {}})
    BY <1>10, <2>1
  <2>5. k.op = "remove" /\ lastId' = lastId /\ k.id \notin DOMAIN rows' /\ k.id <= lastId'
    BY <1>2, <1>10, <2>2
  <2> HIDE DEF ReviewInv
  <2> QED BY <1>1, <1>2, <1>3, <2>1, <2>2, <2>3, <2>4, <2>5, ServedKeeps
<1>11. CASE LET new == Upserted(k.key) IN
            /\ k.op = "add" /\ new.id \in PostIdentifiers
            /\ rows' = new.rows
            /\ lastId' = IF new.id > lastId THEN new.id ELSE lastId
            /\ Answered(k, "ok", {ItemOf(new.id, rows')})
  <2> DEFINE own == {id \in DOMAIN rows : rows[id].key = k.key}
             Table == [key : Keys, revision : Nat, added : BOOLEAN, reported : BOOLEAN]
  <2>1. PICK id, row :
          /\ id = IF own = {} THEN lastId + 1 ELSE CHOOSE i \in own : TRUE
          /\ row = IF own = {}
                   THEN [key |-> k.key, revision |-> 1, added |-> TRUE, reported |-> FALSE]
                   ELSE [rows[id] EXCEPT !.revision = @ + 1, !.added = TRUE]
          /\ k.op = "add" /\ id \in PostIdentifiers /\ rows' = TableWith(rows, id, row)
          /\ lastId' = IF id > lastId THEN id ELSE lastId
          /\ Answered(k, "ok", {ItemOf(id, rows')})
    BY <1>11 DEF Upserted
  <2>2. k.key \in Keys /\ k.op = "add"
    BY <1>1, <2>1 DEF SentInv
  <2>3. /\ id \in PostIdentifiers /\ rows' = TableWith(rows, id, row)
        /\ lastId' = IF id > lastId THEN id ELSE lastId
        /\ Answered(k, "ok", {ItemOf(i, rows') : i \in {id}})
    <3>1. {ItemOf(i, rows') : i \in {id}} = {ItemOf(id, rows')}
      OBVIOUS
    <3> HIDE DEF own
    <3> QED BY <2>1, <3>1
  <2>4. own = {} =>
          /\ id = lastId + 1
          /\ row = [key |-> k.key, revision |-> 1, added |-> TRUE, reported |-> FALSE]
    BY <2>1
  <2>5. own # {} => id \in own /\ row = [rows[id] EXCEPT !.revision = @ + 1, !.added = TRUE]
    BY <2>1
  <2>6. /\ row \in Table /\ row.key = k.key /\ row.added = TRUE
        /\ id \in DOMAIN rows => rows[id].key = k.key /\ row.revision <= rows[id].revision + 1
        /\ id \notin DOMAIN rows => id > lastId /\ row.revision = 1
    <3>1. CASE own = {}
      <4>1. id > lastId /\ id \notin DOMAIN rows
        BY <1>2, <1>3, <2>4, <3>1
      <4>2. row = [key |-> k.key, revision |-> 1, added |-> TRUE, reported |-> FALSE]
        BY <2>4, <3>1
      <4> HIDE DEF own
      <4> QED BY <2>2, <4>1, <4>2
    <3>2. CASE own # {}
      <4>1. row = [rows[id] EXCEPT !.revision = @ + 1, !.added = TRUE]
        BY <2>5, <3>2
      <4>2. id \in DOMAIN rows /\ rows[id] \in Table /\ rows[id].key = k.key
        BY <1>4, <2>5, <3>2
      <4>3. rows[id].revision \in Nat
        BY <4>2
      <4>4. /\ row = [key |-> k.key, revision |-> rows[id].revision + 1, added |-> TRUE,
                      reported |-> rows[id].reported]
            /\ rows[id].reported \in BOOLEAN
        BY <4>1, <4>2
      <4> HIDE DEF own
      <4> QED BY <2>2, <4>2, <4>3, <4>4
    <3> QED BY <3>1, <3>2
  <2> HIDE DEF own
  <2>7. /\ DOMAIN rows' = DOMAIN rows \union {id} /\ rows'[id] = row
        /\ \A i \in DOMAIN rows : i # id => rows'[i] = rows[i]
        /\ rows' = [i \in DOMAIN rows' |-> rows'[i]]
    BY <2>3 DEF TableWith
  <2>8. rows' \in [DOMAIN rows' -> Table] /\ DOMAIN rows' \subseteq PostIdentifiers
    <3>1. \A i \in DOMAIN rows' : rows'[i] \in Table
      BY <1>4, <2>6, <2>7
    <3> HIDE DEF Table
    <3> QED BY <1>2, <2>3, <2>7, <3>1
  <2>9. lastId' \in 0 .. MaxPosts /\ lastId' >= lastId /\ id <= lastId' /\ lastId' \in Nat
    <3>1. id \in Nat /\ id <= MaxPosts /\ MaxPosts \in Nat
      BY <2>3, ReviewAssumption DEF PostIdentifiers
    <3> QED BY <1>2, <1>3, <2>3, <3>1
  <2>10. ASSUME NEW i \in DOMAIN rows'
        PROVE  /\ i <= lastId'
               /\ i \in DOMAIN rows =>
                    /\ rows'[i].key = rows[i].key
                    /\ rows[i].added => rows'[i].added
                    /\ i \notin {id} => (rows'[i].added => rows[i].added)
                    /\ rows'[i].revision <= rows[i].revision + 1
               /\ i \notin DOMAIN rows => i > lastId /\ i \in {id} /\ rows'[i].revision = 1
    <3>1. CASE i = id
      BY <2>6, <2>7, <2>9, <3>1
    <3>2. CASE i # id
      <4>1. i \in DOMAIN rows /\ rows'[i] = rows[i] /\ i <= lastId
        BY <1>2, <2>7, <2>10, <3>2
      <4>2. i \in Nat
        BY <1>2, <1>3, <4>1
      <4>3. i <= lastId'
        BY <1>3, <2>9, <4>1, <4>2
      <4> QED BY <1>3, <3>2, <4>1, <4>3
    <3> QED BY <3>1, <3>2
  <2>11. {id} \in SUBSET DOMAIN rows' /\ rows'[id].key = k.key /\ rows'[id].added
    BY <2>6, <2>7
  <2>12. DOMAIN rows \ DOMAIN rows' = {}
    BY <2>7
  <2>13. PICK ids : ids = {id}
    OBVIOUS
  <2>14. \A i \in DOMAIN rows' :
           /\ i <= lastId'
           /\ i \in DOMAIN rows =>
                /\ rows'[i].key = rows[i].key
                /\ rows[i].added => rows'[i].added
                /\ \/ rows'[i].added => rows[i].added
                   \/ k.op = "add" /\ i \in ids
                /\ rows'[i].revision <= rows[i].revision + 1
           /\ i \notin DOMAIN rows =>
                /\ i > lastId /\ rows'[i].revision = 1
                /\ k.op = "add" /\ i \in ids
    BY <2>2, <2>10, <2>13
  <2>15. /\ ids \in SUBSET DOMAIN rows' /\ Answered(k, "ok", {ItemOf(i, rows') : i \in ids})
         /\ \A i \in ids : rows'[i].added
         /\ \E i \in ids : ids = {i} /\ rows'[i].key = k.key
    BY <2>3, <2>11, <2>13
  <2> HIDE DEF ReviewInv
  <2> QED BY <1>1, <2>2, <2>8, <2>9, <2>12, <2>14, <2>15, ServedKeeps
<1> HIDE DEF ReviewInv
<1> QED BY <1>6, <1>7, <1>8, <1>9, <1>10, <1>11 DEF Serve

-----------------------------------------------------------------------------
(* The theorems.                                                           *)

LEMMA ReviewStart ==
  ASSUME ReviewInit
  PROVE  ReviewInv
<1>1. /\ lastId = 1 /\ posts = <<>> /\ added = {} /\ reports = {} /\ mutations = <<>> /\ mutation = 0
      /\ removing = Missing /\ session = Missing /\ saving = FALSE /\ retryMode = Missing
      /\ requests = {} /\ made \in 0 .. MaxRequests /\ imports = 0
  BY DEF ReviewInit
<1>2. DOMAIN posts = {} /\ DOMAIN mutations = {}
  BY <1>1
<1>3. /\ DOMAIN rows = {1} /\ rows[1].revision = 1
      /\ rows \in [DOMAIN rows -> [key : Keys, revision : {1}, added : BOOLEAN, reported : BOOLEAN]]
  BY DEF ReviewInit
<1>4. 1 \in PostIdentifiers /\ 1 \in Revision /\ 1 \in 0 .. MaxPosts /\ 0 \in 0 .. MaxImports
  BY ReviewAssumption DEF PostIdentifiers, Revision
<1>5. Unserved = {} /\ IsFiniteSet({}) /\ Cardinality({}) = 0
  BY <1>1, FS_EmptySet DEF Unserved
<1>6. ReviewTypeOK
  <2>1. rows \in [DOMAIN rows -> Row]
    BY <1>3, <1>4 DEF Row
  <2>2. posts \in [DOMAIN posts -> Revision]
    BY <1>1
  <2> QED BY <1>1, <1>2, <1>3, <1>4, <2>1, <2>2 DEF ReviewTypeOK
<1>7. CountsInv
  <2>1. made \in Nat
    BY <1>1, ReviewAssumption
  <2> QED BY <1>1, <1>3, <1>4, <1>5, <2>1 DEF CountsInv
<1> QED BY <1>1, <1>6, <1>7 DEF ReviewInv, AddedInv, SessionInv, Adds

LEMMA ReviewStep ==
  ASSUME ReviewInv, [ReviewNext]_reviewVars
  PROVE  ReviewInv'
<1>1. CASE UNCHANGED reviewVars
  <2>1. /\ UNCHANGED <<rows, lastId, posts, added, mutations, mutation, reports, removing, session,
                       saving, retryMode, requests, made, imports, late>>
    BY <1>1 DEF reviewVars, serverVars, postStore, importStore
  <2> QED BY <2>1 DEF ReviewInv, ReviewTypeOK, CountsInv, AddedInv, SessionInv, SentInv, AnswerInv,
                      ListInv, ResultInv, Adding, Removing, ChangedSince, Unserved, Adds
<1>2. CASE ReviewNext
  <2>1. CASE \/ \E op \in {"list", "reports"} : Load(op)
             \/ \E id \in PostIdentifiers : Label(id) \/ RemovePost(id)
    BY <2>1, AsksStep
  <2>2. CASE \E key \in Keys : StartImport(key)
    BY <2>2, StartImportStep
  <2>3. CASE \E status \in {"completed", "failed", "cancelled"}, valid \in BOOLEAN :
               ImportEnds(status, valid)
    BY <2>3, ImportEndsStep
  <2>4. CASE HandleTask \/ RetryImport \/ DismissImport \/ ClearCancellation
    BY <2>4, HandleTaskStep, RetryImportStep, DismissImportStep
  <2>5. CASE \E k \in requests : Answers(k)
    BY <2>5, ServeStep, ListAnsweredStep, ReportsAnsweredStep, RemoveAnsweredStep, FailedStep,
       AddAnsweredStep DEF Answers
  <2> QED BY <1>2, <2>1, <2>2, <2>3, <2>4, <2>5 DEF ReviewNext
<1> QED BY <1>1, <1>2

LEMMA ReviewInvariant == ReviewSpec => []ReviewInv
<1>1. ReviewInit => ReviewInv
  BY ReviewStart
<1>2. ReviewInv /\ [ReviewNext]_reviewVars => ReviewInv'
  BY ReviewStep
<1> QED BY <1>1, <1>2, PTL DEF ReviewSpec

(* The lists of the Review view refer to canonical posts, and every        *)
(* variable has its type, whatever answers come in whatever order          *)
(* (ReviewTypeOK).                                                         *)
THEOREM ReviewTypeCorrect == ReviewSpec => []ReviewTypeOK
<1>1. ReviewInv => ReviewTypeOK
  BY DEF ReviewInv
<1> QED BY <1>1, ReviewInvariant, PTL

\* Only an answer that brings posts changes the revision of one that stays.
LEMMA RevisionsGrow ==
  ASSUME ReviewInv, [ReviewNext]_reviewVars
  PROVE  \A id \in DOMAIN posts \intersect DOMAIN posts' : posts'[id] >= posts[id]
<1>1. DOMAIN posts \subseteq PostIdentifiers /\ posts \in [DOMAIN posts -> Revision]
  BY DEF ReviewInv, ReviewTypeOK
<1>2. \A id \in DOMAIN posts : posts[id] \in Nat
  BY <1>1, BoundsAreNatural
<1>3. CASE posts' = posts
  BY <1>2, <1>3
<1>4. CASE \E k \in requests : posts' = Restrict(posts, DOMAIN posts \ {k.id})
  BY <1>2, <1>4 DEF Restrict
<1>5. ASSUME NEW k \in requests, NEW items \in SUBSET k.got, posts' = Merged(items)
      PROVE  \A id \in DOMAIN posts \intersect DOMAIN posts' : posts'[id] >= posts[id]
  <2>1. items \in SUBSET Item /\ \A i, j \in items : i.id = j.id => i = j
    BY <1>5, GotIds DEF ReviewInv, ReviewTypeOK, SentInv
  <2> QED BY <1>1, <1>5, <2>1, MergedIsLater
<1>6. CASE \E k \in requests : ListAnswered(k)
  BY <1>5, <1>6 DEF ListAnswered
<1>7. CASE \E k \in requests : ReportsAnswered(k) \/ LabelAnswered(k) \/ AddAnswered(k)
  <2>1. PICK k \in requests : posts' = Merged(k.got)
    BY <1>7 DEF ReportsAnswered, LabelAnswered, AddAnswered
  <2>2. k.got \in SUBSET k.got
    OBVIOUS
  <2> QED BY <1>5, <2>1, <2>2
<1>8. CASE \E k \in requests : RemoveAnswered(k)
  BY <1>4, <1>8 DEF RemoveAnswered
<1> QED
  <2>1. \/ posts' = posts
        \/ \E k \in requests : \/ ListAnswered(k) \/ ReportsAnswered(k) \/ LabelAnswered(k)
                               \/ AddAnswered(k) \/ RemoveAnswered(k)
    BY DEF ReviewNext, reviewVars, postStore, Answers, Load, Label, RemovePost, StartImport, ImportEnds,
           HandleTask, RetryImport, DismissImport, ClearCancellation, Serve, RequestFailed, AddFailed
  <2> QED BY <2>1, <1>3, <1>6, <1>7, <1>8, SMTT(30)

\* Which steps change what the user has added.
LEMMA AddedChanges ==
  ASSUME ReviewInv, [ReviewNext]_reviewVars
  PROVE  /\ \A id \in added \ added' :
              id \in DOMAIN rows => \E k \in requests : k.op = "add" /\ id \in IdsOf(k.got)
         /\ \A id \in added' \ added :
              \/ id \in DOMAIN rows \/ id \in late
              \/ \E k \in requests : k.op = "remove" /\ k.id = id
<1>1. \A k \in requests : k.answer = "ok" => AnswerInv(k)
  BY DEF ReviewInv
<1>2. CASE added' = added
  BY <1>2
<1>3. ASSUME NEW k \in requests, ListAnswered(k)
      PROVE  /\ \A id \in added \ added' :
                  id \in DOMAIN rows => \E r \in requests : r.op = "add" /\ id \in IdsOf(r.got)
             /\ \A id \in added' \ added :
                  \/ id \in DOMAIN rows \/ id \in late
                  \/ \E r \in requests : r.op = "remove" /\ r.id = id
  <2>1. /\ ListInv(k)
        /\ added' = (IdsOf(k.got) \ ChangedSince(k.since))
                      \union (added \intersect ChangedSince(k.since))
    BY <1>1, <1>3 DEF ListAnswered, Receive, AnswerInv
  <2>2. \A id \in added : id \in DOMAIN rows => rows[id].added
    BY DEF ReviewInv, AddedInv
  <2> QED BY <2>1, <2>2 DEF ListInv, Adding, Removing
<1>4. ASSUME NEW k \in requests, RemoveAnswered(k)
      PROVE  \A id \in added \ added' : id \notin DOMAIN rows
  BY <1>1, <1>4 DEF RemoveAnswered, Receive, AnswerInv
<1>5. ASSUME NEW k \in requests, RemoveAnswered(k)
      PROVE  added' \ added = {}
  BY <1>5 DEF RemoveAnswered
<1>6. ASSUME NEW k \in requests, AddAnswered(k)
      PROVE  /\ added \ added' = {}
             /\ \A id \in added' \ added :
                  \/ id \in DOMAIN rows \/ id \in late
                  \/ \E r \in requests : r.op = "remove" /\ r.id = id
  <2>1. PICK id : id = (CHOOSE i \in IdsOf(k.got) : TRUE) /\ added' = added \union {id}
    BY <1>6 DEF AddAnswered
  <2>2. id \notin DOMAIN rows => Removing(id) \/ id \in late
    BY <1>6, <2>1, AddedPost DEF AddAnswered, Receive
  <2> QED BY <2>1, <2>2 DEF Removing
<1> QED
  <2>1. \/ added' = added
        \/ \E k \in requests : ListAnswered(k) \/ AddAnswered(k) \/ RemoveAnswered(k)
    BY DEF ReviewNext, reviewVars, postStore, Answers, Load, Label, RemovePost, StartImport, ImportEnds,
           HandleTask, RetryImport, DismissImport, ClearCancellation, Serve, RequestFailed, AddFailed, LabelAnswered,
           ReportsAnswered
  <2> QED BY <2>1, <1>2, <1>3, <1>4, <1>5, <1>6

(* PostsFollowServer: no answer takes a post back to an earlier revision,  *)
(* and what the user has added leaves and enters the list only as the      *)
(* server has said, however late its answers are.                          *)
THEOREM PageFollowsServer == ReviewSpec => PostsFollowServer
<1>1. ReviewInv /\ [ReviewNext]_reviewVars =>
        [/\ \A id \in DOMAIN posts \intersect DOMAIN posts' : posts'[id] >= posts[id]
         /\ \A id \in added \ added' :
              id \in DOMAIN rows => \E k \in requests : k.op = "add" /\ id \in IdsOf(k.got)
         /\ \A id \in added' \ added :
              \/ id \in DOMAIN rows \/ id \in late
              \/ \E k \in requests : k.op = "remove" /\ k.id = id]_reviewVars
  BY RevisionsGrow, AddedChanges
<1> QED BY <1>1, ReviewInvariant, PTL DEF ReviewSpec, PostsFollowServer

(* OneSaveAtATime: the import store saves while, and only while, the       *)
(* server has to answer for the latest import, whose session, if no        *)
(* navigation has dismissed it, holds that result and no other.            *)
THEOREM SavesAreSerial == ReviewSpec => []OneSaveAtATime
<1>1. ReviewInv => OneSaveAtATime
  BY DEF ReviewInv, SessionInv, OneSaveAtATime, Adds
<1> QED BY <1>1, ReviewInvariant, PTL

-----------------------------------------------------------------------------
(* The page of automations (Automations).                                  *)

\* A save is of a page that waits for it, and of what that page has shown; the
\* file is what it was when the two were compared, or was overtaken.
SaveInv ==
  /\ AutomationsTypeOK /\ edits \in Nat
  /\ \A p \in Pages : pages[p].schedule \in FormSchedules \union {Null}
  /\ handler # Null =>
       LET view == pages[handler.page] IN
       /\ Waits(handler.page, "save")
       /\ handler.found = view.revision
       /\ handler.content = WithChange(view.revision, view)
       /\ handler.step \in {"stage", "compare"} => ~ handler.overtaken
       /\ handler.step = "rename" /\ ~ handler.overtaken => config = handler.found

LEMMA SaveStart ==
  ASSUME AutomationsInit
  PROVE  SaveInv
<1>1. config \in Contents
  <2>1. PICK r \in FileRules :
          config = [rule |-> r, status |-> "ACTIVE", listed |-> TRUE, edit |-> 0]
    BY DEF AutomationsInit
  <2>2. r \in Rules
    BY RulesAssumption
  <2> QED BY <2>1, <2>2 DEF Contents
<1>2. NewPage \in Page /\ NewPage.schedule = Null
  BY DEF NewPage, Page
<1>3. handler = Null /\ pages = [p \in Pages |-> NewPage] /\ edits = 0
  BY DEF AutomationsInit
<1> QED BY <1>1, <1>2, <1>3 DEF SaveInv, AutomationsTypeOK

\* A change is of a rule that can be read again.
LEMMA ChangeIsContent ==
  ASSUME NEW content \in Contents, NEW view \in Page,
         view.schedule \in FormSchedules \union {Null}
  PROVE  WithChange(content, view) \in Contents
<1>1. view.status \in {"ACTIVE", "PAUSED", Null}
  BY DEF Page
<1>2. view.schedule # Null => WriteSchedule(view.schedule) \in Rules
  BY RulesAssumption
<1> DEFINE status == IF view.status = Null THEN content.status ELSE view.status
           rule == IF view.schedule = Null THEN content.rule ELSE WriteSchedule(view.schedule)
<1>3. status \in {"ACTIVE", "PAUSED"} /\ rule \in Rules
  BY <1>1, <1>2 DEF Contents
<1>4. WithChange(content, view) = [content EXCEPT !.status = status, !.rule = rule]
  BY DEF WithChange
<1> HIDE DEF status, rule
<1> QED BY <1>3, <1>4 DEF Contents

\* The desktop app writes the file, or deletes it.
LEMMA DesktopStep ==
  ASSUME SaveInv,
         \/ \E r \in FileRules, status \in {"ACTIVE", "PAUSED"}, listed \in BOOLEAN :
              DesktopWrites(r, status, listed)
         \/ DesktopDeletes
  PROVE  SaveInv'
<1>1. config' \in Contents \union {Null} /\ edits' \in Nat /\ pages' = pages /\ handler' = Overtaken
  BY RulesAssumption DEF DesktopWrites, DesktopDeletes, Contents, SaveInv
<1>2. CASE handler = Null
  BY <1>1, <1>2 DEF SaveInv, AutomationsTypeOK, Overtaken
<1>3. CASE handler # Null
  <2>1. handler \in Save
    BY <1>3 DEF SaveInv, AutomationsTypeOK
  <2>2. handler' = [handler EXCEPT !.overtaken = @ \/ handler.step = "rename"]
    BY <1>1, <1>3 DEF Overtaken
  <2>3. /\ handler' \in Save /\ handler'.page = handler.page /\ handler'.step = handler.step
        /\ handler'.found = handler.found /\ handler'.content = handler.content
        /\ handler.step \in {"stage", "compare"} => handler'.overtaken = handler.overtaken
        /\ handler.step = "rename" => handler'.overtaken
    BY <2>1, <2>2 DEF Save
  <2> QED BY <1>1, <1>3, <2>3 DEF SaveInv, AutomationsTypeOK, Waits
<1> QED BY <1>2, <1>3

LEMMA ReplyIsPage ==
  ASSUME pages \in [Pages -> Page], NEW p \in Pages,
         NEW answer \in {"ok", "refused", "failed"}, NEW content \in Contents \union {Null},
         Reply(p, answer, content)
  PROVE  /\ pages' \in [Pages -> Page]
         /\ \A q \in Pages : pages'[q].schedule = pages[q].schedule
         /\ \A q \in Pages \ {p} : pages'[q] = pages[q]
<1>1. PICK view : view = [pages[p] EXCEPT !.answer = answer, !.got = content]
  OBVIOUS
<1>2. view \in Page /\ view.schedule = pages[p].schedule
  BY <1>1 DEF Page
<1>3. pages'[p] = view /\ pages' = [pages EXCEPT ![p] = view]
  BY <1>1 DEF Reply
<1> QED BY <1>2, <1>3

\* A request is answered, and no save is under way then.
LEMMA ReplyKeeps ==
  ASSUME SaveInv, NEW p \in Pages, NEW answer \in {"ok", "refused", "failed"},
         NEW content \in Contents \union {Null}, Reply(p, answer, content),
         UNCHANGED <<config, edits>>, handler' = Null
  PROVE  SaveInv'
<1>1. pages \in [Pages -> Page]
  BY DEF SaveInv, AutomationsTypeOK
<1>2. pages' \in [Pages -> Page] /\ \A q \in Pages : pages'[q].schedule = pages[q].schedule
  BY <1>1, ReplyIsPage
<1> QED BY <1>2 DEF SaveInv, AutomationsTypeOK

LEMMA PatchStep ==
  ASSUME SaveInv, NEW p \in Pages, Patch(p)
  PROVE  SaveInv'
<1>1. handler = Null /\ Waits(p, "save") /\ UNCHANGED <<config, edits>>
  BY DEF Patch
<1>2. CASE Refuses(pages[p])
  BY <1>1, <1>2, ReplyKeeps DEF Patch
<1>3. CASE ~ Refuses(pages[p])
  <2>1. /\ handler' = [page |-> p, step |-> "stage", found |-> config,
                       content |-> WithChange(config, pages[p]), overtaken |-> FALSE]
        /\ pages' = pages
    BY <1>3 DEF Patch
  <2>2. config \in Contents /\ config = pages[p].revision
    BY <1>3 DEF Refuses, Visible, SaveInv, AutomationsTypeOK
  <2>3. WithChange(config, pages[p]) \in Contents
    BY <2>2, ChangeIsContent DEF SaveInv, AutomationsTypeOK
  <2>4. handler' \in Save
    BY <2>1, <2>2, <2>3 DEF Save
  <2> QED BY <1>1, <2>1, <2>2, <2>4 DEF SaveInv, AutomationsTypeOK, Waits
<1> QED BY <1>2, <1>3

\* The bridge goes on with a save, or ends it.
LEMMA HandlerStep ==
  ASSUME SaveInv, Stage \/ Compare \/ Rename \/ RenameFails \/ Answer
  PROVE  SaveInv'
<1>1. /\ handler \in Save /\ handler # Null /\ handler.page \in Pages
      /\ config \in Contents \union {Null} /\ edits \in Nat
  BY DEF SaveInv, AutomationsTypeOK, Save, Stage, Compare, Rename, RenameFails, Answer
<1>2. ASSUME NEW answer \in {"ok", "refused", "failed"}, NEW content \in Contents \union {Null},
             Conclude(answer, content), UNCHANGED <<config, edits>>
      PROVE  SaveInv'
  BY <1>1, <1>2, ReplyKeeps DEF Conclude
<1>3. ASSUME NEW step \in {"compare", "rename", "answer"}, Proceed(step), edits' \in Nat,
             config' \in Contents \union {Null},
             step = "compare" => handler.step = "stage",
             step = "rename" => config' = handler.found
      PROVE  SaveInv'
  <2>1. /\ handler' \in Save /\ handler'.page = handler.page /\ handler'.step = step
        /\ handler'.found = handler.found /\ handler'.content = handler.content
        /\ handler'.overtaken = handler.overtaken /\ pages' = pages
    BY <1>1, <1>3 DEF Proceed, Save
  <2> QED BY <1>1, <1>3, <2>1 DEF SaveInv, AutomationsTypeOK, Waits
<1>4. CASE Stage
  BY <1>1, <1>2, <1>3, <1>4 DEF Stage
<1>5. CASE Compare
  BY <1>1, <1>2, <1>3, <1>5 DEF Compare, Unchanged
<1>6. CASE Rename
  <2>1. handler.content \in Contents
    BY <1>1 DEF Save
  <2>2. config' \in Contents /\ edits' \in Nat
    BY <1>1, <1>6, <2>1 DEF Rename, Contents
  <2> QED BY <1>3, <1>6, <2>2 DEF Rename
<1>7. CASE RenameFails
  BY <1>2, <1>7 DEF RenameFails
<1>8. CASE Answer
  BY <1>1, <1>2, <1>8 DEF Answer, Visible
<1> QED BY <1>4, <1>5, <1>6, <1>7, <1>8

LEMMA ListStep ==
  ASSUME SaveInv, NEW p \in Pages, List(p)
  PROVE  SaveInv'
<1>1. Visible(config) \in Contents \union {Null}
  BY DEF Visible, SaveInv, AutomationsTypeOK
<1> QED BY <1>1, ReplyKeeps DEF List

LEMMA LoseStep ==
  ASSUME SaveInv, NEW p \in Pages, Lose(p)
  PROVE  SaveInv'
<1>1. UNCHANGED <<config, edits>> /\ Reply(p, "failed", Null)
  BY DEF Lose
<1>2. CASE handler' = Null
  BY <1>1, <1>2, ReplyKeeps
<1>3. CASE handler' # Null
  <2>1. handler' = handler /\ handler # Null /\ handler.page # p
    BY <1>3 DEF Lose
  <2>2. pages \in [Pages -> Page] /\ handler.page \in Pages
    BY <2>1 DEF SaveInv, AutomationsTypeOK, Save
  <2>3. /\ pages' \in [Pages -> Page] /\ pages'[handler.page] = pages[handler.page]
        /\ \A q \in Pages : pages'[q].schedule = pages[q].schedule
    BY <1>1, <2>1, <2>2, ReplyIsPage
  <2> QED BY <1>1, <2>1, <2>3 DEF SaveInv, AutomationsTypeOK, Waits
<1> QED BY <1>2, <1>3

\* A page changes while no save of it is under way.
LEMMA PageKeeps ==
  ASSUME SaveInv, NEW p \in Pages, pages[p].request # "save" \/ pages[p].answer # "none",
         NEW view \in Page, view.schedule \in FormSchedules \union {Null},
         pages' = [pages EXCEPT ![p] = view], UNCHANGED <<config, handler, edits>>
  PROVE  SaveInv'
<1>1. pages \in [Pages -> Page]
  BY DEF SaveInv, AutomationsTypeOK
<1>2. pages' \in [Pages -> Page] /\ \A q \in Pages : pages'[q] = IF q = p THEN view ELSE pages[q]
  BY <1>1
<1>3. CASE handler = Null
  BY <1>2, <1>3 DEF SaveInv, AutomationsTypeOK
<1>4. CASE handler # Null
  <2>1. handler.page \in Pages /\ handler.page # p
    BY <1>4 DEF SaveInv, AutomationsTypeOK, Save, Waits
  <2>2. pages'[handler.page] = pages[handler.page]
    BY <1>2, <2>1
  <2> QED BY <1>2, <1>4, <2>1, <2>2 DEF SaveInv, AutomationsTypeOK, Waits
<1> QED BY <1>3, <1>4

LEMMA SendsKeeps ==
  ASSUME SaveInv, NEW p \in Pages, NEW request \in {"list", "save"},
         NEW revision \in Contents \union {Null}, NEW status \in {"ACTIVE", "PAUSED", Null},
         NEW schedule \in FormSchedules \union {Null},
         Sends(p, request, revision, status, schedule)
  PROVE  SaveInv'
<1> DEFINE view == [pages[p] EXCEPT !.request = request, !.revision = revision, !.status = status,
                                    !.schedule = schedule, !.answer = "none", !.got = Null]
<1>1. pages[p] \in Page /\ pages[p].request = "none" /\ schedule \in Schedules \union {Null}
  BY RulesAssumption DEF SaveInv, AutomationsTypeOK, Sends
<1>2. view \in Page /\ view.schedule = schedule
  BY <1>1, ZenonT(40) DEF Page
<1>3. pages' = [pages EXCEPT ![p] = view] /\ UNCHANGED <<config, handler, edits>>
  BY DEF Sends
<1> HIDE DEF view
<1> QED BY <1>1, <1>2, <1>3, PageKeeps

LEMMA UserStep ==
  ASSUME SaveInv, NEW p \in Pages,
         \/ Refresh(p) \/ Toggle(p) \/ Edit(p) \/ CloseForm(p) \/ ShowAnswer(p)
         \/ \E s \in FormSchedules : SaveSchedule(p, s)
  PROVE  SaveInv'
<1>1. /\ pages[p] \in Page /\ pages[p].schedule \in FormSchedules \union {Null}
      /\ pages[p].shown \in Contents \union {Null} /\ pages[p].editing \in Contents \union {Null}
      /\ pages[p].got \in Contents \union {Null}
  BY DEF SaveInv, AutomationsTypeOK, Page
<1>2. CASE Refresh(p)
  BY <1>2, SendsKeeps DEF Refresh
<1>3. CASE Toggle(p)
  BY <1>1, <1>3, SendsKeeps DEF Toggle
<1>4. CASE \E s \in FormSchedules : SaveSchedule(p, s)
  BY <1>1, <1>4, SendsKeeps DEF SaveSchedule
<1>5. ASSUME Edit(p) \/ CloseForm(p) PROVE SaveInv'
  <2>1. PICK editing \in Contents \union {Null} :
          pages' = [pages EXCEPT ![p].editing = editing]
    BY <1>1, <1>5 DEF Edit, CloseForm
  <2>2. PICK view : view = [pages[p] EXCEPT !.editing = editing]
    OBVIOUS
  <2>3. view \in Page /\ view.schedule = pages[p].schedule
    BY <1>1, <2>2 DEF Page
  <2>4. pages' = [pages EXCEPT ![p] = view]
    BY <2>1, <2>2
  <2>5. pages[p].request # "save" /\ UNCHANGED <<config, handler, edits>>
    BY <1>5 DEF Edit, CloseForm
  <2> QED BY <1>1, <2>3, <2>4, <2>5, PageKeeps
<1>6. CASE ShowAnswer(p)
  <2>1. PICK view : view = IF pages[p].answer = "ok" THEN [NewPage EXCEPT !.shown = pages[p].got]
                           ELSE [NewPage EXCEPT !.shown = pages[p].shown,
                                                !.editing = pages[p].editing]
    OBVIOUS
  <2>2. view \in Page /\ view.schedule = Null
    BY <1>1, <2>1 DEF Page, NewPage
  <2>3. /\ pages' = [pages EXCEPT ![p] = view]
        /\ pages[p].answer # "none" /\ UNCHANGED <<config, handler, edits>>
    BY <1>6, <2>1 DEF ShowAnswer
  <2> QED BY <2>2, <2>3, PageKeeps
<1> QED BY <1>2, <1>3, <1>4, <1>5, <1>6

LEMMA SaveStep ==
  ASSUME SaveInv, [AutomationsNext]_automationVars
  PROVE  SaveInv'
<1>1. CASE UNCHANGED automationVars
  BY <1>1 DEF automationVars, SaveInv, AutomationsTypeOK, Waits
<1>2. CASE AutomationsNext
  BY <1>2, DesktopStep, HandlerStep, ListStep, PatchStep, LoseStep, UserStep DEF AutomationsNext
<1> QED BY <1>1, <1>2

LEMMA SaveInvariant == AutomationsSpec => []SaveInv
<1>1. AutomationsInit => SaveInv
  BY SaveStart
<1>2. SaveInv /\ [AutomationsNext]_automationVars => SaveInv'
  BY SaveStep
<1> QED BY <1>1, <1>2, PTL DEF AutomationsSpec

(* The file, what the bridge handles and what the pages hold have their    *)
(* types, and a save that is handled is one its page waits for             *)
(* (AutomationsTypeOK).                                                    *)
THEOREM AutomationsTypeCorrect == AutomationsSpec => []AutomationsTypeOK
<1>1. SaveInv => AutomationsTypeOK
  BY DEF SaveInv
<1> QED BY <1>1, SaveInvariant, PTL

\* Of the steps that change the file during a save, the desktop app's are told.
LEMMA RenameWritesTheChange ==
  ASSUME SaveInv, [AutomationsNext]_automationVars,
         handler # Null, handler.step = "rename", config' # config, ~ handler'.overtaken
  PROVE  LET view == pages[handler.page] IN
         /\ config = view.revision
         /\ config' = [WithChange(view.revision, view) EXCEPT !.edit = edits']
<1>1. handler \in Save
  BY DEF SaveInv, AutomationsTypeOK
<1>2. handler' # Overtaken
  <2>1. Overtaken = [handler EXCEPT !.overtaken = @ \/ handler.step = "rename"]
    BY DEF Overtaken
  <2>2. Overtaken.overtaken
    BY <1>1, <2>1 DEF Save
  <2> QED BY <2>2
<1>3. Rename
  BY <1>2 DEF AutomationsNext, automationVars, DesktopWrites, DesktopDeletes, Stage, Compare,
              RenameFails, Answer, List, Patch, Lose, Refresh, Toggle, Edit, CloseForm, ShowAnswer,
              SaveSchedule, Sends
<1>4. handler'.overtaken = handler.overtaken
  BY <1>1, <1>3 DEF Rename, Proceed, Save
<1> QED BY <1>3, <1>4 DEF SaveInv, Rename

(* SaveChangesWhatWasShown: a save changes in the file what its page has   *)
(* shown and nothing else of it, unless the desktop app writes after the   *)
(* last comparison.                                                        *)
THEOREM SavesChangeWhatWasShown == AutomationsSpec => SaveChangesWhatWasShown
<1>1. SaveInv /\ [AutomationsNext]_automationVars =>
        [handler # Null /\ handler.step = "rename" /\ config' # config /\ ~ handler'.overtaken =>
           LET view == pages[handler.page] IN
           /\ config = view.revision
           /\ config' = [WithChange(view.revision, view) EXCEPT !.edit = edits']]_automationVars
  BY RenameWritesTheChange
<1> QED BY <1>1, SaveInvariant, PTL DEF AutomationsSpec, SaveChangesWhatWasShown

-----------------------------------------------------------------------------
(* Schedules (Automations): lists in an order, and what a place in one is. *)

\* Every set of naturals has a least one.
LEMMA LeastNumber ==
  ASSUME NEW S \in SUBSET Nat, S # {}
  PROVE  \E m \in S : \A k \in S : m <= k
<1>1. IsWellFoundedOn(OpToRel(<, Nat), Nat)
  BY NatLessThanWellFounded
<1>2. PICK R : R = OpToRel(<, Nat)
  OBVIOUS
<1>3. R = {ss \in Nat \X Nat : ss[1] < ss[2]}
  BY <1>2 DEF OpToRel
<1>4. IsWellFoundedOn(R, Nat)
  BY <1>1, <1>2
<1>5. PICK m \in S : \A k \in S : ~ (<<k, m>> \in R)
  BY <1>4, WFMin
<1>6. \A k \in S : ~ (k < m)
  BY <1>3, <1>5
<1> QED BY <1>6

\* What is so of 0, and of each number after one it is so of, is so of them all.
LEMMA UpTo ==
  ASSUME NEW N \in Nat, NEW Good \in SUBSET (0 .. N), 0 \in Good,
         \A k \in 1 .. N : k - 1 \in Good => k \in Good
  PROVE  N \in Good
<1>1. PICK bad : bad = (0 .. N) \ Good
  OBVIOUS
<1>2. SUFFICES ASSUME bad # {} PROVE FALSE
  BY <1>1
<1>3. bad \in SUBSET Nat
  BY <1>1
<1>4. PICK m \in bad : \A k \in bad : m <= k
  BY <1>2, <1>3, LeastNumber
<1>5. m \in 0 .. N /\ m \notin Good
  BY <1>1, <1>4
<1>6. m \in 1 .. N
  BY <1>5
<1>7. m - 1 \notin bad
  BY <1>4, <1>6
<1>8. m - 1 \in 0 .. N
  BY <1>6
<1>9. m - 1 \in Good
  BY <1>1, <1>7, <1>8
<1> QED BY <1>5, <1>6, <1>9

-----------------------------------------------------------------------------

\* Quotient and remainder.
LEMMA DivMod ==
  ASSUME NEW n \in Nat \ {0}, NEW k \in Int
  PROVE  /\ k \div n \in Int /\ k % n \in 0 .. n - 1
         /\ k = n * (k \div n) + (k % n)
OBVIOUS

LEMMA MoreTimes ==
  ASSUME NEW n \in Nat, NEW q \in Int, NEW p \in Int, q < p
  PROVE  n * q + n <= n * p
<1>1. PICK d \in Nat : p = q + 1 + d
  <2>1. p - q - 1 \in Nat /\ p = q + 1 + (p - q - 1)
    OBVIOUS
  <2> QED BY <2>1
<1>2. n * p = n * q + n + n * d
  BY <1>1
<1>3. n * d \in Nat /\ n * q \in Int
  OBVIOUS
<1> QED BY <1>2, <1>3

LEMMA DivModOf ==
  ASSUME NEW n \in Nat \ {0}, NEW q \in Int, NEW r \in 0 .. n - 1
  PROVE  (n * q + r) \div n = q /\ (n * q + r) % n = r
<1>1. PICK k : k = n * q + r
  OBVIOUS
<1>2. n * q \in Int /\ k \in Int
  BY <1>1
<1>3. PICK p, s : p = k \div n /\ s = k % n
  OBVIOUS
<1>4. p \in Int /\ s \in 0 .. n - 1 /\ k = n * p + s /\ n * p \in Int
  <2>1. /\ k \div n \in Int /\ k % n \in 0 .. n - 1
        /\ k = n * (k \div n) + (k % n)
    BY <1>2, DivMod
  <2>2. p \in Int /\ s \in 0 .. n - 1 /\ k = n * p + s
    BY <1>3, <2>1
  <2> QED BY <2>2
<1>5. ~ (p < q)
  <2>1. SUFFICES ASSUME p < q PROVE FALSE
    OBVIOUS
  <2>2. n * p + n <= n * q
    BY <1>4, <2>1, MoreTimes
  <2> QED BY <1>1, <1>2, <1>4, <2>2
<1>6. ~ (q < p)
  <2>1. SUFFICES ASSUME q < p PROVE FALSE
    OBVIOUS
  <2>2. n * q + n <= n * p
    BY <1>4, <2>1, MoreTimes
  <2> QED BY <1>1, <1>2, <1>4, <2>2
<1>7. p = q
  BY <1>4, <1>5, <1>6
<1> QED BY <1>1, <1>2, <1>3, <1>4, <1>7

LEMMA ListLength ==
  ASSUME NEW n \in Nat, NEW S, NEW list \in [1 .. n -> S]
  PROVE  Len(list) = n
<1>1. list \in Seq(S)
  BY SeqDef
<1>2. Len(list) \in Nat /\ DOMAIN list = 1 .. Len(list)
  BY <1>1, LenProperties
<1>3. DOMAIN list = 1 .. n
  OBVIOUS
<1> QED BY <1>2, <1>3

-----------------------------------------------------------------------------

\* A list of all members of a set, in the order of their ranks.
ListOf(list, n, S, rank) ==
  /\ list \in [1 .. n -> S]
  /\ \A x \in S : \E i \in 1 .. n : list[i] = x
  /\ \A i, j \in 1 .. n : i < j => rank[list[i]] < rank[list[j]]

\* The list of a set has as many places as the set members, and the place of one
\* is how many come before it, and one.
LEMMA ListCounts ==
  ASSUME NEW n \in Nat, NEW S, NEW rank \in [S -> Int], NEW list, ListOf(list, n, S, rank)
  PROVE  /\ IsFiniteSet(S) /\ Cardinality(S) = n
         /\ \A i \in 1 .. n : Cardinality({y \in S : rank[y] < rank[list[i]]}) = i - 1
         /\ \A i, j \in 1 .. n : list[i] = list[j] => i = j
<1>1. list \in [1 .. n -> S] /\ \A x \in S : \E i \in 1 .. n : list[i] = x
  BY DEF ListOf
<1>2. \A i, j \in 1 .. n : i < j => rank[list[i]] < rank[list[j]]
  BY DEF ListOf
<1>3. \A i \in 1 .. n : rank[list[i]] \in Int
  BY <1>1
<1>4. ASSUME NEW i \in 1 .. n, NEW j \in 1 .. n, list[i] = list[j]
      PROVE  i = j
  BY <1>2, <1>3, <1>4
<1>5. list \in Bijection(1 .. n, S)
  BY <1>1, <1>4 DEF Bijection, Injection, Surjection, IsInjective
<1>6. ExistsBijection(1 .. n, S)
  BY <1>5 DEF ExistsBijection
<1>7. IsFiniteSet(S) /\ Cardinality(S) = n
  BY <1>6, FS_CountingElements, FS_NatBijection
<1>8. ASSUME NEW i \in 1 .. n
      PROVE  Cardinality({y \in S : rank[y] < rank[list[i]]}) = i - 1
  <2>1. PICK T : T = {y \in S : rank[y] < rank[list[i]]}
    OBVIOUS
  <2>2. PICK f : f = [j \in 1 .. i - 1 |-> list[j]]
    OBVIOUS
  <2>3. ASSUME NEW j \in 1 .. i - 1
        PROVE  f[j] \in T
    BY <1>1, <1>2, <2>1, <2>2
  <2>4. f \in [1 .. i - 1 -> T]
    BY <2>2, <2>3
  <2>5. ASSUME NEW y \in T
        PROVE  \E j \in 1 .. i - 1 : f[j] = y
    <3>1. PICK j \in 1 .. n : list[j] = y
      BY <1>1, <2>1
    <3>2. rank[list[j]] < rank[list[i]]
      BY <2>1, <3>1
    <3>3. j < i
      BY <1>2, <1>3, <3>2
    <3>4. j \in 1 .. i - 1
      BY <3>3
    <3> QED BY <2>2, <3>1, <3>4
  <2>6. ASSUME NEW j \in 1 .. i - 1, NEW k \in 1 .. i - 1, f[j] = f[k]
        PROVE  j = k
    BY <1>4, <2>2, <2>6
  <2>7. f \in Bijection(1 .. i - 1, T)
    BY <2>4, <2>5, <2>6 DEF Bijection, Injection, Surjection, IsInjective
  <2>8. ExistsBijection(1 .. i - 1, T) /\ i - 1 \in Nat
    BY <2>7 DEF ExistsBijection
  <2>9. Cardinality(T) = i - 1
    BY <2>8, FS_CountingElements
  <2> QED BY <2>1, <2>9
<1> QED BY <1>4, <1>7, <1>8

Increasing(list) == \A i, j \in DOMAIN list : i < j => list[i] < list[j]

\* A finite set of naturals can be sorted.
LEMMA CanBeSorted ==
  ASSUME NEW S \in SUBSET Nat, IsFiniteSet(S)
  PROVE  \E list \in [1 .. Cardinality(S) -> S] : Increasing(list)
<1>1. PICK N \in Nat : N = Cardinality(S)
  BY FS_CardinalityType
<1> DEFINE Sorts(n, T) == \E list \in [1 .. n -> T] : Increasing(list)
<1>2. PICK good : good = {n \in 0 .. N : \A T \in SUBSET S : Cardinality(T) = n => Sorts(n, T)}
  OBVIOUS
<1>3. \A T \in SUBSET S : IsFiniteSet(T) /\ Cardinality(T) \in Nat
  BY FS_Subset, FS_CardinalityType
<1>4. 0 \in good
  <2>1. ASSUME NEW T \in SUBSET S
        PROVE  Sorts(0, T)
    <3>1. PICK list : list = [i \in 1 .. 0 |-> i]
      OBVIOUS
    <3>2. list \in [1 .. 0 -> T] /\ Increasing(list)
      BY <3>1 DEF Increasing
    <3> QED BY <3>2
  <2> QED BY <1>2, <2>1
<1>5. ASSUME NEW n \in 1 .. N, n - 1 \in good
      PROVE  n \in good
  <2>1. ASSUME NEW T \in SUBSET S, Cardinality(T) = n
        PROVE  Sorts(n, T)
    <3>1. T # {} /\ T \in SUBSET Nat
      BY <2>1, FS_EmptySet
    <3>2. PICK m \in T : \A k \in T : m <= k
      BY <3>1, LeastNumber
    <3>3. PICK U : U = T \ {m}
      OBVIOUS
    <3>4. U \in SUBSET S /\ Cardinality(U) = n - 1
      BY <1>3, <2>1, <3>2, <3>3, FS_RemoveElement
    <3>5. Sorts(n - 1, U)
      BY <1>2, <1>5, <3>4
    <3>6. PICK f \in [1 .. n - 1 -> U] : Increasing(f)
      BY <3>5
    <3>7. PICK g : g = [i \in 1 .. n |-> IF i = 1 THEN m ELSE f[i - 1]]
      OBVIOUS
    <3>8. ASSUME NEW i \in 1 .. n, i # 1
          PROVE  i - 1 \in 1 .. n - 1 /\ g[i] = f[i - 1] /\ g[i] \in U /\ g[i] > m
      <4>1. i - 1 \in 1 .. n - 1
        BY <3>8
      <4>2. g[i] = f[i - 1] /\ f[i - 1] \in U
        BY <3>6, <3>7, <3>8, <4>1
      <4>3. f[i - 1] # m /\ m <= f[i - 1] /\ m \in Nat /\ f[i - 1] \in Nat
        BY <3>1, <3>2, <3>3, <4>2
      <4> QED BY <4>1, <4>2, <4>3
    <3>9. g \in [1 .. n -> T]
      BY <3>3, <3>7, <3>8
    <3>10. ASSUME NEW i \in 1 .. n, NEW j \in 1 .. n, i < j
           PROVE  g[i] < g[j]
      <4>1. j # 1 /\ j - 1 \in 1 .. n - 1 /\ g[j] = f[j - 1] /\ g[j] > m
        BY <3>8, <3>10
      <4>2. CASE i = 1
        <5>1. g[i] = m
          BY <3>7, <4>2
        <5>2. m \in Nat /\ g[j] \in Nat
          BY <3>1, <3>9
        <5> QED BY <4>1, <5>1, <5>2
      <4>3. CASE i # 1
        <5>1. i - 1 \in 1 .. n - 1 /\ g[i] = f[i - 1] /\ i - 1 < j - 1
          BY <3>8, <3>10, <4>3
        <5> QED BY <3>6, <4>1, <5>1 DEF Increasing
      <4> QED BY <4>2, <4>3
    <3>11. Increasing(g)
      BY <3>9, <3>10 DEF Increasing
    <3> QED BY <3>9, <3>11
  <2> QED BY <1>2, <2>1
<1>6. good \in SUBSET (0 .. N)
  BY <1>2
<1>7. \A k \in 1 .. N : k - 1 \in good => k \in good
  <2> HIDE DEF Sorts
  <2> QED BY <1>5
<1>8. N \in good
  BY <1>4, <1>6, <1>7, UpTo
<1> QED BY <1>1, <1>2, <1>8

\* numbers sorts: its list is one of the whole set.
LEMMA AscendingLists ==
  ASSUME NEW S \in SUBSET Nat, IsFiniteSet(S), NEW rank, rank = [x \in S |-> x]
  PROVE  Cardinality(S) \in Nat /\ ListOf(Ascending(S), Cardinality(S), S, rank)
<1>1. PICK n \in Nat : n = Cardinality(S)
  BY FS_CardinalityType
<1>2. \E list \in [1 .. n -> S] : \A i, j \in DOMAIN list : i < j => list[i] < list[j]
  BY <1>1, CanBeSorted DEF Increasing
<1>3. PICK list : list = Ascending(S)
  OBVIOUS
<1>4. list \in [1 .. n -> S] /\ \A i, j \in DOMAIN list : i < j => list[i] < list[j]
  BY <1>1, <1>2, <1>3 DEF Ascending
<1>5. \A i, j \in 1 .. n : i < j => rank[list[i]] < rank[list[j]]
  BY <1>4
<1>6. ASSUME NEW i \in 1 .. n, NEW j \in 1 .. n, list[i] = list[j]
      PROVE  i = j
  <2>1. list[i] \in Nat
    BY <1>4
  <2>2. ~ (i < j) /\ ~ (j < i)
    BY <1>4, <1>6, <2>1
  <2> QED BY <2>2
<1>7. list \in Injection(1 .. n, S)
  BY <1>4, <1>6 DEF Injection, IsInjective
<1>8. IsFiniteSet(1 .. n) /\ Cardinality(1 .. n) = n
  BY FS_Interval
<1>9. list \in Surjection(1 .. n, S)
  BY <1>1, <1>7, <1>8, FS_Injection
<1>10. \A x \in S : \E i \in 1 .. n : list[i] = x
  BY <1>9 DEF Surjection
<1> QED BY <1>1, <1>3, <1>4, <1>5, <1>10 DEF ListOf

\* The rank of a pair is that of its first, then that of its second.
RanksPairs(rank, A, B, K, ra, rb) == \A x \in A, y \in B : rank[<<x, y>>] = K * ra[x] + rb[y]

\* Each of a list with each of another is the list of the pairs.
LEMMA PairsLists ==
  ASSUME NEW m \in Nat, NEW n \in Nat, NEW A, NEW B, NEW K \in Nat,
         NEW ra \in [A -> Nat], NEW rb \in [B -> 0 .. K - 1],
         NEW a, NEW b, ListOf(a, m, A, ra), ListOf(b, n, B, rb),
         NEW rank, RanksPairs(rank, A, B, K, ra, rb)
  PROVE  ListOf(Pairs(a, b), m * n, A \X B, rank)
<1>1. a \in [1 .. m -> A] /\ b \in [1 .. n -> B]
  BY DEF ListOf
<1>2. Len(a) = m /\ Len(b) = n
  BY <1>1, ListLength
<1>3. PICK list : list = Pairs(a, b)
  OBVIOUS
<1>4. list = [i \in 1 .. m * n |-> <<a[((i - 1) \div n) + 1], b[((i - 1) % n) + 1]>>]
  BY <1>2, <1>3 DEF Pairs
<1>5. m * n \in Nat /\ m * n = n * m
  OBVIOUS
<1>6. ASSUME NEW i \in 1 .. m * n
      PROVE  \E q \in 0 .. m - 1, r \in 0 .. n - 1 :
               i = n * q + r + 1 /\ n * q \in Nat /\ list[i] = <<a[q + 1], b[r + 1]>>
  <2>1. n \in Nat \ {0} /\ i - 1 \in Nat
    <3>1. n # 0
      <4>1. SUFFICES ASSUME n = 0 PROVE FALSE
        OBVIOUS
      <4>2. m * n = 0
        BY <4>1
      <4> QED BY <4>2
    <3> QED BY <1>5, <3>1
  <2>2. PICK k \in Nat : k = i - 1
    BY <2>1
  <2>3. /\ k \div n \in Int /\ k % n \in 0 .. n - 1
        /\ k = n * (k \div n) + (k % n)
    BY <2>1, DivMod
  <2>4. PICK q \in Int, r \in 0 .. n - 1 : q = k \div n /\ r = k % n
    BY <2>3
  <2>5. k = n * q + r /\ q \in Nat /\ n * q \in Nat
    <3>1. k = n * q + r /\ n * q \in Int
      BY <2>3, <2>4
    <3>2. q >= 0
      <4>1. SUFFICES ASSUME q < 0 PROVE FALSE
        OBVIOUS
      <4>2. n * q + n <= n * 0
        BY <4>1, MoreTimes
      <4> QED BY <2>1, <3>1, <4>2
    <3> QED BY <3>1, <3>2
  <2>6. q < m
    <3>1. SUFFICES ASSUME m <= q PROVE FALSE
      OBVIOUS
    <3>2. n * m <= n * q
      <4>1. CASE m = q
        BY <1>5, <4>1
      <4>2. CASE m # q
        <5>1. n * m + n <= n * q
          BY <3>1, <4>2, MoreTimes
        <5> QED BY <1>5, <2>5, <5>1
      <4> QED BY <4>1, <4>2
    <3> QED BY <1>5, <2>2, <2>5, <3>2
  <2>7. list[i] = <<a[q + 1], b[r + 1]>>
    BY <1>4, <2>2, <2>4
  <2>8. q \in 0 .. m - 1 /\ i = n * q + r + 1
    BY <2>2, <2>5, <2>6
  <2> QED BY <2>4, <2>5, <2>7, <2>8
<1>7. list \in [1 .. m * n -> A \X B]
  <2>1. ASSUME NEW i \in 1 .. m * n
        PROVE  list[i] \in A \X B
    <3>1. PICK q \in 0 .. m - 1, r \in 0 .. n - 1 : list[i] = <<a[q + 1], b[r + 1]>>
      BY <1>6
    <3>2. q + 1 \in 1 .. m /\ r + 1 \in 1 .. n
      OBVIOUS
    <3> QED BY <1>1, <3>1, <3>2
  <2>2. PICK body : body = [i \in 1 .. m * n |-> list[i]]
    OBVIOUS
  <2>3. list = body
    BY <1>4, <2>2
  <2> QED BY <2>1, <2>2, <2>3
<1>8. ASSUME NEW x \in A, NEW y \in B
      PROVE  \E i \in 1 .. m * n : list[i] = <<x, y>>
  <2>1. PICK p \in 1 .. m, s \in 1 .. n : a[p] = x /\ b[s] = y
    BY DEF ListOf
  <2>2. PICK q \in 0 .. m - 1, r \in 0 .. n - 1 : q = p - 1 /\ r = s - 1
    OBVIOUS
  <2>3. n \in Nat \ {0} /\ q \in Int /\ q \in Nat /\ r \in 0 .. n - 1
    OBVIOUS
  <2>4. (n * q + r) \div n = q /\ (n * q + r) % n = r
    BY <2>3, DivModOf, Zenon
  <2>5. n * q + n <= n * m /\ n * q \in Nat
    BY <2>3, MoreTimes
  <2>6. PICK i \in 1 .. m * n : i = n * q + r + 1
    BY <1>5, <2>5
  <2>7. i - 1 = n * q + r
    BY <2>5, <2>6
  <2>8. list[i] = <<a[q + 1], b[r + 1]>>
    BY <1>4, <2>4, <2>7
  <2>9. q + 1 = p /\ r + 1 = s
    BY <2>2
  <2> QED BY <2>1, <2>8, <2>9
<1>9. ASSUME NEW i \in 1 .. m * n, NEW j \in 1 .. m * n, i < j
      PROVE  rank[list[i]] < rank[list[j]]
  <2>1. PICK q \in 0 .. m - 1, r \in 0 .. n - 1 :
          i = n * q + r + 1 /\ n * q \in Nat /\ list[i] = <<a[q + 1], b[r + 1]>>
    BY <1>6
  <2>2. PICK p \in 0 .. m - 1, s \in 0 .. n - 1 :
          j = n * p + s + 1 /\ n * p \in Nat /\ list[j] = <<a[p + 1], b[s + 1]>>
    BY <1>6
  <2>3. ~ (p < q)
    <3>1. SUFFICES ASSUME p < q PROVE FALSE
      OBVIOUS
    <3>2. n * p + n <= n * q
      BY <3>1, MoreTimes
    <3> QED BY <1>9, <2>1, <2>2, <3>2
  <2>4. a[q + 1] \in A /\ a[p + 1] \in A /\ b[r + 1] \in B /\ b[s + 1] \in B
    BY <1>1
  <2>5. PICK u \in Nat, v \in Nat, w \in 0 .. K - 1, z \in 0 .. K - 1 :
          u = ra[a[q + 1]] /\ v = ra[a[p + 1]] /\ w = rb[b[r + 1]] /\ z = rb[b[s + 1]]
    BY <2>4
  <2>6. rank[list[i]] = K * u + w /\ rank[list[j]] = K * v + z
    BY <2>1, <2>2, <2>4, <2>5 DEF RanksPairs
  <2>7. K * u \in Nat /\ K * v \in Nat
    OBVIOUS
  <2>8. CASE p = q
    <3>1. r < s
      BY <1>9, <2>1, <2>2, <2>8
    <3>2. w < z
      <4>1. \A g, h \in 1 .. n : g < h => rb[b[g]] < rb[b[h]]
        BY DEF ListOf
      <4>2. r + 1 \in 1 .. n /\ s + 1 \in 1 .. n /\ r + 1 < s + 1
        BY <3>1
      <4> QED BY <2>5, <4>1, <4>2
    <3>3. u = v
      BY <2>5, <2>8
    <3> QED BY <2>6, <2>7, <3>2, <3>3
  <2>9. CASE q < p
    <3>1. u < v
      <4>1. \A g, h \in 1 .. m : g < h => ra[a[g]] < ra[a[h]]
        BY DEF ListOf
      <4>2. q + 1 \in 1 .. m /\ p + 1 \in 1 .. m /\ q + 1 < p + 1
        BY <2>9
      <4> QED BY <2>5, <4>1, <4>2
    <3>2. K * u + K <= K * v
      BY <3>1, MoreTimes
    <3> QED BY <2>6, <2>7, <3>2
  <2> QED BY <2>3, <2>8, <2>9
<1>10. ASSUME NEW x \in A \X B
       PROVE  \E i \in 1 .. m * n : list[i] = x
  <2>1. PICK u \in A, v \in B : x = <<u, v>>
    OBVIOUS
  <2>2. PICK i \in 1 .. m * n : list[i] = <<u, v>>
    BY <1>8
  <2> QED BY <2>1, <2>2
<1> QED BY <1>3, <1>7, <1>9, <1>10 DEF ListOf

\* Each hour with each minute is the list of the times.
LEMMA TimesLists ==
  ASSUME NEW H \in SUBSET Hours, NEW M \in SUBSET Minutes,
         NEW rank, \A t \in H \X M : rank[t] = MinuteOf(t)
  PROVE  /\ Cardinality(H) \in Nat /\ Cardinality(M) \in Nat
         /\ ListOf(TimesOf(H, M), Cardinality(H) * Cardinality(M), H \X M, rank)
<1>1. H \in SUBSET Nat /\ M \in SUBSET Nat /\ (\A x \in H : x <= 23) /\ \A x \in M : x <= 59
  BY ClockAssumption
<1>2. IsFiniteSet(H) /\ IsFiniteSet(M)
  BY <1>1, FS_BoundedSetOfNaturals
<1>3. PICK ra, rb : ra = [x \in H |-> x] /\ rb = [x \in M |-> x]
  OBVIOUS
<1>4. ra \in [H -> Nat] /\ rb \in [M -> 0 .. 60 - 1]
  BY <1>1, <1>3
<1>5. PICK m, n : m = Cardinality(H) /\ n = Cardinality(M)
  OBVIOUS
<1>6. m \in Nat /\ ListOf(Ascending(H), m, H, ra)
  BY <1>1, <1>2, <1>3, <1>5, AscendingLists
<1>7. n \in Nat /\ ListOf(Ascending(M), n, M, rb)
  BY <1>1, <1>2, <1>3, <1>5, AscendingLists
<1>8. PICK K \in Nat : K = 60
  OBVIOUS
<1>9. RanksPairs(rank, H, M, K, ra, rb)
  BY <1>3, <1>8 DEF MinuteOf, RanksPairs
<1>10. ra \in [H -> Nat] /\ rb \in [M -> 0 .. K - 1]
  BY <1>4, <1>8
<1>11. PICK a, b : a = Ascending(H) /\ b = Ascending(M)
  OBVIOUS
<1>12. ListOf(a, m, H, ra) /\ ListOf(b, n, M, rb)
  BY <1>6, <1>7, <1>11
<1>13. ListOf(Pairs(a, b), m * n, H \X M, rank)
  BY <1>6, <1>7, <1>9, <1>10, <1>12, PairsLists
<1> QED BY <1>5, <1>6, <1>7, <1>11, <1>13 DEF TimesOf

\* How far a day is into a week that begins with another, and the days of it.
LEMMA DaysIntoWeek ==
  ASSUME NEW first \in Week
  PROVE  /\ \A d \in Week : (d - first) % WeekLength \in 0 .. WeekLength - 1
         /\ \A n \in 1 .. WeekLength : /\ (first + n - 1) % WeekLength \in Week
                                       /\ (((first + n - 1) % WeekLength) - first) % WeekLength = n - 1
         /\ \A d \in Week : d = (first + ((d - first) % WeekLength)) % WeekLength
<1>1. WeekLength \in Nat \ {0} /\ first \in Nat /\ first < WeekLength
  BY PositionsAssumption DEF Week
<1>2. PICK W \in Nat \ {0} : W = WeekLength
  BY <1>1
<1>3. ASSUME NEW x \in 0 .. W - 1
      PROVE  x % W = x /\ (x + W) % W = x /\ (x - W) % W = x
  <2>1. (W * 0 + x) % W = x /\ (W * 1 + x) % W = x /\ (W * (-1) + x) % W = x
    BY DivModOf
  <2>2. W * 0 + x = x /\ W * 1 + x = x + W /\ W * (-1) + x = x - W
    OBVIOUS
  <2> QED BY <2>1, <2>2
<1>4. ASSUME NEW d \in Week
      PROVE  /\ (d - first) % W \in 0 .. W - 1
             /\ d = (first + ((d - first) % W)) % W
  <2>1. d \in 0 .. W - 1
    BY <1>2 DEF Week
  <2>2. CASE d >= first
    <3>1. d - first \in 0 .. W - 1
      BY <1>1, <1>2, <2>1, <2>2
    <3>2. (d - first) % W = d - first
      BY <1>3, <3>1
    <3>3. first + (d - first) = d
      BY <1>1, <2>1
    <3>4. d % W = d
      BY <1>3, <2>1
    <3> QED BY <3>1, <3>2, <3>3, <3>4
  <2>3. CASE d < first
    <3>1. PICK x \in 0 .. W - 1 : x = d - first + W
      BY <1>1, <1>2, <2>1, <2>3
    <3>2. x - W = d - first
      BY <1>1, <2>1, <3>1
    <3>3. (d - first) % W = x
      BY <1>3, <3>2
    <3>4. first + x = d + W
      BY <1>1, <2>1, <3>1
    <3>5. (d + W) % W = d
      BY <1>3, <2>1
    <3> QED BY <3>3, <3>4, <3>5
  <2> QED BY <1>1, <2>1, <2>2, <2>3
<1>5. ASSUME NEW n \in 1 .. W
      PROVE  (first + n - 1) % W \in Week /\ (((first + n - 1) % W) - first) % W = n - 1
  <2>1. CASE first + n - 1 < W
    <3>1. PICK x \in 0 .. W - 1 : x = first + n - 1
      BY <1>1, <2>1
    <3>2. x % W = x
      BY <1>3
    <3>3. x - first = n - 1 /\ n - 1 \in 0 .. W - 1
      BY <1>1, <3>1
    <3>4. (n - 1) % W = n - 1
      BY <1>3, <3>3
    <3> QED BY <1>2, <3>1, <3>2, <3>3, <3>4 DEF Week
  <2>2. CASE first + n - 1 >= W
    <3>1. PICK x \in 0 .. W - 1 : x = first + n - 1 - W
      BY <1>1, <1>2, <2>2
    <3>2. x + W = first + n - 1
      BY <1>1, <3>1
    <3>3. (first + n - 1) % W = x
      BY <1>3, <3>2
    <3>4. PICK y \in 0 .. W - 1 : y = n - 1
      OBVIOUS
    <3>5. x - first = y - W
      BY <1>1, <3>1, <3>4
    <3>6. (y - W) % W = y
      BY <1>3
    <3> QED BY <1>2, <3>3, <3>4, <3>5, <3>6 DEF Week
  <2> QED BY <1>1, <2>1, <2>2
<1> QED BY <1>2, <1>4, <1>5

\* A base, and what steps make of it one after another.
Iteration(f, N, Values, base, move) ==
  /\ f \in [0 .. N -> Values]
  /\ f[0] = base
  /\ \A k \in 1 .. N : f[k] = move[k][f[k - 1]]

\* Repeating a step is well defined.
LEMMA Iterated ==
  ASSUME NEW N \in Nat, NEW Values, NEW base \in Values, NEW move \in [1 .. N -> [Values -> Values]]
  PROVE  \E f : Iteration(f, N, Values, base, move)
<1> DEFINE Ran(m, f) ==
      f[0] = base /\ \A k \in 1 .. m : f[k] = move[k][f[k - 1]]
<1>1. PICK good : good = {m \in 0 .. N : \E f \in [0 .. m -> Values] : Ran(m, f)}
  OBVIOUS
<1>2. 0 \in good
  <2>1. PICK f : f = [k \in 0 .. 0 |-> base]
    OBVIOUS
  <2>2. f \in [0 .. 0 -> Values] /\ Ran(0, f)
    BY <2>1
  <2> QED BY <1>1, <2>2
<1>3. ASSUME NEW m \in 1 .. N, m - 1 \in good
      PROVE  m \in good
  <2>1. PICK f \in [0 .. m - 1 -> Values] : Ran(m - 1, f)
    BY <1>1, <1>3
  <2>2. PICK last : last = move[m][f[m - 1]]
    OBVIOUS
  <2>3. m - 1 \in 0 .. m - 1
    OBVIOUS
  <2>4. f[m - 1] \in Values
    BY <2>3
  <2>5. last \in Values
    BY <2>2, <2>4
  <2>6. PICK g : g = [k \in 0 .. m |-> IF k = m THEN last ELSE f[k]]
    OBVIOUS
  <2>7. g \in [0 .. m -> Values]
    BY <2>5, <2>6
  <2>8. g[0] = base
    BY <2>1, <2>6
  <2>9. ASSUME NEW k \in 1 .. m
        PROVE  g[k] = move[k][g[k - 1]]
    <3>1. k - 1 \in 0 .. m /\ k - 1 # m /\ g[k - 1] = f[k - 1]
      BY <2>6
    <3>2. CASE k = m
      BY <2>2, <2>6, <3>1, <3>2
    <3>3. CASE k # m
      <4>1. k \in 1 .. m - 1 /\ g[k] = f[k]
        BY <2>6, <3>3
      <4> QED BY <2>1, <3>1, <4>1
    <3> QED BY <3>2, <3>3
  <2>10. Ran(m, g)
    BY <2>8, <2>9
  <2>11. m \in 0 .. N
    OBVIOUS
  <2> HIDE DEF Ran
  <2> QED BY <1>1, <2>7, <2>10, <2>11
<1>4. good \in SUBSET (0 .. N)
  BY <1>1
<1>5. \A k \in 1 .. N : k - 1 \in good => k \in good
  BY <1>3
<1>6. N \in good
  <2> HIDE DEF Ran
  <2> QED BY <1>2, <1>4, <1>5, UpTo
<1> QED BY <1>1, <1>6 DEF Iteration

\* A list that is added to, in order.
LEMMA AppendLists ==
  ASSUME NEW c \in Nat, NEW S, NEW T, NEW rank \in [T -> Int], S \subseteq T,
         NEW list, ListOf(list, c, S, rank),
         NEW x \in T, \A y \in S : rank[y] < rank[x]
  PROVE  ListOf(Append(list, x), c + 1, S \union {x}, rank)
<1>1. list \in [1 .. c -> S]
  BY DEF ListOf
<1>2. list \in Seq(S \union {x}) /\ Len(list) = c
  <2>1. list \in [1 .. c -> S \union {x}]
    BY <1>1
  <2> QED BY <2>1, ListLength, SeqDef
<1>3. PICK more : more = Append(list, x)
  OBVIOUS
<1>4. /\ more \in Seq(S \union {x}) /\ Len(more) = c + 1
      /\ \A i \in 1 .. c : more[i] = list[i]
      /\ more[c + 1] = x
  BY <1>2, <1>3, AppendProperties
<1>5. more \in [1 .. c + 1 -> S \union {x}]
  BY <1>4, LenProperties
<1>6. ASSUME NEW y \in S \union {x}
      PROVE  \E i \in 1 .. c + 1 : more[i] = y
  <2>1. CASE y = x
    BY <1>4, <2>1
  <2>2. CASE y # x
    <3>1. PICK i \in 1 .. c : list[i] = y
      BY <2>2 DEF ListOf
    <3>2. i \in 1 .. c + 1
      OBVIOUS
    <3> QED BY <1>4, <3>1, <3>2
  <2> QED BY <2>1, <2>2
<1>7. ASSUME NEW i \in 1 .. c + 1, NEW j \in 1 .. c + 1, i < j
      PROVE  rank[more[i]] < rank[more[j]]
  <2>1. i \in 1 .. c /\ more[i] = list[i] /\ list[i] \in S
    BY <1>1, <1>4, <1>7
  <2>2. CASE j = c + 1
    BY <1>4, <2>1, <2>2
  <2>3. CASE j # c + 1
    <3>1. j \in 1 .. c
      BY <2>3
    <3> QED BY <1>4, <1>7, <2>1, <3>1 DEF ListOf
  <2> QED BY <2>2, <2>3
<1> QED BY <1>3, <1>5, <1>6, <1>7 DEF ListOf

IntoWeek(first) == [d \in Week |-> (d - first) % WeekLength]

\* The days of a week, from the one it begins with.
LEMMA DaysLists ==
  ASSUME NEW first \in Week, NEW days \in SUBSET Week
  PROVE  \E n \in Nat : ListOf(DaysFrom(first, days), n, days, IntoWeek(first))
<1>1. PICK W \in Nat \ {0} : W = WeekLength
  BY PositionsAssumption
<1>2. PICK rank : rank = IntoWeek(first)
  OBVIOUS
<1>3. PICK day : day = [n \in 1 .. W |-> (first + n - 1) % W]
  OBVIOUS
<1>4. rank \in [Week -> 0 .. W - 1]
  BY <1>1, <1>2, DaysIntoWeek DEF IntoWeek
<1>5. \A n \in 1 .. W : day[n] \in Week /\ rank[day[n]] = n - 1
  BY <1>1, <1>2, <1>3, DaysIntoWeek DEF IntoWeek
<1>6. ASSUME NEW d \in Week, NEW n \in 1 .. W, rank[d] = n - 1
      PROVE  d = day[n]
  <2>1. d = (first + ((d - first) % W)) % W
    BY <1>1, DaysIntoWeek
  <2>2. (d - first) % W = n - 1
    BY <1>1, <1>2, <1>6 DEF IntoWeek
  <2>3. first + (n - 1) = first + n - 1
    BY DEF Week
  <2> QED BY <1>3, <2>1, <2>2, <2>3
<1>7. PICK Values : Values = Seq(Week)
  OBVIOUS
<1>8. PICK move : move = [n \in 1 .. W |-> [list \in Values |->
                            IF day[n] \in days THEN Append(list, day[n]) ELSE list]]
  OBVIOUS
<1>9. move \in [1 .. W -> [Values -> Values]]
  <2>1. ASSUME NEW n \in 1 .. W
        PROVE  [list \in Values |-> IF day[n] \in days THEN Append(list, day[n]) ELSE list]
                 \in [Values -> Values]
    <3>1. \A list \in Values : Append(list, day[n]) \in Values
      BY <1>5, <1>7, AppendProperties
    <3> QED BY <3>1
  <2>2. ASSUME NEW n \in 1 .. W
        PROVE  move[n] \in [Values -> Values]
    <3>1. move[n] = [list \in Values |-> IF day[n] \in days THEN Append(list, day[n]) ELSE list]
      BY <1>8
    <3> QED BY <2>1, <3>1, Zenon
  <2>3. move = [n \in 1 .. W |-> move[n]]
    <3>1. DOMAIN move = 1 .. W
      BY <1>8
    <3>2. PICK s \in [1 .. W -> {move[n] : n \in 1 .. W}] : s = move
      BY <1>8
    <3> QED BY <3>1, <3>2
  <2> QED BY <2>2, <2>3
<1>10. PICK f \in [0 .. W -> Values] :
         f[0] = <<>> /\ \A n \in 1 .. W : f[n] = move[n][f[n - 1]]
  <2>1. <<>> \in Values
    BY <1>7
  <2>2. PICK f : Iteration(f, W, Values, <<>>, move)
    BY <1>9, <2>1, Iterated
  <2> QED BY <2>2 DEF Iteration
<1>11. ASSUME NEW n \in 1 .. W
       PROVE  f[n] = IF day[n] \in days THEN Append(f[n - 1], day[n]) ELSE f[n - 1]
  <2>1. n - 1 \in 0 .. W
    OBVIOUS
  <2>2. f[n - 1] \in Values
    BY <2>1
  <2>3. move[n][f[n - 1]] = IF day[n] \in days THEN Append(f[n - 1], day[n]) ELSE f[n - 1]
    BY <1>8, <2>2
  <2> QED BY <1>10, <2>3
<1> DEFINE named == [n \in 1 .. WeekLength |-> (first + n - 1) % WeekLength]
           kept[n \in 0 .. WeekLength] ==
             IF n = 0 THEN <<>>
             ELSE IF named[n] \in days THEN Append(kept[n - 1], named[n]) ELSE kept[n - 1]
<1>12. DaysFrom(first, days) = kept[WeekLength]
  BY Zenon DEF DaysFrom
<1>13. named = day
  BY <1>1, <1>3
<1> HIDE DEF named
<1>14. \E h : h = [n \in 0 .. WeekLength |->
                     IF n = 0 THEN <<>>
                     ELSE IF named[n] \in days THEN Append(h[n - 1], named[n]) ELSE h[n - 1]]
  <2>1. ASSUME NEW n \in 0 .. WeekLength
        PROVE  f[n] = IF n = 0 THEN <<>>
                      ELSE IF named[n] \in days THEN Append(f[n - 1], named[n]) ELSE f[n - 1]
    <3>1. CASE n = 0
      BY <1>10, <3>1
    <3>2. CASE n # 0
      <4>1. n \in 1 .. W
        BY <1>1, <3>2
      <4> QED BY <1>11, <1>13, <3>2, <4>1
    <3> QED BY <3>1, <3>2
  <2>2. f = [n \in 0 .. WeekLength |-> f[n]]
    BY <1>1
  <2> QED BY <2>1, <2>2, Zenon
<1>15. PICK g : g = kept
  OBVIOUS
<1>16. g = [n \in 0 .. WeekLength |->
              IF n = 0 THEN <<>>
              ELSE IF named[n] \in days THEN Append(g[n - 1], named[n]) ELSE g[n - 1]]
  BY <1>14, <1>15, Zenon
<1>17. /\ DaysFrom(first, days) = g[W]
       /\ g[0] = <<>>
       /\ \A n \in 1 .. W : g[n] = IF day[n] \in days THEN Append(g[n - 1], day[n]) ELSE g[n - 1]
  <2>1. DaysFrom(first, days) = g[WeekLength]
    BY <1>12, <1>15, Zenon
  <2> HIDE DEF kept
  <2>2. g[0] = <<>>
    <3>1. 0 \in 0 .. WeekLength
      BY <1>1
    <3> QED BY <1>16, <3>1, Zenon
  <2>3. ASSUME NEW n \in 1 .. W
        PROVE  g[n] = IF day[n] \in days THEN Append(g[n - 1], day[n]) ELSE g[n - 1]
    <3>1. n \in 0 .. WeekLength /\ n # 0
      BY <1>1
    <3> QED BY <1>13, <1>16, <3>1, Zenon
  <2> QED BY <1>1, <2>1, <2>2, <2>3
<1> HIDE DEF kept
<1> DEFINE Before(n) == {d \in days : rank[d] < n}
<1>18. PICK good : good = {n \in 0 .. W : \E c \in Nat : ListOf(g[n], c, Before(n), rank)}
  OBVIOUS
<1>19. 0 \in good
  <2>1. g[0] = <<>>
    BY <1>17
  <2>2. Before(0) = {}
    BY <1>4
  <2>3. ListOf(<<>>, 0, {}, rank)
    BY DEF ListOf
  <2> QED BY <1>18, <2>1, <2>2, <2>3
<1>20. ASSUME NEW n \in 1 .. W, n - 1 \in good
       PROVE  n \in good
  <2>1. n \in 0 .. W /\ n # 0
    OBVIOUS
  <2>2. PICK c \in Nat : ListOf(g[n - 1], c, Before(n - 1), rank)
    BY <1>18, <1>20
  <2>3. \A d \in days : rank[d] \in Int /\ (rank[d] = n - 1 => d = day[n])
    BY <1>4, <1>6
  <2>4. CASE day[n] \in days
    <3>1. g[n] = Append(g[n - 1], day[n])
      BY <1>17, <2>4
    <3>2. Before(n) = Before(n - 1) \union {day[n]}
      BY <1>5, <2>3, <2>4
    <3>3. \A d \in Before(n - 1) : rank[d] < rank[day[n]]
      BY <1>5
    <3>4. rank \in [Week -> Int] /\ Before(n - 1) \subseteq Week /\ day[n] \in Week
      BY <1>4, <1>5
    <3>5. PICK S, list, x : S = Before(n - 1) /\ list = g[n - 1] /\ x = day[n]
      OBVIOUS
    <3>6. ListOf(Append(list, x), c + 1, S \union {x}, rank)
      BY <2>2, <3>3, <3>4, <3>5, AppendLists
    <3>7. c + 1 \in Nat
      OBVIOUS
    <3>8. ListOf(g[n], c + 1, Before(n), rank)
      BY <3>1, <3>2, <3>5, <3>6
    <3> QED BY <1>18, <2>1, <3>7, <3>8
  <2>5. CASE day[n] \notin days
    <3>1. g[n] = g[n - 1]
      BY <1>17, <2>5
    <3>2. Before(n) = Before(n - 1)
      BY <2>3, <2>5
    <3>3. ListOf(g[n], c, Before(n), rank)
      BY <2>2, <3>1, <3>2
    <3> QED BY <1>18, <2>1, <3>3
  <2> QED BY <2>4, <2>5
<1>21. good \in SUBSET (0 .. W)
  BY <1>18
<1>22. \A n \in 1 .. W : n - 1 \in good => n \in good
  <2> HIDE DEF Before
  <2> QED BY <1>20
<1>23. W \in good
  BY <1>19, <1>21, <1>22, UpTo
<1>24. Before(W) = days
  BY <1>4
<1> QED BY <1>2, <1>17, <1>18, <1>23, <1>24

\* The place of each in the order of the ranks.
PlaceOf(S, rank) == [x \in S |-> Cardinality({y \in S : rank[y] < rank[x]}) + 1]

\* Whether one of so many, with this place, is among the positions.
IsAt(place, n, positions) == {place, place - n - 1} \intersect positions # {}

\* The positions of a list name those with such a place.
LEMMA NamedOnes ==
  ASSUME NEW n \in Nat, NEW S, NEW rank \in [S -> Int], NEW list, ListOf(list, n, S, rank),
         NEW positions
  PROVE  /\ Cardinality(S) = n
         /\ Named(list, positions) = {x \in S : IsAt(PlaceOf(S, rank)[x], n, positions)}
<1>1. list \in [1 .. n -> S] /\ \A x \in S : \E i \in 1 .. n : list[i] = x
  BY DEF ListOf
<1>2. Len(list) = n /\ DOMAIN list = 1 .. n
  BY <1>1, ListLength
<1>3. Cardinality(S) = n
  BY ListCounts
<1>4. \A i \in 1 .. n : Cardinality({y \in S : rank[y] < rank[list[i]]}) = i - 1
  BY ListCounts
<1>5. ASSUME NEW i \in 1 .. n
      PROVE  PlaceOf(S, rank)[list[i]] = i
  <2>1. list[i] \in S
    BY <1>1
  <2>2. PlaceOf(S, rank)[list[i]] = Cardinality({y \in S : rank[y] < rank[list[i]]}) + 1
    BY <2>1 DEF PlaceOf
  <2>3. Cardinality({y \in S : rank[y] < rank[list[i]]}) = i - 1
    BY <1>4
  <2> QED BY <2>2, <2>3
<1>6. PICK place : place = PlaceOf(S, rank)
  OBVIOUS
<1>7. Named(list, positions) = {list[i] : i \in {j \in 1 .. n : IsAt(j, n, positions)}}
  BY <1>2, Zenon DEF Named, IsAt
<1>8. ASSUME NEW x \in S, IsAt(place[x], n, positions)
      PROVE  x \in Named(list, positions)
  <2>1. PICK i \in 1 .. n : list[i] = x
    BY <1>1
  <2>2. place[x] = i
    BY <1>5, <1>6, <2>1
  <2> QED BY <1>7, <1>8, <2>1, <2>2
<1>9. ASSUME NEW x \in Named(list, positions)
      PROVE  x \in S /\ IsAt(place[x], n, positions)
  <2>1. PICK i \in 1 .. n : list[i] = x /\ IsAt(i, n, positions)
    BY <1>7
  <2> QED BY <1>1, <1>5, <1>6, <2>1
<1> QED BY <1>3, <1>6, <1>8, <1>9

\* The members of a set of times on a day are as many as they are.
LEMMA OnADay ==
  ASSUME NEW T, IsFiniteSet(T), NEW d
  PROVE  IsFiniteSet({d} \X T) /\ Cardinality({d} \X T) = Cardinality(T)
<1>1. PICK f : f = [t \in T |-> <<d, t>>]
  OBVIOUS
<1>2. f \in [T -> {d} \X T]
  BY <1>1
<1>3. \A t, u \in T : f[t] = f[u] => t = u
  BY <1>1
<1>4. ASSUME NEW o \in {d} \X T
      PROVE  \E t \in T : f[t] = o
  <2>1. PICK t \in T : o = <<d, t>>
    OBVIOUS
  <2> QED BY <1>1, <2>1
<1>5. f \in Bijection(T, {d} \X T)
  BY <1>2, <1>3, <1>4 DEF Bijection, Injection, Surjection, IsInjective
<1>6. ExistsBijection(T, {d} \X T)
  BY <1>5 DEF ExistsBijection
<1> QED BY <1>6, FS_Bijection

-----------------------------------------------------------------------------

\* Rules, with any positions.
AnyRule == [freq : {"DAILY", "WEEKLY", "OTHER"}, byDay : SUBSET Week, byHour : SUBSET Hours,
            byMinute : SUBSET Minutes, bySetPos : SUBSET Int, weekStart : Week]

DaysOf(rule) == IF rule.byDay = {} THEN Week ELSE rule.byDay
Clock(rule) == rule.byHour \X rule.byMinute

\* How readSchedule reads what it does not refuse.
LEMMA ReadsAre ==
  ASSUME NEW rule \in AnyRule, ReadSchedule(rule) # Null
  PROVE  /\ rule.freq # "OTHER"
         /\ ReadSchedule(rule) =
              IF rule.bySetPos = {}
              THEN Uniform(FALSE, DaysOf(rule), {<<0, t>> : t \in Clock(rule)})
              ELSE Uniform(rule.freq = "WEEKLY", DaysOf(rule),
                           Named(Pairs(IF rule.freq = "WEEKLY" THEN DaysInOrder(rule, DaysOf(rule)) ELSE <<0>>,
                                       TimesOf(rule.byHour, rule.byMinute)), rule.bySetPos))
  BY Zenon DEF ReadSchedule, DaysOf, Clock

Firsts(chosen) == {o[1] : o \in chosen}
Seconds(chosen) == {o[2] : o \in chosen}

\* What the form shows has each of its times on each of its days.
LEMMA UniformIs ==
  ASSUME NEW days, NEW chosen
  PROVE  /\ Uniform(FALSE, days, chosen) \in {Null, [days |-> days, times |-> Seconds(chosen)]}
         /\ LET r == [days |-> Firsts(chosen), times |-> Seconds(chosen)] IN
            Uniform(TRUE, days, chosen) = Null \/
              (Uniform(TRUE, days, chosen) = r /\ Cardinality(chosen) = Cardinality(r.days \X r.times))
<1>1. Uniform(FALSE, days, chosen) \in {Null, [days |-> days, times |-> Seconds(chosen)]}
  BY DEF Uniform, Seconds
<1>2. PICK r : r = [days |-> Firsts(chosen), times |-> Seconds(chosen)]
  OBVIOUS
<1>3. Uniform(TRUE, days, chosen) =
        IF r \in Schedules /\ Cardinality(chosen) = Cardinality(r.days \X r.times) THEN r ELSE Null
  BY <1>2, Zenon DEF Uniform, Firsts, Seconds
<1> QED BY <1>1, <1>2, <1>3

LEMMA SecondsOfADay ==
  ASSUME NEW T
  PROVE  {<<0, t>> : t \in T} = {0} \X T /\ Seconds({0} \X T) = T
<1>1. {<<0, t>> : t \in T} = {0} \X T
  OBVIOUS
<1>2. ASSUME NEW t \in T
      PROVE  t \in Seconds({0} \X T)
  <2>1. <<0, t>> \in {0} \X T /\ <<0, t>>[2] = t
    OBVIOUS
  <2> QED BY <2>1, Zenon DEF Seconds
<1>3. ASSUME NEW t \in Seconds({0} \X T)
      PROVE  t \in T
  BY DEF Seconds
<1> QED BY <1>1, <1>2, <1>3

LEMMA ClockMinutes ==
  \A t, u \in ClockTimes : /\ MinuteOf(t) \in 0 .. 24 * 60 - 1
                           /\ MinuteOf(t) = MinuteOf(u) => t = u
<1>1. ASSUME NEW t \in ClockTimes, NEW u \in ClockTimes
      PROVE  /\ MinuteOf(t) \in 0 .. 24 * 60 - 1
             /\ MinuteOf(t) = MinuteOf(u) => t = u
  <2>1. PICK h \in Hours, m \in Minutes : t = <<h, m>>
    BY DEF ClockTimes
  <2>2. PICK i \in Hours, k \in Minutes : u = <<i, k>>
    BY DEF ClockTimes
  <2> h \in 0 .. 23 /\ m \in 0 .. 59 /\ i \in 0 .. 23 /\ k \in 0 .. 59
    BY ClockAssumption
  <2>3. MinuteOf(t) = 60 * h + m /\ MinuteOf(u) = 60 * i + k
    BY <2>1, <2>2 DEF MinuteOf
  <2>4. 60 * h + m = 60 * i + k => h = i /\ m = k
    OBVIOUS
  <2> QED BY <2>1, <2>2, <2>3, <2>4
<1> QED BY <1>1

LEMMA ClockIs ==
  ASSUME NEW rule \in AnyRule
  PROVE  /\ DaysOf(rule) \in SUBSET Week /\ rule.weekStart \in Week
         /\ rule.byHour \in SUBSET Hours /\ rule.byMinute \in SUBSET Minutes
         /\ Clock(rule) \in SUBSET ClockTimes
         /\ rule.bySetPos \in SUBSET Int
         /\ rule.freq \in {"DAILY", "WEEKLY", "OTHER"}
  BY DEF AnyRule, DaysOf, Clock, ClockTimes

\* Which of two runs of a rule comes first.
ComesFirst(rule, q, o) ==
  \/ (q[1] - rule.weekStart) % WeekLength < (o[1] - rule.weekStart) % WeekLength
  \/ q[1] = o[1] /\ Earlier(q[2], o[2])

Period(rule, o) == {q \in DaysOf(rule) \X Clock(rule) : rule.freq = "WEEKLY" \/ q[1] = o[1]}

NumberOf(rule, o) == Cardinality({q \in Period(rule, o) : ComesFirst(rule, q, o)}) + 1

\* The runs of a rule, by the number of each in its period.
LEMMA RunsAre ==
  ASSUME NEW rule
  PROVE  Runs(rule) = {o \in DaysOf(rule) \X Clock(rule) :
           rule.bySetPos = {} \/ IsAt(NumberOf(rule, o), Cardinality(Period(rule, o)), rule.bySetPos)}
  BY Zenon DEF Runs, DaysOf, Clock, Period, NumberOf, ComesFirst, IsAt

\* The times of a rule, as a list.
LEMMA ClockLists ==
  ASSUME NEW rule \in AnyRule
  PROVE  \E n \in Nat, minute \in [Clock(rule) -> 0 .. 24 * 60 - 1] :
           /\ ListOf(TimesOf(rule.byHour, rule.byMinute), n, Clock(rule), minute)
           /\ \A t \in Clock(rule) : minute[t] = MinuteOf(t)
<1>1. PICK H, M : H = rule.byHour /\ M = rule.byMinute
  OBVIOUS
<1>2. H \in SUBSET Hours /\ M \in SUBSET Minutes /\ H \X M \in SUBSET ClockTimes
  BY <1>1, ClockIs DEF Clock
<1>3. PICK minute : minute = [t \in H \X M |-> MinuteOf(t)]
  OBVIOUS
<1>4. minute \in [H \X M -> 0 .. 24 * 60 - 1] /\ \A t \in H \X M : minute[t] = MinuteOf(t)
  BY <1>2, <1>3, ClockMinutes
<1>5. PICK m, n : m = Cardinality(H) /\ n = Cardinality(M)
  OBVIOUS
<1>6. m \in Nat /\ n \in Nat /\ ListOf(TimesOf(H, M), m * n, H \X M, minute)
  BY <1>2, <1>4, <1>5, TimesLists
<1>7. m * n \in Nat
  BY <1>6
<1> QED BY <1>1, <1>4, <1>6, <1>7 DEF Clock

\* By week, the positions count the days' times from the week's first day.
LEMMA WeeklyRuns ==
  ASSUME NEW rule \in AnyRule, rule.freq = "WEEKLY", rule.bySetPos # {}
  PROVE  /\ IsFiniteSet(DaysOf(rule) \X Clock(rule))
         /\ Named(Pairs(DaysInOrder(rule, DaysOf(rule)), TimesOf(rule.byHour, rule.byMinute)),
                  rule.bySetPos) = Runs(rule)
<1>1. PICK days, T, first, positions :
        days = DaysOf(rule) /\ T = Clock(rule) /\ first = rule.weekStart /\ positions = rule.bySetPos
  OBVIOUS
<1>2. days \in SUBSET Week /\ T \in SUBSET ClockTimes /\ first \in Week
  BY <1>1, ClockIs
<1>3. PICK W \in Nat \ {0} : W = WeekLength
  BY PositionsAssumption
<1>4. PICK into : into = [d \in days |-> IntoWeek(first)[d]]
  OBVIOUS
<1>5. \A d \in days : into[d] = (d - first) % W /\ into[d] \in 0 .. W - 1
  BY <1>2, <1>3, <1>4, DaysIntoWeek DEF IntoWeek
<1>6. into \in [days -> Nat]
  BY <1>4, <1>5
<1>7. \A d, e \in days : into[d] = into[e] => d = e
  BY <1>2, <1>3, <1>5, DaysIntoWeek
<1>8. PICK dayList : dayList = DaysInOrder(rule, days)
  OBVIOUS
<1>9. PICK m \in Nat : ListOf(dayList, m, days, into)
  <2>1. PICK m \in Nat : ListOf(dayList, m, days, IntoWeek(first))
    BY <1>1, <1>2, <1>8, DaysLists DEF DaysInOrder
  <2>2. dayList \in [1 .. m -> days]
    BY <2>1 DEF ListOf
  <2>3. \A i \in 1 .. m : into[dayList[i]] = IntoWeek(first)[dayList[i]]
    BY <1>4, <2>2
  <2>4. ListOf(dayList, m, days, into)
    BY <2>1, <2>3 DEF ListOf
  <2> QED BY <2>4
<1>10. PICK timeList : timeList = TimesOf(rule.byHour, rule.byMinute)
  OBVIOUS
<1>11. PICK n \in Nat, minute \in [T -> 0 .. 24 * 60 - 1] :
         ListOf(timeList, n, T, minute) /\ \A t \in T : minute[t] = MinuteOf(t)
  BY <1>1, <1>10, ClockLists
<1>12. PICK K \in Nat : K = 24 * 60
  OBVIOUS
<1>13. PICK rank : rank = [o \in days \X T |-> K * into[o[1]] + minute[o[2]]]
  OBVIOUS
<1>14. RanksPairs(rank, days, T, K, into, minute)
  BY <1>13 DEF RanksPairs
<1>15. minute \in [T -> 0 .. K - 1]
  BY <1>11, <1>12
<1>16. PICK S : S = days \X T
  OBVIOUS
<1>17. ListOf(Pairs(dayList, timeList), m * n, S, rank)
  BY <1>6, <1>9, <1>11, <1>14, <1>15, <1>16, PairsLists
<1>18. rank \in [S -> Int]
  <2>1. ASSUME NEW o \in S
        PROVE  K * into[o[1]] + minute[o[2]] \in Int
    <3>1. PICK d \in days, t \in T : o = <<d, t>>
      BY <1>16
    <3>2. into[d] \in Nat /\ minute[t] \in Nat
      BY <1>6, <1>11
    <3> QED BY <3>1, <3>2
  <2> QED BY <1>13, <1>16, <2>1
<1>19. m * n \in Nat
  OBVIOUS
<1>20. PICK list, size : list = Pairs(dayList, timeList) /\ size = m * n
  OBVIOUS
<1>21. ListOf(list, size, S, rank) /\ size \in Nat
  BY <1>17, <1>19, <1>20
<1>22. /\ Cardinality(S) = size
       /\ Named(list, positions) = {x \in S : IsAt(PlaceOf(S, rank)[x], size, positions)}
  BY <1>18, <1>21, NamedOnes
<1>23. IsFiniteSet(S)
  BY <1>18, <1>21, ListCounts
<1>24. ASSUME NEW o \in S, NEW q \in S
       PROVE  rank[q] < rank[o] <=> ComesFirst(rule, q, o)
  <2>1. PICK d \in days, t \in T, e \in days, u \in T : q = <<d, t>> /\ o = <<e, u>>
    BY <1>16
  <2>2. PICK i \in Nat, j \in Nat, k \in 0 .. K - 1, l \in 0 .. K - 1 :
          i = into[d] /\ j = into[e] /\ k = minute[t] /\ l = minute[u]
    BY <1>6, <1>15
  <2>3. rank[q] = K * i + k /\ rank[o] = K * j + l
    BY <1>14, <2>1, <2>2 DEF RanksPairs
  <2>4. ComesFirst(rule, q, o) <=> i < j \/ (d = e /\ k < l)
    <3>1. i = (d - first) % W /\ j = (e - first) % W
      BY <1>5, <2>2
    <3>2. Earlier(t, u) <=> k < l
      BY <1>11, <2>2 DEF Earlier
    <3>3. q[1] = d /\ q[2] = t /\ o[1] = e /\ o[2] = u
      BY <2>1
    <3> QED BY <1>1, <1>3, <3>1, <3>2, <3>3 DEF ComesFirst
  <2>5. d = e <=> i = j
    BY <1>7, <2>2
  <2>6. K * i + k < K * j + l <=> i < j \/ (i = j /\ k < l)
    BY <1>12
  <2> QED BY <2>3, <2>4, <2>5, <2>6
<1>25. ASSUME NEW o \in S
       PROVE  Period(rule, o) = S /\ NumberOf(rule, o) = PlaceOf(S, rank)[o]
  <2>1. Period(rule, o) = S
    BY <1>1, <1>16 DEF Period
  <2>2. {q \in S : rank[q] < rank[o]} = {q \in S : ComesFirst(rule, q, o)}
    BY <1>24
  <2> QED BY <2>1, <2>2 DEF NumberOf, PlaceOf
<1>26. Runs(rule) = {o \in S : IsAt(PlaceOf(S, rank)[o], size, positions)}
  <2>1. Runs(rule) = {o \in S : IsAt(NumberOf(rule, o), Cardinality(Period(rule, o)), positions)}
    BY <1>1, <1>16, RunsAre
  <2> QED BY <1>22, <1>25, <2>1
<1> QED BY <1>1, <1>8, <1>10, <1>16, <1>20, <1>22, <1>23, <1>26

\* Those of a set of times that the positions name.
Chosen(T, positions) ==
  {t \in T : IsAt(Cardinality({u \in T : Earlier(u, t)}) + 1, Cardinality(T), positions)}

\* By day, they count the times.
LEMMA DailyRuns ==
  ASSUME NEW rule \in AnyRule, rule.freq # "WEEKLY", rule.bySetPos # {}
  PROVE  /\ Named(Pairs(<<0>>, TimesOf(rule.byHour, rule.byMinute)), rule.bySetPos) =
              {0} \X Chosen(Clock(rule), rule.bySetPos)
         /\ Runs(rule) = DaysOf(rule) \X Chosen(Clock(rule), rule.bySetPos)
<1>1. PICK days, T, positions : days = DaysOf(rule) /\ T = Clock(rule) /\ positions = rule.bySetPos
  OBVIOUS
<1>2. days \in SUBSET Week /\ T \in SUBSET ClockTimes /\ rule.weekStart \in Week
  BY <1>1, ClockIs
<1>3. PICK timeList : timeList = TimesOf(rule.byHour, rule.byMinute)
  OBVIOUS
<1>4. PICK n \in Nat, minute \in [T -> 0 .. 24 * 60 - 1] :
         ListOf(timeList, n, T, minute) /\ \A t \in T : minute[t] = MinuteOf(t)
  BY <1>1, <1>3, ClockLists
<1>5. IsFiniteSet(T) /\ Cardinality(T) = n
  <2>1. minute \in [T -> Int]
    BY <1>4
  <2> QED BY <1>4, <2>1, ListCounts
<1>6. PICK K \in Nat : K = 24 * 60
  OBVIOUS
<1>7. PICK one : one = [d \in {0} |-> 0]
  OBVIOUS
<1>8. one \in [{0} -> Nat] /\ ListOf(<<0>>, 1, {0}, one)
  BY <1>7 DEF ListOf
<1>9. PICK S : S = {0} \X T
  OBVIOUS
<1>10. PICK rank : rank = [o \in S |-> minute[o[2]]]
  OBVIOUS
<1>11. RanksPairs(rank, {0}, T, K, one, minute)
  <2>1. ASSUME NEW x \in {0}, NEW t \in T
        PROVE  rank[<<x, t>>] = K * one[x] + minute[t]
    <3>1. PICK o \in S : o = <<x, t>>
      BY <1>9
    <3>2. o[2] = t
      BY <3>1
    <3>3. minute[t] \in Int
      BY <1>4
    <3>4. one[x] = 0
      BY <1>7
    <3>5. rank[o] = minute[t]
      BY <1>10, <3>2
    <3> QED BY <3>1, <3>3, <3>4, <3>5
  <2> QED BY <2>1 DEF RanksPairs
<1>12. minute \in [T -> 0 .. K - 1]
  BY <1>4, <1>6
<1>13. PICK list : list = Pairs(<<0>>, timeList)
  OBVIOUS
<1>14. ListOf(list, n, S, rank)
  <2>1. PICK zero, Z, c : zero = <<0>> /\ Z = {0} /\ c = 1
    OBVIOUS
  <2>2. c \in Nat /\ one \in [Z -> Nat] /\ ListOf(zero, c, Z, one) /\ RanksPairs(rank, Z, T, K, one, minute)
    BY <1>8, <1>11, <2>1
  <2>3. ListOf(Pairs(zero, timeList), c * n, Z \X T, rank)
    BY <1>4, <1>12, <2>2, PairsLists
  <2>4. c * n = n
    BY <2>1
  <2> QED BY <1>9, <1>13, <2>1, <2>3, <2>4
<1>15. rank \in [S -> Int]
  <2>1. ASSUME NEW o \in S
        PROVE  minute[o[2]] \in Int
    <3>1. PICK t \in T : o = <<0, t>>
      BY <1>9
    <3>2. o[2] = t
      BY <3>1
    <3>3. minute[t] \in Int
      BY <1>4
    <3> QED BY <3>2, <3>3
  <2> QED BY <1>10, <2>1
<1>16. Named(list, positions) = {x \in S : IsAt(PlaceOf(S, rank)[x], n, positions)}
  BY <1>14, <1>15, NamedOnes
<1>17. ASSUME NEW t \in T, NEW d
       PROVE  Cardinality({d} \X {u \in T : Earlier(u, t)}) = Cardinality({u \in T : Earlier(u, t)})
  <2>1. PICK U : U = {u \in T : Earlier(u, t)}
    OBVIOUS
  <2>2. IsFiniteSet(U)
    BY <1>5, <2>1, FS_Subset
  <2> QED BY <2>1, <2>2, OnADay
<1>18. ASSUME NEW t \in T
       PROVE  PlaceOf(S, rank)[<<0, t>>] = Cardinality({u \in T : Earlier(u, t)}) + 1
  <2>1. {y \in S : rank[y] < rank[<<0, t>>]} = {0} \X {u \in T : Earlier(u, t)}
    BY <1>4, <1>9, <1>10 DEF Earlier
  <2>2. <<0, t>> \in S
    BY <1>9
  <2> QED BY <1>17, <2>1, <2>2 DEF PlaceOf
<1>19. Named(list, positions) = {0} \X Chosen(T, positions)
  <2>1. \A t \in T : <<0, t>> \in Named(list, positions) <=> t \in Chosen(T, positions)
    BY <1>5, <1>9, <1>16, <1>18 DEF Chosen
  <2>2. Named(list, positions) \subseteq {0} \X T
    BY <1>9, <1>16
  <2>3. Chosen(T, positions) \subseteq T
    BY DEF Chosen
  <2> QED BY <2>1, <2>2, <2>3
<1>20. ASSUME NEW d \in days, NEW t \in T
       PROVE  <<d, t>> \in Runs(rule) <=> t \in Chosen(T, positions)
  <2>1. PICK o : o = <<d, t>>
    OBVIOUS
  <2>2. Period(rule, o) = {d} \X T
    BY <1>1, <2>1 DEF Period
  <2>3. {q \in Period(rule, o) : ComesFirst(rule, q, o)} = {d} \X {u \in T : Earlier(u, t)}
    <3>1. (d - rule.weekStart) % WeekLength \in Int
      BY <1>2, DaysIntoWeek
    <3>2. ASSUME NEW u \in T
          PROVE  ComesFirst(rule, <<d, u>>, o) <=> Earlier(u, t)
      BY <2>1, <3>1 DEF ComesFirst
    <3> QED BY <2>2, <3>2
  <2>4. NumberOf(rule, o) = Cardinality({u \in T : Earlier(u, t)}) + 1
    BY <1>17, <2>3 DEF NumberOf
  <2>5. Cardinality(Period(rule, o)) = Cardinality(T)
    BY <1>5, <2>2, OnADay
  <2>6. o \in days \X T
    BY <2>1
  <2>7. o \in Runs(rule) <=> IsAt(NumberOf(rule, o), Cardinality(Period(rule, o)), positions)
    BY <1>1, <2>6, RunsAre
  <2> QED BY <2>1, <2>4, <2>5, <2>7 DEF Chosen
<1>21. Runs(rule) = days \X Chosen(T, positions)
  <2>1. Runs(rule) \subseteq days \X T
    BY <1>1, RunsAre
  <2>2. Chosen(T, positions) \subseteq T
    BY DEF Chosen
  <2> QED BY <1>20, <2>1, <2>2
<1> QED BY <1>1, <1>3, <1>13, <1>19, <1>21

\* The form shows exactly the runs of a rule, or nothing.
LEMMA RuleIsRead ==
  ASSUME NEW rule \in AnyRule
  PROVE  Faithful(rule)
<1>1. SUFFICES ASSUME ReadSchedule(rule) # Null
               PROVE  ReadSchedule(rule).days \X ReadSchedule(rule).times = Runs(rule)
  BY DEF Faithful
<1>2. PICK s : s = ReadSchedule(rule)
  OBVIOUS
<1>3. CASE rule.bySetPos = {}
  <2>1. s = Uniform(FALSE, DaysOf(rule), {0} \X Clock(rule))
    <3>1. {<<0, t>> : t \in Clock(rule)} = {0} \X Clock(rule)
      BY SecondsOfADay
    <3> QED BY <1>1, <1>2, <1>3, <3>1, ReadsAre
  <2>2. s.days = DaysOf(rule) /\ s.times = Seconds({0} \X Clock(rule))
    <3>1. s \in {Null, [days |-> DaysOf(rule), times |-> Seconds({0} \X Clock(rule))]}
      BY <2>1, UniformIs
    <3> QED BY <1>1, <1>2, <3>1
  <2>3. Seconds({0} \X Clock(rule)) = Clock(rule)
    BY SecondsOfADay
  <2>4. Runs(rule) = DaysOf(rule) \X Clock(rule)
    BY <1>3, RunsAre
  <2> QED BY <1>2, <2>2, <2>3, <2>4
<1>4. CASE rule.bySetPos # {} /\ rule.freq = "WEEKLY"
  <2>1. PICK chosen : chosen = Named(Pairs(DaysInOrder(rule, DaysOf(rule)),
                                           TimesOf(rule.byHour, rule.byMinute)), rule.bySetPos)
    OBVIOUS
  <2>2. s = Uniform(TRUE, DaysOf(rule), chosen)
    BY <1>1, <1>2, <1>4, <2>1, ReadsAre
  <2>3. /\ s.days = Firsts(chosen) /\ s.times = Seconds(chosen)
        /\ Cardinality(chosen) = Cardinality(s.days \X s.times)
    <3>1. PICK r : r = [days |-> Firsts(chosen), times |-> Seconds(chosen)]
      OBVIOUS
    <3>2. s = Null \/ (s = r /\ Cardinality(chosen) = Cardinality(r.days \X r.times))
      BY <2>2, <3>1, UniformIs
    <3> QED BY <1>1, <1>2, <3>1, <3>2
  <2>4. IsFiniteSet(DaysOf(rule) \X Clock(rule)) /\ chosen = Runs(rule)
    BY <1>4, <2>1, WeeklyRuns
  <2>5. chosen \in SUBSET (DaysOf(rule) \X Clock(rule))
    BY <2>4, RunsAre
  <2>6. s.days \X s.times \in SUBSET (DaysOf(rule) \X Clock(rule))
    BY <2>3, <2>5 DEF Firsts, Seconds
  <2>7. chosen \in SUBSET (s.days \X s.times)
    BY <2>3, <2>5 DEF Firsts, Seconds
  <2>8. IsFiniteSet(s.days \X s.times)
    BY <2>4, <2>6, FS_Subset
  <2>9. chosen = s.days \X s.times
    BY <2>3, <2>7, <2>8, FS_Subset
  <2> QED BY <1>2, <2>4, <2>9
<1>5. CASE rule.bySetPos # {} /\ rule.freq # "WEEKLY"
  <2>1. PICK T : T = Chosen(Clock(rule), rule.bySetPos)
    OBVIOUS
  <2>2. Named(Pairs(<<0>>, TimesOf(rule.byHour, rule.byMinute)), rule.bySetPos) = {0} \X T
    BY <1>5, <2>1, DailyRuns
  <2>3. s = Uniform(FALSE, DaysOf(rule), {0} \X T)
    BY <1>1, <1>2, <1>5, <2>2, ReadsAre
  <2>4. s.days = DaysOf(rule) /\ s.times = Seconds({0} \X T)
    <3>1. s \in {Null, [days |-> DaysOf(rule), times |-> Seconds({0} \X T)]}
      BY <2>3, UniformIs
    <3> QED BY <1>1, <1>2, <3>1
  <2>5. Seconds({0} \X T) = T
    BY SecondsOfADay
  <2>6. Runs(rule) = DaysOf(rule) \X T
    BY <1>5, <2>1, DailyRuns
  <2> QED BY <1>2, <2>4, <2>5, <2>6
<1> QED BY <1>3, <1>4, <1>5

\* No rule that is written is refused.
LEMMA ReadsUnless ==
  ASSUME NEW rule \in AnyRule, rule.freq = "DAILY", rule.byHour # {}, rule.byMinute # {},
         rule.bySetPos \subseteq -MaxPosition .. MaxPosition, 0 \notin rule.bySetPos
  PROVE  ReadSchedule(rule) =
           IF rule.bySetPos = {}
           THEN Uniform(FALSE, DaysOf(rule), {<<0, t>> : t \in Clock(rule)})
           ELSE Uniform(FALSE, DaysOf(rule),
                        Named(Pairs(<<0>>, TimesOf(rule.byHour, rule.byMinute)), rule.bySetPos))
<1>1. rule.freq # "OTHER" /\ rule.freq # "WEEKLY"
  OBVIOUS
<1>2. ~ \E position \in rule.bySetPos : position = 0 \/ position \notin -MaxPosition .. MaxPosition
  OBVIOUS
<1> QED BY <1>1, <1>2, Zenon DEF ReadSchedule, DaysOf, Clock

\* What is uniform is shown as it is.
LEMMA UniformShows ==
  ASSUME NEW s \in Schedules
  PROVE  Uniform(FALSE, s.days, {0} \X s.times) = s
<1>1. Seconds({0} \X s.times) = s.times
  BY SecondsOfADay
<1>2. s = [days |-> s.days, times |-> s.times]
  BY DEF Schedules
<1>3. Uniform(FALSE, s.days, {0} \X s.times) =
        IF [days |-> s.days, times |-> Seconds({0} \X s.times)] \in Schedules
        THEN [days |-> s.days, times |-> Seconds({0} \X s.times)] ELSE Null
  BY DEF Uniform, Seconds
<1> QED BY <1>1, <1>2, <1>3

\* The hours and the minutes of a set of times.
LEMMA HoursAndMinutes ==
  ASSUME NEW times \in SUBSET ClockTimes, times # {}, NEW H, NEW M,
         H = Firsts(times), M = Seconds(times)
  PROVE  /\ H \in SUBSET Hours /\ M \in SUBSET Minutes /\ H # {} /\ M # {}
         /\ times \subseteq H \X M
         /\ IsFiniteSet(times)
         /\ Cardinality(H) \in Nat /\ Cardinality(H) <= Cardinality(times)
         /\ Cardinality(M) \in Nat /\ Cardinality(M) <= Cardinality(times)
         /\ Cardinality(times) \in Nat
<1>1. H \in SUBSET Hours /\ M \in SUBSET Minutes /\ H # {} /\ M # {}
  BY DEF Firsts, Seconds, ClockTimes
<1>2. times \subseteq H \X M
  BY DEF Firsts, Seconds, ClockTimes
<1>3. IsFiniteSet(H \X M) /\ Cardinality(H) \in Nat /\ Cardinality(M) \in Nat
  <2>1. PICK T, m, n, list : T = H \X M /\ m = Cardinality(H) /\ n = Cardinality(M) /\ list = TimesOf(H, M)
    OBVIOUS
  <2>2. T \in SUBSET ClockTimes
    BY <1>1, <2>1 DEF ClockTimes
  <2>3. PICK minute : minute = [t \in T |-> MinuteOf(t)]
    OBVIOUS
  <2>4. minute \in [T -> Int] /\ \A t \in T : minute[t] = MinuteOf(t)
    BY <2>2, <2>3, ClockMinutes
  <2>5. m \in Nat /\ n \in Nat /\ ListOf(list, m * n, T, minute)
    BY <1>1, <2>1, <2>4, TimesLists
  <2>6. m * n \in Nat
    BY <2>5
  <2>7. PICK size : size = m * n
    OBVIOUS
  <2>8. IsFiniteSet(T)
    BY <2>4, <2>5, <2>6, <2>7, ListCounts
  <2> QED BY <2>1, <2>5, <2>8
<1>4. IsFiniteSet(times)
  BY <1>2, <1>3, FS_Subset
<1>5. Cardinality(H) <= Cardinality(times)
  <2>1. PICK f : f = [t \in times |-> t[1]]
    OBVIOUS
  <2>2. f \in Surjection(times, H)
    BY <2>1 DEF Surjection, Firsts
  <2> QED BY <1>4, <2>2, FS_Surjection
<1>6. Cardinality(M) <= Cardinality(times)
  <2>1. PICK f : f = [t \in times |-> t[2]]
    OBVIOUS
  <2>2. f \in Surjection(times, M)
    BY <2>1 DEF Surjection, Seconds
  <2> QED BY <1>4, <2>2, FS_Surjection
<1>7. Cardinality(times) \in Nat
  BY <1>4, FS_CardinalityType
<1> QED BY <1>1, <1>2, <1>3, <1>4, <1>5, <1>6, <1>7

LEMMA Squares ==
  ASSUME NEW h \in Nat, NEW m \in Nat, NEW k \in Nat, h <= k, m <= k
  PROVE  h * m \in Nat /\ h * m <= k * k
<1>1. ASSUME NEW a \in Nat, NEW b \in Nat, NEW c \in Nat, b <= c
      PROVE  a * b \in Nat /\ a * c \in Nat /\ a * b <= a * c
  <2>1. a * b \in Nat /\ a * c \in Nat
    OBVIOUS
  <2>2. CASE b = c
    BY <2>1, <2>2
  <2>3. CASE b < c
    BY <2>1, <2>3, MoreTimes
  <2> QED BY <1>1, <2>1, <2>2, <2>3
<1>2. h * m \in Nat /\ h * m <= h * k /\ h * k \in Nat
  BY <1>1
<1>3. k * h <= k * k /\ k * h = h * k /\ k * k \in Nat
  BY <1>1
<1> QED BY <1>2, <1>3

\* The rule that is written for a schedule.
LEMMA RuleWritten ==
  ASSUME NEW s \in Schedules, NEW rule, rule = WriteSchedule(s)
  PROVE  /\ rule \in AnyRule /\ rule.freq = "DAILY" /\ DaysOf(rule) = s.days
         /\ rule.byHour # {} /\ rule.byMinute # {}
         /\ rule.bySetPos \subseteq -MaxPosition .. MaxPosition /\ 0 \notin rule.bySetPos
         /\ rule.bySetPos = {} => Clock(rule) = s.times
         /\ rule.bySetPos # {} => Chosen(Clock(rule), rule.bySetPos) = s.times
<1>1. s.days \in SUBSET Week /\ s.days # {} /\ s.times \in SUBSET ClockTimes /\ s.times # {}
  BY DEF Schedules
<1>2. PICK H, M, times : H = Firsts(s.times) /\ M = Seconds(s.times) /\ times = s.times
  OBVIOUS
<1>3. /\ H \in SUBSET Hours /\ M \in SUBSET Minutes /\ H # {} /\ M # {}
      /\ times \subseteq H \X M
      /\ IsFiniteSet(times)
      /\ Cardinality(H) \in Nat /\ Cardinality(H) <= Cardinality(times)
      /\ Cardinality(M) \in Nat /\ Cardinality(M) <= Cardinality(times)
      /\ Cardinality(times) \in Nat
  BY <1>1, <1>2, HoursAndMinutes
<1>4. PICK T, h, m, k, list : /\ T = H \X M /\ h = Cardinality(H) /\ m = Cardinality(M)
                              /\ k = Cardinality(times) /\ list = TimesOf(H, M)
  OBVIOUS
<1>5. PICK minute : minute = [t \in T |-> MinuteOf(t)]
  OBVIOUS
<1>6. T \in SUBSET ClockTimes
  BY <1>3, <1>4 DEF ClockTimes
<1>7. minute \in [T -> Int] /\ \A t \in T : minute[t] = MinuteOf(t)
  BY <1>5, <1>6, ClockMinutes
<1>8. PICK n : n = h * m
  OBVIOUS
<1>9. ListOf(list, n, T, minute)
  BY <1>3, <1>4, <1>7, <1>8, TimesLists
<1>10. h \in Nat /\ m \in Nat /\ k \in Nat /\ h <= k /\ m <= k
  BY <1>3, <1>4
<1>11. k <= MaxTimes
  BY <1>2, <1>4 DEF Schedules
<1>12. n \in Nat /\ n <= 2 * MaxPosition /\ MaxPosition \in Nat
  <2>1. MaxTimes \in Nat /\ MaxPosition \in Nat /\ MaxTimes * MaxTimes <= 2 * MaxPosition
    BY PositionsAssumption
  <2>2. h <= MaxTimes /\ m <= MaxTimes
    BY <1>10, <1>11, <2>1
  <2>3. n \in Nat /\ n <= MaxTimes * MaxTimes
    BY <1>8, <1>10, <2>1, <2>2, Squares
  <2>4. MaxTimes * MaxTimes \in Nat
    BY <2>1
  <2> QED BY <2>1, <2>3, <2>4
<1>13. /\ IsFiniteSet(T) /\ Cardinality(T) = n
       /\ \A i \in 1 .. n : Cardinality({y \in T : minute[y] < minute[list[i]]}) = i - 1
       /\ \A i, j \in 1 .. n : list[i] = list[j] => i = j
  BY <1>7, <1>9, <1>12, ListCounts
<1>14. list \in [1 .. n -> T] /\ \A t \in T : \E i \in 1 .. n : list[i] = t
  BY <1>9 DEF ListOf
<1>15. Len(list) = n /\ DOMAIN list = 1 .. n
  BY <1>12, <1>14, ListLength
<1> DEFINE hours == {t[1] : t \in s.times}
           minutes == {t[2] : t \in s.times}
           candidates == TimesOf(hours, minutes)
           place(t) == LET i == CHOOSE j \in DOMAIN candidates : candidates[j] = t
                       IN IF i <= MaxPosition THEN i ELSE i - Len(candidates) - 1
<1> HIDE DEF hours, minutes
<1> candidates = list
  <2>1. hours = H /\ minutes = M
    BY <1>2, Zenon DEF hours, minutes, Firsts, Seconds
  <2> QED BY <1>4, <2>1
<1> HIDE DEF candidates
<1>16. PICK index : index = [t \in times |-> CHOOSE i \in DOMAIN candidates : candidates[i] = t]
  OBVIOUS
<1>17. \A t \in times : index[t] \in 1 .. n /\ list[index[t]] = t
  BY <1>3, <1>4, <1>14, <1>15, <1>16
<1>18. PICK position : position = [t \in times |->
         IF index[t] <= MaxPosition THEN index[t] ELSE index[t] - n - 1]
  OBVIOUS
<1>19. ASSUME NEW t \in times
       PROVE  /\ position[t] \in {index[t], index[t] - n - 1}
              /\ position[t] \in -MaxPosition .. MaxPosition /\ position[t] # 0
  BY <1>12, <1>17, <1>18
<1>20. PICK positions : positions = {position[t] : t \in times}
  OBVIOUS
<1>21. rule = [freq |-> "DAILY", byDay |-> s.days, byHour |-> H, byMinute |-> M,
               bySetPos |-> IF n = k THEN {} ELSE positions, weekStart |-> 0]
  <2>1. WriteSchedule(s) =
          [freq |-> "DAILY", byDay |-> s.days, byHour |-> hours, byMinute |-> minutes,
           bySetPos |-> IF Len(candidates) = Cardinality(s.times) THEN {}
                        ELSE {place(t) : t \in s.times},
           weekStart |-> 0]
    BY Zenon DEF WriteSchedule, hours, minutes, candidates
  <2>2. hours = H /\ minutes = M
    BY <1>2, Zenon DEF hours, minutes, Firsts, Seconds
  <2>3. ASSUME NEW t \in times
        PROVE  place(t) = position[t]
    <3>1. PICK i : i = CHOOSE j \in DOMAIN candidates : candidates[j] = t
      OBVIOUS
    <3>2. index[t] = i
      BY <1>16, <3>1, Zenon
    <3>3. place(t) = IF i <= MaxPosition THEN i ELSE i - Len(candidates) - 1
      BY <3>1, SMT
    <3> QED BY <1>15, <1>18, <3>2, <3>3
  <2> HIDE DEF place
  <2>5. {place(t) : t \in s.times} = positions
    BY <1>2, <1>20, <2>3
  <2>6. Len(candidates) = n /\ Cardinality(s.times) = k
    BY <1>2, <1>4, <1>15
  <2>7. (IF n = k THEN {} ELSE {place(t) : t \in s.times}) = IF n = k THEN {} ELSE positions
    BY <2>5
  <2> QED BY <2>1, <2>2, <2>6, <2>7, Zenon
<1>22. positions \subseteq -MaxPosition .. MaxPosition /\ 0 \notin positions /\ positions # {}
  BY <1>1, <1>2, <1>19, <1>20
<1>23. 0 \in Week
  BY PositionsAssumption DEF Week
<1>24. rule \in AnyRule
  <2>1. positions \in SUBSET Int
    BY <1>12, <1>22
  <2> QED BY <1>1, <1>3, <1>21, <1>23, <2>1 DEF AnyRule
<1>25. ASSUME NEW t \in T
       PROVE  t \in Chosen(T, positions) <=> t \in times
  <2>1. PICK i \in 1 .. n : list[i] = t
    BY <1>14
  <2>2. {u \in T : Earlier(u, t)} = {u \in T : minute[u] < minute[list[i]]}
    BY <1>7, <2>1 DEF Earlier
  <2>3. Cardinality({u \in T : Earlier(u, t)}) + 1 = i
    BY <1>13, <2>2
  <2>4. t \in Chosen(T, positions) <=> {i, i - n - 1} \intersect positions # {}
    BY <1>13, <2>3 DEF Chosen, IsAt
  <2>5. ASSUME t \in times
        PROVE  {i, i - n - 1} \intersect positions # {}
    <3>1. index[t] = i
      BY <1>13, <1>17, <2>1, <2>5
    <3> QED BY <1>19, <1>20, <2>5, <3>1
  <2>6. ASSUME {i, i - n - 1} \intersect positions # {}
        PROVE  t \in times
    <3>1. PICK u \in times : position[u] \in {i, i - n - 1}
      BY <1>20, <2>6
    <3>2. index[u] = i
      BY <1>12, <1>17, <1>19, <3>1
    <3> QED BY <1>17, <2>1, <3>2
  <2> QED BY <2>4, <2>5, <2>6
<1>26. Chosen(T, positions) = times
  <2>1. Chosen(T, positions) \subseteq T /\ times \subseteq T
    BY <1>3, <1>4 DEF Chosen
  <2> QED BY <1>25, <2>1
<1>27. n = k => T = times
  BY <1>3, <1>4, <1>13, FS_Subset
<1>28. Clock(rule) = T /\ DaysOf(rule) = s.days
  BY <1>1, <1>4, <1>21 DEF Clock, DaysOf
<1>29. rule.bySetPos = IF n = k THEN {} ELSE positions
  BY <1>21
<1>30. rule.freq = "DAILY" /\ rule.byHour = H /\ rule.byMinute = M
  BY <1>21
<1> QED BY <1>2, <1>3, <1>22, <1>24, <1>26, <1>27, <1>28, <1>29, <1>30

\* The rule of a schedule describes it, and is shown as it.
LEMMA ScheduleIsWritten == SchedulesAreWritten
<1>1. SUFFICES ASSUME NEW s \in Schedules
               PROVE  /\ Runs(WriteSchedule(s)) = s.days \X s.times
                      /\ ReadSchedule(WriteSchedule(s)) = s
  BY DEF SchedulesAreWritten
<1>2. PICK rule : rule = WriteSchedule(s)
  OBVIOUS
<1>3. /\ rule \in AnyRule /\ rule.freq = "DAILY" /\ DaysOf(rule) = s.days
      /\ rule.byHour # {} /\ rule.byMinute # {}
      /\ rule.bySetPos \subseteq -MaxPosition .. MaxPosition /\ 0 \notin rule.bySetPos
      /\ rule.bySetPos = {} => Clock(rule) = s.times
      /\ rule.bySetPos # {} => Chosen(Clock(rule), rule.bySetPos) = s.times
  BY <1>2, RuleWritten
<1>4. rule.freq # "WEEKLY"
  BY <1>3
<1>5. CASE rule.bySetPos = {}
  <2>1. Runs(rule) = s.days \X s.times
    BY <1>3, <1>5, RunsAre
  <2>2. ReadSchedule(rule) = Uniform(FALSE, s.days, {<<0, t>> : t \in s.times})
    BY <1>3, <1>5, ReadsUnless
  <2>3. {<<0, t>> : t \in s.times} = {0} \X s.times
    BY SecondsOfADay
  <2> QED BY <1>2, <2>1, <2>2, <2>3, UniformShows
<1>6. CASE rule.bySetPos # {}
  <2>1. /\ Named(Pairs(<<0>>, TimesOf(rule.byHour, rule.byMinute)), rule.bySetPos) = {0} \X s.times
        /\ Runs(rule) = s.days \X s.times
    BY <1>3, <1>4, <1>6, DailyRuns
  <2>2. ReadSchedule(rule) = Uniform(FALSE, s.days, {0} \X s.times)
    BY <1>3, <1>6, <2>1, ReadsUnless
  <2> QED BY <1>2, <2>1, <2>2, UniformShows
<1> QED BY <1>5, <1>6

\* The runs to come.
RunsAhead(s, today, now, skipped, horizon) ==
  {run \in (0 .. horizon) \X s.times :
     /\ (today + run[1]) % WeekLength \in s.days
     /\ run[1] = 0 => Earlier(now, run[2])
     /\ run \notin skipped}

\* As FirstRun compares them.
NoLater(r, q) == r[1] < q[1] \/ (r[1] = q[1] /\ ~ Earlier(q[2], r[2]))

FirstOf(runs) == CHOOSE r \in runs : \A q \in runs : NoLater(r, q)

LEMMA FirstRunIs ==
  ASSUME NEW s, NEW today, NEW now, NEW skipped, NEW horizon
  PROVE  FirstRun(s, today, now, skipped, horizon) =
           IF RunsAhead(s, today, now, skipped, horizon) = {} THEN Null
           ELSE FirstOf(RunsAhead(s, today, now, skipped, horizon))
  BY Zenon DEF FirstRun, RunsAhead, NoLater, FirstOf

\* The instant of a run, in minutes.
InstantOf(run) == 24 * 60 * run[1] + MinuteOf(run[2])

LEMMA Instants ==
  ASSUME NEW r \in Nat \X ClockTimes, NEW q \in Nat \X ClockTimes
  PROVE  /\ InstantOf(r) \in Nat
         /\ NoLater(r, q) <=> InstantOf(r) <= InstantOf(q)
         /\ InstantOf(r) = InstantOf(q) => r = q
         /\ InstantOf(r) <= InstantOf(q) => r[1] <= q[1]
<1>1. PICK d \in Nat, t \in ClockTimes : r = <<d, t>>
  OBVIOUS
<1>2. PICK e \in Nat, u \in ClockTimes : q = <<e, u>>
  OBVIOUS
<1>3. PICK i, k : i = MinuteOf(t) /\ k = MinuteOf(u)
  OBVIOUS
<1>4. i \in 0 .. 24 * 60 - 1 /\ k \in 0 .. 24 * 60 - 1 /\ (i = k => t = u)
  BY <1>3, ClockMinutes
<1>5. InstantOf(r) = 24 * 60 * d + i /\ InstantOf(q) = 24 * 60 * e + k
  BY <1>1, <1>2, <1>3 DEF InstantOf
<1>6. NoLater(r, q) <=> d < e \/ (d = e /\ ~ (k < i))
  BY <1>1, <1>2, <1>3 DEF NoLater, Earlier
<1>7. 24 * 60 * d + i <= 24 * 60 * e + k <=> d < e \/ (d = e /\ ~ (k < i))
  BY <1>4
<1>8. 24 * 60 * e + k <= 24 * 60 * d + i <=> e < d \/ (e = d /\ ~ (i < k))
  BY <1>4
<1>9. 24 * 60 * d + i = 24 * 60 * e + k => d = e /\ i = k
  <2>1. 24 * 60 * d + i \in Int /\ 24 * 60 * e + k \in Int
    BY <1>4
  <2> QED BY <1>4, <1>7, <1>8, <2>1
<1> QED BY <1>1, <1>2, <1>4, <1>5, <1>6, <1>7, <1>9

\* Of runs there is a first.
LEMMA FirstOfRuns ==
  ASSUME NEW runs \in SUBSET (Nat \X ClockTimes), runs # {},
         NEW first, first = FirstOf(runs)
  PROVE  /\ first \in runs /\ \A q \in runs : NoLater(first, q)
         /\ \A r \in runs : (\A q \in runs : NoLater(r, q)) => r = first
<1>1. PICK instants : instants = {InstantOf(r) : r \in runs}
  OBVIOUS
<1>2. instants \in SUBSET Nat /\ instants # {}
  BY <1>1, Instants
<1>3. PICK m \in instants : \A k \in instants : m <= k
  BY <1>2, LeastNumber
<1>4. PICK r \in runs : InstantOf(r) = m
  BY <1>1
<1>5. \A q \in runs : NoLater(r, q)
  BY <1>1, <1>3, <1>4, Instants
<1>6. first \in runs /\ \A q \in runs : NoLater(first, q)
  BY <1>5, Zenon DEF FirstOf
<1>7. ASSUME NEW o \in runs, \A q \in runs : NoLater(o, q)
      PROVE  o = first
  <2>1. NoLater(o, first) /\ NoLater(first, o)
    BY <1>6, <1>7
  <2>2. o \in Nat \X ClockTimes /\ first \in Nat \X ClockTimes
    BY <1>6
  <2>3. InstantOf(o) <= InstantOf(first) /\ InstantOf(first) <= InstantOf(o)
    BY <2>1, <2>2, Instants
  <2>4. InstantOf(o) \in Nat /\ InstantOf(first) \in Nat
    BY <2>2, Instants
  <2>5. InstantOf(o) = InstantOf(first)
    BY <2>3, <2>4
  <2> QED BY <2>2, <2>5, Instants
<1> QED BY <1>6, <1>7

\* Each day comes in the next seven, and again in the seven after them.
LEMMA DayComesAgain ==
  ASSUME NEW today \in Week, NEW d \in Week
  PROVE  \E offset \in 1 .. WeekLength :
           (today + offset) % WeekLength = d /\ (today + (offset + WeekLength)) % WeekLength = d
<1>1. PICK W \in Nat \ {0} : W = WeekLength
  BY PositionsAssumption
<1>2. today \in Nat
  BY DEF Week
<1>3. PICK x \in 0 .. W - 1 : (today + x) % W = d
  BY <1>1, DaysIntoWeek
<1>4. PICK y \in Nat : y = today + x
  BY <1>2
<1>5. PICK q \in Int, r \in 0 .. W - 1 : y = W * q + r /\ y % W = r /\ W * q \in Int
  <2>1. /\ y \div W \in Int /\ y % W \in 0 .. W - 1
        /\ y = W * (y \div W) + (y % W)
    BY DivMod
  <2>2. W * (y \div W) \in Int
    BY <2>1
  <2> QED BY <2>1, <2>2
<1>6. W * (q + 1) = W * q + W /\ W * (q + 2) = W * q + 2 * W /\ q + 1 \in Int /\ q + 2 \in Int
  OBVIOUS
<1>7. (W * (q + 1) + r) % W = r /\ (W * (q + 2) + r) % W = r
  BY <1>6, DivModOf
<1>8. y + W = W * (q + 1) + r /\ y + 2 * W = W * (q + 2) + r
  BY <1>5, <1>6
<1>9. y % W = d /\ (y + W) % W = d /\ (y + 2 * W) % W = d
  BY <1>3, <1>4, <1>5, <1>7, <1>8
<1>10. CASE x = 0
  <2>1. W \in 1 .. W /\ today + W = y + W /\ today + (W + W) = y + 2 * W
    BY <1>2, <1>4, <1>10
  <2> QED BY <1>1, <1>9, <2>1
<1>11. CASE x # 0
  <2>1. x \in 1 .. W /\ today + x = y /\ today + (x + W) = y + W
    BY <1>2, <1>4, <1>11
  <2> QED BY <1>1, <1>9, <2>1
<1> QED BY <1>10, <1>11

\* The next run is the first, however far one looks.
LEMMA NextRunIs == NextRunIsFirst
<1>1. SUFFICES ASSUME NEW s \in Schedules, NEW today \in Week, NEW now \in ClockTimes,
                      NEW skipped \in {{}} \union {{run} : run \in (0 .. 3 * WeekLength) \X s.times}
               PROVE  /\ NextScheduledAt(s, today, now, skipped) # Null
                      /\ NextScheduledAt(s, today, now, skipped) =
                           FirstRun(s, today, now, skipped, 3 * WeekLength)
  BY DEF NextRunIsFirst
<1>2. PICK W \in Nat \ {0} : W = WeekLength
  BY PositionsAssumption
<1>3. s.days \in SUBSET Week /\ s.days # {} /\ s.times \in SUBSET ClockTimes /\ s.times # {}
  BY DEF Schedules
<1>4. PICK near, far : /\ near = RunsAhead(s, today, now, skipped, 2 * WeekLength)
                       /\ far = RunsAhead(s, today, now, skipped, 3 * WeekLength)
  OBVIOUS
<1>5. near \in SUBSET (Nat \X ClockTimes) /\ far \in SUBSET (Nat \X ClockTimes)
  <2>1. 0 .. 2 * WeekLength \subseteq Nat /\ 0 .. 3 * WeekLength \subseteq Nat
    BY <1>2
  <2> QED BY <1>3, <1>4, <2>1 DEF RunsAhead
<1>6. near \subseteq far /\ \A r \in far : r[1] <= 2 * WeekLength => r \in near
  <2>1. 0 .. 2 * W \subseteq 0 .. 3 * W /\ \A k \in 0 .. 3 * W : k <= 2 * W => k \in 0 .. 2 * W
    OBVIOUS
  <2>2. near \subseteq far
    BY <1>2, <1>4, <2>1 DEF RunsAhead
  <2>3. ASSUME NEW r \in far, r[1] <= 2 * W
        PROVE  r \in near
    <3>1. PICK T : T = s.times
      OBVIOUS
    <3>2. r \in (0 .. 3 * W) \X T
      BY <1>2, <1>4, <3>1 DEF RunsAhead
    <3>3. r \in (0 .. 2 * W) \X T
      BY <2>1, <2>3, <3>2
    <3> QED BY <1>2, <1>4, <3>1, <3>3 DEF RunsAhead
  <2> QED BY <1>2, <2>2, <2>3
<1>7. near # {}
  <2>1. PICK d \in s.days, t \in s.times : TRUE
    BY <1>3
  <2>2. PICK offset \in 1 .. WeekLength :
          (today + offset) % WeekLength = d /\ (today + (offset + WeekLength)) % WeekLength = d
    BY <1>3, DayComesAgain
  <2>3. PICK k \in {offset, offset + WeekLength} : <<k, t>> \notin skipped
    <3>1. offset # offset + WeekLength
      BY <1>2
    <3> QED BY <3>1
  <2>4. k \in 0 .. 2 * WeekLength /\ k # 0 /\ (today + k) % WeekLength = d
    BY <1>2, <2>2, <2>3
  <2>5. PICK r : r = <<k, t>>
    OBVIOUS
  <2>6. r \in (0 .. 2 * WeekLength) \X s.times /\ r[1] = k
    BY <2>4, <2>5
  <2>7. r \in near
    BY <1>4, <2>3, <2>4, <2>5, <2>6 DEF RunsAhead
  <2> QED BY <2>7
<1>8. PICK next, best : next = FirstOf(near) /\ best = FirstOf(far)
  OBVIOUS
<1>9. NextScheduledAt(s, today, now, skipped) = next
  <2>1. NextScheduledAt(s, today, now, skipped) = FirstRun(s, today, now, skipped, 2 * WeekLength)
    BY DEF NextScheduledAt
  <2> QED BY <1>4, <1>7, <1>8, <2>1, FirstRunIs, Zenon
<1>10. FirstRun(s, today, now, skipped, 3 * WeekLength) = best
  <2>1. far # {}
    BY <1>6, <1>7
  <2> QED BY <1>4, <1>8, <2>1, FirstRunIs, Zenon
<1>11. /\ next \in near
       /\ \A r \in near : (\A q \in near : NoLater(r, q)) => r = next
  BY <1>5, <1>7, <1>8, FirstOfRuns
<1>12. best \in far /\ \A q \in far : NoLater(best, q)
  BY <1>5, <1>6, <1>7, <1>8, FirstOfRuns
<1>13. best \in near
  <2>1. NoLater(best, next) /\ best \in Nat \X ClockTimes /\ next \in Nat \X ClockTimes
    BY <1>5, <1>6, <1>11, <1>12
  <2>2. best[1] <= next[1]
    BY <2>1, Instants
  <2>3. next[1] \in 0 .. 2 * WeekLength
    BY <1>4, <1>11 DEF RunsAhead
  <2>4. best[1] \in Nat
    BY <2>1
  <2>5. best[1] <= 2 * WeekLength
    BY <1>2, <2>2, <2>3, <2>4
  <2> QED BY <1>6, <1>12, <2>5
<1>14. best = next
  BY <1>6, <1>11, <1>12, <1>13
<1>15. next # Null
  BY <1>5, <1>11, NullAssumption
<1> QED BY <1>9, <1>10, <1>14, <1>15

\* The rules of the file are among them.
LEMMA RulesRead == RulesAreRead
<1>1. Rules \subseteq AnyRule
  BY PositionsAssumption DEF Rules, AnyRule
<1> QED BY <1>1, RuleIsRead DEF RulesAreRead

(* ScheduleIsKept: the form shows of any rule exactly the runs it has by   *)
(* RFC 5545, or nothing; the rule written for any schedule describes it and *)
(* is shown as it; and an active schedule has a next run, the first, though *)
(* a clock change leaves out one.                                          *)
THEOREM SchedulesAreKept == AutomationsSpec => []ScheduleIsKept
<1>1. AutomationsTypeOK => ScheduleIsKept
  <2>1. SUFFICES ASSUME AutomationsTypeOK, config # Null PROVE config.rule \in Rules
    BY RulesRead, ScheduleIsWritten, NextRunIs DEF ScheduleIsKept
  <2> QED BY <2>1 DEF AutomationsTypeOK, Contents
<1> QED BY <1>1, AutomationsTypeCorrect, PTL

-----------------------------------------------------------------------------
(* The parts side by side, as they are checked (MCClient).                 *)

Parts == {"outreach", "review", "automations"}

\* A step of one part leaves the others alone, so each behaves as it does alone.
LEMMA ClientParts ==
  ClientSpec => OutreachSpec /\ ReviewSpec /\ AutomationsSpec /\ [](part \in Parts)
<1> DEFINE everything == <<outreachVars, reviewVars, automationVars, part>>
<1>1. ClientInit => OutreachInit /\ ReviewInit /\ AutomationsInit /\ part \in Parts
  BY DEF ClientInit, Parts
<1>2. [ClientNext]_everything =>
        [OutreachNext]_outreachVars /\ [ReviewNext]_reviewVars /\ [AutomationsNext]_automationVars
  BY DEF ClientNext
<1>3. part \in Parts /\ [ClientNext]_everything => (part \in Parts)'
  BY DEF ClientNext
<1> HIDE DEF everything
<1>4. ClientSpec => ClientInit /\ [][ClientNext]_everything
  BY PTL DEF ClientSpec, everything
<1> QED
  BY <1>1, <1>2, <1>3, <1>4, PTL DEF OutreachSpec, ReviewSpec, AutomationsSpec

(* ClientTypeOK: the type invariant of whichever part the client's run     *)
(* follows, from those of the parts.                                       *)
THEOREM ClientTypeCorrect == ClientSpec => []ClientTypeOK
<1>1. OutreachTypeOK /\ ReviewTypeOK /\ AutomationsTypeOK /\ part \in Parts => ClientTypeOK
  BY DEF ClientTypeOK, Parts
<1> QED
  BY <1>1, ClientParts, OutreachTypeCorrect, ReviewTypeCorrect, AutomationsTypeCorrect, PTL

=============================================================================
