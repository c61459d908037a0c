------------------------------ MODULE JobIdentity ------------------------------
(***************************************************************************)
(* What the server promises about job posts and the reports that recommend *)
(* them: every request takes effect at one moment, completely or not at    *)
(* all, and a report that has to be net-new is stored only if, at that     *)
(* moment, no other stored post is the same job.  Module JobPosts, the     *)
(* transactions of the server, implements this.                            *)
(***************************************************************************)
EXTENDS JobListings

CONSTANTS
  Reports,  \* report identifiers
  Calls     \* requests, each made once

VARIABLES
  rows,       \* rows[k]: the post stored under source key k, or NoPost
  results,    \* results[r]: source keys of the posts report r recommends
  reported,   \* reported[r]: the stored posts r has recommended so far
  userAdded,  \* source keys of the posts a user has imported
  reply       \* reply[c]: the outcome of a request, "none" before it

vars == <<rows, results, reported, userAdded, reply>>

-----------------------------------------------------------------------------

Answer(c, outcome) ==
  /\ reply[c] = "none"
  /\ reply' = [reply EXCEPT ![c] = outcome]

\* POST /job-posts/user-added
Import(p) ==
  /\ rows' = Upserted(rows, {p})
  /\ userAdded' = userAdded \union {p.sourceKey}
  /\ UNCHANGED <<results, reported>>

\* DELETE /job-posts/user-added/:id takes the post out of its reports too.
Remove(k) ==
  /\ k \in userAdded
  /\ rows' = [rows EXCEPT ![k] = NoPost]
  /\ results' = [r \in Reports |-> results[r] \ {k}]
  /\ reported' = [r \in Reports |-> reported[r] \ {k}]
  /\ userAdded' = userAdded \ {k}

\* PUT /search-reports/:date/:id
StoreReport(r, input) ==
  /\ rows' = Upserted(rows, input)
  /\ results' = [results EXCEPT ![r] = KeysOf(input)]
  /\ reported' = [reported EXCEPT ![r] = @ \union KeysOf(input)]
  /\ UNCHANGED userAdded

\* ... with ?requireNetNew=true
StoreNetNewReport(r, input) ==
  NetNew(rows, input, reported[r]) /\ StoreReport(r, input)

RefuseReport(r, input) ==
  /\ ~ NetNew(rows, input, results[r])
  /\ UNCHANGED <<rows, results, reported, userAdded>>

\* A database that earlier requests have filled.
Init ==
  /\ rows \in [Keys -> Posts \union {NoPost}]
  /\ \A k \in Keys : rows[k] # NoPost => rows[k].sourceKey = k
  /\ results \in [Reports -> SUBSET {k \in Keys : rows[k] # NoPost}]
  /\ reported = results
  /\ userAdded \subseteq {k \in Keys : rows[k] # NoPost}
  /\ reply = [c \in Calls |-> "none"]

Effect(outcome) ==
  \/ /\ outcome = "stored"
     /\ \/ \E p \in Posts : Import(p)
        \/ \E r \in Reports, input \in Inputs : StoreReport(r, input)
  \/ outcome = "net-new" /\ \E r \in Reports, input \in Inputs : StoreNetNewReport(r, input)
  \/ outcome = "removed" /\ \E k \in Keys : Remove(k)
  \/ outcome = "conflict" /\ \E r \in Reports, input \in Inputs : RefuseReport(r, input)
  \/ outcome \in {"absent", "failed"} /\ UNCHANGED <<rows, results, reported, userAdded>>

Next ==
  \E c \in Calls, outcome \in {"stored", "net-new", "conflict", "removed", "absent", "failed"} :
    Answer(c, outcome) /\ Effect(outcome)

Spec == Init /\ [][Next]_vars

=============================================================================
