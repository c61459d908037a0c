------------------------------ MODULE JobListings ------------------------------
(***************************************************************************)
(* Job listings and their identity (server/src/job-post-identity.ts).  Two *)
(* listings are taken for the same job when they share an identity token:  *)
(* their source key, or an alias derived from one of their URLs.           *)
(*                                                                         *)
(* A listing is [sourceKey, postUrl, applicationUrl].  A URL is what       *)
(* identityAliasesForUrl looks at: the page it shows (host, path and query *)
(* without tracking parameters and without an /apply suffix), the kind of  *)
(* its host, whether path or query mark it as a job, and the identifiers   *)
(* in it: a gh_jid parameter, and the one its host's applicant tracking    *)
(* system puts in the path or the query.                                   *)
(***************************************************************************)
EXTENDS Naturals, FiniteSets

CONSTANTS
  Posts,   \* listings: a client sends them, the database stores them
  NoPost,  \* no row under a source key
  NoId     \* no identifier of that kind

UuidHosts == {"ashby", "lever", "rippling"}
Hosts == UuidHosts \union {"greenhouse", "workday", "discovery", "other"}

ASSUME PostsAssumption ==
  \A p \in Posts : \A url \in {p.postUrl, p.applicationUrl} :
    url.host \in Hosts /\ url.jobMarker \in BOOLEAN

ASSUME NoPostAssumption == NoPost \notin Posts

Keys == {p.sourceKey : p \in Posts}

-----------------------------------------------------------------------------

\* A page that lists many jobs, or any page of a discovery site, is no alias.
IsCanonicalJobUrl(url) ==
  /\ url.host # "discovery"
  /\ \/ url.jobMarker
     \/ url.ghJid # NoId
     \/ url.host \in UuidHosts /\ url.atsId # NoId

\* A posting on an applicant tracking system is known by its identifier
\* there, whichever of its pages the URL shows.
SystemAliases(url) ==
  {<<"greenhouse", id>> : id \in
     {url.ghJid} \union (IF url.host = "greenhouse" THEN {url.atsId} ELSE {})}
    \union {<<host, url.atsId>> : host \in {url.host} \intersect (UuidHosts \union {"workday"})}

IdentityAliases(url) ==
  {alias \in SystemAliases(url) : alias[2] # NoId}
    \union (IF IsCanonicalJobUrl(url) THEN {<<"url", url.page>>} ELSE {})

IdentityTokens ==
  [p \in Posts |->
     {<<"source-key", p.sourceKey>>}
       \union IdentityAliases(p.postUrl) \union IdentityAliases(p.applicationUrl)]

SameJob(p, q) == IdentityTokens[p] \intersect IdentityTokens[q] # {}

KeysOf(input) == {p.sourceKey : p \in input}

\* A request lists every source key once (upsertJobSearchReportInputSchema).
Inputs == {input \in SUBSET Posts :
             \A p, q \in input : p.sourceKey = q.sourceKey => p = q}

(* The posts of a report that recommends the posts own already are net-new:*)
(* each differs from the others, and from every stored one in rows but     *)
(* those the report restates.                                              *)
NetNew(rows, input, own) ==
  /\ \A p \in input : \A k \in Keys :
       rows[k] # NoPost /\ SameJob(p, rows[k]) => k \in KeysOf(input) \intersect own
  /\ \A p, q \in input : SameJob(p, q) => p = q

Upserted(rows, input) ==
  [k \in Keys |-> IF k \in KeysOf(input)
                  THEN CHOOSE p \in input : p.sourceKey = k ELSE rows[k]]

=============================================================================
