----------------------------- MODULE SearchPipeline -----------------------------
(***************************************************************************)
(* A scheduled job search (server/src/job-search-artifact.ts, with the     *)
(* command line of server/scripts/job-search-artifact.ts).  An agent       *)
(* writes some files - the candidates it merged, its judgment, the         *)
(* coverage of its search - and runs commands that check files and write   *)
(* others, up to the report that is sent to the server and verified there. *)
(* It may run any command again, at any time, on whatever the files hold   *)
(* by then; a command that finds a file invalid writes nothing.            *)
(*                                                                         *)
(* A digest (SHA-256) stands for what it was made of, so it is that.  Of a *)
(* candidate the listing is kept and a text, for its description and       *)
(* everything else it says.                                                *)
(***************************************************************************)
EXTENDS JobListings, SequencesExt

CONSTANTS
  Candidates,    \* [post, text, active, readable], as discovery writes them
  Coverages,     \* records of the search, as the agent may write them
  MinQueries,    \* MIN_RELIABLE_OPERATIONS_PER_LANE
  MinLanes,      \* MIN_RELIABLE_COMPLETED_LANES
  Missing,       \* no file, or one that cannot be parsed
  MaxCandidates, \* bound: candidates that are merged
  MaxWrites      \* bound: files the agent writes and posts users import

ASSUME CandidatesAssumption ==
  \A c \in Candidates : c.post \in Posts /\ {c.active, c.readable} \subseteq BOOLEAN

ASSUME MaxCandidatesAssumption == MaxCandidates \in Nat

ASSUME CoveragesAssumption ==
  \A coverage \in Coverages : \A lane \in DOMAIN coverage :
    coverage[lane].queries \in Nat /\ {coverage[lane].blocked, coverage[lane].reason} \subseteq BOOLEAN

VARIABLES
  files,      \* the files of the run, by name
  board,      \* the server's posts: the candidate stored under a source key
  published,  \* the run's report on the server, or Missing
  judged,     \* history: judgments the agent has written
  accepted,   \* history: reports the server has stored
  writes      \* how many files and posts the agent and users have written

searchVars == <<files, board, published, judged, accepted, writes>>

Names == {"merged", "identities", "candidates", "review", "judgment", "selection",
          "coverage", "report", "response"}

\* A candidate that is selected has one of two labels, which are alike here.
Verdicts == {"selected", "reject"}
Decision == [key : Keys, verdict : Verdicts]
Lists == UNION {[1 .. n -> Candidates] : n \in 0 .. MaxCandidates}
Decisions == UNION {[1 .. n -> Decision] : n \in 0 .. MaxCandidates}

Has(names) == \A name \in names : files[name] # Missing
Save(name, content) == files' = [files EXCEPT ![name] = content]
Indices(list) == 1 .. Len(list)

-----------------------------------------------------------------------------
(* What the commands check and compute.                                    *)

\* acceptedCandidateSchema
Accepted(c) ==
  /\ c.active /\ c.readable
  /\ "discovery" \notin {c.post.postUrl.host, c.post.applicationUrl.host}

AllAccepted(list) == \A i \in Indices(list) : Accepted(list[i])

\* addUniqueCandidateIssues
AllDifferent(list) ==
  \A i, j \in Indices(list) : i < j => ~ SameJob(list[i].post, list[j].post)

TokensOfAll(list) == UNION {IdentityTokens[list[i].post] : i \in Indices(list)}

\* createDeduplicatedReviewPacket: candidates that are known, or like one that
\* was kept before them, are left out.
Deduplicated(list, known) ==
  LET kept[n \in 0 .. Len(list)] ==
        IF n = 0 THEN <<>>
        ELSE IF IdentityTokens[list[n].post] \intersect (known \union TokensOfAll(kept[n - 1])) = {}
             THEN Append(kept[n - 1], list[n]) ELSE kept[n - 1]
  IN  kept[Len(list)]

KeysIn(entries) == {entries[i].key : i \in Indices(entries)}

UniqueKeys(entries) == \A i, j \in Indices(entries) : entries[i].key = entries[j].key => i = j

\* judgmentArtifactSchema: selected decisions come first.
SelectedFirst(decisions) ==
  \A i, j \in Indices(decisions) :
    i < j /\ decisions[i].verdict = "reject" => decisions[j].verdict = "reject"

Selected(decisions) == SelectSeq(decisions, LAMBDA d : d.verdict # "reject")

CandidateKeys(list) == {list[i].post.sourceKey : i \in Indices(list)}

\* createSelectionFromJudgment: every reviewed candidate is judged once.
Judges(judgment, review) ==
  /\ judgment.digest = review
  /\ UniqueKeys(judgment.decisions) /\ SelectedFirst(judgment.decisions)
  /\ KeysIn(judgment.decisions) \subseteq CandidateKeys(review)
  /\ Len(judgment.decisions) = Len(review)

\* hasCompletedCoverage, validateCoverage
Completed(coverage) == {lane \in DOMAIN coverage : coverage[lane].queries >= MinQueries}

Reliable(coverage) ==
  /\ \A lane \in DOMAIN coverage \ Completed(coverage) :
       coverage[lane].blocked \/ coverage[lane].reason
  /\ Cardinality(Completed(coverage)) >= MinLanes

\* summarizeCoverage
Summary(coverage) ==
  [completed |-> Completed(coverage),
   blocked |-> {lane \in DOMAIN coverage : coverage[lane].blocked},
   incomplete |-> {lane \in DOMAIN coverage \ Completed(coverage) : ~ coverage[lane].blocked}]

\* The results of a report, in the order of the selections.
ResultsOf(list, selections) ==
  [i \in Indices(selections) |->
     [rank |-> i, label |-> selections[i].verdict,
      candidate |-> CHOOSE c \in ToSet(list) : c.post.sourceKey = selections[i].key]]

\* assembleFinalReport
Report(list, selections, coverage) ==
  [results |-> ResultsOf(list, selections), handed |-> Len(list),
   summary |-> Summary(coverage)]

-----------------------------------------------------------------------------
(* What the agent writes.                                                  *)

AgentWrites(name, content) ==
  /\ writes < MaxWrites
  /\ writes' = writes + 1
  /\ Save(name, content)

Discover(list) ==
  /\ AgentWrites("merged", list)
  /\ UNCHANGED <<board, published, judged, accepted>>

\* A judgment of the review that is there, complete and in order or not.
Judge(decisions) ==
  /\ Has({"review"})
  /\ LET judgment == [digest |-> files.review, decisions |-> decisions]
     IN AgentWrites("judgment", judgment) /\ judged' = judged \union {judgment}
  /\ UNCHANGED <<board, published, accepted>>

-----------------------------------------------------------------------------
(* The commands.                                                           *)

Listings == [k \in Keys |-> IF board[k] = NoPost THEN NoPost ELSE board[k].post]

\* history, after GET /job-posts
History ==
  /\ Save("identities", UNION {IdentityTokens[board[k].post] : k \in
                                  {l \in Keys : board[l] # NoPost}})
  /\ UNCHANGED <<board, published, judged, accepted, writes>>

\* pool: both files are written at once, and the command may be stopped before
\* either is.  (A file that is cut short is refused by every command.)
Pool ==
  /\ Has({"merged", "identities"})
  /\ AllAccepted(files.merged)
  /\ LET kept == Deduplicated(files.merged, files.identities)
     IN \E list \in {kept, files.candidates}, packet \in {kept, files.review} :
          files' = [files EXCEPT !.candidates = list, !.review = packet]
  /\ UNCHANGED <<board, published, judged, accepted, writes>>

\* pool of a pool that exists: it has to be free of known candidates.
Repool ==
  /\ Has({"candidates", "identities"})
  /\ AllAccepted(files.candidates) /\ AllDifferent(files.candidates)
  /\ TokensOfAll(files.candidates) \intersect files.identities = {}
  /\ Save("review", files.candidates)
  /\ UNCHANGED <<board, published, judged, accepted, writes>>

\* judgment
Select ==
  /\ Has({"review", "judgment"})
  /\ Judges(files.judgment, files.review)
  /\ Save("selection", [digest |-> files.judgment.digest,
                         selections |-> Selected(files.judgment.decisions)])
  /\ UNCHANGED <<board, published, judged, accepted, writes>>

\* A report file that is written starts the delivery anew.
Assembles ==
  /\ Has({"candidates", "selection", "coverage"})
  /\ AllAccepted(files.candidates) /\ AllDifferent(files.candidates)
  /\ Reliable(files.coverage)
  /\ KeysIn(files.selection.selections) \subseteq CandidateKeys(files.candidates)
  /\ Save("report", Report(files.candidates, files.selection.selections, files.coverage))
  /\ UNCHANGED <<board, published, judged, accepted, writes>>

\* Mutant of Assemble: the selection may be one of other candidates.
AssembleStale == Assembles

\* assemble, of the candidates that were judged.
Assemble ==
  /\ Has({"selection"}) /\ files.selection.digest = files.candidates
  /\ Assembles

-----------------------------------------------------------------------------
(* The server.                                                             *)

Reply(report, table) ==
  [report EXCEPT !.results =
     [i \in DOMAIN report.results |->
        [report.results[i] EXCEPT
           !.candidate = table[report.results[i].candidate.post.sourceKey]]]]

PostsIn(report) == {report.results[i].candidate.post : i \in DOMAIN report.results}

\* The server's posts once those of a report are stored.
BoardWith(report) ==
  [k \in Keys |->
     IF k \in KeysOf(PostsIn(report))
     THEN CHOOSE c \in {report.results[i].candidate : i \in DOMAIN report.results} :
            c.post.sourceKey = k
     ELSE board[k]]

\* PUT of the report, which names every job once and must be net-new.  What it
\* answers may be lost, and an error takes the place of an earlier answer.
Put ==
  /\ Has({"report"})
  /\ LET report == files.report
         own == IF published = Missing THEN {} ELSE KeysOf(PostsIn(published))
     IN  IF PostsIn(report) \in Inputs /\ NetNew(Listings, PostsIn(report), own)
         THEN /\ board' = BoardWith(report)
              /\ published' = report
              /\ accepted' = accepted \union {report}
              /\ \E answer \in {Reply(report, BoardWith(report)), Missing} : Save("response", answer)
         ELSE Save("response", Missing) /\ UNCHANGED <<board, published, accepted>>
  /\ UNCHANGED <<judged, writes>>

\* GET of the report
Get ==
  /\ Save("response", IF published = Missing THEN Missing ELSE Reply(published, board))
  /\ UNCHANGED <<board, published, judged, accepted, writes>>

\* A user imports a post, or another report restates it.
Import(c) ==
  /\ writes < MaxWrites
  /\ writes' = writes + 1
  /\ board' = [board EXCEPT ![c.post.sourceKey] = c]
  /\ UNCHANGED <<files, published, judged, accepted>>

-----------------------------------------------------------------------------
(* The verifications, which change nothing: whether they succeed.          *)

\* responseMatchesPayloadSchema
Matches(response, report) == response = report

\* verify
Verifies == Has({"report", "response"}) /\ Matches(files.response, files.report)

\* Mutant of Describes: descriptions are not compared.
DescribesByUrl(there, given) ==
  <<there.post.sourceKey, there.post.postUrl>> = <<given.post.sourceKey, given.post.postUrl>>

Describes(there, given) ==
  /\ <<there.post.sourceKey, there.post.postUrl>> = <<given.post.sourceKey, given.post.postUrl>>
  /\ there.text = given.text

\* verify-storage
VerifiesStorage ==
  /\ Has({"report"}) /\ published # Missing
  /\ DOMAIN published.results = DOMAIN files.report.results
  /\ \A i \in DOMAIN published.results :
       Describes(board[published.results[i].candidate.post.sourceKey],
                 files.report.results[i].candidate)

-----------------------------------------------------------------------------

\* A run that has searched, with the history of a server without posts.
SearchInit ==
  /\ \E list \in Lists, coverage \in Coverages :
       files = [[name \in Names |-> Missing] EXCEPT !.merged = list, !.identities = {},
                                                    !.coverage = coverage]
  /\ board = [k \in Keys |-> NoPost]
  /\ published = Missing
  /\ judged = {} /\ accepted = {}
  /\ writes = 0

SearchNext ==
  \/ \E list \in Lists : Discover(list)
  \/ \E decisions \in Decisions : Judge(decisions)
  \/ History \/ Pool \/ Repool \/ Select \/ Assemble \/ Put \/ Get
  \/ \E c \in Candidates : Import(c)

SearchSpec == SearchInit /\ [][SearchNext]_searchVars

-----------------------------------------------------------------------------
(* Properties.                                                             *)

SearchTypeOK ==
  /\ board \in [Keys -> Candidates \union {NoPost}]
  /\ \A k \in Keys : board[k] # NoPost => board[k].post.sourceKey = k
  /\ published \in accepted \union {Missing}
  /\ {files.merged, files.candidates, files.review} \subseteq Lists \union {Missing}
  /\ files.judgment \in judged \union {Missing}

(* A report is what one judgment says of the very candidates it is made    *)
(* of, each of them judged once (job-search-artifact.ts:813-825, 876-885), *)
(* though any file may have been replaced since the judgment, and the pool *)
(* may have been written without its review packet.                        *)
ReportFollowsJudgment ==
  [][files'.report # files.report =>
       \E judgment \in judged :
         /\ Judges(judgment, files.candidates)
         /\ files'.report.results =
              ResultsOf(files.candidates, Selected(judgment.decisions))]_searchVars

\* What a report recommends: which jobs, how, in which order, after which search.
Recommends(report) ==
  <<[i \in DOMAIN report.results |->
       <<report.results[i].label, report.results[i].candidate.post.sourceKey>>],
    report.handed, report.summary>>

\* What the server keeps of a candidate's page.
PageSays(c) == <<c.post.sourceKey, c.post.postUrl, c.text>>

(* A report whose answer verifies recommends what the server has once      *)
(* stored (job-search-artifact.ts:972-1078), whichever of several reports  *)
(* the answer was to and whatever other users have done to its posts       *)
(* since.  (What it says of a post may be a user's words: the answer shows *)
(* the posts as they are.)  While the descriptions in storage verify       *)
(* (:1183-1299), the posts that the server recommends say what one         *)
(* judgment has seen on their pages, in its order.                         *)
VerifiedReportWasStored ==
  /\ Verifies => \E report \in accepted : Recommends(report) = Recommends(files.report)
  /\ VerifiesStorage => \E judgment \in judged :
       /\ Judges(judgment, judgment.digest)
       /\ LET seen == ResultsOf(judgment.digest, Selected(judgment.decisions))
          IN [i \in DOMAIN published.results |->
                PageSays(board[published.results[i].candidate.post.sourceKey])] =
             [i \in DOMAIN seen |-> PageSays(seen[i].candidate)]

=============================================================================
