-------------------------------- MODULE MCServer --------------------------------
(* The records of the server: job posts with their reports, or one post that *)
(* is tracked, or a search that reports what it has found, or the launcher   *)
(* of such a search, or the bridge that copies descriptions for an import.   *)
(* The parts share no state that two of them change, so a behaviour is one   *)
(* of one of them.                                                           *)
EXTENDS MCJobPosts, Tracking, SearchPipeline, JobSearchRun, DescriptionCapture

Evidence(id, status, at) == [id |-> id, status |-> status, at |-> at]

MCEvents == {Evidence("e1", "interviewing", 1), Evidence("e2", "rejected", 2),
             Evidence("e3", "responded", 2), Evidence("e3", "review", 1)}

\* Two texts of the first job, and another job.
Candidate(key, page, text) ==
  [post |-> Listing(key, CareersPage, page), text |-> text, active |-> TRUE, readable |-> TRUE]
MCCandidates == {Candidate("k1", EmployerPage, "x"), Candidate("k1", EmployerPage, "y"),
                 Candidate("k2", OtherPage, "x")}

\* A search of one lane that another was blocked in, and one that ended early.
Lane(queries, blocked) == [queries |-> queries, blocked |-> blocked, reason |-> FALSE]
MCCoverages == {("ats" :> Lane(2, FALSE) @@ "linkedin" :> Lane(0, TRUE)),
                ("ats" :> Lane(2, FALSE) @@ "linkedin" :> Lane(1, FALSE))}

MCTexts == {[url |-> "one", text |-> "x"], [url |-> "other", text |-> "x"]}

VARIABLE part

ServerInit ==
  /\ PostsInit /\ TrackInit /\ SearchInit /\ RunInit /\ CaptureInit
  /\ part \in {"posts", "tracking", "search", "run", "captures"}
  /\ part # "posts" => rows = [k \in Keys |-> NoPost]
  /\ part # "search" => files.merged = <<>> /\ files.coverage["linkedin"].blocked
  /\ part # "run" => checkOnly /\ step = "resume"

ServerNext ==
  /\ UNCHANGED part
  /\ \/ part = "posts" /\ PostsNext /\ UNCHANGED <<trackVars, searchVars, runVars, captureVars>>
     \/ part = "tracking" /\ TrackNext /\ UNCHANGED <<postVars, searchVars, runVars, captureVars>>
     \/ part = "search" /\ SearchNext /\ UNCHANGED <<postVars, trackVars, runVars, captureVars>>
     \/ part = "run" /\ RunNext /\ UNCHANGED <<postVars, trackVars, searchVars, captureVars>>
     \/ part = "captures" /\ CaptureNext /\ UNCHANGED <<postVars, trackVars, searchVars, runVars>>

ServerSpec ==
  ServerInit /\ [][ServerNext]_<<postVars, trackVars, searchVars, runVars, captureVars, part>>

ServerSymmetry == CallSymmetry \union Permutations(Slots)

ServerTypeOK ==
  CASE part = "posts" -> PostsTypeOK
    [] part = "tracking" -> TrackTypeOK
    [] part = "search" -> SearchTypeOK
    [] part = "run" -> RunTypeOK
    [] part = "captures" -> CaptureTypeOK

=============================================================================
