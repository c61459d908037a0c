--------------------------- MODULE DescriptionCapture ---------------------------
(***************************************************************************)
(* How the text of a job description reaches an import without the model   *)
(* writing it (agent-bridge/src/runtime/codex/codex-runtime.ts,            *)
(* job-description.ts).  While the turn of an import runs, the agent asks  *)
(* the bridge to copy an element of a page; the bridge has the browser do  *)
(* it, keeps the text and tells the agent an id.  The agent's final        *)
(* message names the id, and the bridge puts the text in its place.        *)
(*                                                                         *)
(* Between the request of the agent and the answer of the browser anything *)
(* may happen to the turn.  Lines of the process are read as long as its   *)
(* output is, also after its exit; continuations run later than the lines  *)
(* that follow in the same chunk (module CodexRuntime).                    *)
(*                                                                         *)
(* An import always has a thread of its own.  A later turn of the thread,  *)
(* which captures nothing, may follow when the import is over.             *)
(***************************************************************************)
EXTENDS Naturals

CONSTANTS
  Imports,  \* threads, each with the import it was opened for
  Copies,   \* calls of capture_job_description, and the ids they are given
  Texts,    \* [url, text]: what a page may show while it is copied
  Null

ASSUME CaptureAssumption ==
  Null \notin Texts /\ \A kept \in SUBSET Copies : kept # Null

VARIABLES
  runtime,   \* "running"; "exited": its output is being drained; "gone"
  imports,   \* imports[i]: the tasks of thread i, see Thread
  captures,  \* jobDescriptionCaptures: per thread the ids of its captures
  copies,    \* copies[c]: a call and what became of it, see Copy
  message    \* the final message that was passed on last, until the next step

captureVars == <<runtime, imports, captures, copies, message>>

Urls == {t.url : t \in Texts}

\* start: how far startTask of the import has come.  turn: the latest turn of
\* the thread, the import's (1) or one that follows it (2).
Thread == [start : {"none", "asked", "answered", "started", "failed"},
           turn : 0 .. 2, runs : BOOLEAN,
           interrupt : {"none", "asked", "answered", "done"}]

Copy == [step : {"none", "reading", "read", "told", "refused", "lost"},
         thread : Imports \union {Null}, text : Texts \union {Null}]

Message == [thread : Imports, turn : {1, 2}, copy : Copies, url : Urls,
            form : {"raw", "error", "completed"}, text : Texts \union {Null}]

CaptureInit ==
  /\ runtime = "running"
  /\ imports = [i \in Imports |->
       [start |-> "none", turn |-> 0, runs |-> FALSE, interrupt |-> "none"]]
  /\ captures = [i \in Imports |-> Null]
  /\ copies = [c \in Copies |-> [step |-> "none", thread |-> Null, text |-> Null]]
  /\ message = Null

Ready == runtime = "running"
Reading == runtime # "gone"
Silent == message' = Null

-----------------------------------------------------------------------------
(* The tasks of a thread.                                                  *)

\* startTask asks for the turn of the import.
StartImport(i) ==
  /\ Ready
  /\ imports[i].start = "none"
  /\ imports' = [imports EXCEPT ![i].start = "asked"]
  /\ UNCHANGED <<runtime, captures, copies>>
  /\ Silent

\* The response of turn/start: lines of the turn may follow in its chunk.
TurnAnswered(i) ==
  /\ Ready
  /\ imports[i].start = "asked"
  /\ imports' = [imports EXCEPT ![i] =
       [@ EXCEPT !.start = "answered", !.turn = 1, !.runs = TRUE]]
  /\ UNCHANGED <<runtime, captures, copies>>
  /\ Silent

TurnRefused(i) ==
  /\ Ready
  /\ imports[i].start = "asked"
  /\ imports' = [imports EXCEPT ![i].start = "failed"]
  /\ UNCHANGED <<runtime, captures, copies>>
  /\ Silent

\* What startTask does when it goes on, though the turn may have ended.
ImportStarted(i) ==
  /\ imports[i].start = "answered"
  /\ imports' = [imports EXCEPT ![i].start = IF Ready THEN "started" ELSE "failed"]
  /\ captures' = IF Ready THEN [captures EXCEPT ![i] = {}] ELSE captures
  /\ UNCHANGED <<runtime, copies>>
  /\ Silent

\* A task that is started in the thread of an import which is over.
FollowUp(i) ==
  /\ Ready
  /\ imports[i].start = "started" /\ imports[i].turn = 1 /\ ~ imports[i].runs
  /\ imports' = [imports EXCEPT ![i] = [@ EXCEPT !.turn = 2, !.runs = TRUE]]
  /\ UNCHANGED <<runtime, captures, copies>>
  /\ Silent

\* A turn ends; with the thread's captures nothing of the import is left.
TurnCompleted(i) ==
  /\ Reading
  /\ imports[i].runs
  /\ imports' = [imports EXCEPT ![i].runs = FALSE]
  /\ captures' = [captures EXCEPT ![i] = Null]
  /\ UNCHANGED <<runtime, copies>>
  /\ Silent

\* interruptTask: the process answers, tabs are closed, captures forgotten.
Interrupt(i) ==
  /\ Ready
  /\ imports[i].start = "started" /\ imports[i].interrupt = "none"
  /\ imports' = [imports EXCEPT ![i].interrupt = "asked"]
  /\ UNCHANGED <<runtime, captures, copies>>
  /\ Silent

InterruptAnswered(i, ok) ==
  /\ Ready
  /\ imports[i].interrupt = "asked"
  /\ imports' = [imports EXCEPT ![i].interrupt = IF ok THEN "answered" ELSE "none"]
  /\ UNCHANGED <<runtime, captures, copies>>
  /\ Silent

\* The tabs are closed, or will not be.
InterruptEnds(i) ==
  /\ imports[i].interrupt = "answered"
  /\ imports' = [imports EXCEPT ![i].interrupt = "done"]
  /\ captures' = [captures EXCEPT ![i] = Null]
  /\ UNCHANGED <<runtime, copies>>
  /\ Silent

-----------------------------------------------------------------------------
(* Copying a description.                                                  *)

\* handleDescriptionCapture, up to its request of the browser.
AskCapture(i, c) ==
  /\ Ready
  /\ imports[i].runs
  /\ copies[c].step = "none"
  /\ copies' = [copies EXCEPT ![c] =
       [@ EXCEPT !.thread = i,
                 !.step = IF captures[i] # Null /\ imports[i].turn = 1
                          THEN "reading" ELSE "refused"]]
  /\ UNCHANGED <<runtime, imports, captures>>
  /\ Silent

\* captureJobDescription: the browser's answer, Null if it copied nothing.
BrowserAnswers(c, text) ==
  /\ Ready
  /\ copies[c].step = "reading"
  /\ copies' = [copies EXCEPT ![c] = [@ EXCEPT !.step = "read", !.text = text]]
  /\ UNCHANGED <<runtime, imports, captures>>
  /\ Silent

\* Mutant of InCapture: the import is not looked at again.
InCaptureOnce(i) == TRUE

\* The captures the call began with are still those of the thread.
InCapture(i) == captures[i] # Null

\* The rest of handleDescriptionCapture.  Only a process that runs is answered.
CaptureEnds(c) ==
  LET i == copies[c].thread
      good == copies[c].text # Null /\ InCapture(i)
  IN  /\ copies[c].step = "read"
      /\ captures' = IF good /\ captures[i] # Null
                     THEN [captures EXCEPT ![i] = @ \union {c}] ELSE captures
      /\ copies' = [copies EXCEPT ![c].step =
           IF ~ Ready THEN "lost" ELSE IF good THEN "told" ELSE "refused"]
      /\ UNCHANGED <<runtime, imports>>
      /\ Silent

\* Mutant of Completes: any turn of the thread is taken for the import's.
CompletesAnyTurn(i) == captures[i] # Null

\* Is the message the result of an import, whose description it lacks?
Completes(i) == captures[i] # Null /\ imports[i].turn = 1

\* completeJobPostImport.  The id is one the agent was told, or it is made up.
FinalMessage(i, c, url) ==
  LET found == Completes(i) /\ c \in captures[i] /\ copies[c].text.url = url
      form == IF found THEN "completed" ELSE IF Completes(i) THEN "error" ELSE "raw"
  IN  /\ Reading
      /\ imports[i].runs
      /\ message' = [thread |-> i, turn |-> imports[i].turn, copy |-> c, url |-> url,
                     form |-> form, text |-> IF found THEN copies[c].text ELSE Null]
      /\ UNCHANGED <<runtime, imports, captures, copies>>

-----------------------------------------------------------------------------
(* The runtime becomes unavailable: captures are forgotten at once, and    *)
(* every request that waits for the process fails.                         *)

Unavailable(state) ==
  /\ runtime' = state
  /\ captures' = [i \in Imports |-> Null]
  /\ copies' = [c \in Copies |->
       [copies[c] EXCEPT !.step = IF @ = "reading" THEN "read" ELSE @]]
  /\ imports' = [i \in Imports |->
       [imports[i] EXCEPT !.start = IF @ = "asked" THEN "failed" ELSE @,
                          !.interrupt = IF @ = "asked" THEN "none" ELSE @]]
  /\ Silent

ProcessExits == Ready /\ Unavailable("exited")

\* Its output ends, or something fails, or the runtime is closed.
ConnectionEnds == Reading /\ Unavailable("gone")

CaptureNext ==
  \/ ProcessExits \/ ConnectionEnds
  \/ \E i \in Imports :
       \/ StartImport(i) \/ TurnAnswered(i) \/ TurnRefused(i) \/ ImportStarted(i)
       \/ FollowUp(i) \/ TurnCompleted(i) \/ Interrupt(i) \/ InterruptEnds(i)
       \/ \E ok \in BOOLEAN : InterruptAnswered(i, ok)
       \/ \E c \in Copies : AskCapture(i, c) \/ \E url \in Urls : FinalMessage(i, c, url)
  \/ \E c \in Copies :
       CaptureEnds(c) \/ \E text \in Texts \union {Null} : BrowserAnswers(c, text)

CaptureSpec == CaptureInit /\ [][CaptureNext]_captureVars

-----------------------------------------------------------------------------
(* Properties.                                                             *)

CaptureTypeOK ==
  /\ runtime \in {"running", "exited", "gone"}
  /\ imports \in [Imports -> Thread]
  /\ captures \in [Imports -> (SUBSET Copies) \union {Null}]
  /\ copies \in [Copies -> Copy]
  /\ message \in Message \union {Null}

\* An import under way: startTask knows its turn, and nothing has ended it.
UnderWay(i) ==
  /\ Ready /\ imports[i].start = "started" /\ imports[i].interrupt # "done"
  /\ imports[i].turn = 1 /\ imports[i].runs

(* A final message has the text that was copied for it, in its own thread  *)
(* and from the page it names, and the agent was told so: as long as the   *)
(* import is under way it is never passed on as the agent wrote it, and is *)
(* refused only if it names another copy or another page.  What another    *)
(* turn of the thread says is left alone.                                  *)
MessageIsTrue(m) ==
  LET copy == copies[m.copy]
      fits == copy.thread = m.thread /\ copy.text # Null /\ copy.text.url = m.url
  IN  CASE m.form = "raw" -> ~ UnderWay(m.thread)
        [] m.form = "error" -> m.turn = 1 /\ ~ (fits /\ copy.step = "told")
        [] m.form = "completed" -> m.turn = 1 /\ fits /\ m.text = copy.text

(* "copies text ... into the validated import without model transcription" *)
(* (tests/codex-runtime.test.ts:187): descriptions are those the bridge    *)
(* has copied for the very turn that reports them, however its requests    *)
(* and its end cross; and an agent is told of a copy only while its import *)
(* is under way, so that what it was told can be used                      *)
(* (codex-runtime.ts:732-785).                                             *)
CapturesServeTheirImport ==
  [][/\ message' # Null => MessageIsTrue(message')
     /\ \A c \in Copies : copies[c].step # "told" /\ copies'[c].step = "told" =>
          UnderWay(copies[c].thread)]_captureVars

=============================================================================
