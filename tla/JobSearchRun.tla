------------------------------ MODULE JobSearchRun ------------------------------
(***************************************************************************)
(* The launcher of a scheduled job search (agent-bridge/src/               *)
(* run-job-search.ts): one sequential script over a connection to a Codex  *)
(* process of its own (module CodexRuntime has the connection in detail).  *)
(* It opens a thread, runs one turn in it, in which the agent may start    *)
(* agents with threads and turns of their own, and in the end closes the   *)
(* browser tabs of every turn it has heard of.                             *)
(*                                                                         *)
(* The script waits for one promise at a time; lines of the process, its   *)
(* exit and signals are handled while it waits, and also between the       *)
(* answer and the continuation of the script.                              *)
(***************************************************************************)
EXTENDS Naturals, Sequences, Functions

CONSTANTS
  Main,     \* the thread of the search
  Agents,   \* threads of agents it may start
  MaxTurns, \* bound: turns of an agent
  Runs      \* bound: how far runs are at the start: nothing is done
            \* ("resume"), or the turn is asked for ("turn")

ASSUME RunAssumption == Main \notin Agents /\ MaxTurns \in Nat /\ Runs \subseteq {"resume", "turn"}

VARIABLES
  checkOnly,   \* --check: the run ends before its turn
  step,        \* what the script waits for, or has come to
  answer,      \* "asked"; "ok", "failed": its continuation is due
  completion,  \* "pending", "ok" or "error", the first to settle it
  turns,       \* the turns map, from thread to turn
  order,       \* its keys in the order of insertion
  finalMessage,\* the search has reported a final answer
  exitCode,
  visited,     \* how many of turns the last loop has come to
  entry,       \* the thread and turn it is at
  process,     \* "running"; "exited": what it wrote is still read; "none"
  begun,       \* begun[th]: turns the process has begun in thread th
  ended,       \* history: turns whose end was read, with their status
  interrupted, \* history: turns the script has asked to interrupt
  tidied,      \* history: turns whose tabs it has asked to close ...
  untidy,      \* ... in vain
  late         \* history: threads that began a turn after they were visited

runVars == <<checkOnly, step, answer, completion, turns, order, finalMessage, exitCode,
             visited, entry, process, begun, ended, interrupted, tidied, untidy, late>>

Threads == {Main} \union Agents
Turn == Threads \X (1 .. MaxTurns + 1)
Setup == {"resume", "initialize", "thread", "status", "turn"}
Requests == (Setup \ {"resume"}) \union {"interrupt", "tabs"}
Over == {"closed", "crashed"}
Endings == {"completed", "failed"}

world == <<process, begun, ended, late>>
heard == <<completion, turns, order, finalMessage>>
cleanup == <<visited, entry, interrupted, tidied, untidy>>

-----------------------------------------------------------------------------
(* The process and the signals.                                            *)

\* A request is answered, with an error perhaps; the turn begins with it.
Respond(result) ==
  /\ answer = "asked" /\ result \in {"ok", "failed"}
  /\ \/ step = "resume"
     \/ step \in Requests /\ process = "running"
  /\ answer' = result
  /\ begun' = IF step = "turn" /\ result = "ok" THEN [begun EXCEPT ![Main] = 1] ELSE begun
  /\ UNCHANGED <<checkOnly, step, heard, exitCode, cleanup, process, ended, late>>

\* completion: what settles it first counts.
Settled(result) == IF completion = "pending" THEN result ELSE completion

\* What a request meets when the process is gone, or goes.
Lost == IF answer = "asked" /\ step \in Requests THEN "failed" ELSE answer

\* turns.set, by any notification that names a turn and its thread.
TurnNoted(th, turn) ==
  /\ turns' = [t \in DOMAIN turns \union {th} |-> IF t = th THEN turn ELSE turns[t]]
  /\ order' = IF th \in DOMAIN turns THEN order ELSE Append(order, th)

\* The end of its turn has not been read.
Works(th) ==
  begun[th] > 0 /\ {<<th, begun[th], status>> : status \in Endings} \intersect ended = {}

Reads == process # "none" /\ step \notin Over

TurnBegins(th) ==
  /\ Reads /\ process = "running"
  /\ th \in Agents /\ begun[Main] = 1 /\ begun[th] < MaxTurns
  /\ begun' = [begun EXCEPT ![th] = @ + 1]
  /\ TurnNoted(th, begun'[th])
  /\ late' = IF \E i \in 1 .. visited : order[i] = th THEN late \union {th} ELSE late
  /\ UNCHANGED <<checkOnly, step, answer, completion, finalMessage, exitCode, cleanup,
                 process, ended>>

FinalAnswer ==
  /\ Reads /\ Works(Main)
  /\ finalMessage' = TRUE
  /\ UNCHANGED <<checkOnly, step, answer, completion, turns, order, exitCode, cleanup, world>>

Ends(th, status) ==
  /\ Reads /\ Works(th)
  /\ ended' = ended \union {<<th, begun[th], status>>}
  /\ TurnNoted(th, begun[th])
  /\ UNCHANGED <<checkOnly, step, answer, finalMessage, exitCode, cleanup, process, begun,
                 late>>

\* turn/completed; only that of the search settles the run.
TurnEnds(th, status) ==
  /\ Ends(th, status)
  /\ completion' = IF th = Main THEN Settled(IF status = "completed" THEN "ok" ELSE "error")
                   ELSE completion

\* A request of the process needs a user: it is refused, which throws when the
\* process has exited since, and nothing catches that.
UserNeeded ==
  /\ Reads
  /\ IF process = "running" THEN completion' = Settled("error") /\ UNCHANGED step
     ELSE step' = "crashed" /\ UNCHANGED completion
  /\ UNCHANGED <<checkOnly, answer, turns, order, finalMessage, exitCode, cleanup, world>>

\* The process exits, or the connection fails: onUnavailable, onFailure.
ConnectionLost(state) ==
  /\ Reads
  /\ process = "running" \/ state = "none"
  /\ process' = state
  /\ answer' = Lost
  /\ completion' = Settled("error")
  /\ UNCHANGED <<checkOnly, step, turns, order, finalMessage, exitCode, cleanup, begun, ended,
                 late>>

Stop ==
  /\ step \notin Over /\ completion = "pending"
  /\ completion' = "error"
  /\ UNCHANGED <<checkOnly, step, answer, turns, order, finalMessage, exitCode, cleanup, world>>

-----------------------------------------------------------------------------
(* The script.                                                             *)

\* It asks for something of the process.
Ask(next) ==
  /\ step' = next
  /\ answer' = IF process' = "running" THEN "asked" ELSE "failed"

\* Mutant of Failed: the exit code is read before it is set.
FailedBefore(code) == exitCode = 1

\* A run that has failed interrupts its turns.
Failed(code) == code = 1

\* The next turn of the loop, which also comes to what was added meanwhile, or
\* close().
Clean(code) ==
  /\ exitCode' = code
  /\ IF visited = Len(order)
     THEN /\ step' = "closed" /\ process' = "none"
          /\ UNCHANGED <<answer, visited, entry, interrupted, tidied>>
     ELSE LET th == order[visited + 1]
              turn == <<th, turns[th]>>
          IN  /\ visited' = visited + 1
              /\ entry' = turn
              /\ UNCHANGED process
              /\ IF Failed(code)
                 THEN Ask("interrupt") /\ interrupted' = interrupted \union {turn}
                                       /\ UNCHANGED tidied
                 ELSE Ask("tabs") /\ tidied' = tidied \union {turn}
                                  /\ UNCHANGED interrupted

Unchanged == UNCHANGED <<checkOnly, begun, ended, late>>

\* Set-up goes on; nothing of it looks at completion.
SetUp ==
  /\ answer = "ok" /\ step \in Setup
  /\ \/ /\ step = "resume" /\ process' = "running" /\ Ask("initialize")
        /\ UNCHANGED <<turns, order>>
     \/ /\ UNCHANGED <<process, turns, order>>
        /\ \/ step = "initialize" /\ Ask("thread")
           \/ step = "thread" /\ Ask(IF checkOnly THEN "status" ELSE "turn")
     \/ /\ step = "turn" /\ step' = "completion" /\ answer' = "asked" /\ TurnNoted(Main, 1)
        /\ UNCHANGED process
  /\ UNCHANGED <<completion, finalMessage, exitCode, cleanup>> /\ Unchanged

\* The check, or the turn, is over.
Succeed ==
  /\ \/ step = "status" /\ answer = "ok"
     \/ step = "completion" /\ completion = "ok" /\ finalMessage
  /\ Clean(0)
  /\ UNCHANGED <<heard, untidy>> /\ Unchanged

\* A request is refused or unusable, the turn failed or was stopped, or it has
\* no final answer.
Throw ==
  /\ \/ step \in Setup /\ answer = "failed"
     \/ step \in {"resume", "thread", "status"} /\ answer = "ok"
     \/ step = "completion" /\ (completion = "error" \/ (completion = "ok" /\ ~ finalMessage))
  /\ Clean(1)
  /\ UNCHANGED <<heard, untidy>> /\ Unchanged

\* Interrupted or not, its tabs are to be closed.
CloseTabs ==
  /\ step = "interrupt" /\ answer \in {"ok", "failed"}
  /\ UNCHANGED process
  /\ Ask("tabs")
  /\ tidied' = tidied \union {entry}
  /\ UNCHANGED <<heard, exitCode, visited, entry, interrupted, untidy>> /\ Unchanged

TabsClosed ==
  /\ step = "tabs" /\ answer \in {"ok", "failed"}
  /\ untidy' = IF answer = "failed" THEN untidy \union {entry} ELSE untidy
  /\ Clean(IF answer = "failed" THEN 1 ELSE exitCode)
  /\ UNCHANGED heard /\ Unchanged

-----------------------------------------------------------------------------

RunInit ==
  /\ checkOnly \in BOOLEAN
  /\ step \in Runs /\ answer = "asked"
  /\ IF step = "resume"
     THEN process = "none" /\ completion = "pending"
     ELSE process = "running" /\ completion \in {"pending", "error"} /\ ~ checkOnly
  /\ turns = <<>> /\ order = <<>> /\ finalMessage = FALSE
  /\ exitCode = 0 /\ visited = 0 /\ entry = <<>>
  /\ begun = [th \in Threads |-> 0]
  /\ ended = {} /\ interrupted = {} /\ tidied = {} /\ untidy = {} /\ late = {}

RunNext ==
  \/ \E result \in {"ok", "failed"} : Respond(result)
  \/ \E th \in Threads :
       \/ TurnBegins(th)
       \/ \E status \in Endings : TurnEnds(th, status)
  \/ FinalAnswer \/ UserNeeded \/ Stop
  \/ \E state \in {"exited", "none"} : ConnectionLost(state)
  \/ SetUp \/ Succeed \/ Throw \/ CloseTabs \/ TabsClosed

RunSpec == RunInit /\ [][RunNext]_runVars

-----------------------------------------------------------------------------
(* Properties.                                                             *)

RunTypeOK ==
  /\ step \in Setup \union {"completion", "interrupt", "tabs"} \union Over
  /\ answer \in {"asked", "ok", "failed"}
  /\ completion \in {"pending", "ok", "error"}
  /\ turns \in [Range(order) -> 1 .. MaxTurns + 1]
  /\ IsInjective(order) /\ visited <= Len(order)
  /\ tidied \union interrupted \subseteq Turn /\ untidy \subseteq tidied

(* How the run ends (run-job-search.ts:81-190): whatever happened while it *)
(* was set up, or while it cleaned up, no turn is left to itself - the     *)
(* tabs of every one, of the agents as well, were to be closed, unless its *)
(* thread began it after the loop had been there; a search that was        *)
(* stopped or failed was interrupted first; and the exit code is 0 only if *)
(* the search's own turn completed with an answer and all tabs are closed. *)
RunIsAccounted ==
  step = "closed" =>
    /\ \A th \in Threads \ late : begun[th] > 0 => <<th, begun[th]>> \in tidied
    /\ begun[Main] > 0 /\ completion = "error" => <<Main, 1>> \in interrupted
    /\ exitCode = 0 =>
         /\ untidy = {}
         /\ checkOnly \/ (<<Main, 1, "completed">> \in ended /\ finalMessage)

=============================================================================
