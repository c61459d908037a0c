----------------------------- MODULE ServerProofs ------------------------------
(***************************************************************************)
(* Theorems about a scheduled job search, from its launcher to the report  *)
(* it stores, about the descriptions that are copied for an import, and    *)
(* about a tracked application, for every set of agents, candidates,       *)
(* imports, copies, texts and events: however set-up, turns, signals,      *)
(* callbacks and the end of a process cross with the cleanup, in whatever  *)
(* order the commands of a search are run, and however the user's changes  *)
(* cross with the checks that save evidence,                               *)
(*   - a run accounts for every turn it has heard of;                      *)
(*   - a description is completed with the text that was copied for it;    *)
(*   - a report is what one judgment says of its candidates, and what      *)
(*     verifies has been stored;                                           *)
(*   - the timeline of an application tells what its records tell, and     *)
(*     evidence never takes an application back.                           *)
(***************************************************************************)
EXTENDS MCServer, JobPostsProofs,
        SequenceTheorems, FiniteSetTheorems, WellFoundedInduction, TLAPS

-----------------------------------------------------------------------------
(* The launcher of a search (JobSearchRun): the invariant.                 *)

\* The run has not come to its cleanup.
Working == Setup \union {"completion"}
Cleaning == {"interrupt", "tabs", "closed"}

\* A turn the run has heard of is the one that has begun last in its thread;
\* only that of the search may be heard of after it has begun.
TurnsHeard ==
  /\ begun \in [Threads -> 0 .. MaxTurns + 1] /\ begun[Main] \in {0, 1}
  /\ \A th \in DOMAIN turns : begun[th] > 0 /\ turns[th] = begun[th]
  /\ \A th \in Threads :
       begun[th] > 0 =>
         \/ th \in DOMAIN turns
         \/ th = Main /\ (step = "crashed" \/ (step = "turn" /\ answer = "ok"))
  /\ late \subseteq Threads

\* The turn of the search begins when the set-up ends; a check has none.
MainBegins ==
  /\ step \in Setup => (begun[Main] > 0 <=> step = "turn" /\ answer = "ok")
  /\ checkOnly => begun[Main] = 0 /\ step \notin {"turn", "completion"}
  /\ step = "status" => checkOnly
  /\ completion = "ok" => <<Main, 1, "completed">> \in ended

\* Of every thread the loop has been to, the tabs of the turn it found there
\* were to be closed, or it is being interrupted for that.
LoopVisits ==
  /\ step \in Working => visited = 0 /\ untidy = {} /\ exitCode = 0
  /\ \A i \in 1 .. visited :
       \/ step = "crashed" \/ order[i] \in late
       \/ <<order[i], turns[order[i]]>> \in tidied
       \/ step = "interrupt" /\ i = visited /\ entry = <<order[i], turns[order[i]]>>
  /\ step \in {"interrupt", "tabs"} => entry \in Turn
  /\ step = "tabs" => entry \in tidied
  /\ step = "closed" => visited = Len(order)

\* The exit code tells how the run ended, and whether the turns are to be
\* interrupted.
CodeTells ==
  /\ exitCode \in {0, 1}
  /\ untidy # {} /\ step \in Cleaning => exitCode = 1
  /\ step \in Cleaning /\ exitCode = 0 => checkOnly \/ (completion = "ok" /\ finalMessage)
  /\ step \in Cleaning /\ begun[Main] > 0 =>
       /\ completion # "pending"
       /\ completion = "error" =>
            /\ exitCode = 1
            /\ \A i \in 1 .. visited : order[i] = Main => <<Main, 1>> \in interrupted

RunInv ==
  /\ RunTypeOK /\ checkOnly \in BOOLEAN /\ finalMessage \in BOOLEAN
  /\ order \in Seq(Threads) /\ visited \in Nat
  /\ TurnsHeard /\ MainBegins /\ LoopVisits /\ CodeTells

LEMMA RunInvInit == RunInit => RunInv
<1>. SUFFICES ASSUME RunInit PROVE RunInv
  OBVIOUS
<1>1. DOMAIN turns = {} /\ Range(order) = {} /\ Len(order) = 0 /\ order \in Seq(Threads)
  BY DEF RunInit, Range
<1>2. RunTypeOK
  <2>1. turns \in [{} -> 1 .. MaxTurns + 1] /\ IsInjective(order)
    BY <1>1 DEF RunInit, IsInjective
  <2>. QED
    BY <1>1, <2>1, RunAssumption DEF RunInit, RunTypeOK, Setup
<1>3. begun \in [Threads -> 0 .. MaxTurns + 1] /\ Main \in Threads
  BY RunAssumption DEF RunInit, Threads
<1>4. TurnsHeard /\ MainBegins /\ LoopVisits /\ CodeTells
  BY <1>1, <1>3, RunAssumption
     DEF RunInit, TurnsHeard, MainBegins, LoopVisits, CodeTells, Cleaning, Setup
<1>. QED
  BY <1>1, <1>2, <1>4 DEF RunInit, RunInv

\* A turn that is noted: the loop comes to its thread once.
LEMMA NotedTurn ==
  ASSUME RunInv, NEW th \in Threads, NEW turn \in 1 .. MaxTurns + 1, TurnNoted(th, turn)
  PROVE  /\ order' \in Seq(Threads) /\ IsInjective(order')
         /\ turns' \in [Range(order') -> 1 .. MaxTurns + 1]
         /\ Len(order) \in Nat /\ Len(order') \in Nat /\ Len(order) <= Len(order')
         /\ \A i \in 1 .. Len(order) : order'[i] = order[i] /\ order[i] \in DOMAIN turns
         /\ DOMAIN turns' = DOMAIN turns \union {th}
         /\ turns'[th] = turn
         /\ \A u \in DOMAIN turns \ {th} : turns'[u] = turns[u]
<1>1. order \in Seq(Threads) /\ IsInjective(order) /\ turns \in [Range(order) -> 1 .. MaxTurns + 1]
  BY DEF RunInv, RunTypeOK
<1>2. Len(order) \in Nat /\ DOMAIN order = 1 .. Len(order)
  BY <1>1, LenProperties
<1>3. \A i \in 1 .. Len(order) : order[i] \in DOMAIN turns
  BY <1>1, <1>2 DEF Range
<1>4. /\ DOMAIN turns' = DOMAIN turns \union {th}
      /\ turns' \in [DOMAIN turns \union {th} -> 1 .. MaxTurns + 1]
      /\ turns'[th] = turn
      /\ \A u \in DOMAIN turns \ {th} : turns'[u] = turns[u]
  BY <1>1 DEF TurnNoted
<1>5. CASE th \in DOMAIN turns
  BY <1>1, <1>2, <1>3, <1>4, <1>5 DEF TurnNoted
<1>6. CASE th \notin DOMAIN turns
  <2>1. /\ order' = Append(order, th) /\ order' \in Seq(Threads)
        /\ Len(order') = Len(order) + 1
        /\ \A i \in 1 .. Len(order) : order'[i] = order[i]
        /\ order'[Len(order) + 1] = th
    BY <1>1, <1>6, AppendProperties DEF TurnNoted
  <2>2. DOMAIN order' = 1 .. Len(order) + 1 /\ 1 .. Len(order) + 1 = DOMAIN order \union {Len(order) + 1}
    BY <1>2, <2>1, LenProperties
  <2>3. Range(order') = Range(order) \union {th}
    BY <1>2, <2>1, <2>2 DEF Range
  <2>4. IsInjective(order')
    <3>1. \A i \in 1 .. Len(order) : order'[i] # th
      BY <1>3, <1>6, <2>1
    <3>. QED
      BY <1>1, <1>2, <2>1, <2>2, <3>1 DEF IsInjective
  <2>5. turns' \in [Range(order') -> 1 .. MaxTurns + 1]
    BY <1>1, <1>4, <2>3
  <2>. QED
    BY <1>2, <1>3, <1>4, <2>1, <2>4, <2>5
<1>. QED
  BY <1>5, <1>6

\* What the loop may come to.
LEMMA OrderFacts ==
  ASSUME RunInv
  PROVE  /\ Len(order) \in Nat /\ visited <= Len(order) /\ visited \in Nat
         /\ \A i \in 1 .. Len(order) :
              /\ order[i] \in DOMAIN turns /\ order[i] \in Threads
              /\ <<order[i], turns[order[i]]>> \in Turn
         /\ \A th \in DOMAIN turns : \E i \in 1 .. Len(order) : order[i] = th
<1>1. /\ order \in Seq(Threads) /\ turns \in [Range(order) -> 1 .. MaxTurns + 1]
      /\ visited <= Len(order) /\ visited \in Nat
  BY DEF RunInv, RunTypeOK
<1>2. /\ Len(order) \in Nat /\ DOMAIN order = 1 .. Len(order)
      /\ \A i \in 1 .. Len(order) : order[i] \in Threads
  BY <1>1, LenProperties
<1>. QED
  BY <1>1, <1>2 DEF Range, Turn

-----------------------------------------------------------------------------
(* The process and the signals keep the invariant.                         *)

LEMMA RespondKeepsInv ==
  ASSUME RunInv, NEW result \in {"ok", "failed"}, Respond(result)
  PROVE  RunInv'
<1>1. /\ UNCHANGED <<checkOnly, step, completion, turns, order, finalMessage, exitCode, visited,
                     entry, interrupted, tidied, untidy, process, ended, late>>
      /\ answer = "asked" /\ answer' = result
  BY DEF Respond, heard, cleanup
<1>2. RunTypeOK'
  BY <1>1 DEF RunInv, RunTypeOK
<1>3. \/ ~ (step = "turn" /\ result = "ok") /\ begun' = begun
      \/ step = "turn" /\ result = "ok" /\ begun' = [begun EXCEPT ![Main] = 1]
  BY DEF Respond
<1>4. Main \in Threads /\ 1 \in 0 .. MaxTurns + 1
  BY RunAssumption DEF Threads
<1>5. TurnsHeard' /\ MainBegins'
  <2>1. CASE ~ (step = "turn" /\ result = "ok") /\ begun' = begun
    BY <1>1, <2>1 DEF RunInv, TurnsHeard, MainBegins
  <2>2. CASE step = "turn" /\ result = "ok" /\ begun' = [begun EXCEPT ![Main] = 1]
    <3>1. begun[Main] = 0
      BY <1>1, <1>4, <2>2 DEF RunInv, TurnsHeard, MainBegins, Setup
    <3>2. begun' \in [Threads -> 0 .. MaxTurns + 1] /\ begun'[Main] = 1
          /\ \A th \in Threads \ {Main} : begun'[th] = begun[th]
      BY <1>4, <2>2 DEF RunInv, TurnsHeard
    <3>3. DOMAIN turns \subseteq Threads
      BY OrderFacts
    <3>4. Main \notin DOMAIN turns
      BY <3>1 DEF RunInv, TurnsHeard
    <3>. QED
      BY <1>1, <2>2, <3>1, <3>2, <3>3, <3>4 DEF RunInv, TurnsHeard, MainBegins, Setup
  <2>. QED
    BY <1>3, <2>1, <2>2
<1>6. LoopVisits'
  BY <1>1 DEF RunInv, LoopVisits
<1>7. CodeTells'
  BY <1>1, <1>3 DEF RunInv, CodeTells, Cleaning
<1>. QED
  BY <1>1, <1>2, <1>5, <1>6, <1>7 DEF RunInv

LEMMA TurnBeginsKeepsInv ==
  ASSUME RunInv, NEW th \in Threads, TurnBegins(th)
  PROVE  RunInv'
<1>1. /\ UNCHANGED <<checkOnly, step, answer, completion, finalMessage, exitCode, visited, entry,
                     interrupted, tidied, untidy, process, ended>>
      /\ th \in Agents /\ th # Main /\ step \notin Over /\ begun[Main] = 1
      /\ begun[th] < MaxTurns /\ begun' = [begun EXCEPT ![th] = @ + 1]
  BY RunAssumption DEF TurnBegins, Reads, cleanup
<1>2. begun[th] \in Nat /\ begun[th] + 1 \in 1 .. MaxTurns + 1 /\ begun'[th] = begun[th] + 1
      /\ begun' \in [Threads -> 0 .. MaxTurns + 1]
      /\ \A u \in Threads \ {th} : begun'[u] = begun[u]
  BY <1>1, RunAssumption DEF RunInv, TurnsHeard
<1>3. TurnNoted(th, begun[th] + 1)
  BY <1>2 DEF TurnBegins
<1>4. /\ order' \in Seq(Threads) /\ IsInjective(order')
      /\ turns' \in [Range(order') -> 1 .. MaxTurns + 1]
      /\ Len(order) \in Nat /\ Len(order') \in Nat /\ Len(order) <= Len(order')
      /\ \A i \in 1 .. Len(order) : order'[i] = order[i] /\ order[i] \in DOMAIN turns
      /\ DOMAIN turns' = DOMAIN turns \union {th} /\ turns'[th] = begun[th] + 1
      /\ \A u \in DOMAIN turns \ {th} : turns'[u] = turns[u]
  BY <1>2, <1>3, NotedTurn
<1>5. visited \in Nat /\ visited <= Len(order) /\ 1 .. visited \subseteq 1 .. Len(order)
  BY OrderFacts
<1>6. /\ late \subseteq late' /\ late' \subseteq Threads
      /\ \A i \in 1 .. visited : order[i] = th => th \in late'
  <2>1. late \subseteq Threads
    BY DEF RunInv, TurnsHeard
  <2>. QED
    BY <2>1 DEF TurnBegins
<1>7. RunTypeOK'
  BY <1>1, <1>4, <1>5 DEF RunInv, RunTypeOK
<1>8. TurnsHeard'
  <2>1. DOMAIN turns \subseteq Threads
    BY OrderFacts
  <2>2. Main \in Threads /\ begun'[Main] = begun[Main]
    BY <1>1, <1>2 DEF Threads
  <2>3. ASSUME NEW u \in DOMAIN turns'
        PROVE  begun'[u] > 0 /\ turns'[u] = begun'[u]
    <3>1. CASE u = th
      BY <1>2, <1>4, <3>1
    <3>2. CASE u # th
      BY <1>2, <1>4, <2>1, <3>2 DEF RunInv, TurnsHeard
    <3>. QED
      BY <3>1, <3>2
  <2>4. ASSUME NEW u \in Threads, begun'[u] > 0
        PROVE  \/ u \in DOMAIN turns'
               \/ u = Main /\ (step = "crashed" \/ (step = "turn" /\ answer = "ok"))
    <3>1. CASE u = th
      BY <1>4, <3>1
    <3>2. CASE u # th
      BY <1>2, <1>4, <2>4, <3>2 DEF RunInv, TurnsHeard
    <3>. QED
      BY <3>1, <3>2
  <2>. QED
    BY <1>1, <1>2, <1>6, <2>2, <2>3, <2>4 DEF RunInv, TurnsHeard
<1>9. begun'[Main] = begun[Main]
  BY <1>1, <1>2 DEF Threads
<1>10. MainBegins'
  BY <1>1, <1>9 DEF RunInv, MainBegins
<1>11. LoopVisits'
  <2>1. ASSUME NEW i \in 1 .. visited
        PROVE  \/ step = "crashed" \/ order'[i] \in late'
               \/ <<order'[i], turns'[order'[i]]>> \in tidied
               \/ step = "interrupt" /\ i = visited /\ entry = <<order'[i], turns'[order'[i]]>>
    <3>1. order'[i] = order[i] /\ order[i] \in DOMAIN turns
      BY <1>4, <1>5
    <3>2. CASE order[i] = th
      BY <1>6, <3>1, <3>2
    <3>3. CASE order[i] # th
      BY <1>4, <1>6, <3>1, <3>3 DEF RunInv, LoopVisits
    <3>. QED
      BY <3>2, <3>3
  <2>. QED
    BY <1>1, <2>1 DEF RunInv, LoopVisits, Over
<1>12. CodeTells'
  <2>1. \A i \in 1 .. visited : order'[i] = order[i]
    BY <1>4, <1>5
  <2>. QED
    BY <1>1, <1>9, <2>1 DEF RunInv, CodeTells
<1>. QED
  BY <1>1, <1>4, <1>7, <1>8, <1>10, <1>11, <1>12 DEF RunInv

\* The end of a turn that has begun: its thread is heard of by then, unless
\* it is the search's own, which the script has not been told of.
LEMMA TurnEndsKeepsInv ==
  ASSUME RunInv, NEW th \in Threads, NEW status \in Endings, TurnEnds(th, status)
  PROVE  RunInv'
<1>1. /\ UNCHANGED <<checkOnly, step, answer, finalMessage, exitCode, visited, entry,
                     interrupted, tidied, untidy, process, begun, late>>
      /\ ended' = ended \union {<<th, begun[th], status>>}
      /\ completion' = IF th = Main THEN Settled(IF status = "completed" THEN "ok" ELSE "error")
                       ELSE completion
      /\ step \notin Over /\ begun[th] > 0 /\ TurnNoted(th, begun[th])
  BY DEF TurnEnds, Ends, Reads, Works, cleanup
<1>2. begun[th] \in 1 .. MaxTurns + 1
  BY <1>1, RunAssumption DEF RunInv, TurnsHeard
<1>3. /\ order' \in Seq(Threads) /\ IsInjective(order')
      /\ turns' \in [Range(order') -> 1 .. MaxTurns + 1]
      /\ Len(order) \in Nat /\ Len(order') \in Nat /\ Len(order) <= Len(order')
      /\ \A i \in 1 .. Len(order) : order'[i] = order[i] /\ order[i] \in DOMAIN turns
      /\ DOMAIN turns' = DOMAIN turns \union {th} /\ turns'[th] = begun[th]
      /\ \A u \in DOMAIN turns \ {th} : turns'[u] = turns[u]
  BY <1>1, <1>2, NotedTurn
<1>4. \A u \in DOMAIN turns : turns'[u] = turns[u]
  BY <1>3 DEF RunInv, TurnsHeard
<1>5. visited \in Nat /\ visited <= Len(order) /\ 1 .. visited \subseteq 1 .. Len(order)
  BY OrderFacts
<1>6. completion' \in {"pending", "ok", "error"} /\ (completion # "pending" => completion' = completion)
  BY <1>1 DEF RunInv, RunTypeOK, Settled
<1>7. RunTypeOK'
  BY <1>1, <1>3, <1>5, <1>6 DEF RunInv, RunTypeOK
<1>8. TurnsHeard'
  BY <1>1, <1>2, <1>3, <1>4 DEF RunInv, TurnsHeard
<1>9. MainBegins'
  <2>1. completion' = "ok" => completion = "ok" \/ (th = Main /\ status = "completed")
    BY <1>1 DEF Settled, RunInv, RunTypeOK
  <2>2. th = Main => begun[th] = 1
    BY <1>1 DEF RunInv, TurnsHeard
  <2>. QED
    BY <1>1, <2>1, <2>2 DEF RunInv, MainBegins
<1>10. LoopVisits'
  <2>1. \A i \in 1 .. visited : order'[i] = order[i] /\ turns'[order'[i]] = turns[order[i]]
    BY <1>3, <1>4, <1>5
  <2>. QED
    BY <1>1, <2>1 DEF RunInv, LoopVisits, Over
<1>11. CodeTells'
  <2>1. \A i \in 1 .. visited : order'[i] = order[i]
    BY <1>3, <1>5
  <2>2. step \in Cleaning /\ begun[Main] > 0 => completion' = completion
    BY <1>6 DEF RunInv, CodeTells
  <2>3. completion = "ok" => completion' = "ok"
    BY <1>6
  <2>. QED
    BY <1>1, <2>1, <2>2, <2>3 DEF RunInv, CodeTells
<1>. QED
  BY <1>1, <1>3, <1>7, <1>8, <1>9, <1>10, <1>11 DEF RunInv

\* What happens beside the turns: a final answer, a request that needs a user,
\* a signal, the loss of the connection.
LEMMA EventKeepsInv ==
  ASSUME RunInv,
         FinalAnswer \/ UserNeeded \/ Stop
           \/ (\E state \in {"exited", "none"} : ConnectionLost(state))
  PROVE  RunInv'
<1>1. /\ UNCHANGED <<checkOnly, turns, order, exitCode, visited, entry, interrupted, tidied,
                     untidy, begun, ended, late>>
      /\ finalMessage' \in BOOLEAN /\ (finalMessage => finalMessage')
      /\ completion' = completion \/ (completion = "pending" /\ completion' = "error")
      /\ step' = step \/ step' = "crashed"
      /\ answer' = answer \/ (answer = "asked" /\ answer' = "failed")
  BY DEF FinalAnswer, UserNeeded, Stop, ConnectionLost, Settled, Lost, heard, cleanup, world,
         RunInv
<1>2. RunTypeOK'
  BY <1>1 DEF RunInv, RunTypeOK, Over
<1>3. TurnsHeard'
  BY <1>1 DEF RunInv, TurnsHeard
<1>4. MainBegins'
  BY <1>1 DEF RunInv, MainBegins, Setup
<1>5. LoopVisits'
  BY <1>1 DEF RunInv, LoopVisits, Working, Setup
<1>6. CodeTells'
  BY <1>1 DEF RunInv, CodeTells, Cleaning
<1>. QED
  BY <1>1, <1>2, <1>3, <1>4, <1>5, <1>6 DEF RunInv

-----------------------------------------------------------------------------
(* The script keeps the invariant.                                         *)

LEMMA SetUpKeepsInv ==
  ASSUME RunInv, SetUp
  PROVE  RunInv'
<1>1. /\ UNCHANGED <<checkOnly, completion, finalMessage, exitCode, visited, entry, interrupted,
                     tidied, untidy, begun, ended, late>>
      /\ answer = "ok" /\ step \in Setup
  BY DEF SetUp, cleanup, Unchanged
<1>2. visited = 0
  BY <1>1 DEF RunInv, LoopVisits, Working
<1>3. CASE step = "turn" /\ step' = "completion" /\ TurnNoted(Main, 1)
  <2>1. Main \in Threads /\ 1 \in 1 .. MaxTurns + 1
    BY RunAssumption DEF Threads
  <2>2. /\ order' \in Seq(Threads) /\ IsInjective(order')
        /\ turns' \in [Range(order') -> 1 .. MaxTurns + 1]
        /\ DOMAIN turns' = DOMAIN turns \union {Main} /\ turns'[Main] = 1
        /\ \A u \in DOMAIN turns \ {Main} : turns'[u] = turns[u]
        /\ Len(order') \in Nat
    BY <1>3, <2>1, NotedTurn
  <2>3. begun[Main] = 1
    BY <1>1, <1>3 DEF RunInv, MainBegins, TurnsHeard
  <2>4. answer' = "asked"
    BY <1>3 DEF SetUp, Ask
  <2>5. RunTypeOK'
    BY <1>1, <1>2, <1>3, <2>2, <2>4 DEF RunInv, RunTypeOK
  <2>6. TurnsHeard'
    BY <1>1, <1>3, <2>2, <2>3 DEF RunInv, TurnsHeard
  <2>7. MainBegins'
    BY <1>1, <1>3 DEF RunInv, MainBegins, Setup
  <2>8. LoopVisits' /\ CodeTells'
    BY <1>1, <1>2, <1>3 DEF RunInv, LoopVisits, CodeTells, Working, Cleaning, Setup
  <2>. QED
    BY <1>1, <1>2, <2>2, <2>5, <2>6, <2>7, <2>8 DEF RunInv
<1>4. CASE /\ step # "turn" /\ UNCHANGED <<turns, order>>
           /\ step' \in {"initialize", "thread", "status", "turn"} /\ answer' \in {"asked", "failed"}
           /\ step' = "status" => checkOnly
           /\ step' = "turn" => ~ checkOnly
  <2>1. begun[Main] = 0
    BY <1>1, <1>4 DEF RunInv, MainBegins, TurnsHeard
  <2>2. RunTypeOK'
    BY <1>1, <1>4 DEF RunInv, RunTypeOK, Setup
  <2>3. TurnsHeard' /\ MainBegins'
    BY <1>1, <1>4, <2>1 DEF RunInv, TurnsHeard, MainBegins, Setup
  <2>4. LoopVisits' /\ CodeTells'
    BY <1>1, <1>2, <1>4 DEF RunInv, LoopVisits, CodeTells, Working, Cleaning, Setup
  <2>. QED
    BY <1>1, <1>2, <1>4, <2>2, <2>3, <2>4 DEF RunInv
<1>. QED
  BY <1>3, <1>4 DEF SetUp, Ask

\* The loop goes on, or the connection is closed.
LEMMA CleanKeepsInv ==
  ASSUME RunInv, NEW code \in {0, 1}, Clean(code),
         UNCHANGED <<checkOnly, turns, order, completion, finalMessage, begun, ended, late>>,
         step \in Working \union {"tabs"}, step = "turn" => begun[Main] = 0,
         untidy' \in {untidy, untidy \union {entry}},
         untidy' # {} => step = "tabs" /\ code = 1,
         code = 0 => checkOnly \/ (completion = "ok" /\ finalMessage),
         begun[Main] > 0 =>
           /\ completion # "pending"
           /\ completion = "error" =>
                /\ code = 1
                /\ \A i \in 1 .. visited : order[i] = Main => <<Main, 1>> \in interrupted
  PROVE  RunInv'
<1>. DEFINE th == order[visited + 1]
            turn == <<th, turns[th]>>
<1>1. /\ Len(order) \in Nat /\ visited <= Len(order) /\ visited \in Nat
      /\ \A i \in 1 .. Len(order) :
           order[i] \in DOMAIN turns /\ <<order[i], turns[order[i]]>> \in Turn
  BY OrderFacts
<1>2. \A i \in 1 .. visited : order[i] \in late \/ <<order[i], turns[order[i]]>> \in tidied
  BY DEF RunInv, LoopVisits, Working, Setup
<1>3. untidy \subseteq tidied /\ tidied \union interrupted \subseteq Turn
      /\ untidy' \subseteq tidied
  BY DEF RunInv, RunTypeOK, LoopVisits
<1>4. CASE visited = Len(order)
  <2>1. /\ step' = "closed" /\ exitCode' = code
        /\ UNCHANGED <<answer, visited, entry, interrupted, tidied>>
    BY <1>4 DEF Clean
  <2>2. RunTypeOK'
    BY <1>1, <1>3, <2>1 DEF RunInv, RunTypeOK, Over
  <2>3. TurnsHeard' /\ MainBegins'
    BY <2>1 DEF RunInv, TurnsHeard, MainBegins, Setup, Working
  <2>4. LoopVisits'
    BY <1>2, <1>4, <2>1 DEF RunInv, LoopVisits, Working, Setup
  <2>5. CodeTells'
    BY <2>1 DEF CodeTells, Cleaning
  <2>. QED
    BY <1>1, <2>1, <2>2, <2>3, <2>4, <2>5 DEF RunInv
<1>5. CASE visited # Len(order)
  <2>1. visited + 1 \in 1 .. Len(order) /\ visited + 1 \in Nat /\ turn \in Turn
        /\ \A i \in 1 .. visited + 1 : i \in 1 .. visited \/ i = visited + 1
    <3>1. visited + 1 \in 1 .. Len(order) /\ visited + 1 \in Nat
      BY <1>1, <1>5
    <3>2. turn \in Turn
      BY <1>1, <3>1
    <3>3. ASSUME NEW i \in 1 .. visited + 1
          PROVE  i \in 1 .. visited \/ i = visited + 1
      BY <1>1, <3>3
    <3>. QED
      BY <3>1, <3>2, <3>3
  <2>2. /\ exitCode' = code /\ visited' = visited + 1 /\ entry' = turn
        /\ answer' \in {"asked", "failed"}
        /\ \/ /\ code = 1 /\ step' = "interrupt"
              /\ interrupted' = interrupted \union {turn} /\ tidied' = tidied
           \/ /\ code = 0 /\ step' = "tabs"
              /\ tidied' = tidied \union {turn} /\ interrupted' = interrupted
    BY <1>5 DEF Clean, Ask, Failed
  <2>. HIDE DEF turn
  <2>3. RunTypeOK'
    BY <1>1, <1>3, <2>1, <2>2 DEF RunInv, RunTypeOK
  <2>4. TurnsHeard' /\ MainBegins'
    BY <2>2 DEF RunInv, TurnsHeard, MainBegins, Setup, Working
  <2>5. LoopVisits'
    <3>1. ASSUME NEW i \in 1 .. visited + 1
          PROVE  \/ order[i] \in late \/ <<order[i], turns[order[i]]>> \in tidied'
                 \/ step' = "interrupt" /\ i = visited' /\ entry' = <<order[i], turns[order[i]]>>
      <4>1. CASE i \in 1 .. visited
        BY <1>2, <2>2, <4>1
      <4>2. CASE i = visited + 1
        BY <2>2, <4>2 DEF turn
      <4>. QED
        BY <2>1, <4>1, <4>2
    <3>2. entry' \in Turn /\ (step' = "tabs" => entry' \in tidied') /\ step' \notin Working
          /\ step' # "closed"
      BY <2>1, <2>2 DEF Working, Setup
    <3>. QED
      BY <2>2, <3>1, <3>2 DEF LoopVisits
  <2>6. CodeTells'
    <3>1. ASSUME begun[Main] > 0, completion = "error", NEW i \in 1 .. visited + 1, order[i] = Main
          PROVE  <<Main, 1>> \in interrupted'
      <4>1. CASE i \in 1 .. visited
        BY <2>2, <3>1, <4>1
      <4>2. CASE i = visited + 1
        <5>1. order[i] \in DOMAIN turns /\ turn = <<Main, turns[Main]>>
          BY <1>1, <2>1, <3>1, <4>2 DEF turn
        <5>2. turns[Main] = 1
          BY <3>1, <5>1 DEF RunInv, TurnsHeard
        <5>. QED
          BY <2>2, <3>1, <5>1, <5>2
      <4>. QED
        BY <2>1, <4>1, <4>2
    <3>. QED
      BY <2>2, <3>1 DEF CodeTells, Cleaning
  <2>. QED
    BY <2>1, <2>2, <2>3, <2>4, <2>5, <2>6 DEF RunInv
<1>. QED
  BY <1>4, <1>5

LEMMA ScriptKeepsInv ==
  ASSUME RunInv, Succeed \/ Throw \/ TabsClosed
  PROVE  RunInv'
<1>1. UNCHANGED <<checkOnly, turns, order, completion, finalMessage, begun, ended, late>>
  BY DEF Succeed, Throw, TabsClosed, heard, Unchanged
<1>2. step \in Working => untidy = {} /\ visited = 0
  BY DEF RunInv, LoopVisits
<1>3. CASE Succeed
  <2>1. step \in Working /\ step # "turn" /\ untidy' = untidy /\ Clean(0)
        /\ (checkOnly \/ (completion = "ok" /\ finalMessage))
        /\ (begun[Main] > 0 => completion = "ok")
    BY <1>3 DEF Succeed, Working, Setup, RunInv, MainBegins
  <2>. QED
    BY <1>1, <1>2, <2>1, CleanKeepsInv DEF Working, Setup
<1>4. CASE Throw
  <2>1. step \in Working /\ untidy' = untidy /\ Clean(1) /\ (step = "turn" => begun[Main] = 0)
        /\ (begun[Main] > 0 => completion # "pending")
    BY <1>4, <1>2 DEF Throw, Working, Setup, RunInv, MainBegins, TurnsHeard
  <2>. QED
    BY <1>1, <1>2, <2>1, CleanKeepsInv
<1>5. CASE TabsClosed
  <2>. DEFINE code == IF answer = "failed" THEN 1 ELSE exitCode
  <2>1. step = "tabs" /\ Clean(code) /\ code \in {0, 1}
        /\ untidy' = (IF answer = "failed" THEN untidy \union {entry} ELSE untidy)
    BY <1>5 DEF TabsClosed, RunInv, CodeTells
  <2>2. (untidy' # {} => code = 1)
        /\ (code = 0 => checkOnly \/ (completion = "ok" /\ finalMessage))
        /\ (begun[Main] > 0 =>
             /\ completion # "pending"
             /\ completion = "error" =>
                  /\ code = 1
                  /\ \A i \in 1 .. visited : order[i] = Main => <<Main, 1>> \in interrupted)
    BY <2>1 DEF RunInv, CodeTells, Cleaning
  <2>. HIDE DEF code
  <2>. QED
    BY <1>1, <2>1, <2>2, CleanKeepsInv
<1>. QED
  BY <1>3, <1>4, <1>5

LEMMA CloseTabsKeepsInv ==
  ASSUME RunInv, CloseTabs
  PROVE  RunInv'
<1>1. /\ UNCHANGED <<checkOnly, turns, order, completion, finalMessage, exitCode, visited, entry,
                     interrupted, untidy, begun, ended, late>>
      /\ step = "interrupt" /\ step' = "tabs" /\ answer' \in {"asked", "failed"}
      /\ tidied' = tidied \union {entry}
  BY DEF CloseTabs, Ask, heard, Unchanged
<1>2. RunTypeOK'
  BY <1>1 DEF RunInv, RunTypeOK, LoopVisits
<1>3. TurnsHeard' /\ MainBegins'
  BY <1>1 DEF RunInv, TurnsHeard, MainBegins, Setup
<1>4. LoopVisits'
  BY <1>1 DEF RunInv, LoopVisits, Working, Setup
<1>5. CodeTells'
  BY <1>1 DEF RunInv, CodeTells, Cleaning
<1>. QED
  BY <1>1, <1>2, <1>3, <1>4, <1>5 DEF RunInv

LEMMA RunInvStep == RunInv /\ [RunNext]_runVars => RunInv'
<1>. SUFFICES ASSUME RunInv, [RunNext]_runVars PROVE RunInv'
  OBVIOUS
<1>1. ASSUME NEW result \in {"ok", "failed"}, Respond(result)
      PROVE  RunInv'
  BY <1>1, RespondKeepsInv
<1>2. ASSUME NEW th \in Threads,
             TurnBegins(th) \/ \E status \in Endings : TurnEnds(th, status)
      PROVE  RunInv'
  BY <1>2, TurnBeginsKeepsInv, TurnEndsKeepsInv
<1>3. CASE FinalAnswer \/ UserNeeded \/ Stop
             \/ (\E state \in {"exited", "none"} : ConnectionLost(state))
  BY <1>3, EventKeepsInv
<1>4. CASE SetUp
  BY <1>4, SetUpKeepsInv
<1>5. CASE Succeed \/ Throw \/ TabsClosed
  BY <1>5, ScriptKeepsInv
<1>6. CASE CloseTabs
  BY <1>6, CloseTabsKeepsInv
<1>7. CASE UNCHANGED runVars
  <2>1. RunTypeOK'
    BY <1>7 DEF runVars, RunInv, RunTypeOK
  <2>2. TurnsHeard' /\ MainBegins'
    BY <1>7 DEF runVars, RunInv, TurnsHeard, MainBegins
  <2>3. LoopVisits' /\ CodeTells'
    BY <1>7 DEF runVars, RunInv, LoopVisits, CodeTells
  <2>. QED
    BY <1>7, <2>1, <2>2, <2>3 DEF runVars, RunInv
<1>. QED
  BY <1>1, <1>2, <1>3, <1>4, <1>5, <1>6, <1>7 DEF RunNext

LEMMA RunInvariant == RunSpec => []RunInv
BY RunInvInit, RunInvStep, PTL DEF RunSpec

-----------------------------------------------------------------------------
(* The theorems.                                                           *)

(* The loop over the turns comes to a thread once, and only to turns the   *)
(* script has heard of, though turns are added while it runs.              *)
THEOREM RunTypeCorrect == RunSpec => []RunTypeOK
<1>1. RunInv => RunTypeOK
  BY DEF RunInv
<1>. QED
  BY <1>1, RunInvariant, PTL

(* When the connection is closed every turn is accounted for: its tabs     *)
(* were to be closed unless it began after the loop had been to its        *)
(* thread, a search that failed was interrupted, and the exit code is 0    *)
(* only after an answer and a cleanup without an error.                    *)
THEOREM TurnsAreAccounted == RunSpec => []RunIsAccounted
<1>1. RunInv => RunIsAccounted
  <2>. SUFFICES ASSUME RunInv, step = "closed" PROVE RunIsAccounted
    BY DEF RunIsAccounted
  <2>1. visited = Len(order) /\ Main \in Threads
    BY DEF RunInv, LoopVisits, Threads
  <2>2. ASSUME NEW th \in Threads, begun[th] > 0
        PROVE  /\ th \in DOMAIN turns /\ turns[th] = begun[th]
               /\ \E i \in 1 .. visited : order[i] = th
    BY <2>1, <2>2, OrderFacts DEF RunInv, TurnsHeard
  <2>3. \A i \in 1 .. visited : order[i] \in late \/ <<order[i], turns[order[i]]>> \in tidied
    BY DEF RunInv, LoopVisits
  <2>4. ASSUME NEW th \in Threads \ late, begun[th] > 0
        PROVE  <<th, begun[th]>> \in tidied
    BY <2>2, <2>3, <2>4
  <2>5. begun[Main] > 0 /\ completion = "error" => <<Main, 1>> \in interrupted
    BY <2>1, <2>2 DEF RunInv, CodeTells, Cleaning
  <2>6. exitCode = 0 => /\ untidy = {}
                        /\ checkOnly \/ (<<Main, 1, "completed">> \in ended /\ finalMessage)
    BY DEF RunInv, CodeTells, MainBegins, Cleaning
  <2>. QED
    BY <2>4, <2>5, <2>6 DEF RunIsAccounted
<1>. QED
  BY <1>1, RunInvariant, PTL

-----------------------------------------------------------------------------
(* Copied descriptions (DescriptionCapture): the invariant.                *)

\* How the parts of a thread agree.
ThreadSound(i) ==
  /\ imports[i].runs => imports[i].turn # 0
  /\ imports[i].start \in {"none", "asked"} => ~ imports[i].runs
  /\ imports[i].start = "answered" => imports[i].turn = 1
  /\ imports[i].turn = 2 => imports[i].start = "started"
  /\ imports[i].interrupt # "none" => imports[i].start = "started"

\* A thread has captures while its import is under way, and perhaps when its
\* turn has ended before startTask went on; they are calls for this thread
\* that have copied a text and told the agent.
CapturesSound(i) ==
  /\ UnderWay(i) => captures[i] # Null
  /\ captures[i] # Null =>
       /\ Ready
       /\ imports[i].start = "started" /\ imports[i].interrupt # "done"
       /\ \A c \in captures[i] :
            copies[c].thread = i /\ copies[c].step = "told" /\ copies[c].text # Null

\* A call that waits for the browser, or is about to go on, began while the
\* import was under way: if there still are captures, it still is.  What the
\* agent was told remains captured as long as it is.
CopySound(c) ==
  LET i == copies[c].thread
  IN  /\ copies[c].step \in {"reading", "read", "told"} =>
           i \in Imports /\ imports[i].start = "started"
      /\ copies[c].step \in {"reading", "read"} /\ captures[i] # Null => UnderWay(i)
      /\ copies[c].step = "told" /\ UnderWay(i) => c \in captures[i]

CaptureInv ==
  /\ CaptureTypeOK
  /\ \A i \in Imports : ThreadSound(i) /\ CapturesSound(i)
  /\ \A c \in Copies : CopySound(c)

LEMMA CaptureInvInit == CaptureInit => CaptureInv
<1>. SUFFICES ASSUME CaptureInit PROVE CaptureInv
  OBVIOUS
<1>1. CaptureTypeOK
  BY DEF CaptureInit, CaptureTypeOK, Thread, Copy
<1>2. ASSUME NEW i \in Imports
      PROVE  ThreadSound(i) /\ CapturesSound(i)
  <2>1. /\ imports[i].start = "none" /\ imports[i].turn = 0
        /\ imports[i].runs = FALSE /\ imports[i].interrupt = "none"
        /\ captures[i] = Null
    BY DEF CaptureInit
  <2>. QED
    BY <2>1 DEF ThreadSound, CapturesSound, UnderWay
<1>3. \A c \in Copies : CopySound(c)
  BY DEF CaptureInit, CopySound
<1>. QED
  BY <1>1, <1>2, <1>3 DEF CaptureInv

\* The actions of a thread and of a call, by what they may change.
ThreadStep ==
  \E i \in Imports :
    \/ StartImport(i) \/ TurnAnswered(i) \/ TurnRefused(i) \/ ImportStarted(i)
    \/ FollowUp(i) \/ TurnCompleted(i) \/ Interrupt(i) \/ InterruptEnds(i)
    \/ \E ok \in BOOLEAN : InterruptAnswered(i, ok)

CopyStep ==
  \E c \in Copies :
    \/ \E i \in Imports : AskCapture(i, c)
    \/ CaptureEnds(c)
    \/ \E text \in Texts \union {Null} : BrowserAnswers(c, text)

MessageStep ==
  \E i \in Imports, c \in Copies, url \in Urls : FinalMessage(i, c, url)

LEMMA CaptureCases ==
  CaptureNext => ThreadStep \/ CopyStep \/ MessageStep \/ ProcessExits \/ ConnectionEnds
BY DEF CaptureNext, ThreadStep, CopyStep, MessageStep

-----------------------------------------------------------------------------
(* The steps of a thread.  What one changes is written as a record of the  *)
(* thread and a value of its captures: the rest follows from these.        *)

\* Thread i becomes r and its captures become set, and nothing else changes.
ThreadGoes(i, r, set) ==
  /\ imports' = [imports EXCEPT ![i] = r]
  /\ captures' = [captures EXCEPT ![i] = set]
  /\ UNCHANGED <<runtime, copies>>
  /\ message' = Null

\* What may become of a thread that its captures do not depend on.
LEMMA ThreadGoesSafely ==
  ASSUME CaptureInv, NEW i \in Imports, NEW r \in Thread,
         NEW set \in (SUBSET Copies) \union {Null}, ThreadGoes(i, r, set),
         ThreadSound(i)', CapturesSound(i)',
         imports[i].start = "started" => r.start = "started",
         UnderWay(i)' => UnderWay(i) \/ imports[i].start # "started",
         set # Null => set = captures[i] \/ imports[i].start # "started",
         captures[i] # Null /\ UnderWay(i) => UnderWay(i)' \/ set = Null
  PROVE  CaptureInv'
<1>1. CaptureTypeOK'
  BY DEF CaptureInv, CaptureTypeOK, ThreadGoes
<1>2. ASSUME NEW j \in Imports, j # i
      PROVE  /\ imports'[j] = imports[j] /\ captures'[j] = captures[j]
             /\ UnderWay(j)' <=> UnderWay(j)
  BY <1>2 DEF CaptureInv, CaptureTypeOK, ThreadGoes, UnderWay, Ready
<1>3. /\ imports'[i] = r /\ captures'[i] = set
      /\ copies' = copies /\ runtime' = runtime
  BY DEF CaptureInv, CaptureTypeOK, ThreadGoes
<1>4. ASSUME NEW j \in Imports
      PROVE  ThreadSound(j)' /\ CapturesSound(j)'
  BY <1>2, <1>3 DEF CaptureInv, ThreadSound, CapturesSound, Ready
<1>5. ASSUME NEW c \in Copies
      PROVE  CopySound(c)'
  <2>1. CopySound(c)
    BY DEF CaptureInv
  <2>2. CASE copies[c].thread \in Imports \ {i}
    BY <1>2, <1>3, <2>1, <2>2 DEF CopySound
  <2>3. CASE copies[c].thread = i
    <3>1. UnderWay(i) => captures[i] # Null
      BY DEF CaptureInv, CapturesSound
    <3>2. UnderWay(i)' => set # Null
      BY <1>3 DEF CapturesSound
    <3>. QED
      BY <1>3, <2>1, <2>3, <3>1, <3>2 DEF CopySound, UnderWay, Ready
  <2>4. CASE copies[c].thread \notin Imports
    BY <1>3, <2>1, <2>4 DEF CopySound
  <2>. QED
    BY <2>2, <2>3, <2>4
<1>. QED
  BY <1>1, <1>4, <1>5 DEF CaptureInv

\* A turn of a thread begins.
LEMMA BegunIsThread ==
  ASSUME NEW x \in Thread
  PROVE  /\ [x EXCEPT !.turn = 2, !.runs = TRUE] \in Thread
         /\ [x EXCEPT !.start = "answered", !.turn = 1, !.runs = TRUE] \in Thread
<1>1. \A y \in Thread : [y EXCEPT !.runs = TRUE] \in Thread
  BY DEF Thread
<1>2. \A y \in Thread : /\ [y EXCEPT !.turn = 1] \in Thread
                       /\ [y EXCEPT !.turn = 2] \in Thread
  BY DEF Thread
<1>3. [x EXCEPT !.start = "answered"] \in Thread
  BY DEF Thread
<1>. QED
  BY <1>1, <1>2, <1>3

\* Every step of a thread is one of these.
LEMMA ThreadStepKeepsInv ==
  ASSUME CaptureInv, ThreadStep
  PROVE  CaptureInv'
<1>. PICK i \in Imports :
       \/ StartImport(i) \/ TurnAnswered(i) \/ TurnRefused(i) \/ ImportStarted(i)
       \/ FollowUp(i) \/ TurnCompleted(i) \/ Interrupt(i) \/ InterruptEnds(i)
       \/ \E ok \in BOOLEAN : InterruptAnswered(i, ok)
  BY DEF ThreadStep
<1>. DEFINE r == imports'[i]
            set == captures'[i]
<1>1. /\ ThreadSound(i) /\ CapturesSound(i) /\ CaptureTypeOK
      /\ imports[i] \in Thread /\ captures[i] \in (SUBSET Copies) \union {Null}
  BY DEF CaptureInv, CaptureTypeOK
<1>2. /\ ThreadGoes(i, r, set)
      /\ r \in Thread /\ set \in (SUBSET Copies) \union {Null}
  <2>1. CASE StartImport(i)
    BY <1>1, <2>1 DEF StartImport, ThreadGoes, CaptureTypeOK, Thread, Silent
  <2>2. CASE TurnAnswered(i)
    <3>. DEFINE next == [imports[i] EXCEPT !.start = "answered", !.turn = 1, !.runs = TRUE]
    <3>1. next \in Thread
      BY <1>1, BegunIsThread
    <3>2. r = next /\ set = captures[i]
      BY <1>1, <2>2 DEF TurnAnswered, CaptureTypeOK
    <3>3. ThreadGoes(i, r, set)
      BY <1>1, <2>2 DEF TurnAnswered, ThreadGoes, CaptureTypeOK, Silent
    <3>. QED
      BY <1>1, <3>1, <3>2, <3>3
  <2>3. CASE TurnRefused(i)
    BY <1>1, <2>3 DEF TurnRefused, ThreadGoes, CaptureTypeOK, Thread, Silent
  <2>4. CASE ImportStarted(i)
    BY <1>1, <2>4 DEF ImportStarted, ThreadGoes, CaptureTypeOK, Thread, Silent
  <2>5. CASE FollowUp(i)
    <3>. DEFINE next == [imports[i] EXCEPT !.turn = 2, !.runs = TRUE]
    <3>1. next \in Thread
      BY <1>1, BegunIsThread
    <3>2. r = next /\ set = captures[i]
      BY <1>1, <2>5 DEF FollowUp, CaptureTypeOK
    <3>3. ThreadGoes(i, r, set)
      BY <1>1, <2>5 DEF FollowUp, ThreadGoes, CaptureTypeOK, Silent
    <3>. QED
      BY <1>1, <3>1, <3>2, <3>3
  <2>6. CASE TurnCompleted(i)
    BY <1>1, <2>6 DEF TurnCompleted, ThreadGoes, CaptureTypeOK, Thread, Silent
  <2>7. CASE Interrupt(i)
    BY <1>1, <2>7 DEF Interrupt, ThreadGoes, CaptureTypeOK, Thread, Silent
  <2>8. CASE InterruptEnds(i)
    BY <1>1, <2>8 DEF InterruptEnds, ThreadGoes, CaptureTypeOK, Thread, Silent
  <2>9. ASSUME NEW ok \in BOOLEAN, InterruptAnswered(i, ok)
        PROVE  /\ ThreadGoes(i, r, set)
               /\ r \in Thread /\ set \in (SUBSET Copies) \union {Null}
    BY <1>1, <2>9 DEF InterruptAnswered, ThreadGoes, CaptureTypeOK, Thread, Silent
  <2>. QED
    BY <2>1, <2>2, <2>3, <2>4, <2>5, <2>6, <2>7, <2>8, <2>9
<1>3. /\ ThreadSound(i)' /\ CapturesSound(i)'
      /\ imports[i].start = "started" => r.start = "started"
      /\ UnderWay(i)' => UnderWay(i) \/ imports[i].start # "started"
      /\ set # Null => set = captures[i] \/ imports[i].start # "started"
      /\ captures[i] # Null /\ UnderWay(i) => UnderWay(i)' \/ set = Null
  <2>1. CASE StartImport(i)
    BY <1>1, <2>1, CaptureAssumption
    DEF StartImport, CaptureTypeOK, Thread, ThreadSound, CapturesSound, UnderWay, Ready, Reading
  <2>2. CASE TurnAnswered(i)
    BY <1>1, <2>2, CaptureAssumption
    DEF TurnAnswered, CaptureTypeOK, Thread, ThreadSound, CapturesSound, UnderWay, Ready, Reading
  <2>3. CASE TurnRefused(i)
    BY <1>1, <2>3, CaptureAssumption
    DEF TurnRefused, CaptureTypeOK, Thread, ThreadSound, CapturesSound, UnderWay, Ready, Reading
  <2>4. CASE ImportStarted(i)
    BY <1>1, <2>4, CaptureAssumption
    DEF ImportStarted, CaptureTypeOK, Thread, ThreadSound, CapturesSound, UnderWay, Ready, Reading
  <2>5. CASE FollowUp(i)
    BY <1>1, <2>5, CaptureAssumption
    DEF FollowUp, CaptureTypeOK, Thread, ThreadSound, CapturesSound, UnderWay, Ready, Reading
  <2>6. CASE TurnCompleted(i)
    BY <1>1, <2>6, CaptureAssumption
    DEF TurnCompleted, CaptureTypeOK, Thread, ThreadSound, CapturesSound, UnderWay, Ready, Reading
  <2>7. CASE Interrupt(i)
    BY <1>1, <2>7, CaptureAssumption
    DEF Interrupt, CaptureTypeOK, Thread, ThreadSound, CapturesSound, UnderWay, Ready, Reading
  <2>8. CASE InterruptEnds(i)
    BY <1>1, <2>8, CaptureAssumption
    DEF InterruptEnds, CaptureTypeOK, Thread, ThreadSound, CapturesSound, UnderWay, Ready, Reading
  <2>9. CASE \E ok \in BOOLEAN : InterruptAnswered(i, ok)
    BY <1>1, <2>9
    DEF InterruptAnswered, CaptureTypeOK, Thread, ThreadSound, CapturesSound, UnderWay, Ready
  <2>. QED
    BY <2>1, <2>2, <2>3, <2>4, <2>5, <2>6, <2>7, <2>8, <2>9
<1>. QED
  BY <1>2, <1>3, ThreadGoesSafely

-----------------------------------------------------------------------------
(* The steps of a call, and the end of the process.                        *)

\* A step of a call that leaves the threads alone disturbs no other call.
LEMMA CopyGoesSafely ==
  ASSUME CaptureInv, NEW c \in Copies, NEW r \in Copy,
         copies' = [copies EXCEPT ![c] = r], UNCHANGED <<runtime, imports>>,
         message' = Null,
         captures' = captures
           \/ /\ copies[c].thread \in Imports /\ captures[copies[c].thread] # Null
              /\ r.thread = copies[c].thread /\ r.step = "told" /\ r.text # Null
              /\ captures' = [captures EXCEPT ![copies[c].thread] = @ \union {c}],
         copies[c].step # "told",
         CopySound(c)'
  PROVE  CaptureInv'
<1>1. CaptureTypeOK'
  BY DEF CaptureInv, CaptureTypeOK
<1>2. /\ copies'[c] = r
      /\ \A d \in Copies \ {c} : copies'[d] = copies[d]
  BY DEF CaptureInv, CaptureTypeOK
<1>3. \A i \in Imports :
        /\ captures'[i] # Null <=> captures[i] # Null
        /\ captures[i] # Null =>
             /\ captures[i] \subseteq captures'[i]
             /\ captures'[i] \subseteq captures[i] \union {c}
             /\ c \in captures'[i] /\ c \notin captures[i] =>
                  i = copies[c].thread /\ r.thread = i /\ r.step = "told" /\ r.text # Null
  BY CaptureAssumption DEF CaptureInv, CaptureTypeOK
<1>4. ASSUME NEW i \in Imports
      PROVE  ThreadSound(i)' /\ CapturesSound(i)'
  <2>1. ThreadSound(i)'
    BY DEF CaptureInv, ThreadSound
  <2>2. UnderWay(i)' <=> UnderWay(i)
    BY DEF UnderWay, Ready
  <2>3. CapturesSound(i)
    BY DEF CaptureInv
  <2>4. CASE captures[i] = Null
    <3>1. captures'[i] = Null
      BY <1>3, <2>4
    <3>2. ~ UnderWay(i)'
      BY <2>2, <2>3, <2>4 DEF CapturesSound
    <3>. QED
      BY <2>1, <3>1, <3>2 DEF CapturesSound
  <2>5. CASE captures[i] # Null
    <3>1. /\ Ready /\ imports[i].start = "started" /\ imports[i].interrupt # "done"
          /\ \A d \in captures[i] :
               copies[d].thread = i /\ copies[d].step = "told" /\ copies[d].text # Null
      BY <2>3, <2>5 DEF CapturesSound
    <3>2. captures[i] \subseteq Copies
      BY <2>5 DEF CaptureInv, CaptureTypeOK
    <3>3. ASSUME NEW d \in captures'[i]
          PROVE  copies'[d].thread = i /\ copies'[d].step = "told" /\ copies'[d].text # Null
      <4>1. CASE d \in captures[i]
        BY <1>2, <3>1, <3>2, <4>1
      <4>2. CASE d \notin captures[i]
        BY <1>2, <1>3, <2>5, <3>3, <4>2
      <4>. QED
        BY <4>1, <4>2
    <3>4. /\ captures'[i] # Null /\ Ready'
          /\ imports'[i].start = "started" /\ imports'[i].interrupt # "done"
      BY <1>3, <2>5, <3>1 DEF Ready
    <3>. QED
      BY <2>1, <3>3, <3>4 DEF CapturesSound
  <2>. QED
    BY <2>1, <2>4, <2>5
<1>5. ASSUME NEW d \in Copies, d # c
      PROVE  CopySound(d)'
  <2>1. CopySound(d) /\ copies'[d] = copies[d]
    BY <1>2, <1>5 DEF CaptureInv
  <2>2. CASE copies[d].thread \in Imports
    <3>1. UnderWay(copies[d].thread) => captures[copies[d].thread] # Null
      BY <2>2 DEF CaptureInv, CapturesSound
    <3>. QED
      BY <1>3, <2>1, <2>2, <3>1 DEF CopySound, UnderWay, Ready
  <2>3. CASE copies[d].thread \notin Imports
    BY <2>1, <2>3 DEF CopySound
  <2>. QED
    BY <2>2, <2>3
<1>. QED
  BY <1>1, <1>4, <1>5 DEF CaptureInv

LEMMA CopyStepKeepsInv ==
  ASSUME CaptureInv, CopyStep
  PROVE  CaptureInv'
<1>1. ASSUME NEW i \in Imports, NEW c \in Copies, AskCapture(i, c)
      PROVE  CaptureInv'
  <2>. DEFINE r == [copies[c] EXCEPT !.thread = i,
                      !.step = IF captures[i] # Null /\ imports[i].turn = 1
                               THEN "reading" ELSE "refused"]
  <2>1. copies[c] \in Copy /\ captures[i] # Null => CapturesSound(i) /\ Ready
    BY DEF CaptureInv, CaptureTypeOK, CapturesSound
  <2>2. /\ copies[c] \in Copy
        /\ captures[i] # Null =>
             Ready /\ imports[i].start = "started" /\ imports[i].interrupt # "done"
    BY DEF CaptureInv, CaptureTypeOK, CapturesSound
  <2>3. r \in Copy
    BY <2>2 DEF Copy
  <2>4. CopySound(c)'
    BY <1>1, <2>2 DEF AskCapture, CopySound, UnderWay, Ready, CaptureInv, CaptureTypeOK, Copy
  <2>. QED
    BY <1>1, <2>3, <2>4, CopyGoesSafely DEF AskCapture, Silent
<1>2. ASSUME NEW c \in Copies, CaptureEnds(c)
      PROVE  CaptureInv'
  <2>. DEFINE i == copies[c].thread
              good == copies[c].text # Null /\ InCapture(i)
              taken == IF ~ Ready THEN "lost" ELSE IF good THEN "told" ELSE "refused"
              r == [copies[c] EXCEPT !.step = taken]
  <2>1. /\ copies[c] \in Copy /\ copies[c].step = "read"
        /\ i \in Imports /\ imports[i].start = "started"
        /\ captures[i] # Null => UnderWay(i)
        /\ captures[i] \in (SUBSET Copies) \union {Null}
        /\ captures[i] # Null => Ready
    BY <1>2 DEF CaptureEnds, CaptureInv, CaptureTypeOK, CopySound, UnderWay
  <2>2. /\ r \in Copy /\ r.thread = i /\ r.step = taken /\ r.text = copies[c].text
    BY <2>1 DEF Copy
  <2>3. copies' = [copies EXCEPT ![c] = r]
    BY <1>2 DEF CaptureEnds
  <2>4. copies'[c] = r
    BY <2>3 DEF CaptureInv, CaptureTypeOK
  <2>5. /\ UNCHANGED <<runtime, imports>> /\ message' = Null
        /\ ~ good => captures' = captures
        /\ good => captures' = [captures EXCEPT ![i] = captures[i] \union {c}]
    BY <1>2 DEF CaptureEnds, Silent, InCapture
  <2>6. good => captures[i] # Null /\ copies[c].text # Null
    BY DEF InCapture
  <2>7. good => taken = "told"
    BY <2>1, <2>6
  <2>8. CopySound(c)'
    <3>1. taken = "told" => captures'[i] = captures[i] \union {c}
      BY <2>1, <2>5 DEF CaptureInv, CaptureTypeOK
    <3>2. taken = "told" => c \in captures'[i]
      BY <3>1
    <3>3. taken \notin {"reading", "read"}
      OBVIOUS
    <3>. HIDE DEF taken, r, good
    <3>. QED
      BY <2>1, <2>2, <2>4, <2>5, <3>2, <3>3 DEF CopySound
  <2>. HIDE DEF taken, r, good
  <2>9. captures' = captures
          \/ /\ copies[c].thread \in Imports /\ captures[copies[c].thread] # Null
             /\ r.thread = copies[c].thread /\ r.step = "told" /\ r.text # Null
             /\ captures' = [captures EXCEPT ![copies[c].thread] = @ \union {c}]
    BY <2>1, <2>2, <2>5, <2>6, <2>7
  <2>. QED
    BY <2>1, <2>2, <2>3, <2>5, <2>8, <2>9, CopyGoesSafely
<1>3. ASSUME NEW c \in Copies, NEW text \in Texts \union {Null}, BrowserAnswers(c, text)
      PROVE  CaptureInv'
  <2>. DEFINE r == [copies[c] EXCEPT !.step = "read", !.text = text]
  <2>1. /\ copies[c] \in Copy /\ copies[c].step = "reading" /\ CopySound(c)
        /\ copies' = [copies EXCEPT ![c] = r]
        /\ UNCHANGED <<runtime, imports, captures>> /\ message' = Null
    BY <1>3 DEF BrowserAnswers, CaptureInv, CaptureTypeOK, Silent
  <2>2. /\ r \in Copy /\ r.thread = copies[c].thread /\ r.step = "read"
    BY <2>1 DEF Copy
  <2>3. copies'[c] = r
    BY <2>1 DEF CaptureInv, CaptureTypeOK
  <2>. HIDE DEF r
  <2>4. CopySound(c)'
    BY <2>1, <2>2, <2>3 DEF CopySound, UnderWay, Ready
  <2>. QED
    BY <2>1, <2>2, <2>4, CopyGoesSafely
<1>. QED
  BY <1>1, <1>2, <1>3 DEF CopyStep

LEMMA UnavailableKeepsInv ==
  ASSUME CaptureInv, NEW state \in {"exited", "gone"}, Unavailable(state)
  PROVE  CaptureInv'
<1>0. ~ Ready' /\ runtime' \in {"running", "exited", "gone"}
  BY DEF Unavailable, Ready
<1>1. ASSUME NEW i \in Imports
      PROVE  /\ imports'[i] \in Thread /\ captures'[i] = Null
             /\ imports'[i].turn = imports[i].turn /\ imports'[i].runs = imports[i].runs
             /\ \/ imports'[i].start = imports[i].start
                \/ imports[i].start = "asked" /\ imports'[i].start = "failed"
             /\ imports'[i].interrupt \in {imports[i].interrupt, "none"}
  <2>1. imports[i] \in Thread
    BY DEF CaptureInv, CaptureTypeOK
  <2>. QED
    BY <2>1 DEF Unavailable, Thread
<1>2. ASSUME NEW c \in Copies
      PROVE  /\ copies'[c] \in Copy /\ copies'[c].thread = copies[c].thread
             /\ \/ copies'[c].step = copies[c].step
                \/ copies[c].step = "reading" /\ copies'[c].step = "read"
  <2>1. copies[c] \in Copy
    BY DEF CaptureInv, CaptureTypeOK
  <2>. QED
    BY <2>1 DEF Unavailable, Copy
<1>3. CaptureTypeOK'
  <2>1. imports' \in [Imports -> Thread] /\ copies' \in [Copies -> Copy]
    BY <1>1, <1>2 DEF Unavailable
  <2>2. captures' \in [Imports -> (SUBSET Copies) \union {Null}] /\ message' = Null
    BY DEF Unavailable, Silent
  <2>. QED
    BY <1>0, <2>1, <2>2 DEF CaptureTypeOK
<1>4. ASSUME NEW i \in Imports
      PROVE  ThreadSound(i)' /\ CapturesSound(i)'
  <2>1. ThreadSound(i)
    BY DEF CaptureInv
  <2>. QED
    BY <1>0, <1>1, <2>1 DEF ThreadSound, CapturesSound, UnderWay
<1>5. ASSUME NEW c \in Copies
      PROVE  CopySound(c)'
  <2>1. CopySound(c)
    BY DEF CaptureInv
  <2>. QED
    BY <1>0, <1>1, <1>2, <2>1 DEF CopySound, UnderWay
<1>. QED
  BY <1>3, <1>4, <1>5 DEF CaptureInv

LEMMA MessageStepKeepsInv ==
  ASSUME CaptureInv, MessageStep
  PROVE  CaptureInv'
<1>1. PICK i \in Imports, c \in Copies, url \in Urls : FinalMessage(i, c, url)
  BY DEF MessageStep
<1>. DEFINE found == Completes(i) /\ c \in captures[i] /\ copies[c].text.url = url
            form == IF found THEN "completed" ELSE IF Completes(i) THEN "error" ELSE "raw"
            text == IF found THEN copies[c].text ELSE Null
<1>2. UNCHANGED <<runtime, imports, captures, copies>>
  BY <1>1 DEF FinalMessage
<1>3. message' \in Message
  <2>1. /\ imports[i] \in Thread /\ copies[c] \in Copy /\ ThreadSound(i) /\ imports[i].runs
    BY <1>1 DEF FinalMessage, CaptureInv, CaptureTypeOK
  <2>2. imports[i].turn \in {1, 2}
    BY <2>1 DEF Thread, ThreadSound
  <2>3. text \in Texts \union {Null} /\ form \in {"raw", "error", "completed"}
    BY <2>1 DEF Copy
  <2>4. message' = [thread |-> i, turn |-> imports[i].turn, copy |-> c, url |-> url,
                    form |-> form, text |-> text]
    BY <1>1 DEF FinalMessage
  <2>. HIDE DEF form, text
  <2>. QED
    BY <2>2, <2>3, <2>4 DEF Message
<1>4. CaptureTypeOK'
  BY <1>2, <1>3 DEF CaptureInv, CaptureTypeOK
<1>. QED
  BY <1>2, <1>4 DEF CaptureInv, ThreadSound, CapturesSound, CopySound, UnderWay, Ready

LEMMA CaptureInvStep == CaptureInv /\ [CaptureNext]_captureVars => CaptureInv'
<1>. SUFFICES ASSUME CaptureInv, [CaptureNext]_captureVars PROVE CaptureInv'
  OBVIOUS
<1>1. CASE ThreadStep
  BY <1>1, ThreadStepKeepsInv
<1>2. CASE CopyStep
  BY <1>2, CopyStepKeepsInv
<1>3. CASE MessageStep
  BY <1>3, MessageStepKeepsInv
<1>4. CASE ProcessExits \/ ConnectionEnds
  BY <1>4, UnavailableKeepsInv DEF ProcessExits, ConnectionEnds
<1>5. CASE UNCHANGED captureVars
  BY <1>5 DEF captureVars, CaptureInv, CaptureTypeOK, ThreadSound, CapturesSound, CopySound,
              UnderWay, Ready
<1>. QED
  BY <1>1, <1>2, <1>3, <1>4, <1>5, CaptureCases

-----------------------------------------------------------------------------
(* What follows from it.                                                   *)

\* The records of threads, captures and calls are always of their types.
THEOREM CaptureTypeCorrect == CaptureSpec => []CaptureTypeOK
<1>1. CaptureInv => CaptureTypeOK
  BY DEF CaptureInv
<1>. QED
  BY <1>1, CaptureInvInit, CaptureInvStep, PTL DEF CaptureSpec

LEMMA MessagesAreTrue ==
  ASSUME CaptureInv, MessageStep
  PROVE  MessageIsTrue(message') /\ copies' = copies
<1>1. PICK i \in Imports, c \in Copies, url \in Urls : FinalMessage(i, c, url)
  BY DEF MessageStep
<1>. DEFINE found == Completes(i) /\ c \in captures[i] /\ copies[c].text.url = url
            form == IF found THEN "completed" ELSE IF Completes(i) THEN "error" ELSE "raw"
            text == IF found THEN copies[c].text ELSE Null
            fits == copies[c].thread = i /\ copies[c].text # Null /\ copies[c].text.url = url
<1>2. /\ message' = [thread |-> i, turn |-> imports[i].turn, copy |-> c, url |-> url,
                     form |-> form, text |-> text]
      /\ imports[i].runs /\ copies' = copies
  BY <1>1 DEF FinalMessage
<1>3. /\ message'.thread = i /\ message'.turn = imports[i].turn /\ message'.copy = c
      /\ message'.url = url /\ message'.form = form /\ message'.text = text
  BY <1>2
<1>4. CapturesSound(i) /\ CopySound(c)
  BY DEF CaptureInv
<1>5. form = "raw" => ~ UnderWay(i)
  BY <1>4 DEF Completes, CapturesSound, UnderWay
<1>6. form = "error" => imports[i].turn = 1 /\ ~ (fits /\ copies[c].step = "told")
  <2>. SUFFICES ASSUME form = "error"
                PROVE  imports[i].turn = 1 /\ ~ (fits /\ copies[c].step = "told")
    OBVIOUS
  <2>1. Completes(i) /\ ~ found
    OBVIOUS
  <2>2. UnderWay(i)
    BY <1>2, <1>4, <2>1 DEF Completes, CapturesSound, UnderWay
  <2>. QED
    BY <1>4, <2>1, <2>2 DEF Completes, CopySound
<1>7. form = "completed" => imports[i].turn = 1 /\ fits /\ text = copies[c].text
  BY <1>4 DEF Completes, CapturesSound
<1>8. form \in {"raw", "error", "completed"}
  OBVIOUS
<1>. HIDE DEF form, text
<1>. QED
  BY <1>2, <1>3, <1>5, <1>6, <1>7, <1>8 DEF MessageIsTrue

\* However the turns of an import, the answers of the browser, interrupts and
\* the end of the process cross: a final message is completed with the text
\* that was copied for it and with nothing else, it is refused or passed on
\* as it is only when there is no such text to put in, and an agent is told
\* of a copy only while the import can still use it.
THEOREM CapturesAreServed == CaptureSpec => CapturesServeTheirImport
<1>. DEFINE Step == /\ message' # Null => MessageIsTrue(message')
                    /\ \A c \in Copies : copies[c].step # "told" /\ copies'[c].step = "told" =>
                         UnderWay(copies[c].thread)
<1>1. CaptureInv /\ [CaptureNext]_captureVars => [Step]_captureVars
  <2>. SUFFICES ASSUME CaptureInv, CaptureNext PROVE Step
    OBVIOUS
  <2>1. CASE ThreadStep
    <3>1. message' = Null /\ copies' = copies
      BY <2>1 DEF ThreadStep, StartImport, TurnAnswered, TurnRefused, ImportStarted, FollowUp,
                  TurnCompleted, Interrupt, InterruptEnds, InterruptAnswered, Silent
    <3>. QED
      BY <3>1
  <2>2. CASE CopyStep
    <3>1. message' = Null
      BY <2>2 DEF CopyStep, AskCapture, CaptureEnds, BrowserAnswers, Silent
    <3>2. ASSUME NEW c \in Copies, copies[c].step # "told", copies'[c].step = "told"
          PROVE  UnderWay(copies[c].thread)
      <4>0. copies \in [Copies -> Copy] /\ copies[c] \in Copy
        BY DEF CaptureInv, CaptureTypeOK
      <4>1. CaptureEnds(c)
        <5>1. ASSUME NEW d \in Copies, NEW i \in Imports, AskCapture(i, d)
              PROVE  FALSE
          BY <3>2, <4>0, <5>1 DEF AskCapture, Copy
        <5>2. ASSUME NEW d \in Copies, NEW text \in Texts \union {Null}, BrowserAnswers(d, text)
              PROVE  FALSE
          BY <3>2, <4>0, <5>2 DEF BrowserAnswers, Copy
        <5>3. ASSUME NEW d \in Copies, CaptureEnds(d)
              PROVE  d = c
          BY <3>2, <4>0, <5>3 DEF CaptureEnds
        <5>. QED
          BY <2>2, <5>1, <5>2, <5>3 DEF CopyStep
      <4>2. CopySound(c) /\ copies[c].step = "read" /\ captures[copies[c].thread] # Null
        BY <3>2, <4>1 DEF CaptureEnds, InCapture, CaptureInv, CaptureTypeOK, Copy
      <4>. QED
        BY <4>2 DEF CopySound
    <3>. QED
      BY <3>1, <3>2
  <2>3. CASE MessageStep
    BY <2>3, MessagesAreTrue
  <2>4. CASE ProcessExits \/ ConnectionEnds
    <3>1. message' = Null
      BY <2>4 DEF ProcessExits, ConnectionEnds, Unavailable, Silent
    <3>2. ASSUME NEW c \in Copies
          PROVE  copies'[c].step = "told" => copies[c].step = "told"
      <4>1. copies[c] \in Copy
        BY DEF CaptureInv, CaptureTypeOK
      <4>2. copies'[c] = [copies[c] EXCEPT !.step = IF @ = "reading" THEN "read" ELSE @]
        BY <2>4 DEF ProcessExits, ConnectionEnds, Unavailable
      <4>. QED
        BY <4>1, <4>2 DEF Copy
    <3>. QED
      BY <3>1, <3>2
  <2>. QED
    BY <2>1, <2>2, <2>3, <2>4, CaptureCases
<1>. QED
  BY <1>1, CaptureInvInit, CaptureInvStep, PTL DEF CaptureSpec, CapturesServeTheirImport

-----------------------------------------------------------------------------
(* The commands of a search (SearchPipeline): what was judged is reported. *)

\* A selection is what one judgment says of the review it was made of.
FollowsJudgment(selection) ==
  \E judgment \in judged :
    /\ Judges(judgment, judgment.digest)
    /\ selection = [digest |-> judgment.digest, selections |-> Selected(judgment.decisions)]

SelectionInv ==
  /\ DOMAIN files = Names
  /\ files.judgment \in judged \union {Missing}
  /\ files.selection # Missing => FollowsJudgment(files.selection)

LEMMA SelectionStart ==
  ASSUME SearchInit
  PROVE  SelectionInv
<1>1. PICK list \in Lists, coverage \in Coverages :
        files = [[name \in Names |-> Missing] EXCEPT !.merged = list, !.identities = {},
                                                     !.coverage = coverage]
  BY DEF SearchInit
<1>2. PICK none : none = [name \in Names |-> Missing]
  OBVIOUS
<1>3. DOMAIN none = Names /\ none.judgment = Missing /\ none.selection = Missing
  BY <1>2 DEF Names
<1>4. files = [none EXCEPT !.merged = list, !.identities = {}, !.coverage = coverage]
  BY <1>1, <1>2
<1>5. DOMAIN files = Names /\ files.judgment = Missing /\ files.selection = Missing
  BY <1>3, <1>4
<1> QED BY <1>5 DEF SelectionInv

\* A command or the agent saves a file that is neither a judgment nor a selection.
LEMMA OtherFileKeeps ==
  ASSUME SelectionInv, NEW name \in Names \ {"judgment", "selection"}, NEW content,
         Save(name, content), judged \subseteq judged'
  PROVE  SelectionInv'
<1>1. /\ DOMAIN files' = Names /\ files'.judgment = files.judgment
      /\ files'.selection = files.selection
  BY DEF Save, SelectionInv, Names
<1> QED BY <1>1 DEF SelectionInv, FollowsJudgment

LEMMA JudgeStep ==
  ASSUME SelectionInv, NEW decisions, Judge(decisions)
  PROVE  SelectionInv'
<1>1. PICK judgment : Save("judgment", judgment) /\ judged' = judged \union {judgment}
  BY DEF Judge, AgentWrites
<1>2. /\ DOMAIN files' = Names /\ files'.judgment = judgment
      /\ files'.selection = files.selection
  BY <1>1 DEF Save, SelectionInv, Names
<1> QED BY <1>1, <1>2 DEF SelectionInv, FollowsJudgment

\* The selection is of the judgment that is there, which judges the review.
LEMMA SelectStep ==
  ASSUME SelectionInv, Select
  PROVE  SelectionInv'
<1>1. PICK judgment : judgment = files.judgment
  OBVIOUS
<1>2. /\ judgment \in judged /\ judged' = judged /\ Judges(judgment, files.review)
      /\ Save("selection", [digest |-> judgment.digest,
                             selections |-> Selected(judgment.decisions)])
  BY <1>1 DEF Select, Has, SelectionInv
<1>3. Judges(judgment, judgment.digest)
  BY <1>2 DEF Judges
<1>4. PICK selection : selection = [digest |-> judgment.digest,
                                    selections |-> Selected(judgment.decisions)]
  OBVIOUS
<1>5. FollowsJudgment(selection)'
  BY <1>2, <1>3, <1>4 DEF FollowsJudgment
<1>6. /\ DOMAIN files' = Names /\ files'.judgment = files.judgment
      /\ files'.selection = selection
  BY <1>2, <1>4 DEF Save, SelectionInv, Names
<1> QED BY <1>2, <1>5, <1>6 DEF SelectionInv

LEMMA PoolStep ==
  ASSUME SelectionInv, Pool
  PROVE  SelectionInv'
<1>1. PICK list, packet : files' = [files EXCEPT !.candidates = list, !.review = packet]
  BY DEF Pool
<1>2. /\ DOMAIN files' = Names /\ files'.judgment = files.judgment
      /\ files'.selection = files.selection /\ judged' = judged
  BY <1>1 DEF Pool, SelectionInv
<1> QED BY <1>2 DEF SelectionInv, FollowsJudgment

LEMMA SelectionStep ==
  ASSUME SelectionInv, [SearchNext]_searchVars
  PROVE  SelectionInv'
<1>1. CASE UNCHANGED searchVars
  BY <1>1 DEF searchVars, SelectionInv, FollowsJudgment
<1>2. CASE \/ \E list \in Lists : Discover(list)
           \/ History \/ Repool \/ Assemble \/ Put \/ Get
  <2>1. PICK name \in {"merged", "identities", "review", "report", "response"} :
          \E content : Save(name, content)
    BY <1>2 DEF Discover, AgentWrites, History, Repool, Assemble, Assembles, Put, Get
  <2>2. judged' = judged
    BY <1>2 DEF Discover, History, Repool, Assemble, Assembles, Put, Get
  <2>3. name \in Names \ {"judgment", "selection"}
    BY DEF Names
  <2> QED BY <2>1, <2>2, <2>3, OtherFileKeeps
<1>3. CASE \E c \in Candidates : Import(c)
  BY <1>3 DEF Import, SelectionInv, FollowsJudgment
<1>4. CASE SearchNext
  BY <1>2, <1>3, <1>4, JudgeStep, SelectStep, PoolStep DEF SearchNext
<1> QED BY <1>1, <1>4

LEMMA SelectionInvariant == SearchSpec => []SelectionInv
<1>1. SearchInit => SelectionInv
  BY SelectionStart
<1>2. SelectionInv /\ [SearchNext]_searchVars => SelectionInv'
  BY SelectionStep
<1> QED BY <1>1, <1>2, PTL DEF SearchSpec

\* Only assemble writes a report.
LEMMA ReportIsAssembled ==
  ASSUME SelectionInv, [SearchNext]_searchVars, files'.report # files.report
  PROVE  \E judgment \in judged :
           /\ Judges(judgment, files.candidates)
           /\ files'.report.results =
                ResultsOf(files.candidates, Selected(judgment.decisions))
<1>1. ASSUME NEW name \in Names \ {"report"}, NEW content, Save(name, content)
      PROVE  FALSE
  BY <1>1 DEF SelectionInv, Save, Names
<1>2. Assemble
  <2>1. ~ UNCHANGED files
    OBVIOUS
  <2>2. ~ Pool
    BY DEF Pool, SelectionInv, Names
  <2>3. /\ {"merged", "identities", "review", "judgment", "selection", "response"}
             \subseteq Names \ {"report"}
    BY DEF Names
  <2>4. /\ \A list \in Lists : ~ Discover(list)
        /\ \A decisions \in Decisions : ~ Judge(decisions)
    BY <1>1, <2>3 DEF Discover, Judge, AgentWrites
  <2>5. ~ History /\ ~ Repool /\ ~ Select /\ ~ Put /\ ~ Get
    BY <1>1, <2>3 DEF History, Repool, Select, Put, Get
  <2> QED BY <2>1, <2>2, <2>4, <2>5 DEF SearchNext, searchVars, Import
<1>3. PICK judgment \in judged :
        /\ Judges(judgment, judgment.digest)
        /\ files.selection = [digest |-> judgment.digest,
                              selections |-> Selected(judgment.decisions)]
  BY <1>2 DEF Assemble, Has, SelectionInv, FollowsJudgment
<1>4. /\ judgment.digest = files.candidates
      /\ files.selection.selections = Selected(judgment.decisions)
  BY <1>2, <1>3 DEF Assemble
<1>5. files'.report = Report(files.candidates, files.selection.selections, files.coverage)
  BY <1>2 DEF Assemble, Assembles, Save, SelectionInv, Names
<1>6. files'.report.results = ResultsOf(files.candidates, Selected(judgment.decisions))
  BY <1>4, <1>5 DEF Report
<1> QED BY <1>3, <1>4, <1>6

(* ReportFollowsJudgment: a report is what one judgment says of the very   *)
(* candidates it is made of, whichever files were replaced meanwhile.      *)
THEOREM ReportsFollowJudgments == SearchSpec => ReportFollowsJudgment
<1>1. SelectionInv /\ [SearchNext]_searchVars =>
        [files'.report # files.report =>
           \E judgment \in judged :
             /\ Judges(judgment, files.candidates)
             /\ files'.report.results =
                  ResultsOf(files.candidates, Selected(judgment.decisions))]_searchVars
  BY ReportIsAssembled
<1> QED BY <1>1, SelectionInvariant, PTL DEF SearchSpec, ReportFollowsJudgment


-----------------------------------------------------------------------------
(* What verifies has been stored.                                          *)

\* A report lists candidates, each with a label.
IsReport(report) ==
  /\ {"results", "handed", "summary"} \subseteq DOMAIN report
  /\ \A i \in DOMAIN report.results : {"label", "candidate"} \subseteq DOMAIN report.results[i]

\* The report file is what one judgment says of the review it was made of.
FileFollowsJudgment(report) ==
  /\ IsReport(report)
  /\ \E judgment \in judged :
       /\ Judges(judgment, judgment.digest)
       /\ report.results = ResultsOf(judgment.digest, Selected(judgment.decisions))

Key(report, i) == report.results[i].candidate.post.sourceKey

\* A report that was stored, and one that recommends the same.
StorageInv ==
  /\ DOMAIN board = Keys
  /\ published \in accepted \union {Missing}
  /\ \A report \in accepted : IsReport(report) /\ PostsIn(report) \in Inputs
  /\ published # Missing =>
       \A i \in DOMAIN published.results :
         board[Key(published, i)].post.sourceKey = Key(published, i)
  /\ files.response # Missing =>
       \E report \in accepted : Recommends(report) = Recommends(files.response)
  /\ files.report # Missing => FileFollowsJudgment(files.report)

LEMMA KeysAreKnown ==
  ASSUME NEW report, PostsIn(report) \in Inputs, NEW i \in DOMAIN report.results
  PROVE  Key(report, i) \in Keys /\ Key(report, i) \in KeysOf(PostsIn(report))
<1>1. report.results[i].candidate.post \in PostsIn(report)
  BY DEF PostsIn
<1>2. report.results[i].candidate.post \in Posts
  BY <1>1 DEF Inputs
<1> QED BY <1>1, <1>2 DEF Key, Keys, KeysOf

\* An answer shows the posts as a table has them, and recommends what was stored.
LEMMA ReplyRecommends ==
  ASSUME NEW report, IsReport(report), NEW table,
         \A i \in DOMAIN report.results :
           table[Key(report, i)].post.sourceKey = Key(report, i)
  PROVE  Recommends(Reply(report, table)) = Recommends(report)
<1>1. PICK listed : listed = [i \in DOMAIN report.results |->
        [report.results[i] EXCEPT !.candidate = table[Key(report, i)]]]
  OBVIOUS
<1>2. Reply(report, table) = [report EXCEPT !.results = listed]
  BY <1>1 DEF Reply, Key
<1>3. /\ Reply(report, table).results = listed
      /\ Reply(report, table).handed = report.handed
      /\ Reply(report, table).summary = report.summary
  BY <1>2 DEF IsReport
<1>4. /\ DOMAIN listed = DOMAIN report.results
      /\ \A i \in DOMAIN listed : /\ listed[i].label = report.results[i].label
                                   /\ listed[i].candidate = table[Key(report, i)]
  BY <1>1 DEF IsReport
<1>5. [i \in DOMAIN listed |-> <<listed[i].label, listed[i].candidate.post.sourceKey>>] =
      [i \in DOMAIN report.results |->
         <<report.results[i].label, report.results[i].candidate.post.sourceKey>>]
  BY <1>4 DEF Key
<1> QED BY <1>3, <1>5 DEF Recommends

LEMMA StorageStart ==
  ASSUME SearchInit
  PROVE  StorageInv
<1>1. PICK list \in Lists, coverage \in Coverages :
        files = [[name \in Names |-> Missing] EXCEPT !.merged = list, !.identities = {},
                                                     !.coverage = coverage]
  BY DEF SearchInit
<1>2. PICK none : none = [name \in Names |-> Missing]
  OBVIOUS
<1>3. DOMAIN none = Names /\ none.response = Missing /\ none.report = Missing
  BY <1>2 DEF Names
<1>4. files = [none EXCEPT !.merged = list, !.identities = {}, !.coverage = coverage]
  BY <1>1, <1>2
<1>5. files.response = Missing /\ files.report = Missing
  BY <1>3, <1>4
<1> QED BY <1>5 DEF StorageInv, SearchInit

\* A step that leaves the report, its answer and the server alone.
LEMMA StorageKept ==
  ASSUME StorageInv, files'.report = files.report, files'.response = files.response,
         judged \subseteq judged', UNCHANGED <<board, published, accepted>>
  PROVE  StorageInv'
<1>1. ASSUME files'.report # Missing
      PROVE  FileFollowsJudgment(files.report)'
  <2>1. files.report # Missing
    BY <1>1
  <2> QED BY <2>1 DEF StorageInv, FileFollowsJudgment
<1> QED BY <1>1 DEF StorageInv

LEMMA StorageAssemble ==
  ASSUME SelectionInv, StorageInv, Assemble
  PROVE  StorageInv'
<1>1. PICK judgment \in judged :
        /\ Judges(judgment, judgment.digest)
        /\ files.selection = [digest |-> judgment.digest,
                              selections |-> Selected(judgment.decisions)]
  BY DEF Assemble, Has, SelectionInv, FollowsJudgment
<1>2. /\ judgment.digest = files.candidates
      /\ files.selection.selections = Selected(judgment.decisions)
  BY <1>1 DEF Assemble
<1>3. PICK report : report = Report(judgment.digest, Selected(judgment.decisions), files.coverage)
  OBVIOUS
<1>4. files'.report = report /\ files'.response = files.response
  BY <1>2, <1>3 DEF Assemble, Assembles, Save, SelectionInv, Names
<1>5. IsReport(report)
  BY <1>3 DEF IsReport, Report, ResultsOf
<1>6. report.results = ResultsOf(judgment.digest, Selected(judgment.decisions))
  BY <1>3 DEF Report
<1>7. UNCHANGED <<board, published, judged, accepted>>
  BY DEF Assemble, Assembles
<1>8. FileFollowsJudgment(report)'
  BY <1>1, <1>5, <1>6, <1>7 DEF FileFollowsJudgment
<1> QED BY <1>4, <1>7, <1>8 DEF StorageInv

LEMMA StoragePut ==
  ASSUME SelectionInv, StorageInv, Put
  PROVE  StorageInv'
<1>1. PICK report : report = files.report
  OBVIOUS
<1>2. report # Missing /\ judged' = judged
  BY <1>1 DEF Put, Has
<1>3. files'.report = report /\ DOMAIN files = Names
  BY <1>1 DEF Put, Save, SelectionInv, Names
<1>4. FileFollowsJudgment(report) /\ FileFollowsJudgment(report)'
  BY <1>1, <1>2 DEF StorageInv, FileFollowsJudgment
<1>5. CASE Save("response", Missing) /\ UNCHANGED <<board, published, accepted>>
  <2>1. files'.response = Missing
    BY <1>3, <1>5 DEF Save, Names
  <2> QED BY <1>3, <1>4, <1>5, <2>1 DEF StorageInv
<1>6. CASE /\ PostsIn(report) \in Inputs
           /\ published' = report
           /\ accepted' = accepted \union {report}
           /\ board' = BoardWith(report)
           /\ \E reply \in {Reply(report, BoardWith(report)), Missing} : Save("response", reply)
  <2>1. PICK table : table = BoardWith(report)
    OBVIOUS
  <2>2. ASSUME NEW i \in DOMAIN report.results
        PROVE  table[Key(report, i)].post.sourceKey = Key(report, i)
    <3>1. Key(report, i) \in Keys /\ Key(report, i) \in KeysOf(PostsIn(report))
      BY <1>6, KeysAreKnown
    <3>2. PICK k : k = Key(report, i)
      OBVIOUS
    <3>3. PICK candidates : candidates = {report.results[j].candidate : j \in DOMAIN report.results}
      OBVIOUS
    <3>4. table[k] = CHOOSE c \in candidates : c.post.sourceKey = k
      BY <2>1, <3>1, <3>2, <3>3 DEF BoardWith
    <3>5. report.results[i].candidate \in candidates /\ report.results[i].candidate.post.sourceKey = k
      BY <3>2, <3>3 DEF Key
    <3>6. (CHOOSE c \in candidates : c.post.sourceKey = k).post.sourceKey = k
      BY <3>5
    <3> QED BY <3>2, <3>4, <3>6
  <2>3. Recommends(Reply(report, table)) = Recommends(report)
    BY <1>4, <2>2, ReplyRecommends DEF FileFollowsJudgment
  <2>4. PICK reply \in {Reply(report, table), Missing} : files'.response = reply
    BY <1>3, <1>6, <2>1 DEF Save, Names
  <2>5. files'.response # Missing =>
          \E r \in accepted' : Recommends(r) = Recommends(files'.response)
    BY <1>6, <2>3, <2>4
  <2>6. DOMAIN board' = Keys
    BY <1>6 DEF BoardWith
  <2>7. \A r \in accepted' : IsReport(r) /\ PostsIn(r) \in Inputs
    BY <1>4, <1>6 DEF StorageInv, FileFollowsJudgment
  <2>8. \A i \in DOMAIN published'.results :
          board'[Key(published', i)].post.sourceKey = Key(published', i)
    BY <1>6, <2>1, <2>2
  <2>9. published' \in accepted' \union {Missing}
    BY <1>6
  <2> QED BY <1>3, <1>4, <2>5, <2>6, <2>7, <2>8, <2>9 DEF StorageInv, Key
<1> QED BY <1>1, <1>5, <1>6 DEF Put

LEMMA StorageGet ==
  ASSUME SelectionInv, StorageInv, Get
  PROVE  StorageInv'
<1>1. PICK reply : reply = IF published = Missing THEN Missing ELSE Reply(published, board)
  OBVIOUS
<1>2. files'.report = files.report /\ files'.response = reply
  BY <1>1 DEF Get, Save, SelectionInv, Names
<1>3. UNCHANGED <<board, published, judged, accepted>>
  BY DEF Get
<1>4. ASSUME reply # Missing
      PROVE  \E report \in accepted : Recommends(report) = Recommends(reply)
  <2>1. published \in accepted /\ reply = Reply(published, board)
    BY <1>1, <1>4 DEF StorageInv
  <2>2. IsReport(published)
    BY <2>1 DEF StorageInv
  <2>3. published # Missing
    BY <1>1, <1>4
  <2>4. Recommends(Reply(published, board)) = Recommends(published)
    BY <2>2, <2>3, ReplyRecommends DEF StorageInv
  <2> QED BY <2>1, <2>4
<1>5. ASSUME files'.report # Missing
      PROVE  FileFollowsJudgment(files.report)'
  BY <1>2, <1>3, <1>5 DEF StorageInv, FileFollowsJudgment
<1> QED BY <1>2, <1>3, <1>4, <1>5 DEF StorageInv

\* A post of the report that a user imports anew keeps its key.
LEMMA StorageImport ==
  ASSUME StorageInv, NEW c \in Candidates, Import(c)
  PROVE  StorageInv'
<1>1. /\ UNCHANGED <<files, published, judged, accepted>>
      /\ board' = [board EXCEPT ![c.post.sourceKey] = c]
  BY DEF Import
<1>2. ASSUME published # Missing, NEW i \in DOMAIN published.results
      PROVE  board'[Key(published, i)].post.sourceKey = Key(published, i)
  <2>1. PostsIn(published) \in Inputs
    BY <1>2 DEF StorageInv
  <2>2. Key(published, i) \in DOMAIN board
    BY <1>2, <2>1, KeysAreKnown DEF StorageInv
  <2>3. board[Key(published, i)].post.sourceKey = Key(published, i)
    BY <1>2 DEF StorageInv
  <2> QED BY <1>1, <2>2, <2>3
<1>3. DOMAIN board' = Keys
  BY <1>1 DEF StorageInv
<1>4. files'.report # Missing => FileFollowsJudgment(files.report)'
  BY <1>1 DEF StorageInv, FileFollowsJudgment
<1> QED BY <1>1, <1>2, <1>3, <1>4 DEF StorageInv, Key

LEMMA StorageStep ==
  ASSUME SelectionInv, StorageInv, [SearchNext]_searchVars
  PROVE  StorageInv'
<1>1. CASE UNCHANGED searchVars
  BY <1>1, StorageKept DEF searchVars
<1>2. ASSUME NEW name \in Names \ {"report", "response"}, NEW content, Save(name, content),
             judged \subseteq judged', UNCHANGED <<board, published, accepted>>
      PROVE  StorageInv'
  <2>1. files'.report = files.report /\ files'.response = files.response
    BY <1>2 DEF Save, SelectionInv, Names
  <2> QED BY <1>2, <2>1, StorageKept
<1>3. CASE \/ \E list \in Lists : Discover(list)
           \/ \E decisions \in Decisions : Judge(decisions)
           \/ History \/ Repool \/ Select
  <2>1. PICK name \in {"merged", "judgment", "identities", "review", "selection"} :
          \E content : Save(name, content)
    BY <1>3 DEF Discover, Judge, AgentWrites, History, Repool, Select
  <2>2. judged \subseteq judged' /\ UNCHANGED <<board, published, accepted>>
    BY <1>3 DEF Discover, Judge, History, Repool, Select
  <2>3. name \in Names \ {"report", "response"}
    BY DEF Names
  <2> QED BY <1>2, <2>1, <2>2, <2>3
<1>4. CASE Pool
  <2>1. PICK list, packet : files' = [files EXCEPT !.candidates = list, !.review = packet]
    BY <1>4 DEF Pool
  <2>2. /\ files'.report = files.report /\ files'.response = files.response
        /\ UNCHANGED <<board, published, judged, accepted>>
    BY <1>4, <2>1 DEF Pool, SelectionInv, Names
  <2> QED BY <2>2, StorageKept
<1> QED
  BY <1>1, <1>3, <1>4, StorageAssemble, StoragePut, StorageGet, StorageImport DEF SearchNext

LEMMA StorageInvariant == SearchSpec => [](SelectionInv /\ StorageInv)
<1>1. SearchInit => SelectionInv /\ StorageInv
  BY SelectionStart, StorageStart
<1>2. SelectionInv /\ StorageInv /\ [SearchNext]_searchVars => (SelectionInv /\ StorageInv)'
  BY SelectionStep, StorageStep
<1> QED BY <1>1, <1>2, PTL DEF SearchSpec

(* VerifiedReportWasStored: a report whose answer verifies recommends what *)
(* the server has once stored, and posts whose descriptions verify say     *)
(* what one judgment has seen on their pages.                              *)
THEOREM VerifiedReportsWereStored == SearchSpec => []VerifiedReportWasStored
<1>1. StorageInv => VerifiedReportWasStored
  <2> SUFFICES ASSUME StorageInv
               PROVE  VerifiedReportWasStored
    OBVIOUS
  <2>1. Verifies => \E report \in accepted : Recommends(report) = Recommends(files.report)
    BY DEF Verifies, Matches, Has, StorageInv
  <2>2. ASSUME VerifiesStorage
        PROVE  \E judgment \in judged :
                 /\ Judges(judgment, judgment.digest)
                 /\ LET seen == ResultsOf(judgment.digest, Selected(judgment.decisions))
                    IN [i \in DOMAIN published.results |->
                          PageSays(board[published.results[i].candidate.post.sourceKey])] =
                       [i \in DOMAIN seen |-> PageSays(seen[i].candidate)]
    <3>1. PICK judgment \in judged :
            /\ Judges(judgment, judgment.digest)
            /\ files.report.results = ResultsOf(judgment.digest, Selected(judgment.decisions))
      BY <2>2 DEF VerifiesStorage, Has, StorageInv, FileFollowsJudgment
    <3>2. PICK seen : seen = ResultsOf(judgment.digest, Selected(judgment.decisions))
      OBVIOUS
    <3>3. /\ DOMAIN published.results = DOMAIN seen
          /\ \A i \in DOMAIN published.results :
               PageSays(board[published.results[i].candidate.post.sourceKey]) = PageSays(seen[i].candidate)
      BY <2>2, <3>1, <3>2 DEF VerifiesStorage, Describes, PageSays
    <3>4. [i \in DOMAIN published.results |->
             PageSays(board[published.results[i].candidate.post.sourceKey])] =
          [i \in DOMAIN seen |-> PageSays(seen[i].candidate)]
      BY <3>3
    <3> QED BY <3>1, <3>2, <3>4
  <2> QED BY <2>1, <2>2 DEF VerifiedReportWasStored
<1> QED BY <1>1, StorageInvariant, PTL

-----------------------------------------------------------------------------
(* A tracked post and its contact (Tracking): first what is so of a row    *)
(* after any number of updates, by induction over them, then the invariant *)
(* and the theorems.                                                       *)

\* Every set of naturals has a least one.
LEMMA LeastNumber ==
  ASSUME NEW S \in SUBSET Nat, S # {}
  PROVE  \E m \in S : \A k \in S : m <= k
<1>1. IsWellFoundedOn(OpToRel(<, Nat), Nat)
  BY NatLessThanWellFounded
<1>2. PICK R : R = OpToRel(<, Nat)
  OBVIOUS
<1>3. R = {ss \in Nat \X Nat : ss[1] < ss[2]}
  BY <1>2 DEF OpToRel
<1>4. IsWellFoundedOn(R, Nat)
  BY <1>1, <1>2
<1>5. PICK m \in S : \A k \in S : ~ (<<k, m>> \in R)
  BY <1>4, WFMin
<1>6. \A k \in S : ~ (k < m)
  BY <1>3, <1>5
<1> QED BY <1>6

\* What is so of 0, and of each number after one it is so of, is so of them all.
LEMMA UpTo ==
  ASSUME NEW N \in Nat, NEW Good \in SUBSET (0 .. N), 0 \in Good,
         \A k \in 1 .. N : k - 1 \in Good => k \in Good
  PROVE  N \in Good
<1>1. PICK bad : bad = (0 .. N) \ Good
  OBVIOUS
<1>2. SUFFICES ASSUME bad # {} PROVE FALSE
  BY <1>1
<1>3. bad \in SUBSET Nat
  BY <1>1
<1>4. PICK m \in bad : \A k \in bad : m <= k
  BY <1>2, <1>3, LeastNumber
<1>5. m \in 0 .. N /\ m \notin Good
  BY <1>1, <1>4
<1>6. m \in 1 .. N
  BY <1>5
<1>7. m - 1 \notin bad
  BY <1>4, <1>6
<1>8. m - 1 \in 0 .. N
  BY <1>6
<1>9. m - 1 \in Good
  BY <1>1, <1>7, <1>8
<1> QED BY <1>5, <1>6, <1>9

\* Iteration: base and what the steps make of it, one after another.
Iteration(f, N, Row, base, move) ==
  /\ f \in [0 .. N -> Row]
  /\ f[0] = base
  /\ \A k \in 1 .. N : f[k] = move[k][f[k - 1]]

\* Repeating a step is well defined.
LEMMA Iterated ==
  ASSUME NEW N \in Nat, NEW Row, NEW base \in Row, NEW move \in [1 .. N -> [Row -> Row]]
  PROVE  \E f : Iteration(f, N, Row, base, move)
<1> DEFINE Ran(m, f) ==
      f[0] = base /\ \A k \in 1 .. m : f[k] = move[k][f[k - 1]]
<1>1. PICK good : good = {m \in 0 .. N : \E f \in [0 .. m -> Row] : Ran(m, f)}
  OBVIOUS
<1>2. 0 \in good
  <2>1. PICK f : f = [k \in 0 .. 0 |-> base]
    OBVIOUS
  <2>2. f \in [0 .. 0 -> Row] /\ Ran(0, f)
    BY <2>1
  <2> QED BY <1>1, <2>2
<1>3. ASSUME NEW m \in 1 .. N, m - 1 \in good
      PROVE  m \in good
  <2>1. PICK f \in [0 .. m - 1 -> Row] : Ran(m - 1, f)
    BY <1>1, <1>3
  <2>2. PICK last : last = move[m][f[m - 1]]
    OBVIOUS
  <2>3. m - 1 \in 0 .. m - 1
    OBVIOUS
  <2>4. f[m - 1] \in Row
    BY <2>3
  <2>5. last \in Row
    BY <2>2, <2>4
  <2>6. PICK g : g = [k \in 0 .. m |-> IF k = m THEN last ELSE f[k]]
    OBVIOUS
  <2>7. g \in [0 .. m -> Row]
    BY <2>5, <2>6
  <2>8. g[0] = base
    BY <2>1, <2>6
  <2>9. ASSUME NEW k \in 1 .. m
        PROVE  g[k] = move[k][g[k - 1]]
    <3>1. k - 1 \in 0 .. m /\ k - 1 # m /\ g[k - 1] = f[k - 1]
      BY <2>6
    <3>2. CASE k = m
      BY <2>2, <2>6, <3>1, <3>2
    <3>3. CASE k # m
      <4>1. k \in 1 .. m - 1 /\ g[k] = f[k]
        BY <2>6, <3>3
      <4> QED BY <2>1, <3>1, <4>1
    <3> QED BY <3>2, <3>3
  <2>10. Ran(m, g)
    BY <2>8, <2>9
  <2>11. m \in 0 .. N
    OBVIOUS
  <2> HIDE DEF Ran
  <2> QED BY <1>1, <2>7, <2>10, <2>11
<1>4. good \in SUBSET (0 .. N)
  BY <1>1
<1>5. \A k \in 1 .. N : k - 1 \in good => k \in good
  BY <1>3
<1>6. N \in good
  <2> HIDE DEF Ran
  <2> QED BY <1>2, <1>4, <1>5, UpTo
<1> QED BY <1>1, <1>6 DEF Iteration

LEMMA OrderIsSequence ==
  ASSUME NEW n \in Nat, NEW events, NEW seq \in [1 .. n -> events]
  PROVE  Len(seq) = n
<1>1. seq \in Seq(events)
  BY SeqDef
<1>2. Len(seq) \in Nat /\ DOMAIN seq = 1 .. Len(seq)
  BY <1>1, LenProperties
<1>3. DOMAIN seq = 1 .. n
  OBVIOUS
<1> QED BY <1>2, <1>3

\* What every update keeps is so of the row that is written.
LEMMA RowsAfterAll ==
  ASSUME NEW Row, [post |-> post, contact |-> contact] \in Row,
         NEW n \in Nat, NEW events, NEW seq \in [1 .. n -> events],
         \A row \in Row, e \in events : ObserveBoth(row, e) \in Row
  PROVE  RowsAfter(seq) \in Row
<1>1. PICK first : first = [post |-> post, contact |-> contact]
  OBVIOUS
<1>2. PICK move : move = [k \in 1 .. n |-> [row \in Row |-> ObserveBoth(row, seq[k])]]
  OBVIOUS
<1>3. move \in [1 .. n -> [Row -> Row]]
  <2>1. ASSUME NEW k \in 1 .. n
        PROVE  [row \in Row |-> ObserveBoth(row, seq[k])] \in [Row -> Row]
    <3>1. PICK e \in events : e = seq[k]
      OBVIOUS
    <3>2. \A row \in Row : ObserveBoth(row, e) \in Row
      OBVIOUS
    <3>3. [row \in Row |-> ObserveBoth(row, e)] \in [Row -> Row]
      BY <3>2
    <3> QED BY <3>1, <3>3
  <2>2. ASSUME NEW k \in 1 .. n
        PROVE  move[k] \in [Row -> Row]
    <3>1. move[k] = [row \in Row |-> ObserveBoth(row, seq[k])]
      BY <1>2
    <3> QED BY <2>1, <3>1, Zenon
  <2>3. move = [k \in 1 .. n |-> move[k]]
    <3>1. DOMAIN move = 1 .. n
      BY <1>2
    <3>2. PICK s \in [1 .. n -> {move[k] : k \in 1 .. n}] : s = move
      BY <1>2
    <3> QED BY <3>1, <3>2
  <2> QED BY <2>2, <2>3
<1>4. PICK f \in [0 .. n -> Row] :
        f[0] = first /\ \A k \in 1 .. n : f[k] = move[k][f[k - 1]]
  <2>1. first \in Row
    BY <1>1
  <2>2. PICK f : Iteration(f, n, Row, first, move)
    BY <1>3, <2>1, Iterated
  <2> QED BY <2>2 DEF Iteration
<1>5. ASSUME NEW k \in 1 .. n
      PROVE  f[k - 1] \in Row /\ f[k] = ObserveBoth(f[k - 1], seq[k])
  <2>1. k - 1 \in 0 .. n
    OBVIOUS
  <2>2. f[k - 1] \in Row
    BY <2>1
  <2>3. move[k][f[k - 1]] = ObserveBoth(f[k - 1], seq[k])
    BY <1>2, <2>2
  <2> QED BY <1>4, <2>2, <2>3
<1>6. f = [k \in 0 .. n |-> IF k = 0 THEN first ELSE ObserveBoth(f[k - 1], seq[k])]
  <2>1. ASSUME NEW k \in 0 .. n
        PROVE  f[k] = IF k = 0 THEN first ELSE ObserveBoth(f[k - 1], seq[k])
    <3>1. CASE k = 0
      BY <1>4, <3>1
    <3>2. CASE k # 0
      <4>1. k \in 1 .. n
        BY <3>2
      <4> QED BY <1>5, <3>2, <4>1
    <3> QED BY <3>1, <3>2
  <2>2. f = [k \in 0 .. n |-> f[k]]
    OBVIOUS
  <2> QED BY <2>1, <2>2, Zenon
<1>7. PICK g : g = CHOOSE h : h = [k \in 0 .. n |-> IF k = 0 THEN first
                                                    ELSE ObserveBoth(h[k - 1], seq[k])]
  OBVIOUS
<1>8. g = [k \in 0 .. n |-> IF k = 0 THEN first ELSE ObserveBoth(g[k - 1], seq[k])]
  BY <1>6, <1>7, Zenon
<1>9. Len(seq) = n
  BY OrderIsSequence
<1>10. RowsAfter(seq) = g[n]
  BY <1>1, <1>7, <1>9, Zenon DEF RowsAfter
<1>11. PICK good : good = {k \in 0 .. n : g[k] \in Row}
  OBVIOUS
<1>12. 0 \in good
  <2>1. g[0] = first
    BY <1>8
  <2> QED BY <1>1, <1>11, <2>1
<1>13. ASSUME NEW k \in 1 .. n, k - 1 \in good
       PROVE  k \in good
  <2>1. k \in 0 .. n /\ k # 0
    OBVIOUS
  <2>2. g[k] = ObserveBoth(g[k - 1], seq[k])
    BY <1>8, <2>1
  <2>3. g[k - 1] \in Row /\ seq[k] \in events
    BY <1>11, <1>13
  <2>4. g[k] \in Row
    BY <2>2, <2>3
  <2> QED BY <1>11, <2>1, <2>4
<1>14. good \in SUBSET (0 .. n)
  BY <1>11
<1>15. \A k \in 1 .. n : k - 1 \in good => k \in good
  BY <1>13
<1>16. n \in good
  BY <1>12, <1>14, <1>15, UpTo
<1> QED BY <1>10, <1>11, <1>16

-----------------------------------------------------------------------------

SlotsType ==
  /\ slots \in [Slots -> {Idle} \union Running]
  /\ \A s \in Slots : slots[s] # Idle =>
       /\ slots[s].input.kind = slots[s].kind
       /\ \A e \in slots[s].events : e.at <= MaxTime + 1

\* One change of the status at a time, and what it has read is what the
\* manual activities tell: evidence adds none, and leaves the date alone.
StatusReadsAreTold ==
  /\ \A s, t \in Slots : slots[s].kind = "status" /\ slots[t].kind = "status" => s = t
  /\ \A s \in Slots : slots[s].kind = "status" =>
       StatusTold(slots[s].post, manual) /\ slots[s].post.appliedAt = post.appliedAt

TrackInv ==
  /\ TrackTypeOK /\ clock \in Time
  /\ SlotsType
  /\ StatusReadsAreTold
  /\ TimelineMatchesRecords

LEMMA StageOf ==
  /\ Stage["not-applied"] = 0 /\ Stage["awaiting-response"] = 1
  /\ Stage["interviewing"] = 2 /\ Stage["rejected"] = 3 /\ Stage["hired"] = 3
BY DEF Stage, Statuses

LEMMA TrackInitInv == TrackInit => TrackInv
<1> SUFFICES ASSUME TrackInit PROVE TrackInv
  OBVIOUS
<1>1. TrackTypeOK /\ clock \in Time
  BY BoundsAssumption
  DEF TrackInit, TrackTypeOK, PostRow, ContactRow, Statuses, MaybeTime, Time
<1>2. SlotsType
  BY DEF TrackInit, SlotsType
<1>3. StatusReadsAreTold
  BY DEF TrackInit, StatusReadsAreTold, Idle
<1>4. TimelineMatchesRecords
  BY NoneAssumption
  DEF TrackInit, TimelineMatchesRecords, TimelineMatchesStatus, TimelineMatchesContact, StatusTold,
      StatusNotes, ContactNotes
<1> QED BY <1>1, <1>2, <1>3, <1>4 DEF TrackInv

LEMMA DoneKeeps ==
  ASSUME SlotsType, NEW s \in Slots, Done(s)
  PROVE  /\ SlotsType' /\ clock' = clock
         /\ slots'[s] = Idle
         /\ \A t \in Slots : slots'[t] # Idle => slots'[t] = slots[t] /\ t # s
<1>1. slots \in [Slots -> {Idle} \union Running] /\ slots' = [slots EXCEPT ![s] = Idle]
  BY DEF SlotsType, Done
<1>2. slots' \in [Slots -> {Idle} \union Running]
  BY <1>1, Zenon
<1>3. \A t \in Slots : slots'[t] = IF t = s THEN Idle ELSE slots[t]
  BY <1>1, Zenon
<1> QED BY <1>2, <1>3 DEF SlotsType, Done

LEMMA ReadKeeps ==
  ASSUME TrackInv, NEW s \in Slots, NEW input \in Requested, Read(s, input)
  PROVE  /\ SlotsType'
         /\ slots'[s].kind = input.kind /\ slots'[s].post = post
         /\ \A t \in Slots : t # s => slots'[t] = slots[t]
<1>1. PICK new : new =
        [kind |-> input.kind, input |-> input, now |-> clock, post |-> post,
         contact |-> contact,
         events |-> IF input.kind # "check" THEN {}
                    ELSE {e \in input.events : /\ e.at <= clock + 1 /\ IsCurrent(e)
                                               /\ e.id \notin observed}]
  OBVIOUS
<1>2. slots \in [Slots -> {Idle} \union Running] /\ slots' = [slots EXCEPT ![s] = new]
  BY <1>1 DEF TrackInv, SlotsType, Read
<1>3. input.kind \in {"status", "contact", "check"} /\ (input.kind = "check" => input.events \subseteq Events)
  BY DEF Requested
<1>4. new.events \subseteq Events /\ \A e \in new.events : e.at <= clock + 1
  BY <1>1, <1>3
<1>5. \A e \in Events : e.at \in Nat
  BY EventsAssumption
<1>6. clock \in Nat /\ clock <= MaxTime
  BY BoundsAssumption DEF TrackInv, Time
<1>7. \A e \in new.events : e.at <= MaxTime + 1
  BY <1>4, <1>5, <1>6, BoundsAssumption
<1>8. new \in Running
  <2>1. post \in PostRow /\ contact \in ContactRow \union {None} /\ clock \in Time
    BY DEF TrackInv, TrackTypeOK
  <2>2. new = [kind |-> new.kind, input |-> new.input, now |-> new.now, post |-> new.post,
               contact |-> new.contact, events |-> new.events]
    BY <1>1
  <2>3. new.kind = input.kind /\ new.input = input /\ new.now = clock /\ new.post = post
        /\ new.contact = contact
    BY <1>1
  <2> QED BY <1>3, <1>4, <2>1, <2>2, <2>3 DEF Running
<1>9. \A t \in Slots : slots'[t] = IF t = s THEN new ELSE slots[t]
  BY <1>2, Zenon
<1>10. slots' \in [Slots -> {Idle} \union Running]
  BY <1>2, <1>8, Zenon
<1>11. new.kind = input.kind /\ new.input = input /\ new.post = post
  BY <1>1
<1>12. \A t \in Slots : slots'[t] # Idle =>
         /\ slots'[t].input.kind = slots'[t].kind
         /\ \A e \in slots'[t].events : e.at <= MaxTime + 1
  BY <1>7, <1>9, <1>11 DEF TrackInv, SlotsType
<1> QED BY <1>9, <1>10, <1>11, <1>12 DEF SlotsType

\* A transaction that is begun changes no row.
LEMMA BegunKeeps ==
  ASSUME TrackInv, NEW s \in Slots, NEW input \in Requested, Read(s, input),
         input.kind = "status" => \A t \in Slots : slots[t].kind # "status"
  PROVE  TrackInv'
<1>1. /\ SlotsType'
      /\ slots'[s].kind = input.kind /\ slots'[s].post = post
      /\ \A t \in Slots : t # s => slots'[t] = slots[t]
  BY ReadKeeps
<1>2. UNCHANGED <<post, contact, manual, observed, clock>>
  BY DEF Read, rowVars
<1>3. TrackTypeOK' /\ (clock \in Time)'
  BY <1>1, <1>2 DEF TrackInv, TrackTypeOK, SlotsType
<1>4. TimelineMatchesRecords' /\ manual' = manual
  BY <1>2
  DEF TrackInv, TimelineMatchesRecords, TimelineMatchesStatus, TimelineMatchesContact, rowVars
<1>5. StatusReadsAreTold'
  <2>1. ASSUME NEW t \in Slots, NEW u \in Slots,
               slots'[t].kind = "status", slots'[u].kind = "status"
        PROVE  t = u
    BY <1>1, <2>1 DEF TrackInv, StatusReadsAreTold
  <2>2. ASSUME NEW t \in Slots, slots'[t].kind = "status"
        PROVE  StatusTold(slots'[t].post, manual') /\ slots'[t].post.appliedAt = post'.appliedAt
    <3>1. CASE t = s
      <4>1. slots'[t].post = post /\ post' = post /\ StatusTold(post', manual')
        BY <1>1, <1>2, <1>4, <3>1 DEF TimelineMatchesRecords, TimelineMatchesStatus
      <4> QED BY <4>1
    <3>2. CASE t # s
      <4>1. slots'[t] = slots[t] /\ StatusTold(slots[t].post, manual) /\ slots[t].post.appliedAt = post.appliedAt
        BY <1>1, <2>2, <3>2 DEF TrackInv, StatusReadsAreTold
      <4> QED BY <1>2, <1>4, <4>1
    <3> QED BY <3>1, <3>2
  <2> QED BY <2>1, <2>2 DEF StatusReadsAreTold
<1> QED BY <1>1, <1>3, <1>4, <1>5 DEF TrackInv

LEMMA CountOf ==
  ASSUME manual \in [StatusNotes \union ContactNotes -> Nat], NEW clear, NEW add
  PROVE  /\ Count(clear, add) \in [StatusNotes \union ContactNotes -> Nat]
         /\ \A n \in StatusNotes \union ContactNotes :
              /\ n \notin clear /\ n \notin add => Count(clear, add)[n] = manual[n]
              /\ n \in clear /\ n \notin add => Count(clear, add)[n] = 0
              /\ n \in clear /\ n \in add => Count(clear, add)[n] = 1
              /\ n \notin clear /\ n \in add => Count(clear, add)[n] = manual[n] + 1
BY DEF Count

LEMMA WriteStatusKeeps ==
  ASSUME TrackInv, NEW s \in Slots, WriteStatus(s)
  PROVE  TrackInv'
<1>1. PICK t : t = slots[s]
  OBVIOUS
<1>2. PICK from, to : from = t.post.status /\ to = t.input.status
  OBVIOUS
<1>3. t \in Running /\ t.kind = "status" /\ t.input.kind = "status"
  <2>1. slots[s].kind = "status"
    BY DEF WriteStatus
  <2> QED BY <1>1, <2>1 DEF TrackInv, SlotsType, Idle
<1>4. t.post \in PostRow /\ t.now \in Time /\ t.input \in Requested
  BY <1>3 DEF Running
<1>5. from \in Statuses /\ to \in Statuses
  <2>1. from \in Statuses
    BY <1>2, <1>4 DEF PostRow
  <2>2. to \in Statuses
    BY <1>2, <1>3, <1>4 DEF Requested
  <2> QED BY <2>1, <2>2
<1>6. StatusTold(t.post, manual) /\ t.post.appliedAt = post.appliedAt
  BY <1>1, <1>3 DEF TrackInv, StatusReadsAreTold
<1>7. /\ SlotsType' /\ clock' = clock
      /\ \A u \in Slots : slots'[u] # Idle => slots'[u] = slots[u] /\ u # s
  BY DoneKeeps DEF TrackInv, WriteStatus
<1>8. manual \in [StatusNotes \union ContactNotes -> Nat] /\ post \in PostRow
  BY DEF TrackInv, TrackTypeOK
<1>9. /\ post' \in PostRow /\ manual' \in [StatusNotes \union ContactNotes -> Nat]
      /\ StatusTold(post', manual')
      /\ \A n \in ContactNotes : manual'[n] = manual[n]
  <2>1. CASE from = to
    <3>1. post' = [post EXCEPT !.status = to] /\ manual' = manual
      BY <1>1, <1>2, <2>1 DEF WriteStatus
    <3>2. post' \in PostRow /\ post'.status = to /\ post'.appliedAt = post.appliedAt
      BY <1>5, <1>8, <3>1 DEF PostRow
    <3>3. StatusTold(post', manual')
      BY <1>2, <1>6, <2>1, <3>1, <3>2 DEF StatusTold
    <3> QED BY <1>8, <3>1, <3>2, <3>3
  <2>2. CASE from # to
    <3>1. /\ post' = [status |-> to, statusAt |-> t.now,
                      appliedAt |-> IF to = "not-applied" THEN None
                                    ELSE IF t.post.appliedAt = None THEN t.now
                                    ELSE t.post.appliedAt]
          /\ manual' = Count(Cleared(from, to), Noted(from, to))
      BY <1>1, <1>2, <2>2 DEF WriteStatus
    <3>2. t.now \in Nat /\ t.now \in MaybeTime /\ t.post.appliedAt \in MaybeTime /\ None \in MaybeTime
      BY <1>4, BoundsAssumption DEF PostRow, Time, MaybeTime
    <3>3. post' \in PostRow
      BY <1>5, <3>1, <3>2 DEF PostRow
    <3>4. post'.status = to /\ (post'.appliedAt = None <=> to = "not-applied")
      BY <3>1, <3>2, NoneAssumption
    <3>5. PICK clear, add : clear = Cleared(from, to) /\ add = Noted(from, to)
      OBVIOUS
    <3>6. /\ manual' \in [StatusNotes \union ContactNotes -> Nat]
          /\ \A n \in StatusNotes \union ContactNotes :
              /\ n \notin clear /\ n \notin add => manual'[n] = manual[n]
              /\ n \in clear /\ n \notin add => manual'[n] = 0
              /\ n \in clear /\ n \in add => manual'[n] = 1
              /\ n \notin clear /\ n \in add => manual'[n] = manual[n] + 1
      BY <1>8, <3>1, <3>5, CountOf
    <3>7. clear \subseteq StatusNotes /\ add \subseteq StatusNotes
      BY <1>5, <2>2, <3>5, StageOf DEF Cleared, Noted, StatusNotes, Statuses
    <3>8. \A n \in ContactNotes : manual'[n] = manual[n]
      BY <3>6, <3>7 DEF StatusNotes, ContactNotes
    <3>9. ASSUME NEW n \in StatusNotes, manual'[n] # 0
          PROVE  /\ manual'[n] = 1
                 /\ n = "submitted" => to # "not-applied"
                 /\ n = "interviewing" => Stage[to] >= 2
                 /\ n \in Outcome => to = n
      <4>1. /\ manual[n] # 0 => manual[n] = 1 /\ (n = "submitted" => from # "not-applied")
                                /\ (n = "interviewing" => Stage[from] >= 2)
                                /\ (n \in Outcome => from = n)
            /\ manual[n] \in Nat
        BY <1>2, <1>6, <1>8 DEF StatusTold
      <4>2. CASE n \in clear
        <5>1. n \in add
          BY <3>6, <3>9, <4>2
        <5>2. manual'[n] = 1
          BY <3>6, <4>2, <5>1
        <5> QED BY <1>5, <3>5, <5>1, <5>2, StageOf DEF Noted, StatusNotes, Statuses, Outcome
      <4>3. CASE n \notin clear
        <5>1. CASE n \in add
          <6>1. manual[n] = 0
            BY <1>5, <2>2, <3>5, <4>1, <4>3, <5>1, StageOf
            DEF Noted, Cleared, StatusNotes, Statuses, Outcome
          <6>2. manual'[n] = 1
            BY <3>6, <4>3, <5>1, <6>1
          <6> QED BY <1>5, <3>5, <5>1, <6>2, StageOf DEF Noted, StatusNotes, Statuses, Outcome
        <5>2. CASE n \notin add
          <6>1. manual'[n] = manual[n] /\ manual[n] # 0
            BY <3>6, <3>9, <4>3, <5>2
          <6> QED BY <1>5, <2>2, <3>5, <4>1, <4>3, <6>1, StageOf
                  DEF Cleared, StatusNotes, Statuses, Outcome
        <5> QED BY <5>1, <5>2
      <4> QED BY <4>2, <4>3
    <3>10. StatusTold(post', manual')
      BY <3>4, <3>9 DEF StatusTold
    <3> QED BY <3>3, <3>6, <3>8, <3>10
  <2> QED BY <2>1, <2>2
<1>10. contact' = contact /\ observed' = observed
  BY DEF WriteStatus
<1>11. TimelineMatchesRecords'
  BY <1>9, <1>10
  DEF TrackInv, TimelineMatchesRecords, TimelineMatchesStatus, TimelineMatchesContact, ContactNotes
<1>12. StatusReadsAreTold'
  <2>1. \A u \in Slots : slots'[u].kind # "status"
    BY <1>1, <1>3, <1>7 DEF TrackInv, StatusReadsAreTold, Idle
  <2> QED BY <2>1 DEF StatusReadsAreTold
<1>13. TrackTypeOK' /\ (clock \in Time)'
  BY <1>7, <1>9, <1>10 DEF TrackInv, TrackTypeOK, SlotsType
<1> QED BY <1>7, <1>11, <1>12, <1>13 DEF TrackInv

\* What a status change has read stays told when the manual activities of
\* the post and its date are left alone.
LEMMA StatusReadsKept ==
  ASSUME TrackInv,
         \A u \in Slots : slots'[u].kind = "status" => slots'[u] = slots[u],
         \A n \in StatusNotes : manual'[n] = manual[n],
         post'.appliedAt = post.appliedAt
  PROVE  StatusReadsAreTold'
<1>1. ASSUME NEW t \in Slots, NEW u \in Slots,
             slots'[t].kind = "status", slots'[u].kind = "status"
      PROVE  t = u
  BY <1>1 DEF TrackInv, StatusReadsAreTold
<1>2. ASSUME NEW t \in Slots, slots'[t].kind = "status"
      PROVE  StatusTold(slots'[t].post, manual') /\ slots'[t].post.appliedAt = post'.appliedAt
  <2>1. slots'[t] = slots[t]
    BY <1>2
  <2>2. StatusTold(slots[t].post, manual) /\ slots[t].post.appliedAt = post.appliedAt
    BY <1>2, <2>1 DEF TrackInv, StatusReadsAreTold
  <2>3. StatusTold(slots[t].post, manual')
    BY <2>2 DEF StatusTold
  <2> QED BY <2>1, <2>2, <2>3
<1> QED BY <1>1, <1>2 DEF StatusReadsAreTold

\* The fields of a contact fit each other.
RowSound(row) ==
  /\ row.respondedAt # None => row.messaged
  /\ row.messaged <=> row.messagedAt # None

LEMMA UpdatedIsSound ==
  ASSUME NEW row \in ContactRow, RowSound(row), NEW t \in Running, t.contact # None,
         t.input.kind = "contact"
  PROVE  Updated(row, t) \in ContactRow /\ RowSound(Updated(row, t))
<1>1. t.contact \in ContactRow /\ t.now \in Nat /\ t.now \in MaybeTime /\ None \in MaybeTime
  BY BoundsAssumption DEF Running, Time, MaybeTime
<1>2. t.now # None
  BY <1>1, NoneAssumption
<1>3. t.input.messaged \in Maybe /\ t.input.responded \in Maybe
  BY DEF Running, Requested
<1> DEFINE messaged == IF t.input.responded = "yes" THEN "yes" ELSE t.input.messaged
<1>4. PICK sent : sent =
        IF messaged = "absent" THEN row
        ELSE IF messaged = "no"
        THEN [messaged |-> FALSE, messagedAt |-> None, respondedAt |-> None, responseAt |-> t.now]
        ELSE [row EXCEPT
                !.messaged = TRUE,
                !.messagedAt = IF t.contact.messagedAt = None THEN t.now ELSE t.contact.messagedAt,
                !.responseAt = IF t.contact.messaged THEN row.responseAt ELSE t.now]
  OBVIOUS
<1>5. sent \in ContactRow /\ RowSound(sent) /\ (messaged = "yes" => sent.messaged)
  <2>1. CASE messaged = "absent"
    BY <1>4, <2>1
  <2>2. CASE messaged = "no"
    BY <1>1, <1>4, <2>2 DEF ContactRow, RowSound
  <2>3. CASE messaged # "absent" /\ messaged # "no"
    BY <1>1, <1>2, <1>4, <2>3 DEF ContactRow, RowSound
  <2> QED BY <2>1, <2>2, <2>3
<1>6. Updated(row, t) =
        IF t.input.responded = "absent" THEN sent
        ELSE [sent EXCEPT !.respondedAt = IF t.input.responded = "yes" THEN t.now ELSE None,
                          !.responseAt = t.now]
  BY <1>4 DEF Updated
<1>7. PICK written : written = Updated(row, t)
  OBVIOUS
<1>8. CASE t.input.responded = "absent"
  BY <1>5, <1>6, <1>8
<1>9. CASE t.input.responded # "absent"
  <2>1. written = [sent EXCEPT !.respondedAt = IF t.input.responded = "yes" THEN t.now ELSE None,
                               !.responseAt = t.now]
    BY <1>6, <1>7, <1>9
  <2>2. written \in ContactRow
    BY <1>1, <1>5, <2>1 DEF ContactRow
  <2>3. /\ written.messaged = sent.messaged /\ written.messagedAt = sent.messagedAt
        /\ written.respondedAt = IF t.input.responded = "yes" THEN t.now ELSE None
    BY <1>5, <2>1 DEF ContactRow
  <2>4. t.input.responded = "yes" => sent.messaged
    BY <1>5
  <2>5. RowSound(written)
    BY <1>5, <2>3, <2>4 DEF RowSound
  <2> QED BY <1>7, <2>2, <2>5
<1> QED BY <1>8, <1>9

LEMMA WriteContactKeeps ==
  ASSUME TrackInv, NEW s \in Slots, WriteContact(s)
  PROVE  TrackInv'
<1>1. PICK t : t = slots[s]
  OBVIOUS
<1>2. t \in Running /\ t.input.kind = "contact"
  <2>1. slots[s].kind = "contact"
    BY DEF WriteContact
  <2> QED BY <1>1, <2>1 DEF TrackInv, SlotsType, Idle
<1>3. /\ SlotsType' /\ clock' = clock
      /\ \A u \in Slots : slots'[u] # Idle => slots'[u] = slots[u] /\ u # s
  BY DoneKeeps DEF TrackInv, WriteContact
<1>4. post' = post /\ observed' = observed
  BY DEF WriteContact
<1>5. /\ contact' \in ContactRow \union {None}
      /\ manual' \in [StatusNotes \union ContactNotes -> Nat]
      /\ \A n \in StatusNotes : manual'[n] = manual[n]
      /\ TimelineMatchesContact'
  <2>1. CASE None \in {contact, t.contact}
    <3>1. contact' = contact /\ manual' = manual
      BY <1>1, <2>1 DEF WriteContact
    <3> QED BY <3>1 DEF TrackInv, TrackTypeOK, TimelineMatchesRecords, TimelineMatchesContact
  <2>2. CASE None \notin {contact, t.contact}
    <3>1. /\ contact' = Updated(contact, t)
          /\ manual' = Count(ContactCleared(t.contact, contact'), ContactNoted(t.contact, contact'))
      BY <1>1, <2>2 DEF WriteContact
    <3>2. contact \in ContactRow /\ RowSound(contact)
      BY <2>2 DEF TrackInv, TrackTypeOK, TimelineMatchesRecords, TimelineMatchesContact, RowSound
    <3>3. t.contact \in ContactRow /\ t.contact # None
      BY <1>2, <2>2 DEF Running
    <3>4. PICK written : written = contact'
      OBVIOUS
    <3>5. written \in ContactRow /\ RowSound(written)
      BY <1>2, <3>1, <3>2, <3>3, <3>4, UpdatedIsSound
    <3>6. PICK clear, add : /\ clear = ContactCleared(t.contact, written)
                            /\ add = ContactNoted(t.contact, written)
      OBVIOUS
    <3>7. manual \in [StatusNotes \union ContactNotes -> Nat]
      BY DEF TrackInv, TrackTypeOK
    <3>8. /\ manual' \in [StatusNotes \union ContactNotes -> Nat]
          /\ \A n \in StatusNotes \union ContactNotes :
              /\ n \notin clear /\ n \notin add => manual'[n] = manual[n]
              /\ n \in clear /\ n \notin add => manual'[n] = 0
              /\ n \in clear /\ n \in add => manual'[n] = 1
              /\ n \notin clear /\ n \in add => manual'[n] = manual[n] + 1
      BY <3>1, <3>4, <3>6, <3>7, CountOf
    <3>9. clear \subseteq ContactNotes /\ add \subseteq ContactNotes
      BY <3>6 DEF ContactCleared, ContactNoted, ContactNotes
    <3>10. \A n \in StatusNotes : manual'[n] = manual[n]
      BY <3>8, <3>9 DEF StatusNotes, ContactNotes
    <3>11. /\ manual["sent"] # 0 => manual["sent"] = 1
           /\ manual["response"] # 0 => manual["response"] = 1
      BY <2>2 DEF TrackInv, TimelineMatchesRecords, TimelineMatchesContact
    <3>12. manual'["sent"] # 0 => manual'["sent"] = 1 /\ written.messaged
      BY <3>3, <3>5, <3>6, <3>8, <3>11 DEF ContactCleared, ContactNoted, ContactNotes, ContactRow
    <3>13. manual'["response"] # 0 => manual'["response"] = 1 /\ written.respondedAt # None
      BY <3>3, <3>5, <3>6, <3>8, <3>11 DEF ContactCleared, ContactNoted, ContactNotes, ContactRow
    <3>14. TimelineMatchesContact'
      BY <3>4, <3>5, <3>12, <3>13 DEF TimelineMatchesContact, RowSound
    <3> QED BY <3>4, <3>5, <3>8, <3>10, <3>14
  <2> QED BY <2>1, <2>2
<1>6. StatusReadsAreTold'
  BY <1>3, <1>4, <1>5, StatusReadsKept DEF Idle
<1>7. TimelineMatchesStatus'
  BY <1>4, <1>5 DEF TrackInv, TimelineMatchesRecords, TimelineMatchesStatus, StatusTold
<1>8. TrackTypeOK' /\ (clock \in Time)'
  BY <1>3, <1>4, <1>5 DEF TrackInv, TrackTypeOK, SlotsType
<1> QED BY <1>3, <1>5, <1>6, <1>7, <1>8 DEF TrackInv, TimelineMatchesRecords

LEMMA RemoveContactKeeps ==
  ASSUME TrackInv, RemoveContact
  PROVE  TrackInv'
<1>1. /\ contact' = None /\ manual' = Count(ContactNotes, {})
      /\ UNCHANGED <<post, observed, clock, slots>>
  BY DEF RemoveContact
<1>2. manual \in [StatusNotes \union ContactNotes -> Nat]
  BY DEF TrackInv, TrackTypeOK
<1>3. /\ manual' \in [StatusNotes \union ContactNotes -> Nat]
      /\ \A n \in StatusNotes \union ContactNotes : n \notin ContactNotes => manual'[n] = manual[n]
  BY <1>1, <1>2, CountOf
<1>4. \A n \in StatusNotes : manual'[n] = manual[n]
  BY <1>3 DEF StatusNotes, ContactNotes
<1>5. SlotsType' /\ TrackTypeOK' /\ (clock \in Time)'
  BY <1>1, <1>3 DEF TrackInv, TrackTypeOK, SlotsType
<1>6. StatusReadsAreTold'
  BY <1>1, <1>4, StatusReadsKept
<1>7. TimelineMatchesRecords'
  BY <1>1, <1>4
  DEF TrackInv, TimelineMatchesRecords, TimelineMatchesStatus, TimelineMatchesContact, StatusTold
<1> QED BY <1>5, <1>6, <1>7 DEF TrackInv

\* The rows that evidence may make of these: the application has moved forward
\* past an older change, the contact may have answered, and no more than that.
Advanced(base) ==
  {row \in PostRow :
     /\ row.appliedAt = base.appliedAt
     /\ row # base =>
          /\ Stage[row.status] > Stage[base.status]
          /\ row.statusAt # None /\ IsAfter(row.statusAt, base.statusAt)
          /\ base.status \in Open}

Answered(base) ==
  {row \in ContactRow \union {None} :
     /\ row = None <=> base = None
     /\ row # None =>
          /\ row.messaged = base.messaged /\ row.messagedAt = base.messagedAt
          /\ row.respondedAt # base.respondedAt => row.respondedAt # None /\ row.messaged}

LEMMA ObserveAdvances ==
  ASSUME NEW base \in PostRow, NEW row \in Advanced(base), NEW e \in Events, e.at <= MaxTime + 1
  PROVE  Observe(row, e) \in Advanced(base)
<1>1. e.at \in Nat /\ e.at \in MaybeTime
  BY EventsAssumption, BoundsAssumption DEF MaybeTime
<1>2. CASE ~ Overrules(e, row)
  BY <1>2 DEF Observe
<1>3. CASE Overrules(e, row)
  <2>1. PICK new : new = Observe(row, e)
    OBVIOUS
  <2>2. new = [row EXCEPT !.status = e.status, !.statusAt = e.at] /\ row \in PostRow
    BY <1>3, <2>1 DEF Observe, Advanced
  <2>3. /\ e.status \in Statuses /\ row.status \in Open
        /\ Stage[e.status] > Stage[row.status]
        /\ IsAfter(e.at, row.statusAt)
    BY <1>3, StageOf DEF Overrules, Priors, Statuses, Outcome, Open
  <2>4. new \in PostRow /\ new.status = e.status /\ new.statusAt = e.at
        /\ new.appliedAt = row.appliedAt
    BY <1>1, <2>2, <2>3 DEF PostRow
  <2>5. row.appliedAt = base.appliedAt
    BY DEF Advanced
  <2>6. /\ Stage[new.status] > Stage[base.status]
        /\ IsAfter(new.statusAt, base.statusAt) /\ base.status \in Open
    <3>1. CASE row = base
      BY <2>3, <2>4, <3>1
    <3>2. CASE row # base
      <4>1. /\ Stage[row.status] > Stage[base.status]
            /\ row.statusAt # None /\ IsAfter(row.statusAt, base.statusAt)
            /\ base.status \in Open
        BY <3>2 DEF Advanced
      <4>2. Stage[new.status] > Stage[base.status]
        <5>1. row.status \in Statuses /\ base.status \in Statuses
          BY <2>2 DEF PostRow
        <5> QED BY <2>3, <2>4, <4>1, <5>1, StageOf DEF Statuses
      <4>3. IsAfter(new.statusAt, base.statusAt)
        <5>1. row.statusAt \in Nat /\ (base.statusAt = None \/ base.statusAt \in Nat)
          BY <2>2, <4>1, BoundsAssumption DEF PostRow, MaybeTime
        <5> QED BY <1>1, <2>3, <2>4, <4>1, <5>1 DEF IsAfter
      <4> QED BY <4>1, <4>2, <4>3
    <3> QED BY <3>1, <3>2
  <2>7. new.statusAt # None
    BY <1>1, <2>4, NoneAssumption
  <2> QED BY <2>1, <2>4, <2>5, <2>6, <2>7 DEF Advanced
<1> QED BY <1>2, <1>3

LEMMA ObserveAnswers ==
  ASSUME NEW base \in ContactRow \union {None}, NEW row \in Answered(base),
         NEW e \in Events, e.at <= MaxTime + 1
  PROVE  ObserveContact(row, e) \in Answered(base)
<1>1. e.at \in Nat /\ e.at \in MaybeTime /\ e.at # None
  BY EventsAssumption, BoundsAssumption, NoneAssumption DEF MaybeTime
<1>2. CASE ~ Answers(e, row)
  BY <1>2 DEF ObserveContact
<1>3. CASE Answers(e, row)
  <2>1. PICK new : new = ObserveContact(row, e)
    OBVIOUS
  <2>2. new = [row EXCEPT !.respondedAt = e.at, !.responseAt = e.at]
    BY <1>3, <2>1 DEF ObserveContact
  <2>3. row \in ContactRow /\ row # None /\ row.messaged
    BY <1>3 DEF Answers, Answered
  <2>4. new \in ContactRow /\ new.messaged = row.messaged /\ new.messagedAt = row.messagedAt
        /\ new.respondedAt = e.at
    BY <1>1, <2>2, <2>3 DEF ContactRow
  <2>5. new # None
    BY <2>4, NoneAssumption
  <2>6. base # None /\ row.messaged = base.messaged /\ row.messagedAt = base.messagedAt
    BY <2>3 DEF Answered
  <2> QED BY <1>1, <2>1, <2>3, <2>4, <2>5, <2>6 DEF Answered
<1> QED BY <1>2, <1>3

\* What a check writes, in whatever order the updates of one time are made.
LEMMA CheckWrites ==
  ASSUME TrackInv, NEW s \in Slots, WriteCheck(s)
  PROVE  post' \in Advanced(post) /\ contact' \in Answered(contact)
<1>1. post \in PostRow /\ contact \in ContactRow \union {None}
  BY DEF TrackInv, TrackTypeOK
<1>2. post \in Advanced(post) /\ contact \in Answered(contact)
  BY <1>1 DEF Advanced, Answered
<1>3. PICK new : new = {e \in slots[s].events : e.id \notin observed}
  OBVIOUS
<1>4. slots[s] \in Running
  BY DEF WriteCheck, TrackInv, SlotsType, Idle
<1>5. new \subseteq Events /\ \A e \in new : e.at <= MaxTime + 1
  BY <1>3, <1>4 DEF Running, TrackInv, SlotsType, Idle
<1>6. PICK n : n = Cardinality(new)
  OBVIOUS
<1>7. n \in Nat
  BY <1>5, <1>6, EventsAssumption, FS_Subset, FS_CardinalityType
<1>8. CASE UNCHANGED <<post, contact>>
  BY <1>2, <1>8
<1>9. ASSUME NEW seq \in ByTime(new),
             post' = RowsAfter(seq).post, contact' = RowsAfter(seq).contact
      PROVE  post' \in Advanced(post) /\ contact' \in Answered(contact)
  <2>1. seq \in [1 .. n -> new]
    BY <1>6 DEF ByTime
  <2>2. PICK Row : Row = [post : Advanced(post), contact : Answered(contact)]
    OBVIOUS
  <2>3. [post |-> post, contact |-> contact] \in Row
    BY <1>2, <2>2
  <2>4. ASSUME NEW row \in Row, NEW e \in new
        PROVE  ObserveBoth(row, e) \in Row
    <3>1. row.post \in Advanced(post) /\ row.contact \in Answered(contact)
      BY <2>2
    <3>2. e \in Events /\ e.at <= MaxTime + 1
      BY <1>5
    <3>3. Observe(row.post, e) \in Advanced(post)
      BY <1>1, <3>1, <3>2, ObserveAdvances
    <3>4. ObserveContact(row.contact, e) \in Answered(contact)
      BY <1>1, <3>1, <3>2, ObserveAnswers
    <3> QED BY <2>2, <3>3, <3>4 DEF ObserveBoth
  <2>5. RowsAfter(seq) \in Row
    BY <1>7, <2>1, <2>3, <2>4, RowsAfterAll
  <2> QED BY <1>9, <2>2, <2>5
<1> QED BY <1>3, <1>8, <1>9 DEF WriteCheck

LEMMA WriteCheckKeeps ==
  ASSUME TrackInv, NEW s \in Slots, WriteCheck(s)
  PROVE  TrackInv'
<1>1. post' \in Advanced(post) /\ contact' \in Answered(contact)
  BY CheckWrites
<1>2. /\ SlotsType' /\ clock' = clock
      /\ \A u \in Slots : slots'[u] # Idle => slots'[u] = slots[u] /\ u # s
  BY DoneKeeps DEF TrackInv, WriteCheck
<1>3. manual' = manual
  BY DEF WriteCheck
<1>4. post' \in PostRow /\ contact' \in ContactRow \union {None} /\ post'.appliedAt = post.appliedAt
  BY <1>1 DEF Advanced, Answered
<1>5. observed' \subseteq {e.id : e \in Events}
  <2>1. slots[s].events \subseteq Events
    <3>1. slots[s] \in Running
      BY DEF WriteCheck, TrackInv, SlotsType, Idle
    <3> QED BY <3>1 DEF Running
  <2>2. observed' = observed \/ observed' = observed \union {e.id : e \in {f \in slots[s].events : f.id \notin observed}}
    BY DEF WriteCheck
  <2>3. observed \subseteq {e.id : e \in Events}
    BY DEF TrackInv, TrackTypeOK
  <2> QED BY <2>1, <2>2, <2>3
<1>6. StatusReadsAreTold'
  BY <1>2, <1>3, <1>4, StatusReadsKept DEF Idle
<1>7. TimelineMatchesStatus'
  <2>1. StatusTold(post, manual) /\ post \in PostRow
    BY DEF TrackInv, TrackTypeOK, TimelineMatchesRecords, TimelineMatchesStatus
  <2>2. CASE post' = post
    BY <1>3, <2>1, <2>2 DEF TimelineMatchesStatus
  <2>3. CASE post' # post
    <3>1. Stage[post'.status] > Stage[post.status] /\ post.status \in Open
      BY <1>1, <2>3 DEF Advanced
    <3>2. post'.status \in Statuses /\ post.status \in Statuses
      BY <1>4, <2>1 DEF PostRow
    <3> QED BY <1>3, <1>4, <2>1, <3>1, <3>2, StageOf
            DEF TimelineMatchesStatus, StatusTold, StatusNotes, Statuses, Open, Outcome
  <2> QED BY <2>2, <2>3
<1>8. TimelineMatchesContact'
  BY <1>1, <1>3 DEF TrackInv, TimelineMatchesRecords, TimelineMatchesContact, Answered
<1>9. TrackTypeOK' /\ (clock \in Time)'
  BY <1>2, <1>3, <1>4, <1>5 DEF TrackInv, TrackTypeOK, SlotsType
<1> QED BY <1>2, <1>6, <1>7, <1>8, <1>9 DEF TrackInv, TimelineMatchesRecords

LEMMA TrackNextKeeps ==
  ASSUME TrackInv, [TrackNext]_trackVars
  PROVE  TrackInv'
<1>1. CASE UNCHANGED trackVars
  BY <1>1
  DEF trackVars, TrackInv, TrackTypeOK, SlotsType, StatusReadsAreTold, TimelineMatchesRecords,
      TimelineMatchesStatus, TimelineMatchesContact, StatusTold
<1>2. CASE Tick
  <2>1. clock' \in Time
    BY <1>2, BoundsAssumption DEF Tick, TrackInv, Time
  <2> QED BY <1>2, <2>1
      DEF Tick, TrackInv, TrackTypeOK, SlotsType, StatusReadsAreTold, TimelineMatchesRecords,
          TimelineMatchesStatus, TimelineMatchesContact, StatusTold
<1>3. CASE RemoveContact
  BY <1>3, RemoveContactKeeps
<1>4. ASSUME NEW s \in Slots, NEW status \in Statuses, ReadForStatus(s, status)
      PROVE  TrackInv'
  <2>1. PICK input : input = [kind |-> "status", status |-> status]
    OBVIOUS
  <2>2. input \in Requested
    BY <2>1 DEF Requested
  <2>3. Read(s, input) /\ \A t \in Slots : slots[t].kind # "status"
    BY <1>4, <2>1 DEF ReadForStatus
  <2> QED BY <2>2, <2>3, BegunKeeps
<1>5. ASSUME NEW s \in Slots, NEW messaged \in Maybe, NEW responded \in Maybe,
             ReadForContact(s, messaged, responded)
      PROVE  TrackInv'
  <2>1. PICK input : input = [kind |-> "contact", messaged |-> messaged, responded |-> responded]
    OBVIOUS
  <2>2. input \in Requested /\ input.kind # "status"
    BY <2>1 DEF Requested
  <2>3. Read(s, input)
    BY <1>5, <2>1 DEF ReadForContact
  <2> QED BY <2>2, <2>3, BegunKeeps
<1>6. ASSUME NEW s \in Slots, NEW events \in SUBSET Events, ReadForCheck(s, events)
      PROVE  TrackInv'
  <2>1. PICK input : input = [kind |-> "check", events |-> events]
    OBVIOUS
  <2>2. input \in Requested /\ input.kind # "status"
    BY <2>1 DEF Requested
  <2>3. Read(s, input)
    BY <1>6, <2>1 DEF ReadForCheck
  <2> QED BY <2>2, <2>3, BegunKeeps
<1> QED BY <1>1, <1>2, <1>3, <1>4, <1>5, <1>6, WriteStatusKeeps, WriteContactKeeps, WriteCheckKeeps
        DEF TrackNext

LEMMA TrackInvariant == TrackSpec => []TrackInv
<1>1. TrackInv /\ [TrackNext]_trackVars => TrackInv'
  BY TrackNextKeeps
<1> QED BY TrackInitInv, <1>1, PTL DEF TrackSpec

(* The records of a tracked post and of its requests keep their types.     *)
THEOREM TrackTypeCorrect == TrackSpec => []TrackTypeOK
<1>1. TrackInv => TrackTypeOK
  BY DEF TrackInv
<1> QED BY TrackInvariant, <1>1, PTL

(* Whatever the interleaving of the user's changes with the checks that    *)
(* save evidence, the manual activities and the dates tell what the status *)
(* of the application and of the contact tell.                             *)
THEOREM TimelinesMatch == TrackSpec => []TimelineMatchesRecords
<1>1. TrackInv => TimelineMatchesRecords
  BY DEF TrackInv
<1> QED BY TrackInvariant, <1>1, PTL

(* A check never takes an application back, and never writes over a change *)
(* of its status that is as new as the evidence.                           *)
THEOREM EvidenceOnlyAdvances == TrackSpec => EvidenceNeverRegresses
<1>1. ASSUME TrackInv, TrackNext, observed' # observed, post' # post
      PROVE  /\ Stage[post'.status] > Stage[post.status]
             /\ IsAfter(post'.statusAt, post.statusAt)
             /\ post.status \in Open
             /\ post'.appliedAt = post.appliedAt
  <2>1. PICK s \in Slots : WriteCheck(s)
    BY <1>1
    DEF TrackNext, Tick, RemoveContact, ReadForStatus, ReadForContact, ReadForCheck, Read, rowVars,
        WriteStatus, WriteContact
  <2>2. post' \in Advanced(post)
    BY <1>1, <2>1, CheckWrites
  <2> QED BY <1>1, <2>2 DEF Advanced
<1>2. TrackInv /\ [TrackNext]_trackVars =>
        [observed' # observed /\ post' # post =>
           /\ Stage[post'.status] > Stage[post.status]
           /\ IsAfter(post'.statusAt, post.statusAt)
           /\ post.status \in Open
           /\ post'.appliedAt = post.appliedAt]_trackVars
  BY <1>1 DEF trackVars
<1> QED BY TrackInvariant, <1>2, PTL DEF TrackSpec, EvidenceNeverRegresses
-----------------------------------------------------------------------------
(* The types of a search (SearchPipeline): what is left of a list of       *)
(* candidates is one, by induction over it, and so is what every command   *)
(* writes.                                                                 *)

LEMMA ListsAreSequences ==
  ASSUME NEW list \in Lists
  PROVE  /\ Len(list) \in 0 .. MaxCandidates
         /\ \A n \in 1 .. Len(list) : list[n] \in Candidates
<1>1. PICK n \in 0 .. MaxCandidates : list \in [1 .. n -> Candidates]
  BY DEF Lists
<1>2. n \in Nat
  BY <1>1, MaxCandidatesAssumption
<1>3. Len(list) = n
  BY <1>1, <1>2, OrderIsSequence
<1> QED BY <1>1, <1>3

LEMMA SequencesAreLists ==
  ASSUME NEW list \in Seq(Candidates), Len(list) <= MaxCandidates
  PROVE  list \in Lists
<1>1. Len(list) \in 0 .. MaxCandidates
  BY MaxCandidatesAssumption, LenProperties
<1>2. list \in [1 .. Len(list) -> Candidates]
  BY LenProperties, ElementOfSeq
<1> QED BY <1>1, <1>2 DEF Lists

\* Candidates that are left out make a list no longer.
LEMMA DeduplicatedIsList ==
  ASSUME NEW list \in Lists, NEW known
  PROVE  Deduplicated(list, known) \in Lists
<1>1. PICK N \in Nat : N = Len(list) /\ N <= MaxCandidates
  BY ListsAreSequences, MaxCandidatesAssumption
<1>2. \A n \in 1 .. N : list[n] \in Candidates
  BY <1>1, ListsAreSequences
<1>3. PICK Lines : Lines = Seq(Candidates)
  OBVIOUS
<1> DEFINE Fresh(n, sofar) ==
      IdentityTokens[list[n].post] \intersect (known \union TokensOfAll(sofar)) = {}
<1>4. PICK move : move = [n \in 1 .. N |-> [sofar \in Lines |->
                            IF Fresh(n, sofar) THEN Append(sofar, list[n]) ELSE sofar]]
  OBVIOUS
<1> HIDE DEF Fresh
<1>5. move \in [1 .. N -> [Lines -> Lines]]
  <2>1. ASSUME NEW n \in 1 .. N
        PROVE  [sofar \in Lines |-> IF Fresh(n, sofar) THEN Append(sofar, list[n]) ELSE sofar]
                 \in [Lines -> Lines]
    <3>1. \A sofar \in Lines : Append(sofar, list[n]) \in Lines
      BY <1>2, <1>3, AppendProperties
    <3> QED BY <3>1
  <2>2. ASSUME NEW n \in 1 .. N
        PROVE  move[n] \in [Lines -> Lines]
    <3>1. move[n] = [sofar \in Lines |->
                       IF Fresh(n, sofar) THEN Append(sofar, list[n]) ELSE sofar]
      BY <1>4
    <3> QED BY <2>1, <3>1, Zenon
  <2>3. move = [n \in 1 .. N |-> move[n]]
    <3>1. DOMAIN move = 1 .. N
      BY <1>4
    <3>2. PICK s \in [1 .. N -> {move[n] : n \in 1 .. N}] : s = move
      BY <1>4
    <3> QED BY <3>1, <3>2
  <2> QED BY <2>2, <2>3
<1>6. PICK f \in [0 .. N -> Lines] :
        f[0] = <<>> /\ \A n \in 1 .. N : f[n] = move[n][f[n - 1]]
  <2>1. <<>> \in Lines
    BY <1>3
  <2>2. PICK f : Iteration(f, N, Lines, <<>>, move)
    BY <1>5, <2>1, Iterated
  <2> QED BY <2>2 DEF Iteration
<1>7. ASSUME NEW n \in 1 .. N
      PROVE  f[n] = IF Fresh(n, f[n - 1]) THEN Append(f[n - 1], list[n]) ELSE f[n - 1]
  <2>1. n - 1 \in 0 .. N
    OBVIOUS
  <2>2. f[n - 1] \in Lines
    BY <2>1
  <2>3. move[n][f[n - 1]] =
          IF Fresh(n, f[n - 1]) THEN Append(f[n - 1], list[n]) ELSE f[n - 1]
    BY <1>4, <2>2
  <2> QED BY <1>6, <2>3
<1> DEFINE kept[n \in 0 .. Len(list)] ==
             IF n = 0 THEN <<>>
             ELSE IF IdentityTokens[list[n].post] \intersect (known \union TokensOfAll(kept[n - 1])) = {}
                  THEN Append(kept[n - 1], list[n]) ELSE kept[n - 1]
<1>8. Deduplicated(list, known) = kept[Len(list)]
  BY Zenon DEF Deduplicated
<1>9. \E h : h = [n \in 0 .. Len(list) |->
                    IF n = 0 THEN <<>>
                    ELSE IF IdentityTokens[list[n].post] \intersect (known \union TokensOfAll(h[n - 1])) = {}
                         THEN Append(h[n - 1], list[n]) ELSE h[n - 1]]
  <2>1. ASSUME NEW n \in 0 .. Len(list)
        PROVE  f[n] = IF n = 0 THEN <<>>
                      ELSE IF IdentityTokens[list[n].post] \intersect (known \union TokensOfAll(f[n - 1])) = {}
                           THEN Append(f[n - 1], list[n]) ELSE f[n - 1]
    <3>1. CASE n = 0
      BY <1>6, <3>1
    <3>2. CASE n # 0
      <4>1. n \in 1 .. N
        BY <1>1, <3>2
      <4>2. f[n] = IF Fresh(n, f[n - 1]) THEN Append(f[n - 1], list[n]) ELSE f[n - 1]
        BY <1>7, <4>1
      <4> QED BY <3>2, <4>2, Zenon DEF Fresh
    <3> QED BY <3>1, <3>2
  <2>2. f = [n \in 0 .. Len(list) |-> f[n]]
    BY <1>1
  <2> QED BY <2>1, <2>2, Zenon
<1>10. PICK g : g = kept
  OBVIOUS
<1>11. g = [n \in 0 .. Len(list) |->
              IF n = 0 THEN <<>>
              ELSE IF IdentityTokens[list[n].post] \intersect (known \union TokensOfAll(g[n - 1])) = {}
                   THEN Append(g[n - 1], list[n]) ELSE g[n - 1]]
  BY <1>9, <1>10, Zenon
<1>12. Deduplicated(list, known) = g[Len(list)]
  BY <1>8, <1>10, Zenon
<1> HIDE DEF kept
<1>13. PICK good : good = {n \in 0 .. N : g[n] \in Lines /\ Len(g[n]) <= n}
  OBVIOUS
<1>14. 0 \in good
  <2>1. 0 \in 0 .. Len(list)
    BY <1>1
  <2>2. g[0] = <<>>
    BY <1>11, <2>1, Zenon
  <2>3. g[0] \in Lines /\ Len(g[0]) = 0
    BY <1>3, <2>2, EmptySeq
  <2> QED BY <1>13, <2>3
<1>15. \A n \in 1 .. N : n - 1 \in good => n \in good
  <2> SUFFICES ASSUME NEW n \in 1 .. N, n - 1 \in good
               PROVE  n \in good
    OBVIOUS
  <2>1. n \in 0 .. Len(list) /\ n # 0
    BY <1>1
  <2>2. g[n] = IF IdentityTokens[list[n].post] \intersect (known \union TokensOfAll(g[n - 1])) = {}
               THEN Append(g[n - 1], list[n]) ELSE g[n - 1]
    BY <1>11, <2>1, Zenon
  <2>3. g[n] = Append(g[n - 1], list[n]) \/ g[n] = g[n - 1]
    BY <2>2, Zenon
  <2>4. PICK last \in Lines : last = g[n - 1] /\ Len(last) <= n - 1
    BY <1>13
  <2>5. Len(last) \in Nat
    BY <1>3, <2>4, LenProperties
  <2>6. PICK longer : longer = Append(last, list[n])
    OBVIOUS
  <2>7. longer \in Lines /\ Len(longer) = Len(last) + 1
    BY <1>2, <1>3, <2>4, <2>6, AppendProperties
  <2>8. g[n] = longer \/ g[n] = last
    BY <2>3, <2>4, <2>6, Zenon
  <2>9. Len(longer) <= n /\ Len(last) <= n
    BY <2>4, <2>5, <2>7
  <2>10. g[n] \in Lines /\ Len(g[n]) <= n
    BY <2>4, <2>7, <2>8, <2>9, Zenon
  <2>11. n \in 0 .. N
    OBVIOUS
  <2> QED BY <1>13, <2>10, <2>11
<1>16. good \in SUBSET (0 .. N)
  BY <1>13
<1>17. N \in good
  BY <1>14, <1>15, <1>16, UpTo
<1>18. g[N] \in Seq(Candidates) /\ Len(g[N]) <= MaxCandidates
  <2>1. g[N] \in Lines /\ Len(g[N]) <= N
    BY <1>13, <1>17
  <2>2. Len(g[N]) \in Nat
    BY <1>3, <2>1, LenProperties
  <2> QED BY <1>1, <1>3, <2>1, <2>2, MaxCandidatesAssumption
<1> QED BY <1>1, <1>12, <1>18, SequencesAreLists

\* The lists in the files, the candidates in a report and the server's posts.
SearchTypeInv ==
  /\ board \in [Keys -> Candidates \union {NoPost}]
  /\ \A k \in Keys : board[k] # NoPost => board[k].post.sourceKey = k
  /\ {files.merged, files.candidates, files.review} \subseteq Lists \union {Missing}
  /\ files.report # Missing =>
       \A i \in DOMAIN files.report.results : files.report.results[i].candidate \in Candidates

LEMMA SearchTypeStart ==
  ASSUME SearchInit
  PROVE  SearchTypeInv
<1>1. PICK list \in Lists, coverage \in Coverages :
        files = [[name \in Names |-> Missing] EXCEPT !.merged = list, !.identities = {},
                                                     !.coverage = coverage]
  BY DEF SearchInit
<1>2. PICK none : none = [name \in Names |-> Missing]
  OBVIOUS
<1>3. /\ DOMAIN none = Names /\ none.candidates = Missing
      /\ none.review = Missing /\ none.report = Missing /\ "merged" \in Names
  BY <1>2 DEF Names
<1>4. files = [none EXCEPT !.merged = list, !.identities = {}, !.coverage = coverage]
  BY <1>1, <1>2
<1>5. /\ files.merged = list /\ files.candidates = Missing
      /\ files.review = Missing /\ files.report = Missing
  BY <1>3, <1>4
<1> QED BY <1>5 DEF SearchTypeInv, SearchInit

\* A step that leaves the posts and these files alone.
LEMMA SearchTypeKept ==
  ASSUME SearchTypeInv, board' = board,
         files'.merged = files.merged, files'.candidates = files.candidates,
         files'.review = files.review, files'.report = files.report
  PROVE  SearchTypeInv'
BY DEF SearchTypeInv

\* The candidates of a report are among those it was assembled from.
LEMMA ResultsAreCandidates ==
  ASSUME NEW list \in Lists, NEW selections, KeysIn(selections) \subseteq CandidateKeys(list),
         NEW i \in Indices(selections)
  PROVE  ResultsOf(list, selections)[i].candidate \in Candidates
<1>1. PICK k : k = selections[i].key
  OBVIOUS
<1>2. PICK c : c = CHOOSE x \in ToSet(list) : x.post.sourceKey = k
  OBVIOUS
<1>3. ResultsOf(list, selections)[i].candidate = c
  BY <1>1, <1>2 DEF ResultsOf
<1>4. k \in CandidateKeys(list)
  BY <1>1 DEF KeysIn
<1>5. PICK j \in 1 .. Len(list) : list[j].post.sourceKey = k
  BY <1>4 DEF CandidateKeys, Indices
<1>6. PICK n \in 0 .. MaxCandidates : list \in [1 .. n -> Candidates]
  BY DEF Lists
<1>7. n \in Nat
  BY <1>6, MaxCandidatesAssumption
<1>8. Len(list) = n
  BY <1>6, <1>7, OrderIsSequence
<1>9. ToSet(list) \subseteq Candidates /\ list[j] \in ToSet(list)
  BY <1>6, <1>8 DEF ToSet
<1>10. c \in ToSet(list)
  BY <1>2, <1>5, <1>9
<1> QED BY <1>3, <1>9, <1>10

LEMMA SearchTypeWrites ==
  ASSUME SelectionInv, SearchTypeInv,
         (\E list \in Lists : Discover(list)) \/ Pool \/ Repool
  PROVE  SearchTypeInv'
<1>1. CASE \E list \in Lists : Discover(list)
  <2>1. PICK list \in Lists : Discover(list)
    BY <1>1
  <2>2. /\ files'.merged = list /\ files'.candidates = files.candidates
        /\ files'.review = files.review /\ files'.report = files.report /\ board' = board
    BY <2>1 DEF Discover, AgentWrites, Save, SelectionInv, Names
  <2> QED BY <2>2 DEF SearchTypeInv
<1>2. CASE Pool
  <2>1. files.merged \in Lists
    BY <1>2 DEF Pool, Has, SearchTypeInv
  <2>2. PICK kept : kept = Deduplicated(files.merged, files.identities)
    OBVIOUS
  <2>3. kept \in Lists
    BY <2>1, <2>2, DeduplicatedIsList
  <2>4. PICK list \in {kept, files.candidates}, packet \in {kept, files.review} :
          files' = [files EXCEPT !.candidates = list, !.review = packet]
    BY <1>2, <2>2 DEF Pool
  <2>5. /\ files'.merged = files.merged /\ files'.candidates = list
        /\ files'.review = packet /\ files'.report = files.report /\ board' = board
    BY <1>2, <2>4 DEF Pool, SelectionInv, Names
  <2> QED BY <2>3, <2>4, <2>5 DEF SearchTypeInv
<1>3. CASE Repool
  <2>1. /\ files'.merged = files.merged /\ files'.candidates = files.candidates
        /\ files'.review = files.candidates /\ files'.report = files.report /\ board' = board
    BY <1>3 DEF Repool, Save, SelectionInv, Names
  <2> QED BY <2>1 DEF SearchTypeInv
<1> QED BY <1>1, <1>2, <1>3

LEMMA SearchTypeAssembles ==
  ASSUME SelectionInv, SearchTypeInv, Assemble
  PROVE  SearchTypeInv'
<1>1. PICK list, selections : list = files.candidates /\ selections = files.selection.selections
  OBVIOUS
<1>2. list \in Lists /\ KeysIn(selections) \subseteq CandidateKeys(list)
  BY <1>1 DEF Assemble, Assembles, Has, SearchTypeInv
<1>3. PICK report : report = Report(list, selections, files.coverage)
  OBVIOUS
<1>4. /\ files'.merged = files.merged /\ files'.candidates = files.candidates
      /\ files'.review = files.review /\ files'.report = report /\ board' = board
  BY <1>1, <1>3 DEF Assemble, Assembles, Save, SelectionInv, Names
<1>5. report.results = ResultsOf(list, selections)
  BY <1>3 DEF Report
<1>6. DOMAIN report.results = Indices(selections)
  BY <1>5 DEF ResultsOf
<1>7. \A i \in DOMAIN report.results : report.results[i].candidate \in Candidates
  BY <1>2, <1>5, <1>6, ResultsAreCandidates
<1> QED BY <1>4, <1>7 DEF SearchTypeInv

LEMMA SearchTypePut ==
  ASSUME SelectionInv, SearchTypeInv, Put
  PROVE  SearchTypeInv'
<1>1. PICK report : report = files.report
  OBVIOUS
<1>2. \A i \in DOMAIN report.results : report.results[i].candidate \in Candidates
  BY <1>1 DEF Put, Has, SearchTypeInv
<1>3. \E content : Save("response", content)
  BY DEF Put
<1>4. /\ files'.merged = files.merged /\ files'.candidates = files.candidates
      /\ files'.review = files.review /\ files'.report = files.report
  BY <1>3 DEF Save, SelectionInv, Names
<1>5. CASE board' = board
  BY <1>4, <1>5, SearchTypeKept
<1>6. CASE board' = BoardWith(report)
  <2>1. PICK candidates : candidates = {report.results[i].candidate : i \in DOMAIN report.results}
    OBVIOUS
  <2>2. candidates \subseteq Candidates
    BY <1>2, <2>1
  <2>3. board' = [k \in Keys |->
                    IF k \in KeysOf(PostsIn(report))
                    THEN CHOOSE c \in candidates : c.post.sourceKey = k ELSE board[k]]
    BY <1>6, <2>1 DEF BoardWith
  <2>4. ASSUME NEW k \in Keys
        PROVE  /\ board'[k] \in Candidates \union {NoPost}
               /\ board'[k] # NoPost => board'[k].post.sourceKey = k
    <3>1. CASE k \in KeysOf(PostsIn(report))
      <4>1. \E c \in candidates : c.post.sourceKey = k
        BY <2>1, <3>1 DEF KeysOf, PostsIn
      <4>2. PICK c : c = CHOOSE x \in candidates : x.post.sourceKey = k
        OBVIOUS
      <4>3. c \in candidates /\ c.post.sourceKey = k
        BY <4>1, <4>2
      <4>4. board'[k] = c
        BY <2>3, <3>1, <4>2
      <4> QED BY <2>2, <4>3, <4>4
    <3>2. CASE k \notin KeysOf(PostsIn(report))
      BY <2>3, <3>2 DEF SearchTypeInv
    <3> QED BY <3>1, <3>2
  <2>5. board' = [k \in Keys |-> board'[k]]
    BY <2>3
  <2> QED BY <1>4, <2>4, <2>5 DEF SearchTypeInv
<1> QED BY <1>1, <1>5, <1>6 DEF Put

LEMMA SearchTypeStep ==
  ASSUME SelectionInv, SearchTypeInv, [SearchNext]_searchVars
  PROVE  SearchTypeInv'
<1>1. CASE UNCHANGED searchVars
  BY <1>1 DEF searchVars, SearchTypeInv
<1>2. CASE (\E decisions \in Decisions : Judge(decisions)) \/ History \/ Select \/ Get
  <2>1. PICK name \in {"judgment", "identities", "selection", "response"} :
          \E content : Save(name, content)
    BY <1>2 DEF Judge, AgentWrites, History, Select, Get
  <2>2. board' = board
    BY <1>2 DEF Judge, History, Select, Get
  <2>3. /\ files'.merged = files.merged /\ files'.candidates = files.candidates
        /\ files'.review = files.review /\ files'.report = files.report
    BY <2>1 DEF Save, SelectionInv, Names
  <2> QED BY <2>2, <2>3, SearchTypeKept
<1>3. ASSUME NEW c \in Candidates, Import(c)
      PROVE  SearchTypeInv'
  <2>1. c.post.sourceKey \in Keys
    BY CandidatesAssumption DEF Keys
  <2>2. files' = files /\ board' = [board EXCEPT ![c.post.sourceKey] = c]
    BY <1>3 DEF Import
  <2> QED BY <2>1, <2>2 DEF SearchTypeInv
<1>4. CASE SearchNext
  BY <1>2, <1>3, <1>4, SearchTypeWrites, SearchTypeAssembles, SearchTypePut DEF SearchNext
<1> QED BY <1>1, <1>4

(* The type invariant of the search: whatever the agent, the commands and  *)
(* the users write, the lists of candidates stay lists of them, and the    *)
(* server's posts stand under their own keys.                              *)
THEOREM SearchTypeCorrect == SearchSpec => []SearchTypeOK
<1>1. SearchInit => SearchTypeInv
  BY SearchTypeStart
<1>2. SelectionInv /\ SearchTypeInv /\ [SearchNext]_searchVars => SearchTypeInv'
  BY SearchTypeStep
<1>3. SelectionInv /\ StorageInv /\ SearchTypeInv => SearchTypeOK
  BY DEF SelectionInv, StorageInv, SearchTypeInv, SearchTypeOK
<1> QED BY <1>1, <1>2, <1>3, StorageInvariant, PTL DEF SearchSpec

-----------------------------------------------------------------------------
(* The parts side by side, as they are checked (MCServer).                 *)

Parts == {"posts", "tracking", "search", "run", "captures"}

\* A step of one part leaves the others alone, so each behaves as it does alone.
LEMMA ServerParts ==
  ServerSpec => PostsSpec /\ TrackSpec /\ SearchSpec /\ RunSpec /\ CaptureSpec /\ [](part \in Parts)
<1> DEFINE everything == <<postVars, trackVars, searchVars, runVars, captureVars, part>>
<1>1. ServerInit => /\ PostsInit /\ TrackInit /\ SearchInit /\ RunInit /\ CaptureInit
                    /\ part \in Parts
  BY DEF ServerInit, Parts
<1>2. [ServerNext]_everything =>
        /\ [PostsNext]_postVars /\ [TrackNext]_trackVars /\ [SearchNext]_searchVars
        /\ [RunNext]_runVars /\ [CaptureNext]_captureVars
  BY DEF ServerNext
<1>3. part \in Parts /\ [ServerNext]_everything => (part \in Parts)'
  BY DEF ServerNext
<1> HIDE DEF everything
<1>4. ServerSpec => ServerInit /\ [][ServerNext]_everything
  BY PTL DEF ServerSpec, everything
<1> QED
  BY <1>1, <1>2, <1>3, <1>4, PTL DEF PostsSpec, TrackSpec, SearchSpec, RunSpec, CaptureSpec

(* ServerTypeOK: the type invariant of whichever part the server's run     *)
(* follows, from those of the parts.                                       *)
THEOREM ServerTypeCorrect == ServerSpec => []ServerTypeOK
<1>1. ASSUME PostsTypeOK, TrackTypeOK, SearchTypeOK, RunTypeOK, CaptureTypeOK, part \in Parts
      PROVE  ServerTypeOK
  BY <1>1 DEF ServerTypeOK, Parts
<1> QED
  BY <1>1, ServerParts, PostsTypeCorrect, TrackTypeCorrect, SearchTypeCorrect, RunTypeCorrect,
     CaptureTypeCorrect, PTL

===============================================================================
