------------------------------ MODULE Automations ------------------------------
(***************************************************************************)
(* The schedule of a local automation (agent-bridge/src/http/              *)
(* automation-routes.ts), which the desktop app keeps in a file and the    *)
(* pages of the client show and change through the Agent bridge            *)
(* (client/src/components/AutomationSettings.vue).                         *)
(*                                                                         *)
(* The bridge handles one request at a time, without an await; the desktop *)
(* app is another process and may change or delete the file between any    *)
(* two of its calls.  A revision is the digest of the file, so it is what  *)
(* the file holds: every change has a number (updated_at).                 *)
(*                                                                         *)
(* Days are numbered from the first of a week; a time is <<hour, minute>>. *)
(***************************************************************************)
EXTENDS Integers, FiniteSets, Sequences

CONSTANTS
  Pages,
  WeekLength,    \* Len(AUTOMATION_DAYS)
  Hours, Minutes,
  MaxTimes,      \* MAX_AUTOMATION_TIMES
  MaxPosition,   \* the greatest BYSETPOS
  Positions,     \* bound: what may stand in BYSETPOS
  FileRules,     \* bound: rules the desktop app writes into the file
  FormSchedules, \* bound: schedules a user enters
  MaxEdits,      \* bound: changes of the file
  Null

\* Up to MaxTimes hours with as many minutes: a position counted from the
\* start or from the end is in range.
ASSUME ClockAssumption == Hours \subseteq 0 .. 23 /\ Minutes \subseteq 0 .. 59

ASSUME PositionsAssumption ==
  /\ MaxTimes \in Nat /\ MaxPosition \in Nat /\ WeekLength \in Nat \ {0} /\ Positions \subseteq Int
  /\ MaxTimes * MaxTimes <= 2 * MaxPosition

VARIABLES
  config,   \* what the file holds, or Null if there is no file
  handler,  \* the save the bridge is handling, or Null
  pages,    \* pages[p]: the Settings page of a browser tab
  edits     \* how often the file has been changed

automationVars == <<config, handler, pages, edits>>

Week == 0 .. WeekLength - 1
ClockTimes == Hours \X Minutes
MinuteOf(t) == 60 * t[1] + t[2]
Earlier(t, u) == MinuteOf(t) < MinuteOf(u)

ASSUME NullAssumption == Null \notin Nat \X ClockTimes

\* automationScheduleSchema
Schedules == {s \in [days : SUBSET Week, times : SUBSET ClockTimes] :
                s.days # {} /\ s.times # {} /\ Cardinality(s.times) <= MaxTimes}

\* A recurrence rule of the fields readSchedule knows; a field that is absent
\* is empty.  "OTHER" stands for all it does not know.
Rules == [freq : {"DAILY", "WEEKLY", "OTHER"}, byDay : SUBSET Week, byHour : SUBSET Hours,
          byMinute : SUBSET Minutes, bySetPos : SUBSET Positions, weekStart : Week]

-----------------------------------------------------------------------------
(* Schedules.                                                              *)

\* numbers
Ascending(set) ==
  CHOOSE list \in [1 .. Cardinality(set) -> set] :
    \A i, j \in DOMAIN list : i < j => list[i] < list[j]

\* flatMap: each of a list with each of another.
Pairs(list, inner) ==
  [i \in 1 .. Len(list) * Len(inner) |->
     <<list[((i - 1) \div Len(inner)) + 1], inner[((i - 1) % Len(inner)) + 1]>>]

TimesOf(hours, minutes) == Pairs(Ascending(hours), Ascending(minutes))

\* The days of a week that begins with this one, those that are chosen.
DaysFrom(first, days) ==
  LET day == [n \in 1 .. WeekLength |-> (first + n - 1) % WeekLength]
      kept[n \in 0 .. WeekLength] ==
        IF n = 0 THEN <<>>
        ELSE IF day[n] \in days THEN Append(kept[n - 1], day[n]) ELSE kept[n - 1]
  IN  kept[WeekLength]

\* Mutant of DaysInOrder: every week begins with the first day.
DaysAsNumbered(rule, days) == DaysFrom(0, days)

\* The days in the order of the rule's week (WKST).
DaysInOrder(rule, days) == DaysFrom(rule.weekStart, days)

\* Array.prototype.at: the occurrences the positions name, if there are such.
Named(list, positions) ==
  {list[i] : i \in {j \in DOMAIN list : {j, j - Len(list) - 1} \intersect positions # {}}}

\* The schedule that repeats the chosen times on each of its days, or Null.
Uniform(weekly, days, chosen) ==
  LET s == [days |-> IF weekly THEN {o[1] : o \in chosen} ELSE days,
            times |-> {o[2] : o \in chosen}]
  IN IF s \in Schedules /\ (weekly => Cardinality(chosen) = Cardinality(s.days \X s.times))
     THEN s ELSE Null

\* readSchedule: Null for a rule the form cannot show without loss.
ReadSchedule(rule) ==
  LET weekly == rule.freq = "WEEKLY"
      days == IF rule.byDay = {} THEN Week ELSE rule.byDay
      candidates == Pairs(IF weekly THEN DaysInOrder(rule, days) ELSE <<0>>,
                          TimesOf(rule.byHour, rule.byMinute))
  IN  IF rule.freq = "OTHER" \/ (weekly /\ rule.byDay = {})
           \/ rule.byHour = {} \/ rule.byMinute = {}
           \/ \E position \in rule.bySetPos : position = 0 \/ position \notin -MaxPosition .. MaxPosition
      THEN Null
      ELSE IF rule.bySetPos = {}
      THEN Uniform(FALSE, days, {<<0, t>> : t \in rule.byHour \X rule.byMinute})
      ELSE Uniform(weekly, days, Named(candidates, rule.bySetPos))

\* writeSchedule
WriteSchedule(s) ==
  LET hours == {t[1] : t \in s.times}
      minutes == {t[2] : t \in s.times}
      candidates == TimesOf(hours, minutes)
      position(t) == LET index == CHOOSE i \in DOMAIN candidates : candidates[i] = t
                     IN IF index <= MaxPosition THEN index ELSE index - Len(candidates) - 1
  IN  [freq |-> "DAILY", byDay |-> s.days, byHour |-> hours, byMinute |-> minutes,
       bySetPos |-> IF Len(candidates) = Cardinality(s.times) THEN {}
                    ELSE {position(t) : t \in s.times},
       weekStart |-> 0]

\* The first of a sequence of runs to come, of which the clock leaves out some.
FirstRun(s, today, now, skipped, horizon) ==
  LET runs == {run \in (0 .. horizon) \X s.times :
                 /\ (today + run[1]) % WeekLength \in s.days
                 /\ run[1] = 0 => Earlier(now, run[2])
                 /\ run \notin skipped}
  IN  IF runs = {} THEN Null
      ELSE CHOOSE r \in runs : \A q \in runs :
             r[1] < q[1] \/ (r[1] = q[1] /\ ~ Earlier(q[2], r[2]))

\* nextScheduledAt, of an active automation
NextScheduledAt(s, today, now, skipped) == FirstRun(s, today, now, skipped, 2 * WeekLength)

\* The bounds leave out no rule that is written: by the desktop app, or for a
\* schedule that is entered.
ASSUME RulesAssumption ==
  /\ FileRules \subseteq Rules /\ FormSchedules \subseteq Schedules
  /\ \A s \in FormSchedules : WriteSchedule(s) \in Rules

-----------------------------------------------------------------------------
(* The bridge and the desktop app.                                         *)

Contents == [rule : Rules, status : {"ACTIVE", "PAUSED"}, listed : BOOLEAN, edit : Nat]

\* read: the automation in the file, if it is one of this project.
Visible(content) == IF content # Null /\ content.listed THEN content ELSE Null

\* shown: the list of the page; editing: what its form was opened with;
\* request: what it waits for.
Page == [shown : Contents \union {Null}, editing : Contents \union {Null},
         request : {"none", "list", "save"}, revision : Contents \union {Null},
         status : {"ACTIVE", "PAUSED", Null}, schedule : Schedules \union {Null},
         answer : {"none", "ok", "refused", "failed"}, got : Contents \union {Null}]

NewPage == [shown |-> Null, editing |-> Null, request |-> "none", revision |-> Null,
            status |-> Null, schedule |-> Null, answer |-> "none", got |-> Null]

\* A save that has read the file; overtaken: history, whether the desktop app
\* has changed the file after it was read for the last time.
Save == [page : Pages, step : {"stage", "compare", "rename", "answer"},
         found : Contents, content : Contents, overtaken : BOOLEAN]

AutomationsInit ==
  /\ config \in {[rule |-> r, status |-> "ACTIVE", listed |-> TRUE, edit |-> 0] : r \in FileRules}
  /\ handler = Null
  /\ pages = [p \in Pages |-> NewPage]
  /\ edits = 0

Overtaken == IF handler = Null THEN Null
             ELSE [handler EXCEPT !.overtaken = @ \/ handler.step = "rename"]

DesktopWrites(rule, status, listed) ==
  /\ edits < MaxEdits
  /\ edits' = edits + 1
  /\ config' = [rule |-> rule, status |-> status, listed |-> listed, edit |-> edits']
  /\ handler' = Overtaken
  /\ UNCHANGED pages

DesktopDeletes ==
  /\ config # Null
  /\ config' = Null
  /\ handler' = Overtaken
  /\ UNCHANGED <<pages, edits>>

Waits(p, request) == pages[p].request = request /\ pages[p].answer = "none"
Reply(p, answer, content) == pages' = [pages EXCEPT ![p].answer = answer, ![p].got = content]

\* GET /automations
List(p) ==
  /\ handler = Null
  /\ Waits(p, "list")
  /\ Reply(p, "ok", Visible(config))
  /\ UNCHANGED <<config, handler, edits>>

WithChange(content, request) ==
  [content EXCEPT !.status = IF request.status = Null THEN @ ELSE request.status,
                  !.rule = IF request.schedule = Null THEN @ ELSE WriteSchedule(request.schedule)]

Refuses(page) ==
  \/ Visible(config) = Null
  \/ config # page.revision
  \/ (page.schedule # Null /\ ReadSchedule(config.rule) = Null)

\* PATCH /automations/:id, to the second call on the file
Patch(p) ==
  /\ handler = Null
  /\ Waits(p, "save")
  /\ IF Refuses(pages[p])
     THEN Reply(p, "refused", Null) /\ UNCHANGED handler
     ELSE /\ handler' = [page |-> p, step |-> "stage", found |-> config,
                         content |-> WithChange(config, pages[p]), overtaken |-> FALSE]
          /\ UNCHANGED pages
  /\ UNCHANGED <<config, edits>>

Proceed(step) == handler' = [handler EXCEPT !.step = step] /\ UNCHANGED pages

\* The temporary file is removed, however a save ends.
Conclude(answer, content) == handler' = Null /\ Reply(handler.page, answer, content)

\* The file's mode is read, and the temporary file written.
Stage ==
  /\ handler # Null /\ handler.step = "stage"
  /\ IF config = Null THEN Conclude("failed", Null) ELSE Proceed("compare")
  /\ UNCHANGED <<config, edits>>

\* Mutant of Unchanged: it was compared before.
UnchangedBefore == TRUE

Unchanged == config = handler.found

Compare ==
  /\ handler # Null /\ handler.step = "compare"
  /\ IF config = Null THEN Conclude("failed", Null)
     ELSE IF Unchanged THEN Proceed("rename") ELSE Conclude("refused", Null)
  /\ UNCHANGED <<config, edits>>

\* A file that has been deleted is there again, unless its folder is gone too.
Rename ==
  /\ handler # Null /\ handler.step = "rename"
  /\ edits < MaxEdits
  /\ edits' = edits + 1
  /\ config' = [handler.content EXCEPT !.edit = edits']
  /\ Proceed("answer")

RenameFails ==
  /\ handler # Null /\ handler.step = "rename" /\ config = Null
  /\ Conclude("failed", Null)
  /\ UNCHANGED <<config, edits>>

\* What is read back may be gone, though it was saved.
Answer ==
  /\ handler # Null /\ handler.step = "answer"
  /\ Conclude(IF Visible(config) = Null THEN "failed" ELSE "ok", Visible(config))
  /\ UNCHANGED <<config, edits>>

\* The bridge stops while it handles a save, or a request does not reach it.
Lose(p) ==
  /\ pages[p].request # "none" /\ pages[p].answer = "none"
  /\ IF handler # Null /\ handler.page = p THEN handler' = Null ELSE UNCHANGED handler
  /\ Reply(p, "failed", Null)
  /\ UNCHANGED <<config, edits>>

-----------------------------------------------------------------------------
(* The page.                                                               *)

Sends(p, request, revision, status, schedule) ==
  /\ pages[p].request = "none"
  /\ pages' = [pages EXCEPT ![p] =
       [@ EXCEPT !.request = request, !.revision = revision, !.status = status,
                 !.schedule = schedule, !.answer = "none", !.got = Null]]
  /\ UNCHANGED <<config, handler, edits>>

\* load; the dialog is modal.
Refresh(p) == pages[p].editing = Null /\ Sends(p, "list", Null, Null, Null)

Toggle(p) ==
  /\ pages[p].shown # Null /\ pages[p].editing = Null
  /\ Sends(p, "save", pages[p].shown,
           IF pages[p].shown.status = "ACTIVE" THEN "PAUSED" ELSE "ACTIVE", Null)

Edit(p) ==
  /\ pages[p].request = "none" /\ pages[p].editing = Null
  /\ pages[p].shown # Null /\ ReadSchedule(pages[p].shown.rule) # Null
  /\ pages' = [pages EXCEPT ![p].editing = pages[p].shown]
  /\ UNCHANGED <<config, handler, edits>>

SaveSchedule(p, s) ==
  /\ pages[p].editing # Null /\ s # ReadSchedule(pages[p].editing.rule)
  /\ Sends(p, "save", pages[p].editing, Null, s)

CloseForm(p) ==
  /\ pages[p].editing # Null /\ pages[p].request # "save"
  /\ pages' = [pages EXCEPT ![p].editing = Null]
  /\ UNCHANGED <<config, handler, edits>>

\* An error leaves the list and the form as they are.
ShowAnswer(p) ==
  /\ pages[p].answer # "none"
  /\ pages' = [pages EXCEPT ![p] =
       IF @.answer = "ok" THEN [NewPage EXCEPT !.shown = pages[p].got]
       ELSE [NewPage EXCEPT !.shown = pages[p].shown, !.editing = pages[p].editing]]
  /\ UNCHANGED <<config, handler, edits>>

AutomationsNext ==
  \/ \E r \in FileRules, status \in {"ACTIVE", "PAUSED"}, listed \in BOOLEAN :
       DesktopWrites(r, status, listed)
  \/ DesktopDeletes
  \/ Stage \/ Compare \/ Rename \/ RenameFails \/ Answer
  \/ \E p \in Pages :
       \/ List(p) \/ Patch(p) \/ Lose(p)
       \/ Refresh(p) \/ Toggle(p) \/ Edit(p) \/ CloseForm(p) \/ ShowAnswer(p)
       \/ \E s \in FormSchedules : SaveSchedule(p, s)

AutomationsSpec == AutomationsInit /\ [][AutomationsNext]_automationVars

-----------------------------------------------------------------------------
(* Properties.                                                             *)

AutomationsTypeOK ==
  /\ config \in Contents \union {Null}
  /\ handler \in Save \union {Null}
  /\ pages \in [Pages -> Page]
  /\ handler # Null => pages[handler.page].request = "save"

(* A save changes what its page has shown, and nothing else of it          *)
(* (docs/automation-setup.md: "Conflicting edits require a refresh before  *)
(* saving", "They preserve the prompt, model, and other configuration"),   *)
(* whatever other pages and the desktop app have written since - unless    *)
(* the desktop app writes between the last comparison and the rename.      *)
SaveChangesWhatWasShown ==
  [][handler # Null /\ handler.step = "rename" /\ config' # config /\ ~ handler'.overtaken =>
       LET page == pages[handler.page] IN
       /\ config = page.revision
       /\ config' = [WithChange(page.revision, page) EXCEPT !.edit = edits']]_automationVars

\* The runs of a week, by RFC 5545: the n-th of a day or of a week, or the
\* n-th from its end.
Runs(rule) ==
  LET weekly == rule.freq = "WEEKLY"
      days == IF rule.byDay = {} THEN Week ELSE rule.byDay
      all == days \X (rule.byHour \X rule.byMinute)
      rank(d) == (d - rule.weekStart) % WeekLength
      period(o) == {q \in all : weekly \/ q[1] = o[1]}
      before(q, o) == rank(q[1]) < rank(o[1]) \/ (q[1] = o[1] /\ Earlier(q[2], o[2]))
      number(o) == Cardinality({q \in period(o) : before(q, o)}) + 1
  IN {o \in all : rule.bySetPos = {} \/
        {number(o), number(o) - Cardinality(period(o)) - 1} \intersect rule.bySetPos # {}}

Faithful(rule) ==
  ReadSchedule(rule) # Null =>
    ReadSchedule(rule).days \X ReadSchedule(rule).times = Runs(rule)

RulesAreRead == \A rule \in Rules : Faithful(rule)

SchedulesAreWritten ==
  \A s \in Schedules :
    /\ Runs(WriteSchedule(s)) = s.days \X s.times
    /\ ReadSchedule(WriteSchedule(s)) = s

NextRunIsFirst ==
  \A s \in Schedules, today \in Week, now \in ClockTimes :
    \A skipped \in {{}} \union {{run} : run \in (0 .. 3 * WeekLength) \X s.times} :
      /\ NextScheduledAt(s, today, now, skipped) # Null
      /\ NextScheduledAt(s, today, now, skipped) =
           FirstRun(s, today, now, skipped, 3 * WeekLength)

(* The form shows of the file's rule, as of any, exactly the runs it has,  *)
(* or nothing; the rule of a schedule that is entered describes that       *)
(* schedule, and is shown as it (automation-routes.ts:43-127).  An active  *)
(* schedule has a next run, the first, though a clock change leaves out    *)
(* one ("A clock change can skip this week's only run", :132).             *)
ScheduleIsKept ==
  /\ config # Null => config.rule \in Rules
  /\ RulesAreRead /\ SchedulesAreWritten /\ NextRunIsFirst

=============================================================================
