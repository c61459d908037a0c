-------------------------------- MODULE Tracking --------------------------------
(***************************************************************************)
(* One tracked job post of the server and one outreach contact of it: the  *)
(* user's changes of the application status (job-post.repository.ts,       *)
(* update) and of the contact (outreach.repository.ts, update, remove),    *)
(* against the evidence the scheduled update check saves                   *)
(* (job-update-check.repository.ts, save).                                 *)
(*                                                                         *)
(* Each is a transaction that first reads, without a lock, and then writes *)
(* rows that others may have changed since (READ COMMITTED).  The first    *)
(* write locks the row, so what follows it is part of the same step; the   *)
(* time of a user's change is taken before that.                           *)
(***************************************************************************)
EXTENDS Integers, FiniteSets, Sequences

CONSTANTS
  Slots,        \* requests under way at a time
  Events,       \* evidence: [id, status, at]; status "responded" is a contact's,
                \* "review" and "review-contact" ask the user to look
  None,         \* null
  MaxTime,      \* bound: the clock stops
  MaxRequests   \* bound: requests made

ASSUME BoundsAssumption == MaxTime \in Nat /\ MaxRequests \in Nat

ASSUME EventsAssumption ==
  IsFiniteSet(Events) /\ \A e \in Events :
    e.at \in Nat /\ e.status \in {"awaiting-response", "interviewing", "rejected", "hired",
                                  "responded", "review", "review-contact"}

Statuses == {"not-applied", "awaiting-response", "interviewing", "rejected", "hired"}

\* applicationStatusStage
Stage == [s \in Statuses |-> CASE s = "not-applied" -> 0 [] s = "awaiting-response" -> 1
                               [] s = "interviewing" -> 2 [] OTHER -> 3]

Open == {"awaiting-response", "interviewing"}
Outcome == {"rejected", "hired"}

\* Activities of source MANUAL: one kind per summary.
StatusNotes == {"submitted", "interviewing", "rejected", "hired"}
ContactNotes == {"sent", "response"}

VARIABLES
  post,      \* [status, appliedAt, statusAt] (applicationStatusUpdatedAt)
  contact,   \* [messaged, messagedAt, respondedAt, responseAt], or None if removed
  manual,    \* manual[n]: how many manual activities of kind n there are
  observed,  \* externalIds of the activities the update check has recorded
  clock,
  slots,     \* slots[s]: the transaction under way
  requests   \* how many requests have been made

trackVars == <<post, contact, manual, observed, clock, slots, requests>>
rowVars == <<post, contact, manual, observed, clock>>

\* Evidence may be ahead of the server's clock by five minutes, here one.
Time == 0 .. MaxTime
MaybeTime == 0 .. MaxTime + 1 \union {None}
PostRow == [status : Statuses, appliedAt : MaybeTime, statusAt : MaybeTime]
ContactRow == [messaged : BOOLEAN, messagedAt : MaybeTime,
               respondedAt : MaybeTime, responseAt : MaybeTime]

ASSUME NoneAssumption == None \notin Nat /\ None \notin ContactRow

\* What a request is sent; a field of a contact's change may be absent.
Maybe == {"yes", "no", "absent"}
Idle == [kind |-> "none"]
Requested ==
  [kind : {"status"}, status : Statuses]
    \union [kind : {"contact"}, messaged : Maybe, responded : Maybe]
    \union [kind : {"check"}, events : SUBSET Events]
Running ==
  [kind : {"status", "contact", "check"}, input : Requested, now : Time,
   post : PostRow, contact : ContactRow \union {None}, events : SUBSET Events]

TrackInit ==
  /\ post = [status |-> "not-applied", appliedAt |-> None, statusAt |-> None]
  /\ contact = [messaged |-> FALSE, messagedAt |-> None,
                respondedAt |-> None, responseAt |-> None]
  /\ manual = [n \in StatusNotes \union ContactNotes |-> 0]
  /\ observed = {}
  /\ clock = 0
  /\ slots = [s \in Slots |-> Idle]
  /\ requests = 0

Tick == clock < MaxTime /\ clock' = clock + 1
        /\ UNCHANGED <<post, contact, manual, observed, slots, requests>>

-----------------------------------------------------------------------------
(* Reading: what each transaction finds before it writes.                  *)

IsAfter(at, time) == time = None \/ at > time
IsSince(at, time) == time # None /\ at >= time

AboutContact(e) == e.status \in {"responded", "review-contact"}

IsNewsOfContact(e) ==
  /\ contact # None /\ contact.messaged /\ contact.respondedAt = None
  /\ IsSince(e.at, contact.messagedAt) /\ IsAfter(e.at, contact.responseAt)

IsNewsOfPost(e) ==
  /\ post.status \in Open
  /\ IsSince(e.at, post.appliedAt) /\ IsAfter(e.at, post.statusAt)

\* The filter of save: evidence newer than the last change of what it is about,
\* which for "review" may be either.
IsCurrent(e) ==
  \/ ~ AboutContact(e) /\ IsNewsOfPost(e)
  \/ (AboutContact(e) \/ e.status = "review") /\ IsNewsOfContact(e)

Read(s, input) ==
  /\ slots[s] = Idle
  /\ requests < MaxRequests
  /\ requests' = requests + 1
  /\ slots' = [slots EXCEPT ![s] =
       [kind |-> input.kind, input |-> input, now |-> clock, post |-> post,
        contact |-> contact,
        events |-> IF input.kind # "check" THEN {}
                   ELSE {e \in input.events : /\ e.at <= clock + 1 /\ IsCurrent(e)
                                              /\ e.id \notin observed}]]
  /\ UNCHANGED rowVars

\* The views wait for a status change before they send another one
\* (TrackView.vue:369, ApplyView.vue:407).
ReadForStatus(s, status) ==
  /\ \A t \in Slots : slots[t].kind # "status"
  /\ Read(s, [kind |-> "status", status |-> status])

ReadForContact(s, messaged, responded) ==
  Read(s, [kind |-> "contact", messaged |-> messaged, responded |-> responded])

\* uniqueUpdates keeps one update for each externalId.
ReadForCheck(s, events) ==
  /\ \A e, f \in events : e.id = f.id => e = f
  /\ Read(s, [kind |-> "check", events |-> events])

Done(s) ==
  /\ slots' = [slots EXCEPT ![s] = Idle]
  /\ UNCHANGED <<clock, requests>>

-----------------------------------------------------------------------------
(* update of a post.                                                       *)

\* Mutant of Cleared: one final outcome does not take the place of another.
ClearedReversals(from, to) ==
  IF "not-applied" \in {from, to} THEN StatusNotes
  ELSE {n \in StatusNotes \ {"submitted"} :
          Stage[to] < Stage[from] /\ Stage[n] > Stage[to]}

\* Which manual activities a change from one status to another removes.
Cleared(from, to) ==
  IF "not-applied" \in {from, to} THEN StatusNotes
  ELSE {n \in StatusNotes \ {"submitted"} :
          \/ Stage[to] < Stage[from] /\ Stage[n] > Stage[to]
          \/ {from, to} \subseteq Outcome /\ Stage[n] = 3}

Noted(from, to) ==
  IF to = "not-applied" \/ Stage[to] < Stage[from] THEN {}
  ELSE IF from = "not-applied" /\ to = "awaiting-response" THEN {"submitted"} ELSE {to}

Count(clear, add) ==
  [n \in DOMAIN manual |-> (IF n \in clear THEN 0 ELSE manual[n])
                             + IF n \in add THEN 1 ELSE 0]

WriteStatus(s) ==
  LET t == slots[s]
      from == t.post.status
      to == t.input.status
  IN
  /\ t.kind = "status"
  /\ IF from = to
     THEN post' = [post EXCEPT !.status = to] /\ UNCHANGED manual
     ELSE /\ post' = [status |-> to, statusAt |-> t.now,
                      appliedAt |-> IF to = "not-applied" THEN None
                                    ELSE IF t.post.appliedAt = None THEN t.now
                                    ELSE t.post.appliedAt]
          /\ manual' = Count(Cleared(from, to), Noted(from, to))
  /\ Done(s)
  /\ UNCHANGED <<contact, observed>>

-----------------------------------------------------------------------------
(* update and remove of a contact.                                         *)

\* The fields an update writes, over the row as it is when they are written.
Updated(row, t) ==
  LET messaged == IF t.input.responded = "yes" THEN "yes" ELSE t.input.messaged
      sent == IF messaged = "absent" THEN row
              ELSE IF messaged = "no"
              THEN [messaged |-> FALSE, messagedAt |-> None,
                    respondedAt |-> None, responseAt |-> t.now]
              ELSE [row EXCEPT
                      !.messaged = TRUE,
                      !.messagedAt = IF t.contact.messagedAt = None THEN t.now
                                     ELSE t.contact.messagedAt,
                      !.responseAt = IF t.contact.messaged THEN row.responseAt ELSE t.now]
  IN IF t.input.responded = "absent" THEN sent
     ELSE [sent EXCEPT !.respondedAt = IF t.input.responded = "yes" THEN t.now ELSE None,
                       !.responseAt = t.now]

\* Activities are cleared when either the row found or the row written calls
\* for it, so what another transaction left behind goes too.
ContactCleared(found, written) ==
  IF ~ written.messaged \/ ~ found.messaged THEN ContactNotes
  ELSE IF None \in {written.respondedAt, found.respondedAt} THEN {"response"}
  ELSE {}

ContactNoted(found, written) ==
  {n \in ContactNotes :
     \/ n = "sent" /\ ~ found.messaged /\ written.messaged
     \/ n = "response" /\ found.respondedAt = None /\ written.respondedAt # None}

\* Nothing is written if the contact was not found, or is gone by now.
WriteContact(s) ==
  /\ slots[s].kind = "contact"
  /\ IF None \in {contact, slots[s].contact}
     THEN UNCHANGED <<contact, manual>>
     ELSE /\ contact' = Updated(contact, slots[s])
          /\ manual' = Count(ContactCleared(slots[s].contact, contact'),
                             ContactNoted(slots[s].contact, contact'))
  /\ Done(s)
  /\ UNCHANGED <<post, observed>>

\* The activities of a removed contact stay with the post, unlinked.
RemoveContact ==
  /\ contact # None
  /\ requests < MaxRequests
  /\ requests' = requests + 1
  /\ contact' = None
  /\ manual' = Count(ContactNotes, {})
  /\ UNCHANGED <<post, observed, clock, slots>>

-----------------------------------------------------------------------------
(* save of the update check.                                               *)

\* allowedPriorStatuses
Priors(status) ==
  CASE status = "interviewing" -> {"awaiting-response"}
    [] status \in Outcome -> Open
    [] OTHER -> {}

\* Mutant of Overrules: the condition was true when the posts were read.
OverrulesAsRead(e, row) == e.status \in {"interviewing"} \union Outcome

\* The condition of updateMany, on the row as it is when it is written.
Overrules(e, row) == row.status \in Priors(e.status) /\ IsAfter(e.at, row.statusAt)

Observe(row, e) ==
  IF Overrules(e, row)
  THEN [row EXCEPT !.status = e.status, !.statusAt = e.at] ELSE row

Answers(e, row) ==
  /\ e.status = "responded"
  /\ row # None /\ row.messaged /\ row.respondedAt = None
  /\ IsAfter(e.at, row.responseAt)

ObserveContact(row, e) ==
  IF Answers(e, row) THEN [row EXCEPT !.respondedAt = e.at, !.responseAt = e.at] ELSE row

\* The updates in the order of time; those of one time in any order.
ByTime(events) ==
  {order \in [1 .. Cardinality(events) -> events] :
     \A m, n \in DOMAIN order : m < n => order[m] # order[n] /\ order[m].at <= order[n].at}

ObserveBoth(records, e) ==
  [post |-> Observe(records.post, e), contact |-> ObserveContact(records.contact, e)]

\* The two rows after the updates have been made, one by one.
RowsAfter(order) ==
  LET after[n \in 0 .. Len(order)] ==
        IF n = 0 THEN [post |-> post, contact |-> contact]
        ELSE ObserveBoth(after[n - 1], order[n])
  IN  after[Len(order)]

\* Evidence about a contact that has been removed since breaks its foreign
\* key, and nothing of the check is saved.
WriteCheck(s) ==
  LET new == {e \in slots[s].events : e.id \notin observed} IN
  /\ slots[s].kind = "check"
  /\ IF contact = None /\ \E e \in new : AboutContact(e)
     THEN UNCHANGED <<post, contact, observed>>
     ELSE /\ observed' = observed \union {e.id : e \in new}
          /\ \E order \in ByTime(new) :
               LET after == RowsAfter(order)
               IN  post' = after.post /\ contact' = after.contact
  /\ Done(s)
  /\ UNCHANGED manual

TrackNext ==
  \/ Tick \/ RemoveContact
  \/ \E s \in Slots :
       \/ \E status \in Statuses : ReadForStatus(s, status)
       \/ \E messaged, responded \in Maybe : ReadForContact(s, messaged, responded)
       \/ \E events \in SUBSET Events : ReadForCheck(s, events)
       \/ WriteStatus(s) \/ WriteContact(s) \/ WriteCheck(s)

TrackSpec == TrackInit /\ [][TrackNext]_trackVars

-----------------------------------------------------------------------------
(* Properties.                                                             *)

TrackTypeOK ==
  /\ post \in PostRow
  /\ contact \in ContactRow \union {None}
  /\ manual \in [StatusNotes \union ContactNotes -> Nat]
  /\ observed \subseteq {e.id : e \in Events}
  /\ \A s \in Slots : slots[s] = Idle \/ slots[s] \in Running

\* The manual activities tell of an application in the state of the row.
StatusTold(row, notes) ==
  /\ row.appliedAt = None <=> row.status = "not-applied"
  /\ \A n \in StatusNotes : notes[n] # 0 =>
       /\ notes[n] = 1
       /\ n = "submitted" => row.status # "not-applied"
       /\ n = "interviewing" => Stage[row.status] >= 2
       /\ n \in Outcome => row.status = n

(* The application's status, its date and its manual activities tell one   *)
(* story, whatever evidence was saved between the read and the write of a  *)
(* change: an application not made has no date and no activity, and no     *)
(* activity says more than the status, or says it twice.                   *)
TimelineMatchesStatus == StatusTold(post, manual)

(* The same of a contact, under any two updates at a time: a response is   *)
(* one to a message that was sent, and the timeline shows neither a        *)
(* message nor a response twice, nor one that has been taken back.         *)
TimelineMatchesContact ==
  contact # None =>
    /\ contact.respondedAt # None => contact.messaged
    /\ contact.messaged <=> contact.messagedAt # None
    /\ manual["sent"] # 0 => manual["sent"] = 1 /\ contact.messaged
    /\ manual["response"] # 0 => manual["response"] = 1 /\ contact.respondedAt # None

\* The two timelines tell what the records tell.
TimelineMatchesRecords == TimelineMatchesStatus /\ TimelineMatchesContact

(* "Never regress a status from older evidence" (docs/examples/            *)
(* update-check/evidence-policy.md:24): what a check saves moves the       *)
(* application forward, and only past a change that is older, though the   *)
(* user may have made one since the check read the post.                   *)
EvidenceNeverRegresses ==
  [][observed' # observed /\ post' # post =>
       /\ Stage[post'.status] > Stage[post.status]
       /\ IsAfter(post'.statusAt, post.statusAt)
       /\ post.status \in Open
       /\ post'.appliedAt = post.appliedAt]_trackVars

=============================================================================
