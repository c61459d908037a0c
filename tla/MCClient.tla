-------------------------------- MODULE MCClient --------------------------------
(* The stores of the client: the outreach of a workspace, or the posts of    *)
(* the Review view; or two Settings pages that show one automation, with the *)
(* bridge and the desktop app.  No part reads what another changes, so a     *)
(* behaviour is one of one of them, and the others are left in one of their  *)
(* initial states.                                                           *)
EXTENDS MCOutreachStore, ReviewStores, Automations

Rule(freq, days, positions) ==
  [freq |-> freq, byDay |-> days, byHour |-> {8, 9}, byMinute |-> {0, 30},
   bySetPos |-> positions, weekStart |-> 0]

\* One the form can show, and one it cannot.
MCFileRules == {Rule("WEEKLY", {0}, {1}), Rule("OTHER", {0}, {})}
MCFormSchedules == {[days |-> {0, 1}, times |-> {<<8, 0>>, <<9, 30>>}]}
MCPositions == {-2, -1, 0, 1, 2, 5}

VARIABLE part

ClientInit ==
  /\ OutreachInit /\ ReviewInit /\ AutomationsInit
  /\ part \in {"outreach", "review", "automations"}
  /\ part # "outreach" => spent = Revisions /\ asked = 1
  /\ made = IF rows[1].added THEN 0 ELSE 1
  /\ part # "review" => rows[1].added
  /\ part # "automations" => config.rule.freq = "WEEKLY"

ClientNext ==
  /\ UNCHANGED part
  /\ \/ part = "outreach" /\ OutreachNext /\ UNCHANGED <<reviewVars, automationVars>>
     \/ part = "review" /\ ReviewNext /\ UNCHANGED <<outreachVars, automationVars>>
     \/ part = "automations" /\ AutomationsNext /\ UNCHANGED <<outreachVars, reviewVars>>

ClientSpec == ClientInit /\ [][ClientNext]_<<outreachVars, reviewVars, automationVars, part>>

ClientSymmetry == OutreachSymmetry \union Permutations(Keys)

ClientTypeOK ==
  CASE part = "outreach" -> OutreachTypeOK
    [] part = "review" -> ReviewTypeOK
    [] part = "automations" -> AutomationsTypeOK

=============================================================================
