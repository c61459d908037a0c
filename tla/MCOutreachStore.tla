---------------------------- MODULE MCOutreachStore ----------------------------
(* Where the runs begin: two discoveries and a reload, one discovery and   *)
(* the revision of a saved contact, two saved contacts and a revision, or  *)
(* a saved contact and a discovery in the Track workspace.                 *)
EXTENDS OutreachStore

Stored(id, post, person) ==
  [id |-> id, post |-> post, person |-> person, draft |-> "found"]

Start(where, contactsThen, used, requests, reloaded) ==
  [workspace |-> where, saved |-> contactsThen, spent |-> used, asked |-> requests,
   reloads |-> reloaded]

TrackStarts ==
  {Start("track", {Stored(1, p, a)}, Revisions \union {t}, 1, 1) :
     p \in PostIds, a \in People, t \in Discoveries}

MCStarts ==
  UNION {
    {Start("apply", {}, Revisions, 1, 1), Start("apply", {}, Revisions, 2, 0)},
    {Start("apply", {Stored(1, p, a)}, {t}, 1, 1) :
       p \in PostIds, a \in People, t \in Discoveries},
    {Start("apply", {Stored(1, p, q[1]), Stored(2, p, q[2])}, Discoveries, 0, 1) :
       p \in PostIds, q \in {r \in People \X People : r[1] # r[2]}},
    TrackStarts}

OutreachSymmetry ==
  Permutations(PostIds) \union Permutations(Discoveries) \union Permutations(People)

====
