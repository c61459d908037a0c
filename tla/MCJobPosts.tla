------------------------------ MODULE MCJobPosts ------------------------------
(* Two source keys and three listings: one job under two of the keys, known *)
(* by its Greenhouse id on two different pages, and the second key listing  *)
(* another page.                                                            *)
EXTENDS JobPosts, TLC, SequencesExt

Page(page, host, marker, gh, ats) ==
  [page |-> page, host |-> host, jobMarker |-> marker, ghJid |-> gh, atsId |-> ats]

EmployerPage == Page("employer?gh_jid", "other", FALSE, 1, NoId)
BoardPage == Page("board/jobs/1", "greenhouse", TRUE, NoId, 1)
CareersPage == Page("careers", "other", FALSE, NoId, NoId)
OtherPage == Page("careers/other", "other", TRUE, NoId, NoId)

Listing(key, url, apply) ==
  [sourceKey |-> key, postUrl |-> url, applicationUrl |-> apply]

MCEarlierPosts == {Listing("k1", CareersPage, EmployerPage), Listing("k2", BoardPage, BoardPage)}
MCPosts == MCEarlierPosts \union {Listing("k2", CareersPage, OtherPage)}

TokenList == SetToSeq(Tokens)
MCTokenRank == [x \in Tokens |-> CHOOSE i \in 1 .. Len(TokenList) : TokenList[i] = x]

CallSymmetry == Permutations(Calls)

=============================================================================
