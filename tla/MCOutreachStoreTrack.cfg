\* The Track workspace: a contact whose draft is saved stays in the list.
SPECIFICATION OutreachSpec
CONSTANTS
  PostIds = {p1}
  Discoveries = {d1, d2}
  Revisions = {v1}
  People = {alice, bob}
  None = None
  MaxContacts = 2
  MaxCalls = 3
  MaxReloads = 1
  Starts <- TrackStarts
SYMMETRY OutreachSymmetry
PROPERTY SavedDraftIsListed
CHECK_DEADLOCK FALSE
