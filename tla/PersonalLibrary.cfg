CONSTANTS
    None = None
    u1 = u1
    u2 = u2
    h1 = h1
    h2 = h2
    h3 = h3
    plain = plain
    tagged = tagged
    crowded = crowded
    t1 = t1
    t2 = t2
    Users = {u1, u2}
    Managers = {u2}
    Handlers = {h1, h2, h3}
    userOf <- MCUserOf
    Books = {b1}
    ListIds = {l1, l2}
    NoteIds = {n1}
    RequestIds = {r1}
    Names = {x1}
    Tags = {t1, t2}
    Revisions = {plain, tagged, crowded}
    tagsOf <- MCTagsOf
    MaxTags = 1
    MaxRows = 3
    MaxCalls = 2
SYMMETRY Symmetry
CONSTRAINT Small
SPECIFICATION Spec
INVARIANTS StoreConsistent 
PROPERTY Isolation
