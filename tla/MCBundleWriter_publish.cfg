\* Two calls race for one name, with two files each, where directories can be
\* synced.
CONSTANTS
    w1 = w1
    w2 = w2
    Writer = {w1, w2}
    Files = 2
    SyncWorks = TRUE
SPECIFICATION Spec
SYMMETRY Symmetry
INVARIANTS TypeOK PublishedWhole
PROPERTIES ImplementsStore EndsTidy
CHECK_DEADLOCK FALSE
