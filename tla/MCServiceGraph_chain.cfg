SPECIFICATION Spec
SYMMETRY Symmetry
CONSTANTS
    Threads = {t1, t2}
    p = p
    d = d
    e = e
    db = db
    api = api
    here = here
    there = there
    Fibers = {p, d, e}
    Names = {db, api}
    Labels = {here, there}
    Inject <- ChainInject
    Offers <- ChainOffers
    Scope <- Shared
    Place <- Shared
    Checked = {db}
    Faulty = {p}
    MaxBindings = 3
    MaxRequests = 2
INVARIANTS
    Followed
    NoOrphanService
    NoStaleGeneration
    DependentsFirst
    PinnedReadable
PROPERTY
    SetInPlace
