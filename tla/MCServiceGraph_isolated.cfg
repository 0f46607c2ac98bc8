SPECIFICATION Spec
CONSTANTS
    Threads = {t1, t2}
    p = p
    d = d
    e = e
    db = db
    api = api
    here = here
    there = there
    Fibers = {p, d}
    Names = {db}
    Labels = {here, there}
    Inject <- IsolatedInject
    Offers <- IsolatedOffers
    Scope <- IsolatedScope
    Place <- IsolatedPlace
    Checked = {}
    Faulty = {p, d}
    MaxBindings = 3
    MaxRequests = 0
INVARIANT
    Followed
