SPECIFICATION PublicationsSpec
CONSTANTS
    careful = careful  forceful = forceful  here = here  elsewhere = elsewhere
    Publishers = {careful, forceful}
    Forcing = {forceful}
    Directories = {here, elsewhere}
    MaxMeddling = 2
    p1 = p1  p2 = p2  r1 = r1  r2 = r2  v1 = v1  v2 = v2  old = old
    Promoters = {p1, p2}
    Redeclarers = {r1, r2}
    Providers = {provider}
    Versions = {v1, v2, old}
    Compatible = {v1, v2}
    Missing = Missing
    MaxEdits = 1
SYMMETRY AnyOrder
INVARIANTS WholeOrNothing ReportIsTrue NoLeftover PublishedIsVerified RedeclarationsAreProven
PROPERTIES NoClobber ReleasesAreImmutable
