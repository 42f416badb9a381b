\* Two requests at once, on a name that is passed on from one person to another.
SPECIFICATION Spec
CONSTANTS
    ann = ann
    bob = bob
    n1 = n1
    alias = alias
    r1 = r1
    r2 = r2
    People <- TwoPeople
    Names <- OneName
    Aliases <- OneAlias
    LeadsTo <- AliasLeads
    NoName = NoName
    FirstName <- AnnHasAName
    Requests <- TwoRequests
    NoRequest = NoRequest
    MaxTime = 1
    MaxRenames = 2
    MaxDeletes = 1
    MaxFaults = 1
SYMMETRY Symmetry
INVARIANTS
    NameAndObjectsAgree
    AnswerIsAsked
    NameWasBorne
    MissingOnlyIfRenamed
    RefusedOnlyIfBeaten
