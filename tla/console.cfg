SPECIFICATION Spec
CONSTANTS
    Shares = {s1, s2}
    MaxAttempts = 2
    MaxShareOps = 2
    MaxFileCalls = 2
    FileNets <- PageNets
    NoShare = NoShare
    Templates = {t1}
    MaxVisits = 2
    MaxTplCalls = 3
    TplNets <- PageNets
    NoTemplate = NoTemplate
    People = {u1, u2}
    Teams = {g1}
    MaxPolls = 2
    MaxEdits = 1
    NoPerson = NoPerson
    PaidPlans = {"pro"}
    MaxCheckouts = 2
    MaxChanges = 1
    MaxEvents = 2
    MaxLoads = 2
    BillNets <- MCBillNets
    NoCustomer = NoCustomer
SYMMETRY Alike
CONSTRAINT NotCrossed
INVARIANTS
    
    PagesSettle
    
CHECK_DEADLOCK FALSE
