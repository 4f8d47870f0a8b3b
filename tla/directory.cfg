CONSTANTS
    h1 = h1  h2 = h2  w1 = w1  w2 = w2  l1 = l1  l2 = l2
    Shares = {s1, s2}
    GroupDocs = {d1, d2}
    GroupNames = {n1, n2}
    Groups = {DomainUsers}
    Users = {u1}
    DomainUsers = DomainUsers
    Letters = {l1, l2}
    Handlers = {h1, h2}
    Workers = {w1, w2}
    Deployments <- TheDeployments
    Requests = 3
    NoLetter = NoLetter
    NoName = NoName
    NoDoc = NoDoc
SPECIFICATION Spec
INVARIANTS LettersUnique   
 
CHECK_DEADLOCK FALSE
