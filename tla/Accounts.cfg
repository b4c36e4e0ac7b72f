SPECIFICATION Spec
CONSTANTS
    Threads = {t1, t2}
    ann = ann
    bob = bob
    mail = mail
    post = post
    p = p
    q = q
    Usernames = {ann, bob}
    Emails = {mail, post}
    Passwords = {p, q}
    Changes <- MCChanges
    Mixes <- MCMixes
    MaxAccounts = 2
    Lifetime = 1
    MaxTime = 2
    MaxRestarts = 1
    DbFaults = TRUE
    None = None
    Characters <- MCCharacters
    Texts <- MCTexts
    Walks <- MCWalks
    PageSizes = {1, 2}
SYMMETRY Symmetry
INVARIANTS
    TypeOK
    NamesBelongToOneAccount
    AccountsAnnounced
    ProfilesAreOwn
    QueriesShowAccounts
PROPERTIES
    SessionsStayLapsed
    IsAccountDirectory
