SPECIFICATION Spec
CONSTANTS
    Sessions = {s1, s2}
    d1 = d1
    d2 = d2
    a1 = a1
    a2 = a2
    Domains = {d1, d2}
    Addresses = {a1, a2}
    DomainOf <- MCDomainOf
    Absent = Absent
    Bodies <- MCBodies
    ListRoom = 2
    MaxMails = 3
INVARIANTS
    TypeOK
    MailsAreFound
PROPERTIES
    MailStoreSpec
    SilentOnlyDuringDATA
SYMMETRY Symmetry
VIEW View
