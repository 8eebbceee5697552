SPECIFICATION FairSpec
CONSTANTS
    ann = ann
    bob = bob
    long = long
    other = other
    short = short
    Emails = {ann, bob}
    Phones = {long, other, short}
    Short = {short}
    AppIds = {1}
    LeadTasks = {l1, l2}
    Applicants <- MCApplicants
    Leads <- MCLeads
    Deployments <- MCDeployments
    MaxAttempts = 2
    MaxContacts = 2
INVARIANTS
    TypeOK
    KnownGoesToWebhook
    FallbackMailIsTrue
    NoSecondContact
PROPERTY StoredIsTold
CHECK_DEADLOCK FALSE
