SPECIFICATION FairDelivery
CONSTANTS
    Tasks = {t1, t2}
    LeadAttempts = 2
INVARIANTS
    DeliveryTypeOK
    SentWasReceived
    QuietMeansSettled
    SettledWasAttempted
PROPERTY PendingIsSettled
