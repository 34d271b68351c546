SPECIFICATION ApprovalSpec
CONSTANTS
    Integrations = {1, 2}
    Editions = {1, 2, 3}
    Manifest <- MCManifest
    Offers <- MCOffers
    Clients = {c1, c2}
    DefaultKB = 2
    MaxKB = 3
    MaxEdits = 1
    c1 = c1
    c2 = c2
PROPERTY CommandApproves
CHECK_DEADLOCK FALSE
