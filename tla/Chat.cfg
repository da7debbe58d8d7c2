CONSTANTS
    ann = ann
    bob = bob
    None = None
    Persons = {ann, bob}
    Creators = {ann}
    Batch = 1
    Pages = 2
    MaxChats = 1
    MaxOps = 2
    MaxRestarts = 1
    MaxTime = 5
SPECIFICATION Spec
INVARIANTS InvitationKept LastMessageRight
CHECK_DEADLOCK FALSE
