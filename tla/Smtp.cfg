SPECIFICATION Spec
CONSTANTS
    Locals = {r}
    Others = {a}
    Nobody = Nobody
    Bare = Bare
    Malformed = Malformed
    MaxTos = 2
    MaxText = 1
    MaxBuffer = 1
INVARIANTS TypeOK DeliversWhatWasMeant SenderIsMeant HasRecipient
