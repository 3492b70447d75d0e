CONSTANTS
    f1 = f1
    f2 = f2
    u = u
    p = p
    q = q
    Reported = {f1, f2}
    Synthesised = {u}
    Blockable = {f1, f2}
    IdOf <- MCIdOf
    Kinds <- MCKinds
    Entities = {p, q}
    EntitiesOf <- MCEntitiesOf
    Addresses = {"x", "y"}
    AddressesOf <- MCAddressesOf
    ArtefactOf <- MCArtefactOf
    SignatureOf <- MCSignatureOf
    TitlesAlike <- MCTitlesAlike
    Cites <- MCCites
    Wordy = {p}
    Nothing = Nothing
    MayBeSkipped = {"propagate", "finalize", "dedup"}
    ReviewAll = TRUE
    Overridable = {f1}
SPECIFICATION Spec
CHECK_DEADLOCK FALSE
INVARIANTS
    TypeOK
    BucketsPartition
    ConfirmedEligible
    NothingDropped
    TableMergesStay
    ConfirmedCountRight
PROPERTIES
    KeepsLadder
