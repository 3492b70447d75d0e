CONSTANTS
    f1 = f1
    f2 = f2
    u = u
    p = p
    q = q
    Reported = {f1, f2}
    Synthesised = {u}
    Blockable = {}
    IdOf <- MCIdOf
    Kinds <- MCKinds
    Entities = {p, q}
    EntitiesOf <- MCEntitiesOf
    Addresses = {"x", "y"}
    AddressesOf <- MCAddressesOf
    ArtefactOf <- MCArtefactOf
    SignatureOf <- MCSignatureOf
    TitlesAlike <- MCTitlesAlike
    Cites <- MCCites
    Wordy = {}
    Nothing = Nothing
    MayBeSkipped = {"align", "realign", "xdedup", "dedup"}
    ReviewAll = FALSE
    Overridable = {}
SPECIFICATION Spec
CHECK_DEADLOCK FALSE
INVARIANTS
    SplitsJudged
