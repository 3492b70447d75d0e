CONSTANTS
    f1 = f1
    f2 = f2
    i1 = i1
    i2 = i2
    t1 = t1
    t2 = t2
    Findings = {f1, f2}
    IdOf <- OwnIds
    NoId = NoId
    Nobody = Nobody
    Tokens = {t1, t2}
    TextOf <- SharedText
    Workers = 2
    MaxAttempts = 1
    Strict = FALSE
SPECIFICATION Spec
INVARIANTS
    CorrectionAnswersOwnPrompt
