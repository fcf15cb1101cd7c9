\* Two runs for a domain and its wildcard, beside a backup, with killed certbots
\* and restarts.
CONSTANTS
    Runs     = {r1, r2}
    Plain    = plain
    Wildcard = wildcard
    c1       = c1
    c2       = c2
    Names    <- Domains
    Stem     <- StemOf
    Creds    <- Credentials
    Inputs   <- Requests
    Blank    = blank
    None     = None
SPECIFICATION IssuerSpec
SYMMETRY RunSymmetry
CHECK_DEADLOCK FALSE
INVARIANTS
    TypeOK
    IssuerInv
    PairMatches
    ResultFits
    OwnCredential
    BackupWhole
PROPERTIES
    RefinesIssuer
