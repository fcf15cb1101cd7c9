--------------------------- MODULE MCDomainService ---------------------------
(* Small instances of DomainService.                                        *)
EXTENDS DomainService, TLC

\* For every name a body with a token, one with credentials of every kind and one
\* with none; and one without a name that brings half a credential for an unheard-of provider.
Body(n, challenge, provider, t, days, filled, s) ==
    [name |-> n, challenge |-> challenge, provider |-> provider, target |-> t,
     days |-> days, filled |-> filled, secret |-> IF filled = {} THEN None ELSE s]

MCConfigs == UNION {
    {Body(n, "dns-01", "cloudflare", t, 0, {"token"}, s),
     Body(n, "dns-01", "route53", t, 60, {"token", "id", "key"}, s),
     Body(n, "http-01", "cloudflare", t, 0, {}, s)} :
        n \in Names, t \in Targets, s \in Secrets}
    \cup {Body(NoName, "dns-01", "unheard", t, 0, {"id"}, s) : t \in Targets, s \in Secrets}

ServiceSymmetry ==
    Permutations(Requests) \cup Permutations(DomainIds) \cup Permutations(Names)
=============================================================================
