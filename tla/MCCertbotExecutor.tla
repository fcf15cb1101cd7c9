--------------------------- MODULE MCCertbotExecutor ---------------------------
(* A small instance of CertbotIssuer: a domain and its wildcard, which       *)
(* certbot keeps in the directory of the domain.                             *)
EXTENDS CertbotIssuer, TLC

CONSTANTS Plain, Wildcard, c1, c2

Domains     == {Plain, Wildcard}
Credentials == {c1, c2}
StemOf      == [n \in Domains |-> Plain]

\* The domain with either credential, as it is edited between runs; its wildcard;
\* and requests whose provider needs no file or is none.
Asked(o, n, p, c) == [op |-> o, name |-> n, plugin |-> p, cred |-> c]

Requests ==
    {Asked("issue", Plain, "cloudflare", c1), Asked("renew", Plain, "cloudflare", c2),
     Asked("issue", Wildcard, "cloudflare", c1), Asked("issue", Wildcard, "route53", c1),
     Asked("issue", Plain, "unknown", c1)}

RunSymmetry == Permutations(Runs)
=============================================================================
