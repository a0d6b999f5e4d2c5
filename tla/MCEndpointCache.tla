---- MODULE MCEndpointCache ----
\* Small instances of EndpointCache: identifiers of rows and of handlers are
\* interchangeable, except where liveness is checked.
EXTENDS EndpointCache, TLC

Symmetry == Permutations(Eps) \cup Permutations(Admins \ Tools) \cup Permutations(Requests)
====
