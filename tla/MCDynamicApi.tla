---- MODULE MCDynamicApi ----
\* A small instance of DynamicApi: projects, requests and rows are interchangeable.
EXTENDS DynamicApi, TLC

Symmetry == Permutations(Projects) \cup Permutations(Requests) \cup Permutations(Ids)
====
