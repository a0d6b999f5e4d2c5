---- MODULE MCRealtime ----
EXTENDS Realtime, TLC

MCMessages == 1 .. MaxEvents

Symmetric == Permutations(Clients) \cup Permutations(Sockets)
====
