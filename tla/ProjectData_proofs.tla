---- MODULE ProjectData_proofs ----
(***************************************************************************)
(* Proofs about one project's schema and records, for any tables, records, *)
(* requests, scenarios and number of faults: DbTypeOK, in every state, and *)
(* TableWholeExplained.  The statements are described first, then the      *)
(* steps that requests have left to do, then the requests; the second part *)
(* goes the same way for what a table may lack, and who is to blame.       *)
(***************************************************************************)
EXTENDS ProjectData, SequenceTheorems, FiniteSetTheorems, WellFoundedInduction, TLAPS

\* A sequence of steps, of whatever kinds.
IsSeq(q) == q \in Seq({q[i] : i \in DOMAIN q})

\* A sequence over a set is a sequence, and its members are in the set.
LEMMA SeqIs ==
    ASSUME NEW S, NEW q \in Seq(S)
    PROVE  /\ IsSeq(q) /\ Len(q) \in Nat /\ DOMAIN q = 1 .. Len(q)
           /\ \A i \in 1 .. Len(q) : q[i] \in S
<1>1. Len(q) \in Nat /\ DOMAIN q = 1 .. Len(q) /\ \A i \in 1 .. Len(q) : q[i] \in S
    OBVIOUS
<1>2. q = [i \in 1 .. Len(q) |-> q[i]]
    OBVIOUS
<1>3. q \in [1 .. Len(q) -> {q[i] : i \in DOMAIN q}]
    BY <1>1, <1>2
<1> DEFINE R == {q[i] : i \in DOMAIN q}
<1> HIDE DEF R
<1>4. q \in Seq(R)
    BY <1>1, <1>3, SeqDef DEF R
<1> QED BY <1>1, <1>4 DEF IsSeq, R

\* A sequence is the function of its members.
LEMMA SeqParts ==
    ASSUME NEW q, IsSeq(q)
    PROVE  /\ Len(q) \in Nat /\ DOMAIN q = 1 .. Len(q) /\ (q = <<>> <=> Len(q) = 0)
           /\ q = [i \in 1 .. Len(q) |-> q[i]]
<1> DEFINE S == {q[i] : i \in DOMAIN q}
<1>1. q \in Seq(S)
    BY DEF IsSeq
<1> HIDE DEF S
<1> QED BY <1>1

\* What a sequence that is not empty is without its first member.
LEMMA TailOf ==
    ASSUME NEW q, IsSeq(q), q # <<>>
    PROVE  /\ IsSeq(Tail(q)) /\ Len(q) \in Nat /\ Len(q) >= 1
           /\ DOMAIN q = 1 .. Len(q) /\ Head(q) = q[1]
           /\ Len(Tail(q)) = Len(q) - 1 /\ DOMAIN Tail(q) = 1 .. Len(q) - 1
           /\ \A i \in 1 .. Len(q) - 1 : Tail(q)[i] = q[i + 1]
           /\ (Tail(q) = <<>> <=> Len(q) = 1)
<1> DEFINE S == {q[i] : i \in DOMAIN q}
<1>1. q \in Seq(S)
    BY DEF IsSeq
<1> HIDE DEF S
<1>2. Tail(q) \in Seq(S) /\ Len(q) >= 1
    BY <1>1
<1>3. IsSeq(Tail(q))
    BY <1>2, SeqIs
<1>4. Len(q) \in Nat /\ DOMAIN q = 1 .. Len(q) /\ Head(q) = q[1]
    BY <1>1
<1>5. Len(Tail(q)) = Len(q) - 1 /\ \A i \in 1 .. Len(q) - 1 : Tail(q)[i] = q[i + 1]
    BY <1>1, HeadTailProperties
<1>6. DOMAIN Tail(q) = 1 .. Len(q) - 1
    BY <1>2, <1>5
<1>7. Tail(q) = <<>> <=> Len(q) = 1
    BY <1>2, <1>4, <1>5
<1> QED BY <1>2, <1>3, <1>4, <1>5, <1>6, <1>7

\* Two sequences put together.
LEMMA CatOf ==
    ASSUME NEW a, NEW b, IsSeq(a), IsSeq(b)
    PROVE  /\ IsSeq(a \o b) /\ Len(a) \in Nat /\ Len(b) \in Nat
           /\ Len(a \o b) = Len(a) + Len(b) /\ DOMAIN (a \o b) = 1 .. Len(a) + Len(b)
           /\ \A i \in 1 .. Len(a) + Len(b) :
                (a \o b)[i] = IF i <= Len(a) THEN a[i] ELSE b[i - Len(a)]
<1> DEFINE A == {a[i] : i \in DOMAIN a}  B == {b[i] : i \in DOMAIN b}
<1>1. a \in Seq(A) /\ b \in Seq(B)
    BY DEF IsSeq
<1> HIDE DEF A, B
<1>2. a \in Seq(A \cup B) /\ b \in Seq(A \cup B)
    BY <1>1, SeqMonotonic
<1>3. a \o b \in Seq(A \cup B)
    BY <1>2
<1>4. IsSeq(a \o b)
    BY <1>3, SeqIs
<1> QED BY <1>2, <1>3, <1>4

\* The empty sequence has no members.
LEMMA NoSteps == IsSeq(<<>>) /\ Len(<<>>) = 0 /\ DOMAIN <<>> = {}
<1>1. <<>> \in Seq({})
    BY EmptySeq
<1>2. Len(<<>>) = 0
    OBVIOUS
<1>3. IsSeq(<<>>)
    BY <1>1, SeqIs
<1>4. DOMAIN <<>> = {}
    OBVIOUS
<1> QED BY <1>2, <1>3, <1>4

\* A sequence of one step.
LEMMA OneSeq ==
    ASSUME NEW x
    PROVE  IsSeq(<<x>>) /\ Len(<<x>>) = 1 /\ DOMAIN <<x>> = {1} /\ <<x>>[1] = x
<1>1. <<x>> \in Seq({x})
    OBVIOUS
<1>2. IsSeq(<<x>>)
    BY <1>1, SeqIs
<1> QED BY <1>2

\* A sequence of two steps.
LEMMA TwoSeq ==
    ASSUME NEW x, NEW y
    PROVE  IsSeq(<<x, y>>) /\ Len(<<x, y>>) = 2 /\ <<x, y>>[1] = x /\ <<x, y>>[2] = y
<1>1. <<x, y>> \in Seq({x, y})
    OBVIOUS
<1>2. IsSeq(<<x, y>>)
    BY <1>1, SeqIs
<1> QED BY <1>2

\* A sequence of three steps.
LEMMA ThreeSeq ==
    ASSUME NEW x, NEW y, NEW z
    PROVE  /\ IsSeq(<<x, y, z>>) /\ Len(<<x, y, z>>) = 3
           /\ <<x, y, z>>[1] = x /\ <<x, y, z>>[2] = y /\ <<x, y, z>>[3] = z
<1>1. <<x, y, z>> \in Seq({x, y, z})
    OBVIOUS
<1>2. IsSeq(<<x, y, z>>)
    BY <1>1, SeqIs
<1> QED BY <1>2

\* A function of the numbers up to n is a sequence of n members.
LEMMA MapSeq ==
    ASSUME NEW n \in Nat, NEW f, f = [i \in 1 .. n |-> f[i]]
    PROVE  IsSeq(f) /\ Len(f) = n /\ DOMAIN f = 1 .. n
<1> DEFINE S == {f[i] : i \in 1 .. n}
<1>1. f \in [1 .. n -> S]
    OBVIOUS
<1>2. f \in Seq(S) /\ DOMAIN f = 1 .. n
    BY <1>1, SeqDef
<1>3. Len(f) = n
    BY <1>2
<1> HIDE DEF S
<1> QED BY <1>2, <1>3, SeqIs

\* A sequence with a member more.
LEMMA AppendOf ==
    ASSUME NEW q, IsSeq(q), NEW x
    PROVE  /\ IsSeq(Append(q, x)) /\ Len(q) \in Nat /\ Len(Append(q, x)) = Len(q) + 1
           /\ DOMAIN Append(q, x) = 1 .. Len(q) + 1
           /\ \A i \in 1 .. Len(q) + 1 : Append(q, x)[i] = IF i <= Len(q) THEN q[i] ELSE x
<1> DEFINE S == {q[i] : i \in DOMAIN q}
<1>1. q \in Seq(S)
    BY DEF IsSeq
<1> HIDE DEF S
<1>2. q \in Seq(S \cup {x}) /\ Len(q) \in Nat
    BY <1>1, SeqIs, SeqMonotonic
<1>3. Append(q, x) \in Seq(S \cup {x})
    BY <1>2
<1>4. IsSeq(Append(q, x))
    BY <1>3, SeqIs
<1> QED BY <1>2, <1>3, <1>4

\* A set of numbers that is not empty has a least one.
LEMMA NatLeast ==
    ASSUME NEW B, B \subseteq Nat, B # {}
    PROVE  \E m \in B : \A k \in B : m <= k
<1>1. PICK R : R = OpToRel(<, Nat) /\ IsWellFoundedOn(R, Nat)
    BY NatLessThanWellFounded
<1>2. \A x, y \in Nat : y < x => <<y, x>> \in R
    BY <1>1 DEF OpToRel
<1>3. PICK m \in B : \A k \in B : <<k, m>> \notin R
    BY <1>1, WFMin
<1>4. \A k \in B : ~(k < m)
    BY <1>2, <1>3
<1> QED BY <1>4

\* The members of a flattened sequence are those of its members, and no others.
LEMMA FlattenOf ==
    ASSUME NEW q, IsSeq(q), \A i \in DOMAIN q : IsSeq(q[i])
    PROVE  /\ IsSeq(FlattenSeq(q)) /\ DOMAIN FlattenSeq(q) = 1 .. Len(FlattenSeq(q))
           /\ \A m \in DOMAIN FlattenSeq(q) : \E i \in DOMAIN q : \E k \in DOMAIN q[i] :
                FlattenSeq(q)[m] = q[i][k]
           /\ \A i \in DOMAIN q : \A k \in DOMAIN q[i] : \E m \in DOMAIN FlattenSeq(q) :
                FlattenSeq(q)[m] = q[i][k]
<1> DEFINE n == Len(q)
           Flat(f, m) == f = [i \in 1 .. m |-> IF i = 1 THEN q[i] ELSE f[i - 1] \o q[i]]
<1>1. n \in Nat /\ DOMAIN q = 1 .. n
    BY SeqParts
<1>2. ASSUME n = 0
      PROVE  FlattenSeq(q) = <<>> /\ q = <<>>
    BY <1>2, SeqParts DEF FlattenSeq
<1>3. CASE n = 0
    <2>1. FlattenSeq(q) = <<>> /\ DOMAIN q = {}
        BY <1>1, <1>2, <1>3
    <2> QED BY <2>1, NoSteps
<1>4. CASE n # 0
    <2> DEFINE B == {m \in 0 .. n : ~\E f : Flat(f, m)}
    <2>1. B = {}
        <3>1. SUFFICES ASSUME B # {} PROVE FALSE
            OBVIOUS
        <3>2. B \subseteq Nat
            <4> HIDE DEF Flat, n
            <4> QED BY <1>1
        <3>3. PICK m \in B : \A k \in B : m <= k
            BY <3>1, <3>2, NatLeast
        <3>4. m \in 0 .. n /\ ~\E f : Flat(f, m)
            BY <3>3
        <3>5. CASE m = 0
            <4>1. Flat([i \in 1 .. 0 |-> 0], 0)
                OBVIOUS
            <4> QED BY <3>4, <3>5, <4>1
        <3>6. CASE m # 0
            <4>1. m - 1 \in 0 .. n /\ m - 1 \notin B
                <5>1. m \in Nat /\ m - 1 \in 0 .. n /\ ~(m <= m - 1)
                    BY <1>1, <3>4, <3>6
                <5> HIDE DEF B
                <5> QED BY <3>3, <5>1
            <4>2. PICK f : Flat(f, m - 1)
                BY <4>1
            <4> DEFINE g == [i \in 1 .. m |-> IF i = m THEN IF m = 1 THEN q[1] ELSE f[m - 1] \o q[m] ELSE f[i]]
            <4>3. g = [i \in 1 .. m |-> IF i = 1 THEN q[i] ELSE g[i - 1] \o q[i]]
                <5>1. ASSUME NEW i \in 1 .. m PROVE g[i] = IF i = 1 THEN q[i] ELSE g[i - 1] \o q[i]
                    <6>0. i \in Nat /\ m \in Nat
                        BY <1>1, <3>4
                    <6>1. CASE i = m
                        BY <1>1, <3>4, <5>1, <6>1
                    <6>2. CASE i # m
                        <7>1. i \in 1 .. m - 1 /\ (i # 1 => i - 1 \in 1 .. m /\ i - 1 # m)
                            BY <6>0, <6>2
                        <7>2. g[i] = f[i] /\ (i # 1 => g[i - 1] = f[i - 1])
                            BY <6>2, <7>1
                        <7>3. f[i] = IF i = 1 THEN q[i] ELSE f[i - 1] \o q[i]
                            BY <4>2, <7>1
                        <7> QED BY <7>2, <7>3
                    <6> QED BY <6>1, <6>2
                <5> HIDE DEF g
                <5>2. g = [i \in 1 .. m |-> g[i]]
                    BY DEF g
                <5> QED BY <5>1, <5>2
            <4> QED BY <3>4, <4>3
        <3> QED BY <3>5, <3>6
    <2>2. \E f : Flat(f, n)
        <3> HIDE DEF Flat, n
        <3>1. n \in 0 .. n /\ n \notin B
            BY <1>1, <2>1
        <3> QED BY <3>1
    <2> DEFINE F == CHOOSE f : Flat(f, n)
    <2>3. Flat(F, n)
        BY <2>2
    <2>4. FlattenSeq(q) = F[n]
        BY <1>4 DEF FlattenSeq
    <2> HIDE DEF F
    <2>5. \A i \in 1 .. n : F[i] = IF i = 1 THEN q[i] ELSE F[i - 1] \o q[i]
        BY <2>3
    <2> DEFINE Good(i) == /\ IsSeq(F[i])
                          /\ \A m \in DOMAIN F[i] : \E l \in 1 .. i : \E k \in DOMAIN q[l] : F[i][m] = q[l][k]
                          /\ \A l \in 1 .. i : \A k \in DOMAIN q[l] : \E m \in DOMAIN F[i] : F[i][m] = q[l][k]
               C == {i \in 1 .. n : ~Good(i)}
    <2>6. C = {}
        <3>1. SUFFICES ASSUME C # {} PROVE FALSE
            OBVIOUS
        <3>2. C \subseteq Nat
            BY <1>1
        <3>3. PICK m \in C : \A k \in C : m <= k
            BY <3>1, <3>2, NatLeast
        <3>4. m \in 1 .. n /\ ~Good(m) /\ m \in Nat
            BY <1>1, <3>3
        <3>5. CASE m = 1
            <4>1. F[1] = q[1] /\ 1 \in DOMAIN q /\ IsSeq(q[1])
                BY <1>1, <2>5, <3>4, <3>5
            <4>2. 1 .. 1 = {1}
                OBVIOUS
            <4> QED BY <3>4, <3>5, <4>1, <4>2
        <3>6. CASE m # 1
            <4>1. m - 1 \in 1 .. n /\ m - 1 \notin C
                <5>1. m \in Nat /\ m - 1 \in 1 .. n /\ ~(m <= m - 1)
                    BY <1>1, <3>4, <3>6
                <5> HIDE DEF C
                <5> QED BY <3>3, <5>1
            <4>2. Good(m - 1)
                BY <4>1
            <4>3. F[m] = F[m - 1] \o q[m] /\ IsSeq(q[m]) /\ m \in DOMAIN q
                BY <1>1, <2>5, <3>4, <3>6
            <4> DEFINE a == F[m - 1]  b == q[m]
            <4>4. /\ IsSeq(a \o b) /\ Len(a) \in Nat /\ Len(b) \in Nat /\ DOMAIN (a \o b) = 1 .. Len(a) + Len(b)
                  /\ \A i \in 1 .. Len(a) + Len(b) : (a \o b)[i] = IF i <= Len(a) THEN a[i] ELSE b[i - Len(a)]
                BY <4>2, <4>3, CatOf
            <4>5. DOMAIN a = 1 .. Len(a) /\ DOMAIN b = 1 .. Len(b)
                BY <4>2, <4>3, SeqParts
            <4>6. F[m] = a \o b
                BY <4>3
            <4>7. \A l : l \in 1 .. m - 1 => l \in 1 .. m
                BY <3>4
            <4>8. \A l : l \in 1 .. m => l \in 1 .. m - 1 \/ l = m
                BY <3>4
            <4>9. \A i \in DOMAIN a : \E l \in 1 .. m - 1 : \E k \in DOMAIN q[l] : a[i] = q[l][k]
                BY <4>2
            <4>10. \A l \in 1 .. m - 1 : \A k \in DOMAIN q[l] : \E i \in DOMAIN a : a[i] = q[l][k]
                BY <4>2
            <4> HIDE DEF a, Good
            <4>11. IsSeq(F[m])
                BY <4>4, <4>6
            <4>12. ASSUME NEW i \in DOMAIN F[m]
                   PROVE  \E l \in 1 .. m : \E k \in DOMAIN q[l] : F[m][i] = q[l][k]
                <5>1. i \in 1 .. Len(a) + Len(b) /\ F[m][i] = IF i <= Len(a) THEN a[i] ELSE b[i - Len(a)]
                    BY <4>4, <4>6, <4>12
                <5>2. CASE i <= Len(a)
                    <6>1. i \in DOMAIN a
                        BY <4>4, <4>5, <5>1, <5>2
                    <6>2. PICK l \in 1 .. m - 1 : \E k \in DOMAIN q[l] : a[i] = q[l][k]
                        BY <4>9, <6>1
                    <6>3. l \in 1 .. m
                        BY <4>7
                    <6> QED BY <5>1, <5>2, <6>2, <6>3
                <5>3. CASE ~(i <= Len(a))
                    <6>1. i - Len(a) \in DOMAIN q[m] /\ m \in 1 .. m
                        BY <3>4, <4>4, <4>5, <5>1, <5>3
                    <6>2. F[m][i] = q[m][i - Len(a)]
                        BY <5>1, <5>3
                    <6> QED BY <6>1, <6>2
                <5> QED BY <5>2, <5>3
            <4>13. ASSUME NEW l \in 1 .. m, NEW k \in DOMAIN q[l]
                   PROVE  \E i \in DOMAIN F[m] : F[m][i] = q[l][k]
                <5>1. CASE l \in 1 .. m - 1
                    <6>1. PICK i \in DOMAIN a : a[i] = q[l][k]
                        BY <4>10, <5>1
                    <6>2. i \in 1 .. Len(a) + Len(b) /\ i <= Len(a)
                        BY <4>4, <4>5, <6>1
                    <6> QED BY <4>4, <4>6, <6>1, <6>2
                <5>2. CASE l = m
                    <6>1. k \in 1 .. Len(b)
                        BY <4>5, <5>2
                    <6>2. Len(a) + k \in 1 .. Len(a) + Len(b) /\ ~(Len(a) + k <= Len(a)) /\ (Len(a) + k) - Len(a) = k
                        BY <4>4, <6>1
                    <6>3. F[m][Len(a) + k] = b[k]
                        BY <4>4, <4>6, <6>2
                    <6>4. Len(a) + k \in DOMAIN F[m]
                        BY <4>4, <4>6, <6>2
                    <6> QED BY <5>2, <6>3, <6>4
                <5> QED BY <4>8, <5>1, <5>2
            <4>14. Good(m)
                BY <4>11, <4>12, <4>13 DEF Good
            <4> QED BY <3>4, <4>14
        <3> QED BY <3>5, <3>6
    <2>7. Good(n)
        BY <1>1, <1>4, <2>6
    <2>8. DOMAIN F[n] = 1 .. Len(F[n])
        BY <2>7, SeqParts
    <2> DEFINE Q == FlattenSeq(q)
    <2>9. Q = F[n]
        BY <2>4
    <2> HIDE DEF Q, n
    <2>10. IsSeq(Q) /\ DOMAIN Q = 1 .. Len(Q)
        BY <2>7, <2>8, <2>9
    <2>11. /\ \A m \in DOMAIN Q : \E i \in DOMAIN q : \E k \in DOMAIN q[i] : Q[m] = q[i][k]
           /\ \A i \in DOMAIN q : \A k \in DOMAIN q[i] : \E m \in DOMAIN Q : Q[m] = q[i][k]
        BY <1>1, <2>7, <2>9
    <2> QED BY <2>10, <2>11 DEF Q
<1> QED BY <1>3, <1>4

----------------------------------------------------------------------------
(***************************************************************************)
(* Statements. SingleOK says what each of them is about: the table and the *)
(* columns it names, the rows it inserts with their columns, the foreign   *)
(* key it adds. Such a statement makes a database of a database, whatever  *)
(* it does to keys, indexes, foreign keys and rows; so does a transaction  *)
(* of them.                                                                *)
(***************************************************************************)

OnTables == {"CREATE TABLE", "CREATE TRIGGER", "ADD COLUMN", "DROP COLUMN", "DROP KEY", "ADD KEY",
             "CREATE UNIQUE INDEX", "DROP INDEX", "ADD FOREIGN KEY", "DROP FOREIGN KEYS", "TRUNCATE",
             "DROP TABLE", "DROP TABLE RESTRICT", "DROP VIEW", "TIMESCALE", "INSERT", "UPDATE",
             "SET DELETED", "DELETE", "DELETE ALL", "DROP KEY IF EXISTS"}

SingleOK(s) ==
    /\ s.soft \in BOOLEAN
    /\ s.sql \in OnTables => s.tab \in Tables
    /\ s.sql = "CREATE TABLE" =>
        s.cols \subseteq Columns /\ s.key \in Base \cup {"none"} /\ s.key \in s.cols \cup {"none"}
    /\ s.sql \in {"ADD COLUMN", "DROP COLUMN"} => s.col \in Columns
    /\ s.sql = "ADD KEY" => s.key \in Base
    /\ s.sql = "ADD FOREIGN KEY" => s.fk \in Links /\ s.fk.from = s.tab
    /\ s.sql = "INSERT" => s.rows \subseteq Rows /\ \A r \in s.rows : r.gone => "deleted_at" \in s.cols
    /\ s.sql = "UPDATE" => s.v \in Values
    /\ s.sql = "SET DELETED" => s.gone \in BOOLEAN
    /\ s.sql = "TIMESCALE" => s.adds \subseteq Facts
    /\ s.sql \in {"INSERT SYSTEM ROWS", "REPLACE SYSTEM ROWS"} => s.of \subseteq Kinds \X Tables

\* A database with another table t.
LEMMA WithIs ==
    ASSUME NEW d, Database(d), NEW t \in Tables, NEW T
    PROVE  /\ With(d, t, T) = [tab |-> Put(d.tab, t, T), fks |-> d.fks, sys |-> d.sys]
           /\ DOMAIN Put(d.tab, t, T) = DOMAIN d.tab \cup {t}
           /\ \A u \in DOMAIN d.tab \cup {t} : Put(d.tab, t, T)[u] = IF u = t THEN T ELSE d.tab[u]
BY DEF With, Put, Database

\* A well-formed table put into a database leaves a database, when no constraint is violated
\* and the column of its foreign keys stays.
LEMMA WithKeeps ==
    ASSUME NEW d, Database(d), NEW t \in Tables, NEW T \in Table, WellFormed(T),
           NEW e, e = With(d, t, T), Sound(e), \A f \in d.fks : f.from = t => "v" \in T.cols
    PROVE  Database(e)
<1> DEFINE P == Put(d.tab, t, T)
<1>0. e = [tab |-> P, fks |-> d.fks, sys |-> d.sys] /\ DOMAIN P = DOMAIN d.tab \cup {t}
      /\ \A u \in DOMAIN d.tab \cup {t} : P[u] = IF u = t THEN T ELSE d.tab[u]
    BY DEF With, Put, Database
<1>2. P = [u \in DOMAIN P |-> P[u]]
    BY DEF Put
<1> HIDE DEF P
<1>1. e = [tab |-> P, fks |-> d.fks, sys |-> d.sys] /\ DOMAIN P = DOMAIN d.tab \cup {t}
      /\ \A u \in DOMAIN P : P[u] = IF u = t THEN T ELSE d.tab[u]
    BY <1>0
<1>3. P \in [DOMAIN P -> Table] /\ DOMAIN P \subseteq Tables
    BY <1>1, <1>2 DEF Database
<1>4. \A f \in d.fks : f.from \in DOMAIN d.tab
    BY DEF Database, Sound
<1> QED BY <1>1, <1>3, <1>4 DEF Database

\* So do other rows in a table that is there.
LEMMA RowsKeep ==
    ASSUME NEW d, Database(d), NEW t \in DOMAIN d.tab, NEW rows, rows \subseteq Rows,
           \A r \in rows : r.gone => "deleted_at" \in d.tab[t].cols,
           NEW e, e = With(d, t, [d.tab[t] EXCEPT !.rows = rows]), Sound(e)
    PROVE  Database(e)
<1> DEFINE T == d.tab[t]  U == [T EXCEPT !.rows = rows]
<1>1. T \in Table /\ WellFormed(T) /\ t \in Tables /\ \A f \in d.fks : f.from = t => "v" \in T.cols
    BY DEF Database
<1> HIDE DEF T
<1>2. U \in Table /\ U.cols = T.cols /\ U.rows = rows /\ U.key = T.key /\ U.uniq = T.uniq /\ U.time = T.time
    BY <1>1 DEF Table
<1>3. WellFormed(U)
    BY <1>1, <1>2 DEF WellFormed, T
<1>4. e = With(d, t, U)
    BY DEF T
<1> HIDE DEF U
<1> QED BY <1>1, <1>2, <1>3, <1>4, WithKeeps

\* A table has lost rows, or values of rows.
Shrunk(p, q) == \E R : q = [p EXCEPT !.rows = R] /\ \A r \in R : \E x \in p.rows : r = x \/ r = [x EXCEPT !.v = Null]

\* What a statement does to the tables that refer to its own.
LEMMA CascadeIs ==
    ASSUME NEW P, NEW F, NEW S, NEW w, w = [tab |-> P, fks |-> F, sys |-> S], NEW t
    PROVE  \E Q : /\ Cascade(w, t) = [tab |-> Q, fks |-> F, sys |-> S]
                 /\ DOMAIN Q = DOMAIN P /\ Q = [u \in DOMAIN Q |-> Q[u]]
                 /\ \A u \in DOMAIN P : Shrunk(P[u], Q[u])
<1> DEFINE orphaned(s, r, rule) == \E f \in w.fks :
            f.from = s /\ f.to = t /\ f.rule = rule /\ r.v # Null /\ \A q \in w.tab[t].rows : q.id # r.v
           left(s, r) == IF orphaned(s, r, "SET NULL") THEN [r EXCEPT !.v = Null] ELSE r
           Left(s) == {left(s, r) : r \in {q \in w.tab[s].rows : ~orphaned(s, q, "CASCADE")}}
           Q == [s \in DOMAIN w.tab |-> [w.tab[s] EXCEPT !.rows = Left(s)]]
<1>1. Cascade(w, t) = [w EXCEPT !.tab = Q]
    BY DEF Cascade
<1>2. w.tab = P /\ Cascade(w, t) = [tab |-> Q, fks |-> F, sys |-> S]
    <2> HIDE DEF Q
    <2> QED BY <1>1
<1>3. \A s : \A r \in Left(s) : \E q \in w.tab[s].rows : r = q \/ r = [q EXCEPT !.v = Null]
    <2> HIDE DEF orphaned
    <2> QED OBVIOUS
<1> HIDE DEF Left
<1>5. DOMAIN Q = DOMAIN P /\ Q = [u \in DOMAIN Q |-> Q[u]] /\ \A u \in DOMAIN P : Q[u] = [P[u] EXCEPT !.rows = Left(u)]
    BY <1>2
<1> HIDE DEF Q
<1>6. ASSUME NEW u \in DOMAIN P PROVE Shrunk(P[u], Q[u])
    <2>1. PICK R : R = Left(u)
        OBVIOUS
    <2>2. Q[u] = [P[u] EXCEPT !.rows = R]
        BY <1>5, <2>1
    <2>3. \A r \in R : \E x \in P[u].rows : r = x \/ r = [x EXCEPT !.v = Null]
        BY <1>2, <1>3, <2>1, Zenon
    <2> QED BY <2>2, <2>3, Zenon DEF Shrunk
<1>7. DOMAIN Q = DOMAIN P /\ Q = [u \in DOMAIN Q |-> Q[u]]
    BY <1>5
<1> QED BY <1>2, <1>6, <1>7

\* The rows that a statement took away, and what follows them, leave a right database.

LEMMA CascadeKeeps ==
    ASSUME NEW d, Database(d), NEW t \in DOMAIN d.tab, NEW rows, rows \subseteq d.tab[t].rows,
           NEW e, e = Cascade(With(d, t, [d.tab[t] EXCEPT !.rows = rows]), t), Sound(e)
    PROVE  Database(e)
<1> DEFINE T == [d.tab[t] EXCEPT !.rows = rows]
           P == Put(d.tab, t, T)
<1>0. t \in Tables /\ \A u \in DOMAIN d.tab : d.tab[u] \in Table /\ WellFormed(d.tab[u])
    BY DEF Database
<1>1. With(d, t, T) = [tab |-> P, fks |-> d.fks, sys |-> d.sys] /\ DOMAIN P = DOMAIN d.tab
      /\ \A u \in DOMAIN d.tab : P[u] = IF u = t THEN T ELSE d.tab[u]
    BY <1>0 DEF With, Put, Database
<1> HIDE DEF P
<1>2. PICK Q : /\ e = [tab |-> Q, fks |-> d.fks, sys |-> d.sys]
               /\ DOMAIN Q = DOMAIN P /\ Q = [u \in DOMAIN Q |-> Q[u]]
               /\ \A u \in DOMAIN P : Shrunk(P[u], Q[u])
    <2>1. PICK w : w = With(d, t, T) /\ e = Cascade(w, t)
        OBVIOUS
    <2> HIDE DEF T
    <2>2. w = [tab |-> P, fks |-> d.fks, sys |-> d.sys]
        BY <1>1, <2>1
    <2> QED BY <2>1, <2>2, CascadeIs
<1>3. ASSUME NEW u \in DOMAIN d.tab
      PROVE  Q[u] \in Table /\ WellFormed(Q[u]) /\ Q[u].cols = d.tab[u].cols
    <2> DEFINE D == d.tab[u]  p == P[u]
    <2>1. D \in Table /\ WellFormed(D)
        BY <1>0
    <2>2. p \in Table /\ WellFormed(p) /\ p.cols = D.cols
        <3>1. CASE u = t
            <4>1. p = [D EXCEPT !.rows = rows] /\ rows \subseteq D.rows
                BY <1>1, <3>1
            <4> HIDE DEF p, D
            <4>2. /\ p \in Table /\ p.cols = D.cols /\ p.key = D.key /\ p.uniq = D.uniq /\ p.time = D.time
                  /\ p.rows = rows
                BY <2>1, <4>1 DEF Table
            <4> QED BY <2>1, <4>1, <4>2 DEF WellFormed
        <3>2. CASE u # t
            BY <1>1, <2>1, <3>2
        <3> QED BY <3>1, <3>2
    <2>3. PICK R : /\ Q[u] = [p EXCEPT !.rows = R]
                   /\ \A r \in R : \E q \in p.rows : r = q \/ r = [q EXCEPT !.v = Null]
        BY <1>1, <1>2 DEF Shrunk
    <2> HIDE DEF p, D
    <2>4. p.rows \subseteq Rows
        BY <2>2 DEF Table
    <2>5. \A q \in Rows : [q EXCEPT !.v = Null] \in Rows /\ [q EXCEPT !.v = Null].gone = q.gone
        BY DEF Rows, Values
    <2>6. R \subseteq Rows /\ \A r \in R : r.gone => "deleted_at" \in p.cols
        BY <2>2, <2>3, <2>4, <2>5 DEF WellFormed
    <2> DEFINE U == Q[u]
    <2> HIDE DEF U
    <2>7. /\ U \in Table /\ U.cols = p.cols /\ U.key = p.key /\ U.uniq = p.uniq /\ U.time = p.time
          /\ U.rows = R
        BY <2>2, <2>3, <2>6 DEF Table, U
    <2> QED BY <2>2, <2>6, <2>7 DEF WellFormed, U, D
<1>4. \A f \in d.fks : f.from \in DOMAIN d.tab /\ "v" \in d.tab[f.from].cols
    BY DEF Database, Sound
<1>5. Q \in [DOMAIN Q -> Table] /\ DOMAIN Q \subseteq Tables /\ DOMAIN Q = DOMAIN d.tab
    BY <1>1, <1>2, <1>3 DEF Database
<1> QED BY <1>2, <1>3, <1>4, <1>5 DEF Database

\* A database without one of its tables, and without the foreign keys from and to it.
LEMMA WithoutKeeps ==
    ASSUME NEW d, Database(d), NEW t, NEW e, e = Without(d, t), Sound(e)
    PROVE  Database(e)
<1> DEFINE P == Restrict(d.tab, DOMAIN d.tab \ {t})  F == {f \in d.fks : t \notin {f.from, f.to}}
<1>1. e = [tab |-> P, fks |-> F, sys |-> d.sys]
    BY DEF Without, Database
<1>2. DOMAIN P = DOMAIN d.tab \ {t} /\ P = [u \in DOMAIN P |-> P[u]] /\ \A u \in DOMAIN P : P[u] = d.tab[u]
    BY DEF Restrict
<1>3. \A f \in d.fks : f.from \in DOMAIN d.tab /\ "v" \in d.tab[f.from].cols
    BY DEF Database, Sound
<1>4. F \subseteq d.fks /\ \A f \in F : f.from # t
    OBVIOUS
<1> HIDE DEF P, F
<1> QED BY <1>1, <1>2, <1>3, <1>4 DEF Database

\* A database without a column, and without all that was on the column.
LEMMA DropCascadeKeeps ==
    ASSUME NEW d, Database(d), NEW t \in DOMAIN d.tab, NEW col, ~("hypertable" \in d.tab[t].time /\ col = "v"),
           NEW e, e = DropCascade(d, t, col), Sound(e)
    PROVE  Database(e)
<1> DEFINE T == d.tab[t]
           rows == Blank(T.rows, col)
           U == [T EXCEPT !.cols = @ \ {col}, !.key = IF @ = col THEN "none" ELSE @,
                          !.uniq = @ /\ col # "v", !.rows = rows]
           P == Put(d.tab, t, U)
           F == {f \in d.fks : ~(f.to = t /\ col = "id") /\ ~(f.from = t /\ col = "v")}
<1>0. t \in Tables /\ T \in Table /\ WellFormed(T)
    BY DEF Database
<1>1. e = [With(d, t, U) EXCEPT !.fks = F]
    <2>1. U = [T EXCEPT !.cols = @ \ {col}, !.key = IF @ = col THEN "none" ELSE @, !.uniq = @ /\ col # "v",
                        !.rows = Blank(@, col)]
        BY <1>0 DEF Table
    <2> QED BY <2>1, <1>0 DEF DropCascade, With, Put, Database
<1>2. e = [tab |-> P, fks |-> F, sys |-> d.sys] /\ DOMAIN P = DOMAIN d.tab
      /\ \A u \in DOMAIN d.tab : P[u] = IF u = t THEN U ELSE d.tab[u]
    BY <1>0, <1>1 DEF With, Put, Database
<1>3. rows \subseteq Rows /\ \A r \in rows : r.gone => "deleted_at" \in T.cols \ {col}
    <2>1. T.rows \subseteq Rows /\ \A r \in T.rows : r.gone => "deleted_at" \in T.cols
        BY <1>0 DEF Table, WellFormed
    <2> HIDE DEF T
    <2>2. CASE col = "deleted_at"
        BY <2>1, <2>2 DEF Rows, Blank
    <2>3. CASE col = "v"
        <3>1. rows = {[r EXCEPT !.v = Null] : r \in T.rows}
            BY <2>3 DEF Blank
        <3>2. \A q \in Rows : [q EXCEPT !.v = Null] \in Rows /\ [q EXCEPT !.v = Null].gone = q.gone
            BY DEF Rows, Values
        <3> QED BY <2>1, <2>3, <3>1, <3>2
    <2>4. CASE col \notin {"deleted_at", "v"}
        BY <2>1, <2>4 DEF Blank
    <2> QED BY <2>2, <2>3, <2>4
<1> HIDE DEF rows, T
<1>4. /\ U \in Table /\ U.cols = T.cols \ {col} /\ U.key = (IF T.key = col THEN "none" ELSE T.key)
      /\ U.uniq = (T.uniq /\ col # "v") /\ U.time = T.time /\ U.rows = rows
    BY <1>0, <1>3 DEF Table
<1> HIDE DEF U
<1>5. WellFormed(U)
    BY <1>0, <1>3, <1>4 DEF WellFormed, Table, T
<1>6. P = [u \in DOMAIN P |-> P[u]]
    BY DEF Put
<1>7. \A f \in F : f \in d.fks /\ f.from \in DOMAIN d.tab /\ "v" \in d.tab[f.from].cols
                     /\ (f.from = t => col # "v")
    BY DEF Database, Sound
<1> HIDE DEF P, F
<1>8. P \in [DOMAIN P -> Table] /\ DOMAIN P \subseteq Tables /\ \A u \in DOMAIN P : WellFormed(P[u])
    BY <1>2, <1>4, <1>5, <1>6 DEF Database
<1>9. \A f \in F : "v" \in P[f.from].cols
    BY <1>2, <1>4, <1>7 DEF T
<1>10. F \subseteq Links /\ d.sys \subseteq Kinds \X Tables
    BY <1>7 DEF Database
<1> QED BY <1>2, <1>8, <1>9, <1>10 DEF Database

\* A statement that PostgreSQL carries out leaves the database as it should be.
LEMMA SingleKeeps ==
    ASSUME NEW d, Database(d), NEW s, SingleOK(s), NEW e \in Single(d, s)
    PROVE  Database(e)
<1> DEFINE t == s.tab  T == d.tab[t]
<1>1. e \in Effects(d, s) /\ Sound(e)
    BY DEF Single
<1>2. CASE s.sql \in {"CREATE FUNCTION", "LOG"}
    BY <1>1, <1>2 DEF Effects
<1>3. CASE s.sql = "DELETE SYSTEM ROWS"
    <2>1. e = [d EXCEPT !.sys = @ \ s.of]
        BY <1>1, <1>3 DEF Effects
    <2> QED BY <1>1, <2>1 DEF Database
<1>4. CASE s.sql = "REPLACE SYSTEM ROWS"
    <2>1. e = [d EXCEPT !.sys = {x \in @ : x[1] # s.kind} \cup s.of]
        BY <1>1, <1>4 DEF Effects
    <2>2. s.of \subseteq Kinds \X Tables
        BY <1>4 DEF SingleOK
    <2> QED BY <1>1, <2>1, <2>2 DEF Database
<1>5. CASE s.sql = "INSERT SYSTEM ROWS"
    <2>1. e = [d EXCEPT !.sys = @ \cup s.of]
        BY <1>1, <1>5 DEF Effects
    <2>2. s.of \subseteq Kinds \X Tables
        BY <1>5 DEF SingleOK
    <2> QED BY <1>1, <2>1, <2>2 DEF Database
<1>6. CASE s.sql \notin {"CREATE FUNCTION", "LOG", "DELETE SYSTEM ROWS", "REPLACE SYSTEM ROWS", "INSERT SYSTEM ROWS"}
    <2>1. e \in OnTable(d, s)
        BY <1>1, <1>6 DEF Effects
    <2>2. CASE s.sql = "DROP TABLE"
        <3>1. e = Without(d, t)
            BY <2>1, <2>2 DEF OnTable
        <3> QED BY <1>1, <3>1, WithoutKeeps
    <2>3. CASE s.sql # "DROP TABLE" /\ t \notin DOMAIN d.tab
        <3>1. CASE s.sql = "CREATE TABLE"
            <4> DEFINE U == NewTable(s.cols, s.key)
            <4>1. e = With(d, t, U)
                BY <2>1, <2>3, <3>1 DEF OnTable
            <4>2. /\ t \in Tables /\ s.cols \subseteq Columns /\ s.key \in Base \cup {"none"}
                  /\ s.key \in s.cols \cup {"none"}
                BY <3>1 DEF SingleOK, OnTables
            <4>3. U \in Table /\ WellFormed(U)
                BY <4>2 DEF NewTable, Table, WellFormed, Base
            <4>4. \A f \in d.fks : f.from # t
                BY <2>3 DEF Database, Sound
            <4> HIDE DEF U
            <4> QED BY <1>1, <4>1, <4>2, <4>3, <4>4, WithKeeps
        <3>2. CASE s.sql # "CREATE TABLE"
            <4>1. e = d
                BY <2>1, <2>3, <3>2 DEF OnTable
            <4> QED BY <4>1
        <3> QED BY <3>1, <3>2
    <2>4. CASE s.sql # "DROP TABLE" /\ t \in DOMAIN d.tab
        <3>0. /\ t \in Tables /\ T \in Table /\ WellFormed(T)
              /\ \A f \in d.fks : f.from = t => "v" \in T.cols
            BY <2>4 DEF Database
        <3>1. s.sql \in OnTables \ {"CREATE TABLE", "DROP TABLE"}
            BY <2>1, <2>4 DEF OnTable, OnTables
        <3>2. CASE s.sql \in {"CREATE TRIGGER", "ADD COLUMN", "DROP KEY", "ADD KEY", "CREATE UNIQUE INDEX",
                              "DROP INDEX", "DROP VIEW", "TIMESCALE", "DROP KEY IF EXISTS"}
            <4> DEFINE New(U) == U \in Table /\ WellFormed(U) /\ e = With(d, t, U) /\ T.cols \subseteq U.cols
            <4> SUFFICES \E U : New(U)
                BY <1>1, <3>0, WithKeeps
            <4>1. CASE s.sql = "CREATE TRIGGER"
                <5> DEFINE U == [T EXCEPT !.trigger = TRUE]
                <5>1. e = With(d, t, U)
                    BY <2>1, <2>4, <4>1 DEF OnTable
                <5>2. U \in Table /\ WellFormed(U) /\ T.cols \subseteq U.cols
                    BY <3>0 DEF Table, WellFormed
                <5> QED BY <5>1, <5>2
            <4>2. CASE s.sql = "ADD COLUMN"
                <5> DEFINE U == [T EXCEPT !.cols = @ \cup {s.col}]
                <5>1. e = With(d, t, U)
                    BY <2>1, <2>4, <4>2 DEF OnTable
                <5>2. s.col \in Columns
                    BY <4>2 DEF SingleOK
                <5>3. U \in Table /\ WellFormed(U) /\ T.cols \subseteq U.cols
                    BY <3>0, <5>2 DEF Table, WellFormed
                <5> QED BY <5>1, <5>3
            <4>3. CASE s.sql \in {"DROP KEY", "DROP KEY IF EXISTS"}
                <5> DEFINE U == [T EXCEPT !.key = "none"]
                <5>1. e = With(d, t, U)
                    BY <2>1, <2>4, <4>3 DEF OnTable
                <5>2. U \in Table /\ WellFormed(U) /\ T.cols \subseteq U.cols
                    BY <3>0 DEF Table, WellFormed
                <5> QED BY <5>1, <5>2
            <4>4. CASE s.sql = "ADD KEY"
                <5> DEFINE U == [T EXCEPT !.key = s.key, !.uniq = @ /\ ~s.promote]
                <5>1. e = With(d, t, U) /\ s.key \in T.cols /\ ("hypertable" \in T.time => s.key = "v")
                    BY <2>1, <2>4, <4>4 DEF OnTable
                <5>2. s.key \in Base
                    BY <4>4 DEF SingleOK
                <5>3. U \in Table /\ U.cols = T.cols /\ U.key = s.key /\ (U.uniq => T.uniq) /\ U.time = T.time /\ U.rows = T.rows
                    BY <3>0, <5>2 DEF Table
                <5>4. WellFormed(U)
                    BY <3>0, <5>1, <5>3 DEF WellFormed
                <5> QED BY <5>1, <5>3, <5>4
            <4>5. CASE s.sql = "CREATE UNIQUE INDEX"
                <5> DEFINE U == [T EXCEPT !.uniq = TRUE]
                <5>1. e = With(d, t, U) /\ "v" \in T.cols
                    BY <2>1, <2>4, <4>5 DEF OnTable
                <5>2. U \in Table /\ WellFormed(U) /\ T.cols \subseteq U.cols
                    BY <3>0, <5>1 DEF Table, WellFormed
                <5> QED BY <5>1, <5>2
            <4>6. CASE s.sql = "DROP INDEX"
                <5> DEFINE U == [T EXCEPT !.uniq = FALSE]
                <5>1. e = With(d, t, U)
                    BY <2>1, <2>4, <4>6 DEF OnTable
                <5>2. U \in Table /\ WellFormed(U) /\ T.cols \subseteq U.cols
                    BY <3>0 DEF Table, WellFormed
                <5> QED BY <5>1, <5>2
            <4>7. CASE s.sql = "DROP VIEW"
                <5> DEFINE U == [T EXCEPT !.time = @ \ {"view", "refresh"}]
                <5>1. e = With(d, t, U)
                    BY <2>1, <2>4, <4>7 DEF OnTable
                <5>2. U \in Table /\ WellFormed(U) /\ T.cols \subseteq U.cols
                    BY <3>0 DEF Table, WellFormed
                <5> QED BY <5>1, <5>2
            <4>8. CASE s.sql = "TIMESCALE"
                <5> DEFINE U == [T EXCEPT !.time = (@ \ s.drops) \cup s.adds]
                <5>1. e = With(d, t, U) /\ ("hypertable" \in s.adds => "v" \in T.cols /\ T.key # "id")
                    BY <2>1, <2>4, <4>8 DEF OnTable
                <5>2. s.adds \subseteq Facts
                    BY <4>8 DEF SingleOK
                <5>3. U \in Table /\ U.cols = T.cols /\ U.key = T.key /\ U.uniq = T.uniq
                      /\ U.time = (T.time \ s.drops) \cup s.adds /\ U.rows = T.rows
                    BY <3>0, <5>2 DEF Table
                <5>4. WellFormed(U)
                    BY <3>0, <5>1, <5>3 DEF WellFormed
                <5> QED BY <5>1, <5>3, <5>4
            <4> QED BY <3>2, <4>1, <4>2, <4>3, <4>4, <4>5, <4>6, <4>7, <4>8
        <3>3. CASE s.sql \in {"TRUNCATE", "INSERT", "UPDATE", "SET DELETED"}
            <4> DEFINE New(rows) == /\ rows \subseteq Rows /\ e = With(d, t, [T EXCEPT !.rows = rows])
                                    /\ \A r \in rows : r.gone => "deleted_at" \in T.cols
            <4> SUFFICES \E rows : New(rows)
                BY <1>1, <2>4, RowsKeep
            <4>0. T.rows \subseteq Rows /\ \A r \in T.rows : r.gone => "deleted_at" \in T.cols
                BY <3>0 DEF Table, WellFormed
            <4>1. CASE s.sql = "TRUNCATE"
                <5>1. e = With(d, t, [T EXCEPT !.rows = {}])
                    BY <2>1, <2>4, <4>1 DEF OnTable
                <5>2. New({})
                    BY <5>1
                <5> HIDE DEF New
                <5> QED BY <5>2
            <4>2. CASE s.sql = "INSERT"
                <5>1. e = With(d, t, [T EXCEPT !.rows = T.rows \cup s.rows]) /\ s.cols \subseteq T.cols
                    BY <2>1, <2>4, <4>2 DEF OnTable
                <5>2. s.rows \subseteq Rows /\ \A r \in s.rows : r.gone => "deleted_at" \in s.cols
                    BY <4>2 DEF SingleOK
                <5>3. New(T.rows \cup s.rows)
                    BY <4>0, <5>1, <5>2
                <5> QED BY <5>3
            <4>3. CASE s.sql = "UPDATE"
                <5> DEFINE rows == {IF r.id \in s.ids THEN [r EXCEPT !.v = s.v] ELSE r : r \in T.rows}
                <5>1. e = With(d, t, [T EXCEPT !.rows = rows])
                    BY <2>1, <2>4, <4>3 DEF OnTable
                <5>2. s.v \in Values
                    BY <4>3 DEF SingleOK
                <5>3. rows \subseteq Rows /\ \A r \in rows : r.gone => "deleted_at" \in T.cols
                    BY <4>0, <5>2 DEF Rows
                <5> QED BY <5>1, <5>3
            <4>4. CASE s.sql = "SET DELETED"
                <5> DEFINE rows == {IF r.id \in s.ids THEN [r EXCEPT !.gone = s.gone] ELSE r : r \in T.rows}
                <5>1. e = With(d, t, [T EXCEPT !.rows = rows]) /\ "deleted_at" \in T.cols
                    BY <2>1, <2>4, <4>4 DEF OnTable
                <5>2. s.gone \in BOOLEAN
                    BY <4>4 DEF SingleOK
                <5>3. rows \subseteq Rows
                    BY <4>0, <5>2 DEF Rows
                <5> QED BY <5>1, <5>3
            <4> QED BY <3>3, <4>1, <4>2, <4>3, <4>4
        <3>4. CASE s.sql \in {"DELETE", "DELETE ALL"}
            <4> DEFINE rows == IF s.sql = "DELETE" THEN {r \in T.rows : r.id \notin s.ids} ELSE {}
            <4>1. e = Cascade(With(d, t, [T EXCEPT !.rows = rows]), t)
                BY <2>1, <2>4, <3>4 DEF OnTable
            <4>2. rows \subseteq T.rows
                OBVIOUS
            <4> HIDE DEF rows
            <4> QED BY <1>1, <2>4, <4>1, <4>2, CascadeKeeps
        <3>5. CASE s.sql = "DROP COLUMN"
            <4>1. e = DropCascade(d, t, s.col) /\ ~("hypertable" \in T.time /\ s.col = "v")
                BY <2>1, <2>4, <3>5 DEF OnTable
            <4> QED BY <1>1, <2>4, <4>1, DropCascadeKeeps
        <3>6. CASE s.sql = "DROP TABLE RESTRICT"
            <4>1. e = Without(d, t)
                BY <2>1, <2>4, <3>6 DEF OnTable
            <4> QED BY <1>1, <4>1, WithoutKeeps
        <3>7. CASE s.sql = "ADD FOREIGN KEY"
            <4>1. e = [d EXCEPT !.fks = @ \cup {s.fk}] /\ "v" \in T.cols
                BY <2>1, <2>4, <3>7 DEF OnTable
            <4>2. s.fk \in Links /\ s.fk.from = t
                BY <3>7 DEF SingleOK
            <4> QED BY <1>1, <4>1, <4>2 DEF Database
        <3>8. CASE s.sql = "DROP FOREIGN KEYS"
            <4>1. e = [d EXCEPT !.fks = {f \in @ : f.from # t}]
                BY <2>1, <2>4, <3>8 DEF OnTable
            <4> QED BY <1>1, <4>1 DEF Database
        <3> QED BY <3>1, <3>2, <3>3, <3>4, <3>5, <3>6, <3>7, <3>8 DEF OnTables
    <2> QED BY <2>2, <2>3, <2>4
<1> QED BY <1>2, <1>3, <1>4, <1>5, <1>6

\* The databases a transaction's first n statements may lead to.
RunStep(s, es, n) ==
    LET fs == UNION {Single(e, s.body[n]) : e \in es} IN IF fs = {} /\ s.body[n].soft THEN es ELSE fs

\* A transaction is a run through its statements, from the database it begins in.
LEMMA RunOf ==
    ASSUME NEW d, NEW s, s.sql = "TRANSACTION", IsSeq(s.body)
    PROVE  /\ Len(s.body) \in Nat
           /\ \E run : /\ After(d, s) = run[Len(s.body)] /\ run[0] = {d}
                       /\ \A n \in 1 .. Len(s.body) : run[n] = RunStep(s, run[n - 1], n)
<1> DEFINE N == Len(s.body)
           Run(f, m) == f = [n \in 0 .. m |-> IF n = 0 THEN {d} ELSE RunStep(s, f[n - 1], n)]
<1>1. N \in Nat
    BY SeqParts
<1> HIDE DEF N
<1> DEFINE B == {m \in 0 .. N : ~\E f : Run(f, m)}
<1>2. B = {}
    <2>1. SUFFICES ASSUME B # {} PROVE FALSE
        OBVIOUS
    <2>2. B \subseteq Nat
        <3> HIDE DEF Run
        <3> QED BY <1>1
    <2>3. PICK m \in B : \A k \in B : m <= k
        BY <2>1, <2>2, NatLeast
    <2>4. m \in Nat /\ m \in 0 .. N /\ ~\E f : Run(f, m)
        BY <2>2, <2>3
    <2>5. CASE m = 0
        <3>1. Run([n \in 0 .. 0 |-> {d}], 0)
            OBVIOUS
        <3> QED BY <2>4, <2>5, <3>1
    <2>6. CASE m # 0
        <3>1. m - 1 \in 0 .. N /\ m - 1 \notin B
            <4>1. m \in Nat /\ m - 1 \in 0 .. N /\ ~(m <= m - 1)
                BY <1>1, <2>4, <2>6
            <4> HIDE DEF B
            <4> QED BY <2>3, <4>1
        <3>2. PICK f : Run(f, m - 1)
            BY <3>1
        <3> DEFINE g == [n \in 0 .. m |-> IF n = m THEN RunStep(s, f[m - 1], m) ELSE f[n]]
        <3>3. g = [n \in 0 .. m |-> IF n = 0 THEN {d} ELSE RunStep(s, g[n - 1], n)]
            <4>1. ASSUME NEW n \in 0 .. m PROVE g[n] = IF n = 0 THEN {d} ELSE RunStep(s, g[n - 1], n)
                <5>0. n \in Nat /\ m \in Nat /\ n <= m /\ m - 1 \in 0 .. m
                    BY <2>4, <2>6, <4>1
                <5>1. CASE n = m
                    <6>1. g[n] = RunStep(s, f[m - 1], m)
                        BY <4>1, <5>1
                    <6>2. g[m - 1] = f[m - 1]
                        BY <5>0
                    <6> QED BY <2>6, <5>1, <6>1, <6>2
                <5>2. CASE n # m
                    <6>1. n \in 0 .. m - 1 /\ (n # 0 => n - 1 \in 0 .. m /\ n - 1 # m)
                        BY <5>0, <5>2
                    <6>2. g[n] = f[n] /\ (n # 0 => g[n - 1] = f[n - 1])
                        BY <4>1, <5>2, <6>1
                    <6>3. f[n] = IF n = 0 THEN {d} ELSE RunStep(s, f[n - 1], n)
                        BY <3>2, <6>1
                    <6> QED BY <6>2, <6>3
                <5> QED BY <5>1, <5>2
            <4>2. g = [n \in 0 .. m |-> g[n]]
                OBVIOUS
            <4> HIDE DEF g
            <4> QED BY <4>1, <4>2
        <3> HIDE DEF g
        <3> QED BY <2>4, <3>3
    <2> QED BY <2>5, <2>6
<1>3. \E f : Run(f, N)
    <2> HIDE DEF Run
    <2>1. N \in 0 .. N /\ N \notin B
        BY <1>1, <1>2
    <2> QED BY <2>1
<1> DEFINE F == CHOOSE f : Run(f, N)
<1>4. Run(F, N)
    BY <1>3
<1>5. After(d, s) = F[N]
    BY DEF After, RunStep, N
<1> HIDE DEF F
<1>6. F[0] = {d} /\ \A n \in 1 .. N : F[n] = RunStep(s, F[n - 1], n)
    <2>1. F = [n \in 0 .. N |-> IF n = 0 THEN {d} ELSE RunStep(s, F[n - 1], n)]
        BY <1>4
    <2>2. 0 \in 0 .. N /\ \A n \in 1 .. N : n \in 0 .. N /\ n # 0
        BY <1>1
    <2> QED BY <2>1, <2>2
<1> QED BY <1>1, <1>5, <1>6 DEF N

StatementOK(s) ==
    /\ s.soft \in BOOLEAN
    /\ IF s.sql = "TRANSACTION" THEN IsSeq(s.body) /\ \A i \in DOMAIN s.body : SingleOK(s.body[i])
       ELSE SingleOK(s)

\* A statement, a transaction included, leaves a database behind.
LEMMA AfterKeeps ==
    ASSUME NEW d, Database(d), NEW s, StatementOK(s), NEW e \in After(d, s)
    PROVE  Database(e)
<1>1. CASE s.sql # "TRANSACTION"
    BY <1>1, SingleKeeps DEF After, StatementOK
<1>2. CASE s.sql = "TRANSACTION"
    <2>1. IsSeq(s.body) /\ DOMAIN s.body = 1 .. Len(s.body) /\ \A i \in DOMAIN s.body : SingleOK(s.body[i])
        BY <1>2, SeqParts DEF StatementOK
    <2>2. Len(s.body) \in Nat
        BY <2>1, SeqParts
    <2>3. PICK run : /\ After(d, s) = run[Len(s.body)] /\ run[0] = {d}
                     /\ \A n \in 1 .. Len(s.body) : run[n] = RunStep(s, run[n - 1], n)
        BY <1>2, <2>1, RunOf
    <2> DEFINE N == Len(s.body)  C == {n \in 0 .. N : ~\A f \in run[n] : Database(f)}
    <2> HIDE DEF N
    <2>4. C = {}
        <3>1. SUFFICES ASSUME C # {} PROVE FALSE
            OBVIOUS
        <3>2. C \subseteq Nat
            BY <2>2 DEF N
        <3>3. PICK m \in C : \A k \in C : m <= k
            BY <3>1, <3>2, NatLeast
        <3>4. m # 0
            BY <2>3, <3>3
        <3>5. m - 1 \in 0 .. N /\ m \in 1 .. N /\ m - 1 \notin C
            <4>1. m \in Nat /\ m \in 0 .. N
                BY <3>2, <3>3
            <4>2. m - 1 \in 0 .. N /\ m \in 1 .. N /\ ~(m <= m - 1)
                BY <2>2, <3>4, <4>1 DEF N
            <4> HIDE DEF C
            <4> QED BY <3>3, <4>2
        <3>6. run[m] = RunStep(s, run[m - 1], m) /\ \A f \in run[m - 1] : Database(f)
            BY <2>3, <3>5 DEF N
        <3>7. SingleOK(s.body[m])
            BY <2>1, <3>5 DEF N
        <3>8. \A f \in run[m] : Database(f)
            BY <3>6, <3>7, SingleKeeps DEF RunStep
        <3> QED BY <3>3, <3>8
    <2>5. N \in 0 .. N
        BY <2>2 DEF N
    <2>6. \A f \in run[N] : Database(f)
        BY <2>4, <2>5
    <2> QED BY <2>3, <2>6 DEF N
<1> QED BY <1>1, <1>2

----------------------------------------------------------------------------
(***************************************************************************)
(* Steps of a request: its statements, and its reads with what they carry  *)
(* from one step to the next.                                              *)
(***************************************************************************)

SchemaOK(c) == /\ c = [t \in DOMAIN c |-> c[t]] /\ DOMAIN c \subseteq Tables
               /\ \A t \in DOMAIN c : c[t] \subseteq Columns

RowsOK(f) ==
    /\ DOMAIN f \subseteq Tables
    /\ \A t \in DOMAIN f : /\ f[t].of \subseteq Rows /\ f[t].cols \subseteq Columns
                           /\ \A r \in f[t].of : r.gone => "deleted_at" \in f[t].cols

ArchiveOK(a) ==
    /\ SchemaOK(a.schema) /\ RowsOK(a.rows)
    /\ a.links \subseteq Links /\ a.uniq \subseteq Tables /\ a.sys \subseteq Kinds \X Tables

ReadOK(s) ==
    /\ s.do \in {"find key", "find index"} =>
        /\ s = [do |-> s.do, tab |-> s.tab, key |-> s.key] /\ s.key \in Base \cup {"none"}
        /\ s.do = "find index" => s.key \in Base
    /\ s.do \in {"read columns", "export columns", "export rows"} => s.of \subseteq Tables /\ s.of # {}
    /\ s.do = "plan rollback" => SchemaOK(s.to)
    /\ s.do = "existing tables" => ArchiveOK(s.from)
    /\ s.do \in {"find key", "find index", "get rules", "keep rules", "forget rules", "find rule",
                 "find", "check", "get columns", "keep columns", "import", "seed"} => s.tab \in Tables
    /\ s.do \in {"import", "seed"} => s.rows \in NewRows

StepOK(s) == ("sql" \in DOMAIN s => StatementOK(s)) /\ ("do" \in DOMAIN s => ReadOK(s))

Fine(q) == IsSeq(q) /\ \A i \in DOMAIN q : StepOK(q[i])

\* No steps are fine.
LEMMA FineNo == Fine(<<>>)
BY NoSteps DEF Fine

\* One step that is right is fine.
LEMMA FineOne == ASSUME NEW x, StepOK(x) PROVE Fine(<<x>>) /\ <<x>> # <<>>
<1>1. IsSeq(<<x>>) /\ DOMAIN <<x>> = {1} /\ <<x>>[1] = x
    BY OneSeq
<1> QED BY <1>1 DEF Fine

\* Two of them are.
LEMMA FineTwo == ASSUME NEW x, NEW y, StepOK(x), StepOK(y) PROVE Fine(<<x, y>>) /\ <<x, y>> # <<>>
<1>1. IsSeq(<<x, y>>) /\ <<x, y>>[1] = x /\ <<x, y>>[2] = y
    BY TwoSeq
<1>2. DOMAIN <<x, y>> = {1, 2}
    OBVIOUS
<1> QED BY <1>1, <1>2 DEF Fine

\* Three of them are.
LEMMA FineThree ==
    ASSUME NEW x, NEW y, NEW z, StepOK(x), StepOK(y), StepOK(z)
    PROVE  Fine(<<x, y, z>>) /\ <<x, y, z>> # <<>>
<1>1. IsSeq(<<x, y, z>>) /\ <<x, y, z>>[1] = x /\ <<x, y, z>>[2] = y /\ <<x, y, z>>[3] = z
    BY ThreeSeq
<1>2. DOMAIN <<x, y, z>> = {1, 2, 3}
    OBVIOUS
<1> QED BY <1>1, <1>2 DEF Fine

\* Fine steps put together are fine.
LEMMA FineCat == ASSUME NEW a, NEW b, Fine(a), Fine(b) PROVE Fine(a \o b)
<1>1. IsSeq(a) /\ IsSeq(b) /\ DOMAIN a = 1 .. Len(a) /\ DOMAIN b = 1 .. Len(b)
    BY SeqParts DEF Fine
<1>2. IsSeq(a \o b) /\ Len(a) \in Nat /\ Len(b) \in Nat /\ DOMAIN (a \o b) = 1 .. Len(a) + Len(b)
      /\ \A i \in 1 .. Len(a) + Len(b) : (a \o b)[i] = IF i <= Len(a) THEN a[i] ELSE b[i - Len(a)]
    BY <1>1, CatOf
<1>3. ASSUME NEW i \in DOMAIN (a \o b) PROVE StepOK((a \o b)[i])
    <2>1. CASE i <= Len(a)
        <3>1. i \in DOMAIN a /\ (a \o b)[i] = a[i]
            BY <1>1, <1>2, <1>3, <2>1
        <3> QED BY <3>1 DEF Fine
    <2>2. CASE ~(i <= Len(a))
        <3>1. i - Len(a) \in DOMAIN b /\ (a \o b)[i] = b[i - Len(a)]
            BY <1>1, <1>2, <1>3, <2>2
        <3> QED BY <3>1 DEF Fine
    <2> QED BY <2>1, <2>2
<1> QED BY <1>2, <1>3 DEF Fine

\* What is left of fine steps is fine, and the first of them is right.
LEMMA FineTail ==
    ASSUME NEW q, Fine(q), q # <<>>
    PROVE  Fine(Tail(q)) /\ StepOK(Head(q)) /\ IsSeq(q)
<1>1. IsSeq(q)
    BY DEF Fine
<1>2. /\ IsSeq(Tail(q)) /\ Len(q) \in Nat /\ Len(q) >= 1
      /\ DOMAIN q = 1 .. Len(q) /\ Head(q) = q[1] /\ DOMAIN Tail(q) = 1 .. Len(q) - 1
      /\ \A i \in 1 .. Len(q) - 1 : Tail(q)[i] = q[i + 1]
    BY <1>1, TailOf
<1>3. ASSUME NEW i \in DOMAIN Tail(q) PROVE StepOK(Tail(q)[i])
    <2>1. i + 1 \in DOMAIN q /\ Tail(q)[i] = q[i + 1]
        BY <1>2, <1>3
    <2> QED BY <2>1 DEF Fine
<1>4. 1 \in DOMAIN q
    BY <1>2
<1> QED BY <1>1, <1>2, <1>3, <1>4 DEF Fine

\* A step more leaves them fine.
LEMMA FineAppend == ASSUME NEW q, Fine(q), NEW x, StepOK(x) PROVE Fine(Append(q, x)) /\ Append(q, x) # <<>>
<1>1. IsSeq(q) /\ DOMAIN q = 1 .. Len(q)
    BY SeqParts DEF Fine
<1>2. /\ IsSeq(Append(q, x)) /\ Len(q) \in Nat /\ Len(Append(q, x)) = Len(q) + 1
      /\ DOMAIN Append(q, x) = 1 .. Len(q) + 1
      /\ \A i \in 1 .. Len(q) + 1 : Append(q, x)[i] = IF i <= Len(q) THEN q[i] ELSE x
    BY <1>1, AppendOf
<1>3. ASSUME NEW i \in DOMAIN Append(q, x) PROVE StepOK(Append(q, x)[i])
    <2>1. CASE i <= Len(q)
        <3>1. i \in DOMAIN q /\ Append(q, x)[i] = q[i]
            BY <1>1, <1>2, <1>3, <2>1
        <3> QED BY <3>1 DEF Fine
    <2>2. CASE ~(i <= Len(q))
        BY <1>2, <1>3, <2>2
    <2> QED BY <2>1, <2>2
<1>4. Append(q, x) # <<>>
    BY <1>2, NoSteps
<1> QED BY <1>2, <1>3, <1>4 DEF Fine

\* The steps of fine parts are fine.
LEMMA FineFlatten == ASSUME NEW q, IsSeq(q), \A i \in DOMAIN q : Fine(q[i]) PROVE Fine(FlattenSeq(q))
<1>1. \A i \in DOMAIN q : IsSeq(q[i])
    BY DEF Fine
<1>2. /\ IsSeq(FlattenSeq(q))
      /\ \A m \in DOMAIN FlattenSeq(q) : \E i \in DOMAIN q : \E k \in DOMAIN q[i] : FlattenSeq(q)[m] = q[i][k]
    BY <1>1, FlattenOf
<1> QED BY <1>2 DEF Fine

\* The steps of a loop over tables, or over others in some order.
LEMMA FineLoop ==
    ASSUME NEW order, IsSeq(order), NEW S, NEW g, \A t \in S \cap ToSet(order) : Fine(g[t]),
           NEW q, q = [i \in DOMAIN order |-> IF order[i] \in S THEN g[order[i]] ELSE <<>>]
    PROVE  Fine(FlattenSeq(q))
<1>1. Len(order) \in Nat /\ DOMAIN order = 1 .. Len(order)
    BY SeqParts
<1>2. IsSeq(q) /\ DOMAIN q = DOMAIN order
    <2>1. q = [i \in 1 .. Len(order) |-> q[i]]
        BY <1>1
    <2> QED BY <1>1, <2>1, MapSeq
<1>3. ASSUME NEW i \in DOMAIN q PROVE Fine(q[i])
    <2>1. order[i] \in ToSet(order) /\ q[i] = IF order[i] \in S THEN g[order[i]] ELSE <<>>
        BY <1>2, <1>3 DEF ToSet
    <2> QED BY <2>1, FineNo
<1> QED BY <1>2, <1>3, FineFlatten

----------------------------------------------------------------------------
(***************************************************************************)
(* The steps that the services make are right.                             *)
(***************************************************************************)

PlainSql == {"CREATE AS RECORDED", "ADD AS RECORDED", "DROP KEY IF EXISTS", "CREATE FUNCTION", "CREATE TRIGGER", "DROP KEY", "CREATE UNIQUE INDEX", "DROP INDEX",
             "DROP FOREIGN KEYS", "TRUNCATE", "DROP TABLE", "DROP TABLE RESTRICT", "DROP VIEW", "DELETE ALL"}

\* The statements that name nothing but their table are right.
LEMMA SqlOK ==
    ASSUME NEW what \in PlainSql, NEW t \in Tables
    PROVE  StepOK(Sql(what, t)) /\ StepOK(Soft(Sql(what, t)))
BY DEF StepOK, StatementOK, SingleOK, Sql, Soft, PlainSql, OnTables

\* The steps of SchemaService and of the TimescaleDB service are right.
LEMMA SchemaStepsOK ==
    ASSUME NEW t \in Tables
    PROVE  /\ \A cols \in SUBSET Columns : StepOK(CreateTable(t, cols, "none"))
           /\ \A key \in Base \cup {"none"} : StepOK(CreateTable(t, Base, key))
           /\ \A col \in Columns : /\ StepOK(AddColumn(t, col)) /\ StepOK(Soft(AddColumn(t, col)))
                                   /\ StepOK(DropColumn(t, col))
           /\ \A key \in Base, promote \in BOOLEAN : StepOK(AddKey(t, key, promote))
           /\ \A needs, drops, adds : adds \subseteq Facts => StepOK(Timescale(t, needs, drops, adds))
           /\ \A key \in Base \cup {"none"} : StepOK([do |-> "find key", tab |-> t, key |-> key])
           /\ \A key \in Base : StepOK([do |-> "find index", tab |-> t, key |-> key])
<1>1. \A cols \in SUBSET Columns : StepOK(CreateTable(t, cols, "none"))
    BY DEF StepOK, StatementOK, SingleOK, CreateTable, OnTables
<1>2. \A key \in Base \cup {"none"} : StepOK(CreateTable(t, Base, key))
    BY DEF StepOK, StatementOK, SingleOK, CreateTable, OnTables, Base, Columns
<1>3. \A col \in Columns : StepOK(AddColumn(t, col)) /\ StepOK(Soft(AddColumn(t, col)))
    BY DEF StepOK, StatementOK, SingleOK, AddColumn, Soft, OnTables
<1>4. \A col \in Columns : StepOK(DropColumn(t, col))
    BY DEF StepOK, StatementOK, SingleOK, DropColumn, OnTables
<1>5. \A key \in Base, promote \in BOOLEAN : StepOK(AddKey(t, key, promote))
    BY DEF StepOK, StatementOK, SingleOK, AddKey, OnTables
<1>6. \A needs, drops, adds : adds \subseteq Facts => StepOK(Timescale(t, needs, drops, adds))
    BY DEF StepOK, StatementOK, SingleOK, Timescale, OnTables
<1>7. \A key \in Base \cup {"none"} : StepOK([do |-> "find key", tab |-> t, key |-> key])
    BY DEF StepOK, ReadOK
<1>8. \A key \in Base : StepOK([do |-> "find index", tab |-> t, key |-> key])
    BY DEF StepOK, ReadOK
<1> QED BY <1>1, <1>2, <1>3, <1>4, <1>5, <1>6, <1>7, <1>8

\* So is the addition of a foreign key.
LEMMA LinkOK ==
    ASSUME NEW fk \in Links
    PROVE  StepOK(AddForeignKey(fk)) /\ StepOK(Soft(AddForeignKey(fk)))
<1>1. fk.from \in Tables
    BY DEF Links
<1> QED BY <1>1 DEF StepOK, StatementOK, SingleOK, AddForeignKey, Soft, OnTables

\* So is an insertion of records, when none of them is marked or the column of the mark is
\* named.
LEMMA InsertOK ==
    ASSUME NEW t \in Tables, NEW rows, rows \subseteq Rows, NEW cols, \A r \in rows : r.gone => "deleted_at" \in cols
    PROVE  /\ StepOK(Insert(t, rows, cols)) /\ StepOK(Soft(Insert(t, rows, cols)))
           /\ SingleOK(Insert(t, rows, cols)) /\ Insert(t, rows, cols).sql = "INSERT"
BY DEF StepOK, StatementOK, SingleOK, Insert, Soft, OnTables

\* So is an update of records.
LEMMA RecordStepsOK ==
    ASSUME NEW t \in Tables, NEW ids, NEW v \in Values, NEW must
    PROVE  /\ StepOK(Update(t, ids, v, must)) /\ StepOK(Soft(Update(t, ids, v, must)))
           /\ SingleOK(Update(t, ids, v, must))
BY DEF StepOK, StatementOK, SingleOK, Update, Soft, OnTables

\* So are the marking and the deletion of records.
LEMMA DeleteStepsOK ==
    ASSUME NEW t \in Tables, NEW ids, NEW must
    PROVE  /\ \A gone \in BOOLEAN : StepOK(SetDeleted(t, ids, gone, must))
           /\ StepOK(Delete(t, ids, must)) /\ StepOK(Soft(Delete(t, ids, must)))
           /\ SingleOK(Delete(t, ids, must))
<1>1. \A gone \in BOOLEAN : StepOK(SetDeleted(t, ids, gone, must))
    BY DEF StepOK, StatementOK, SingleOK, SetDeleted, OnTables
<1>2. StepOK(Delete(t, ids, must)) /\ StepOK(Soft(Delete(t, ids, must))) /\ SingleOK(Delete(t, ids, must))
    BY DEF StepOK, StatementOK, SingleOK, Delete, Soft, OnTables
<1> QED BY <1>1, <1>2

\* So are the changes of the worker's own rows.
LEMMA SystemStepsOK ==
    ASSUME NEW kind, NEW of, NEW byName
    PROVE  /\ StepOK(DeleteSystem(kind, of, byName)) /\ StepOK(Soft(DeleteSystem(kind, of, byName)))
           /\ of \subseteq Kinds \X Tables => StepOK(InsertSystem(of)) /\ StepOK(ReplaceSystem(kind, of))
<1>1. StepOK(DeleteSystem(kind, of, byName)) /\ StepOK(Soft(DeleteSystem(kind, of, byName)))
    BY DEF StepOK, StatementOK, SingleOK, DeleteSystem, Soft, OnTables
<1>2. of \subseteq Kinds \X Tables => StepOK(InsertSystem(of)) /\ StepOK(ReplaceSystem(kind, of))
    BY DEF StepOK, StatementOK, SingleOK, InsertSystem, ReplaceSystem, OnTables
<1> QED BY <1>1, <1>2

\* So is the line of the gateway's log.
LEMMA LogOK == StepOK(Log) /\ Log.sql = "LOG"
BY DEF StepOK, StatementOK, SingleOK, Log, OnTables

\* So is a transaction of statements that are.
LEMMA TransactionOK ==
    ASSUME NEW body, IsSeq(body), \A i \in DOMAIN body : SingleOK(body[i])
    PROVE  /\ StepOK(Transaction(body))
           /\ \A form, from : StepOK([sql |-> "TRANSACTION", soft |-> FALSE, body |-> body, form |-> form, from |-> from])
BY DEF StepOK, StatementOK, Transaction

\* In a transaction stand statements only.
LEMMA FineBody ==
    ASSUME NEW q, Fine(q), \A i \in DOMAIN q : "sql" \in DOMAIN q[i] /\ q[i].sql # "TRANSACTION"
    PROVE  IsSeq(q) /\ \A i \in DOMAIN q : SingleOK(q[i])
BY DEF Fine, StepOK, StatementOK

\* So are the reads of DataService.
LEMMA ReadStepsOK ==
    ASSUME NEW t \in Tables
    PROVE  /\ \A what \in {"get rules", "keep rules", "forget rules", "find rule", "keep columns"} :
                StepOK(Read(what, t))
           /\ \A id : StepOK(Find(t, id))
           /\ \A except, v : StepOK(Check(t, except, v))
           /\ \A ids : StepOK(GetColumnsFor(t, ids))
           /\ \A what \in {"import", "seed"}, rows \in NewRows : StepOK([do |-> what, tab |-> t, rows |-> rows])
<1>1. \A what \in {"get rules", "keep rules", "forget rules", "find rule", "keep columns"} :
                StepOK(Read(what, t))
    BY DEF StepOK, ReadOK, Read
<1>2. \A id : StepOK(Find(t, id))
    BY DEF StepOK, ReadOK, Find
<1>3. \A except, v : StepOK(Check(t, except, v))
    BY DEF StepOK, ReadOK, Check
<1>4. \A ids : StepOK(GetColumnsFor(t, ids))
    BY DEF StepOK, ReadOK, GetColumnsFor
<1>5. \A what \in {"import", "seed"}, rows \in NewRows : StepOK([do |-> what, tab |-> t, rows |-> rows])
    <2> SUFFICES ASSUME NEW what \in {"import", "seed"}, NEW rows \in NewRows
                 PROVE  StepOK([do |-> what, tab |-> t, rows |-> rows])
        OBVIOUS
    <2> HIDE DEF NewRows
    <2> QED BY DEF StepOK, ReadOK
<1> QED BY <1>1, <1>2, <1>3, <1>4, <1>5

\* So are the reads of versions and of backups.
LEMMA VersionStepsOK ==
    /\ \A what \in {"list tables", "last version", "insert version", "export links", "end"} : StepOK([do |-> what])
    /\ \A what \in {"list tables", "last version", "insert version"} : StepOK(Do(what))
    /\ \A to : SchemaOK(to) => StepOK([do |-> "plan rollback", to |-> to])
    /\ \A kind : StepOK([do |-> "export system", kind |-> kind])
    /\ \A form, from : ArchiveOK(from) => StepOK([do |-> "existing tables", form |-> form, from |-> from])
<1>1. \A what \in {"list tables", "last version", "insert version", "export links", "end"} : StepOK([do |-> what])
    BY DEF StepOK, ReadOK
<1>2. \A what \in {"list tables", "last version", "insert version"} : StepOK(Do(what))
    BY DEF StepOK, ReadOK, Do
<1>3. \A to : SchemaOK(to) => StepOK([do |-> "plan rollback", to |-> to])
    BY DEF StepOK, ReadOK
<1>4. \A kind : StepOK([do |-> "export system", kind |-> kind])
    BY DEF StepOK, ReadOK
<1>5. \A form, from : ArchiveOK(from) => StepOK([do |-> "existing tables", form |-> form, from |-> from])
    BY DEF StepOK, ReadOK
<1> QED BY <1>1, <1>2, <1>3, <1>4, <1>5

\* A loop over a set of tables.
LEMMA FineLoopOver ==
    ASSUME NEW what \in {"read columns", "export columns", "export rows"}, NEW S \in SUBSET Tables
    PROVE  Fine(Loop(what, S))
<1>1. CASE S = {}
    BY <1>1, FineNo DEF Loop
<1>2. CASE S # {}
    <2>1. StepOK([do |-> what, of |-> S])
        BY <1>2 DEF StepOK, ReadOK
    <2> QED BY <1>2, <2>1, FineOne DEF Loop
<1> QED BY <1>1, <1>2

\* The first of the tables of a set that is not empty is one of them.
LEMMA FirstIs == ASSUME NEW S \in SUBSET Tables, S # {} PROVE First(S) \in S
<1>1. IsSeq(TableOrder)
    BY ProjectAssumption, SeqIs
<1>2. Len(TableOrder) \in Nat /\ DOMAIN TableOrder = 1 .. Len(TableOrder)
    BY <1>1, SeqParts
<1> DEFINE B == {i \in DOMAIN TableOrder : TableOrder[i] \in S}
<1>3. B \subseteq Nat /\ B # {}
    <2>1. PICK t \in Tables : t \in S
        OBVIOUS
    <2>2. PICK i \in DOMAIN TableOrder : TableOrder[i] = t
        BY <2>1 DEF Tables, ToSet
    <2> QED BY <1>2, <2>1, <2>2
<1>4. PICK m \in B : \A k \in B : m <= k
    BY <1>3, NatLeast
<1>5. m \in DOMAIN TableOrder /\ TableOrder[m] \in S /\ \A k \in 1 .. m - 1 : TableOrder[k] \notin S
    <2>1. m \in DOMAIN TableOrder /\ TableOrder[m] \in S
        BY <1>4
    <2>2. ASSUME NEW k \in 1 .. m - 1 PROVE TableOrder[k] \notin S
        <3>1. m \in Nat /\ k \in DOMAIN TableOrder /\ ~(m <= k)
            BY <1>2, <2>1, <2>2
        <3> QED BY <1>4, <3>1
    <2> QED BY <2>1, <2>2
<1> QED BY <1>5 DEF First

----------------------------------------------------------------------------
(***************************************************************************)
(* Requests. Each has right steps left, and what it has read is what it    *)
(* says: columns of tables, a number that a version had, rows with their   *)
(* columns. The invariant of the whole adds the versions, the archive and  *)
(* the caches.                                                             *)
(***************************************************************************)

SeenOK(q, n) ==
    /\ q = [schema |-> q.schema, number |-> q.number, prior |-> q.prior, rows |-> q.rows,
            links |-> q.links, uniq |-> q.uniq, sys |-> q.sys, ruled |-> q.ruled, soft |-> q.soft,
            excused |-> q.excused]
    /\ SchemaOK(q.schema) /\ q.number \in 0 .. n /\ SchemaOK(q.prior) /\ RowsOK(q.rows)
    /\ q.links \subseteq Links /\ q.uniq \subseteq Tables /\ q.sys \subseteq Kinds \X Tables

JobOK(job, n) ==
    /\ job = [op |-> job.op, tab |-> job.tab, todo |-> job.todo, seen |-> job.seen, met |-> job.met]
    /\ job.tab \in Tables /\ Fine(job.todo) /\ job.todo # <<>> /\ SeenOK(job.seen, n)

Typed(n) ==
    /\ Database(db)
    /\ jobs = [k \in Jobs |-> jobs[k]] /\ \A k \in Jobs : jobs[k] = NoJob \/ JobOK(jobs[k], n)
    /\ answer \in [Jobs -> Answers]

VersionsOK(vs) ==
    /\ IsSeq(vs)
    /\ \A i \in DOMAIN vs : vs[i].number \in 1 .. i /\ SchemaOK(vs[i].schema)

TypeInv ==
    /\ Typed(Len(versions))
    /\ VersionsOK(versions)
    /\ archive # NoArchive => ArchiveOK(archive)
    /\ rulesCache \in [Tables -> {"none", "ruled", "free"}]
    /\ colCache \in [Tables -> {"none", "soft", "hard"}]

\* A handler begins with nothing read.
LEMMA NoSchema == SchemaOK(<<>>) /\ RowsOK(<<>>)
<1>1. DOMAIN <<>> = {}
    BY NoSteps
<1>2. <<>> = [t \in DOMAIN <<>> |-> <<>>[t]]
    OBVIOUS
<1> QED BY <1>1, <1>2 DEF SchemaOK, RowsOK

\* Which is right, whatever versions there are.
LEMMA NothingOK == ASSUME NEW n \in Nat PROVE SeenOK(Nothing, n)
BY NoSchema DEF SeenOK, Nothing

\* An empty slot is no request.
LEMMA JobIs == ASSUME NEW job, NEW n, JobOK(job, n) PROVE job # NoJob
BY DEF JobOK, NoJob

\* What was right of a request stays so when versions are added.
LEMMA JobMono == ASSUME NEW job, NEW n \in Nat, NEW m \in Nat, n <= m, JobOK(job, n) PROVE JobOK(job, m)
BY DEF JobOK, SeenOK

\* One request goes on or ends; the others learn what changed under them.
LEMMA BecomeKeeps ==
    ASSUME NEW n, Typed(n), NEW j \in Jobs, NEW next, next = NoJob \/ JobOK(next, n),
           NEW e, Database(e), NEW kinds, Become(j, next, e, kinds), answer' \in [Jobs -> Answers]
    PROVE  Typed(n)'
<1>1. db' = e /\ jobs' = [k \in Jobs |-> jobs'[k]]
    BY DEF Become
<1>2. ASSUME NEW k \in Jobs PROVE jobs'[k] = NoJob \/ JobOK(jobs'[k], n)
    <2>1. CASE k = j
        BY <2>1 DEF Become
    <2>2. CASE k # j /\ jobs[k] = NoJob
        BY <2>2 DEF Become
    <2>3. CASE k # j /\ jobs[k] # NoJob
        <3>1. JobOK(jobs[k], n)
            BY <2>3 DEF Typed
        <3>2. jobs'[k] = [jobs[k] EXCEPT !.met = @ \cup kinds \cup Changed(db, e)]
            BY <2>3 DEF Become
        <3> QED BY <3>1, <3>2 DEF JobOK
    <2> QED BY <2>1, <2>2, <2>3
<1> QED BY <1>1, <1>2 DEF Typed

\* A request is answered.
LEMMA EndKeeps ==
    ASSUME NEW n, Typed(n), NEW j \in Jobs, NEW said \in Answers, NEW e, Database(e), NEW kinds,
           End(j, said, e, kinds)
    PROVE  Typed(n)'
<1>1. answer' \in [Jobs -> Answers]
    BY DEF End, Typed
<1> QED BY <1>1, BecomeKeeps DEF End

\* A request with other steps to do, and other things read.
LEMMA JobWith ==
    ASSUME NEW job, NEW n, JobOK(job, n), NEW todo, Fine(todo), todo # <<>>, NEW seen, SeenOK(seen, n)
    PROVE  JobOK([job EXCEPT !.todo = todo, !.seen = seen], n)
<1>1. job = [op |-> job.op, tab |-> job.tab, todo |-> job.todo, seen |-> job.seen, met |-> job.met]
      /\ job.tab \in Tables
    BY DEF JobOK
<1>2. [job EXCEPT !.todo = todo, !.seen = seen]
        = [op |-> job.op, tab |-> job.tab, todo |-> todo, seen |-> seen, met |-> job.met]
    <2> DEFINE a == [job EXCEPT !.todo = todo]
    <2>1. a = [op |-> job.op, tab |-> job.tab, todo |-> todo, seen |-> job.seen, met |-> job.met]
        BY <1>1
    <2>2. [job EXCEPT !.todo = todo, !.seen = seen] = [a EXCEPT !.seen = seen]
        OBVIOUS
    <2> HIDE DEF a
    <2> QED BY <2>1, <2>2
<1> QED BY <1>1, <1>2 DEF JobOK

\* A request has done a step.
LEMMA GoKeeps ==
    ASSUME NEW n, Typed(n), NEW j \in Jobs, jobs[j] # NoJob, NEW todo, Fine(todo), NEW seen, SeenOK(seen, n),
           NEW e, Database(e), NEW kinds, Go(j, todo, seen, e, kinds)
    PROVE  Typed(n)'
<1>1. CASE todo = <<>>
    BY <1>1, EndKeeps DEF Go, Answers
<1>2. CASE todo # <<>>
    <2>1. JobOK(jobs[j], n)
        BY DEF Typed
    <2>2. JobOK([jobs[j] EXCEPT !.todo = todo, !.seen = seen], n)
        BY <1>2, <2>1, JobWith
    <2>3. Become(j, [jobs[j] EXCEPT !.todo = todo, !.seen = seen], e, kinds) /\ answer' = answer
        BY <1>2 DEF Go
    <2>4. answer' \in [Jobs -> Answers]
        BY <2>3 DEF Typed
    <2> QED BY <2>2, <2>3, <2>4, BecomeKeeps
<1> QED BY <1>1, <1>2

\* A request has read something.
LEMMA LearnKeeps ==
    ASSUME NEW n, Typed(n), NEW j \in Jobs, jobs[j] # NoJob, NEW more, Fine(more), NEW seen, SeenOK(seen, n),
           Learn(j, more, seen)
    PROVE  Typed(n)'
<1>1. Fine(jobs[j].todo) /\ jobs[j].todo # <<>> /\ Database(db)
    BY DEF Typed, JobOK
<1>2. Fine(Tail(jobs[j].todo))
    BY <1>1, FineTail
<1>3. Fine(more \o Tail(jobs[j].todo))
    BY <1>2, FineCat
<1> QED BY <1>1, <1>3, GoKeeps DEF Learn

\* A request is refused.
LEMMA RefuseKeeps ==
    ASSUME NEW n, Typed(n), NEW j \in Jobs, Refuse(j)
    PROVE  Typed(n)'
<1>1. Database(db)
    BY DEF Typed
<1> QED BY <1>1, EndKeeps DEF Refuse, Answers

\* A request begins.
LEMMA BeginKeeps ==
    ASSUME NEW n \in Nat, Typed(n), NEW j \in Jobs, NEW op, NEW t \in Tables, NEW todo, Fine(todo), todo # <<>>,
           Begin(j, op, t, todo)
    PROVE  Typed(n)'
<1> DEFINE job == [op |-> op, tab |-> t, todo |-> todo, seen |-> Nothing, met |-> {}]
<1>1. JobOK(job, n)
    BY NothingOK DEF JobOK
<1> HIDE DEF job
<1>2. jobs' = [jobs EXCEPT ![j] = job] /\ db' = db /\ answer' = [answer EXCEPT ![j] = "none"]
    BY DEF Begin, job
<1> QED BY <1>1, <1>2 DEF Typed, Answers

\* A request of the panel or of the gateway begins.
LEMMA RequestKeeps ==
    ASSUME NEW n \in Nat, Typed(n), NEW j \in Jobs, NEW op, NEW t \in Tables, NEW todo, Fine(todo), todo # <<>>,
           Request(j, op, t, todo)
    PROVE  Typed(n)'
<1>1. Fine(Append(todo, Log)) /\ Append(todo, Log) # <<>>
    BY LogOK, FineAppend
<1> QED BY <1>1, BeginKeeps DEF Request, GatewayRequest

\* The job of a step that was At something.
LEMMA AtIs ==
    ASSUME NEW n, Typed(n), NEW j \in Jobs, NEW what, At(j, what)
    PROVE  /\ jobs[j] # NoJob /\ JobOK(jobs[j], n) /\ SeenOK(jobs[j].seen, n)
           /\ ReadOK(Head(jobs[j].todo)) /\ Head(jobs[j].todo).do = what
           /\ Fine(Tail(jobs[j].todo))
<1>1. jobs[j] # NoJob /\ JobOK(jobs[j], n) /\ Head(jobs[j].todo).do = what /\ "do" \in DOMAIN Head(jobs[j].todo)
    BY DEF At, Typed
<1>2. StepOK(Head(jobs[j].todo)) /\ Fine(Tail(jobs[j].todo))
    BY <1>1, FineTail DEF JobOK
<1> QED BY <1>1, <1>2 DEF JobOK, StepOK

\* The job of a statement.
LEMMA StatementIs ==
    ASSUME NEW n, Typed(n), NEW j \in Jobs, Statement(j)
    PROVE  /\ jobs[j] # NoJob /\ JobOK(jobs[j], n) /\ SeenOK(jobs[j].seen, n)
           /\ StatementOK(Head(jobs[j].todo)) /\ Fine(Tail(jobs[j].todo))
<1>1. jobs[j] # NoJob /\ JobOK(jobs[j], n) /\ "sql" \in DOMAIN Head(jobs[j].todo)
    BY DEF Statement, Typed
<1>2. StepOK(Head(jobs[j].todo)) /\ Fine(Tail(jobs[j].todo))
    BY <1>1, FineTail DEF JobOK
<1> QED BY <1>1, <1>2 DEF JobOK, StepOK

\* The marks of what was read change nothing that matters here.
LEMMA SeenExcused ==
    ASSUME NEW q, NEW n, SeenOK(q, n), NEW x
    PROVE  /\ SeenOK([q EXCEPT !.excused = x], n) /\ SeenOK([q EXCEPT !.ruled = x], n)
           /\ SeenOK([q EXCEPT !.soft = x], n)
<1>1. q = [schema |-> q.schema, number |-> q.number, prior |-> q.prior, rows |-> q.rows,
           links |-> q.links, uniq |-> q.uniq, sys |-> q.sys, ruled |-> q.ruled, soft |-> q.soft,
           excused |-> q.excused]
    BY DEF SeenOK
<1>2. /\ SchemaOK(q.schema) /\ q.number \in 0 .. n /\ SchemaOK(q.prior) /\ RowsOK(q.rows)
      /\ q.links \subseteq Links /\ q.uniq \subseteq Tables /\ q.sys \subseteq Kinds \X Tables
    BY DEF SeenOK
<1>3. [q EXCEPT !.excused = x] =
            [schema |-> q.schema, number |-> q.number, prior |-> q.prior, rows |-> q.rows,
             links |-> q.links, uniq |-> q.uniq, sys |-> q.sys, ruled |-> q.ruled, soft |-> q.soft,
             excused |-> x]
    BY <1>1
<1>4. [q EXCEPT !.ruled = x] =
            [schema |-> q.schema, number |-> q.number, prior |-> q.prior, rows |-> q.rows,
             links |-> q.links, uniq |-> q.uniq, sys |-> q.sys, ruled |-> x, soft |-> q.soft,
             excused |-> q.excused]
    BY <1>1
<1>5. [q EXCEPT !.soft = x] =
            [schema |-> q.schema, number |-> q.number, prior |-> q.prior, rows |-> q.rows,
             links |-> q.links, uniq |-> q.uniq, sys |-> q.sys, ruled |-> q.ruled, soft |-> x,
             excused |-> q.excused]
    BY <1>1
<1>6. \A s, t, u : SeenOK([schema |-> q.schema, number |-> q.number, prior |-> q.prior, rows |-> q.rows,
             links |-> q.links, uniq |-> q.uniq, sys |-> q.sys, ruled |-> s, soft |-> t,
             excused |-> u], n)
    BY <1>2 DEF SeenOK
<1> QED BY <1>3, <1>4, <1>5, <1>6

\* A statement is executed, refused or lost.
LEMMA DbStepKeeps ==
    ASSUME NEW n, Typed(n), NEW j \in Jobs, DbStep(j)
    PROVE  Typed(n)'
<1>1. Statement(j)
    BY DEF DbStep, Execute, Rejected, Fault
<1>2. /\ jobs[j] # NoJob /\ SeenOK(jobs[j].seen, n) /\ StatementOK(Head(jobs[j].todo))
      /\ Fine(Tail(jobs[j].todo)) /\ Database(db)
    BY <1>1, StatementIs DEF Typed
<1>3. CASE Execute(j)
    <2>1. PICK e \in After(db, Head(jobs[j].todo)) : Go(j, Tail(jobs[j].todo), jobs[j].seen, e, {})
        BY <1>3 DEF Execute
    <2>2. Database(e)
        BY <1>2, AfterKeeps
    <2> QED BY <1>2, <2>1, <2>2, GoKeeps
<1>4. ASSUME NEW seen, SeenOK(seen, n), Fail(j, seen)
      PROVE  Typed(n)'
    <2>1. CASE Head(jobs[j].todo).soft
        BY <1>2, <1>4, <2>1, GoKeeps DEF Fail
    <2>2. CASE ~Head(jobs[j].todo).soft
        BY <1>2, <1>4, <2>2, EndKeeps DEF Fail, Answers
    <2> QED BY <2>1, <2>2
<1>5. CASE Rejected(j)
    BY <1>2, <1>4, <1>5 DEF Rejected
<1>6. CASE Fault(j)
    <2>1. SeenOK([jobs[j].seen EXCEPT !.excused = TRUE], n)
        BY <1>2, SeenExcused
    <2> QED BY <1>4, <1>6, <2>1 DEF Fault
<1> QED BY <1>3, <1>5, <1>6 DEF DbStep

----------------------------------------------------------------------------
(***************************************************************************)
(* The services, one after the other.                                      *)
(***************************************************************************)

\* What a client may ask of alterColumns, by the name of the request.
Alteration(op, cs) ==
    \/ \E change \in {"add", "drop"} :
        \/ op = "alter" /\ \E col \in Optional : cs = <<<<change, col>>>>
        \/ op = "alter base" /\ \E col \in Base : cs = <<<<change, col>>>>
    \/ op = "alter" /\ cs = <<<<"add", "deleted_at">>, <<"add", "req">>>>
    \/ op = "set key" /\ \E col \in Base : cs = <<<<"set_primary_key", col>>>>
    \/ op = "drop key" /\ \E change \in {"drop_primary_key", "drop_constraint"} : cs = <<<<change>>>>

LEMMA AlterColumnsIs ==
    ASSUME NEW j, NEW t, AlterColumns(j, t)
    PROVE  \E op, cs : Alteration(op, cs) /\ Request(j, op, t, Changes(t, cs))
<1>1. CASE \E change \in {"add", "drop"}, col \in Optional : Request(j, "alter", t, Changes(t, <<<<change, col>>>>))
    BY <1>1 DEF Alteration
<1>2. CASE \E change \in {"add", "drop"}, col \in Base : Request(j, "alter base", t, Changes(t, <<<<change, col>>>>))
    BY <1>2 DEF Alteration
<1>3. CASE Request(j, "alter", t, Changes(t, <<<<"add", "deleted_at">>, <<"add", "req">>>>))
    BY <1>3 DEF Alteration
<1>4. CASE \E col \in Base : Request(j, "set key", t, Changes(t, <<<<"set_primary_key", col>>>>))
    BY <1>4 DEF Alteration
<1>5. CASE \E change \in {"drop_primary_key", "drop_constraint"} : Request(j, "drop key", t, Changes(t, <<<<change>>>>))
    BY <1>5 DEF Alteration
<1> QED BY <1>1, <1>2, <1>3, <1>4, <1>5 DEF AlterColumns

\* A request with one change of columns or keys is fine.
LEMMA OneChange ==
    ASSUME NEW t, NEW c, StepOK(Change(t, c)), NEW cs, cs = <<c>>
    PROVE  Fine(Changes(t, cs)) /\ Changes(t, cs) # <<>>
<1>1. Changes(t, cs) = <<Change(t, c)>>
    BY DEF Changes
<1> QED BY <1>1, FineOne

\* So is a request with two of them.
LEMMA TwoChanges ==
    ASSUME NEW t, NEW c, NEW b, StepOK(Change(t, c)), StepOK(Change(t, b)), NEW cs, cs = <<c, b>>
    PROVE  Fine(Changes(t, cs)) /\ Changes(t, cs) # <<>>
<1>1. Changes(t, cs) = <<Change(t, c), Change(t, b)>>
    BY DEF Changes
<1> QED BY <1>1, FineTwo

\* All that a client may ask of alterColumns is fine.
LEMMA AlterationsAre ==
    ASSUME NEW op, NEW cs, Alteration(op, cs), NEW t \in Tables
    PROVE  Fine(Changes(t, cs)) /\ Changes(t, cs) # <<>>
<1>1. ASSUME NEW change \in {"add", "drop"}, NEW col \in Columns, cs = <<<<change, col>>>>
      PROVE  Fine(Changes(t, cs)) /\ Changes(t, cs) # <<>>
    <2>1. StepOK(Change(t, <<"add", col>>)) /\ StepOK(Change(t, <<"drop", col>>))
        BY SchemaStepsOK DEF Change
    <2> QED BY <1>1, <2>1, OneChange
<1>2. CASE cs = <<<<"add", "deleted_at">>, <<"add", "req">>>>
    <2>1. StepOK(Change(t, <<"add", "deleted_at">>)) /\ StepOK(Change(t, <<"add", "req">>))
        BY SchemaStepsOK DEF Change, Columns, Optional
    <2> QED BY <1>2, <2>1, TwoChanges
<1>3. ASSUME NEW col \in Base, cs = <<<<"set_primary_key", col>>>>
      PROVE  Fine(Changes(t, cs)) /\ Changes(t, cs) # <<>>
    <2>1. StepOK(Change(t, <<"set_primary_key", col>>))
        BY SchemaStepsOK DEF Change
    <2> QED BY <1>3, <2>1, OneChange
<1>4. ASSUME NEW change \in {"drop_primary_key", "drop_constraint"}, cs = <<<<change>>>>
      PROVE  Fine(Changes(t, cs)) /\ Changes(t, cs) # <<>>
    <2>1. StepOK(Change(t, <<"drop_primary_key">>)) /\ StepOK(Change(t, <<"drop_constraint">>))
        BY SchemaStepsOK, SqlOK DEF Change, PlainSql
    <2> QED BY <1>4, <2>1, OneChange
<1> QED BY <1>1, <1>2, <1>3, <1>4 DEF Alteration, Columns

\* The search of the index stands where the search of the key stood.
LEMMA KeyAgain ==
    ASSUME NEW s, s = [do |-> s.do, tab |-> s.tab, key |-> s.key], NEW x
    PROVE  [s EXCEPT !.do = x] = [do |-> x, tab |-> s.tab, key |-> s.key]
OBVIOUS

\* The requests of SchemaService begin with right steps.
LEMMA SchemaRequests ==
    ASSUME NEW n \in Nat, Typed(n), NEW j \in Jobs, NEW t \in Tables,
           \/ CreateNewTable(j, t) \/ AlterColumns(j, t) \/ DropTable(j, t) \/ TruncateTable(j, t)
           \/ AddLink(j, t) \/ DropLink(j, t) \/ AddIndex(j, t) \/ DropIndex(j, t)
    PROVE  Typed(n)'
<1>1. CASE CreateNewTable(j, t)
    <2>1. PICK key \in Base \cup {"none"}, stamped \in BOOLEAN :
            Request(j, Creation(key, stamped), t, CreateSteps(t, key, stamped))
        BY <1>1 DEF CreateNewTable
    <2>2. Fine(CreateSteps(t, key, stamped)) /\ CreateSteps(t, key, stamped) # <<>>
        BY SchemaStepsOK, SqlOK, FineOne, FineThree DEF CreateSteps, PlainSql
    <2> QED BY <2>1, <2>2, RequestKeeps
<1>2. CASE AlterColumns(j, t)
    <2>1. PICK op, cs : Alteration(op, cs) /\ Request(j, op, t, Changes(t, cs))
        BY <1>2, AlterColumnsIs
    <2> QED BY <2>1, AlterationsAre, RequestKeeps
<1>3. CASE DropTable(j, t)
    <2> DEFINE q == [i \in DOMAIN SysOrder |-> Soft(DeleteSystem(SysOrder[i], {<<SysOrder[i], t>>}, TRUE))]
    <2>1. IsSeq(SysOrder)
        BY ProjectAssumption, SeqIs
    <2>2. Len(SysOrder) \in Nat /\ DOMAIN SysOrder = 1 .. Len(SysOrder)
        BY <2>1, SeqParts
    <2>3. IsSeq(q) /\ DOMAIN q = DOMAIN SysOrder
        <3>1. q = [i \in 1 .. Len(SysOrder) |-> q[i]]
            BY <2>2
        <3> QED BY <2>2, <3>1, MapSeq
    <2>4. Fine(q)
        BY <2>3, SystemStepsOK DEF Fine
    <2> HIDE DEF q
    <2>5. Fine(DropSteps(t)) /\ DropSteps(t) # <<>>
        BY <2>4, FineAppend, SqlOK DEF DropSteps, PlainSql, q
    <2> QED BY <1>3, <2>5, RequestKeeps DEF DropTable
<1>4. ASSUME NEW op, NEW what \in PlainSql, Request(j, op, t, <<Sql(what, t)>>)
      PROVE  Typed(n)'
    <2>1. Fine(<<Sql(what, t)>>) /\ <<Sql(what, t)>> # <<>>
        BY SqlOK, FineOne
    <2> QED BY <1>4, <2>1, RequestKeeps
<1>5. CASE TruncateTable(j, t) \/ DropLink(j, t) \/ AddIndex(j, t) \/ DropIndex(j, t)
    BY <1>4, <1>5 DEF TruncateTable, DropLink, AddIndex, DropIndex, PlainSql
<1>6. CASE AddLink(j, t)
    <2>1. PICK p \in References, rule \in Rules :
            Request(j, "link", t, <<AddForeignKey([from |-> t, to |-> p[2], rule |-> rule])>>)
        BY <1>6 DEF AddLink
    <2>2. [from |-> t, to |-> p[2], rule |-> rule] \in Links
        BY ReferencesAssumption DEF Links
    <2>3. StepOK(AddForeignKey([from |-> t, to |-> p[2], rule |-> rule]))
        BY <2>2, LinkOK
    <2> QED BY <2>1, <2>3, FineOne, RequestKeeps
<1> QED BY <1>1, <1>2, <1>3, <1>5, <1>6

\* The steps of SchemaService.
LEMMA SchemaStepKeeps ==
    ASSUME NEW n \in Nat, Typed(n), NEW j \in Jobs, SchemaStep(j)
    PROVE  Typed(n)'
<1>1. CASE FindKey(j)
    <2> DEFINE s == Head(jobs[j].todo)
               key == IF s.tab \in DOMAIN db.tab THEN db.tab[s.tab].key ELSE "none"
               a == IF key = "none" THEN <<>> ELSE <<Sql("DROP KEY", s.tab)>>
               b == IF s.key = "none" THEN <<>> ELSE <<[s EXCEPT !.do = "find index"]>>
    <2>1. At(j, "find key") /\ Learn(j, a \o b, jobs[j].seen)
        BY <1>1 DEF FindKey
    <2>2. jobs[j] # NoJob /\ SeenOK(jobs[j].seen, n) /\ ReadOK(s) /\ s.do = "find key"
        BY <2>1, AtIs
    <2> HIDE DEF s
    <2>3. s.tab \in Tables /\ s.key \in Base \cup {"none"} /\ s = [do |-> s.do, tab |-> s.tab, key |-> s.key]
        BY <2>2 DEF ReadOK
    <2>4. Fine(a)
        BY <2>3, SqlOK, FineNo, FineOne DEF PlainSql
    <2>5. Fine(b)
        <3>1. CASE s.key = "none"
            BY <3>1, FineNo
        <3>2. CASE s.key # "none"
            <4>1. [s EXCEPT !.do = "find index"] = [do |-> "find index", tab |-> s.tab, key |-> s.key]
                BY <2>3, KeyAgain
            <4>2. StepOK([s EXCEPT !.do = "find index"])
                BY <2>3, <3>2, <4>1, SchemaStepsOK
            <4> QED BY <3>2, <4>2, FineOne
        <3> QED BY <3>1, <3>2
    <2> HIDE DEF a, b
    <2>6. Fine(a \o b)
        BY <2>4, <2>5, FineCat
    <2> QED BY <2>1, <2>2, <2>6, LearnKeeps
<1>2. CASE FindIndex(j)
    <2> DEFINE s == Head(jobs[j].todo)
               x == AddKey(s.tab, s.key, s.key = "v" /\ s.tab \in DOMAIN db.tab /\ db.tab[s.tab].uniq)
    <2>1. At(j, "find index") /\ Learn(j, <<x>>, jobs[j].seen)
        BY <1>2 DEF FindIndex
    <2>2. jobs[j] # NoJob /\ SeenOK(jobs[j].seen, n) /\ ReadOK(s) /\ s.do = "find index"
        BY <2>1, AtIs
    <2> HIDE DEF s
    <2>3. s.tab \in Tables /\ s.key \in Base
        BY <2>2 DEF ReadOK
    <2>4. (s.key = "v" /\ s.tab \in DOMAIN db.tab /\ db.tab[s.tab].uniq) \in BOOLEAN
        BY DEF Typed, Database, Table
    <2>5. StepOK(x)
        BY <2>3, <2>4, SchemaStepsOK
    <2> HIDE DEF x
    <2> QED BY <2>1, <2>2, <2>5, FineOne, LearnKeeps
<1>3. CASE \E t \in Tables :
        \/ CreateNewTable(j, t) \/ AlterColumns(j, t) \/ DropTable(j, t) \/ TruncateTable(j, t)
        \/ AddLink(j, t) \/ DropLink(j, t) \/ AddIndex(j, t) \/ DropIndex(j, t)
    BY <1>3, SchemaRequests
<1> QED BY <1>1, <1>2, <1>3 DEF SchemaStep

\* The steps of the TimescaleDB service.
LEMMA TimescaleStepKeeps ==
    ASSUME NEW n \in Nat, Typed(n), NEW j \in Jobs, TimescaleStep(j)
    PROVE  Typed(n)'
<1>1. PICK t \in Tables : AddTimescale(j, t) \/ ChangeTimescale(j, t)
    BY DEF TimescaleStep
<1>2. \A needs, drops, adds : adds \subseteq Facts => StepOK(Timescale(t, needs, drops, adds))
    BY SchemaStepsOK
<1>3. ASSUME NEW op, NEW x, StepOK(x), Request(j, op, t, <<x>>) PROVE Typed(n)'
    BY <1>3, FineOne, RequestKeeps
<1>4. ASSUME NEW op, NEW x, NEW y, StepOK(x), StepOK(y), Request(j, op, t, <<x, y>>) PROVE Typed(n)'
    BY <1>4, FineTwo, RequestKeeps
<1>5. \A policy \in {"retain", "compress", "refresh"} : StepOK(AddNew(t, policy)) /\ StepOK(RemoveOld(t, policy))
    BY <1>2 DEF AddNew, RemoveOld, Facts
<1>6. CASE CreateHypertable(j, t) \/ AddRetentionPolicy(j, t)
    BY <1>2, <1>3, <1>6 DEF CreateHypertable, AddRetentionPolicy, Facts
<1>7. CASE AddContinuousAggregate(j, t)
    BY <1>2, <1>3, <1>4, <1>7 DEF AddContinuousAggregate, Facts
<1>8. CASE AddCompressionPolicy(j, t)
    BY <1>2, <1>4, <1>8 DEF AddCompressionPolicy, Facts
<1>9. CASE RemovePolicy(j, t)
    BY <1>3, <1>5, <1>9 DEF RemovePolicy
<1>10. CASE UpdatePolicy(j, t)
    <2>1. PICK policy \in {"retain", "compress", "refresh"} :
            Request(j, "update policy", t, <<Transaction(<<RemoveOld(t, policy), AddNew(t, policy)>>)>>)
        BY <1>10 DEF UpdatePolicy
    <2> DEFINE b == <<RemoveOld(t, policy), AddNew(t, policy)>>
    <2>2. IsSeq(b) /\ DOMAIN b = {1, 2} /\ b[1] = RemoveOld(t, policy) /\ b[2] = AddNew(t, policy)
        BY TwoSeq
    <2>3. SingleOK(RemoveOld(t, policy)) /\ SingleOK(AddNew(t, policy))
        BY <1>5 DEF RemoveOld, AddNew, Timescale, StepOK, StatementOK
    <2> HIDE DEF b
    <2>4. StepOK(Transaction(b))
        BY <2>2, <2>3, TransactionOK
    <2> QED BY <1>3, <2>1, <2>4 DEF b
<1>11. CASE DropContinuousAggregate(j, t) \/ DropHypertable(j, t)
    BY <1>3, <1>11, SqlOK DEF DropContinuousAggregate, DropHypertable, PlainSql
<1> QED BY <1>1, <1>6, <1>7, <1>8, <1>9, <1>10, <1>11 DEF AddTimescale, ChangeTimescale

\* Records to be inserted are finitely many, and none is marked as deleted.
LEMMA NewRowsAre ==
    ASSUME NEW rows \in NewRows
    PROVE  rows \subseteq Rows /\ (\A r \in rows : ~r.gone) /\ IsFiniteSet(rows)
<1>1. PICK f \in UNION {[ids -> Ids] : ids \in SUBSET Ids \ {{}}} :
        rows = {[id |-> id, v |-> f[id], gone |-> FALSE] : id \in DOMAIN f}
    BY DEF NewRows
<1>2. PICK ids \in SUBSET Ids : f \in [ids -> Ids]
    BY <1>1
<1>3. rows \subseteq Rows /\ \A r \in rows : ~r.gone
    <2> SUFFICES ASSUME NEW r \in rows PROVE r \in Rows /\ ~r.gone
        OBVIOUS
    <2>1. PICK id \in DOMAIN f : r = [id |-> id, v |-> f[id], gone |-> FALSE]
        BY <1>1
    <2>2. id \in Ids /\ f[id] \in Ids
        BY <1>2
    <2> QED BY <2>1, <2>2 DEF Rows, Values
<1>4. IsFiniteSet(ids)
    BY <1>2, FS_Subset, ProjectAssumption
<1>5. IsFiniteSet(rows)
    <2> DEFINE g == [id \in ids |-> [id |-> id, v |-> f[id], gone |-> FALSE]]
    <2>1. \A x \in rows : \E id \in ids : x = g[id]
        BY <1>1, <1>2
    <2>2. g \in Surjection(ids, rows)
        BY <1>1, <1>2, <2>1 DEF Surjection
    <2> QED BY <1>4, <2>2, FS_Surjection
<1> QED BY <1>3, <1>5

\* The operations of a batch are right, alone and in a transaction.
LEMMA BatchOpsAre ==
    ASSUME NEW t \in Tables, NEW a \in BatchOps(t)
    PROVE  SingleOK(a) /\ StepOK(Soft(a))
<1>1. CASE a \in {Insert(t, rows, Base) : rows \in {rs \in NewRows : Cardinality(rs) = 1}}
    <2>1. PICK rows \in NewRows : a = Insert(t, rows, Base)
        BY <1>1
    <2>2. rows \subseteq Rows /\ \A r \in rows : r.gone => "deleted_at" \in Base
        BY NewRowsAre
    <2> QED BY <2>1, <2>2, InsertOK
<1>2. CASE a \in {Update(t, {p[1]}, p[2], TRUE) : p \in Ids \X Ids}
    <2>1. PICK p \in Ids \X Ids : a = Update(t, {p[1]}, p[2], TRUE)
        BY <1>2
    <2> QED BY <2>1, RecordStepsOK DEF Values
<1>3. CASE a \in {Delete(t, {id}, TRUE) : id \in Ids}
    BY <1>3, DeleteStepsOK
<1> DEFINE A == {Insert(t, rows, Base) : rows \in {rs \in NewRows : Cardinality(rs) = 1}}
           B == {Update(t, {p[1]}, p[2], TRUE) : p \in Ids \X Ids}
           C == {Delete(t, {id}, TRUE) : id \in Ids}
<1>4. a \in A \cup B \cup C
    BY DEF BatchOps
<1> HIDE DEF A, B, C
<1>5. a \in A \/ a \in B \/ a \in C
    BY <1>4
<1> QED BY <1>1, <1>2, <1>3, <1>5 DEF A, B, C

\* The requests of DataService begin with right steps.
LEMMA DataRequestKeeps ==
    ASSUME NEW n \in Nat, Typed(n), NEW j \in Jobs, DataRequest(j)
    PROVE  Typed(n)'
<1>1. PICK t \in Tables :
        \/ Create(j, t) \/ UpdateRecord(j, t) \/ UpdateField(j, t) \/ BulkUpdate(j, t)
        \/ CreatePart(j, t) \/ UpdatePart(j, t)
        \/ DeleteRecord(j, t) \/ BulkDelete(j, t) \/ Undelete(j, t) \/ PermanentDelete(j, t)
        \/ ImportRecords(j, t) \/ Seed(j, t) \/ Batch(j, t) \/ CreateRule(j, t) \/ DeleteRule(j, t)
    BY DEF DataRequest
<1>2. ASSUME NEW op, NEW x, StepOK(x), Begin(j, op, t, <<x>>) PROVE Typed(n)'
    BY <1>2, FineOne, BeginKeeps
<1>3. ASSUME NEW op, NEW x, NEW y, StepOK(x), StepOK(y), Begin(j, op, t, <<x, y>>) PROVE Typed(n)'
    BY <1>3, FineTwo, BeginKeeps
<1>4. ASSUME NEW id, NEW v \in Ids PROVE Fine(UpdateSteps(t, id, v)) /\ UpdateSteps(t, id, v) # <<>>
    <2>1. StepOK(Read("get rules", t)) /\ StepOK(Check(t, {id}, v)) /\ StepOK(Update(t, {id}, v, TRUE))
        BY ReadStepsOK, RecordStepsOK DEF Values
    <2> QED BY <2>1, FineThree DEF UpdateSteps
<1>5. CASE Create(j, t)
    <2>1. PICK id \in Ids, v \in Ids :
            Begin(j, "create", t, CreateRecordSteps(t, [id |-> id, v |-> v, gone |-> FALSE]))
        BY <1>5 DEF Create
    <2> DEFINE r == [id |-> id, v |-> v, gone |-> FALSE]
    <2>2. {r} \subseteq Rows /\ \A q \in {r} : q.gone => "deleted_at" \in Base
        BY DEF Rows, Values
    <2> HIDE DEF r
    <2>3. StepOK(Read("get rules", t)) /\ StepOK(Check(t, {}, r.v)) /\ StepOK(Insert(t, {r}, Base))
        BY <2>2, ReadStepsOK, InsertOK
    <2>4. Fine(CreateRecordSteps(t, r)) /\ CreateRecordSteps(t, r) # <<>>
        BY <2>3, FineThree DEF CreateRecordSteps
    <2>5. Begin(j, "create", t, CreateRecordSteps(t, r))
        BY <2>1 DEF r
    <2> QED BY <2>4, <2>5, BeginKeeps
<1>a. CASE CreatePart(j, t)
    <2>1. PICK id \in Ids, v \in Values :
            Begin(j, "create part", t, PartSteps(t, {}, Insert(t, {[id |-> id, v |-> v, gone |-> FALSE]}, Base)))
        BY <1>a DEF CreatePart
    <2> DEFINE r == [id |-> id, v |-> v, gone |-> FALSE]
    <2>2. {r} \subseteq Rows /\ \A q \in {r} : q.gone => "deleted_at" \in Base
        BY DEF Rows
    <2> HIDE DEF r
    <2>3. StepOK(Read("get rules", t)) /\ StepOK(Check(t, {}, Null)) /\ StepOK(Insert(t, {r}, Base))
        BY <2>2, ReadStepsOK, InsertOK
    <2>4. Fine(PartSteps(t, {}, Insert(t, {r}, Base))) /\ PartSteps(t, {}, Insert(t, {r}, Base)) # <<>>
        BY <2>3, FineThree DEF PartSteps
    <2>5. Begin(j, "create part", t, PartSteps(t, {}, Insert(t, {r}, Base)))
        BY <2>1 DEF r
    <2> QED BY <2>4, <2>5, BeginKeeps
<1>b. CASE UpdatePart(j, t)
    <2>1. PICK id \in Ids, v \in Values :
            Begin(j, "update part", t, PartSteps(t, {id}, Update(t, {id}, v, TRUE)))
        BY <1>b DEF UpdatePart
    <2>2. StepOK(Read("get rules", t)) /\ StepOK(Check(t, {id}, Null)) /\ StepOK(Update(t, {id}, v, TRUE))
        BY ReadStepsOK, RecordStepsOK
    <2>3. Fine(PartSteps(t, {id}, Update(t, {id}, v, TRUE))) /\ PartSteps(t, {id}, Update(t, {id}, v, TRUE)) # <<>>
        BY <2>2, FineThree DEF PartSteps
    <2> QED BY <2>1, <2>3, BeginKeeps
<1>6. CASE UpdateRecord(j, t)
    BY <1>4, <1>6, BeginKeeps DEF UpdateRecord
<1>7. CASE UpdateField(j, t)
    <2>1. PICK id \in Ids, v \in Ids : Begin(j, "patch", t, <<Find(t, id)>> \o UpdateSteps(t, id, v))
        BY <1>7 DEF UpdateField
    <2> DEFINE a == <<Find(t, id)>>  b == UpdateSteps(t, id, v)
    <2>2. Fine(a) /\ Fine(b) /\ a # <<>> /\ b # <<>>
        BY <1>4, ReadStepsOK, FineOne
    <2> HIDE DEF a, b
    <2>3. Fine(a \o b) /\ a \o b # <<>>
        <3>1. IsSeq(a) /\ IsSeq(b)
            BY <2>2 DEF Fine
        <3>2. Len(a) # 0 /\ Len(b) # 0 /\ Len(a) \in Nat /\ Len(b) \in Nat
            BY <2>2, <3>1, SeqParts
        <3>3. IsSeq(a \o b) /\ Len(a \o b) = Len(a) + Len(b)
            BY <3>1, CatOf
        <3>4. a \o b # <<>>
            BY <3>2, <3>3, NoSteps
        <3> QED BY <2>2, <3>4, FineCat
    <2>4. Begin(j, "patch", t, a \o b)
        BY <2>1 DEF a, b
    <2> QED BY <2>3, <2>4, BeginKeeps
<1>8. CASE BulkUpdate(j, t)
    BY <1>2, <1>8, RecordStepsOK DEF BulkUpdate, Values
<1>9. CASE DeleteRecord(j, t) \/ BulkDelete(j, t)
    BY <1>2, <1>9, ReadStepsOK DEF DeleteRecord, BulkDelete
<1>10. CASE Undelete(j, t) \/ PermanentDelete(j, t)
    BY <1>2, <1>10, DeleteStepsOK DEF Undelete, PermanentDelete
<1>11. CASE ImportRecords(j, t)
    <2>1. PICK rows \in NewRows : Begin(j, "import", t, <<[do |-> "import", tab |-> t, rows |-> rows]>>)
        BY <1>11 DEF ImportRecords
    <2>2. StepOK([do |-> "import", tab |-> t, rows |-> rows])
        BY ReadStepsOK
    <2> QED BY <1>2, <2>1, <2>2
<1>12. CASE Seed(j, t)
    <2>1. PICK rows \in NewRows : Begin(j, "seed", t, <<[do |-> "seed", tab |-> t, rows |-> rows]>>)
        BY <1>12 DEF Seed
    <2>2. StepOK([do |-> "seed", tab |-> t, rows |-> rows])
        BY ReadStepsOK
    <2> QED BY <1>2, <2>1, <2>2
<1>13. CASE Batch(j, t)
    <2>1. PICK a \in BatchOps(t), b \in BatchOps(t) :
            Begin(j, "batch", t, <<Transaction(<<a, b>>)>>) \/ Begin(j, "batch", t, <<Soft(a), Soft(b)>>)
        BY <1>13 DEF Batch
    <2>2. SingleOK(a) /\ SingleOK(b) /\ StepOK(Soft(a)) /\ StepOK(Soft(b))
        BY BatchOpsAre
    <2> DEFINE body == <<a, b>>
    <2>3. IsSeq(body) /\ body[1] = a /\ body[2] = b
        BY TwoSeq
    <2>4. DOMAIN body = {1, 2}
        OBVIOUS
    <2> HIDE DEF body
    <2>5. StepOK(Transaction(body))
        BY <2>2, <2>3, <2>4, TransactionOK
    <2> QED BY <1>2, <1>3, <2>1, <2>2, <2>5 DEF body
<1>14. CASE CreateRule(j, t)
    <2>1. {Rule(t)} \subseteq Kinds \X Tables
        BY RuleAssumption DEF Rule
    <2>2. StepOK(InsertSystem({Rule(t)})) /\ StepOK(Read("forget rules", t))
        BY <2>1, SystemStepsOK, ReadStepsOK
    <2> QED BY <1>3, <1>14, <2>2 DEF CreateRule
<1>15. CASE DeleteRule(j, t)
    BY <1>2, <1>15, ReadStepsOK DEF DeleteRule
<1> QED BY <1>1, <1>5, <1>6, <1>7, <1>8, <1>9, <1>10, <1>11, <1>12, <1>13, <1>14, <1>15, <1>a, <1>b

\* The members of a finite set in some order.
LEMMA SetToSeqOf ==
    ASSUME NEW S, IsFiniteSet(S)
    PROVE  /\ IsSeq(SetToSeq(S)) /\ Len(SetToSeq(S)) = Cardinality(S)
           /\ DOMAIN SetToSeq(S) = 1 .. Cardinality(S) /\ Cardinality(S) \in Nat
           /\ \A i \in DOMAIN SetToSeq(S) : SetToSeq(S)[i] \in S
<1>1. Cardinality(S) \in Nat /\ ExistsBijection(1 .. Cardinality(S), S)
    BY FS_CardinalityType
<1>2. PICK g \in Bijection(1 .. Cardinality(S), S) : TRUE
    BY <1>1 DEF ExistsBijection
<1>3. g \in [1 .. Cardinality(S) -> S] /\ IsInjective(g)
    BY <1>2 DEF Bijection, Injection, IsInjective
<1> DEFINE f == SetToSeq(S)
<1>4. f \in [1 .. Cardinality(S) -> S]
    BY <1>3 DEF SetToSeq
<1> HIDE DEF f
<1>5. f \in Seq(S) /\ DOMAIN f = 1 .. Cardinality(S)
    BY <1>1, <1>4
<1>6. IsSeq(f) /\ Len(f) = Cardinality(S)
    BY <1>1, <1>5, SeqIs
<1> QED BY <1>1, <1>4, <1>5, <1>6 DEF f

\* A read leaves the caches of rules and columns what they are.
LEMMA CachesKeep ==
    ASSUME rulesCache \in [Tables -> {"none", "ruled", "free"}], colCache \in [Tables -> {"none", "soft", "hard"}],
           NEW j, Lookup(j)
    PROVE  rulesCache' \in [Tables -> {"none", "ruled", "free"}] /\ colCache' \in [Tables -> {"none", "soft", "hard"}]
BY DEF Lookup, FindRecord, GetRules, KeepRules, ForgetRules, CheckRecord, GetColumns, KeepColumns,
       ImportBatch, SeedRows, FindRule, caches

\* What follows the look at a table's columns, before records are deleted.
LEMMA RemovalOK ==
    ASSUME NEW job, NEW soft, Head(job.todo).tab \in Tables
    PROVE  Fine(Removal(job, soft))
<1> DEFINE s == Head(job.todo)  one == job.op = "delete"
           a == IF one THEN <<Find(s.tab, CHOOSE id \in s.ids : TRUE)>> ELSE <<>>
           b == <<Delete(s.tab, s.ids, FALSE)>>
<1>1. Fine(a)
    <2>1. StepOK(Find(s.tab, CHOOSE id \in s.ids : TRUE))
        BY ReadStepsOK
    <2> QED BY <2>1, FineNo, FineOne
<1>2. Fine(b)
    BY DeleteStepsOK, FineOne
<1>3. Fine(<<SetDeleted(s.tab, s.ids, TRUE, one)>>)
    BY DeleteStepsOK, FineOne
<1> HIDE DEF a, b
<1>4. Fine(a \o b)
    BY <1>1, <1>2, FineCat
<1>5. Removal(job, soft) = IF soft THEN <<SetDeleted(s.tab, s.ids, TRUE, one)>> ELSE a \o b
    BY DEF Removal, a, b
<1> QED BY <1>3, <1>4, <1>5

\* A request has found a table's rules in the cache.
LEMMA SeenRuled ==
    ASSUME NEW q, NEW n, SeenOK(q, n), NEW x, NEW y
    PROVE  SeenOK([q EXCEPT !.ruled = x, !.excused = y], n)
<1> DEFINE p == [q EXCEPT !.ruled = x]
<1>1. SeenOK(p, n)
    BY SeenExcused
<1>2. [q EXCEPT !.ruled = x, !.excused = y] = [p EXCEPT !.excused = y]
    OBVIOUS
<1> HIDE DEF p
<1> QED BY <1>1, <1>2, SeenExcused

\* The reads of DataService.
LEMMA LookupKeeps ==
    ASSUME NEW n \in Nat, Typed(n), NEW j \in Jobs, Lookup(j)
    PROVE  Typed(n)'
<1> DEFINE s == Head(jobs[j].todo)  seen == jobs[j].seen
<1>1. ASSUME NEW what, At(j, what)
      PROVE  /\ jobs[j] # NoJob /\ SeenOK(seen, n) /\ ReadOK(s) /\ s.do = what /\ Fine(Tail(jobs[j].todo))
             /\ what \in {"get rules", "keep rules", "forget rules", "find rule",
                 "find", "check", "get columns", "keep columns", "import", "seed"} => s.tab \in Tables
    BY <1>1, AtIs DEF ReadOK
<1> HIDE DEF s
<1>2. \A x : SeenOK(seen, n) => SeenOK([seen EXCEPT !.excused = x], n) /\ SeenOK([seen EXCEPT !.ruled = x], n)
                                 /\ SeenOK([seen EXCEPT !.soft = x], n)
    BY SeenExcused
<1> HIDE DEF seen
<1>3. ASSUME NEW what, At(j, what), Learn(j, <<>>, seen) PROVE Typed(n)'
    BY <1>1, <1>3, FineNo, LearnKeeps
<1>4. ASSUME NEW what, At(j, what), NEW x,
             \/ Learn(j, <<>>, [seen EXCEPT !.excused = x]) \/ Learn(j, <<>>, [seen EXCEPT !.ruled = x])
             \/ Learn(j, <<>>, [seen EXCEPT !.soft = x])
      PROVE  Typed(n)'
    BY <1>1, <1>2, <1>4, FineNo, LearnKeeps
<1>5. CASE FindRecord(j)
    BY <1>3, <1>5, RefuseKeeps DEF FindRecord, seen
<1>6. CASE GetRules(j)
    <2>1. At(j, "get rules") /\ s.tab \in Tables /\ jobs[j] # NoJob /\ SeenOK(seen, n)
        BY <1>1, <1>6 DEF GetRules
    <2>2. CASE rulesCache[s.tab] # "none"
        <3>1. PICK x, y : Learn(j, <<>>, [seen EXCEPT !.ruled = x, !.excused = y])
            BY <1>6, <2>2 DEF GetRules, s, seen
        <3> QED BY <2>1, <3>1, SeenRuled, FineNo, LearnKeeps
    <2>3. CASE rulesCache[s.tab] = "none"
        <3>1. PICK x : Learn(j, <<Read("keep rules", s.tab)>>, [seen EXCEPT !.ruled = x])
            BY <1>6, <2>3 DEF GetRules, s, seen
        <3>2. StepOK(Read("keep rules", s.tab))
            BY <2>1, ReadStepsOK
        <3> QED BY <1>2, <2>1, <3>1, <3>2, FineOne, LearnKeeps
    <2> QED BY <2>2, <2>3
<1>7. CASE KeepRules(j) \/ ForgetRules(j) \/ KeepColumns(j)
    BY <1>3, <1>7 DEF KeepRules, ForgetRules, KeepColumns, seen
<1>8. CASE CheckRecord(j)
    <2>1. At(j, "check") /\ jobs[j] # NoJob /\ SeenOK(seen, n) /\ Fine(Tail(jobs[j].todo)) /\ Database(db)
        BY <1>1, <1>8 DEF CheckRecord, Typed
    <2>2. \/ Refuse(j)
          \/ \E x : Learn(j, <<>>, [seen EXCEPT !.excused = x])
          \/ Go(j, Tail(jobs[j].todo), [seen EXCEPT !.excused = TRUE], db, {})
        BY <1>8 DEF CheckRecord, seen
    <2> QED BY <1>2, <1>4, <2>1, <2>2, RefuseKeeps, GoKeeps
<1>9. CASE GetColumns(j)
    <2>1. At(j, "get columns") /\ s.tab \in Tables /\ jobs[j] # NoJob /\ SeenOK(seen, n)
        BY <1>1, <1>9 DEF GetColumns
    <2>2. \A soft : Fine(Removal(jobs[j], soft))
        BY <2>1, RemovalOK DEF s
    <2>3. CASE colCache[s.tab] # "none"
        BY <1>9, <2>1, <2>2, <2>3, LearnKeeps DEF GetColumns, s, seen
    <2>4. CASE colCache[s.tab] = "none"
        <3>1. PICK soft : Learn(j, <<Read("keep columns", s.tab)>> \o Removal(jobs[j], soft), [seen EXCEPT !.soft = soft])
            BY <1>9, <2>4 DEF GetColumns, s, seen
        <3>2. StepOK(Read("keep columns", s.tab))
            BY <2>1, ReadStepsOK
        <3>3. Fine(<<Read("keep columns", s.tab)>> \o Removal(jobs[j], soft))
            BY <2>2, <3>2, FineOne, FineCat
        <3> QED BY <1>2, <2>1, <3>1, <3>3, LearnKeeps
    <2> QED BY <2>3, <2>4
<1>10. CASE ImportBatch(j)
    <2> DEFINE rs == SetToSeq(s.rows)
               one(i) == Soft(Insert(s.tab, {rs[i]}, Base))
               each == [i \in DOMAIN rs |-> one(i)]
               all == Insert(s.tab, s.rows, Base)
    <2>1. /\ At(j, "import") /\ s.tab \in Tables /\ s.rows \in NewRows /\ jobs[j] # NoJob /\ SeenOK(seen, n)
          /\ Fine(Tail(jobs[j].todo)) /\ Database(db)
        BY <1>1, <1>10 DEF ImportBatch, ReadOK, Typed
    <2>2. s.rows \subseteq Rows /\ (\A r \in s.rows : ~r.gone) /\ IsFiniteSet(s.rows)
        BY <2>1, NewRowsAre
    <2>3. Cardinality(s.rows) \in Nat /\ DOMAIN rs = 1 .. Cardinality(s.rows) /\ \A i \in DOMAIN rs : rs[i] \in s.rows
        BY <2>2, SetToSeqOf
    <2>4. ASSUME NEW i \in DOMAIN rs PROVE StepOK(one(i))
        <3>1. {rs[i]} \subseteq Rows /\ \A r \in {rs[i]} : r.gone => "deleted_at" \in Base
            BY <2>2, <2>3
        <3> QED BY <2>1, <3>1, InsertOK
    <2>5. StatementOK(all)
        <3>1. StepOK(all) /\ "sql" \in DOMAIN all
            BY <2>1, <2>2, InsertOK DEF Insert
        <3> QED BY <3>1 DEF StepOK
    <2> HIDE DEF rs, one
    <2>6. Fine(each)
        <3>1. each = [i \in 1 .. Cardinality(s.rows) |-> each[i]]
            BY <2>3
        <3>2. IsSeq(each) /\ DOMAIN each = DOMAIN rs
            BY <2>3, <3>1, MapSeq
        <3> QED BY <2>4, <3>2 DEF Fine
    <2> HIDE DEF each, all
    <2>7. \/ \E e \in After(db, all) : Go(j, Tail(jobs[j].todo), seen, e, {})
          \/ Learn(j, each, seen)
          \/ Go(j, each \o Tail(jobs[j].todo), seen, db, {})
        BY <1>10 DEF ImportBatch, s, seen, each, all, rs, one
    <2>8. \A e \in After(db, all) : Database(e)
        BY <2>1, <2>5, AfterKeeps
    <2>9. Fine(each \o Tail(jobs[j].todo))
        BY <2>1, <2>6, FineCat
    <2> QED BY <2>1, <2>6, <2>7, <2>8, <2>9, GoKeeps, LearnKeeps
<1>11. CASE SeedRows(j)
    <2>1. At(j, "seed") /\ s.tab \in Tables /\ s.rows \in NewRows /\ jobs[j] # NoJob /\ SeenOK(seen, n)
        BY <1>1, <1>11 DEF SeedRows, ReadOK
    <2>2. s.rows \subseteq Rows /\ \A r \in s.rows : ~r.gone
        BY <2>1, NewRowsAre
    <2>3. StepOK(Insert(s.tab, s.rows, {"v"}))
        BY <2>1, <2>2, InsertOK
    <2>4. Learn(j, <<Insert(s.tab, s.rows, {"v"})>>, seen) \/ Learn(j, <<>>, seen)
        BY <1>11 DEF SeedRows, s, seen
    <2> QED BY <2>1, <2>3, <2>4, FineNo, FineOne, LearnKeeps
<1>12. CASE FindRule(j)
    <2>1. At(j, "find rule") /\ s.tab \in Tables /\ jobs[j] # NoJob /\ SeenOK(seen, n)
        BY <1>1, <1>12 DEF FindRule
    <2>2. StepOK(DeleteSystem(RuleKind, {Rule(s.tab)}, FALSE)) /\ StepOK(Read("forget rules", s.tab))
        BY <2>1, SystemStepsOK, ReadStepsOK
    <2>3. \/ Learn(j, <<DeleteSystem(RuleKind, {Rule(s.tab)}, FALSE), Read("forget rules", s.tab)>>, seen)
          \/ Refuse(j)
        BY <1>12 DEF FindRule, s, seen
    <2> QED BY <2>1, <2>2, <2>3, FineTwo, LearnKeeps, RefuseKeeps
<1> QED BY <1>5, <1>6, <1>7, <1>8, <1>9, <1>10, <1>11, <1>12 DEF Lookup

----------------------------------------------------------------------------
(***************************************************************************)
(* Versions and rollbacks.                                                 *)
(***************************************************************************)

ColumnOrder == <<"id", "v", "deleted_at", "req">>

\* The records q with some fields changed.
LEMMA SeenWith ==
    ASSUME NEW q, NEW n, SeenOK(q, n)
    PROVE  /\ \A c : SchemaOK(c) => SeenOK([q EXCEPT !.schema = c], n)
           /\ \A c : SchemaOK(c) => SeenOK([q EXCEPT !.prior = c], n)
           /\ \A c, m : SchemaOK(c) /\ m \in 0 .. n => SeenOK([q EXCEPT !.number = m, !.prior = c], n)
           /\ \A c : RowsOK(c) => SeenOK([q EXCEPT !.rows = c], n)
           /\ \A a, b : a \subseteq Links /\ b \subseteq Tables => SeenOK([q EXCEPT !.links = a, !.uniq = b], n)
           /\ \A a : a \subseteq Kinds \X Tables => SeenOK([q EXCEPT !.sys = a], n)
<1>1. q = [schema |-> q.schema, number |-> q.number, prior |-> q.prior, rows |-> q.rows,
           links |-> q.links, uniq |-> q.uniq, sys |-> q.sys, ruled |-> q.ruled, soft |-> q.soft,
           excused |-> q.excused]
    BY DEF SeenOK
<1>2. /\ SchemaOK(q.schema) /\ q.number \in 0 .. n /\ SchemaOK(q.prior) /\ RowsOK(q.rows)
      /\ q.links \subseteq Links /\ q.uniq \subseteq Tables /\ q.sys \subseteq Kinds \X Tables
    BY DEF SeenOK
<1> DEFINE R(s, m, p, r, l, u, y) ==
            [schema |-> s, number |-> m, prior |-> p, rows |-> r, links |-> l, uniq |-> u, sys |-> y,
             ruled |-> q.ruled, soft |-> q.soft, excused |-> q.excused]
<1>3. \A s, m, p, r, l, u, y :
        /\ SchemaOK(s) /\ m \in 0 .. n /\ SchemaOK(p) /\ RowsOK(r)
        /\ l \subseteq Links /\ u \subseteq Tables /\ y \subseteq Kinds \X Tables
        => SeenOK(R(s, m, p, r, l, u, y), n)
    BY DEF SeenOK
<1>4. ASSUME NEW c PROVE [q EXCEPT !.schema = c] = R(c, q.number, q.prior, q.rows, q.links, q.uniq, q.sys)
    BY <1>1
<1>5. ASSUME NEW c PROVE [q EXCEPT !.prior = c] = R(q.schema, q.number, c, q.rows, q.links, q.uniq, q.sys)
    BY <1>1
<1>6. ASSUME NEW c, NEW m
      PROVE [q EXCEPT !.number = m, !.prior = c] = R(q.schema, m, c, q.rows, q.links, q.uniq, q.sys)
    <2> DEFINE p == [q EXCEPT !.number = m]
    <2>1. p = R(q.schema, m, q.prior, q.rows, q.links, q.uniq, q.sys)
        BY <1>1
    <2>2. [q EXCEPT !.number = m, !.prior = c] = [p EXCEPT !.prior = c]
        OBVIOUS
    <2> HIDE DEF p
    <2> QED BY <2>1, <2>2
<1>7. ASSUME NEW c PROVE [q EXCEPT !.rows = c] = R(q.schema, q.number, q.prior, c, q.links, q.uniq, q.sys)
    BY <1>1
<1>8. ASSUME NEW a, NEW b
      PROVE [q EXCEPT !.links = a, !.uniq = b] = R(q.schema, q.number, q.prior, q.rows, a, b, q.sys)
    <2> DEFINE p == [q EXCEPT !.links = a]
    <2>1. p = R(q.schema, q.number, q.prior, q.rows, a, q.uniq, q.sys)
        BY <1>1
    <2>2. [q EXCEPT !.links = a, !.uniq = b] = [p EXCEPT !.uniq = b]
        OBVIOUS
    <2> HIDE DEF p
    <2> QED BY <2>1, <2>2
<1>9. ASSUME NEW a PROVE [q EXCEPT !.sys = a] = R(q.schema, q.number, q.prior, q.rows, q.links, q.uniq, a)
    BY <1>1
<1> HIDE DEF R
<1>10. ASSUME NEW c, SchemaOK(c) PROVE SeenOK([q EXCEPT !.schema = c], n) /\ SeenOK([q EXCEPT !.prior = c], n)
    <2>1. SeenOK(R(c, q.number, q.prior, q.rows, q.links, q.uniq, q.sys), n)
        BY <1>2, <1>3, <1>10
    <2>2. SeenOK(R(q.schema, q.number, c, q.rows, q.links, q.uniq, q.sys), n)
        BY <1>2, <1>3, <1>10
    <2> QED BY <1>4, <1>5, <2>1, <2>2
<1>11. ASSUME NEW c, NEW m \in 0 .. n, SchemaOK(c) PROVE SeenOK([q EXCEPT !.number = m, !.prior = c], n)
    <2>1. SeenOK(R(q.schema, m, c, q.rows, q.links, q.uniq, q.sys), n)
        BY <1>2, <1>3, <1>11
    <2> QED BY <1>6, <2>1
<1>12. ASSUME NEW c, RowsOK(c) PROVE SeenOK([q EXCEPT !.rows = c], n)
    <2>1. SeenOK(R(q.schema, q.number, q.prior, c, q.links, q.uniq, q.sys), n)
        BY <1>2, <1>3, <1>12
    <2> QED BY <1>7, <2>1
<1>13. ASSUME NEW a, NEW b, a \subseteq Links, b \subseteq Tables PROVE SeenOK([q EXCEPT !.links = a, !.uniq = b], n)
    <2>1. SeenOK(R(q.schema, q.number, q.prior, q.rows, a, b, q.sys), n)
        BY <1>2, <1>3, <1>13
    <2> QED BY <1>8, <2>1
<1>14. ASSUME NEW a, a \subseteq Kinds \X Tables PROVE SeenOK([q EXCEPT !.sys = a], n)
    <2>1. SeenOK(R(q.schema, q.number, q.prior, q.rows, q.links, q.uniq, a), n)
        BY <1>2, <1>3, <1>14
    <2> QED BY <1>9, <2>1
<1> QED BY <1>10, <1>11, <1>12, <1>13, <1>14

\* The columns of one more table have been read.
LEMMA PutSchema ==
    ASSUME NEW c, SchemaOK(c), NEW t \in Tables, NEW x, x \subseteq Columns
    PROVE  SchemaOK(Put(c, t, x))
<1> DEFINE p == Put(c, t, x)
<1>1. p = [z \in DOMAIN c \cup {t} |-> p[z]] /\ DOMAIN p = DOMAIN c \cup {t}
      /\ \A z \in DOMAIN p : p[z] = IF z = t THEN x ELSE c[z]
    BY DEF Put
<1> HIDE DEF p
<1> QED BY <1>1 DEF SchemaOK, p

\* The rows of one more table have been read.
LEMMA PutRows ==
    ASSUME NEW f, RowsOK(f), NEW t \in Tables, NEW rows, rows \subseteq Rows, NEW cols, cols \subseteq Columns,
           \A r \in rows : r.gone => "deleted_at" \in cols
    PROVE  RowsOK(Put(f, t, [of |-> rows, cols |-> cols]))
<1> DEFINE x == [of |-> rows, cols |-> cols]
           p == Put(f, t, x)
<1>1. DOMAIN p = DOMAIN f \cup {t} /\ \A z \in DOMAIN p : p[z] = IF z = t THEN x ELSE f[z]
    BY DEF Put
<1>2. x.of = rows /\ x.cols = cols
    OBVIOUS
<1> HIDE DEF p, x
<1>3. RowsOK(p)
    BY <1>1, <1>2 DEF RowsOK
<1> QED BY <1>3 DEF p, x

\* The columns come in an order.
LEMMA ColumnOrderIs == IsSeq(ColumnOrder)
<1>1. ColumnOrder \in Seq(Columns)
    BY DEF ColumnOrder, Columns, Base, Optional
<1> QED BY <1>1, SeqIs

\* So do the tables.
LEMMA TableOrderIs == IsSeq(TableOrder) /\ ToSet(TableOrder) = Tables /\ TableOrder[1] \in Tables
<1>1. IsSeq(TableOrder) /\ TableOrder # <<>>
    BY ProjectAssumption, SeqIs
<1>2. Len(TableOrder) \in Nat /\ DOMAIN TableOrder = 1 .. Len(TableOrder) /\ Len(TableOrder) # 0
    BY <1>1, SeqParts
<1>3. 1 \in DOMAIN TableOrder
    BY <1>2
<1> QED BY <1>1, <1>3 DEF Tables, ToSet

\* The steps of a loop over tables, given table by table.
LEMMA FineTables ==
    ASSUME NEW S, NEW g, \A t \in S \cap Tables : Fine(g[t])
    PROVE  Fine(FlattenSeq([i \in DOMAIN TableOrder |-> IF TableOrder[i] \in S THEN g[TableOrder[i]] ELSE <<>>]))
<1> DEFINE q == [i \in DOMAIN TableOrder |-> IF TableOrder[i] \in S THEN g[TableOrder[i]] ELSE <<>>]
<1>1. q = [i \in DOMAIN TableOrder |-> IF TableOrder[i] \in S THEN g[TableOrder[i]] ELSE <<>>]
    OBVIOUS
<1> HIDE DEF q
<1>2. Fine(FlattenSeq(q))
    BY <1>1, TableOrderIs, FineLoop
<1> QED BY <1>2 DEF q

\* The steps of a loop over columns, given column by column.
LEMMA FineColumns ==
    ASSUME NEW S, NEW g, \A c \in S \cap Columns : Fine(g[c])
    PROVE  Fine(FlattenSeq([i \in DOMAIN ColumnOrder |-> IF ColumnOrder[i] \in S THEN g[ColumnOrder[i]] ELSE <<>>]))
<1> DEFINE q == [i \in DOMAIN ColumnOrder |-> IF ColumnOrder[i] \in S THEN g[ColumnOrder[i]] ELSE <<>>]
<1>1. q = [i \in DOMAIN ColumnOrder |-> IF ColumnOrder[i] \in S THEN g[ColumnOrder[i]] ELSE <<>>]
    OBVIOUS
<1> HIDE DEF q
<1>3. ToSet(ColumnOrder) = Columns
    BY DEF ColumnOrder, Columns, Base, Optional, ToSet
<1>2. Fine(FlattenSeq(q))
    BY <1>1, <1>3, ColumnOrderIs, FineLoop
<1> QED BY <1>2 DEF q

\* The plan of a rollback is fine.
LEMMA PlanOK ==
    ASSUME NEW have, NEW want, SchemaOK(have), SchemaOK(want)
    PROVE  Fine(Plan(have, want))
<1> DEFINE ga == [t \in DOMAIN have \ DOMAIN want |-> <<Sql("DROP TABLE", t)>>]
           gb == [t \in DOMAIN want \ DOMAIN have |-> <<Recreate(t, want[t])>>]
           Dropped(t) == ForColumns(have[t] \ want[t], LAMBDA c : <<DropColumn(t, c)>>)
           Added(t) == ForColumns(want[t] \ have[t], LAMBDA c : <<Soft(Readd(t, c))>>)
           gc == [t \in DOMAIN have \cap DOMAIN want |-> Dropped(t) \o Added(t)]
           a == FlattenSeq([i \in DOMAIN TableOrder |-> IF TableOrder[i] \in DOMAIN have \ DOMAIN want THEN ga[TableOrder[i]] ELSE <<>>])
           b == FlattenSeq([i \in DOMAIN TableOrder |-> IF TableOrder[i] \in DOMAIN want \ DOMAIN have THEN gb[TableOrder[i]] ELSE <<>>])
           c == FlattenSeq([i \in DOMAIN TableOrder |-> IF TableOrder[i] \in DOMAIN have \cap DOMAIN want THEN gc[TableOrder[i]] ELSE <<>>])
<1>1. Plan(have, want) = a \o b \o c
    BY DEF Plan, ForTables, InOrder
<1>2. DOMAIN have \subseteq Tables /\ DOMAIN want \subseteq Tables /\ \A t \in DOMAIN want : want[t] \subseteq Columns
    BY DEF SchemaOK
<1>3. ASSUME NEW t \in DOMAIN have \ DOMAIN want PROVE Fine(ga[t])
    BY <1>2, SqlOK, FineOne DEF PlainSql
<1>4. ASSUME NEW t \in DOMAIN want \ DOMAIN have PROVE Fine(gb[t])
    BY <1>2, SchemaStepsOK, SqlOK, FineOne DEF Recreate, PlainSql
<1>5. ASSUME NEW t \in Tables PROVE Fine(Dropped(t)) /\ Fine(Added(t))
    <2> DEFINE S == have[t] \ want[t]  U == want[t] \ have[t]
               g == [x \in Columns |-> <<DropColumn(t, x)>>]  h == [x \in Columns |-> <<Soft(Readd(t, x))>>]
    <2>1. \A x \in Columns : Fine(g[x]) /\ Fine(h[x])
        <3>1. \A x \in Columns : StepOK(Soft(Readd(t, x)))
            BY SchemaStepsOK, SqlOK DEF Readd, PlainSql
        <3> QED BY <3>1, SchemaStepsOK, FineOne
    <2>2. ToSet(ColumnOrder) = Columns
        BY DEF ColumnOrder, Columns, Base, Optional, ToSet
    <2>3. Dropped(t) = FlattenSeq([i \in DOMAIN ColumnOrder |-> IF ColumnOrder[i] \in S THEN g[ColumnOrder[i]] ELSE <<>>])
        <3>1. Dropped(t) = FlattenSeq([i \in DOMAIN ColumnOrder |->
                    IF ColumnOrder[i] \in S THEN <<DropColumn(t, ColumnOrder[i])>> ELSE <<>>])
            BY DEF ForColumns, InOrder, ColumnOrder
        <3>2. \A i \in DOMAIN ColumnOrder : g[ColumnOrder[i]] = <<DropColumn(t, ColumnOrder[i])>>
            BY <2>2 DEF ToSet
        <3> HIDE DEF g
        <3>3. [i \in DOMAIN ColumnOrder |-> IF ColumnOrder[i] \in S THEN <<DropColumn(t, ColumnOrder[i])>> ELSE <<>>]
                = [i \in DOMAIN ColumnOrder |-> IF ColumnOrder[i] \in S THEN g[ColumnOrder[i]] ELSE <<>>]
            BY <3>2
        <3> QED BY <3>1, <3>3
    <2>4. Added(t) = FlattenSeq([i \in DOMAIN ColumnOrder |-> IF ColumnOrder[i] \in U THEN h[ColumnOrder[i]] ELSE <<>>])
        <3>1. Added(t) = FlattenSeq([i \in DOMAIN ColumnOrder |->
                    IF ColumnOrder[i] \in U THEN <<Soft(Readd(t, ColumnOrder[i]))>> ELSE <<>>])
            BY DEF ForColumns, InOrder, ColumnOrder
        <3>2. \A i \in DOMAIN ColumnOrder : h[ColumnOrder[i]] = <<Soft(Readd(t, ColumnOrder[i]))>>
            BY <2>2 DEF ToSet
        <3> HIDE DEF h
        <3>3. [i \in DOMAIN ColumnOrder |-> IF ColumnOrder[i] \in U THEN <<Soft(Readd(t, ColumnOrder[i]))>> ELSE <<>>]
                = [i \in DOMAIN ColumnOrder |-> IF ColumnOrder[i] \in U THEN h[ColumnOrder[i]] ELSE <<>>]
            BY <3>2
        <3> QED BY <3>1, <3>3
    <2> HIDE DEF g, h, S, U
    <2> QED BY <2>1, <2>3, <2>4, FineColumns
<1> HIDE DEF Dropped, Added
<1>6. ASSUME NEW t \in DOMAIN have \cap DOMAIN want PROVE Fine(gc[t])
    BY <1>2, <1>5, FineCat
<1> HIDE DEF ga, gb, gc
<1>7. Fine(a) /\ Fine(b) /\ Fine(c)
    BY <1>3, <1>4, <1>6, FineTables
<1> HIDE DEF a, b, c
<1> QED BY <1>1, <1>7, FineCat

\* The columns that are read of a table, none when it is gone.
LEMMA ColumnsRead ==
    ASSUME Database(db), NEW t
    PROVE  (IF t \in DOMAIN db.tab THEN db.tab[t].cols ELSE {}) \subseteq Columns
<1>1. CASE t \in DOMAIN db.tab
    <2>1. db.tab[t] \in Table
        BY <1>1 DEF Database
    <2> QED BY <1>1, <2>1 DEF Table
<1>2. CASE t \notin DOMAIN db.tab
    BY <1>2
<1> QED BY <1>1, <1>2

\* The steps of VersioningService, but for the insertion of a version.
LEMMA VersionReads ==
    ASSUME NEW n \in Nat, Typed(n), n = Len(versions), VersionsOK(versions), NEW j \in Jobs,
           VersionStep(j), ~InsertVersion(j)
    PROVE  Typed(n)' /\ versions' = versions
<1> DEFINE s == Head(jobs[j].todo)  seen == jobs[j].seen
<1>0. ASSUME NEW what, At(j, what)
      PROVE  jobs[j] # NoJob /\ SeenOK(seen, n) /\ ReadOK(s) /\ s.do = what
    BY <1>0, AtIs
<1>a. Database(db) /\ DOMAIN db.tab \subseteq Tables
    BY DEF Typed, Database
<1>b. IsSeq(versions) /\ DOMAIN versions = 1 .. n
      /\ \A i \in DOMAIN versions : versions[i].number \in 1 .. i /\ SchemaOK(versions[i].schema)
    BY SeqParts DEF VersionsOK
<1>1. CASE CaptureVersion(j)
    <2> DEFINE q == <<Do("list tables"), Do("last version"), Do("insert version")>>
    <2>1. Begin(j, "capture", TableOrder[1], q) /\ versions' = versions
        BY <1>1 DEF CaptureVersion
    <2>2. Fine(q) /\ q # <<>>
        BY VersionStepsOK, FineThree
    <2> QED BY <2>1, <2>2, TableOrderIs, BeginKeeps
<1>2. CASE RollbackTo(j)
    <2>1. PICK i \in DOMAIN versions :
            Begin(j, "rollback", TableOrder[1],
                  <<Do("list tables"), [do |-> "plan rollback", to |-> versions[i].schema]>>)
        BY <1>2 DEF RollbackTo
    <2> DEFINE q == <<Do("list tables"), [do |-> "plan rollback", to |-> versions[i].schema]>>
    <2>2. StepOK(Do("list tables")) /\ StepOK([do |-> "plan rollback", to |-> versions[i].schema])
        BY <1>b, VersionStepsOK
    <2>3. Fine(q) /\ q # <<>>
        BY <2>2, FineTwo
    <2>4. versions' = versions
        BY <1>2 DEF RollbackTo
    <2> QED BY <2>1, <2>3, <2>4, TableOrderIs, BeginKeeps
<1>3. CASE ListTables(j)
    <2>1. At(j, "list tables") /\ Learn(j, Loop("read columns", DOMAIN db.tab), seen) /\ versions' = versions
        BY <1>3 DEF ListTables
    <2>2. Fine(Loop("read columns", DOMAIN db.tab))
        BY <1>a, FineLoopOver
    <2> QED BY <1>0, <2>1, <2>2, LearnKeeps
<1>4. CASE ReadColumns(j)
    <2> DEFINE names == s.of  t == First(names)
               x == IF t \in DOMAIN db.tab THEN db.tab[t].cols ELSE {}
    <2>1. At(j, "read columns") /\ versions' = versions
          /\ Learn(j, Loop("read columns", names \ {t}), [seen EXCEPT !.schema = Put(seen.schema, t, x)])
        BY <1>4 DEF ReadColumns
    <2>2. jobs[j] # NoJob /\ SeenOK(seen, n) /\ names \subseteq Tables /\ names # {}
        BY <1>0, <2>1 DEF ReadOK
    <2>3. t \in names /\ Fine(Loop("read columns", names \ {t}))
        BY <2>2, FirstIs, FineLoopOver
    <2>4. x \subseteq Columns
        BY <1>a, ColumnsRead
    <2>5. SchemaOK(seen.schema)
        BY <2>2 DEF SeenOK
    <2> HIDE DEF x, t, names
    <2>6. SchemaOK(Put(seen.schema, t, x))
        BY <2>2, <2>3, <2>4, <2>5, PutSchema
    <2>7. SeenOK([seen EXCEPT !.schema = Put(seen.schema, t, x)], n)
        BY <2>2, <2>6, SeenWith
    <2> QED BY <2>1, <2>2, <2>3, <2>7, LearnKeeps
<1>5. CASE ReadLastVersion(j)
    <2>1. PICK i \in 0 .. Len(versions) :
        Learn(j, <<>>, [jobs[j].seen EXCEPT
                              !.number = IF i = 0 THEN 0 ELSE versions[i].number,
                              !.prior = IF i = 0 THEN <<>> ELSE versions[i].schema])
        BY <1>5 DEF ReadLastVersion
    <2> DEFINE m == IF i = 0 THEN 0 ELSE versions[i].number
               c == IF i = 0 THEN <<>> ELSE versions[i].schema
    <2>2. m \in 0 .. n /\ SchemaOK(c)
        BY <1>b, NoSchema
    <2>3. At(j, "last version") /\ versions' = versions
        BY <1>5 DEF ReadLastVersion
    <2>4. jobs[j] # NoJob /\ SeenOK(seen, n)
        BY <1>0, <2>3
    <2>5. Learn(j, <<>>, [seen EXCEPT !.number = m, !.prior = c])
        BY <2>1
    <2> HIDE DEF m, c, seen
    <2>6. SeenOK([seen EXCEPT !.number = m, !.prior = c], n)
        BY <2>2, <2>4, SeenWith
    <2> QED BY <2>3, <2>4, <2>5, <2>6, FineNo, LearnKeeps
<1>6. CASE PlanRollback(j)
    <2>1. At(j, "plan rollback") /\ Learn(j, Plan(seen.schema, s.to), [seen EXCEPT !.prior = s.to]) /\ versions' = versions
        BY <1>6 DEF PlanRollback
    <2>2. jobs[j] # NoJob /\ SeenOK(seen, n) /\ SchemaOK(s.to)
        BY <1>0, <2>1 DEF ReadOK
    <2>3. SchemaOK(seen.schema)
        BY <2>2 DEF SeenOK
    <2> HIDE DEF seen, s
    <2>4. Fine(Plan(seen.schema, s.to)) /\ SeenOK([seen EXCEPT !.prior = s.to], n)
        BY <2>2, <2>3, PlanOK, SeenWith
    <2> QED BY <2>1, <2>2, <2>4, LearnKeeps
<1> QED BY <1>1, <1>2, <1>3, <1>4, <1>5, <1>6 DEF VersionStep

\* What was right of all the requests stays so when versions are added.
LEMMA TypedMono ==
    ASSUME NEW n \in Nat, NEW m \in Nat, n <= m, Typed(n)
    PROVE  Typed(m)
BY JobMono DEF Typed

\* A version is inserted: its number is one more than one that was there when it was read.
LEMMA InsertKeeps ==
    ASSUME NEW n \in Nat, Typed(n), n = Len(versions), VersionsOK(versions), NEW j \in Jobs,
           InsertVersion(j)
    PROVE  Typed(n + 1)' /\ VersionsOK(versions)' /\ Len(versions') = n + 1
<1> DEFINE seen == jobs[j].seen
           v == [number |-> seen.number + 1, schema |-> seen.schema, diff |-> ComputeDiff(seen.prior, seen.schema)]
<1>1. At(j, "insert version") /\ versions' = Append(versions, v) /\ Go(j, Tail(jobs[j].todo), seen, db, {"versions"})
    BY DEF InsertVersion
<1>2. jobs[j] # NoJob /\ SeenOK(seen, n) /\ Fine(Tail(jobs[j].todo)) /\ Database(db)
    BY <1>1, AtIs DEF Typed
<1>3. n + 1 \in Nat /\ n <= n + 1
    OBVIOUS
<1>4. Typed(n + 1) /\ SeenOK(seen, n + 1)
    <2>1. Typed(n + 1)
        BY <1>3, TypedMono
    <2>2. SeenOK(seen, n + 1)
        BY <1>2 DEF SeenOK
    <2> QED BY <2>1, <2>2
<1> DEFINE m == n + 1
<1>6. m \in Nat /\ Typed(m) /\ SeenOK(seen, m)
    BY <1>3, <1>4
<1>7. Typed(m)'
    <2> HIDE DEF m
    <2> QED BY <1>1, <1>2, <1>6, GoKeeps
<1>8. v.number \in 1 .. n + 1 /\ SchemaOK(v.schema)
    BY <1>2 DEF SeenOK
<1> HIDE DEF v
<1>9. IsSeq(versions) /\ \A i \in DOMAIN versions : versions[i].number \in 1 .. i /\ SchemaOK(versions[i].schema)
    BY DEF VersionsOK
<1>10. /\ IsSeq(Append(versions, v)) /\ Len(Append(versions, v)) = n + 1
       /\ DOMAIN Append(versions, v) = 1 .. n + 1 /\ DOMAIN versions = 1 .. n
       /\ \A i \in 1 .. n + 1 : Append(versions, v)[i] = IF i <= n THEN versions[i] ELSE v
    BY <1>9, AppendOf, SeqParts
<1>11. ASSUME NEW i \in DOMAIN Append(versions, v)
       PROVE  Append(versions, v)[i].number \in 1 .. i /\ SchemaOK(Append(versions, v)[i].schema)
    <2>1. CASE i <= n
        BY <1>9, <1>10, <2>1
    <2>2. CASE ~(i <= n)
        <3>1. i = n + 1 /\ Append(versions, v)[i] = v
            BY <1>10, <2>2
        <3> QED BY <1>8, <3>1
    <2> QED BY <2>1, <2>2
<1>12. VersionsOK(versions')
    BY <1>1, <1>10, <1>11 DEF VersionsOK
<1> QED BY <1>1, <1>7, <1>10, <1>12 DEF VersionsOK

----------------------------------------------------------------------------
(***************************************************************************)
(* Backups: the transaction of a restore is made of an archive, and an     *)
(* archive is what an export has read.                                     *)
(***************************************************************************)
\* Statements only, as a transaction holds them.
Body(q) == IsSeq(q) /\ \A i \in DOMAIN q : SingleOK(q[i])

\* A statement that is right and no transaction may stand in one.
LEMMA SingleIs ==
    ASSUME NEW x, StepOK(x), "sql" \in DOMAIN x, x.sql # "TRANSACTION"
    PROVE  SingleOK(x)
BY DEF StepOK, StatementOK

\* No statements may stand in a transaction.
LEMMA BodyNo == Body(<<>>)
BY NoSteps DEF Body

\* One right statement may.
LEMMA BodyOne == ASSUME NEW x, SingleOK(x) PROVE Body(<<x>>)
<1>1. IsSeq(<<x>>) /\ DOMAIN <<x>> = {1} /\ <<x>>[1] = x
    BY OneSeq
<1> QED BY <1>1 DEF Body

\* And statements put together.
LEMMA BodyCat == ASSUME NEW a, NEW b, Body(a), Body(b) PROVE Body(a \o b)
<1>1. IsSeq(a) /\ IsSeq(b) /\ DOMAIN a = 1 .. Len(a) /\ DOMAIN b = 1 .. Len(b)
    BY SeqParts DEF Body
<1>2. IsSeq(a \o b) /\ Len(a) \in Nat /\ Len(b) \in Nat /\ DOMAIN (a \o b) = 1 .. Len(a) + Len(b)
      /\ \A i \in 1 .. Len(a) + Len(b) : (a \o b)[i] = IF i <= Len(a) THEN a[i] ELSE b[i - Len(a)]
    BY <1>1, CatOf
<1>3. ASSUME NEW i \in DOMAIN (a \o b) PROVE SingleOK((a \o b)[i])
    <2>1. CASE i <= Len(a)
        <3>1. i \in DOMAIN a /\ (a \o b)[i] = a[i]
            BY <1>1, <1>2, <1>3, <2>1
        <3> QED BY <3>1 DEF Body
    <2>2. CASE ~(i <= Len(a))
        <3>1. i - Len(a) \in DOMAIN b /\ (a \o b)[i] = b[i - Len(a)]
            BY <1>1, <1>2, <1>3, <2>2
        <3> QED BY <3>1 DEF Body
    <2> QED BY <2>1, <2>2
<1> QED BY <1>2, <1>3 DEF Body

\* The statements of a loop, given for each turn of it.
LEMMA BodyLoop ==
    ASSUME NEW order, IsSeq(order), NEW q, q = [i \in DOMAIN order |-> q[i]], \A i \in DOMAIN order : Body(q[i])
    PROVE  Body(FlattenSeq(q))
<1>1. Len(order) \in Nat /\ DOMAIN order = 1 .. Len(order)
    BY SeqParts
<1>2. IsSeq(q) /\ DOMAIN q = DOMAIN order
    BY <1>1, MapSeq
<1>3. \A i \in DOMAIN q : IsSeq(q[i])
    BY <1>2 DEF Body
<1>4. /\ IsSeq(FlattenSeq(q))
      /\ \A m \in DOMAIN FlattenSeq(q) : \E i \in DOMAIN q : \E k \in DOMAIN q[i] : FlattenSeq(q)[m] = q[i][k]
    BY <1>2, <1>3, FlattenOf
<1> QED BY <1>2, <1>4 DEF Body

\* And statements given one for each turn of a loop.
LEMMA BodyMap ==
    ASSUME NEW order, IsSeq(order), NEW q, q = [i \in DOMAIN order |-> q[i]], \A i \in DOMAIN order : SingleOK(q[i])
    PROVE  Body(q)
<1>1. Len(order) \in Nat /\ DOMAIN order = 1 .. Len(order)
    BY SeqParts
<1>2. IsSeq(q) /\ DOMAIN q = DOMAIN order
    BY <1>1, MapSeq
<1> QED BY <1>2 DEF Body

\* The worker's tables come in an order.
LEMMA SysOrderIs == IsSeq(SysOrder) /\ \A i \in DOMAIN SysOrder : SysOrder[i] \in Kinds
BY ProjectAssumption, SeqIs DEF Kinds, ToSet

\* The order of the tables is one of tables.
LEMMA OrderedTables == \A i \in DOMAIN TableOrder : TableOrder[i] \in Tables
BY DEF Tables, ToSet

\* There are finitely many foreign keys.
LEMMA LinksFinite == IsFiniteSet(Links)
<1>1. Len(TableOrder) \in Nat /\ DOMAIN TableOrder = 1 .. Len(TableOrder)
    BY TableOrderIs, SeqParts
<1>2. IsFiniteSet(Tables)
    <2>1. TableOrder \in Surjection(1 .. Len(TableOrder), Tables)
        <3>1. TableOrder = [i \in 1 .. Len(TableOrder) |-> TableOrder[i]]
            BY TableOrderIs, SeqParts
        <3>2. \A i \in 1 .. Len(TableOrder) : TableOrder[i] \in Tables
            BY <1>1, OrderedTables
        <3>3. \A t \in Tables : \E i \in 1 .. Len(TableOrder) : TableOrder[i] = t
            BY <1>1 DEF Tables, ToSet
        <3>4. TableOrder \in [1 .. Len(TableOrder) -> Tables]
            BY <3>1, <3>2
        <3> QED BY <3>3, <3>4 DEF Surjection
    <2>2. IsFiniteSet(1 .. Len(TableOrder))
        BY <1>1, FS_Interval
    <2> QED BY <2>1, <2>2, FS_Surjection
<1>3. IsFiniteSet(Rules)
    <2>1. IsFiniteSet({"CASCADE"}) /\ IsFiniteSet({"SET NULL"}) /\ IsFiniteSet({"RESTRICT"})
        BY FS_Singleton
    <2>2. IsFiniteSet({"CASCADE"} \cup {"SET NULL"})
        BY <2>1, FS_Union
    <2>3. Rules = ({"CASCADE"} \cup {"SET NULL"}) \cup {"RESTRICT"}
        BY DEF Rules
    <2> QED BY <2>1, <2>2, <2>3, FS_Union
<1>4. IsFiniteSet((Tables \X Tables) \X Rules)
    BY <1>2, <1>3, FS_Product
<1> DEFINE D == (Tables \X Tables) \X Rules
           f == [x \in D |-> [from |-> x[1][1], to |-> x[1][2], rule |-> x[2]]]
<1>5. f \in Surjection(D, Links)
    <2>1. \A x \in D : f[x] \in Links
        BY DEF Links
    <2>2. ASSUME NEW y \in Links PROVE \E x \in D : f[x] = y
        <3>1. y = [from |-> y.from, to |-> y.to, rule |-> y.rule] /\ <<<<y.from, y.to>>, y.rule>> \in D
            BY DEF Links
        <3>2. f[<<<<y.from, y.to>>, y.rule>>] = y
            BY <3>1
        <3> QED BY <3>1, <3>2
    <2>3. f \in [D -> Links]
        BY <2>1
    <2> HIDE DEF D, f
    <2> QED BY <2>2, <2>3 DEF Surjection
<1> HIDE DEF D, f
<1>6. IsFiniteSet(D)
    BY <1>4 DEF D
<1> QED BY <1>5, <1>6, FS_Surjection

\* A restore drops foreign keys.
LEMMA DropLinksBody ==
    ASSUME NEW a, NEW existing
    PROVE  Body(DropLinks(a, existing))
<1> DEFINE S == {f.from : f \in a.links} \cap existing \cap DOMAIN a.schema
           q == [i \in DOMAIN TableOrder |-> IF TableOrder[i] \in S THEN <<Sql("DROP FOREIGN KEYS", TableOrder[i])>> ELSE <<>>]
<1>1. DropLinks(a, existing) = FlattenSeq(q)
    BY DEF DropLinks, ForTables, InOrder
<1>2. q = [i \in DOMAIN TableOrder |-> q[i]]
    OBVIOUS
<1>3. ASSUME NEW i \in DOMAIN TableOrder PROVE Body(q[i])
    <2>1. StepOK(Sql("DROP FOREIGN KEYS", TableOrder[i]))
        BY OrderedTables, SqlOK DEF PlainSql
    <2>2. SingleOK(Sql("DROP FOREIGN KEYS", TableOrder[i]))
        BY <2>1, SingleIs DEF Sql
    <2> QED BY <2>2, BodyNo, BodyOne
<1> HIDE DEF q
<1> QED BY <1>1, <1>2, <1>3, TableOrderIs, BodyLoop

\* It empties the worker's tables.
LEMMA EmptySystemBody == Body(EmptySystem)
<1> DEFINE x(i) == Soft(DeleteSystem(SysOrder[i], {SysOrder[i]} \X Tables, FALSE))
           q == [i \in DOMAIN SysOrder |-> x(i)]
<1>1. ASSUME NEW i \in DOMAIN SysOrder PROVE SingleOK(x(i))
    <2>1. StepOK(x(i))
        BY SystemStepsOK
    <2>2. "sql" \in DOMAIN x(i) /\ x(i).sql # "TRANSACTION"
        BY DEF Soft, DeleteSystem
    <2> QED BY <2>1, <2>2, SingleIs
<1> HIDE DEF x
<1>2. Body(q)
    <2>1. q = [i \in DOMAIN SysOrder |-> q[i]] /\ \A i \in DOMAIN SysOrder : SingleOK(q[i])
        BY <1>1
    <2> HIDE DEF q
    <2> QED BY <2>1, SysOrderIs, BodyMap
<1> QED BY <1>2 DEF EmptySystem, x

\* It empties or makes a table, and fills it.
LEMMA PrepareBody ==
    ASSUME NEW a, ArchiveOK(a), NEW t \in Tables, t \in DOMAIN a.schema, NEW existing
    PROVE  Body(Prepare(a, t, existing)) /\ Body(Fill(a, t))
<1>1. a.schema[t] \subseteq Columns
    BY DEF ArchiveOK, SchemaOK
<1>2. SingleOK(Sql("DELETE ALL", t))
    <2>1. StepOK(Sql("DELETE ALL", t))
        BY SqlOK DEF PlainSql
    <2> QED BY <2>1, SingleIs DEF Sql
<1>3. SingleOK(CreateTable(t, a.schema[t], "none"))
    <2>1. StepOK(CreateTable(t, a.schema[t], "none"))
        BY <1>1, SchemaStepsOK
    <2> QED BY <2>1, SingleIs DEF CreateTable
<1>4. Body(Prepare(a, t, existing))
    BY <1>2, <1>3, BodyNo, BodyOne DEF Prepare
<1>5. CASE t \in DOMAIN a.rows
    <2>1. a.rows[t].of \subseteq Rows /\ \A r \in a.rows[t].of : r.gone => "deleted_at" \in a.rows[t].cols
        BY <1>5 DEF ArchiveOK, RowsOK
    <2>2. SingleOK(Insert(t, a.rows[t].of, a.rows[t].cols))
        BY <2>1, InsertOK
    <2>3. Body(Fill(a, t))
        BY <2>2, BodyNo, BodyOne DEF Fill
    <2> QED BY <1>4, <2>3
<1>6. CASE t \notin DOMAIN a.rows
    BY <1>4, <1>6, BodyNo DEF Fill
<1> QED BY <1>5, <1>6

\* It builds unique indexes and foreign keys again.
LEMMA RebuildBody ==
    ASSUME NEW a, ArchiveOK(a)
    PROVE  Body(Rebuild(a))
<1> DEFINE links == SetToSeq(a.links)
           q == [i \in DOMAIN TableOrder |->
                    IF TableOrder[i] \in a.uniq THEN <<Soft(Sql("CREATE UNIQUE INDEX", TableOrder[i]))>> ELSE <<>>]
           x(i) == Soft(AddForeignKey(links[i]))
           p == [i \in DOMAIN links |-> x(i)]
<1>1. Rebuild(a) = FlattenSeq(q) \o p
    BY DEF Rebuild, ForTables, InOrder
<1>2. a.links \subseteq Links
    BY DEF ArchiveOK
<1>3. IsFiniteSet(a.links)
    BY <1>2, LinksFinite, FS_Subset
<1>4. IsSeq(links) /\ \A i \in DOMAIN links : links[i] \in Links
    BY <1>2, <1>3, SetToSeqOf
<1>5. Body(FlattenSeq(q))
    <2>1. q = [i \in DOMAIN TableOrder |-> q[i]]
        OBVIOUS
    <2>2. ASSUME NEW i \in DOMAIN TableOrder PROVE Body(q[i])
        <3>1. StepOK(Soft(Sql("CREATE UNIQUE INDEX", TableOrder[i])))
            BY OrderedTables, SqlOK DEF PlainSql
        <3>2. SingleOK(Soft(Sql("CREATE UNIQUE INDEX", TableOrder[i])))
            BY <3>1, SingleIs DEF Soft, Sql
        <3> QED BY <3>2, BodyNo, BodyOne
    <2> HIDE DEF q
    <2> QED BY <2>1, <2>2, TableOrderIs, BodyLoop
<1>6. Body(p)
    <2>1. ASSUME NEW i \in DOMAIN links PROVE SingleOK(x(i))
        <3>1. links[i] \in Links
            BY <1>4
        <3> HIDE DEF links
        <3>2. StepOK(Soft(AddForeignKey(links[i])))
            BY <3>1, LinkOK
        <3> QED BY <3>2, SingleIs DEF Soft, AddForeignKey
    <2> HIDE DEF x, links
    <2>2. p = [i \in DOMAIN links |-> p[i]] /\ \A i \in DOMAIN links : SingleOK(p[i])
        BY <2>1
    <2> HIDE DEF p
    <2> QED BY <1>4, <2>2, BodyMap
<1> HIDE DEF q, p
<1> QED BY <1>1, <1>5, <1>6, BodyCat

\* So the transaction of a stream is one of right statements.
LEMMA StreamBodyOK ==
    ASSUME NEW a, ArchiveOK(a), NEW existing
    PROVE  Body(StreamBody(a, existing))
<1> DEFINE p == [i \in DOMAIN TableOrder |->
                    IF TableOrder[i] \in DOMAIN a.schema THEN Prepare(a, TableOrder[i], existing) ELSE <<>>]
           q == [i \in DOMAIN TableOrder |->
                    IF TableOrder[i] \in DOMAIN a.schema THEN Fill(a, TableOrder[i]) ELSE <<>>]
<1>1. StreamBody(a, existing) = DropLinks(a, existing) \o EmptySystem \o FlattenSeq(p) \o FlattenSeq(q)
                                    \o <<InsertSystem(a.sys)>> \o Rebuild(a)
    BY DEF StreamBody, ForTables, InOrder
<1>2. Body(FlattenSeq(p)) /\ Body(FlattenSeq(q))
    <2>1. p = [i \in DOMAIN TableOrder |-> p[i]] /\ q = [i \in DOMAIN TableOrder |-> q[i]]
        OBVIOUS
    <2>2. ASSUME NEW i \in DOMAIN TableOrder PROVE Body(p[i]) /\ Body(q[i])
        BY OrderedTables, PrepareBody, BodyNo
    <2> HIDE DEF p, q
    <2> QED BY <2>1, <2>2, TableOrderIs, BodyLoop
<1> HIDE DEF p, q
<1>3. SingleOK(InsertSystem(a.sys))
    <2>1. StepOK(InsertSystem(a.sys))
        BY SystemStepsOK DEF ArchiveOK
    <2> QED BY <2>1, SingleIs DEF InsertSystem
<1>4. Body(<<InsertSystem(a.sys)>>)
    BY <1>3, BodyOne
<1> QED BY <1>1, <1>2, <1>4, DropLinksBody, EmptySystemBody, RebuildBody, BodyCat

\* And so is the transaction of a document.
LEMMA DataBodyOK ==
    ASSUME NEW a, ArchiveOK(a), NEW existing
    PROVE  Body(DataBody(a, existing))
<1> DEFINE S == {t \in DOMAIN a.schema : t \in existing \/ a.schema[t] # {}}
           K == {x[1] : x \in a.sys}
           p == [i \in DOMAIN TableOrder |->
                    IF TableOrder[i] \in S THEN Prepare(a, TableOrder[i], existing) \o Fill(a, TableOrder[i]) ELSE <<>>]
           y(k) == ReplaceSystem(k, OfKind(a.sys, k))
           q == [i \in DOMAIN SysOrder |-> IF SysOrder[i] \in K THEN <<y(SysOrder[i])>> ELSE <<>>]
<1>1. DataBody(a, existing) = DropLinks(a, existing) \o FlattenSeq(p) \o Rebuild(a) \o FlattenSeq(q)
    BY DEF DataBody, ForTables, InOrder
<1>2. Body(FlattenSeq(p))
    <2>1. p = [i \in DOMAIN TableOrder |-> p[i]]
        OBVIOUS
    <2>2. ASSUME NEW i \in DOMAIN TableOrder PROVE Body(p[i])
        BY OrderedTables, PrepareBody, BodyCat, BodyNo
    <2> HIDE DEF p
    <2> QED BY <2>1, <2>2, TableOrderIs, BodyLoop
<1>3. Body(FlattenSeq(q))
    <2>1. ASSUME NEW k PROVE SingleOK(y(k))
        <3>1. OfKind(a.sys, k) \subseteq Kinds \X Tables
            BY DEF ArchiveOK, OfKind
        <3>2. StepOK(ReplaceSystem(k, OfKind(a.sys, k)))
            BY <3>1, SystemStepsOK
        <3> QED BY <3>2, SingleIs DEF ReplaceSystem
    <2> HIDE DEF y
    <2>2. q = [i \in DOMAIN SysOrder |-> q[i]] /\ \A i \in DOMAIN SysOrder : Body(q[i])
        BY <2>1, BodyNo, BodyOne
    <2> HIDE DEF q
    <2> QED BY <2>2, SysOrderIs, BodyLoop
<1> HIDE DEF p, q
<1> QED BY <1>1, <1>2, <1>3, DropLinksBody, RebuildBody, BodyCat

\* The archive that was, or one with what a request has read.
LEMMA WrittenOK ==
    ASSUME NEW n, NEW j, SeenOK(jobs[j].seen, n), NEW sealed, NEW broken
    PROVE  ArchiveOK(Written(j, sealed, broken))
BY DEF SeenOK, ArchiveOK, Written

\* An export has read the names of the tables.
LEMMA ExportReads ==
    ASSUME NEW n \in Nat, Typed(n), NEW j \in Jobs, ListToExport(j)
    PROVE  Typed(n)'
<1> DEFINE rows == Loop("export rows", DOMAIN db.tab)
           cols == Loop("export columns", DOMAIN db.tab)
           links == <<[do |-> "export links"]>>
           reads == IF jobs[j].op = "export stream" THEN cols \o links \o rows ELSE rows \o links
           x(i) == [do |-> "export system", kind |-> SysOrder[i]]
           p == [i \in DOMAIN SysOrder |-> x(i)]
           end == <<[do |-> "end"]>>
<1>1. At(j, "list tables") /\ Learn(j, reads \o p \o end, jobs[j].seen)
    BY DEF ListToExport
<1>2. DOMAIN db.tab \subseteq Tables
    BY DEF Typed, Database
<1>3. Fine(rows) /\ Fine(cols) /\ Fine(links) /\ Fine(end)
    BY <1>2, FineLoopOver, VersionStepsOK, FineOne
<1>4. Fine(p)
    <2>1. \A i \in DOMAIN SysOrder : StepOK(x(i))
        BY VersionStepsOK
    <2> HIDE DEF x
    <2>2. p = [i \in DOMAIN SysOrder |-> p[i]] /\ \A i \in DOMAIN SysOrder : StepOK(p[i])
        BY <2>1
    <2> HIDE DEF p
    <2>3. Len(SysOrder) \in Nat /\ DOMAIN SysOrder = 1 .. Len(SysOrder)
        BY SysOrderIs, SeqParts
    <2>4. IsSeq(p) /\ DOMAIN p = DOMAIN SysOrder
        BY <2>2, <2>3, MapSeq
    <2> QED BY <2>2, <2>4 DEF Fine
<1> HIDE DEF rows, cols, links, p, end
<1>5. Fine(reads)
    BY <1>3, FineCat
<1> HIDE DEF reads
<1>6. Fine(reads \o p \o end)
    BY <1>3, <1>4, <1>5, FineCat
<1> QED BY <1>1, <1>6, AtIs, LearnKeeps

\* The steps of the backup routes.
LEMMA BackupStepKeeps ==
    ASSUME NEW n \in Nat, Typed(n), archive # NoArchive => ArchiveOK(archive), NEW j \in Jobs, BackupStep(j)
    PROVE  Typed(n)' /\ (archive # NoArchive => ArchiveOK(archive))'
<1> DEFINE s == Head(jobs[j].todo)  seen == jobs[j].seen
<1>1. ASSUME NEW what, At(j, what)
      PROVE  /\ jobs[j] # NoJob /\ SeenOK(seen, n) /\ ReadOK(s) /\ s.do = what /\ Fine(Tail(jobs[j].todo))
             /\ \A sealed, broken : ArchiveOK(Written(j, sealed, broken))
    BY <1>1, AtIs, WrittenOK
<1>2. Database(db) /\ DOMAIN db.tab \subseteq Tables
      /\ \A t \in DOMAIN db.tab : db.tab[t] \in Table /\ WellFormed(db.tab[t])
    BY DEF Typed, Database
<1>3. CASE Export(j)
    <2>1. PICK op \in Exports : Begin(j, op, TableOrder[1], <<[do |-> "list tables"]>>)
        BY <1>3 DEF Export
    <2>2. Fine(<<[do |-> "list tables"]>>) /\ <<[do |-> "list tables"]>> # <<>>
        BY VersionStepsOK, FineOne
    <2>3. archive' = archive
        BY <1>3 DEF Export
    <2> QED BY <2>1, <2>2, <2>3, TableOrderIs, BeginKeeps
<1>4. CASE ListToExport(j)
    <2>1. archive' = archive
        BY <1>4 DEF ListToExport
    <2> QED BY <1>4, <2>1, ExportReads
<1>5. CASE ExportColumns(j)
    <2> DEFINE names == s.of  t == First(names)
               x == IF t \in DOMAIN db.tab THEN db.tab[t].cols ELSE {}
    <2>1. At(j, "export columns") /\ archive' = archive
          /\ Learn(j, Loop("export columns", names \ {t}), [seen EXCEPT !.schema = Put(seen.schema, t, x)])
        BY <1>5 DEF ExportColumns
    <2>2. jobs[j] # NoJob /\ SeenOK(seen, n) /\ names \subseteq Tables /\ names # {}
        BY <1>1, <2>1 DEF ReadOK
    <2>3. t \in names /\ Fine(Loop("export columns", names \ {t}))
        BY <2>2, FirstIs, FineLoopOver
    <2>4. x \subseteq Columns
        BY <1>2, ColumnsRead
    <2>5. SchemaOK(seen.schema)
        BY <2>2 DEF SeenOK
    <2> HIDE DEF x, t, names
    <2>6. SchemaOK(Put(seen.schema, t, x))
        BY <2>2, <2>3, <2>4, <2>5, PutSchema
    <2>7. SeenOK([seen EXCEPT !.schema = Put(seen.schema, t, x)], n)
        BY <2>2, <2>6, SeenWith
    <2> QED BY <2>1, <2>2, <2>3, <2>7, LearnKeeps
<1>6. CASE ExportLinks(j)
    <2> DEFINE u == {t \in DOMAIN db.tab : db.tab[t].uniq}
    <2>1. At(j, "export links") /\ Learn(j, <<>>, [seen EXCEPT !.links = db.fks, !.uniq = u]) /\ archive' = archive
        BY <1>6 DEF ExportLinks
    <2>2. jobs[j] # NoJob /\ SeenOK(seen, n)
        BY <1>1, <2>1
    <2>3. db.fks \subseteq Links /\ u \subseteq Tables
        BY <1>2 DEF Database
    <2> HIDE DEF u, seen
    <2>4. SeenOK([seen EXCEPT !.links = db.fks, !.uniq = u], n)
        BY <2>2, <2>3, SeenWith
    <2> QED BY <2>1, <2>2, <2>4, FineNo, LearnKeeps
<1>7. CASE ExportRows(j)
    <2> DEFINE names == s.of  t == First(names)
               x == [of |-> db.tab[t].rows, cols |-> db.tab[t].cols]
    <2>1. At(j, "export rows") /\ archive' = archive /\ t \in DOMAIN db.tab
          /\ Learn(j, AfterRows(j, t, names), [seen EXCEPT !.rows = Put(seen.rows, t, x)])
        BY <1>7 DEF ExportRows
    <2>2. jobs[j] # NoJob /\ SeenOK(seen, n) /\ names \subseteq Tables /\ names # {}
        BY <1>1, <2>1 DEF ReadOK
    <2>3. t \in Tables
        BY <1>2, <2>1
    <2>4. db.tab[t].rows \subseteq Rows /\ db.tab[t].cols \subseteq Columns
          /\ \A r \in db.tab[t].rows : r.gone => "deleted_at" \in db.tab[t].cols
        BY <1>2, <2>1 DEF Table, WellFormed
    <2>5. RowsOK(seen.rows)
        BY <2>2 DEF SeenOK
    <2>6. RowsOK(Put(seen.rows, t, x))
        BY <2>3, <2>4, <2>5, PutRows
    <2>7. Fine(AfterRows(j, t, names))
        <3> DEFINE a == IF jobs[j].op = "export data" THEN Loop("export columns", {t}) ELSE <<>>
                   b == Loop("export rows", names \ {t})
        <3>1. Fine(a) /\ Fine(b)
            BY <2>2, <2>3, FineLoopOver, FineNo
        <3> HIDE DEF a, b
        <3>2. Fine(a \o b)
            BY <3>1, FineCat
        <3> QED BY <3>2 DEF AfterRows, a, b
    <2> HIDE DEF x, t, names, seen
    <2>8. SeenOK([seen EXCEPT !.rows = Put(seen.rows, t, x)], n)
        BY <2>2, <2>6, SeenWith
    <2> QED BY <2>1, <2>2, <2>7, <2>8, LearnKeeps
<1>8. CASE ExportRowsFails(j)
    <2>1. At(j, "export rows") /\ Refuse(j) /\ archive' \in {archive, Written(j, FALSE, TRUE)}
        BY <1>8 DEF ExportRowsFails
    <2>2. ArchiveOK(Written(j, FALSE, TRUE))
        BY <1>1, <2>1
    <2> QED BY <2>1, <2>2, RefuseKeeps
<1>9. CASE ExportSystem(j)
    <2>1. At(j, "export system") /\ archive' = archive
        BY <1>9 DEF ExportSystem
    <2>2. \/ Learn(j, <<>>, [seen EXCEPT !.sys = seen.sys \cup OfKind(db.sys, s.kind)])
          \/ Go(j, Tail(jobs[j].todo), [seen EXCEPT !.excused = TRUE], db, {})
        BY <1>9 DEF ExportSystem
    <2>3. jobs[j] # NoJob /\ SeenOK(seen, n) /\ Fine(Tail(jobs[j].todo))
        BY <1>1, <2>1
    <2>4. seen.sys \cup OfKind(db.sys, s.kind) \subseteq Kinds \X Tables
        BY <1>2, <2>3 DEF SeenOK, Database, OfKind
    <2> HIDE DEF seen
    <2>5. SeenOK([seen EXCEPT !.sys = seen.sys \cup OfKind(db.sys, s.kind)], n)
        BY <2>3, <2>4, SeenWith
    <2>6. SeenOK([seen EXCEPT !.excused = TRUE], n)
        BY <2>3, SeenExcused
    <2> QED BY <1>2, <2>1, <2>2, <2>3, <2>5, <2>6, FineNo, LearnKeeps, GoKeeps
<1>10. ASSUME NEW what, At(j, what), NEW said \in Answers, End(j, said, db, {}),
              NEW sealed, archive' = Written(j, sealed, FALSE)
       PROVE  Typed(n)' /\ ArchiveOK(archive)'
    <2>1. ArchiveOK(Written(j, sealed, FALSE))
        BY <1>1, <1>10
    <2> QED BY <1>2, <1>10, <2>1, EndKeeps
<1>13. CASE EndExport(j)
    BY <1>10, <1>13 DEF EndExport, Answers
<1>14. CASE CutExport(j)
    BY <1>10, <1>14 DEF CutExport, Answers
<1>11. CASE Restore(j)
    <2>1. archive # NoArchive /\ archive' = archive
        BY <1>11 DEF Restore
    <2>2. PICK form \in {"stream", "data"} :
            Begin(j, "restore", TableOrder[1], <<[do |-> "existing tables", form |-> form, from |-> archive]>>)
        BY <1>11 DEF Restore
    <2>3. StepOK([do |-> "existing tables", form |-> form, from |-> archive])
        BY <2>1, VersionStepsOK
    <2> DEFINE x == [do |-> "existing tables", form |-> form, from |-> archive]
    <2>4. Fine(<<x>>) /\ <<x>> # <<>>
        BY <2>3, FineOne
    <2> QED BY <2>1, <2>2, <2>4, TableOrderIs, BeginKeeps
<1>12. CASE ReadExisting(j)
    <2> DEFINE body == IF s.form = "stream" THEN StreamBody(s.from, DOMAIN db.tab) ELSE DataBody(s.from, DOMAIN db.tab)
               x == [sql |-> "TRANSACTION", soft |-> FALSE, body |-> body, form |-> s.form, from |-> s.from]
    <2>1. At(j, "existing tables") /\ archive' = archive /\ (Refuse(j) \/ Learn(j, <<x>>, jobs[j].seen))
        BY <1>12 DEF ReadExisting
    <2>2. jobs[j] # NoJob /\ SeenOK(seen, n) /\ ArchiveOK(s.from)
        BY <1>1, <2>1 DEF ReadOK
    <2>3. Body(body)
        BY <2>2, StreamBodyOK, DataBodyOK
    <2> HIDE DEF body
    <2>4. StepOK(x)
        BY <2>3, TransactionOK DEF Body
    <2> HIDE DEF x
    <2> QED BY <2>1, <2>2, <2>4, FineOne, LearnKeeps, RefuseKeeps
<1> QED BY <1>3, <1>4, <1>5, <1>6, <1>7, <1>8, <1>9, <1>13, <1>14, <1>11, <1>12 DEF BackupStep

----------------------------------------------------------------------------
(***************************************************************************)
(* The types of all states.                                                *)
(***************************************************************************)

\* The databases of the scenarios are right, and no request is at work.
LEMMA InitTyped == Init => TypeInv
<1> SUFFICES ASSUME Init PROVE TypeInv
    OBVIOUS
<1>1. Database(db)
    BY ProjectAssumption DEF Init, DbInit
<1>2. jobs = [k \in Jobs |-> NoJob] /\ answer = [k \in Jobs |-> "none"] /\ versions = <<>> /\ archive = NoArchive
    BY DEF Init, DbInit
<1>3. Typed(Len(versions))
    BY <1>1, <1>2 DEF Typed, Answers
<1>4. VersionsOK(versions)
    BY <1>2, NoSteps DEF VersionsOK
<1> QED BY <1>2, <1>3, <1>4 DEF TypeInv, Init

\* The worker stops.
LEMMA StopKeeps ==
    ASSUME NEW n, Typed(n), Stop
    PROVE  Typed(n)'
<1>1. /\ db' = db /\ jobs' = [k \in Jobs |-> NoJob]
      /\ answer' = [k \in Jobs |-> IF jobs[k] = NoJob THEN answer[k] ELSE "error"]
    BY DEF Stop
<1> QED BY <1>1 DEF Typed, Answers

\* Every step keeps the types.
LEMMA NextTyped == TypeInv /\ [Next]_vars => TypeInv'
<1> SUFFICES ASSUME TypeInv, [Next]_vars PROVE TypeInv'
    OBVIOUS
<1>1. Typed(Len(versions)) /\ VersionsOK(versions) /\ (archive # NoArchive => ArchiveOK(archive))
      /\ rulesCache \in [Tables -> {"none", "ruled", "free"}] /\ colCache \in [Tables -> {"none", "soft", "hard"}]
    BY DEF TypeInv
<1>2. Len(versions) \in Nat
    BY <1>1, SeqParts DEF VersionsOK
<1>3. PICK n \in Nat : n = Len(versions)
    BY <1>2
<1>4. Typed(n)
    BY <1>1, <1>3 DEF Typed
<1>5. ASSUME Typed(n)', UNCHANGED <<versions, archive, caches>> PROVE TypeInv'
    <2>1. Typed(Len(versions))'
        BY <1>3, <1>5 DEF Typed
    <2>2. VersionsOK(versions)'
        BY <1>1, <1>5 DEF VersionsOK
    <2> QED BY <1>1, <1>5, <2>1, <2>2 DEF TypeInv, caches
<1>6. ASSUME NEW j \in Jobs,
             (DbStep(j) \/ SchemaStep(j) \/ TimescaleStep(j) \/ DataRequest(j)) /\ UNCHANGED <<versions, archive, caches>>
      PROVE  TypeInv'
    BY <1>4, <1>5, <1>6, DbStepKeeps, SchemaStepKeeps, TimescaleStepKeeps, DataRequestKeeps
<1>7. ASSUME NEW j \in Jobs, VersionStep(j) /\ UNCHANGED <<archive, caches>>
      PROVE  TypeInv'
    <2>1. CASE ~InsertVersion(j)
        BY <1>1, <1>3, <1>4, <1>5, <1>7, <2>1, VersionReads
    <2>2. CASE InsertVersion(j)
        <3>1. Typed(n + 1)' /\ VersionsOK(versions)' /\ Len(versions') = n + 1
            BY <1>1, <1>3, <1>4, <2>2, InsertKeeps
        <3>2. Typed(Len(versions))'
            BY <3>1 DEF Typed
        <3> QED BY <1>1, <1>7, <3>1, <3>2 DEF TypeInv, caches
    <2> QED BY <2>1, <2>2
<1>8. ASSUME NEW j \in Jobs, BackupStep(j) /\ UNCHANGED <<versions, caches>>
      PROVE  TypeInv'
    <2>1. Typed(n)' /\ (archive # NoArchive => ArchiveOK(archive))'
        BY <1>1, <1>4, <1>8, BackupStepKeeps
    <2>2. Typed(Len(versions))'
        BY <1>3, <1>8, <2>1 DEF Typed
    <2>3. VersionsOK(versions)'
        BY <1>1, <1>8 DEF VersionsOK
    <2> QED BY <1>1, <1>8, <2>1, <2>2, <2>3 DEF TypeInv, caches
<1>9. ASSUME NEW j \in Jobs, Lookup(j) /\ UNCHANGED <<versions, archive>>
      PROVE  TypeInv'
    <2>1. Typed(n)'
        BY <1>4, <1>9, LookupKeeps
    <2>2. Typed(Len(versions))'
        BY <1>3, <1>9, <2>1 DEF Typed
    <2>3. VersionsOK(versions)' /\ (archive # NoArchive => ArchiveOK(archive))'
        BY <1>1, <1>9 DEF VersionsOK
    <2>4. rulesCache' \in [Tables -> {"none", "ruled", "free"}] /\ colCache' \in [Tables -> {"none", "soft", "hard"}]
        BY <1>1, <1>9, CachesKeep
    <2> QED BY <2>2, <2>3, <2>4 DEF TypeInv
<1>10. CASE Expire /\ UNCHANGED <<versions, archive>>
    <2>1. Typed(n)'
        BY <1>4, <1>10 DEF Expire, dbVars, Typed
    <2>2. Typed(Len(versions))'
        BY <1>3, <1>10, <2>1 DEF Typed
    <2>3. VersionsOK(versions)' /\ (archive # NoArchive => ArchiveOK(archive))'
        BY <1>1, <1>10 DEF VersionsOK
    <2>4. rulesCache' \in [Tables -> {"none", "ruled", "free"}] /\ colCache' \in [Tables -> {"none", "soft", "hard"}]
        BY <1>1, <1>10 DEF Expire
    <2> QED BY <2>2, <2>3, <2>4 DEF TypeInv
<1>11. CASE Restart
    <2>1. Typed(n)'
        BY <1>4, <1>11, StopKeeps DEF Restart
    <2>2. Typed(Len(versions))'
        BY <1>3, <1>11, <2>1 DEF Typed, Restart
    <2>3. VersionsOK(versions)' /\ (archive # NoArchive => ArchiveOK(archive))'
        BY <1>1, <1>11 DEF VersionsOK, Restart
    <2>4. rulesCache' \in [Tables -> {"none", "ruled", "free"}] /\ colCache' \in [Tables -> {"none", "soft", "hard"}]
        BY <1>11 DEF Restart
    <2> QED BY <2>2, <2>3, <2>4 DEF TypeInv
<1>12. CASE UNCHANGED vars
    <2>1. Typed(n)' /\ UNCHANGED <<versions, archive, caches>>
        BY <1>4, <1>12 DEF vars, dbVars, caches, Typed
    <2> QED BY <1>5, <2>1
<1> QED BY <1>6, <1>7, <1>8, <1>9, <1>10, <1>11, <1>12 DEF Next, Step

\* In every state the database is one that PostgreSQL accepts and that the worker can have
\* made of those it began with: keys and indexes are on columns of their tables, only tables
\* with deleted_at have marked records, a table of events is keyed by its time if at all.
\* Every request has something left to do, and the number of a version is at most the count
\* of versions up to it.
THEOREM ProjectTyped == Spec => []DbTypeOK
<1>1. TypeInv => DbTypeOK
    BY DEF TypeInv, Typed, VersionsOK, JobOK, DbTypeOK
<1> QED BY <1>1, InitTyped, NextTyped, PTL DEF Spec

----------------------------------------------------------------------------
(***************************************************************************)
(* The holes of tables: a key, a trigger or a policy that is missing. What *)
(* a statement does to a table, but for its rows, and which holes it opens *)
(* or fills.                                                               *)
(***************************************************************************)
\* The steps of a few steps.
LEMMA MembersFew ==
    ASSUME NEW x, NEW y, NEW z
    PROVE  /\ ToSet(<<>>) = {} /\ ToSet(<<x>>) = {x} /\ ToSet(<<x, y>>) = {x, y}
           /\ ToSet(<<x, y, z>>) = {x, y, z}
<1>1. DOMAIN <<>> = {} /\ DOMAIN <<x>> = {1} /\ DOMAIN <<x, y>> = {1, 2} /\ DOMAIN <<x, y, z>> = {1, 2, 3}
    OBVIOUS
<1>2. <<x>>[1] = x /\ <<x, y>>[1] = x /\ <<x, y>>[2] = y
      /\ <<x, y, z>>[1] = x /\ <<x, y, z>>[2] = y /\ <<x, y, z>>[3] = z
    OBVIOUS
<1>3. ToSet(<<>>) = {}
    BY <1>1 DEF ToSet
<1>4. ToSet(<<x>>) = {x}
    BY <1>1, <1>2 DEF ToSet
<1>5. ToSet(<<x, y>>) = {x, y}
    BY <1>1, <1>2 DEF ToSet
<1>6. ToSet(<<x, y, z>>) = {x, y, z}
    BY <1>1, <1>2 DEF ToSet
<1> QED BY <1>3, <1>4, <1>5, <1>6

\* The steps of two sequences put together.
LEMMA MembersCat ==
    ASSUME NEW a, NEW b, IsSeq(a), IsSeq(b)
    PROVE  ToSet(a \o b) = ToSet(a) \cup ToSet(b)
<1> DEFINE c == a \o b
<1>1. Len(a) \in Nat /\ Len(b) \in Nat /\ DOMAIN a = 1 .. Len(a) /\ DOMAIN b = 1 .. Len(b)
    BY SeqParts
<1>2. DOMAIN c = 1 .. Len(a) + Len(b)
      /\ \A i \in 1 .. Len(a) + Len(b) : c[i] = IF i <= Len(a) THEN a[i] ELSE b[i - Len(a)]
    BY CatOf
<1> HIDE DEF c
<1>3. ASSUME NEW x \in ToSet(c) PROVE x \in ToSet(a) \cup ToSet(b)
    <2>1. PICK i \in DOMAIN c : x = c[i]
        BY DEF ToSet
    <2>2. CASE i <= Len(a)
        BY <1>1, <1>2, <2>1, <2>2 DEF ToSet
    <2>3. CASE i > Len(a)
        <3>1. i - Len(a) \in DOMAIN b /\ x = b[i - Len(a)]
            BY <1>1, <1>2, <2>1, <2>3
        <3> QED BY <3>1 DEF ToSet
    <2> QED BY <1>1, <1>2, <2>2, <2>3
<1>4. ASSUME NEW x \in ToSet(a) PROVE x \in ToSet(c)
    <2>1. PICK i \in DOMAIN a : x = a[i]
        BY DEF ToSet
    <2>2. i \in DOMAIN c /\ c[i] = x
        BY <1>1, <1>2, <2>1
    <2> QED BY <2>2 DEF ToSet
<1>5. ASSUME NEW x \in ToSet(b) PROVE x \in ToSet(c)
    <2>1. PICK i \in DOMAIN b : x = b[i]
        BY DEF ToSet
    <2>2. Len(a) + i \in DOMAIN c /\ c[Len(a) + i] = x
        BY <1>1, <1>2, <2>1
    <2> QED BY <2>2 DEF ToSet
<1> QED BY <1>3, <1>4, <1>5 DEF c

\* The steps of a sequence with one more.
LEMMA MembersAppend ==
    ASSUME NEW q, IsSeq(q), NEW x
    PROVE  ToSet(Append(q, x)) = ToSet(q) \cup {x}
<1> DEFINE c == Append(q, x)
<1>1. Len(q) \in Nat /\ DOMAIN q = 1 .. Len(q)
    BY SeqParts
<1>2. DOMAIN c = 1 .. Len(q) + 1 /\ \A i \in 1 .. Len(q) + 1 : c[i] = IF i <= Len(q) THEN q[i] ELSE x
    BY AppendOf
<1> HIDE DEF c
<1>3. \A i \in DOMAIN q : i \in DOMAIN c /\ c[i] = q[i]
    BY <1>1, <1>2
<1>4. Len(q) + 1 \in DOMAIN c /\ c[Len(q) + 1] = x
    BY <1>1, <1>2
<1>5. \A i \in DOMAIN c : c[i] = x \/ i \in DOMAIN q
    BY <1>1, <1>2
<1> QED BY <1>3, <1>4, <1>5 DEF ToSet, c

\* The steps of a sequence are its first and what is left.
LEMMA MembersTail ==
    ASSUME NEW q, IsSeq(q), q # <<>>
    PROVE  ToSet(q) = {Head(q)} \cup ToSet(Tail(q))
<1> DEFINE c == Tail(q)
<1>1. /\ Len(q) \in Nat /\ Len(q) >= 1 /\ DOMAIN q = 1 .. Len(q) /\ Head(q) = q[1]
      /\ DOMAIN c = 1 .. Len(q) - 1 /\ \A i \in 1 .. Len(q) - 1 : c[i] = q[i + 1]
    BY TailOf
<1> HIDE DEF c
<1>2. \A i \in DOMAIN c : i + 1 \in DOMAIN q /\ c[i] = q[i + 1]
    BY <1>1
<1>3. \A i \in DOMAIN q : i = 1 \/ (i - 1 \in DOMAIN c /\ q[i] = c[i - 1])
    BY <1>1
<1>4. 1 \in DOMAIN q
    BY <1>1
<1>5. ASSUME NEW x \in ToSet(q) PROVE x = q[1] \/ x \in ToSet(c)
    <2>1. PICK i \in DOMAIN q : x = q[i]
        BY DEF ToSet
    <2> QED BY <1>3, <2>1 DEF ToSet
<1>6. q[1] \in ToSet(q) /\ ToSet(c) \subseteq ToSet(q)
    BY <1>2, <1>4 DEF ToSet
<1>7. ToSet(q) = {q[1]} \cup ToSet(c)
    BY <1>5, <1>6
<1> QED BY <1>1, <1>7 DEF c

\* The steps of a flattened sequence are those of its parts.
LEMMA MembersFlatten ==
    ASSUME NEW q, IsSeq(q), \A i \in DOMAIN q : IsSeq(q[i])
    PROVE  ToSet(FlattenSeq(q)) = UNION {ToSet(q[i]) : i \in DOMAIN q}
<1>1. \A m \in DOMAIN FlattenSeq(q) : \E i \in DOMAIN q : \E k \in DOMAIN q[i] : FlattenSeq(q)[m] = q[i][k]
    BY FlattenOf
<1>2. \A i \in DOMAIN q : \A k \in DOMAIN q[i] : \E m \in DOMAIN FlattenSeq(q) : FlattenSeq(q)[m] = q[i][k]
    BY FlattenOf
<1> QED BY <1>1, <1>2 DEF ToSet

\* The tables of a database with another table t.
LEMMA WithTabs ==
    ASSUME NEW d, Database(d), NEW t \in Tables, NEW U, NEW e, e = With(d, t, U)
    PROVE  /\ e = [tab |-> e.tab, fks |-> d.fks, sys |-> d.sys]
           /\ DOMAIN e.tab = DOMAIN d.tab \cup {t}
           /\ \A u \in DOMAIN e.tab : e.tab[u] = IF u = t THEN U ELSE d.tab[u]
<1>1. e = [tab |-> Put(d.tab, t, U), fks |-> d.fks, sys |-> d.sys]
    BY WithIs
<1>2. e.tab = Put(d.tab, t, U)
    BY <1>1
<1> QED BY <1>1, <1>2 DEF Put

\* What a statement does to the tables, but for their rows.
Here(s, what, t) == s.sql = what /\ s.tab = t

NewTime(s, T, t) ==
    IF Here(s, "DROP VIEW", t) THEN T.time \ {"view", "refresh"}
    ELSE IF Here(s, "TIMESCALE", t) THEN (T.time \ s.drops) \cup s.adds
    ELSE T.time

NewCols(s, T, t) ==
    IF Here(s, "ADD COLUMN", t) THEN T.cols \cup {s.col}
    ELSE IF Here(s, "DROP COLUMN", t) THEN T.cols \ {s.col}
    ELSE T.cols

NewKey(s, T, t) ==
    IF Here(s, "DROP KEY", t) \/ Here(s, "DROP KEY IF EXISTS", t) \/ (Here(s, "DROP COLUMN", t) /\ T.key = s.col) THEN "none"
    ELSE IF Here(s, "ADD KEY", t) THEN s.key
    ELSE T.key

Becomes(s, T, U, t) ==
    /\ U.cols = NewCols(s, T, t)
    /\ U.key = NewKey(s, T, t)
    /\ U.trigger = (T.trigger \/ Here(s, "CREATE TRIGGER", t))
    /\ U.time = NewTime(s, T, t)

\* A statement makes or drops its table, and changes the columns, the key, the trigger and
\* the policies of tables only as NewCols, NewKey and NewTime say.
LEMMA SingleShape ==
    ASSUME NEW d, Database(d), NEW s, SingleOK(s), NEW e \in Single(d, s)
    PROVE  /\ DOMAIN e.tab = IF s.sql = "CREATE TABLE" THEN DOMAIN d.tab \cup {s.tab}
                             ELSE IF s.sql \in {"DROP TABLE", "DROP TABLE RESTRICT"} THEN DOMAIN d.tab \ {s.tab}
                             ELSE DOMAIN d.tab
           /\ s.sql = "CREATE TABLE" => s.tab \notin DOMAIN d.tab /\ e.tab[s.tab] = NewTable(s.cols, s.key)
           /\ \A t \in DOMAIN d.tab \cap DOMAIN e.tab : Becomes(s, d.tab[t], e.tab[t], t)
<1> DEFINE t == s.tab  T == d.tab[t]
           Goal == /\ DOMAIN e.tab = IF s.sql = "CREATE TABLE" THEN DOMAIN d.tab \cup {s.tab}
                             ELSE IF s.sql \in {"DROP TABLE", "DROP TABLE RESTRICT"} THEN DOMAIN d.tab \ {s.tab}
                             ELSE DOMAIN d.tab
                   /\ s.sql = "CREATE TABLE" => s.tab \notin DOMAIN d.tab /\ e.tab[s.tab] = NewTable(s.cols, s.key)
                   /\ \A u \in DOMAIN d.tab \cap DOMAIN e.tab : Becomes(s, d.tab[u], e.tab[u], u)
<1> SUFFICES Goal
    OBVIOUS
<1>1. e \in Effects(d, s)
    BY DEF Single
<1>2. \A u \in DOMAIN d.tab : d.tab[u] \in Table
    BY DEF Database
<1>3. d = [tab |-> d.tab, fks |-> d.fks, sys |-> d.sys]
    BY DEF Database
<1>4. \A u \in DOMAIN d.tab : s.tab # u \/ s.sql \notin OnTables => Becomes(s, d.tab[u], d.tab[u], u)
    BY <1>2 DEF Table, Becomes, NewCols, NewKey, NewTime, Here, OnTables
<1>5. CASE s.sql \notin OnTables
    <2>1. e.tab = d.tab
        BY <1>1, <1>3, <1>5 DEF Effects, OnTable, OnTables
    <2> QED BY <1>4, <1>5, <2>1 DEF OnTables
<1>6. CASE e = Without(d, t) /\ s.sql \in {"DROP TABLE", "DROP TABLE RESTRICT"}
    <2>1. DOMAIN e.tab = DOMAIN d.tab \ {t} /\ \A u \in DOMAIN e.tab : e.tab[u] = d.tab[u]
        BY <1>3, <1>6 DEF Without, Restrict
    <2> QED BY <1>4, <1>6, <2>1
<1>7. CASE e = d /\ t \notin DOMAIN d.tab /\ s.sql # "CREATE TABLE"
    BY <1>4, <1>7
<1>8. CASE t \notin DOMAIN d.tab /\ s.sql = "CREATE TABLE"
    <2>1. e = With(d, t, NewTable(s.cols, s.key)) /\ t \in Tables
        BY <1>1, <1>8 DEF Effects, OnTable, SingleOK, OnTables
    <2>2. DOMAIN e.tab = DOMAIN d.tab \cup {t}
          /\ \A u \in DOMAIN e.tab : e.tab[u] = IF u = t THEN NewTable(s.cols, s.key) ELSE d.tab[u]
        BY <2>1, WithTabs
    <2> QED BY <1>4, <1>8, <2>2
<1>9. ASSUME NEW U, t \in DOMAIN d.tab, e = With(d, t, U), Becomes(s, T, U, t),
             s.sql \notin {"CREATE TABLE", "DROP TABLE", "DROP TABLE RESTRICT"}
      PROVE  Goal
    <2>1. DOMAIN e.tab = DOMAIN d.tab /\ \A u \in DOMAIN e.tab : e.tab[u] = IF u = t THEN U ELSE d.tab[u]
        <3>1. t \in Tables /\ DOMAIN d.tab \cup {t} = DOMAIN d.tab
            BY <1>9 DEF Database
        <3>2. DOMAIN e.tab = DOMAIN d.tab \cup {t}
              /\ \A u \in DOMAIN e.tab : e.tab[u] = IF u = t THEN U ELSE d.tab[u]
            <4>1. e = With(d, t, U)
                BY <1>9
            <4> HIDE DEF t
            <4> QED BY <3>1, <4>1, WithTabs
        <3> QED BY <3>1, <3>2
    <2> QED BY <1>4, <1>9, <2>1
<1>10. CASE s.sql \in OnTables /\ t \in DOMAIN d.tab /\ s.sql \notin {"CREATE TABLE", "DROP TABLE", "DROP TABLE RESTRICT"}
    <2>0. e \in OnTable(d, s) /\ T \in Table /\ t \in Tables
        BY <1>1, <1>2, <1>10 DEF Effects, OnTables, Database
    <2>a. ASSUME NEW R, e = With(d, t, [T EXCEPT !.rows = R]),
                 s.sql \in {"TRUNCATE", "INSERT", "UPDATE", "SET DELETED"}
          PROVE  Goal
        <3>1. Becomes(s, T, [T EXCEPT !.rows = R], t)
            BY <2>0, <2>a DEF Table, Becomes, NewCols, NewKey, NewTime, Here
        <3> QED BY <1>9, <1>10, <2>a, <3>1
    <2>b. ASSUME NEW R, e = Cascade(With(d, t, [T EXCEPT !.rows = R]), t), s.sql \in {"DELETE", "DELETE ALL"}
          PROVE  Goal
        <3> DEFINE w == With(d, t, [T EXCEPT !.rows = R])
        <3>1. w = [tab |-> w.tab, fks |-> w.fks, sys |-> w.sys]
              /\ DOMAIN w.tab = DOMAIN d.tab
              /\ \A u \in DOMAIN d.tab : w.tab[u] = IF u = t THEN [T EXCEPT !.rows = R] ELSE d.tab[u]
            <4> DEFINE X == [T EXCEPT !.rows = R]
            <4> HIDE DEF X, t
            <4>1. w = [tab |-> w.tab, fks |-> d.fks, sys |-> d.sys] /\ DOMAIN w.tab = DOMAIN d.tab \cup {t}
                  /\ \A u \in DOMAIN w.tab : w.tab[u] = IF u = t THEN X ELSE d.tab[u]
                BY <2>0, WithTabs DEF X
            <4> QED BY <1>10, <4>1 DEF X
        <3>2. \A u \in DOMAIN d.tab : w.tab[u] \in {[d.tab[u] EXCEPT !.rows = R], d.tab[u]}
            BY <3>1
        <3> HIDE DEF w
        <3>3. e.tab = [u \in DOMAIN w.tab |-> [w.tab[u] EXCEPT !.rows = e.tab[u].rows]]
            BY <2>b, <3>1 DEF Cascade, w
        <3>4. ASSUME NEW u \in DOMAIN d.tab PROVE Becomes(s, d.tab[u], e.tab[u], u)
            <4>1. e.tab[u] = [w.tab[u] EXCEPT !.rows = e.tab[u].rows]
                BY <3>1, <3>3
            <4>2. \A X \in Table : \A Q : [X EXCEPT !.rows = Q].cols = X.cols /\ [X EXCEPT !.rows = Q].key = X.key
                    /\ [X EXCEPT !.rows = Q].trigger = X.trigger /\ [X EXCEPT !.rows = Q].time = X.time
                BY DEF Table
            <4>3. DOMAIN d.tab[u] = {"cols", "key", "uniq", "trigger", "time", "rows"}
                BY <1>2 DEF Table
            <4>4. /\ w.tab[u].cols = d.tab[u].cols /\ w.tab[u].key = d.tab[u].key
                  /\ w.tab[u].trigger = d.tab[u].trigger /\ w.tab[u].time = d.tab[u].time
                  /\ DOMAIN w.tab[u] = DOMAIN d.tab[u]
                BY <1>2, <3>2, <4>2, <4>3
            <4>5. /\ e.tab[u].cols = d.tab[u].cols /\ e.tab[u].key = d.tab[u].key
                  /\ e.tab[u].trigger = d.tab[u].trigger /\ e.tab[u].time = d.tab[u].time
                BY <4>1, <4>3, <4>4
            <4>6. d.tab[u].trigger \in BOOLEAN
                BY <1>2 DEF Table
            <4> QED BY <2>b, <4>5, <4>6 DEF Becomes, NewCols, NewKey, NewTime, Here
        <3> QED BY <1>10, <3>1, <3>3, <3>4
    <2>1. CASE s.sql = "CREATE TRIGGER"
        <3>1. e = With(d, t, [T EXCEPT !.trigger = TRUE])
            BY <1>10, <2>0, <2>1 DEF OnTable
        <3>2. Becomes(s, T, [T EXCEPT !.trigger = TRUE], t)
            BY <2>0, <2>1 DEF Table, Becomes, NewCols, NewKey, NewTime, Here
        <3> QED BY <1>9, <1>10, <3>1, <3>2
    <2>2. CASE s.sql = "ADD COLUMN"
        <3>1. e = With(d, t, [T EXCEPT !.cols = @ \cup {s.col}])
            BY <1>10, <2>0, <2>2 DEF OnTable
        <3>2. Becomes(s, T, [T EXCEPT !.cols = @ \cup {s.col}], t)
            BY <2>0, <2>2 DEF Table, Becomes, NewCols, NewKey, NewTime, Here
        <3> QED BY <1>9, <1>10, <3>1, <3>2
    <2>3. CASE s.sql = "DROP COLUMN"
        <3> DEFINE col == s.col
                   U == [T EXCEPT !.cols = @ \ {col}, !.key = IF @ = col THEN "none" ELSE @,
                                  !.uniq = @ /\ col # "v",
                                  !.rows = Blank(@, col)]
                   w == With(d, t, U)
        <3>1. e = DropCascade(d, t, col)
            BY <1>10, <2>0, <2>3 DEF OnTable
        <3>2. e.tab = w.tab
            <4> HIDE DEF U
            <4>1. w = [tab |-> w.tab, fks |-> d.fks, sys |-> d.sys]
                BY <2>0, WithTabs
            <4>2. e = [w EXCEPT !.fks = {f \in @ : ~(f.to = t /\ col = "id") /\ ~(f.from = t /\ col = "v")}]
                BY <3>1 DEF DropCascade, U
            <4> HIDE DEF w
            <4> QED BY <4>1, <4>2
        <3>3. Becomes(s, T, U, t)
            BY <2>0, <2>3 DEF Table, Becomes, NewCols, NewKey, NewTime, Here
        <3> HIDE DEF U
        <3>4. DOMAIN w.tab = DOMAIN d.tab /\ \A u \in DOMAIN w.tab : w.tab[u] = IF u = t THEN U ELSE d.tab[u]
            <4> HIDE DEF t
            <4>1. DOMAIN w.tab = DOMAIN d.tab \cup {t}
                  /\ \A u \in DOMAIN w.tab : w.tab[u] = IF u = t THEN U ELSE d.tab[u]
                BY <2>0, WithTabs
            <4> QED BY <1>10, <4>1
        <3> QED BY <1>4, <1>10, <3>2, <3>3, <3>4
    <2>4. CASE s.sql \in {"DROP KEY", "DROP KEY IF EXISTS"}
        <3>1. e = With(d, t, [T EXCEPT !.key = "none"])
            BY <1>10, <2>0, <2>4 DEF OnTable
        <3>2. Becomes(s, T, [T EXCEPT !.key = "none"], t)
            BY <2>0, <2>4 DEF Table, Becomes, NewCols, NewKey, NewTime, Here
        <3> QED BY <1>9, <1>10, <3>1, <3>2
    <2>5. CASE s.sql = "ADD KEY"
        <3>1. e = With(d, t, [T EXCEPT !.key = s.key, !.uniq = @ /\ ~s.promote])
            BY <1>10, <2>0, <2>5 DEF OnTable
        <3>2. Becomes(s, T, [T EXCEPT !.key = s.key, !.uniq = @ /\ ~s.promote], t)
            BY <2>0, <2>5 DEF Table, Becomes, NewCols, NewKey, NewTime, Here
        <3> QED BY <1>9, <1>10, <3>1, <3>2
    <2>6. CASE s.sql = "CREATE UNIQUE INDEX"
        <3>1. e = With(d, t, [T EXCEPT !.uniq = TRUE])
            BY <1>10, <2>0, <2>6 DEF OnTable
        <3>2. Becomes(s, T, [T EXCEPT !.uniq = TRUE], t)
            BY <2>0, <2>6 DEF Table, Becomes, NewCols, NewKey, NewTime, Here
        <3> QED BY <1>9, <1>10, <3>1, <3>2
    <2>7. CASE s.sql = "DROP INDEX"
        <3>1. e = With(d, t, [T EXCEPT !.uniq = FALSE])
            BY <1>10, <2>0, <2>7 DEF OnTable
        <3>2. Becomes(s, T, [T EXCEPT !.uniq = FALSE], t)
            BY <2>0, <2>7 DEF Table, Becomes, NewCols, NewKey, NewTime, Here
        <3> QED BY <1>9, <1>10, <3>1, <3>2
    <2>8. CASE s.sql = "DROP VIEW"
        <3>1. e = With(d, t, [T EXCEPT !.time = @ \ {"view", "refresh"}])
            BY <1>10, <2>0, <2>8 DEF OnTable
        <3>2. Becomes(s, T, [T EXCEPT !.time = @ \ {"view", "refresh"}], t)
            BY <2>0, <2>8 DEF Table, Becomes, NewCols, NewKey, NewTime, Here
        <3> QED BY <1>9, <1>10, <3>1, <3>2
    <2>9. CASE s.sql = "TIMESCALE"
        <3>1. e = With(d, t, [T EXCEPT !.time = (@ \ s.drops) \cup s.adds])
            BY <1>10, <2>0, <2>9 DEF OnTable
        <3>2. Becomes(s, T, [T EXCEPT !.time = (@ \ s.drops) \cup s.adds], t)
            BY <2>0, <2>9 DEF Table, Becomes, NewCols, NewKey, NewTime, Here
        <3> QED BY <1>9, <1>10, <3>1, <3>2
    <2>10. CASE s.sql \in {"ADD FOREIGN KEY", "DROP FOREIGN KEYS"}
        <3>1. e.tab = d.tab
            BY <1>3, <1>10, <2>0, <2>10 DEF OnTable
        <3>2. Becomes(s, T, T, t)
            BY <2>0, <2>10 DEF Table, Becomes, NewCols, NewKey, NewTime, Here
        <3> QED BY <1>4, <1>10, <2>10, <3>1, <3>2
    <2>11. CASE s.sql \in {"TRUNCATE", "INSERT", "UPDATE", "SET DELETED"}
        <3>1. \E R : e = With(d, t, [T EXCEPT !.rows = R])
            BY <1>10, <2>0, <2>11 DEF OnTable
        <3> QED BY <2>a, <2>11, <3>1
    <2>12. CASE s.sql \in {"DELETE", "DELETE ALL"}
        <3>1. \E R : e = Cascade(With(d, t, [T EXCEPT !.rows = R]), t)
            BY <1>10, <2>0, <2>12 DEF OnTable
        <3> QED BY <2>b, <2>12, <3>1
    <2> QED BY <1>10, <2>1, <2>2, <2>3, <2>4, <2>5, <2>6, <2>7, <2>8, <2>9, <2>10, <2>11, <2>12 DEF OnTables
<1>11. CASE s.sql = "CREATE TABLE" /\ t \in DOMAIN d.tab
    BY <1>1, <1>11 DEF Effects, OnTable
<1>12. CASE s.sql = "DROP TABLE"
    BY <1>1, <1>6, <1>12 DEF Effects, OnTable
<1>13. CASE s.sql = "DROP TABLE RESTRICT" /\ t \in DOMAIN d.tab
    BY <1>1, <1>6, <1>13 DEF Effects, OnTable
<1>14. CASE t \notin DOMAIN d.tab /\ s.sql \in OnTables \ {"CREATE TABLE", "DROP TABLE"}
    <2>1. e = d
        BY <1>1, <1>14 DEF Effects, OnTable, OnTables
    <2> QED BY <1>7, <1>14, <2>1
<1> QED BY <1>5, <1>8, <1>10, <1>11, <1>12, <1>13, <1>14 DEF OnTables

Holes == {"key", "trigger", "compress", "refresh"}

Hole(T, h) ==
    \/ h = "key" /\ T.key = "none"
    \/ h = "trigger" /\ ~T.trigger
    \/ h = "compress" /\ "compression" \in T.time /\ "compress" \notin T.time
    \/ h = "refresh" /\ "view" \in T.time /\ "refresh" \notin T.time

\* The operations that leave a hole behind when they succeed, and those that do when they fail.
Ops(h) == CASE h = "key" -> {"rollback", "create without key", "create bare", "drop key", "alter base"}
            [] h = "trigger" -> {"rollback", "create without trigger", "create bare"}
            [] h = "compress" -> {"remove compression"}
            [] h = "refresh" -> {"plain aggregate", "remove refresh"}

Errs(h) == CASE h = "key" -> {"set key"}
             [] h = "trigger" -> {"create table", "create without key"}
             [] h = "compress" -> {"compress"}
             [] h = "refresh" -> {"aggregate"}

\* The statements that make a hole in table t, and the steps that end without it.
Opens(s, t, h) ==
    \/ h = "key" /\ \/ Here(s, "CREATE TABLE", t) /\ s.key = "none"
                    \/ Here(s, "DROP COLUMN", t) /\ s.col \in Base
                    \/ Here(s, "DROP KEY", t) \/ Here(s, "DROP KEY IF EXISTS", t)
    \/ h = "trigger" /\ Here(s, "CREATE TABLE", t)
    \/ h = "compress" /\ Here(s, "TIMESCALE", t) /\ "compress" \notin s.adds
                      /\ ("compress" \in s.drops \/ "compression" \in s.adds)
    \/ h = "refresh" /\ Here(s, "TIMESCALE", t) /\ "refresh" \notin s.adds
                     /\ ("refresh" \in s.drops \/ "view" \in s.adds)

Fills(s, t, h) ==
    /\ ~s.soft
    /\ \/ h = "key" /\ Here(s, "ADD KEY", t)
       \/ h = "trigger" /\ Here(s, "CREATE TRIGGER", t)
       \/ h = "compress" /\ Here(s, "TIMESCALE", t) /\ "compress" \in s.adds
       \/ h = "refresh" /\ Here(s, "TIMESCALE", t) /\ "refresh" \in s.adds

Closes(x, t, h) ==
    \/ "sql" \in DOMAIN x /\ Fills(x, t, h)
    \/ /\ "do" \in DOMAIN x /\ h = "key" /\ x.do \in {"find key", "find index"}
       /\ x.tab = t /\ x.key \in Base

\* A statement leaves a hole only where it opens one or one was, and never the one it fills.
LEMMA SingleHole ==
    ASSUME NEW d, Database(d), NEW s, SingleOK(s), NEW e \in Single(d, s),
           NEW t \in DOMAIN e.tab, NEW h \in Holes, Hole(e.tab[t], h)
    PROVE  /\ Opens(s, t, h) \/ (t \in DOMAIN d.tab /\ Hole(d.tab[t], h))
           /\ ~Fills(s, t, h)
<1>1. /\ DOMAIN e.tab = IF s.sql = "CREATE TABLE" THEN DOMAIN d.tab \cup {s.tab}
                        ELSE IF s.sql \in {"DROP TABLE", "DROP TABLE RESTRICT"} THEN DOMAIN d.tab \ {s.tab}
                        ELSE DOMAIN d.tab
      /\ s.sql = "CREATE TABLE" => s.tab \notin DOMAIN d.tab /\ e.tab[s.tab] = NewTable(s.cols, s.key)
      /\ \A u \in DOMAIN d.tab \cap DOMAIN e.tab : Becomes(s, d.tab[u], e.tab[u], u)
    BY SingleShape
<1>2. CASE t \notin DOMAIN d.tab
    <2>1. s.sql = "CREATE TABLE" /\ s.tab = t /\ e.tab[t] = NewTable(s.cols, s.key)
        BY <1>1, <1>2
    <2>2. s.key \in Base \cup {"none"}
        BY <2>1 DEF SingleOK
    <2>3. e.tab[t].key = s.key /\ e.tab[t].time = {}
        <3>1. \A cols, key : NewTable(cols, key).key = key /\ NewTable(cols, key).time = {}
            BY DEF NewTable
        <3>2. PICK U : U = e.tab[t]
            OBVIOUS
        <3>3. PICK cols, key : cols = s.cols /\ key = s.key
            OBVIOUS
        <3>4. U = NewTable(cols, key)
            BY <2>1, <3>2, <3>3
        <3>5. U.key = key /\ U.time = {}
            BY <3>1, <3>4
        <3> QED BY <3>2, <3>3, <3>5
    <2>4. h = "key" \/ h = "trigger"
        BY <2>3 DEF Hole, Holes
    <2>5. h = "key" => s.key = "none"
        BY <2>3 DEF Hole
    <2> QED BY <2>1, <2>4, <2>5 DEF Opens, Fills, Here
<1>3. CASE t \in DOMAIN d.tab
    <2> DEFINE T == d.tab[t]  U == e.tab[t]
    <2>1. Becomes(s, T, U, t) /\ T \in Table /\ ~Here(s, "CREATE TABLE", t)
        BY <1>1, <1>3 DEF Database, Here
    <2> HIDE DEF T, U
    <2>2. CASE h = "key"
        <3>1. U.key = NewKey(s, T, t) /\ U.key = "none" /\ T.key \in Base \cup {"none"}
            BY <2>1, <2>2 DEF Becomes, Table, Hole, U
        <3>2. s.sql = "ADD KEY" => s.key # "none"
            BY DEF SingleOK, Base
        <3>3. T.key # "none" => Opens(s, t, h)
            BY <2>2, <3>1, <3>2 DEF NewKey, Opens, Here
        <3>4. ~Fills(s, t, h)
            BY <2>2, <3>1, <3>2 DEF NewKey, Fills, Here
        <3> QED BY <1>3, <2>2, <3>3, <3>4 DEF Hole, T
    <2>3. CASE h = "trigger"
        BY <1>3, <2>1, <2>3 DEF Becomes, Hole, U, T, Fills
    <2>4. CASE h = "compress" \/ h = "refresh"
        <3>1. U.time = NewTime(s, T, t) /\ T.time \subseteq Facts
            BY <2>1 DEF Becomes, Table
        <3>2. CASE h = "compress"
            <4>1. "compression" \in U.time /\ "compress" \notin U.time
                BY <3>2 DEF Hole, U
            <4>2. ~("compression" \in T.time /\ "compress" \notin T.time) => Opens(s, t, h)
                BY <3>1, <3>2, <4>1 DEF NewTime, Opens, Here
            <4>3. ~Fills(s, t, h)
                BY <3>1, <3>2, <4>1 DEF NewTime, Fills, Here
            <4> QED BY <1>3, <3>2, <4>2, <4>3 DEF Hole, T
        <3>3. CASE h = "refresh"
            <4>1. "view" \in U.time /\ "refresh" \notin U.time
                BY <3>3 DEF Hole, U
            <4>2. ~("view" \in T.time /\ "refresh" \notin T.time) => Opens(s, t, h)
                BY <3>1, <3>3, <4>1 DEF NewTime, Opens, Here
            <4>3. ~Fills(s, t, h)
                BY <3>1, <3>3, <4>1 DEF NewTime, Fills, Here
            <4> QED BY <1>3, <3>3, <4>2, <4>3 DEF Hole, T
        <3> QED BY <2>4, <3>2, <3>3
    <2> QED BY <2>2, <2>3, <2>4 DEF Holes
<1> QED BY <1>2, <1>3

\* Transactions that make no hole: of changes of records, or of the replacement of a policy.
RowSql == {"INSERT", "UPDATE", "DELETE"}

Harmless(body) ==
    \/ \A i \in DOMAIN body : body[i].sql \in RowSql
    \/ /\ Len(body) = 2 /\ body[1].sql = "TIMESCALE" /\ body[2].sql = "TIMESCALE"
       /\ body[1].tab = body[2].tab /\ ~body[1].soft /\ ~body[2].soft
       /\ body[1].adds = {} /\ body[2].drops = {} /\ body[1].drops = body[2].adds
       /\ body[2].adds \cap {"view", "compression"} = {}


SameTables(d, e) ==
    /\ DOMAIN e.tab = DOMAIN d.tab
    /\ \A t \in DOMAIN d.tab : /\ e.tab[t].cols = d.tab[t].cols /\ e.tab[t].key = d.tab[t].key
                               /\ e.tab[t].trigger = d.tab[t].trigger /\ e.tab[t].time = d.tab[t].time

\* The statements of a batch of records change nothing of a table but its rows.
LEMMA RowSqlKeeps ==
    ASSUME NEW d, Database(d), NEW s, SingleOK(s), s.sql \in RowSql, NEW e \in Single(d, s)
    PROVE  SameTables(d, e)
<1>1. DOMAIN e.tab = DOMAIN d.tab /\ \A t \in DOMAIN d.tab : Becomes(s, d.tab[t], e.tab[t], t)
    BY SingleShape DEF RowSql
<1>2. \A t \in DOMAIN d.tab : d.tab[t] \in Table
    BY DEF Database
<1> QED BY <1>1, <1>2 DEF Becomes, NewCols, NewKey, NewTime, Here, RowSql, Table, SameTables

\* So does a transaction of them.
LEMMA RowBodyKeeps ==
    ASSUME NEW d, Database(d), NEW s, StatementOK(s), s.sql = "TRANSACTION",
           \A i \in DOMAIN s.body : s.body[i].sql \in RowSql, NEW e \in After(d, s)
    PROVE  SameTables(d, e)
<1>1. IsSeq(s.body) /\ DOMAIN s.body = 1 .. Len(s.body) /\ \A i \in DOMAIN s.body : SingleOK(s.body[i])
    BY SeqParts DEF StatementOK
<1>2. Len(s.body) \in Nat
    BY <1>1, SeqParts
<1>3. PICK run : /\ After(d, s) = run[Len(s.body)] /\ run[0] = {d}
                 /\ \A n \in 1 .. Len(s.body) : run[n] = RunStep(s, run[n - 1], n)
    BY <1>1, RunOf
<1> DEFINE N == Len(s.body)  C == {n \in 0 .. N : ~\A f \in run[n] : Database(f) /\ SameTables(d, f)}
<1> HIDE DEF N
<1>4. C = {}
    <2>1. SUFFICES ASSUME C # {} PROVE FALSE
        OBVIOUS
    <2>2. C \subseteq Nat
        BY <1>2 DEF N
    <2>3. PICK m \in C : \A k \in C : m <= k
        BY <2>1, <2>2, NatLeast
    <2>4. m # 0
        BY <1>3, <2>3 DEF SameTables
    <2>5. m - 1 \in 0 .. N /\ m \in 1 .. N /\ m - 1 \notin C
        <3>1. m \in Nat /\ m \in 0 .. N
            BY <2>2, <2>3
        <3>2. m - 1 \in 0 .. N /\ m \in 1 .. N /\ ~(m <= m - 1)
            BY <1>2, <2>4, <3>1 DEF N
        <3> HIDE DEF C
        <3> QED BY <2>3, <3>2
    <2>6. run[m] = RunStep(s, run[m - 1], m) /\ \A f \in run[m - 1] : Database(f) /\ SameTables(d, f)
        BY <1>3, <2>5 DEF N
    <2>7. SingleOK(s.body[m]) /\ s.body[m].sql \in RowSql
        BY <1>1, <2>5 DEF N
    <2>8. \A f \in run[m - 1] : \A g \in Single(f, s.body[m]) : Database(g) /\ SameTables(f, g)
        BY <2>6, <2>7, SingleKeeps, RowSqlKeeps
    <2>9. \A f, g : SameTables(d, f) /\ SameTables(f, g) => SameTables(d, g)
        BY DEF SameTables
    <2>10. \A f \in run[m] : Database(f) /\ SameTables(d, f)
        BY <2>6, <2>8, <2>9 DEF RunStep
    <2> QED BY <2>3, <2>10
<1>5. N \in 0 .. N
    BY <1>2 DEF N
<1>6. \A f \in run[N] : SameTables(d, f)
    BY <1>4, <1>5
<1> QED BY <1>3, <1>6 DEF N

\* A statement leaves a hole only where it opens one or one was; a harmless transaction opens
\* none.
LEMMA AfterHole ==
    ASSUME NEW d, Database(d), NEW s, StatementOK(s), NEW e \in After(d, s),
           s.sql = "TRANSACTION" => Harmless(s.body),
           NEW t \in DOMAIN e.tab, NEW h \in Holes, Hole(e.tab[t], h)
    PROVE  /\ \/ s.sql # "TRANSACTION" /\ Opens(s, t, h)
              \/ t \in DOMAIN d.tab /\ Hole(d.tab[t], h)
           /\ ~Fills(s, t, h)
<1>1. CASE s.sql # "TRANSACTION"
    BY <1>1, SingleHole DEF StatementOK, After
<1>2. CASE s.sql = "TRANSACTION" /\ \A i \in DOMAIN s.body : s.body[i].sql \in RowSql
    <2>1. SameTables(d, e)
        BY <1>2, RowBodyKeeps
    <2>2. ~Fills(s, t, h)
        BY <1>2 DEF Fills, Here
    <2> QED BY <2>1, <2>2 DEF SameTables, Hole
<1>3. CASE s.sql = "TRANSACTION" /\ ~\A i \in DOMAIN s.body : s.body[i].sql \in RowSql
    <2> DEFINE a == s.body[1]  b == s.body[2]
    <2>1. /\ Len(s.body) = 2 /\ a.sql = "TIMESCALE" /\ b.sql = "TIMESCALE" /\ a.tab = b.tab /\ ~a.soft /\ ~b.soft
          /\ a.adds = {} /\ b.drops = {} /\ a.drops = b.adds /\ b.adds \cap {"view", "compression"} = {}
        BY <1>3 DEF Harmless
    <2>2. IsSeq(s.body) /\ DOMAIN s.body = 1 .. Len(s.body) /\ \A i \in DOMAIN s.body : SingleOK(s.body[i])
        BY <1>3, SeqParts DEF StatementOK
    <2>3. SingleOK(a) /\ SingleOK(b)
        BY <2>1, <2>2
    <2>4. PICK run : /\ After(d, s) = run[Len(s.body)] /\ run[0] = {d}
                     /\ \A n \in 1 .. Len(s.body) : run[n] = RunStep(s, run[n - 1], n)
        <3>1. s.sql = "TRANSACTION" /\ IsSeq(s.body)
            BY <1>3, <2>2
        <3> HIDE DEF a, b
        <3> QED BY <3>1, RunOf
    <2>5. run[1] = RunStep(s, run[0], 1) /\ run[2] = RunStep(s, run[1], 2) /\ e \in run[2]
        BY <2>1, <2>4
    <2>6. PICK f : f \in Single(d, a) /\ e \in Single(f, b)
        BY <2>1, <2>4, <2>5 DEF RunStep
    <2>7. Database(f)
        BY <2>3, <2>6, SingleKeeps
    <2>8. /\ DOMAIN f.tab = DOMAIN d.tab /\ DOMAIN e.tab = DOMAIN f.tab
          /\ \A u \in DOMAIN d.tab : Becomes(a, d.tab[u], f.tab[u], u) /\ Becomes(b, f.tab[u], e.tab[u], u)
        <3> HIDE DEF a, b
        <3>1. DOMAIN f.tab = DOMAIN d.tab /\ \A u \in DOMAIN d.tab : Becomes(a, d.tab[u], f.tab[u], u)
            BY <2>1, <2>3, <2>6, SingleShape
        <3>2. DOMAIN e.tab = DOMAIN f.tab /\ \A u \in DOMAIN f.tab : Becomes(b, f.tab[u], e.tab[u], u)
            BY <2>1, <2>3, <2>6, <2>7, SingleShape
        <3> QED BY <3>1, <3>2
    <2> DEFINE T == d.tab[t]  F == f.tab[t]  U == e.tab[t]
    <2>9. t \in DOMAIN d.tab /\ Becomes(a, T, F, t) /\ Becomes(b, F, U, t) /\ T \in Table
        BY <2>8 DEF Database
    <2> HIDE DEF a, b, T, F, U
    <2>10. U.key = T.key
        BY <2>1, <2>9 DEF Becomes, NewKey, Here
    <2>11. U.trigger = T.trigger
        BY <2>1, <2>9 DEF Becomes, Here, Table
    <2>12. U.time = T.time \/ (U.time = (T.time \ b.adds) \cup b.adds)
        <3>1. CASE a.tab = t
            <4>1. F.time = (T.time \ a.drops) \cup a.adds
                BY <2>1, <2>9, <3>1 DEF Becomes, NewTime, Here
            <4>2. U.time = (F.time \ b.drops) \cup b.adds
                BY <2>1, <2>9, <3>1 DEF Becomes, NewTime, Here
            <4> QED BY <2>1, <4>1, <4>2
        <3>2. CASE a.tab # t
            BY <2>1, <2>9, <3>2 DEF Becomes, NewTime, Here
        <3> QED BY <3>1, <3>2
    <2>13. Hole(T, h)
        <3>1. Hole(U, h)
            BY DEF U
        <3>2. b.adds \cap {"view", "compression"} = {}
            BY <2>1
        <3> QED BY <2>10, <2>11, <2>12, <3>1, <3>2 DEF Hole
    <2>14. ~Fills(s, t, h)
        BY <1>3 DEF Fills, Here
    <2> QED BY <2>9, <2>13, <2>14 DEF T
<1> QED BY <1>1, <1>2, <1>3

----------------------------------------------------------------------------
(***************************************************************************)
(* The inductive invariant of TableWholeExplained: a hole is explained by  *)
(* an answer given about its table, or by a request that works on it and   *)
(* either leaves such a hole by its operation, or has what fills it still  *)
(* to do.                                                                  *)
(***************************************************************************)
Suits(op, tab, x) ==
    /\ "sql" \in DOMAIN x =>
        /\ x.sql = "TRANSACTION" => op = "restore" \/ Harmless(x.body)
        /\ \A t \in Tables, h \in Holes :
            Opens(x, t, h) => (op = "rollback" \/ tab = t) /\ op \in Ops(h) \cup Errs(h)
    /\ "do" \in DOMAIN x =>
        /\ "sql" \notin DOMAIN x
        /\ x.do = "find key" => x.tab = tab /\ op = IF x.key = "none" THEN "drop key" ELSE "set key"
        /\ x.do = "find index" => x.tab = tab /\ op = "set key"
        /\ x.do = "plan rollback" => op = "rollback"
        /\ x.do = "end" => op \in Exports
        /\ x.do = "existing tables" <=> op = "restore"
        /\ x.do = "insert version" => op = "capture"

\* What opens a hole is followed by what fills it.
Owed(q, t, h) ==
    \A i \in DOMAIN q : "sql" \in DOMAIN q[i] /\ Opens(q[i], t, h) =>
        \E k \in DOMAIN q : k > i /\ Closes(q[k], t, h)

Closing(q, t, h) == \E x \in ToSet(q) : Closes(x, t, h)

SuitSteps(op, tab, q) ==
    /\ \A x \in ToSet(q) : Suits(op, tab, x)
    /\ \A h \in Holes : op \in Errs(h) => Owed(q, tab, h)
    /\ op = "restore" => q = <<>> \/ Tail(q) = <<>>

Held(job, q, t, h) ==
    Works(job, t) /\ (job.op \in Ops(h) \/ (job.op \in Errs(h) /\ Closing(q, t, h)))

Told(t, h) == \E x \in told[t] :
    x[1] \in Ops(h) \/ x = <<"restore", "ok">> \/ (x[1] \in Errs(h) /\ x[2] = "error")

Explained(t, h) == Told(t, h) \/ \E k \in Jobs : jobs[k] # NoJob /\ Held(jobs[k], jobs[k].todo, t, h)

TableInv ==
    /\ \A k \in Jobs : jobs[k] # NoJob => SuitSteps(jobs[k].op, jobs[k].tab, jobs[k].todo)
    /\ \A t \in DOMAIN db.tab : \A h \in Holes : Hole(db.tab[t], h) => Explained(t, h)

\* A step of request j changes what the other requests have met, and nothing else of them.
LEMMA OthersAre ==
    ASSUME NEW n, Typed(n), NEW j \in Jobs, jobs[j] # NoJob, NEW next, NEW e, NEW kinds,
           Become(j, next, e, kinds)
    PROVE  /\ db' = e /\ jobs'[j] = next
           /\ \A k \in Jobs \ {j} :
                /\ jobs[k] = NoJob => jobs'[k] = NoJob
                /\ jobs[k] # NoJob =>
                    /\ jobs'[k] # NoJob
                    /\ jobs'[k] = [op |-> jobs[k].op, tab |-> jobs[k].tab, todo |-> jobs[k].todo,
                                   seen |-> jobs[k].seen, met |-> jobs[k].met \cup kinds \cup Changed(db, e)]
<1>1. db' = e /\ jobs'[j] = next
      /\ \A k \in Jobs \ {j} : jobs'[k] = IF jobs[k] = NoJob THEN NoJob
                                          ELSE [jobs[k] EXCEPT !.met = @ \cup kinds \cup Changed(db, e)]
    <2> DEFINE F(k) == CASE k = j -> next
                         [] jobs[k] = NoJob -> NoJob
                         [] OTHER -> [jobs[k] EXCEPT !.met = @ \cup kinds \cup Changed(db, e)]
    <2>a. jobs' = [k \in Jobs |-> F(k)]
        BY DEF Become
    <2>b. F(j) = next
        OBVIOUS
    <2> HIDE DEF F
    <2>0. jobs'[j] = next
        BY <2>a, <2>b
    <2>1. db' = e /\ jobs'[j] = next
        <3>1. db' = e
            BY DEF Become
        <3>2. jobs'[j] = next
            BY <2>0
        <3> QED BY <3>1, <3>2
    <2>2. ASSUME NEW k \in Jobs \ {j}
          PROVE  jobs'[k] = IF jobs[k] = NoJob THEN NoJob
                            ELSE [jobs[k] EXCEPT !.met = @ \cup kinds \cup Changed(db, e)]
        <3>1. CASE jobs[k] = NoJob
            BY <3>1 DEF Become
        <3>2. CASE jobs[k] # NoJob
            BY <3>2 DEF Become
        <3> QED BY <3>1, <3>2
    <2> QED BY <2>1, <2>2
<1>2. ASSUME NEW k \in Jobs \ {j}, jobs[k] # NoJob
      PROVE  /\ jobs'[k] # NoJob
             /\ jobs'[k] = [op |-> jobs[k].op, tab |-> jobs[k].tab, todo |-> jobs[k].todo,
                            seen |-> jobs[k].seen, met |-> jobs[k].met \cup kinds \cup Changed(db, e)]
    <2>1. JobOK(jobs[k], n)
        BY <1>2 DEF Typed
    <2>2. jobs[k] = [op |-> jobs[k].op, tab |-> jobs[k].tab, todo |-> jobs[k].todo,
                     seen |-> jobs[k].seen, met |-> jobs[k].met] /\ jobs[k].todo # <<>>
        BY <2>1 DEF JobOK
    <2>3. jobs'[k] = [jobs[k] EXCEPT !.met = @ \cup kinds \cup Changed(db, e)]
        BY <1>1, <1>2
    <2>4. jobs'[k] = [op |-> jobs[k].op, tab |-> jobs[k].tab, todo |-> jobs[k].todo,
                      seen |-> jobs[k].seen, met |-> jobs[k].met \cup kinds \cup Changed(db, e)]
        BY <2>2, <2>3
    <2>5. jobs'[k].todo # <<>>
        BY <2>2, <2>4
    <2> QED BY <2>4, <2>5 DEF NoJob
<1> QED BY <1>1, <1>2

\* Answers are added to those of the tables that are there, under the operation that was
\* answered.
LEMMA TellIs ==
    ASSUME NEW e, DOMAIN e.tab \subseteq Tables, NEW said, Tell(e, said), NEW t \in DOMAIN e.tab
    PROVE  /\ told[t] \subseteq told'[t]
           /\ \A x \in said : Works(x[1], t) => <<x[1].op, x[2]>> \in told'[t]
BY DEF Tell

\* What explains a hole is a request's operation, its table and what it has left to do.
LEMMA HeldSame ==
    ASSUME NEW a, NEW b, b.op = a.op, b.tab = a.tab, NEW q, NEW t, NEW h, Held(a, q, t, h)
    PROVE  Held(b, q, t, h)
BY DEF Held, Works

\* A step that goes on, or answers success, keeps the invariant when each hole after it was
\* there before, or is explained by what is left to do, or by a restore that is done; and
\* when it explains no hole less.
LEMMA GoHole ==
    ASSUME NEW n, Typed(n), TableInv, NEW j \in Jobs, jobs[j] # NoJob,
           NEW todo, NEW seen, NEW e, DOMAIN e.tab \subseteq Tables, NEW kinds, Go(j, todo, seen, e, kinds),
           SuitSteps(jobs[j].op, jobs[j].tab, todo),
           \A t \in DOMAIN e.tab : \A h \in Holes : Hole(e.tab[t], h) =>
                /\ \/ jobs[j].op = "restore" /\ todo = <<>>
                   \/ Held(jobs[j], todo, t, h)
                   \/ t \in DOMAIN db.tab /\ Hole(db.tab[t], h)
                /\ Held(jobs[j], jobs[j].todo, t, h) => Held(jobs[j], todo, t, h)
    PROVE  TableInv'
<1> DEFINE J == jobs[j]
<1>1. PICK next, said :
        /\ Become(j, next, e, kinds) /\ Tell(e, said)
        /\ \/ todo = <<>> /\ next = NoJob /\ said = {<<J, "ok">>}
           \/ todo # <<>> /\ next = [J EXCEPT !.todo = todo, !.seen = seen] /\ said = {}
    BY DEF Go, End
<1>2. JobOK(J, n)
    BY DEF Typed
<1>3. todo # <<>> => next # NoJob /\ next.op = J.op /\ next.tab = J.tab /\ next.todo = todo
    <2>1. J = [op |-> J.op, tab |-> J.tab, todo |-> J.todo, seen |-> J.seen, met |-> J.met]
        BY <1>2 DEF JobOK
    <2> HIDE DEF J
    <2> DEFINE a == [J EXCEPT !.todo = todo]
    <2>2. a = [op |-> J.op, tab |-> J.tab, todo |-> todo, seen |-> J.seen, met |-> J.met]
        BY <2>1
    <2>3. todo # <<>> => next = [a EXCEPT !.seen = seen]
        BY <1>1
    <2> HIDE DEF a
    <2> QED BY <2>2, <2>3 DEF NoJob
<1>4. /\ db' = e /\ jobs'[j] = next
      /\ \A k \in Jobs \ {j} :
            /\ jobs[k] = NoJob => jobs'[k] = NoJob
            /\ jobs[k] # NoJob => /\ jobs'[k] # NoJob /\ jobs'[k].op = jobs[k].op /\ jobs'[k].tab = jobs[k].tab
                                  /\ jobs'[k].todo = jobs[k].todo
    <2>1. Become(j, next, e, kinds)
        BY <1>1
    <2>2. db' = e /\ jobs'[j] = next /\ \A k \in Jobs \ {j} : jobs[k] = NoJob => jobs'[k] = NoJob
        BY <2>1, OthersAre
    <2>3. ASSUME NEW k \in Jobs \ {j}, jobs[k] # NoJob
          PROVE  /\ jobs'[k] # NoJob /\ jobs'[k].op = jobs[k].op /\ jobs'[k].tab = jobs[k].tab
                 /\ jobs'[k].todo = jobs[k].todo
        <3>0. /\ jobs'[k] # NoJob
              /\ jobs'[k] = [op |-> jobs[k].op, tab |-> jobs[k].tab, todo |-> jobs[k].todo,
                             seen |-> jobs[k].seen, met |-> jobs[k].met \cup kinds \cup Changed(db, e)]
            <4> HIDE DEF J
            <4> QED BY <2>1, <2>3, OthersAre
        <3>1. PICK m : jobs'[k] = [op |-> jobs[k].op, tab |-> jobs[k].tab, todo |-> jobs[k].todo,
                                   seen |-> jobs[k].seen, met |-> m] /\ jobs'[k] # NoJob
            BY <3>0
        <3> QED BY <3>1
    <2> QED BY <2>2, <2>3
<1>5. ASSUME NEW k \in Jobs, jobs'[k] # NoJob PROVE SuitSteps(jobs'[k].op, jobs'[k].tab, jobs'[k].todo)
    <2>1. CASE k = j
        <3>1. todo # <<>>
            BY <1>1, <1>4, <1>5, <2>1
        <3> QED BY <1>3, <1>4, <2>1, <3>1
    <2>2. CASE k # j
        BY <1>4, <1>5, <2>2 DEF TableInv
    <2> QED BY <2>1, <2>2
<1>6. ASSUME NEW t \in DOMAIN e.tab, NEW h \in Holes, Hole(e.tab[t], h) PROVE Explained(t, h)'
    <2>1. told[t] \subseteq told'[t] /\ \A x \in said : Works(x[1], t) => <<x[1].op, x[2]>> \in told'[t]
        BY <1>1, TellIs
    <2>2. ASSUME Held(J, todo, t, h) PROVE Explained(t, h)'
        <3>1. CASE todo = <<>>
            <4>1. ~Closing(todo, t, h)
                BY <3>1, MembersFew DEF Closing
            <4>2. J.op \in Ops(h) /\ Works(J, t)
                BY <2>2, <4>1 DEF Held
            <4>3. <<J, "ok">> \in said
                BY <1>1, <3>1
            <4>4. <<J.op, "ok">> \in told'[t]
                <5> HIDE DEF J
                <5> QED BY <2>1, <4>2, <4>3
            <4> QED BY <4>2, <4>4 DEF Explained, Told
        <3>2. CASE todo # <<>>
            <4>1. Held(next, next.todo, t, h)
                BY <1>3, <2>2, <3>2, HeldSame
            <4>2. jobs'[j] # NoJob /\ Held(jobs'[j], jobs'[j].todo, t, h)
                BY <1>3, <1>4, <3>2, <4>1
            <4> QED BY <4>2 DEF Explained
        <3> QED BY <3>1, <3>2
    <2>3. CASE J.op = "restore" /\ todo = <<>>
        <3>1. <<J, "ok">> \in said /\ Works(J, t)
            BY <1>1, <2>3 DEF Works, WholeSchema
        <3>2. <<J.op, "ok">> \in told'[t]
            <4> HIDE DEF J
            <4> QED BY <2>1, <3>1
        <3> QED BY <2>3, <3>2 DEF Explained, Told
    <2>4. CASE t \in DOMAIN db.tab /\ Hole(db.tab[t], h)
        <3>1. Explained(t, h)
            BY <2>4 DEF TableInv
        <3>2. CASE Told(t, h)
            BY <2>1, <3>2 DEF Explained, Told
        <3>3. ASSUME NEW k \in Jobs, jobs[k] # NoJob, Held(jobs[k], jobs[k].todo, t, h) PROVE Explained(t, h)'
            <4>1. CASE k = j
                <5>1. Held(J, todo, t, h)
                    BY <1>6, <3>3, <4>1
                <5> QED BY <2>2, <5>1
            <4>2. CASE k # j
                <5>1. Held(jobs'[k], jobs[k].todo, t, h)
                    BY <1>4, <3>3, <4>2, HeldSame
                <5>2. jobs'[k] # NoJob /\ Held(jobs'[k], jobs'[k].todo, t, h)
                    BY <1>4, <3>3, <4>2, <5>1
                <5> QED BY <5>2 DEF Explained
            <4> QED BY <4>1, <4>2
        <3> QED BY <3>1, <3>2, <3>3 DEF Explained
    <2> QED BY <1>6, <2>2, <2>3, <2>4
<1> QED BY <1>4, <1>5, <1>6 DEF TableInv

\* A request that ends with an error keeps the invariant: its answer explains the holes that
\* it held.
LEMMA RefuseHole ==
    ASSUME NEW n, Typed(n), TableInv, NEW j \in Jobs, jobs[j] # NoJob, End(j, "error", db, {})
    PROVE  TableInv'
<1> DEFINE J == jobs[j]
<1>1. Become(j, NoJob, db, {}) /\ Tell(db, {<<J, "error">>})
    BY DEF End
<1>2. DOMAIN db.tab \subseteq Tables
    BY DEF Typed, Database
<1>3. /\ db' = db /\ jobs'[j] = NoJob
      /\ \A k \in Jobs \ {j} : jobs[k] = NoJob => jobs'[k] = NoJob
    BY <1>1, OthersAre
<1>4. ASSUME NEW k \in Jobs \ {j}, jobs[k] # NoJob
      PROVE  /\ jobs'[k] # NoJob /\ jobs'[k].op = jobs[k].op /\ jobs'[k].tab = jobs[k].tab
             /\ jobs'[k].todo = jobs[k].todo
    <2>1. /\ jobs'[k] # NoJob
          /\ jobs'[k] = [op |-> jobs[k].op, tab |-> jobs[k].tab, todo |-> jobs[k].todo,
                         seen |-> jobs[k].seen, met |-> jobs[k].met \cup {} \cup Changed(db, db)]
        <3> HIDE DEF J
        <3> QED BY <1>1, <1>4, OthersAre
    <2>2. PICK m : jobs'[k] = [op |-> jobs[k].op, tab |-> jobs[k].tab, todo |-> jobs[k].todo,
                               seen |-> jobs[k].seen, met |-> m] /\ jobs'[k] # NoJob
        BY <2>1
    <2> QED BY <2>2
<1>5. ASSUME NEW k \in Jobs, jobs'[k] # NoJob PROVE SuitSteps(jobs'[k].op, jobs'[k].tab, jobs'[k].todo)
    BY <1>3, <1>4, <1>5 DEF TableInv
<1>6. ASSUME NEW t \in DOMAIN db.tab, NEW h \in Holes, Hole(db.tab[t], h) PROVE Explained(t, h)'
    <2>1. told[t] \subseteq told'[t] /\ (Works(J, t) => <<J.op, "error">> \in told'[t])
        <3>1. PICK x : x = <<J, "error">>
            OBVIOUS
        <3>2. Tell(db, {x}) /\ x[1] = J /\ x[2] = "error"
            BY <1>1, <3>1
        <3> HIDE DEF J
        <3>3. told[t] \subseteq told'[t] /\ \A y \in {x} : Works(y[1], t) => <<y[1].op, y[2]>> \in told'[t]
            BY <1>2, <3>2, TellIs
        <3> QED BY <3>2, <3>3
    <2>2. Explained(t, h)
        BY <1>6 DEF TableInv
    <2>3. CASE Told(t, h)
        BY <2>1, <2>3 DEF Explained, Told
    <2>4. ASSUME NEW k \in Jobs, jobs[k] # NoJob, Held(jobs[k], jobs[k].todo, t, h) PROVE Explained(t, h)'
        <3>1. CASE k = j
            BY <2>1, <2>4, <3>1 DEF Held, Explained, Told
        <3>2. CASE k # j
            <4>1. Held(jobs'[k], jobs[k].todo, t, h)
                BY <1>4, <2>4, <3>2, HeldSame
            <4>2. jobs'[k] # NoJob /\ Held(jobs'[k], jobs'[k].todo, t, h)
                BY <1>4, <2>4, <3>2, <4>1
            <4> QED BY <4>2 DEF Explained
        <3> QED BY <3>1, <3>2
    <2> QED BY <2>2, <2>3, <2>4 DEF Explained
<1> QED BY <1>3, <1>5, <1>6 DEF TableInv

\* What is left of steps that suit an operation suits it, and so does the first of them.
LEMMA SuitTail ==
    ASSUME NEW op, NEW tab, NEW q, IsSeq(q), q # <<>>, SuitSteps(op, tab, q)
    PROVE  SuitSteps(op, tab, Tail(q)) /\ Suits(op, tab, Head(q))
<1> DEFINE r == Tail(q)
<1>1. /\ Len(q) \in Nat /\ DOMAIN q = 1 .. Len(q) /\ Head(q) = q[1] /\ DOMAIN r = 1 .. Len(q) - 1
      /\ \A i \in 1 .. Len(q) - 1 : r[i] = q[i + 1]
    BY TailOf
<1>2. ToSet(q) = {Head(q)} \cup ToSet(r)
    BY MembersTail
<1> HIDE DEF r
<1>3. \A x \in ToSet(r) : Suits(op, tab, x)
    BY <1>2 DEF SuitSteps
<1>4. Suits(op, tab, Head(q))
    BY <1>2 DEF SuitSteps
<1>5. ASSUME NEW h \in Holes, op \in Errs(h) PROVE Owed(r, tab, h)
    <2>1. Owed(q, tab, h)
        BY <1>5 DEF SuitSteps
    <2>2. ASSUME NEW i \in DOMAIN r, "sql" \in DOMAIN r[i] /\ Opens(r[i], tab, h)
          PROVE  \E k \in DOMAIN r : k > i /\ Closes(r[k], tab, h)
        <3>1. i \in Nat /\ i + 1 \in DOMAIN q /\ q[i + 1] = r[i]
            BY <1>1, <2>2
        <3>2. PICK k \in DOMAIN q : k > i + 1 /\ Closes(q[k], tab, h)
            BY <2>1, <2>2, <3>1 DEF Owed
        <3>3. k - 1 \in DOMAIN r /\ r[k - 1] = q[k] /\ k - 1 > i
            BY <1>1, <3>1, <3>2
        <3> QED BY <3>2, <3>3
    <2> QED BY <2>2 DEF Owed
<1>6. op = "restore" => r = <<>> \/ Tail(r) = <<>>
    BY DEF SuitSteps, r
<1>7. SuitSteps(op, tab, r)
    BY <1>3, <1>5, <1>6 DEF SuitSteps
<1> QED BY <1>4, <1>7 DEF r

\* Steps that suit an operation, put together, suit it.
LEMMA SuitCat ==
    ASSUME NEW op, NEW tab, NEW a, NEW b, IsSeq(a), IsSeq(b), SuitSteps(op, tab, a), SuitSteps(op, tab, b),
           op = "restore" => b = <<>>
    PROVE  SuitSteps(op, tab, a \o b)
<1> DEFINE q == a \o b
<1>1. /\ Len(a) \in Nat /\ Len(b) \in Nat /\ DOMAIN a = 1 .. Len(a) /\ DOMAIN b = 1 .. Len(b)
      /\ DOMAIN q = 1 .. Len(a) + Len(b)
      /\ \A i \in 1 .. Len(a) + Len(b) : q[i] = IF i <= Len(a) THEN a[i] ELSE b[i - Len(a)]
    BY CatOf, SeqParts
<1>2. ToSet(q) = ToSet(a) \cup ToSet(b)
    BY MembersCat
<1>3. op = "restore" => q = a
    <2>1. CASE op = "restore"
        <3>1. b = <<>> /\ Len(b) = 0
            BY <2>1, SeqParts
        <3>2. IsSeq(q) /\ Len(q) = Len(a) /\ \A i \in 1 .. Len(a) : q[i] = a[i]
            BY <1>1, <3>1, CatOf
        <3>3. q = [i \in 1 .. Len(a) |-> q[i]] /\ a = [i \in 1 .. Len(a) |-> a[i]]
            <4> HIDE DEF q
            <4> QED BY <3>2, SeqParts
        <3> HIDE DEF q
        <3> QED BY <3>2, <3>3
    <2> QED BY <2>1
<1> HIDE DEF q
<1>4. \A x \in ToSet(q) : Suits(op, tab, x)
    BY <1>2 DEF SuitSteps
<1>5. ASSUME NEW h \in Holes, op \in Errs(h), NEW i \in DOMAIN q, "sql" \in DOMAIN q[i] /\ Opens(q[i], tab, h)
      PROVE  \E k \in DOMAIN q : k > i /\ Closes(q[k], tab, h)
    <2>1. Owed(a, tab, h) /\ Owed(b, tab, h)
        BY <1>5 DEF SuitSteps
    <2>2. CASE i <= Len(a)
        <3>1. i \in DOMAIN a /\ q[i] = a[i]
            BY <1>1, <1>5, <2>2
        <3>2. PICK k \in DOMAIN a : k > i /\ Closes(a[k], tab, h)
            BY <1>5, <2>1, <3>1 DEF Owed
        <3>3. k \in DOMAIN q /\ q[k] = a[k]
            BY <1>1, <3>2
        <3> QED BY <3>2, <3>3
    <2>3. CASE i > Len(a)
        <3>1. i - Len(a) \in DOMAIN b /\ q[i] = b[i - Len(a)] /\ i \in Nat
            BY <1>1, <1>5, <2>3
        <3>2. PICK k \in DOMAIN b : k > i - Len(a) /\ Closes(b[k], tab, h)
            BY <1>5, <2>1, <3>1 DEF Owed
        <3>3. k + Len(a) \in DOMAIN q /\ q[k + Len(a)] = b[k] /\ k + Len(a) > i
            BY <1>1, <3>1, <3>2
        <3> QED BY <3>2, <3>3
    <2> QED BY <1>1, <1>5, <2>2, <2>3
<1>6. op = "restore" => q = <<>> \/ Tail(q) = <<>>
    BY <1>3 DEF SuitSteps
<1>7. SuitSteps(op, tab, q)
    BY <1>4, <1>5, <1>6 DEF SuitSteps, Owed
<1> QED BY <1>7 DEF q

\* A read keeps the invariant when the steps it lets follow suit, and fill what it would have
\* filled.
LEMMA LearnHole ==
    ASSUME NEW n, Typed(n), TableInv, NEW j \in Jobs, jobs[j] # NoJob, NEW more, IsSeq(more), NEW seen,
           NEW kinds, Go(j, more \o Tail(jobs[j].todo), seen, db, kinds), SuitSteps(jobs[j].op, jobs[j].tab, more),
           \A t \in Tables, h \in Holes : Closes(Head(jobs[j].todo), t, h) => Closing(more, t, h)
    PROVE  TableInv'
<1> DEFINE J == jobs[j]  q == J.todo  r == Tail(q)
<1>1. IsSeq(q) /\ q # <<>> /\ DOMAIN db.tab \subseteq Tables
    BY DEF Typed, JobOK, Fine, Database
<1>2. SuitSteps(J.op, J.tab, q)
    BY DEF TableInv
<1>3. SuitSteps(J.op, J.tab, r) /\ IsSeq(r) /\ ToSet(q) = {Head(q)} \cup ToSet(r) /\ (J.op = "restore" => r = <<>>)
    <2> HIDE DEF J
    <2> QED BY <1>1, <1>2, SuitTail, TailOf, MembersTail DEF SuitSteps
<1>4. SuitSteps(J.op, J.tab, more \o r) /\ ToSet(more \o r) = ToSet(more) \cup ToSet(r)
    <2> HIDE DEF r
    <2> QED BY <1>3, SuitCat, MembersCat
<1>5. ASSUME NEW t \in DOMAIN db.tab, NEW h \in Holes, Held(J, q, t, h) PROVE Held(J, more \o r, t, h)
    BY <1>1, <1>3, <1>4, <1>5 DEF Held, Closing
<1> QED BY <1>1, <1>4, <1>5, GoHole

\* No steps suit every operation.
LEMMA NoSuit == ASSUME NEW op, NEW tab PROVE SuitSteps(op, tab, <<>>)
<1>1. ToSet(<<>>) = {} /\ DOMAIN <<>> = {}
    BY MembersFew, NoSteps
<1> QED BY <1>1 DEF SuitSteps, Owed

\* So does a step that is passed over and fills nothing.
LEMMA PassHole ==
    ASSUME NEW n, Typed(n), TableInv, NEW j \in Jobs, jobs[j] # NoJob, NEW seen,
           NEW kinds, Go(j, Tail(jobs[j].todo), seen, db, kinds),
           \A t \in Tables, h \in Holes : ~Closes(Head(jobs[j].todo), t, h)
    PROVE  TableInv'
<1> DEFINE J == jobs[j]  q == J.todo  r == Tail(q)
<1>1. IsSeq(q) /\ q # <<>> /\ DOMAIN db.tab \subseteq Tables
    BY DEF Typed, JobOK, Fine, Database
<1>2. SuitSteps(J.op, J.tab, q)
    BY DEF TableInv
<1>3. SuitSteps(J.op, J.tab, r) /\ ToSet(q) = {Head(q)} \cup ToSet(r)
    <2> HIDE DEF J
    <2> QED BY <1>1, <1>2, SuitTail, MembersTail
<1>4. ASSUME NEW t \in DOMAIN db.tab, NEW h \in Holes, Held(J, q, t, h) PROVE Held(J, r, t, h)
    BY <1>1, <1>3, <1>4 DEF Held, Closing
<1> QED BY <1>1, <1>3, <1>4, GoHole

\* After the first of steps that owe a filling, it is still to come.
LEMMA OwedHead ==
    ASSUME NEW q, IsSeq(q), q # <<>>, NEW t, NEW h, Owed(q, t, h), "sql" \in DOMAIN Head(q), Opens(Head(q), t, h)
    PROVE  Closing(Tail(q), t, h)
<1> DEFINE r == Tail(q)
<1>1. /\ Len(q) \in Nat /\ Len(q) >= 1 /\ DOMAIN q = 1 .. Len(q) /\ Head(q) = q[1]
      /\ DOMAIN r = 1 .. Len(q) - 1 /\ \A i \in 1 .. Len(q) - 1 : r[i] = q[i + 1]
    BY TailOf
<1> HIDE DEF r
<1>2. 1 \in DOMAIN q
    BY <1>1
<1>3. PICK k \in DOMAIN q : k > 1 /\ Closes(q[k], t, h)
    BY <1>1, <1>2 DEF Owed
<1>4. k - 1 \in 1 .. Len(q) - 1 /\ (k - 1) + 1 = k
    BY <1>1, <1>3
<1>5. r[k - 1] = q[k] /\ k - 1 \in DOMAIN r
    BY <1>1, <1>4
<1>6. Closing(r, t, h)
    BY <1>3, <1>5 DEF Closing, ToSet
<1> QED BY <1>6 DEF r

\* A statement keeps the invariant, at the head of what a request has to do or in place of a
\* batch of an import.
LEMMA ExecuteHole ==
    ASSUME NEW n, Typed(n), TableInv, NEW j \in Jobs, jobs[j] # NoJob,
           NEW s, StatementOK(s), Suits(jobs[j].op, jobs[j].tab, s), "sql" \in DOMAIN s,
           s = Head(jobs[j].todo) \/ ("do" \in DOMAIN Head(jobs[j].todo)
                                      /\ Head(jobs[j].todo).do \notin {"find key", "find index"}
                                      /\ "sql" \notin DOMAIN Head(jobs[j].todo) /\ s.sql \in RowSql),
           NEW e \in After(db, s), NEW seen, NEW kinds, Go(j, Tail(jobs[j].todo), seen, e, kinds)
    PROVE  TableInv'
<1> DEFINE J == jobs[j]  q == J.todo  r == Tail(q)
<1>1. IsSeq(q) /\ q # <<>> /\ Database(db)
    BY DEF Typed, JobOK, Fine
<1>2. SuitSteps(J.op, J.tab, q)
    BY DEF TableInv
<1>3. SuitSteps(J.op, J.tab, r) /\ ToSet(q) = {Head(q)} \cup ToSet(r)
    <2> HIDE DEF J
    <2> QED BY <1>1, <1>2, SuitTail, MembersTail
<1>4. Database(e) /\ DOMAIN e.tab \subseteq Tables
    BY <1>1, AfterKeeps DEF Database
<1>5. ASSUME NEW t \in DOMAIN e.tab, NEW h \in Holes, Hole(e.tab[t], h)
      PROVE  /\ \/ J.op = "restore" /\ r = <<>>
                \/ Held(J, r, t, h)
                \/ t \in DOMAIN db.tab /\ Hole(db.tab[t], h)
             /\ Held(J, q, t, h) => Held(J, r, t, h)
    <2>0. t \in Tables
        BY <1>4
    <2>1. CASE s.sql = "TRANSACTION" /\ J.op = "restore"
        <3>1. s = Head(q)
            BY <2>1 DEF RowSql
        <3>2. r = <<>>
            BY <1>1, <1>2, <2>1 DEF SuitSteps
        <3>3. ~Held(J, q, t, h)
            BY <2>1 DEF Held, Ops, Errs, Holes
        <3> QED BY <2>1, <3>2, <3>3
    <2>2. CASE ~(s.sql = "TRANSACTION" /\ J.op = "restore")
        <3>1. s.sql = "TRANSACTION" => Harmless(s.body)
            BY <2>2 DEF Suits
        <3>2. /\ (s.sql # "TRANSACTION" /\ Opens(s, t, h)) \/ (t \in DOMAIN db.tab /\ Hole(db.tab[t], h))
              /\ ~Fills(s, t, h)
            BY <1>1, <1>5, <3>1, AfterHole
        <3>3. ~Closes(Head(q), t, h)
            <4>1. CASE s = Head(q)
                <5>1. ~("do" \in DOMAIN s /\ s.do \in {"find key", "find index"} /\ "sql" \in DOMAIN s)
                    <6>1. StepOK(s)
                        BY <1>1, <4>1, FineTail DEF Typed, JobOK
                    <6>2. s.do \in {"find key", "find index"} /\ "do" \in DOMAIN s =>
                            s = [do |-> s.do, tab |-> s.tab, key |-> s.key]
                        BY <6>1 DEF StepOK, ReadOK
                    <6>3. \A a, b, c : "sql" \notin DOMAIN [do |-> a, tab |-> b, key |-> c]
                        OBVIOUS
                    <6> QED BY <6>2, <6>3
                <5> QED BY <3>2, <4>1, <5>1 DEF Closes
            <4>2. CASE s # Head(q)
                BY <4>2 DEF Closes
            <4> QED BY <4>1, <4>2
        <3>4. Held(J, q, t, h) => Held(J, r, t, h)
            BY <1>3, <3>3 DEF Held, Closing
        <3>5. CASE s.sql # "TRANSACTION" /\ Opens(s, t, h)
            <4>1. (J.op = "rollback" \/ J.tab = t) /\ J.op \in Ops(h) \cup Errs(h)
                BY <2>0, <3>5 DEF Suits
            <4>2. Works(J, t)
                BY <4>1 DEF Works, WholeSchema, Altering, Ops, Errs, Holes
            <4>3. CASE J.op \in Ops(h)
                BY <3>4, <4>2, <4>3 DEF Held
            <4>4. CASE J.op \in Errs(h)
                <5>1. J.tab = t
                    BY <4>1, <4>4 DEF Errs, Holes
                <5>2. s.sql \notin RowSql
                    BY <3>5 DEF Opens, Here, RowSql
                <5>3. s = Head(q)
                    BY <5>2
                <5>4. Owed(q, t, h)
                    BY <1>2, <4>4, <5>1 DEF SuitSteps
                <5>8. Closing(r, t, h)
                    <6>1. "sql" \in DOMAIN Head(q) /\ Opens(Head(q), t, h)
                        BY <3>5, <5>3
                    <6> HIDE DEF q
                    <6> QED BY <1>1, <5>4, <6>1, OwedHead
                <5> QED BY <3>4, <4>2, <4>4, <5>8 DEF Held
            <4> QED BY <4>1, <4>3, <4>4
        <3> QED BY <3>2, <3>4, <3>5
    <2> QED BY <2>1, <2>2
<1> QED BY <1>3, <1>4, <1>5, GoHole

----------------------------------------------------------------------------
(***************************************************************************)
(* Light steps open no hole and let nothing follow that would; the         *)
(* requests of SchemaService, of the TimescaleDB service and of            *)
(* DataService begin with steps that suit them.                            *)
(***************************************************************************)
Light(x) ==
    /\ "sql" \in DOMAIN x =>
        /\ x.sql \notin {"TRANSACTION", "CREATE TABLE", "DROP KEY", "DROP KEY IF EXISTS", "TIMESCALE"}
        /\ x.sql = "DROP COLUMN" => x.col \notin Base
    /\ "do" \in DOMAIN x => "sql" \notin DOMAIN x /\ x.do \notin {"find key", "find index", "plan rollback", "end", "existing tables", "insert version"}

LightSteps(q) == \A x \in ToSet(q) : Light(x)

\* Light steps suit every operation but a restore.
LEMMA LightSuit ==
    ASSUME NEW q, LightSteps(q), NEW op, op # "restore", NEW tab
    PROVE  SuitSteps(op, tab, q)
<1>1. ASSUME NEW x, Light(x) PROVE Suits(op, tab, x) /\ \A t, h : "sql" \in DOMAIN x => ~Opens(x, t, h)
    BY <1>1 DEF Light, Suits, Opens, Here
<1>2. \A i \in DOMAIN q : Light(q[i])
    BY DEF LightSteps, ToSet
<1>3. \A h : Owed(q, tab, h)
    BY <1>1, <1>2 DEF Owed
<1> QED BY <1>1, <1>3 DEF SuitSteps, LightSteps

\* Light steps put together are light.
LEMMA LightCat ==
    ASSUME NEW a, NEW b, IsSeq(a), IsSeq(b), LightSteps(a), LightSteps(b)
    PROVE  LightSteps(a \o b)
BY MembersCat DEF LightSteps

\* A few light steps are light.
LEMMA LightFew ==
    ASSUME NEW x, NEW y, NEW z, Light(x)
    PROVE  /\ LightSteps(<<>>) /\ LightSteps(<<x>>)
           /\ Light(y) => LightSteps(<<x, y>>)
           /\ Light(y) /\ Light(z) => LightSteps(<<x, y, z>>)
BY MembersFew DEF LightSteps

\* A request that begins with steps that suit it keeps the invariant.
LEMMA BeginHole ==
    ASSUME NEW n, Typed(n), TableInv, NEW j \in Jobs, NEW op, NEW t, NEW todo, Begin(j, op, t, todo),
           SuitSteps(op, t, todo)
    PROVE  TableInv'
<1> DEFINE job == [op |-> op, tab |-> t, todo |-> todo, seen |-> Nothing, met |-> {}]
<1>1. job.op = op /\ job.tab = t /\ job.todo = todo
    OBVIOUS
<1> HIDE DEF job
<1>2. db' = db /\ told' = told /\ jobs[j] = NoJob /\ jobs' = [jobs EXCEPT ![j] = job]
    BY DEF Begin, Idle, job
<1>3. jobs'[j] = job /\ \A k \in Jobs \ {j} : jobs'[k] = jobs[k]
    BY <1>2 DEF Typed
<1>4. ASSUME NEW k \in Jobs, jobs'[k] # NoJob PROVE SuitSteps(jobs'[k].op, jobs'[k].tab, jobs'[k].todo)
    BY <1>1, <1>3, <1>4 DEF TableInv
<1>5. ASSUME NEW u \in DOMAIN db.tab, NEW h \in Holes, Hole(db.tab[u], h) PROVE Explained(u, h)'
    <2>1. Explained(u, h)
        BY <1>5 DEF TableInv
    <2>2. CASE Told(u, h)
        BY <1>2, <2>2 DEF Explained, Told
    <2>3. ASSUME NEW k \in Jobs, jobs[k] # NoJob, Held(jobs[k], jobs[k].todo, u, h) PROVE Explained(u, h)'
        <3>1. jobs'[k] = jobs[k]
            BY <1>2, <1>3, <2>3
        <3> QED BY <2>3, <3>1 DEF Explained
    <2> QED BY <2>1, <2>2, <2>3 DEF Explained
<1> QED BY <1>2, <1>4, <1>5 DEF TableInv

\* The line of the gateway's log suits every operation.
LEMMA SuitLog ==
    ASSUME NEW op, op # "restore", NEW tab, NEW q, IsSeq(q), SuitSteps(op, tab, q)
    PROVE  SuitSteps(op, tab, Append(q, Log))
<1> DEFINE r == Append(q, Log)
<1>1. Light(Log)
    BY DEF Light, Log
<1> DEFINE x == Log
<1>2. Light(x)
    BY <1>1
<1> HIDE DEF x
<1>3. /\ Len(q) \in Nat /\ DOMAIN q = 1 .. Len(q) /\ DOMAIN r = 1 .. Len(q) + 1
      /\ \A i \in 1 .. Len(q) + 1 : r[i] = IF i <= Len(q) THEN q[i] ELSE x
    BY AppendOf, SeqParts DEF x
<1>4. ToSet(r) = ToSet(q) \cup {x}
    BY MembersAppend DEF x
<1> HIDE DEF r
<1>5. Suits(op, tab, x) /\ \A t, h : "sql" \in DOMAIN x => ~Opens(x, t, h)
    BY <1>2 DEF Light, Suits, Opens, Here
<1>6. ASSUME NEW h \in Holes, op \in Errs(h), NEW i \in DOMAIN r, "sql" \in DOMAIN r[i] /\ Opens(r[i], tab, h)
      PROVE  \E k \in DOMAIN r : k > i /\ Closes(r[k], tab, h)
    <2>1. i \in DOMAIN q /\ r[i] = q[i]
        BY <1>3, <1>5, <1>6
    <2>2. PICK k \in DOMAIN q : k > i /\ Closes(q[k], tab, h)
        BY <1>6, <2>1 DEF SuitSteps, Owed
    <2>3. k \in DOMAIN r /\ r[k] = q[k]
        BY <1>3, <2>2
    <2> QED BY <2>2, <2>3
<1>7. SuitSteps(op, tab, r)
    BY <1>4, <1>5, <1>6 DEF SuitSteps, Owed
<1> QED BY <1>7 DEF r

\* A request of SchemaService keeps the invariant, from the panel or the gateway.
LEMMA RequestHole ==
    ASSUME NEW n, Typed(n), TableInv, NEW j \in Jobs, NEW op, op # "restore", NEW t, NEW todo,
           IsSeq(todo), Request(j, op, t, todo), SuitSteps(op, t, todo)
    PROVE  TableInv'
<1>1. SuitSteps(op, t, Append(todo, Log))
    BY SuitLog
<1> QED BY <1>1, BeginHole DEF Request, GatewayRequest

\* So does a request of light steps.
LEMMA LightRequest ==
    ASSUME NEW n, Typed(n), TableInv, NEW j \in Jobs, NEW op, op # "restore", NEW t, NEW todo,
           IsSeq(todo), Request(j, op, t, todo) \/ Begin(j, op, t, todo), LightSteps(todo)
    PROVE  TableInv'
BY LightSuit, RequestHole, BeginHole

\* Three steps, one by one.
LEMMA ThreeIs ==
    ASSUME NEW x, NEW y, NEW z
    PROVE  /\ IsSeq(<<x, y, z>>) /\ ToSet(<<x, y, z>>) = {x, y, z} /\ DOMAIN <<x, y, z>> = {1, 2, 3}
           /\ <<x, y, z>>[1] = x /\ <<x, y, z>>[2] = y /\ <<x, y, z>>[3] = z
<1>1. DOMAIN <<x, y, z>> = {1, 2, 3}
    OBVIOUS
<1>2. IsSeq(<<x, y, z>>) /\ <<x, y, z>>[1] = x /\ <<x, y, z>>[2] = y /\ <<x, y, z>>[3] = z
    BY ThreeSeq
<1>3. ToSet(<<x, y, z>>) = {x, y, z}
    BY <1>1, <1>2 DEF ToSet
<1> QED BY <1>1, <1>2, <1>3

\* A request with one statement of the TimescaleDB service.
LEMMA TimescaleSuits ==
    ASSUME NEW t, NEW op, op \notin {"restore", "rollback"}, NEW s, s.sql = "TIMESCALE", s.tab = t, "sql" \in DOMAIN s,
           "do" \notin DOMAIN s,
           \A h \in Holes : Opens(s, t, h) => op \in Ops(h) /\ op \notin Errs(h)
    PROVE  IsSeq(<<s>>) /\ SuitSteps(op, t, <<s>>)
<1>1. IsSeq(<<s>>) /\ ToSet(<<s>>) = {s} /\ DOMAIN <<s>> = {1} /\ <<s>>[1] = s
    BY OneSeq, MembersFew
<1>2. \A u, h : Opens(s, u, h) => u = t
    BY DEF Opens, Here
<1>3. Suits(op, t, s)
    BY <1>2 DEF Suits
<1>4. \A h \in Holes : op \in Errs(h) => Owed(<<s>>, t, h)
    BY <1>1 DEF Owed
<1> QED BY <1>1, <1>3, <1>4 DEF SuitSteps

\* A request with two: what the first leaves open the second fills.
LEMMA TwoSuit ==
    ASSUME NEW t, NEW op, op \notin {"restore", "rollback"}, NEW a, a.sql = "TIMESCALE", a.tab = t, "sql" \in DOMAIN a,
           "do" \notin DOMAIN a, NEW b, b.sql = "TIMESCALE", b.tab = t, "sql" \in DOMAIN b, "do" \notin DOMAIN b, ~b.soft,
           \A h \in Holes : Opens(a, t, h) => op \in Errs(h) /\ Fills(b, t, h),
           \A h \in Holes : ~Opens(b, t, h)
    PROVE  IsSeq(<<a, b>>) /\ SuitSteps(op, t, <<a, b>>)
<1> DEFINE q == <<a, b>>
<1>1. IsSeq(q) /\ ToSet(q) = {a, b} /\ DOMAIN q = {1, 2} /\ q[1] = a /\ q[2] = b
    <2>1. DOMAIN q = {1, 2}
        OBVIOUS
    <2> QED BY <2>1, TwoSeq, MembersFew
<1> HIDE DEF q
<1>2. \A u, h : (Opens(a, u, h) => u = t) /\ (Opens(b, u, h) => u = t)
    BY DEF Opens, Here
<1>3. Suits(op, t, a)
    BY <1>2 DEF Suits
<1>4. Suits(op, t, b)
    BY <1>2 DEF Suits
<1>5. \A h \in Holes : op \in Errs(h) => Owed(q, t, h)
    <2>1. \A h \in Holes : Fills(b, t, h) => Closes(b, t, h)
        BY DEF Closes
    <2>2. ASSUME NEW h \in Holes, NEW i \in DOMAIN q, Opens(q[i], t, h)
          PROVE  \E k \in DOMAIN q : k > i /\ Closes(q[k], t, h)
        <3>1. i = 1 /\ Opens(a, t, h)
            BY <1>1, <2>2
        <3>2. Closes(q[2], t, h) /\ 2 \in DOMAIN q /\ 2 > i
            BY <1>1, <2>1, <3>1
        <3> QED BY <3>2
    <2> QED BY <2>2 DEF Owed
<1> QED BY <1>1, <1>3, <1>4, <1>5 DEF SuitSteps, q

\* The statements that open no hole are light.
LEMMA LightSql ==
    ASSUME NEW t
    PROVE  /\ \A what \in {"CREATE FUNCTION", "DROP TABLE", "DROP TABLE RESTRICT", "TRUNCATE", "DROP FOREIGN KEYS",
                           "CREATE UNIQUE INDEX", "DROP INDEX", "DROP VIEW"} : Light(Sql(what, t))
           /\ \A c : Light(AddColumn(t, c))
           /\ \A c \in Optional : Light(DropColumn(t, c))
           /\ \A fk : Light(AddForeignKey(fk))
           /\ \A rows, cols : Light(Insert(t, rows, cols)) /\ Light(Soft(Insert(t, rows, cols)))
           /\ \A ids, v, must : Light(Update(t, ids, v, must)) /\ Light(Soft(Update(t, ids, v, must)))
           /\ \A ids, gone, must : Light(SetDeleted(t, ids, gone, must))
           /\ \A ids, must : Light(Delete(t, ids, must)) /\ Light(Soft(Delete(t, ids, must)))
           /\ \A kind, of, byName : Light(DeleteSystem(kind, of, byName)) /\ Light(Soft(DeleteSystem(kind, of, byName)))
           /\ \A of : Light(InsertSystem(of))
<1>1. \A what \in {"CREATE FUNCTION", "DROP TABLE", "DROP TABLE RESTRICT", "TRUNCATE", "DROP FOREIGN KEYS",
                           "CREATE UNIQUE INDEX", "DROP INDEX", "DROP VIEW"} : Light(Sql(what, t))
    BY DEF Light, Sql
<1>2. \A c : Light(AddColumn(t, c))
    BY DEF Light, AddColumn
<1>3. \A c \in Optional : Light(DropColumn(t, c))
    BY DEF Light, DropColumn, Optional, Base
<1>4. \A fk : Light(AddForeignKey(fk))
    BY DEF Light, AddForeignKey
<1>5. \A rows, cols : Light(Insert(t, rows, cols)) /\ Light(Soft(Insert(t, rows, cols)))
    BY DEF Light, Insert, Soft
<1>6. \A ids, v, must : Light(Update(t, ids, v, must)) /\ Light(Soft(Update(t, ids, v, must)))
    BY DEF Light, Update, Soft
<1>7. \A ids, gone, must : Light(SetDeleted(t, ids, gone, must))
    BY DEF Light, SetDeleted
<1>8. \A ids, must : Light(Delete(t, ids, must)) /\ Light(Soft(Delete(t, ids, must)))
    BY DEF Light, Delete, Soft
<1>9. \A kind, of, byName : Light(DeleteSystem(kind, of, byName)) /\ Light(Soft(DeleteSystem(kind, of, byName)))
    BY DEF Light, DeleteSystem, Soft
<1>10. \A of : Light(InsertSystem(of))
    BY DEF Light, InsertSystem
<1> QED BY <1>1, <1>2, <1>3, <1>4, <1>5, <1>6, <1>7, <1>8, <1>9, <1>10

LightReads == {"list tables", "last version", "read columns", "export columns", "export links",
               "export rows", "export system", "get rules", "keep rules", "forget rules", "find rule",
               "find", "check", "get columns", "keep columns", "import", "seed"}

\* The reads are light, but for those that a key, a rollback, an export's end or a restore
\* hangs on.
LEMMA LightDo ==
    ASSUME NEW t
    PROVE  /\ \A what \in LightReads : Light(Do(what)) /\ Light(Read(what, t))
           /\ \A what \in LightReads : \A S : Light([do |-> what, of |-> S])
           /\ \A what \in LightReads : \A rows : Light([do |-> what, tab |-> t, rows |-> rows])
           /\ \A id : Light(Find(t, id))
           /\ \A ids : Light(GetColumnsFor(t, ids))
           /\ \A ids, v : Light(Check(t, ids, v))
           /\ \A kind : Light([do |-> "export system", kind |-> kind])
<1>1. \A what \in LightReads : Light(Do(what)) /\ Light(Read(what, t))
    BY DEF Light, Do, Read, LightReads
<1>2. \A what \in LightReads : \A S : Light([do |-> what, of |-> S])
    BY DEF Light, LightReads
<1>3. \A what \in LightReads : \A rows : Light([do |-> what, tab |-> t, rows |-> rows])
    BY DEF Light, LightReads
<1>4. \A id : Light(Find(t, id))
    BY DEF Light, Find
<1>5. \A ids : Light(GetColumnsFor(t, ids))
    BY DEF Light, GetColumnsFor
<1>6. \A ids, v : Light(Check(t, ids, v))
    BY DEF Light, Check
<1>7. \A kind : Light([do |-> "export system", kind |-> kind])
    BY DEF Light
<1> QED BY <1>1, <1>2, <1>3, <1>4, <1>5, <1>6, <1>7

\* A step that suits an operation and owes nothing, alone.
LEMMA OneSuit ==
    ASSUME NEW op, NEW tab, NEW x, Suits(op, tab, x),
           "sql" \in DOMAIN x => \A h \in Holes : Opens(x, tab, h) => op \notin Errs(h)
    PROVE  IsSeq(<<x>>) /\ SuitSteps(op, tab, <<x>>)
<1>1. IsSeq(<<x>>) /\ ToSet(<<x>>) = {x} /\ DOMAIN <<x>> = {1} /\ <<x>>[1] = x
    BY OneSeq, MembersFew
<1>2. Tail(<<x>>) = <<>>
    OBVIOUS
<1>3. \A h \in Holes : op \in Errs(h) => Owed(<<x>>, tab, h)
    BY <1>1 DEF Owed
<1> QED BY <1>1, <1>2, <1>3 DEF SuitSteps

\* The operation of a creation, by the holes it leaves.
LEMMA CreationIs ==
    ASSUME NEW key \in Base \cup {"none"}, NEW stamped \in BOOLEAN, NEW op, op = Creation(key, stamped)
    PROVE  /\ op # "restore"
           /\ key = "none" => op \in Ops("key")
           /\ stamped => op \in Errs("trigger")
           /\ ~stamped => op \in Ops("trigger") /\ op \notin Errs("trigger")
           /\ \A h \in Holes \ {"trigger"} : op \notin Errs(h)
<1>1. "none" \notin Base
    BY DEF Base
<1>2. CASE key # "none" /\ stamped
    BY <1>2 DEF Creation, Ops, Errs, Holes
<1>3. CASE key # "none" /\ ~stamped
    BY <1>3 DEF Creation, Ops, Errs, Holes
<1>4. CASE key = "none" /\ stamped
    BY <1>4 DEF Creation, Ops, Errs, Holes
<1>5. CASE key = "none" /\ ~stamped
    BY <1>5 DEF Creation, Ops, Errs, Holes
<1> QED BY <1>2, <1>3, <1>4, <1>5

\* What follows the steps of creation.
LEMMA CreateSuits ==
    ASSUME NEW t, NEW key \in Base \cup {"none"}, NEW stamped \in BOOLEAN, NEW op, op = Creation(key, stamped)
    PROVE  op # "restore" /\ IsSeq(CreateSteps(t, key, stamped)) /\ SuitSteps(op, t, CreateSteps(t, key, stamped))
<1>1. PICK a, b, c : a = CreateTable(t, Base, key) /\ b = Sql("CREATE FUNCTION", t) /\ c = Sql("CREATE TRIGGER", t)
    OBVIOUS
<1>2. CreateSteps(t, key, stamped) = IF stamped THEN <<a, b, c>> ELSE <<a>>
    BY <1>1 DEF CreateSteps
<1>3. "sql" \in DOMAIN a /\ a.sql = "CREATE TABLE" /\ a.tab = t /\ a.key = key /\ "do" \notin DOMAIN a
    BY <1>1 DEF CreateTable
<1>4. "sql" \in DOMAIN b /\ b.sql = "CREATE FUNCTION" /\ "do" \notin DOMAIN b
    BY <1>1 DEF Sql
<1>5. "sql" \in DOMAIN c /\ c.sql = "CREATE TRIGGER" /\ c.tab = t /\ ~c.soft /\ "do" \notin DOMAIN c
    BY <1>1 DEF Sql
<1>6. \A u, h : ~Opens(b, u, h) /\ ~Opens(c, u, h)
    BY <1>4, <1>5 DEF Opens, Here
<1>7. \A u, h : Opens(a, u, h) => u = t /\ (h = "trigger" \/ (h = "key" /\ key = "none"))
    BY <1>3 DEF Opens, Here
<1>8. Closes(c, t, "trigger")
    BY <1>5 DEF Closes, Fills, Here
<1>9. /\ op # "restore" /\ (key = "none" => op \in Ops("key")) /\ (stamped => op \in Errs("trigger"))
      /\ ~stamped => op \in Ops("trigger") /\ op \notin Errs("trigger")
      /\ \A h \in Holes \ {"trigger"} : op \notin Errs(h)
    BY CreationIs
<1>10. Suits(op, t, a)
    <2>1. \A u \in Tables, h \in Holes : Opens(a, u, h) => t = u /\ op \in Ops(h) \cup Errs(h)
        BY <1>7, <1>9
    <2> QED BY <1>3, <2>1 DEF Suits
<1>11. CASE stamped
    <2>1. PICK q : q = <<a, b, c>>
        OBVIOUS
    <2>2. CreateSteps(t, key, stamped) = q
        BY <1>2, <1>11, <2>1
    <2>3. IsSeq(q) /\ ToSet(q) = {a, b, c} /\ DOMAIN q = {1, 2, 3} /\ q[1] = a /\ q[2] = b /\ q[3] = c
        BY <2>1, ThreeIs
    <2>4. Suits(op, t, b) /\ Suits(op, t, c)
        BY <1>4, <1>5, <1>6 DEF Suits
    <2>5. Owed(q, t, "trigger")
        BY <1>6, <1>8, <2>3 DEF Owed
    <2> QED BY <1>9, <1>10, <2>2, <2>3, <2>4, <2>5 DEF SuitSteps
<1>12. CASE ~stamped
    <2>1. \A h \in Holes : op \notin Errs(h)
        BY <1>9, <1>12
    <2>2. IsSeq(<<a>>) /\ SuitSteps(op, t, <<a>>)
        BY <1>10, <2>1, OneSuit
    <2> QED BY <1>2, <1>9, <1>12, <2>2
<1> QED BY <1>11, <1>12

\* The search of the key, the first step of its change.
LEMMA FindKeySuits ==
    ASSUME NEW t, NEW key, NEW x, x = [do |-> "find key", tab |-> t, key |-> key], NEW op,
           op = IF key = "none" THEN "drop key" ELSE "set key"
    PROVE  IsSeq(<<x>>) /\ SuitSteps(op, t, <<x>>)
<1>1. "sql" \notin DOMAIN x /\ x.do = "find key" /\ x.tab = t /\ x.key = key
    OBVIOUS
<1>2. op # "restore"
    OBVIOUS
<1>3. Suits(op, t, x)
    BY <1>1, <1>2 DEF Suits
<1> QED BY <1>1, <1>3, OneSuit

\* The changes of alterColumns suit their operations.
LEMMA AlterSuits ==
    ASSUME NEW op, NEW cs, Alteration(op, cs), NEW t
    PROVE  op # "restore" /\ IsSeq(Changes(t, cs)) /\ SuitSteps(op, t, Changes(t, cs))
<1> DEFINE q == Changes(t, cs)
<1>0. \A c, d : Changes(t, <<c>>) = <<Change(t, c)>> /\ Changes(t, <<c, d>>) = <<Change(t, c), Change(t, d)>>
    BY DEF Changes
<1>1. ASSUME NEW c, cs = <<c>>, NEW x, x = Change(t, c), Light(x), op # "restore"
      PROVE  IsSeq(q) /\ SuitSteps(op, t, q)
    <2>1. q = <<x>>
        BY <1>0, <1>1
    <2> HIDE DEF q
    <2> QED BY <1>1, <2>1, OneSeq, LightFew, LightSuit
<1>2. ASSUME op \in {"drop key", "alter base"}, NEW c, cs = <<c>>, NEW x, x = Change(t, c), "sql" \in DOMAIN x,
             "do" \notin DOMAIN x, x.sql \in {"DROP KEY IF EXISTS", "DROP COLUMN"}, x.tab = t
      PROVE  IsSeq(q) /\ SuitSteps(op, t, q)
    <2>1. op \in Ops("key") /\ op \notin Errs("key")
        BY <1>2 DEF Ops, Errs
    <2>2. \A u, h : Opens(x, u, h) => u = t /\ h = "key"
        BY <1>2 DEF Opens, Here
    <2>3. Suits(op, t, x)
        BY <1>2, <2>1, <2>2 DEF Suits
    <2>4. IsSeq(<<x>>) /\ SuitSteps(op, t, <<x>>)
        BY <2>1, <2>2, <2>3, OneSuit
    <2> QED BY <1>0, <1>2, <2>4
<1>3. CASE op = "alter" /\ \E change \in {"add", "drop"}, col \in Optional : cs = <<<<change, col>>>>
    <2>1. PICK change \in {"add", "drop"}, col \in Optional : cs = <<<<change, col>>>>
        BY <1>3
    <2>2. Change(t, <<"add", col>>) = AddColumn(t, col) /\ Change(t, <<"drop", col>>) = DropColumn(t, col)
        BY DEF Change
    <2>3. Light(Change(t, <<change, col>>))
        BY <2>2, LightSql
    <2> QED BY <1>1, <1>3, <2>1, <2>3
<1>4. CASE op = "alter" /\ cs = <<<<"add", "deleted_at">>, <<"add", "req">>>>
    <2>1. PICK x, y : x = AddColumn(t, "deleted_at") /\ y = AddColumn(t, "req")
        OBVIOUS
    <2>2. Change(t, <<"add", "deleted_at">>) = x /\ Change(t, <<"add", "req">>) = y
        BY <2>1 DEF Change
    <2>3. q = <<x, y>> /\ Light(x) /\ Light(y)
        BY <1>0, <1>4, <2>1, <2>2, LightSql
    <2>4. LightSteps(<<x, y>>)
        BY <2>3, LightFew
    <2>5. IsSeq(<<x, y>>)
        BY TwoSeq
    <2>6. LightSteps(q) /\ IsSeq(q)
        BY <2>3, <2>4, <2>5
    <2> HIDE DEF q
    <2> QED BY <1>4, <2>6, LightSuit DEF q
<1>5. CASE op = "alter base" /\ \E change \in {"add", "drop"}, col \in Base : cs = <<<<change, col>>>>
    <2>1. PICK change \in {"add", "drop"}, col \in Base : cs = <<<<change, col>>>>
        BY <1>5
    <2>2. PICK x : x = Change(t, <<change, col>>)
        OBVIOUS
    <2>3. CASE change = "add"
        <3>1. x = AddColumn(t, col)
            BY <2>2, <2>3 DEF Change
        <3> QED BY <1>1, <1>5, <2>1, <2>2, <3>1, LightSql
    <2>4. CASE change = "drop"
        <3>1. x = DropColumn(t, col)
            BY <2>2, <2>4 DEF Change
        <3>2. "sql" \in DOMAIN x /\ "do" \notin DOMAIN x /\ x.sql = "DROP COLUMN" /\ x.tab = t
            BY <3>1 DEF DropColumn
        <3> QED BY <1>2, <1>5, <2>1, <2>2, <3>2
    <2> QED BY <1>5, <2>3, <2>4
<1>6. CASE op = "set key" /\ \E col \in Base : cs = <<<<"set_primary_key", col>>>>
    <2>1. PICK col \in Base : cs = <<<<"set_primary_key", col>>>>
        BY <1>6
    <2>2. PICK x : x = [do |-> "find key", tab |-> t, key |-> col]
        OBVIOUS
    <2>3. Change(t, <<"set_primary_key", col>>) = x
        BY <2>2 DEF Change
    <2>4. q = <<x>> /\ col # "none"
        BY <1>0, <2>1, <2>3 DEF Base
    <2> QED BY <1>6, <2>2, <2>4, FindKeySuits
<1>7. CASE op = "drop key" /\ cs = <<<<"drop_primary_key">>>>
    <2>1. PICK x : x = [do |-> "find key", tab |-> t, key |-> "none"]
        OBVIOUS
    <2>2. Change(t, <<"drop_primary_key">>) = x
        BY <2>1 DEF Change
    <2>3. q = <<x>>
        BY <1>0, <1>7, <2>2
    <2> QED BY <1>7, <2>1, <2>3, FindKeySuits
<1>8. CASE op = "drop key" /\ cs = <<<<"drop_constraint">>>>
    <2>1. PICK x : x = Sql("DROP KEY IF EXISTS", t)
        OBVIOUS
    <2>2. Change(t, <<"drop_constraint">>) = x
        BY <2>1 DEF Change
    <2>3. "sql" \in DOMAIN x /\ "do" \notin DOMAIN x /\ x.sql = "DROP KEY IF EXISTS" /\ x.tab = t
        BY <2>1 DEF Sql
    <2> QED BY <1>2, <1>8, <2>2, <2>3
<1>9. \/ op = "alter" /\ \E change \in {"add", "drop"}, col \in Optional : cs = <<<<change, col>>>>
      \/ op = "alter base" /\ \E change \in {"add", "drop"}, col \in Base : cs = <<<<change, col>>>>
      \/ op = "alter" /\ cs = <<<<"add", "deleted_at">>, <<"add", "req">>>>
      \/ op = "set key" /\ \E col \in Base : cs = <<<<"set_primary_key", col>>>>
      \/ op = "drop key" /\ cs = <<<<"drop_primary_key">>>>
      \/ op = "drop key" /\ cs = <<<<"drop_constraint">>>>
    BY DEF Alteration
<1> QED BY <1>3, <1>4, <1>5, <1>6, <1>7, <1>8, <1>9

\* The requests of SchemaService.
LEMMA SchemaRequestsWhole ==
    ASSUME NEW n, Typed(n), TableInv, NEW j \in Jobs, NEW t \in Tables,
           \/ CreateNewTable(j, t) \/ AlterColumns(j, t) \/ DropTable(j, t) \/ TruncateTable(j, t)
           \/ AddLink(j, t) \/ DropLink(j, t) \/ AddIndex(j, t) \/ DropIndex(j, t)
    PROVE  TableInv'
<1>1. CASE CreateNewTable(j, t)
    <2>1. PICK key \in Base \cup {"none"}, stamped \in BOOLEAN :
            Request(j, Creation(key, stamped), t, CreateSteps(t, key, stamped))
        BY <1>1 DEF CreateNewTable
    <2>2. PICK op, q : op = Creation(key, stamped) /\ q = CreateSteps(t, key, stamped)
        OBVIOUS
    <2>3. op # "restore" /\ IsSeq(q) /\ SuitSteps(op, t, q)
        BY <2>2, CreateSuits
    <2> QED BY <2>1, <2>2, <2>3, RequestHole
<1>2. CASE AlterColumns(j, t)
    <2>1. PICK op, cs : Alteration(op, cs) /\ Request(j, op, t, Changes(t, cs))
        BY <1>2, AlterColumnsIs
    <2>2. PICK q : q = Changes(t, cs)
        OBVIOUS
    <2>3. op # "restore" /\ IsSeq(q) /\ SuitSteps(op, t, q) /\ Request(j, op, t, q)
        BY <2>1, <2>2, AlterSuits
    <2> QED BY <2>3, RequestHole
<1>3. CASE DropTable(j, t)
    <2> DEFINE q == [i \in DOMAIN SysOrder |-> Soft(DeleteSystem(SysOrder[i], {<<SysOrder[i], t>>}, TRUE))]
    <2>1. IsSeq(SysOrder)
        BY ProjectAssumption, SeqIs
    <2>2. Len(SysOrder) \in Nat /\ DOMAIN SysOrder = 1 .. Len(SysOrder)
        BY <2>1, SeqParts
    <2>3. IsSeq(q) /\ DOMAIN q = DOMAIN SysOrder
        <3>1. q = [i \in 1 .. Len(SysOrder) |-> q[i]]
            BY <2>2
        <3> QED BY <2>2, <3>1, MapSeq
    <2>4. \A i \in DOMAIN q : Light(q[i])
        BY <2>3, LightSql
    <2>5. LightSteps(q)
        <3> HIDE DEF q
        <3> QED BY <2>4 DEF LightSteps, ToSet
    <2> DEFINE x == Sql("DROP TABLE", t)
    <2>6. Light(x)
        BY LightSql
    <2>7. DropSteps(t) = Append(q, x)
        BY DEF DropSteps
    <2> HIDE DEF q, x
    <2>8. ToSet(Append(q, x)) = ToSet(q) \cup {x} /\ IsSeq(Append(q, x))
        BY <2>3, MembersAppend, AppendOf
    <2>9. LightSteps(Append(q, x))
        BY <2>5, <2>6, <2>8 DEF LightSteps
    <2> DEFINE r == Append(q, x)
    <2> HIDE DEF r
    <2>10. IsSeq(r) /\ LightSteps(r) /\ Request(j, "drop table", t, r)
        BY <1>3, <2>7, <2>8, <2>9 DEF r, DropTable
    <2> QED BY <2>10, LightRequest
<1>4. ASSUME NEW op, op # "restore", NEW x, Light(x), Request(j, op, t, <<x>>)
      PROVE  TableInv'
    <2>1. IsSeq(<<x>>) /\ LightSteps(<<x>>)
        BY <1>4, OneSeq, LightFew
    <2> QED BY <1>4, <2>1, LightRequest
<1>5. CASE TruncateTable(j, t) \/ DropLink(j, t) \/ AddIndex(j, t) \/ DropIndex(j, t)
    BY <1>4, <1>5, LightSql DEF TruncateTable, DropLink, AddIndex, DropIndex
<1>6. CASE AddLink(j, t)
    <2>1. PICK fk : Request(j, "link", t, <<AddForeignKey(fk)>>)
        BY <1>6 DEF AddLink
    <2> QED BY <1>4, <2>1, LightSql
<1> QED BY <1>1, <1>2, <1>3, <1>5, <1>6

\* The parts of a statement of the TimescaleDB service.
LEMMA TimescaleParts ==
    ASSUME NEW t, NEW needs, NEW drops, NEW adds, NEW s, s = Timescale(t, needs, drops, adds)
    PROVE  /\ s.sql = "TIMESCALE" /\ s.tab = t /\ "sql" \in DOMAIN s /\ "do" \notin DOMAIN s /\ ~s.soft
           /\ s.drops = drops /\ s.adds = adds
BY DEF Timescale

\* The holes that a statement of the TimescaleDB service opens.
LEMMA TimescaleOpens ==
    ASSUME NEW t, NEW needs, NEW drops, NEW adds, NEW s, s = Timescale(t, needs, drops, adds), NEW h \in Holes,
           Opens(s, t, h)
    PROVE  \/ h = "compress" /\ "compress" \notin adds /\ ("compress" \in drops \/ "compression" \in adds)
           \/ h = "refresh" /\ "refresh" \notin adds /\ ("refresh" \in drops \/ "view" \in adds)
<1>1. s.sql = "TIMESCALE" /\ s.drops = drops /\ s.adds = adds
    BY TimescaleParts
<1> QED BY <1>1 DEF Opens, Here

\* A request of one such statement keeps the invariant, when an addition brings its policy
\* along and a removal is one of those that leave a hole.
LEMMA OneTimescale ==
    ASSUME NEW n, Typed(n), TableInv, NEW j \in Jobs, NEW t, NEW op, op \notin {"restore", "rollback"},
           NEW needs, NEW drops, NEW adds, Request(j, op, t, <<Timescale(t, needs, drops, adds)>>),
           "compress" \in drops \/ "compression" \in adds => op = "remove compression" \/ "compress" \in adds,
           "refresh" \in drops \/ "view" \in adds => op \in {"plain aggregate", "remove refresh"} \/ "refresh" \in adds
    PROVE  TableInv'
<1>1. PICK s : s = Timescale(t, needs, drops, adds)
    OBVIOUS
<1>2. \A h \in Holes : Opens(s, t, h) => op \in Ops(h) /\ op \notin Errs(h)
    BY <1>1, TimescaleOpens DEF Ops, Errs
<1>3. s.sql = "TIMESCALE" /\ s.tab = t /\ "sql" \in DOMAIN s /\ "do" \notin DOMAIN s
    BY <1>1 DEF Timescale
<1>4. IsSeq(<<s>>) /\ SuitSteps(op, t, <<s>>)
    BY <1>2, <1>3, TimescaleSuits
<1>5. Request(j, op, t, <<s>>) /\ op # "restore"
    BY <1>1
<1> QED BY <1>4, <1>5, RequestHole

\* The requests of TimescaleService.
LEMMA TimescaleWhole ==
    ASSUME NEW n, Typed(n), TableInv, NEW j \in Jobs, TimescaleStep(j)
    PROVE  TableInv'
<1>1. PICK t \in Tables : AddTimescale(j, t) \/ ChangeTimescale(j, t)
    BY DEF TimescaleStep
<1>2. CASE CreateHypertable(j, t) \/ AddRetentionPolicy(j, t)
    BY <1>2, OneTimescale DEF CreateHypertable, AddRetentionPolicy
<1>3. CASE AddContinuousAggregate(j, t)
    <2>1. CASE Request(j, "plain aggregate", t, <<Timescale(t, {"hypertable"}, {}, {"view"})>>)
        BY <2>1, OneTimescale
    <2>2. CASE Request(j, "aggregate", t, <<Timescale(t, {"hypertable"}, {}, {"view"}), Timescale(t, {"view"}, {}, {"refresh"})>>)
        <3>1. PICK a, b : a = Timescale(t, {"hypertable"}, {}, {"view"}) /\ b = Timescale(t, {"view"}, {}, {"refresh"})
            OBVIOUS
        <3>2. /\ a.sql = "TIMESCALE" /\ a.tab = t /\ "sql" \in DOMAIN a /\ "do" \notin DOMAIN a
              /\ b.sql = "TIMESCALE" /\ b.tab = t /\ "sql" \in DOMAIN b /\ "do" \notin DOMAIN b /\ ~b.soft
              /\ b.adds = {"refresh"}
            BY <3>1, TimescaleParts
        <3>3. \A h \in Holes : Opens(a, t, h) => "aggregate" \in Errs(h) /\ Fills(b, t, h)
            <4>1. ASSUME NEW h \in Holes, Opens(a, t, h) PROVE "aggregate" \in Errs(h) /\ Fills(b, t, h)
                <5>1. h = "refresh"
                    BY <3>1, <4>1, TimescaleOpens
                <5> QED BY <3>2, <5>1 DEF Errs, Fills, Here
            <4> QED BY <4>1
        <3>4. \A h \in Holes : ~Opens(b, t, h)
            BY <3>1, TimescaleOpens
        <3>5. IsSeq(<<a, b>>) /\ SuitSteps("aggregate", t, <<a, b>>)
            BY <3>2, <3>3, <3>4, TwoSuit
        <3>6. Request(j, "aggregate", t, <<a, b>>)
            BY <2>2, <3>1
        <3> QED BY <3>5, <3>6, RequestHole
    <2> QED BY <1>3, <2>1, <2>2 DEF AddContinuousAggregate
<1>4. CASE AddCompressionPolicy(j, t)
    <2>1. PICK a, b : a = Timescale(t, {"hypertable"}, {}, {"compression"}) /\ b = Timescale(t, {"compression"}, {}, {"compress"})
        OBVIOUS
    <2>2. /\ a.sql = "TIMESCALE" /\ a.tab = t /\ "sql" \in DOMAIN a /\ "do" \notin DOMAIN a
          /\ b.sql = "TIMESCALE" /\ b.tab = t /\ "sql" \in DOMAIN b /\ "do" \notin DOMAIN b /\ ~b.soft
          /\ b.adds = {"compress"}
        BY <2>1, TimescaleParts
    <2>3. \A h \in Holes : Opens(a, t, h) => "compress" \in Errs(h) /\ Fills(b, t, h)
        <3>1. ASSUME NEW h \in Holes, Opens(a, t, h) PROVE "compress" \in Errs(h) /\ Fills(b, t, h)
            <4>1. h = "compress"
                BY <2>1, <3>1, TimescaleOpens
            <4> QED BY <2>2, <4>1 DEF Errs, Fills, Here
        <3> QED BY <3>1
    <2>4. \A h \in Holes : ~Opens(b, t, h)
        BY <2>1, TimescaleOpens
    <2>5. IsSeq(<<a, b>>) /\ SuitSteps("compress", t, <<a, b>>)
        BY <2>2, <2>3, <2>4, TwoSuit
    <2>6. Request(j, "compress", t, <<a, b>>)
        BY <1>4, <2>1 DEF AddCompressionPolicy
    <2> QED BY <2>5, <2>6, RequestHole
<1>5. CASE RemovePolicy(j, t)
    <2>1. CASE Request(j, "remove retention", t, <<RemoveOld(t, "retain")>>)
        BY <2>1, OneTimescale DEF RemoveOld
    <2>2. CASE Request(j, "remove compression", t, <<RemoveOld(t, "compress")>>)
        BY <2>2, OneTimescale DEF RemoveOld
    <2>3. CASE Request(j, "remove refresh", t, <<RemoveOld(t, "refresh")>>)
        BY <2>3, OneTimescale DEF RemoveOld
    <2> QED BY <1>5, <2>1, <2>2, <2>3 DEF RemovePolicy
<1>6. CASE UpdatePolicy(j, t)
    <2>1. PICK policy \in {"retain", "compress", "refresh"} :
            Request(j, "update policy", t, <<Transaction(<<RemoveOld(t, policy), AddNew(t, policy)>>)>>)
        BY <1>6 DEF UpdatePolicy
    <2>2. PICK a, b : a = RemoveOld(t, policy) /\ b = AddNew(t, policy)
        OBVIOUS
    <2>3. a.sql = "TIMESCALE" /\ a.tab = t /\ ~a.soft /\ a.drops = {policy} /\ a.adds = {}
        BY <2>2, TimescaleParts DEF RemoveOld
    <2>4. b.sql = "TIMESCALE" /\ b.tab = t /\ ~b.soft /\ b.drops = {} /\ b.adds = {policy}
        BY <2>2, TimescaleParts DEF AddNew
    <2>5. PICK body : body = <<a, b>>
        OBVIOUS
    <2>6. Len(body) = 2 /\ body[1] = a /\ body[2] = b
        BY <2>5, TwoSeq
    <2>7. Harmless(body)
        BY <2>3, <2>4, <2>6 DEF Harmless
    <2>8. PICK s : s = Transaction(body)
        OBVIOUS
    <2>9. s.sql = "TRANSACTION" /\ s.body = body /\ "do" \notin DOMAIN s
        BY <2>8 DEF Transaction
    <2>10. \A u, h : ~Opens(s, u, h)
        BY <2>9 DEF Opens, Here
    <2>11. Suits("update policy", t, s)
        BY <2>7, <2>9, <2>10 DEF Suits
    <2>12. IsSeq(<<s>>) /\ SuitSteps("update policy", t, <<s>>)
        BY <2>10, <2>11, OneSuit
    <2>13. Request(j, "update policy", t, <<s>>)
        BY <2>1, <2>2, <2>5, <2>8
    <2> QED BY <2>12, <2>13, RequestHole
<1>7. ASSUME NEW x, Light(x), NEW op, op # "restore", Request(j, op, t, <<x>>) PROVE TableInv'
    <2>1. IsSeq(<<x>>) /\ LightSteps(<<x>>)
        BY <1>7, OneSeq, LightFew
    <2> QED BY <1>7, <2>1, LightRequest
<1>8. CASE DropContinuousAggregate(j, t)
    BY <1>7, <1>8, LightSql DEF DropContinuousAggregate
<1>9. CASE DropHypertable(j, t)
    <2>1. PICK sql \in {"DROP TABLE", "DROP TABLE RESTRICT"} : Request(j, "drop hypertable", t, <<Sql(sql, t)>>)
        BY <1>9 DEF DropHypertable
    <2> QED BY <1>7, <2>1, LightSql
<1> QED BY <1>1, <1>2, <1>3, <1>4, <1>5, <1>6, <1>8, <1>9 DEF AddTimescale, ChangeTimescale

\* The requests of DataService.
LEMMA DataWhole ==
    ASSUME NEW n, Typed(n), TableInv, NEW j \in Jobs, DataRequest(j)
    PROVE  TableInv'
<1>1. PICK t \in Tables :
        \/ Create(j, t) \/ UpdateRecord(j, t) \/ UpdateField(j, t) \/ BulkUpdate(j, t)
        \/ CreatePart(j, t) \/ UpdatePart(j, t)
        \/ DeleteRecord(j, t) \/ BulkDelete(j, t) \/ Undelete(j, t) \/ PermanentDelete(j, t)
        \/ ImportRecords(j, t) \/ Seed(j, t) \/ Batch(j, t) \/ CreateRule(j, t) \/ DeleteRule(j, t)
    BY DEF DataRequest
<1>2. ASSUME NEW op, op # "restore", NEW x, Light(x), Begin(j, op, t, <<x>>) PROVE TableInv'
    <2>1. IsSeq(<<x>>) /\ LightSteps(<<x>>)
        BY <1>2, OneSeq, LightFew
    <2> QED BY <1>2, <2>1, LightRequest
<1>3. ASSUME NEW op, op # "restore", NEW x, NEW y, Light(x), Light(y), Begin(j, op, t, <<x, y>>) PROVE TableInv'
    <2>1. IsSeq(<<x, y>>)
        BY TwoSeq
    <2>2. LightSteps(<<x, y>>)
        BY <1>3, LightFew
    <2> QED BY <1>3, <2>1, <2>2, LightRequest
<1>4. ASSUME NEW op, op # "restore", NEW q, IsSeq(q), LightSteps(q), Begin(j, op, t, q) PROVE TableInv'
    BY <1>4, LightRequest
<1>a. \A x, y, z : Light(x) /\ Light(y) /\ Light(z) => IsSeq(<<x, y, z>>) /\ LightSteps(<<x, y, z>>)
    BY LightFew, ThreeSeq
<1>b. ASSUME NEW id, NEW v PROVE IsSeq(UpdateSteps(t, id, v)) /\ LightSteps(UpdateSteps(t, id, v))
    <2>1. Light(Read("get rules", t)) /\ Light(Check(t, {id}, v)) /\ Light(Update(t, {id}, v, TRUE))
        BY LightSql, LightDo DEF LightReads
    <2> QED BY <1>a, <2>1 DEF UpdateSteps
<1>5. CASE Create(j, t)
    <2>1. PICK r : Begin(j, "create", t, CreateRecordSteps(t, r))
        BY <1>5 DEF Create
    <2>2. Light(Read("get rules", t)) /\ Light(Check(t, {}, r.v)) /\ Light(Insert(t, {r}, Base))
        BY LightSql, LightDo DEF LightReads
    <2>3. IsSeq(CreateRecordSteps(t, r)) /\ LightSteps(CreateRecordSteps(t, r))
        BY <1>a, <2>2 DEF CreateRecordSteps
    <2> QED BY <1>4, <2>1, <2>3
<1>c. ASSUME NEW op, op # "restore", NEW ids, NEW x, Light(x), Begin(j, op, t, PartSteps(t, ids, x)) PROVE TableInv'
    <2>1. Light(Read("get rules", t)) /\ Light(Check(t, ids, Null))
        BY LightDo DEF LightReads
    <2>2. IsSeq(PartSteps(t, ids, x)) /\ LightSteps(PartSteps(t, ids, x))
        BY <1>a, <1>c, <2>1 DEF PartSteps
    <2> QED BY <1>4, <1>c, <2>2
<1>d. CASE CreatePart(j, t)
    <2>1. PICK x, rows : x = Insert(t, rows, Base) /\ Begin(j, "create part", t, PartSteps(t, {}, x))
        BY <1>d DEF CreatePart
    <2> QED BY <1>c, <2>1, LightSql
<1>e. CASE UpdatePart(j, t)
    <2>1. PICK x, ids, v : x = Update(t, ids, v, TRUE) /\ Begin(j, "update part", t, PartSteps(t, ids, x))
        BY <1>e DEF UpdatePart
    <2> QED BY <1>c, <2>1, LightSql
<1>6. CASE UpdateRecord(j, t)
    BY <1>4, <1>6, <1>b DEF UpdateRecord
<1>7. CASE UpdateField(j, t)
    <2>1. PICK id, v : Begin(j, "patch", t, <<Find(t, id)>> \o UpdateSteps(t, id, v))
        BY <1>7 DEF UpdateField
    <2> DEFINE a == <<Find(t, id)>>  b == UpdateSteps(t, id, v)
    <2>2. IsSeq(a) /\ LightSteps(a) /\ IsSeq(b) /\ LightSteps(b)
        BY <1>b, LightDo, LightFew, OneSeq
    <2>3. Begin(j, "patch", t, a \o b)
        BY <2>1
    <2> HIDE DEF a, b
    <2>4. IsSeq(a \o b) /\ LightSteps(a \o b)
        BY <2>2, LightCat, CatOf
    <2> QED BY <1>4, <2>3, <2>4
<1>8. CASE BulkUpdate(j, t)
    BY <1>2, <1>8, LightSql DEF BulkUpdate
<1>9. CASE DeleteRecord(j, t) \/ BulkDelete(j, t)
    BY <1>2, <1>9, LightDo DEF DeleteRecord, BulkDelete
<1>10. CASE Undelete(j, t) \/ PermanentDelete(j, t)
    BY <1>2, <1>10, LightSql DEF Undelete, PermanentDelete
<1>11. CASE ImportRecords(j, t)
    <2>1. PICK rows : Begin(j, "import", t, <<[do |-> "import", tab |-> t, rows |-> rows]>>)
        BY <1>11 DEF ImportRecords
    <2>2. Light([do |-> "import", tab |-> t, rows |-> rows])
        BY LightDo DEF LightReads
    <2> QED BY <1>2, <2>1, <2>2
<1>12. CASE Seed(j, t)
    <2>1. PICK rows : Begin(j, "seed", t, <<[do |-> "seed", tab |-> t, rows |-> rows]>>)
        BY <1>12 DEF Seed
    <2>2. Light([do |-> "seed", tab |-> t, rows |-> rows])
        BY LightDo DEF LightReads
    <2> QED BY <1>2, <2>1, <2>2
<1>13. CASE Batch(j, t)
    <2>1. PICK a \in BatchOps(t), b \in BatchOps(t) :
            Begin(j, "batch", t, <<Transaction(<<a, b>>)>>) \/ Begin(j, "batch", t, <<Soft(a), Soft(b)>>)
        BY <1>13 DEF Batch
    <2>2. \A x \in BatchOps(t) : x.sql \in RowSql /\ Light(Soft(x))
        <3>1. ASSUME NEW x \in BatchOps(t) PROVE x.sql \in RowSql /\ Light(Soft(x))
            <4>1. CASE \E rows : x = Insert(t, rows, Base)
                <5>1. PICK rows : x = Insert(t, rows, Base)
                    BY <4>1
                <5>2. x.sql \in RowSql
                    BY <5>1 DEF Insert, RowSql
                <5>3. Light(Soft(x))
                    BY <5>1, LightSql
                <5> QED BY <5>2, <5>3
            <4>2. CASE \E ids, v : x = Update(t, ids, v, TRUE)
                <5>1. PICK ids, v : x = Update(t, ids, v, TRUE)
                    BY <4>2
                <5>2. x.sql \in RowSql
                    BY <5>1 DEF Update, RowSql
                <5>3. Light(Soft(x))
                    BY <5>1, LightSql
                <5> QED BY <5>2, <5>3
            <4>3. CASE \E ids : x = Delete(t, ids, TRUE)
                <5>1. PICK ids : x = Delete(t, ids, TRUE)
                    BY <4>3
                <5>2. x.sql \in RowSql
                    BY <5>1 DEF Delete, RowSql
                <5>3. Light(Soft(x))
                    BY <5>1, LightSql
                <5> QED BY <5>2, <5>3
            <4> DEFINE A == {Insert(t, rows, Base) : rows \in {rs \in NewRows : Cardinality(rs) = 1}}
                       B == {Update(t, {p[1]}, p[2], TRUE) : p \in Ids \X Ids}
                       C == {Delete(t, {id}, TRUE) : id \in Ids}
            <4>4. x \in A \cup B \cup C
                BY DEF BatchOps
            <4>5. x \in A => \E rows : x = Insert(t, rows, Base)
                OBVIOUS
            <4>6. x \in B => \E ids, v : x = Update(t, ids, v, TRUE)
                OBVIOUS
            <4>7. x \in C => \E ids : x = Delete(t, ids, TRUE)
                OBVIOUS
            <4> HIDE DEF A, B, C
            <4>8. x \in A \/ x \in B \/ x \in C
                BY <4>4
            <4> QED BY <4>1, <4>2, <4>3, <4>5, <4>6, <4>7, <4>8
        <3> QED BY <3>1
    <2>3. CASE Begin(j, "batch", t, <<Soft(a), Soft(b)>>)
        BY <1>3, <2>2, <2>3
    <2>4. CASE Begin(j, "batch", t, <<Transaction(<<a, b>>)>>)
        <3>1. PICK body : body = <<a, b>>
            OBVIOUS
        <3>2. \A i \in DOMAIN body : body[i].sql \in RowSql
            <4>1. DOMAIN body = {1, 2}
                BY <3>1
            <4>2. body[1] = a /\ body[2] = b
                BY <3>1, TwoSeq
            <4> QED BY <2>2, <4>1, <4>2
        <3>3. PICK s : s = Transaction(body)
            OBVIOUS
        <3>4. s.sql = "TRANSACTION" /\ s.body = body /\ "do" \notin DOMAIN s
            BY <3>3 DEF Transaction
        <3>5. \A u, h : ~Opens(s, u, h)
            BY <3>4 DEF Opens, Here
        <3>6. Suits("batch", t, s)
            BY <3>2, <3>4, <3>5 DEF Suits, Harmless
        <3>7. SuitSteps("batch", t, <<s>>)
            BY <3>5, <3>6, OneSuit
        <3>8. Begin(j, "batch", t, <<s>>)
            BY <2>4, <3>1, <3>3
        <3> QED BY <3>7, <3>8, BeginHole
    <2> QED BY <2>1, <2>3, <2>4
<1>14. CASE CreateRule(j, t)
    <2>1. Light(InsertSystem({Rule(t)})) /\ Light(Read("forget rules", t))
        BY LightSql, LightDo DEF LightReads
    <2> QED BY <1>3, <1>14, <2>1 DEF CreateRule
<1>15. CASE DeleteRule(j, t)
    <2>1. Light(Read("find rule", t))
        BY LightDo DEF LightReads
    <2> QED BY <1>2, <1>15, <2>1 DEF DeleteRule
<1> QED BY <1>1, <1>d, <1>e, <1>5, <1>6, <1>7, <1>8, <1>9, <1>10, <1>11, <1>12, <1>13, <1>14, <1>15

----------------------------------------------------------------------------
(***************************************************************************)
(* The reads: what they let follow suits the request, and fills what they  *)
(* would have filled.                                                      *)
(***************************************************************************)
\* What is known of the read that a request is at.
LEMMA HeadRead ==
    ASSUME NEW n, Typed(n), TableInv, NEW j \in Jobs, NEW what, At(j, what)
    PROVE  /\ jobs[j] # NoJob /\ Suits(jobs[j].op, jobs[j].tab, Head(jobs[j].todo))
           /\ "do" \in DOMAIN Head(jobs[j].todo) /\ Head(jobs[j].todo).do = what
           /\ "sql" \notin DOMAIN Head(jobs[j].todo)
           /\ what # "existing tables" => jobs[j].op # "restore"
           /\ what \notin {"find key", "find index"} => \A t, h : ~Closes(Head(jobs[j].todo), t, h)
<1> DEFINE J == jobs[j]  x == Head(J.todo)
<1>1. J # NoJob /\ "do" \in DOMAIN x /\ x.do = what
    BY DEF At
<1>2. IsSeq(J.todo) /\ J.todo # <<>> /\ SuitSteps(J.op, J.tab, J.todo)
    BY <1>1 DEF Typed, JobOK, Fine, TableInv
<1>3. Suits(J.op, J.tab, x)
    <2> HIDE DEF J
    <2> QED BY <1>2, SuitTail
<1>4. "sql" \notin DOMAIN x /\ (x.do = "existing tables" <=> J.op = "restore")
    BY <1>1, <1>3 DEF Suits
<1>5. what \notin {"find key", "find index"} => \A t, h : ~Closes(x, t, h)
    BY <1>1, <1>4 DEF Closes
<1> QED BY <1>1, <1>3, <1>4, <1>5

\* A read that finds nothing of keys, and what it lets follow.
LEMMA LightLearn ==
    ASSUME NEW n, Typed(n), TableInv, NEW j \in Jobs, NEW what, At(j, what),
           what \notin {"find key", "find index", "existing tables"},
           NEW more, IsSeq(more), LightSteps(more), NEW seen, NEW kinds,
           Go(j, more \o Tail(jobs[j].todo), seen, db, kinds)
    PROVE  TableInv'
<1>1. /\ jobs[j] # NoJob /\ jobs[j].op # "restore" /\ \A t, h : ~Closes(Head(jobs[j].todo), t, h)
    BY HeadRead
<1>2. SuitSteps(jobs[j].op, jobs[j].tab, more)
    BY <1>1, LightSuit
<1> QED BY <1>1, <1>2, LearnHole

\* A read that is passed over keeps the invariant.
LEMMA LightPass ==
    ASSUME NEW n, Typed(n), TableInv, NEW j \in Jobs, NEW what, At(j, what),
           what \notin {"find key", "find index"}, NEW seen, NEW kinds,
           Go(j, Tail(jobs[j].todo), seen, db, kinds)
    PROVE  TableInv'
<1>1. jobs[j] # NoJob /\ \A t, h : ~Closes(Head(jobs[j].todo), t, h)
    BY HeadRead
<1> QED BY <1>1, PassHole

\* A read that fails keeps the invariant.
LEMMA RefuseWhole ==
    ASSUME NEW n, Typed(n), TableInv, NEW j \in Jobs, NEW what, At(j, what), End(j, "error", db, {})
    PROVE  TableInv'
BY HeadRead, RefuseHole

\* None or one of steps, put together.
LEMMA CatFew ==
    ASSUME NEW x, NEW y
    PROVE  <<>> \o <<>> = <<>> /\ <<>> \o <<y>> = <<y>> /\ <<x>> \o <<>> = <<x>> /\ <<x>> \o <<y>> = <<x, y>>
<1> DEFINE c == <<x>> \o <<y>>
<1>1. IsSeq(<<x>>) /\ IsSeq(<<y>>) /\ Len(<<x>>) = 1 /\ Len(<<y>>) = 1 /\ <<x>>[1] = x /\ <<y>>[1] = y
    BY OneSeq
<1>2. IsSeq(c) /\ DOMAIN c = 1 .. 2 /\ Len(c) = 2 /\ \A i \in 1 .. 2 : c[i] = IF i <= 1 THEN x ELSE <<y>>[i - 1]
    BY <1>1, CatOf
<1>3. c[1] = x /\ c[2] = y
    <2>1. 2 - 1 = 1 /\ ~(2 <= 1) /\ 1 <= 1 /\ 1 \in 1 .. 2 /\ 2 \in 1 .. 2
        OBVIOUS
    <2> HIDE DEF c
    <2> QED BY <1>1, <1>2, <2>1
<1> HIDE DEF c
<1>4. c \in Seq({c[i] : i \in DOMAIN c})
    BY <1>2 DEF IsSeq
<1>5. c = <<x, y>>
    BY <1>2, <1>3, <1>4
<1>6. <<>> \o <<>> = <<>>
    OBVIOUS
<1>7. <<>> \o <<y>> = <<y>>
    OBVIOUS
<1>8. <<x>> \o <<>> = <<x>>
    OBVIOUS
<1> QED BY <1>5, <1>6, <1>7, <1>8 DEF c

\* findPrimaryKeyConstraint.
LEMMA FindKeyWhole ==
    ASSUME NEW n, Typed(n), TableInv, NEW j \in Jobs, FindKey(j)
    PROVE  TableInv'
<1>1. PICK s : s = Head(jobs[j].todo)
    OBVIOUS
<1>2. PICK op, tab : op = jobs[j].op /\ tab = jobs[j].tab
    OBVIOUS
<1>3. At(j, "find key")
    BY DEF FindKey
<1>4. jobs[j] # NoJob /\ Suits(op, tab, s) /\ "do" \in DOMAIN s /\ "sql" \notin DOMAIN s /\ s.do = "find key"
    BY <1>1, <1>2, <1>3, HeadRead
<1>5. ReadOK(s)
    BY <1>1, <1>3, AtIs
<1>6. s = [do |-> "find key", tab |-> s.tab, key |-> s.key] /\ s.key \in Base \cup {"none"}
    BY <1>4, <1>5 DEF ReadOK
<1>7. s.tab = tab /\ op = IF s.key = "none" THEN "drop key" ELSE "set key"
    BY <1>4 DEF Suits
<1>8. PICK x, y : x = Sql("DROP KEY", s.tab) /\ y = [s EXCEPT !.do = "find index"]
    OBVIOUS
<1>9. y = [do |-> "find index", tab |-> s.tab, key |-> s.key]
    <2>1. s = [do |-> s.do, tab |-> s.tab, key |-> s.key]
        BY <1>4, <1>6
    <2> QED BY <1>8, <2>1, KeyAgain
<1>10. PICK key : key = IF s.tab \in DOMAIN db.tab THEN db.tab[s.tab].key ELSE "none"
    OBVIOUS
<1>11. PICK more : more = (IF key = "none" THEN <<>> ELSE <<x>>) \o (IF s.key = "none" THEN <<>> ELSE <<y>>)
    OBVIOUS
<1>12. Go(j, more \o Tail(jobs[j].todo), jobs[j].seen, db, {})
    BY <1>1, <1>8, <1>10, <1>11 DEF FindKey, Learn
<1>13. more = IF key = "none" THEN (IF s.key = "none" THEN <<>> ELSE <<y>>)
              ELSE IF s.key = "none" THEN <<x>> ELSE <<x, y>>
    <2>1. <<>> \o <<>> = <<>> /\ <<>> \o <<y>> = <<y>> /\ <<x>> \o <<>> = <<x>> /\ <<x>> \o <<y>> = <<x, y>>
        BY CatFew
    <2> QED BY <1>11, <2>1
<1>14. "sql" \in DOMAIN x /\ x.sql = "DROP KEY" /\ x.tab = tab /\ "do" \notin DOMAIN x
    BY <1>7, <1>8 DEF Sql
<1>15. "do" \in DOMAIN y /\ y.do = "find index" /\ y.tab = tab /\ y.key = s.key /\ "sql" \notin DOMAIN y
    BY <1>7, <1>9
<1>16. \A t, h : Opens(x, t, h) => t = tab /\ h = "key"
    BY <1>14 DEF Opens, Here
<1>17. op \in Ops("key") \cup Errs("key")
    BY <1>7 DEF Ops, Errs
<1>18. Suits(op, tab, x)
    BY <1>14, <1>16, <1>17 DEF Suits
<1>19. s.key # "none" => Suits(op, tab, y) /\ Closes(y, tab, "key") /\ s.key \in Base
    BY <1>6, <1>7, <1>15 DEF Suits, Closes
<1>20. IsSeq(more) /\ SuitSteps(op, tab, more)
    <2>1. CASE key = "none" /\ s.key = "none"
        <3>1. more = <<>>
            BY <1>13, <2>1
        <3> QED BY <3>1, NoSuit, NoSteps
    <2>2. CASE key = "none" /\ s.key # "none"
        <3>1. more = <<y>>
            BY <1>13, <2>2
        <3> QED BY <1>15, <1>19, <2>2, <3>1, OneSuit
    <2>3. CASE key # "none" /\ s.key = "none"
        <3>1. more = <<x>> /\ op = "drop key"
            BY <1>7, <1>13, <2>3
        <3>2. \A h \in Holes : op \notin Errs(h)
            BY <3>1 DEF Errs, Holes
        <3> QED BY <1>18, <3>1, <3>2, OneSuit
    <2>4. CASE key # "none" /\ s.key # "none"
        <3>1. more = <<x, y>>
            BY <1>13, <2>4
        <3>2. IsSeq(more) /\ more[1] = x /\ more[2] = y
            BY <3>1, TwoSeq
        <3>3. DOMAIN more = {1, 2}
            BY <3>1
        <3>4. ToSet(more) = {x, y}
            BY <3>2, <3>3 DEF ToSet
        <3>5. Owed(more, tab, "key")
            <4>1. Closes(more[2], tab, "key") /\ "sql" \notin DOMAIN more[2]
                BY <1>15, <1>19, <2>4, <3>2
            <4>2. ASSUME NEW i \in DOMAIN more, "sql" \in DOMAIN more[i]
                  PROVE  \E k \in DOMAIN more : k > i /\ Closes(more[k], tab, "key")
                <5>1. i = 1
                    BY <3>3, <4>1, <4>2
                <5>2. 2 \in DOMAIN more /\ 2 > i
                    BY <3>3, <5>1
                <5> QED BY <4>1, <5>2
            <4> QED BY <4>2 DEF Owed
        <3>6. \A h \in Holes : op \in Errs(h) => Owed(more, tab, h)
            BY <1>15, <1>16, <3>2, <3>3, <3>5 DEF Owed
        <3>7. op # "restore"
            BY <1>7
        <3> QED BY <1>18, <1>19, <2>4, <3>2, <3>4, <3>6, <3>7 DEF SuitSteps
    <2> QED BY <2>1, <2>2, <2>3, <2>4
<1>21. ASSUME NEW t \in Tables, NEW h \in Holes, Closes(Head(jobs[j].todo), t, h) PROVE Closing(more, t, h)
    <2>1. h = "key" /\ t = s.tab /\ s.key \in Base
        BY <1>1, <1>4, <1>21 DEF Closes
    <2>2. s.key # "none"
        BY <2>1 DEF Base
    <2>3. y \in ToSet(more)
        <3>1. more = <<y>> \/ more = <<x, y>>
            BY <1>13, <2>2
        <3>2. ToSet(<<y>>) = {y} /\ ToSet(<<x, y>>) = {x, y}
            BY MembersFew
        <3> QED BY <3>1, <3>2
    <2> QED BY <1>7, <1>19, <2>1, <2>2, <2>3 DEF Closing
<1> QED BY <1>2, <1>4, <1>12, <1>20, <1>21, LearnHole

\* findUniqueIndexMatchingColumns.
LEMMA FindIndexWhole ==
    ASSUME NEW n, Typed(n), TableInv, NEW j \in Jobs, FindIndex(j)
    PROVE  TableInv'
<1>1. PICK s : s = Head(jobs[j].todo)
    OBVIOUS
<1>2. PICK op, tab : op = jobs[j].op /\ tab = jobs[j].tab
    OBVIOUS
<1>3. At(j, "find index")
    BY DEF FindIndex
<1>4. jobs[j] # NoJob /\ Suits(op, tab, s) /\ "do" \in DOMAIN s /\ "sql" \notin DOMAIN s /\ s.do = "find index"
    BY <1>1, <1>2, <1>3, HeadRead
<1>5. PICK x : x = AddKey(s.tab, s.key, s.key = "v" /\ s.tab \in DOMAIN db.tab /\ db.tab[s.tab].uniq)
    OBVIOUS
<1>6. Go(j, <<x>> \o Tail(jobs[j].todo), jobs[j].seen, db, {})
    BY <1>1, <1>5 DEF FindIndex, Learn
<1>7. "sql" \in DOMAIN x /\ x.sql = "ADD KEY" /\ x.tab = s.tab /\ ~x.soft /\ "do" \notin DOMAIN x
    BY <1>5 DEF AddKey
<1>8. \A t, h : ~Opens(x, t, h)
    BY <1>7 DEF Opens, Here
<1>9. Suits(op, tab, x)
    BY <1>7, <1>8 DEF Suits
<1>10. IsSeq(<<x>>) /\ SuitSteps(op, tab, <<x>>)
    BY <1>8, <1>9, OneSuit
<1>11. ASSUME NEW t \in Tables, NEW h \in Holes, Closes(Head(jobs[j].todo), t, h) PROVE Closing(<<x>>, t, h)
    <2>1. h = "key" /\ t = s.tab
        BY <1>1, <1>4, <1>11 DEF Closes
    <2>2. Closes(x, t, h)
        BY <1>7, <2>1 DEF Closes, Fills, Here
    <2>3. x \in ToSet(<<x>>)
        BY MembersFew
    <2> QED BY <2>2, <2>3 DEF Closing
<1> DEFINE more == <<x>>
<1>12. IsSeq(more) /\ SuitSteps(op, tab, more) /\ Go(j, more \o Tail(jobs[j].todo), jobs[j].seen, db, {})
       /\ \A t \in Tables, h \in Holes : Closes(Head(jobs[j].todo), t, h) => Closing(more, t, h)
    BY <1>6, <1>10, <1>11
<1> HIDE DEF more
<1> QED BY <1>2, <1>4, <1>12, LearnHole

\* The steps of SchemaService.
LEMMA SchemaWhole ==
    ASSUME NEW n, Typed(n), TableInv, NEW j \in Jobs, SchemaStep(j)
    PROVE  TableInv'
BY FindKeyWhole, FindIndexWhole, SchemaRequestsWhole DEF SchemaStep

\* The reads of the worker's own tables are light.
LEMMA LightSystemReads ==
    ASSUME NEW q, q = [i \in DOMAIN SysOrder |-> [do |-> "export system", kind |-> SysOrder[i]]]
    PROVE  IsSeq(q) /\ LightSteps(q)
<1>1. Len(SysOrder) \in Nat /\ DOMAIN SysOrder = 1 .. Len(SysOrder)
    BY SysOrderIs, SeqParts
<1>2. IsSeq(q) /\ DOMAIN q = DOMAIN SysOrder
    <2>1. q = [i \in 1 .. Len(SysOrder) |-> q[i]]
        BY <1>1
    <2> QED BY <1>1, <2>1, MapSeq
<1>3. \A i \in DOMAIN q : Light(q[i])
    BY LightDo
<1> QED BY <1>2, <1>3 DEF LightSteps, ToSet

\* A loop of reads is light.
LEMMA LightLoop ==
    ASSUME NEW what \in {"read columns", "export columns", "export rows"}, NEW S
    PROVE  IsSeq(Loop(what, S)) /\ LightSteps(Loop(what, S))
<1>1. PICK x : x = [do |-> what, of |-> S]
    OBVIOUS
<1>2. Light(x)
    BY <1>1, LightDo DEF LightReads
<1>3. Loop(what, S) = IF S = {} THEN <<>> ELSE <<x>>
    BY <1>1 DEF Loop
<1> QED BY <1>2, <1>3, LightFew, NoSteps, OneSeq

\* The loop over an order gives g of each of its members that are in S.
LoopOf(order, S, g, q) ==
    /\ IsSeq(order) /\ \A t \in S : t \in ToSet(order) /\ IsSeq(g[t])
    /\ IsSeq(q) /\ DOMAIN q = DOMAIN order
    /\ \A i \in DOMAIN order : q[i] = IF order[i] \in S THEN g[order[i]] ELSE <<>>

\* The steps of a loop are those of the members of S.
LEMMA LoopMembers ==
    ASSUME NEW order, NEW S, NEW g, NEW q, LoopOf(order, S, g, q)
    PROVE  IsSeq(FlattenSeq(q)) /\ \A x : x \in ToSet(FlattenSeq(q)) <=> \E t \in S : x \in ToSet(g[t])
<1>1. IsSeq(order) /\ \A t \in S : t \in ToSet(order) /\ IsSeq(g[t])
    BY DEF LoopOf
<1>2. IsSeq(q) /\ DOMAIN q = DOMAIN order
    BY DEF LoopOf
<1>3. \A i \in DOMAIN q : q[i] = IF order[i] \in S THEN g[order[i]] ELSE <<>>
    BY <1>2 DEF LoopOf
<1>4. \A i \in DOMAIN q : IsSeq(q[i])
    BY <1>1, <1>2, <1>3, NoSteps DEF ToSet
<1>5. IsSeq(FlattenSeq(q)) /\ ToSet(FlattenSeq(q)) = UNION {ToSet(q[i]) : i \in DOMAIN q}
    BY <1>2, <1>4, MembersFlatten, FlattenOf
<1>6. ToSet(<<>>) = {}
    BY MembersFew
<1>7. ASSUME NEW x PROVE x \in UNION {ToSet(q[i]) : i \in DOMAIN q} <=> \E t \in S : x \in ToSet(g[t])
    <2>1. ASSUME NEW i \in DOMAIN q, x \in ToSet(q[i]) PROVE \E t \in S : x \in ToSet(g[t])
        <3>1. order[i] \in S /\ q[i] = g[order[i]]
            BY <1>3, <1>6, <2>1
        <3> QED BY <2>1, <3>1
    <2>2. ASSUME NEW t \in S, x \in ToSet(g[t]) PROVE \E i \in DOMAIN q : x \in ToSet(q[i])
        <3>1. PICK i \in DOMAIN order : order[i] = t
            BY <1>1, <2>2 DEF ToSet
        <3>2. q[i] = g[t] /\ i \in DOMAIN q
            BY <1>2, <1>3, <2>2, <3>1
        <3> QED BY <2>2, <3>2
    <2> QED BY <2>1, <2>2
<1> QED BY <1>5, <1>7

ColumnDrops(t, S) == ForColumns(S, LAMBDA c : <<DropColumn(t, c)>>)
ColumnAdds(t, S) == ForColumns(S, LAMBDA c : <<Soft(Readd(t, c))>>)

Drops(t, S) == {DropColumn(t, c) : c \in S}
Adds(t, S) == {Soft(Readd(t, c)) : c \in S}

Recorded == {"CREATE AS RECORDED", "ADD AS RECORDED"}
PlanSql == {"DROP TABLE", "CREATE TABLE", "DROP COLUMN", "ADD COLUMN"} \cup Recorded

PlanSteps(have, want) ==
    {Sql("DROP TABLE", t) : t \in DOMAIN have \ DOMAIN want}
        \cup {Recreate(t, want[t]) : t \in DOMAIN want \ DOMAIN have}
        \cup UNION {Drops(t, have[t] \ want[t]) \cup Adds(t, want[t] \ have[t]) : t \in DOMAIN have \cap DOMAIN want}

\* The order of the columns names all of them.
LEMMA ColumnsAre == IsSeq(ColumnOrder) /\ ToSet(ColumnOrder) = Columns
BY ColumnOrderIs DEF ColumnOrder, Columns, Base, Optional, ToSet

\* The statements of a rollback's plan for the columns of one table.
LEMMA ColumnMembers ==
    ASSUME NEW t, NEW S \in SUBSET Columns
    PROVE  /\ IsSeq(ColumnDrops(t, S)) /\ ToSet(ColumnDrops(t, S)) = Drops(t, S)
           /\ IsSeq(ColumnAdds(t, S)) /\ ToSet(ColumnAdds(t, S)) = Adds(t, S)
<1> DEFINE g == [x \in Columns |-> <<DropColumn(t, x)>>]  h == [x \in Columns |-> <<Soft(Readd(t, x))>>]
           p == [i \in DOMAIN ColumnOrder |-> IF ColumnOrder[i] \in S THEN g[ColumnOrder[i]] ELSE <<>>]
           q == [i \in DOMAIN ColumnOrder |-> IF ColumnOrder[i] \in S THEN h[ColumnOrder[i]] ELSE <<>>]
<1>1. IsSeq(ColumnOrder) /\ ToSet(ColumnOrder) = Columns
    BY ColumnsAre
<1>2. ColumnDrops(t, S) = FlattenSeq(p)
    <2>1. ColumnDrops(t, S) =
            FlattenSeq([i \in DOMAIN ColumnOrder |-> IF ColumnOrder[i] \in S THEN <<DropColumn(t, ColumnOrder[i])>> ELSE <<>>])
        BY DEF ColumnDrops, ForColumns, InOrder, ColumnOrder
    <2>2. \A i \in DOMAIN ColumnOrder : g[ColumnOrder[i]] = <<DropColumn(t, ColumnOrder[i])>>
        BY <1>1 DEF ToSet
    <2> HIDE DEF g
    <2>3. [i \in DOMAIN ColumnOrder |-> IF ColumnOrder[i] \in S THEN <<DropColumn(t, ColumnOrder[i])>> ELSE <<>>] = p
        BY <2>2
    <2> QED BY <2>1, <2>3
<1>3. ColumnAdds(t, S) = FlattenSeq(q)
    <2>1. ColumnAdds(t, S) =
            FlattenSeq([i \in DOMAIN ColumnOrder |-> IF ColumnOrder[i] \in S THEN <<Soft(Readd(t, ColumnOrder[i]))>> ELSE <<>>])
        BY DEF ColumnAdds, ForColumns, InOrder, ColumnOrder
    <2>2. \A i \in DOMAIN ColumnOrder : h[ColumnOrder[i]] = <<Soft(Readd(t, ColumnOrder[i]))>>
        BY <1>1 DEF ToSet
    <2> HIDE DEF h
    <2>3. [i \in DOMAIN ColumnOrder |-> IF ColumnOrder[i] \in S THEN <<Soft(Readd(t, ColumnOrder[i]))>> ELSE <<>>] = q
        BY <2>2
    <2> QED BY <2>1, <2>3
<1>4. ASSUME NEW x PROVE IsSeq(<<x>>) /\ ToSet(<<x>>) = {x}
    BY OneSeq, MembersFew
<1>5. \A c \in S : IsSeq(g[c]) /\ ToSet(g[c]) = {DropColumn(t, c)}
    BY <1>4
<1>6. \A c \in S : IsSeq(h[c]) /\ ToSet(h[c]) = {Soft(Readd(t, c))}
    BY <1>4
<1>7. /\ DOMAIN p = DOMAIN ColumnOrder /\ DOMAIN q = DOMAIN ColumnOrder
      /\ \A i \in DOMAIN ColumnOrder : p[i] = IF ColumnOrder[i] \in S THEN g[ColumnOrder[i]] ELSE <<>>
      /\ \A i \in DOMAIN ColumnOrder : q[i] = IF ColumnOrder[i] \in S THEN h[ColumnOrder[i]] ELSE <<>>
    OBVIOUS
<1>8. IsSeq(p) /\ IsSeq(q)
    <2>1. Len(ColumnOrder) \in Nat /\ DOMAIN ColumnOrder = 1 .. Len(ColumnOrder)
        BY <1>1, SeqParts
    <2>2. p = [i \in 1 .. Len(ColumnOrder) |-> p[i]] /\ q = [i \in 1 .. Len(ColumnOrder) |-> q[i]]
        BY <2>1
    <2> HIDE DEF p, q
    <2> QED BY <2>1, <2>2, MapSeq
<1> HIDE DEF g, h, p, q
<1>a. LoopOf(ColumnOrder, S, g, p) /\ LoopOf(ColumnOrder, S, h, q)
    BY <1>1, <1>5, <1>6, <1>7, <1>8 DEF LoopOf
<1>9. IsSeq(FlattenSeq(p)) /\ \A x : x \in ToSet(FlattenSeq(p)) <=> \E c \in S : x \in ToSet(g[c])
    BY <1>a, LoopMembers
<1>10. IsSeq(FlattenSeq(q)) /\ \A x : x \in ToSet(FlattenSeq(q)) <=> \E c \in S : x \in ToSet(h[c])
    BY <1>a, LoopMembers
<1>11. \A x : x \in ToSet(FlattenSeq(p)) <=> x \in Drops(t, S)
    BY <1>5, <1>9 DEF Drops
<1>12. \A x : x \in ToSet(FlattenSeq(q)) <=> x \in Adds(t, S)
    BY <1>6, <1>10 DEF Adds
<1>13. ToSet(FlattenSeq(p)) = Drops(t, S) /\ ToSet(FlattenSeq(q)) = Adds(t, S)
    BY <1>11, <1>12
<1> QED BY <1>2, <1>3, <1>9, <1>10, <1>13

\* The statements of a rollback's plan.
LEMMA PlanMembers ==
    ASSUME NEW have, NEW want, SchemaOK(have), SchemaOK(want)
    PROVE  IsSeq(Plan(have, want)) /\ ToSet(Plan(have, want)) = PlanSteps(have, want)
<1> DEFINE A == DOMAIN have \ DOMAIN want  B == DOMAIN want \ DOMAIN have  C == DOMAIN have \cap DOMAIN want
           ga == [t \in A |-> <<Sql("DROP TABLE", t)>>]
           gb == [t \in B |-> <<Recreate(t, want[t])>>]
           gc == [t \in C |-> ColumnDrops(t, have[t] \ want[t]) \o ColumnAdds(t, want[t] \ have[t])]
           pa == [i \in DOMAIN TableOrder |-> IF TableOrder[i] \in A THEN ga[TableOrder[i]] ELSE <<>>]
           pb == [i \in DOMAIN TableOrder |-> IF TableOrder[i] \in B THEN gb[TableOrder[i]] ELSE <<>>]
           pc == [i \in DOMAIN TableOrder |-> IF TableOrder[i] \in C THEN gc[TableOrder[i]] ELSE <<>>]
           a == FlattenSeq(pa)  b == FlattenSeq(pb)  c == FlattenSeq(pc)
<1>1. Plan(have, want) = a \o b \o c
    BY DEF Plan, ForTables, InOrder, ColumnDrops, ColumnAdds
<1>2. /\ DOMAIN have \subseteq Tables /\ DOMAIN want \subseteq Tables
      /\ \A t \in DOMAIN want : want[t] \subseteq Columns
      /\ \A t \in DOMAIN have : have[t] \subseteq Columns
    BY DEF SchemaOK
<1>3. IsSeq(TableOrder) /\ ToSet(TableOrder) = Tables
    BY TableOrderIs
<1>4. ASSUME NEW x PROVE IsSeq(<<x>>) /\ ToSet(<<x>>) = {x}
    BY OneSeq, MembersFew
<1>5. \A t \in A : t \in ToSet(TableOrder) /\ IsSeq(ga[t]) /\ ToSet(ga[t]) = {Sql("DROP TABLE", t)}
    BY <1>2, <1>3, <1>4
<1>6. \A t \in B : t \in ToSet(TableOrder) /\ IsSeq(gb[t]) /\ ToSet(gb[t]) = {Recreate(t, want[t])}
    BY <1>2, <1>3, <1>4
<1>7. ASSUME NEW t \in C
      PROVE  /\ t \in ToSet(TableOrder) /\ IsSeq(gc[t])
             /\ ToSet(gc[t]) = Drops(t, have[t] \ want[t]) \cup Adds(t, want[t] \ have[t])
    <2>1. PICK S \in SUBSET Columns, U \in SUBSET Columns : S = have[t] \ want[t] /\ U = want[t] \ have[t]
        BY <1>2
    <2>2. gc[t] = ColumnDrops(t, S) \o ColumnAdds(t, U)
        BY <2>1
    <2>3. /\ IsSeq(ColumnDrops(t, S)) /\ ToSet(ColumnDrops(t, S)) = Drops(t, S)
          /\ IsSeq(ColumnAdds(t, U)) /\ ToSet(ColumnAdds(t, U)) = Adds(t, U)
        BY ColumnMembers
    <2> DEFINE x == ColumnDrops(t, S)  y == ColumnAdds(t, U)
    <2> HIDE DEF x, y
    <2>4. IsSeq(x \o y) /\ ToSet(x \o y) = ToSet(x) \cup ToSet(y)
        BY <2>3, MembersCat, CatOf DEF x, y
    <2> QED BY <1>2, <1>3, <2>1, <2>2, <2>3, <2>4 DEF x, y
<1>8. DOMAIN pa = DOMAIN TableOrder /\ DOMAIN pb = DOMAIN TableOrder /\ DOMAIN pc = DOMAIN TableOrder
    OBVIOUS
<1>9. \A i \in DOMAIN TableOrder :
        /\ pa[i] = IF TableOrder[i] \in A THEN ga[TableOrder[i]] ELSE <<>>
        /\ pb[i] = IF TableOrder[i] \in B THEN gb[TableOrder[i]] ELSE <<>>
        /\ pc[i] = IF TableOrder[i] \in C THEN gc[TableOrder[i]] ELSE <<>>
    OBVIOUS
<1>d. IsSeq(pa) /\ IsSeq(pb) /\ IsSeq(pc)
    <2>1. Len(TableOrder) \in Nat /\ DOMAIN TableOrder = 1 .. Len(TableOrder)
        BY <1>3, SeqParts
    <2>2. /\ pa = [i \in 1 .. Len(TableOrder) |-> pa[i]] /\ pb = [i \in 1 .. Len(TableOrder) |-> pb[i]]
          /\ pc = [i \in 1 .. Len(TableOrder) |-> pc[i]]
        BY <2>1
    <2> HIDE DEF pa, pb, pc
    <2> QED BY <2>1, <2>2, MapSeq
<1> HIDE DEF ga, gb, gc, pa, pb, pc, A, B, C
<1>e. LoopOf(TableOrder, A, ga, pa) /\ LoopOf(TableOrder, B, gb, pb)
    BY <1>3, <1>5, <1>6, <1>8, <1>9, <1>d DEF LoopOf
<1>f. LoopOf(TableOrder, C, gc, pc)
    BY <1>3, <1>7, <1>8, <1>9, <1>d DEF LoopOf
<1>10. IsSeq(a) /\ \A x : x \in ToSet(a) <=> \E t \in A : x \in ToSet(ga[t])
    BY <1>e, LoopMembers
<1>11. IsSeq(b) /\ \A x : x \in ToSet(b) <=> \E t \in B : x \in ToSet(gb[t])
    BY <1>e, LoopMembers
<1>12. IsSeq(c) /\ \A x : x \in ToSet(c) <=> \E t \in C : x \in ToSet(gc[t])
    BY <1>f, LoopMembers
<1> HIDE DEF a, b, c
<1>13. IsSeq(a \o b \o c) /\ ToSet(a \o b \o c) = ToSet(a) \cup ToSet(b) \cup ToSet(c)
    BY <1>10, <1>11, <1>12, MembersCat, CatOf
<1>14. \A x : x \in ToSet(a) <=> x \in {Sql("DROP TABLE", t) : t \in A}
    <2>1. ASSUME NEW x \in ToSet(a) PROVE x \in {Sql("DROP TABLE", t) : t \in A}
        <3>1. PICK t \in A : x \in ToSet(ga[t])
            BY <1>10, <2>1
        <3>2. x = Sql("DROP TABLE", t)
            BY <1>5, <3>1
        <3> QED BY <3>2
    <2>2. ASSUME NEW t \in A PROVE Sql("DROP TABLE", t) \in ToSet(a)
        <3>1. Sql("DROP TABLE", t) \in ToSet(ga[t])
            BY <1>5
        <3> QED BY <1>10, <3>1
    <2> QED BY <2>1, <2>2
<1>15. \A x : x \in ToSet(b) <=> x \in {Recreate(t, want[t]) : t \in B}
    BY <1>6, <1>11
<1>16. \A x : x \in ToSet(c) <=> x \in UNION {Drops(t, have[t] \ want[t]) \cup Adds(t, want[t] \ have[t]) : t \in C}
    BY <1>7, <1>12
<1>17. ToSet(a) = {Sql("DROP TABLE", t) : t \in A} /\ ToSet(b) = {Recreate(t, want[t]) : t \in B}
       /\ ToSet(c) = UNION {Drops(t, have[t] \ want[t]) \cup Adds(t, want[t] \ have[t]) : t \in C}
    BY <1>14, <1>15, <1>16
<1> QED BY <1>1, <1>13, <1>17 DEF PlanSteps, A, B, C

----------------------------------------------------------------------------
(***************************************************************************)
(* The steps of the other services, and the whole.                         *)
(***************************************************************************)
\* A rollback may open the holes of keys and triggers, and its plan opens no other.
LEMMA PlanSuits ==
    ASSUME NEW have, NEW want, SchemaOK(have), SchemaOK(want), NEW tab
    PROVE  IsSeq(Plan(have, want)) /\ SuitSteps("rollback", tab, Plan(have, want))
<1>1. PICK p, S : p = Plan(have, want) /\ S = PlanSteps(have, want)
    OBVIOUS
<1>2. IsSeq(p) /\ ToSet(p) = S
    BY <1>1, PlanMembers
<1>3. ASSUME NEW x \in S
      PROVE  "do" \notin DOMAIN x /\ x.sql \in PlanSql
    <2>1. CASE x \in {Sql("DROP TABLE", t) : t \in DOMAIN have \ DOMAIN want}
        <3>1. PICK t : x = Sql("DROP TABLE", t)
            BY <2>1
        <3> QED BY <3>1 DEF Sql, PlanSql, Recorded
    <2>2. CASE x \in {Recreate(t, want[t]) : t \in DOMAIN want \ DOMAIN have}
        <3>1. PICK t, cols : x = CreateTable(t, cols, "none") \/ x = Sql("CREATE AS RECORDED", t)
            BY <2>2 DEF Recreate
        <3>2. CASE x = CreateTable(t, cols, "none")
            BY <3>2 DEF CreateTable, PlanSql
        <3>3. CASE x = Sql("CREATE AS RECORDED", t)
            BY <3>3 DEF Sql, PlanSql, Recorded
        <3> QED BY <3>1, <3>2, <3>3
    <2>3. ASSUME NEW t, x \in Drops(t, have[t] \ want[t]) \cup Adds(t, want[t] \ have[t])
          PROVE  "do" \notin DOMAIN x /\ x.sql \in PlanSql
        <3>1. PICK c : x = DropColumn(t, c) \/ x = Soft(Readd(t, c))
            BY <2>3 DEF Drops, Adds
        <3>2. CASE x = DropColumn(t, c)
            BY <3>2 DEF DropColumn, PlanSql, Recorded
        <3>3. CASE x = Soft(Readd(t, c))
            <4>1. PICK y : y = Readd(t, c) /\ (y = AddColumn(t, c) \/ y = Sql("ADD AS RECORDED", t))
                BY DEF Readd
            <4>2. y.sql \in {"ADD COLUMN", "ADD AS RECORDED"} /\ "sql" \in DOMAIN y /\ "do" \notin DOMAIN y
                <5>1. CASE y = AddColumn(t, c)
                    BY <5>1 DEF AddColumn
                <5>2. CASE y = Sql("ADD AS RECORDED", t)
                    BY <5>2 DEF Sql
                <5> QED BY <4>1, <5>1, <5>2
            <4>3. x = [y EXCEPT !.soft = TRUE]
                BY <3>3, <4>1 DEF Soft
            <4>4. x.sql = y.sql /\ DOMAIN x = DOMAIN y
                BY <4>3
            <4> QED BY <4>2, <4>4 DEF PlanSql, Recorded
        <3> QED BY <3>1, <3>2, <3>3
    <2>4. x \in {Sql("DROP TABLE", t) : t \in DOMAIN have \ DOMAIN want}
            \/ x \in {Recreate(t, want[t]) : t \in DOMAIN want \ DOMAIN have}
            \/ \E t : x \in Drops(t, have[t] \ want[t]) \cup Adds(t, want[t] \ have[t])
        BY <1>1, <1>3 DEF PlanSteps
    <2> QED BY <2>1, <2>2, <2>3, <2>4
<1>4. ASSUME NEW x \in S PROVE Suits("rollback", tab, x)
    <2>1. "do" \notin DOMAIN x /\ x.sql \in PlanSql
        BY <1>3
    <2>2. ASSUME NEW t, NEW h, Opens(x, t, h) PROVE h \in {"key", "trigger"}
        BY <2>1, <2>2 DEF Opens, Here, PlanSql, Recorded
    <2>3. "rollback" \in Ops("key") /\ "rollback" \in Ops("trigger")
        BY DEF Ops
    <2> QED BY <2>1, <2>2, <2>3 DEF Suits, PlanSql, Recorded
<1>5. \A h \in Holes : "rollback" \notin Errs(h)
    BY DEF Errs, Holes
<1> QED BY <1>1, <1>2, <1>4, <1>5 DEF SuitSteps

\* The steps of VersioningService.
LEMMA VersionWhole ==
    ASSUME NEW n, Typed(n), TableInv, NEW j \in Jobs, VersionStep(j)
    PROVE  TableInv'
<1>1. CASE CaptureVersion(j)
    <2>1. PICK x : x = Do("list tables")
        OBVIOUS
    <2>2. PICK y : y = Do("last version")
        OBVIOUS
    <2>3. PICK z : z = Do("insert version")
        OBVIOUS
    <2>4. PICK q : q = <<x, y, z>>
        OBVIOUS
    <2>5. IsSeq(q) /\ ToSet(q) = {x, y, z}
        BY <2>4, ThreeIs
    <2>6. Suits("capture", TableOrder[1], x) /\ Suits("capture", TableOrder[1], y) /\ Suits("capture", TableOrder[1], z)
        BY <2>1, <2>2, <2>3 DEF Suits, Do
    <2>7. \A h \in Holes : "capture" \notin Errs(h)
        BY DEF Errs, Holes
    <2>8. SuitSteps("capture", TableOrder[1], q)
        BY <2>5, <2>6, <2>7 DEF SuitSteps
    <2>9. Begin(j, "capture", TableOrder[1], q)
        BY <1>1, <2>1, <2>2, <2>3, <2>4 DEF CaptureVersion
    <2> QED BY <2>8, <2>9, BeginHole
<1>2. CASE RollbackTo(j)
    <2>1. PICK x, y, q, to : x = Do("list tables") /\ y = [do |-> "plan rollback", to |-> to] /\ q = <<x, y>>
                             /\ Begin(j, "rollback", TableOrder[1], q)
        BY <1>2 DEF RollbackTo
    <2>2. IsSeq(q) /\ ToSet(q) = {x, y}
        BY <2>1, TwoSeq, MembersFew
    <2>3. Suits("rollback", TableOrder[1], x) /\ Suits("rollback", TableOrder[1], y)
        BY <2>1 DEF Suits, Do
    <2>4. \A h \in Holes : "rollback" \notin Errs(h)
        BY DEF Errs, Holes
    <2>5. SuitSteps("rollback", TableOrder[1], q)
        BY <2>2, <2>3, <2>4 DEF SuitSteps
    <2> QED BY <2>1, <2>5, BeginHole
<1>3. CASE ListTables(j)
    <2>1. PICK more : more = Loop("read columns", DOMAIN db.tab)
        OBVIOUS
    <2>2. At(j, "list tables") /\ Go(j, more \o Tail(jobs[j].todo), jobs[j].seen, db, {})
        BY <1>3, <2>1 DEF ListTables, Learn
    <2>3. IsSeq(more) /\ LightSteps(more)
        BY <2>1, LightLoop
    <2>4. "list tables" \notin {"find key", "find index", "existing tables"}
        OBVIOUS
    <2> QED BY <2>2, <2>3, <2>4, LightLearn
<1>4. CASE ReadColumns(j)
    <2>1. PICK names, more : more = Loop("read columns", names)
                             /\ \E seen : Go(j, more \o Tail(jobs[j].todo), seen, db, {})
        BY <1>4 DEF ReadColumns, Learn
    <2>2. At(j, "read columns")
        BY <1>4 DEF ReadColumns
    <2>3. IsSeq(more) /\ LightSteps(more)
        BY <2>1, LightLoop
    <2>4. "read columns" \notin {"find key", "find index", "existing tables"}
        OBVIOUS
    <2> QED BY <2>1, <2>2, <2>3, <2>4, LightLearn
<1>5. CASE ReadLastVersion(j)
    <2>1. PICK more : more = <<>> /\ \E seen : Go(j, more \o Tail(jobs[j].todo), seen, db, {})
        BY <1>5 DEF ReadLastVersion, Learn
    <2>2. At(j, "last version")
        BY <1>5 DEF ReadLastVersion
    <2>3. IsSeq(more) /\ LightSteps(more)
        BY <2>1, NoSteps, LightFew DEF LightSteps, ToSet
    <2>4. "last version" \notin {"find key", "find index", "existing tables"}
        OBVIOUS
    <2> QED BY <2>1, <2>2, <2>3, <2>4, LightLearn
<1>6. CASE InsertVersion(j)
    <2>1. At(j, "insert version") /\ Go(j, Tail(jobs[j].todo), jobs[j].seen, db, {"versions"})
        BY <1>6 DEF InsertVersion
    <2>2. "insert version" \notin {"find key", "find index"}
        OBVIOUS
    <2> QED BY <2>1, <2>2, LightPass
<1>7. CASE PlanRollback(j)
    <2>1. PICK want : want = Head(jobs[j].todo).to
        OBVIOUS
    <2>2. PICK more : more = Plan(jobs[j].seen.schema, want)
        OBVIOUS
    <2>3. At(j, "plan rollback") /\ \E seen : Go(j, more \o Tail(jobs[j].todo), seen, db, {})
        BY <1>7, <2>1, <2>2 DEF PlanRollback, Learn
    <2>4. SchemaOK(jobs[j].seen.schema) /\ SchemaOK(want)
        BY <2>1, <2>3, AtIs DEF SeenOK, ReadOK
    <2>5. "plan rollback" \notin {"find key", "find index"}
        OBVIOUS
    <2>6. /\ jobs[j] # NoJob /\ Suits(jobs[j].op, jobs[j].tab, Head(jobs[j].todo))
          /\ "do" \in DOMAIN Head(jobs[j].todo) /\ Head(jobs[j].todo).do = "plan rollback"
          /\ \A t, h : ~Closes(Head(jobs[j].todo), t, h)
        BY <2>3, <2>5, HeadRead
    <2>7. jobs[j].op = "rollback"
        BY <2>6 DEF Suits
    <2>8. IsSeq(more) /\ SuitSteps(jobs[j].op, jobs[j].tab, more)
        BY <2>2, <2>4, <2>7, PlanSuits
    <2> QED BY <2>3, <2>6, <2>8, LearnHole
<1> QED BY <1>1, <1>2, <1>3, <1>4, <1>5, <1>6, <1>7 DEF VersionStep

\* A read that lets nothing more follow.
LEMMA LearnNo ==
    ASSUME NEW n, Typed(n), TableInv, NEW j \in Jobs, NEW what, At(j, what),
           what \notin {"find key", "find index", "existing tables"}, NEW seen, Learn(j, <<>>, seen)
    PROVE  TableInv'
<1>1. PICK more : more = <<>>
    OBVIOUS
<1>2. Go(j, more \o Tail(jobs[j].todo), seen, db, {})
    BY <1>1 DEF Learn
<1>3. IsSeq(more) /\ LightSteps(more)
    BY <1>1, NoSteps, LightFew DEF LightSteps, ToSet
<1> QED BY <1>2, <1>3, LightLearn

\* A read that lets light steps follow.
LEMMA LearnLight ==
    ASSUME NEW n, Typed(n), TableInv, NEW j \in Jobs, NEW what, At(j, what),
           what \notin {"find key", "find index", "existing tables"},
           NEW more, IsSeq(more), LightSteps(more), NEW seen, Learn(j, more, seen)
    PROVE  TableInv'
<1>2. Go(j, more \o Tail(jobs[j].todo), seen, db, {})
    BY DEF Learn
<1> QED BY <1>2, LightLearn

\* The steps of an export, up to its last.
LEMMA ExportSteps ==
    ASSUME NEW op \in Exports, NEW tab, NEW reads, IsSeq(reads), LightSteps(reads), NEW sys, IsSeq(sys), LightSteps(sys),
           NEW more, more = reads \o sys \o <<[do |-> "end"]>>
    PROVE  IsSeq(more) /\ SuitSteps(op, tab, more)
<1>1. PICK x, y, z : x = reads \o sys /\ y = [do |-> "end"] /\ z = <<y>>
    OBVIOUS
<1>2. IsSeq(x) /\ LightSteps(x)
    BY <1>1, LightCat, CatOf
<1>3. op # "restore" /\ \A h \in Holes : op \notin Errs(h)
    BY DEF Exports, Errs, Holes
<1>4. Suits(op, tab, y)
    BY <1>1, <1>3 DEF Suits
<1>5. "sql" \notin DOMAIN y
    BY <1>1
<1>6. IsSeq(z) /\ SuitSteps(op, tab, z)
    BY <1>1, <1>4, <1>5, OneSuit
<1>7. SuitSteps(op, tab, x)
    BY <1>2, <1>3, LightSuit
<1>8. IsSeq(x \o z) /\ SuitSteps(op, tab, x \o z)
    BY <1>2, <1>3, <1>6, <1>7, SuitCat, CatOf
<1> QED BY <1>1, <1>8

\* An export has the names of the tables.
LEMMA ListToExportWhole ==
    ASSUME NEW n, Typed(n), TableInv, NEW j \in Jobs, ListToExport(j)
    PROVE  TableInv'
<1>1. PICK rows, cols, link :
        /\ rows = Loop("export rows", DOMAIN db.tab) /\ cols = Loop("export columns", DOMAIN db.tab)
        /\ link = [do |-> "export links"]
    OBVIOUS
<1>2. PICK links : links = <<link>>
    OBVIOUS
<1>3. PICK reads : reads = IF jobs[j].op = "export stream" THEN cols \o links \o rows ELSE rows \o links
    OBVIOUS
<1>4. PICK sys : sys = [i \in DOMAIN SysOrder |-> [do |-> "export system", kind |-> SysOrder[i]]]
    OBVIOUS
<1>5. PICK more : more = reads \o sys \o <<[do |-> "end"]>>
    OBVIOUS
<1>6. At(j, "list tables") /\ jobs[j].op \in Exports /\ Go(j, more \o Tail(jobs[j].todo), jobs[j].seen, db, {})
    BY <1>1, <1>2, <1>3, <1>4, <1>5 DEF ListToExport, Learn
<1>7. IsSeq(rows) /\ LightSteps(rows) /\ IsSeq(cols) /\ LightSteps(cols)
    BY <1>1, LightLoop
<1>8. IsSeq(links) /\ LightSteps(links)
    <2>1. Light(link)
        BY <1>1, LightDo DEF LightReads, Do
    <2> QED BY <1>2, <2>1, LightFew, OneSeq
<1>9. IsSeq(reads) /\ LightSteps(reads)
    <2>1. PICK a, b, c : a = cols \o links /\ b = a \o rows /\ c = rows \o links
        OBVIOUS
    <2>2. IsSeq(a) /\ LightSteps(a) /\ IsSeq(c) /\ LightSteps(c)
        BY <1>7, <1>8, <2>1, LightCat, CatOf
    <2>3. IsSeq(b) /\ LightSteps(b)
        BY <1>7, <2>1, <2>2, LightCat, CatOf
    <2> QED BY <1>3, <2>1, <2>2, <2>3
<1>10. IsSeq(sys) /\ LightSteps(sys)
    BY <1>4, LightSystemReads
<1>11. IsSeq(more) /\ SuitSteps(jobs[j].op, jobs[j].tab, more)
    BY <1>5, <1>6, <1>9, <1>10, ExportSteps
<1>12. jobs[j] # NoJob /\ \A t, h : ~Closes(Head(jobs[j].todo), t, h)
    <2>1. "list tables" \notin {"find key", "find index"}
        OBVIOUS
    <2> QED BY <1>6, <2>1, HeadRead
<1> QED BY <1>6, <1>11, <1>12, LearnHole

\* What an export reads after the rows of a table is light.
LEMMA AfterRowsLight ==
    ASSUME NEW j, NEW t, NEW names
    PROVE  IsSeq(AfterRows(j, t, names)) /\ LightSteps(AfterRows(j, t, names))
<1>1. PICK a, b : a = (IF jobs[j].op = "export data" THEN Loop("export columns", {t}) ELSE <<>>)
                  /\ b = Loop("export rows", names \ {t})
    OBVIOUS
<1>2. IsSeq(a) /\ LightSteps(a) /\ IsSeq(b) /\ LightSteps(b)
    <2>1. IsSeq(<<>>) /\ LightSteps(<<>>)
        BY NoSteps, LightFew DEF LightSteps, ToSet
    <2> QED BY <1>1, <2>1, LightLoop
<1>3. IsSeq(a \o b) /\ LightSteps(a \o b)
    BY <1>2, LightCat, CatOf
<1> QED BY <1>1, <1>3 DEF AfterRows

\* A restore has the names of the tables: one transaction is left to do.
LEMMA ReadExistingWhole ==
    ASSUME NEW n, Typed(n), TableInv, NEW j \in Jobs, ReadExisting(j)
    PROVE  TableInv'
<1>1. At(j, "existing tables") /\ jobs[j] # NoJob /\ Suits(jobs[j].op, jobs[j].tab, Head(jobs[j].todo))
      /\ "do" \in DOMAIN Head(jobs[j].todo) /\ Head(jobs[j].todo).do = "existing tables"
      /\ \A t, h : ~Closes(Head(jobs[j].todo), t, h)
    <2>1. At(j, "existing tables") /\ "existing tables" \notin {"find key", "find index"}
        BY DEF ReadExisting
    <2> QED BY <2>1, HeadRead
<1>2. jobs[j].op = "restore"
    BY <1>1 DEF Suits
<1>3. CASE Refuse(j)
    BY <1>1, <1>3, RefuseWhole DEF Refuse
<1>4. CASE ~Refuse(j)
    <2>1. PICK x : "sql" \in DOMAIN x /\ x.sql = "TRANSACTION" /\ "do" \notin DOMAIN x
                   /\ \E seen : Learn(j, <<x>>, seen)
        BY <1>4 DEF ReadExisting
    <2>2. PICK more : more = <<x>>
        OBVIOUS
    <2>3. PICK seen : Go(j, more \o Tail(jobs[j].todo), seen, db, {})
        BY <2>1, <2>2 DEF Learn
    <2>4. \A t, h : ~Opens(x, t, h)
        BY <2>1 DEF Opens, Here
    <2>5. Suits(jobs[j].op, jobs[j].tab, x)
        BY <1>2, <2>1, <2>4 DEF Suits
    <2>6. IsSeq(more) /\ SuitSteps(jobs[j].op, jobs[j].tab, more)
        BY <2>2, <2>4, <2>5, OneSuit
    <2> QED BY <1>1, <2>3, <2>6, LearnHole
<1> QED BY <1>3, <1>4

\* An export is done.
LEMMA EndExportWhole ==
    ASSUME NEW n, Typed(n), TableInv, NEW j \in Jobs, EndExport(j)
    PROVE  TableInv'
<1>1. At(j, "end") /\ End(j, "ok", db, {})
    BY DEF EndExport
<1>2. PICK todo : todo = <<>>
    OBVIOUS
<1>3. Go(j, todo, jobs[j].seen, db, {})
    BY <1>1, <1>2 DEF Go
<1>4. jobs[j] # NoJob /\ jobs[j].op \in Exports
    BY <1>1, HeadRead DEF Suits
<1>5. \A q, t, h : ~Held(jobs[j], q, t, h)
    BY <1>4 DEF Held, Works, Exports, Altering, WholeSchema
<1>6. SuitSteps(jobs[j].op, jobs[j].tab, todo)
    BY <1>2, NoSuit
<1>7. DOMAIN db.tab \subseteq Tables
    BY DEF Typed, Database
<1> QED BY <1>3, <1>4, <1>5, <1>6, <1>7, GoHole

\* The steps of exports and restores.
LEMMA BackupWhole ==
    ASSUME NEW n, Typed(n), TableInv, NEW j \in Jobs, BackupStep(j)
    PROVE  TableInv'
<1>0. /\ "export columns" \notin {"find key", "find index", "existing tables"}
      /\ "export links" \notin {"find key", "find index", "existing tables"}
      /\ "export rows" \notin {"find key", "find index", "existing tables"}
      /\ "export system" \notin {"find key", "find index", "existing tables"}
    OBVIOUS
<1>1. CASE Export(j)
    <2>1. PICK x, op : x = Do("list tables") /\ op \in Exports /\ Begin(j, op, TableOrder[1], <<x>>)
        BY <1>1 DEF Export, Do
    <2>2. Light(x)
        BY <2>1, LightDo DEF LightReads
    <2>3. PICK q : q = <<x>>
        OBVIOUS
    <2>4. IsSeq(q) /\ LightSteps(q)
        BY <2>2, <2>3, LightFew, OneSeq
    <2>5. op # "restore"
        BY <2>1 DEF Exports
    <2> QED BY <2>1, <2>3, <2>4, <2>5, LightRequest
<1>2. CASE ListToExport(j)
    BY <1>2, ListToExportWhole
<1>3. CASE ExportColumns(j)
    <2>1. PICK names, more : more = Loop("export columns", names) /\ \E seen : Learn(j, more, seen)
        BY <1>3 DEF ExportColumns
    <2>2. At(j, "export columns")
        BY <1>3 DEF ExportColumns
    <2>3. IsSeq(more) /\ LightSteps(more)
        BY <2>1, LightLoop
    <2> QED BY <1>0, <2>1, <2>2, <2>3, LearnLight
<1>4. CASE ExportLinks(j)
    <2>1. At(j, "export links") /\ \E seen : Learn(j, <<>>, seen)
        BY <1>4 DEF ExportLinks
    <2> QED BY <1>0, <2>1, LearnNo
<1>5. CASE ExportRows(j)
    <2>1. PICK t, names, more : more = AfterRows(j, t, names) /\ \E seen : Learn(j, more, seen)
        BY <1>5 DEF ExportRows
    <2>2. At(j, "export rows")
        BY <1>5 DEF ExportRows
    <2>3. IsSeq(more) /\ LightSteps(more)
        BY <2>1, AfterRowsLight
    <2> QED BY <1>0, <2>1, <2>2, <2>3, LearnLight
<1>6. CASE ExportRowsFails(j)
    BY <1>6, RefuseWhole DEF ExportRowsFails, Refuse
<1>7. CASE ExportSystem(j)
    <2>1. At(j, "export system")
        BY <1>7 DEF ExportSystem
    <2>2. (\E seen : Learn(j, <<>>, seen)) \/ \E seen : Go(j, Tail(jobs[j].todo), seen, db, {})
        BY <1>7 DEF ExportSystem
    <2>3. CASE \E seen : Learn(j, <<>>, seen)
        BY <1>0, <2>1, <2>3, LearnNo
    <2>4. CASE \E seen : Go(j, Tail(jobs[j].todo), seen, db, {})
        BY <1>0, <2>1, <2>4, LightPass
    <2> QED BY <2>2, <2>3, <2>4
<1>8. CASE EndExport(j)
    BY <1>8, EndExportWhole
<1>9. CASE CutExport(j)
    BY <1>9, RefuseWhole DEF CutExport
<1>10. CASE Restore(j)
    <2>1. PICK form, x : x = [do |-> "existing tables", form |-> form, from |-> archive]
                         /\ Begin(j, "restore", TableOrder[1], <<x>>)
        BY <1>10 DEF Restore
    <2>2. Suits("restore", TableOrder[1], x)
        BY <2>1 DEF Suits
    <2>3. "sql" \notin DOMAIN x
        BY <2>1
    <2>4. PICK q : q = <<x>>
        OBVIOUS
    <2>5. SuitSteps("restore", TableOrder[1], q)
        BY <2>2, <2>3, <2>4, OneSuit
    <2> QED BY <2>1, <2>4, <2>5, BeginHole
<1>11. CASE ReadExisting(j)
    BY <1>11, ReadExistingWhole
<1> QED BY <1>1, <1>2, <1>3, <1>4, <1>5, <1>6, <1>7, <1>8, <1>9, <1>10, <1>11 DEF BackupStep

\* The statements that delete records are light.
LEMMA RemovalLight ==
    ASSUME NEW job, NEW soft
    PROVE  IsSeq(Removal(job, soft)) /\ LightSteps(Removal(job, soft))
<1> DEFINE s == Head(job.todo)  one == job.op = "delete"
           x == SetDeleted(s.tab, s.ids, TRUE, one)
           y == Find(s.tab, CHOOSE id \in s.ids : TRUE)
           z == Delete(s.tab, s.ids, FALSE)
           b == IF one THEN <<y>> ELSE <<>>
           c == <<z>>
<1>1. Light(x) /\ Light(y) /\ Light(z)
    BY LightSql, LightDo
<1>2. Removal(job, soft) = IF soft THEN <<x>> ELSE b \o c
    BY DEF Removal
<1> HIDE DEF s, one, x, y, z
<1>3. \A u : Light(u) => IsSeq(<<u>>) /\ LightSteps(<<u>>)
    BY OneSeq, LightFew
<1>4. IsSeq(<<>>) /\ LightSteps(<<>>)
    BY NoSteps, LightFew DEF LightSteps, ToSet
<1>5. IsSeq(b) /\ LightSteps(b) /\ IsSeq(c) /\ LightSteps(c)
    BY <1>1, <1>3, <1>4
<1> HIDE DEF b, c
<1>6. IsSeq(b \o c) /\ LightSteps(b \o c)
    BY <1>5, LightCat, CatOf
<1> QED BY <1>1, <1>2, <1>3, <1>6

\* getColumns.
LEMMA GetColumnsWhole ==
    ASSUME NEW n, Typed(n), TableInv, NEW j \in Jobs, GetColumns(j)
    PROVE  TableInv'
<1>1. PICK t : t = Head(jobs[j].todo).tab
    OBVIOUS
<1>2. At(j, "get columns") /\ "get columns" \notin {"find key", "find index", "existing tables"}
    BY DEF GetColumns
<1>3. PICK soft, seen : \/ Learn(j, Removal(jobs[j], soft), seen)
                        \/ Learn(j, <<Read("keep columns", t)>> \o Removal(jobs[j], soft), seen)
    BY <1>1 DEF GetColumns
<1>4. PICK a, b, x : a = Removal(jobs[j], soft) /\ x = Read("keep columns", t) /\ b = <<x>>
    OBVIOUS
<1>5. IsSeq(a) /\ LightSteps(a)
    BY <1>4, RemovalLight
<1>6. IsSeq(b) /\ LightSteps(b)
    <2>1. Light(x)
        BY <1>4, LightDo DEF LightReads
    <2> QED BY <1>4, <2>1, LightFew, OneSeq
<1>7. IsSeq(b \o a) /\ LightSteps(b \o a)
    BY <1>5, <1>6, LightCat, CatOf
<1>8. Learn(j, a, seen) \/ Learn(j, b \o a, seen)
    BY <1>3, <1>4
<1> QED BY <1>2, <1>5, <1>7, <1>8, LearnLight

\* A batch of an import.
LEMMA ImportWhole ==
    ASSUME NEW n, Typed(n), TableInv, NEW j \in Jobs, ImportBatch(j)
    PROVE  TableInv'
<1>1. PICK s : s = Head(jobs[j].todo)
    OBVIOUS
<1>2. At(j, "import") /\ "import" \notin {"find key", "find index", "existing tables"}
    BY DEF ImportBatch
<1>3. /\ jobs[j] # NoJob /\ Suits(jobs[j].op, jobs[j].tab, s) /\ "do" \in DOMAIN s /\ s.do = "import"
      /\ "sql" \notin DOMAIN s
    BY <1>1, <1>2, HeadRead
<1>4. s.tab \in Tables /\ s.rows \in NewRows
    BY <1>1, <1>2, <1>3, AtIs DEF ReadOK
<1>5. s.rows \subseteq Rows /\ (\A r \in s.rows : ~r.gone) /\ IsFiniteSet(s.rows)
    BY <1>4, NewRowsAre
<1>6. PICK all, rs : all = Insert(s.tab, s.rows, Base) /\ rs = SetToSeq(s.rows)
    OBVIOUS
<1>7. PICK each : each = [i \in DOMAIN rs |-> Soft(Insert(s.tab, {rs[i]}, Base))]
    OBVIOUS
<1>8. \/ \E e \in After(db, all) : Go(j, Tail(jobs[j].todo), jobs[j].seen, e, {})
      \/ Learn(j, each, jobs[j].seen)
      \/ Go(j, each \o Tail(jobs[j].todo), jobs[j].seen, db, {})
    BY <1>1, <1>6, <1>7 DEF ImportBatch
<1>9. IsSeq(each) /\ LightSteps(each)
    <2>1. Len(rs) \in Nat /\ DOMAIN rs = 1 .. Len(rs)
        BY <1>5, <1>6, SetToSeqOf, SeqParts
    <2>2. IsSeq(each) /\ DOMAIN each = DOMAIN rs
        <3>1. each = [i \in 1 .. Len(rs) |-> each[i]]
            BY <1>7, <2>1
        <3> QED BY <2>1, <3>1, MapSeq
    <2>3. \A i \in DOMAIN each : Light(each[i])
        BY <1>7, <2>2, LightSql
    <2> QED BY <2>2, <2>3 DEF LightSteps, ToSet
<1>10. CASE \E e \in After(db, all) : Go(j, Tail(jobs[j].todo), jobs[j].seen, e, {})
    <2>1. PICK e \in After(db, all) : Go(j, Tail(jobs[j].todo), jobs[j].seen, e, {})
        BY <1>10
    <2>2. StatementOK(all) /\ all.sql = "INSERT" /\ "sql" \in DOMAIN all /\ "do" \notin DOMAIN all
        <3>1. SingleOK(all) /\ all.sql = "INSERT" /\ StepOK(all)
            BY <1>4, <1>5, <1>6, InsertOK
        <3>2. "sql" \in DOMAIN all /\ "do" \notin DOMAIN all
            BY <1>6 DEF Insert
        <3> QED BY <3>1, <3>2 DEF StepOK
    <2>3. \A t, h : ~Opens(all, t, h)
        BY <2>2 DEF Opens, Here
    <2>4. Suits(jobs[j].op, jobs[j].tab, all)
        BY <2>2, <2>3 DEF Suits
    <2>5. all.sql \in RowSql
        BY <2>2 DEF RowSql
    <2>6. s.do \notin {"find key", "find index"}
        BY <1>3
    <2>7. /\ "do" \in DOMAIN Head(jobs[j].todo) /\ Head(jobs[j].todo).do \notin {"find key", "find index"}
          /\ "sql" \notin DOMAIN Head(jobs[j].todo)
        BY <1>1, <1>3, <2>6
    <2> QED BY <1>3, <2>1, <2>2, <2>4, <2>5, <2>7, ExecuteHole
<1>11. CASE Learn(j, each, jobs[j].seen)
    BY <1>2, <1>9, <1>11, LearnLight
<1>12. CASE Go(j, each \o Tail(jobs[j].todo), jobs[j].seen, db, {})
    BY <1>2, <1>9, <1>12, LightLearn
<1> QED BY <1>8, <1>10, <1>11, <1>12

\* The steps that look something up before a write.
LEMMA LookupWhole ==
    ASSUME NEW n, Typed(n), TableInv, NEW j \in Jobs, Lookup(j)
    PROVE  TableInv'
<1>0. \A what \in {"find", "get rules", "keep rules", "forget rules", "check", "keep columns", "seed", "find rule"} :
        what \notin {"find key", "find index", "existing tables"}
    OBVIOUS
<1>1. CASE FindRecord(j)
    <2>1. At(j, "find") /\ (Learn(j, <<>>, jobs[j].seen) \/ End(j, "error", db, {}))
        BY <1>1 DEF FindRecord, Refuse
    <2> QED BY <1>0, <2>1, LearnNo, RefuseWhole
<1>2. CASE GetRules(j)
    <2>1. PICK x, seen : x = Read("keep rules", Head(jobs[j].todo).tab)
                         /\ (Learn(j, <<>>, seen) \/ Learn(j, <<x>>, seen))
        BY <1>2 DEF GetRules
    <2>2. At(j, "get rules")
        BY <1>2 DEF GetRules
    <2>3. PICK q : q = <<x>>
        OBVIOUS
    <2>4. IsSeq(q) /\ LightSteps(q)
        <3>1. Light(x)
            BY <2>1, LightDo DEF LightReads
        <3> QED BY <2>3, <3>1, LightFew, OneSeq
    <2>5. CASE Learn(j, <<>>, seen)
        BY <1>0, <2>2, <2>5, LearnNo
    <2>6. CASE Learn(j, q, seen)
        BY <1>0, <2>2, <2>4, <2>6, LearnLight
    <2> QED BY <2>1, <2>3, <2>5, <2>6
<1>3. CASE KeepRules(j)
    BY <1>0, <1>3, LearnNo DEF KeepRules
<1>4. CASE ForgetRules(j)
    BY <1>0, <1>4, LearnNo DEF ForgetRules
<1>5. CASE CheckRecord(j)
    <2>1. At(j, "check")
        BY <1>5 DEF CheckRecord
    <2>2. \/ End(j, "error", db, {})
          \/ \E seen : Learn(j, <<>>, seen)
          \/ \E seen : Go(j, Tail(jobs[j].todo), seen, db, {})
        BY <1>5 DEF CheckRecord, Refuse
    <2>3. CASE End(j, "error", db, {})
        BY <2>1, <2>3, RefuseWhole
    <2>4. CASE \E seen : Learn(j, <<>>, seen)
        BY <1>0, <2>1, <2>4, LearnNo
    <2>5. CASE \E seen : Go(j, Tail(jobs[j].todo), seen, db, {})
        BY <1>0, <2>1, <2>5, LightPass
    <2> QED BY <2>2, <2>3, <2>4, <2>5
<1>6. CASE GetColumns(j)
    BY <1>6, GetColumnsWhole
<1>7. CASE KeepColumns(j)
    BY <1>0, <1>7, LearnNo DEF KeepColumns
<1>8. CASE ImportBatch(j)
    BY <1>8, ImportWhole
<1>9. CASE SeedRows(j)
    <2>1. PICK s, x, mapped : s = Head(jobs[j].todo) /\ x = Insert(s.tab, s.rows, {"v"})
                              /\ Learn(j, IF mapped THEN <<x>> ELSE <<>>, jobs[j].seen)
        BY <1>9 DEF SeedRows
    <2>2. At(j, "seed")
        BY <1>9 DEF SeedRows
    <2>3. PICK q : q = IF mapped THEN <<x>> ELSE <<>>
        OBVIOUS
    <2>4. IsSeq(q) /\ LightSteps(q)
        <3>1. Light(x)
            BY <2>1, LightSql
        <3>2. IsSeq(<<>>) /\ LightSteps(<<>>)
            BY NoSteps, LightFew DEF LightSteps, ToSet
        <3>3. IsSeq(<<x>>) /\ LightSteps(<<x>>)
            BY <3>1, LightFew, OneSeq
        <3> QED BY <2>3, <3>2, <3>3
    <2>5. Learn(j, q, jobs[j].seen)
        BY <2>1, <2>3
    <2> QED BY <1>0, <2>2, <2>4, <2>5, LearnLight
<1>10. CASE FindRule(j)
    <2>1. PICK t, x, y, q : x = DeleteSystem(RuleKind, {Rule(t)}, FALSE) /\ y = Read("forget rules", t) /\ q = <<x, y>>
                            /\ (Learn(j, q, jobs[j].seen) \/ End(j, "error", db, {}))
        BY <1>10 DEF FindRule, Refuse
    <2>2. At(j, "find rule")
        BY <1>10 DEF FindRule
    <2>3. IsSeq(q) /\ LightSteps(q)
        <3>1. Light(x) /\ Light(y)
            BY <2>1, LightSql, LightDo DEF LightReads
        <3> QED BY <2>1, <3>1, LightFew, TwoSeq
    <2> QED BY <1>0, <2>1, <2>2, <2>3, LearnLight, RefuseWhole
<1> QED BY <1>1, <1>2, <1>3, <1>4, <1>5, <1>6, <1>7, <1>8, <1>9, <1>10 DEF Lookup

\* A statement is executed, refused or lost.
LEMMA StatementWhole ==
    ASSUME NEW n, Typed(n), TableInv, NEW j \in Jobs, DbStep(j)
    PROVE  TableInv'
<1>1. PICK s : s = Head(jobs[j].todo)
    OBVIOUS
<1>2. Statement(j)
    BY DEF DbStep, Execute, Rejected, Fault
<1>3. jobs[j] # NoJob /\ StatementOK(s) /\ "sql" \in DOMAIN s
    BY <1>1, <1>2, StatementIs DEF Statement
<1>4. Suits(jobs[j].op, jobs[j].tab, s)
    <2>1. PICK op, tab, q : op = jobs[j].op /\ tab = jobs[j].tab /\ q = jobs[j].todo
        OBVIOUS
    <2>2. IsSeq(q) /\ q # <<>> /\ SuitSteps(op, tab, q)
        BY <1>3, <2>1 DEF Typed, JobOK, Fine, TableInv
    <2> QED BY <1>1, <2>1, <2>2, SuitTail
<1>5. CASE Execute(j)
    <2>1. PICK e \in After(db, s) : Go(j, Tail(jobs[j].todo), jobs[j].seen, e, {})
        BY <1>1, <1>5 DEF Execute
    <2> QED BY <1>1, <1>3, <1>4, <2>1, ExecuteHole
<1>6. ASSUME NEW seen, Fail(j, seen) PROVE TableInv'
    <2>1. CASE s.soft
        <3>1. Go(j, Tail(jobs[j].todo), seen, db, {})
            BY <1>1, <1>6, <2>1 DEF Fail
        <3>2. "do" \notin DOMAIN s
            BY <1>3, <1>4 DEF Suits
        <3>3. \A t, h : ~Closes(s, t, h)
            BY <2>1, <3>2 DEF Closes, Fills
        <3> QED BY <1>1, <1>3, <3>1, <3>3, PassHole
    <2>2. CASE ~s.soft
        BY <1>1, <1>3, <1>6, <2>2, RefuseHole DEF Fail
    <2> QED BY <2>1, <2>2
<1> QED BY <1>2, <1>5, <1>6 DEF DbStep, Rejected, Fault

\* The worker stops: what every request worked on is told of the error.
LEMMA StopWhole ==
    ASSUME NEW n, Typed(n), TableInv, Stop
    PROVE  TableInv'
<1>1. PICK said : said = {<<jobs[k], "error">> : k \in {i \in Jobs : jobs[i] # NoJob}}
    OBVIOUS
<1>2. Tell(db, said) /\ db' = db /\ \A k \in Jobs : jobs'[k] = NoJob
    BY <1>1 DEF Stop
<1>3. DOMAIN db.tab \subseteq Tables
    BY DEF Typed, Database
<1>4. ASSUME NEW t \in DOMAIN db.tab, NEW h \in Holes, Hole(db.tab[t], h) PROVE Told(t, h)'
    <2>1. told[t] \subseteq told'[t] /\ \A x \in said : Works(x[1], t) => <<x[1].op, x[2]>> \in told'[t]
        BY <1>2, <1>3, TellIs
    <2>2. Explained(t, h)
        BY <1>4 DEF TableInv
    <2>3. CASE Told(t, h)
        BY <2>1, <2>3 DEF Told
    <2>4. ASSUME NEW k \in Jobs, jobs[k] # NoJob, Held(jobs[k], jobs[k].todo, t, h) PROVE Told(t, h)'
        <3>1. PICK x : x = <<jobs[k], "error">> /\ x \in said
            BY <1>1, <2>4
        <3>2. x[1] = jobs[k] /\ x[2] = "error"
            BY <3>1
        <3>3. <<jobs[k].op, "error">> \in told'[t]
            BY <2>1, <2>4, <3>1, <3>2 DEF Held
        <3>4. PICK y : y = <<jobs[k].op, "error">>
            OBVIOUS
        <3>5. y[1] = jobs[k].op /\ y[2] = "error" /\ y \in told'[t]
            BY <3>3, <3>4
        <3>6. jobs[k].op \in Ops(h) \cup Errs(h)
            BY <2>4 DEF Held
        <3> QED BY <3>5, <3>6 DEF Told
    <2> QED BY <2>2, <2>3, <2>4 DEF Explained
<1>5. \A k \in Jobs : jobs'[k] # NoJob => SuitSteps(jobs'[k].op, jobs'[k].tab, jobs'[k].todo)
    BY <1>2
<1> QED BY <1>2, <1>4, <1>5 DEF TableInv, Explained

\* What changes none of the project's variables keeps the invariant.
LEMMA RestWhole ==
    ASSUME TableInv, UNCHANGED dbVars
    PROVE  TableInv'
BY DEF dbVars, TableInv, Explained, Told, Held, Works, NoJob

\* Every step of the project keeps the invariant.
LEMMA StepWhole == ASSUME TypeInv, TableInv, [Next]_vars PROVE TableInv'
<1>1. Len(versions) \in Nat
    BY SeqParts DEF TypeInv, VersionsOK
<1>2. PICK n \in Nat : n = Len(versions)
    BY <1>1
<1>3. Typed(n)
    BY <1>2 DEF TypeInv, Typed
<1>4. ASSUME NEW j \in Jobs, DbStep(j) \/ SchemaStep(j) \/ TimescaleStep(j) \/ DataRequest(j) \/ VersionStep(j)
                                \/ BackupStep(j) \/ Lookup(j)
      PROVE  TableInv'
    BY <1>3, <1>4, StatementWhole, SchemaWhole, TimescaleWhole, DataWhole, VersionWhole, BackupWhole, LookupWhole
<1>5. CASE Expire
    BY <1>5, RestWhole DEF Expire
<1>6. CASE Restart
    BY <1>3, <1>6, StopWhole DEF Restart
<1>7. CASE UNCHANGED vars
    BY <1>7, RestWhole DEF vars
<1> QED BY <1>4, <1>5, <1>6, <1>7 DEF Next, Step

\* The first tables are whole.
LEMMA InitWhole == ASSUME Init PROVE TableInv
<1>1. PICK s \in Scenarios : db = s.db
    BY DEF Init, DbInit
<1>2. ASSUME NEW t \in DOMAIN db.tab, NEW h \in Holes PROVE ~Hole(db.tab[t], h)
    <2>1. Whole(db.tab[t])
        BY <1>1, ProjectAssumption
    <2> QED BY <2>1 DEF Whole, Hole, Holes
<1>3. \A k \in Jobs : jobs[k] = NoJob
    BY DEF Init, DbInit
<1> QED BY <1>2, <1>3 DEF TableInv

\* The invariant is stronger than what was promised.
LEMMA WholeSays == ASSUME TableInv PROVE TableWholeExplained
<1> SUFFICES ASSUME NEW t \in DOMAIN db.tab, \A j \in Jobs : jobs[j] # NoJob => ~Works(jobs[j], t)
             PROVE  /\ db.tab[t].key = "none" => \E x \in told[t] :
                        \/ x[1] \in {"rollback", "create without key", "create bare", "drop key", "alter base"}
                        \/ x = <<"restore", "ok">> \/ (x[1] \in {"set key"} /\ x[2] = "error")
                    /\ ~db.tab[t].trigger => \E x \in told[t] :
                        \/ x[1] \in {"rollback", "create without trigger", "create bare"} \/ x = <<"restore", "ok">>
                        \/ (x[1] \in {"create table", "create without key"} /\ x[2] = "error")
                    /\ "compression" \in db.tab[t].time /\ "compress" \notin db.tab[t].time => \E x \in told[t] :
                        \/ x[1] \in {"remove compression"} \/ x = <<"restore", "ok">>
                        \/ (x[1] \in {"compress"} /\ x[2] = "error")
                    /\ "view" \in db.tab[t].time /\ "refresh" \notin db.tab[t].time => \E x \in told[t] :
                        \/ x[1] \in {"plain aggregate", "remove refresh"} \/ x = <<"restore", "ok">>
                        \/ (x[1] \in {"aggregate"} /\ x[2] = "error")
    BY DEF TableWholeExplained
<1>1. ASSUME NEW h \in Holes, Hole(db.tab[t], h) PROVE Told(t, h)
    BY <1>1 DEF TableInv, Explained, Held
<1>2. db.tab[t].key = "none" => Told(t, "key")
    BY <1>1 DEF Hole, Holes
<1>3. ~db.tab[t].trigger => Told(t, "trigger")
    BY <1>1 DEF Hole, Holes
<1>4. "compression" \in db.tab[t].time /\ "compress" \notin db.tab[t].time => Told(t, "compress")
    BY <1>1 DEF Hole, Holes
<1>5. "view" \in db.tab[t].time /\ "refresh" \notin db.tab[t].time => Told(t, "refresh")
    BY <1>1 DEF Hole, Holes
<1> QED BY <1>2, <1>3, <1>4, <1>5 DEF Told, Ops, Errs

\* A table without its key, its trigger or its policies was left so by an answer that the
\* requests of SchemaService, TimescaleService, Versioning and Backups gave about it.
THEOREM WholeExplained == Spec => []TableWholeExplained
<1>1. TypeInv /\ TableInv /\ [Next]_vars => TypeInv' /\ TableInv'
    BY NextTyped, StepWhole
<1>2. Init => TypeInv /\ TableInv
    BY InitTyped, InitWhole
<1>3. TableInv => TableWholeExplained
    BY WholeSays
<1> QED BY <1>1, <1>2, <1>3, PTL DEF Spec

\* The steps of a request, and the reads among them.
Asks(j) == \E op, t, todo : Begin(j, op, t, todo)

ReadSteps(j) ==
    \/ FindKey(j) \/ FindIndex(j)
    \/ ListTables(j) \/ ReadColumns(j) \/ ReadLastVersion(j) \/ InsertVersion(j) \/ PlanRollback(j)
    \/ ListToExport(j) \/ ExportColumns(j) \/ ExportLinks(j) \/ ExportRows(j)
    \/ ExportRowsFails(j) \/ ExportSystem(j) \/ EndExport(j) \/ CutExport(j) \/ ReadExisting(j)
    \/ Lookup(j)

Acts(j) ==
    \/ DbStep(j) \/ SchemaStep(j) \/ TimescaleStep(j) \/ DataRequest(j)
    \/ VersionStep(j) \/ BackupStep(j) \/ Lookup(j)

\* Every step of a request is its beginning, a statement or a read.
LEMMA ActsAre ==
    ASSUME NEW j \in Jobs, Acts(j)
    PROVE  (jobs[j] = NoJob /\ Asks(j)) \/ DbStep(j) \/ ReadSteps(j)
<1>1. ASSUME NEW op, NEW t, NEW todo, Begin(j, op, t, todo) PROVE jobs[j] = NoJob /\ Asks(j)
    BY <1>1 DEF Begin, Idle, Asks
<1>2. ASSUME NEW op, NEW t, NEW todo, Request(j, op, t, todo) PROVE jobs[j] = NoJob /\ Asks(j)
    BY <1>1, <1>2 DEF Request, GatewayRequest
<1>3. CASE DbStep(j) \/ Lookup(j)
    BY <1>3 DEF ReadSteps
<1>4. CASE SchemaStep(j)
    BY <1>2, <1>4, AlterColumnsIs DEF SchemaStep, CreateNewTable, DropTable, TruncateTable, AddLink, DropLink,
                      AddIndex, DropIndex, ReadSteps
<1>5. CASE TimescaleStep(j)
    BY <1>2, <1>5 DEF TimescaleStep, AddTimescale, ChangeTimescale, CreateHypertable,
                      AddContinuousAggregate, AddCompressionPolicy, AddRetentionPolicy, RemovePolicy, UpdatePolicy,
                      DropContinuousAggregate, DropHypertable
<1>6. CASE DataRequest(j)
    BY <1>1, <1>6 DEF DataRequest, Create, CreatePart, UpdatePart, UpdateRecord, UpdateField, BulkUpdate, DeleteRecord,
                      BulkDelete,
                      Undelete, PermanentDelete, ImportRecords, Seed, Batch, CreateRule, DeleteRule
<1>7. CASE VersionStep(j)
    BY <1>1, <1>7 DEF VersionStep, CaptureVersion, RollbackTo, ReadSteps
<1>8. CASE BackupStep(j)
    BY <1>1, <1>8 DEF BackupStep, Export, Restore, ReadSteps
<1> QED BY <1>3, <1>4, <1>5, <1>6, <1>7, <1>8 DEF Acts

\* A step of a request that is under way.
Moves(j, kinds) ==
    jobs[j] # NoJob /\ \E e : (\E todo, seen : Go(j, todo, seen, e, kinds)) \/ \E said : End(j, said, e, kinds)

\* It becomes another request of the same operation, or it is answered.
LEMMA MovesBecome ==
    ASSUME NEW j \in Jobs, NEW kinds, Moves(j, kinds)
    PROVE  jobs[j] # NoJob /\ \E next, e : Become(j, next, e, kinds)
BY DEF Moves, Go, End

\* Going on is one way, being answered the other.
LEMMA GoMoves == ASSUME NEW j, jobs[j] # NoJob, NEW todo, NEW seen, NEW e, NEW kinds, Go(j, todo, seen, e, kinds) PROVE Moves(j, kinds)
BY DEF Moves

\* An answered request moves too.
LEMMA EndMoves == ASSUME NEW j, jobs[j] # NoJob, NEW said, NEW e, NEW kinds, End(j, said, e, kinds) PROVE Moves(j, kinds)
BY DEF Moves

\* A statement or a read moves its request, and tells the others of an inserted version.
LEMMA ReadsMove ==
    ASSUME NEW j \in Jobs, DbStep(j) \/ ReadSteps(j)
    PROVE  Moves(j, IF InsertVersion(j) THEN {"versions"} ELSE {})
<1>1. ASSUME NEW what, At(j, what) PROVE jobs[j] # NoJob
    BY <1>1 DEF At
<1>2. ASSUME NEW more, NEW seen, Learn(j, more, seen), jobs[j] # NoJob PROVE Moves(j, {})
    BY <1>2, GoMoves DEF Learn
<1>3. ASSUME Refuse(j), jobs[j] # NoJob PROVE Moves(j, {})
    BY <1>3, EndMoves DEF Refuse
<1>4. CASE InsertVersion(j)
    BY <1>1, <1>4, GoMoves DEF InsertVersion
<1>5. ASSUME ~InsertVersion(j) PROVE Moves(j, {})
    <2>1. CASE DbStep(j)
        <3>1. Statement(j) => jobs[j] # NoJob
            BY DEF Statement
        <3>2. ASSUME NEW seen, Fail(j, seen), jobs[j] # NoJob PROVE Moves(j, {})
            BY <3>2, GoMoves, EndMoves DEF Fail
        <3>3. CASE Execute(j)
            BY <3>1, <3>3, GoMoves DEF Execute
        <3>4. CASE Rejected(j)
            BY <3>1, <3>2, <3>4 DEF Rejected
        <3>5. CASE Fault(j)
            BY <3>1, <3>2, <3>5 DEF Fault
        <3> QED BY <2>1, <3>3, <3>4, <3>5 DEF DbStep
    <2>2. CASE FindKey(j) \/ FindIndex(j) \/ ListTables(j) \/ ReadColumns(j) \/ ReadLastVersion(j) \/ PlanRollback(j)
        BY <1>1, <1>2, <2>2 DEF FindKey, FindIndex, ListTables, ReadColumns, ReadLastVersion, PlanRollback
    <2>3. CASE ListToExport(j) \/ ExportColumns(j) \/ ExportLinks(j) \/ ExportRows(j) \/ ExportRowsFails(j)
        BY <1>1, <1>2, <1>3, <2>3 DEF ListToExport, ExportColumns, ExportLinks, ExportRows, ExportRowsFails
    <2>4. CASE ExportSystem(j) \/ EndExport(j) \/ CutExport(j) \/ ReadExisting(j)
        BY <1>1, <1>2, <1>3, <2>4, GoMoves, EndMoves DEF ExportSystem, EndExport, CutExport, ReadExisting
    <2>5. CASE FindRecord(j) \/ GetRules(j) \/ KeepRules(j) \/ ForgetRules(j)
        BY <1>1, <1>2, <1>3, <2>5 DEF FindRecord, GetRules, KeepRules, ForgetRules
    <2>6. CASE CheckRecord(j) \/ GetColumns(j) \/ KeepColumns(j)
        BY <1>1, <1>2, <1>3, <2>6, GoMoves DEF CheckRecord, GetColumns, KeepColumns
    <2>7. CASE ImportBatch(j) \/ SeedRows(j) \/ FindRule(j)
        BY <1>1, <1>2, <1>3, <2>7, GoMoves DEF ImportBatch, SeedRows, FindRule
    <2> QED BY <1>5, <2>1, <2>2, <2>3, <2>4, <2>5, <2>6, <2>7 DEF ReadSteps, Lookup
<1> QED BY <1>4, <1>5

\* The request that a step moves, after it.
LEMMA GoIs ==
    ASSUME NEW n, Typed(n), NEW j \in Jobs, jobs[j] # NoJob, NEW todo, NEW seen, NEW e, NEW kinds, Go(j, todo, seen, e, kinds)
    PROVE  /\ db' = e
           /\ todo = <<>> => jobs'[j] = NoJob
           /\ todo # <<>> => /\ jobs'[j] # NoJob /\ answer' = answer
                             /\ jobs'[j] = [op |-> jobs[j].op, tab |-> jobs[j].tab, todo |-> todo, seen |-> seen, met |-> jobs[j].met]
<1>1. CASE todo = <<>>
    <2>1. Become(j, NoJob, e, kinds)
        BY <1>1 DEF Go, End
    <2> QED BY <1>1, <2>1, OthersAre
<1>2. CASE todo # <<>>
    <2>1. Become(j, [jobs[j] EXCEPT !.todo = todo, !.seen = seen], e, kinds) /\ answer' = answer
        BY <1>2 DEF Go
    <2>2. db' = e /\ jobs'[j] = [jobs[j] EXCEPT !.todo = todo, !.seen = seen]
        BY <2>1, OthersAre
    <2>3. JobOK(jobs[j], n)
        BY DEF Typed
    <2>4. PICK op, tab, q, s, m : jobs[j] = [op |-> op, tab |-> tab, todo |-> q, seen |-> s, met |-> m]
        BY <2>3 DEF JobOK
    <2>5. PICK a : a = [jobs[j] EXCEPT !.todo = todo]
        OBVIOUS
    <2>6. a = [op |-> op, tab |-> tab, todo |-> todo, seen |-> s, met |-> m]
        BY <2>4, <2>5
    <2>7. jobs'[j] = [a EXCEPT !.seen = seen]
        BY <2>2, <2>5
    <2>8. jobs'[j] = [op |-> op, tab |-> tab, todo |-> todo, seen |-> seen, met |-> m]
        BY <2>6, <2>7
    <2>9. op = jobs[j].op /\ tab = jobs[j].tab /\ m = jobs[j].met
        BY <2>4
    <2>10. jobs'[j] # NoJob
        BY <1>2, <2>8 DEF NoJob
    <2> QED BY <1>2, <2>1, <2>2, <2>8, <2>9, <2>10
<1> QED BY <1>1, <1>2

\* A request that has just begun.
LEMMA BeginIs ==
    ASSUME NEW n, Typed(n), NEW j \in Jobs, NEW op, NEW t, NEW todo, Begin(j, op, t, todo)
    PROVE  /\ db' = db /\ jobs[j] = NoJob /\ \A k \in Jobs \ {j} : jobs'[k] = jobs[k]
           /\ jobs'[j] = [op |-> op, tab |-> t, todo |-> todo, seen |-> Nothing, met |-> {}]
BY DEF Begin, Idle, Typed

\* What the other requests see of a step.
Sees(a, b) ==
    \E m : /\ b = [op |-> a.op, tab |-> a.tab, todo |-> a.todo, seen |-> a.seen, met |-> m]
           /\ a.met \subseteq m /\ Changed(db, db') \subseteq m
           /\ versions' # versions => "versions" \in m

\* The other requests keep what they have read, and learn what the step changed.
LEMMA Others ==
    ASSUME NEW n, Typed(n), NEW j \in Jobs, Acts(j), versions' = versions \/ InsertVersion(j), NEW k \in Jobs \ {j}
    PROVE  /\ jobs[k] = NoJob => jobs'[k] = NoJob
           /\ jobs[k] # NoJob => jobs'[k] # NoJob /\ Sees(jobs[k], jobs'[k])
<1>1. CASE jobs[j] = NoJob /\ Asks(j)
    <2>1. db' = db /\ jobs'[k] = jobs[k]
        BY <1>1, BeginIs DEF Asks
    <2>2. versions' = versions
        BY <1>1 DEF InsertVersion, At
    <2>3. Changed(db, db') = {}
        BY <2>1 DEF Changed
    <2>4. ASSUME jobs[k] # NoJob PROVE Sees(jobs[k], jobs'[k])
        <3>1. jobs[k] = [op |-> jobs[k].op, tab |-> jobs[k].tab, todo |-> jobs[k].todo, seen |-> jobs[k].seen, met |-> jobs[k].met]
            BY <2>4 DEF Typed, JobOK
        <3> QED BY <2>1, <2>2, <2>3, <3>1 DEF Sees
    <2> QED BY <2>1, <2>4
<1>2. CASE DbStep(j) \/ ReadSteps(j)
    <2>1. PICK kinds : Moves(j, kinds) /\ (InsertVersion(j) => "versions" \in kinds)
        BY <1>2, ReadsMove
    <2>2. PICK next, e : jobs[j] # NoJob /\ Become(j, next, e, kinds)
        BY <2>1, MovesBecome
    <2>3. db' = e /\ (jobs[k] = NoJob => jobs'[k] = NoJob)
        BY <2>2, OthersAre
    <2>4. ASSUME jobs[k] # NoJob
          PROVE  /\ jobs'[k] # NoJob
                 /\ jobs'[k] = [op |-> jobs[k].op, tab |-> jobs[k].tab, todo |-> jobs[k].todo,
                                seen |-> jobs[k].seen, met |-> jobs[k].met \cup kinds \cup Changed(db, e)]
        BY <2>2, <2>4, OthersAre
    <2> QED BY <2>1, <2>3, <2>4 DEF Sees
<1> QED BY <1>1, <1>2, ActsAre

\* A request under way keeps its operation and its table until it is answered.
LEMMA SameOp ==
    ASSUME NEW n, Typed(n), NEW j \in Jobs, Acts(j), jobs[j] # NoJob, jobs'[j] # NoJob
    PROVE  jobs'[j].op = jobs[j].op /\ jobs'[j].tab = jobs[j].tab /\ jobs'[j].met = jobs[j].met
<1>1. DbStep(j) \/ ReadSteps(j)
    BY ActsAre
<1>2. PICK kinds : Moves(j, kinds)
    BY <1>1, ReadsMove
<1>3. PICK e : (\E todo, seen : Go(j, todo, seen, e, kinds)) \/ \E said : End(j, said, e, kinds)
    BY <1>2 DEF Moves
<1>4. ASSUME NEW said, End(j, said, e, kinds) PROVE FALSE
    <2>1. Become(j, NoJob, e, kinds)
        BY <1>4 DEF End
    <2> QED BY <2>1, OthersAre
<1>5. PICK todo, seen : Go(j, todo, seen, e, kinds)
    BY <1>3, <1>4
<1>6. jobs'[j] = [op |-> jobs[j].op, tab |-> jobs[j].tab, todo |-> todo, seen |-> seen, met |-> jobs[j].met]
    BY <1>5, GoIs
<1> QED BY <1>6

\* The read that a request is at decides the action.
LEMMA ReadIs ==
    ASSUME NEW j \in Jobs, Acts(j), NEW what, At(j, what), "sql" \notin DOMAIN Head(jobs[j].todo)
    PROVE  /\ what = "list tables" => ListTables(j) \/ ListToExport(j)
           /\ what = "read columns" => ReadColumns(j)
           /\ what = "last version" => ReadLastVersion(j)
           /\ what = "insert version" => InsertVersion(j)
           /\ what = "plan rollback" => PlanRollback(j)
           /\ what = "find" => FindRecord(j)
           /\ what = "get rules" => GetRules(j)
           /\ what = "keep rules" => KeepRules(j)
           /\ what = "forget rules" => ForgetRules(j)
           /\ what = "check" => CheckRecord(j)
           /\ what = "find rule" => FindRule(j)
<1>1. jobs[j] # NoJob /\ Head(jobs[j].todo).do = what
    BY DEF At
<1>2. ~DbStep(j)
    BY DEF DbStep, Execute, Rejected, Fault, Statement
<1>3. ReadSteps(j)
    BY <1>1, <1>2, ActsAre
<1>4. \A w : At(j, w) => w = what
    BY <1>1 DEF At
<1>5. /\ FindKey(j) => what = "find key"
      /\ FindIndex(j) => what = "find index"
      /\ ListTables(j) \/ ListToExport(j) => what = "list tables"
      /\ ReadColumns(j) => what = "read columns"
      /\ ReadLastVersion(j) => what = "last version"
      /\ InsertVersion(j) => what = "insert version"
      /\ PlanRollback(j) => what = "plan rollback"
    BY <1>4 DEF FindKey, FindIndex, ListTables, ListToExport, ReadColumns, ReadLastVersion, InsertVersion, PlanRollback
<1>6. /\ ExportColumns(j) => what = "export columns"
      /\ ExportLinks(j) => what = "export links"
      /\ ExportRows(j) \/ ExportRowsFails(j) \/ CutExport(j) => what = "export rows"
      /\ ExportSystem(j) => what = "export system"
      /\ EndExport(j) => what = "end"
      /\ ReadExisting(j) => what = "existing tables"
    BY <1>4 DEF ExportColumns, ExportLinks, ExportRows, ExportRowsFails, CutExport, ExportSystem, EndExport, ReadExisting
<1>7. /\ FindRecord(j) => what = "find"
      /\ GetRules(j) => what = "get rules"
      /\ KeepRules(j) => what = "keep rules"
      /\ ForgetRules(j) => what = "forget rules"
      /\ CheckRecord(j) => what = "check"
      /\ FindRule(j) => what = "find rule"
    BY <1>4 DEF FindRecord, GetRules, KeepRules, ForgetRules, CheckRecord, FindRule
<1>8. /\ GetColumns(j) => what = "get columns"
      /\ KeepColumns(j) => what = "keep columns"
      /\ ImportBatch(j) => what = "import"
      /\ SeedRows(j) => what = "seed"
    BY <1>4 DEF GetColumns, KeepColumns, ImportBatch, SeedRows
<1> QED BY <1>3, <1>5, <1>6, <1>7, <1>8 DEF ReadSteps, Lookup

\* The operations of new requests that the properties are about.
LEMMA AskedOps ==
    ASSUME NEW n, Typed(n), NEW j \in Jobs, Acts(j), jobs[j] = NoJob
    PROVE  /\ jobs'[j].op = "capture" => CaptureVersion(j)
           /\ jobs'[j].op = "rollback" => RollbackTo(j)
           /\ jobs'[j].op = "create" => \E t \in Tables : Create(j, t)
           /\ jobs'[j].op = "update" => \E t \in Tables : UpdateRecord(j, t)
           /\ jobs'[j].op = "patch" => \E t \in Tables : UpdateField(j, t)
           /\ jobs'[j].op = "create rule" => \E t \in Tables : CreateRule(j, t)
           /\ jobs'[j].op = "delete rule" => \E t \in Tables : DeleteRule(j, t)
<1> DEFINE Special == {"capture", "rollback", "create", "update", "patch", "create rule", "delete rule"}
<1>0. ASSUME NEW op, NEW t, NEW todo, Begin(j, op, t, todo) PROVE jobs'[j].op = op
    <2>1. jobs'[j] = [op |-> op, tab |-> t, todo |-> todo, seen |-> Nothing, met |-> {}]
        BY <1>0, BeginIs
    <2> QED BY <2>1
<1>1. \A op, t, todo : Begin(j, op, t, todo) => jobs'[j].op = op
    BY <1>0
<1>2. \A op, t, todo : Request(j, op, t, todo) => jobs'[j].op = op
    BY <1>1 DEF Request, GatewayRequest
<1>3. ~DbStep(j) /\ ~Lookup(j)
    BY DEF DbStep, Execute, Rejected, Fault, Statement, Lookup, At, FindRecord, GetRules, KeepRules, ForgetRules,
           CheckRecord, GetColumns, KeepColumns, ImportBatch, SeedRows, FindRule
<1>4. CASE SchemaStep(j)
    <2>1. ~FindKey(j) /\ ~FindIndex(j)
        BY DEF FindKey, FindIndex, At
    <2>2. PICK t \in Tables : \/ CreateNewTable(j, t) \/ AlterColumns(j, t) \/ DropTable(j, t) \/ TruncateTable(j, t)
                              \/ AddLink(j, t) \/ DropLink(j, t) \/ AddIndex(j, t) \/ DropIndex(j, t)
        BY <1>4, <2>1 DEF SchemaStep
    <2>3. CASE AlterColumns(j, t)
        <3>1. PICK op, cs : Alteration(op, cs) /\ jobs'[j].op = op
            BY <1>2, <2>3, AlterColumnsIs
        <3>2. op \in {"alter", "alter base", "set key", "drop key"}
            BY <3>1 DEF Alteration
        <3> QED BY <3>1, <3>2
    <2>a. CASE CreateNewTable(j, t)
        <3>1. PICK op, key, stamped : jobs'[j].op = op /\ op = Creation(key, stamped)
            BY <1>2, <2>a DEF CreateNewTable
        <3>2. op \in Creations
            BY <3>1 DEF Creation, Creations
        <3> QED BY <3>1, <3>2 DEF Creations
    <2>4. CASE ~AlterColumns(j, t) /\ ~CreateNewTable(j, t)
        BY <1>2, <2>2, <2>4 DEF DropTable, TruncateTable, AddLink, DropLink, AddIndex, DropIndex
    <2> QED BY <2>3, <2>4, <2>a
<1>5. CASE TimescaleStep(j)
    BY <1>2, <1>5 DEF TimescaleStep, AddTimescale, ChangeTimescale, CreateHypertable,
                      AddContinuousAggregate, AddCompressionPolicy, AddRetentionPolicy, RemovePolicy, UpdatePolicy,
                      DropContinuousAggregate, DropHypertable
<1>6. CASE DataRequest(j)
    <2>1. PICK t \in Tables :
            \/ Create(j, t) \/ UpdateRecord(j, t) \/ UpdateField(j, t) \/ BulkUpdate(j, t)
            \/ CreatePart(j, t) \/ UpdatePart(j, t)
            \/ DeleteRecord(j, t) \/ BulkDelete(j, t) \/ Undelete(j, t) \/ PermanentDelete(j, t)
            \/ ImportRecords(j, t) \/ Seed(j, t) \/ Batch(j, t) \/ CreateRule(j, t) \/ DeleteRule(j, t)
        BY <1>6 DEF DataRequest
    <2>2. /\ Create(j, t) => jobs'[j].op = "create"
          /\ UpdateRecord(j, t) => jobs'[j].op = "update"
          /\ UpdateField(j, t) => jobs'[j].op = "patch"
          /\ CreateRule(j, t) => jobs'[j].op = "create rule"
          /\ DeleteRule(j, t) => jobs'[j].op = "delete rule"
        BY <1>1 DEF Create, UpdateRecord, UpdateField, CreateRule, DeleteRule
    <2>3. BulkUpdate(j, t) \/ DeleteRecord(j, t) \/ BulkDelete(j, t) \/ Undelete(j, t) \/ PermanentDelete(j, t)
            \/ ImportRecords(j, t) \/ Seed(j, t) \/ Batch(j, t) \/ CreatePart(j, t) \/ UpdatePart(j, t)
            => jobs'[j].op \notin Special
        BY <1>1 DEF CreatePart, UpdatePart, BulkUpdate, DeleteRecord, BulkDelete, Undelete, PermanentDelete, ImportRecords, Seed, Batch
    <2> HIDE DEF Special
    <2>4. CASE Create(j, t)
        BY <2>2, <2>4
    <2>5. CASE UpdateRecord(j, t)
        BY <2>2, <2>5
    <2>6. CASE UpdateField(j, t)
        BY <2>2, <2>6
    <2>7. CASE CreateRule(j, t)
        BY <2>2, <2>7
    <2>8. CASE DeleteRule(j, t)
        BY <2>2, <2>8
    <2>9. CASE jobs'[j].op \notin Special
        BY <2>9 DEF Special
    <2> QED BY <2>1, <2>3, <2>4, <2>5, <2>6, <2>7, <2>8, <2>9
<1>7. CASE VersionStep(j)
    <2>1. CaptureVersion(j) \/ RollbackTo(j)
        BY <1>7 DEF VersionStep, ListTables, ReadColumns, ReadLastVersion, InsertVersion, PlanRollback, At
    <2>2. /\ CaptureVersion(j) => jobs'[j].op = "capture"
          /\ RollbackTo(j) => jobs'[j].op = "rollback"
        BY <1>1 DEF CaptureVersion, RollbackTo
    <2> QED BY <2>1, <2>2
<1>8. CASE BackupStep(j)
    <2>1. Export(j) \/ Restore(j)
        BY <1>8 DEF BackupStep, ListToExport, ExportColumns, ExportLinks, ExportRows, ExportRowsFails, CutExport,
                    ExportSystem, EndExport, ReadExisting, At
    <2>2. jobs'[j].op \in Exports \cup {"restore"}
        BY <1>1, <2>1 DEF Export, Restore
    <2> QED BY <2>2 DEF Exports
<1> QED BY <1>3, <1>4, <1>5, <1>6, <1>7, <1>8 DEF Acts

----------------------------------------------------------------------------
(***************************************************************************)
(* What a request has read of the schema: the tables of c are as c has     *)
(* them in the database d, and with the tables S that are still to be read *)
(* they are all there are, as long as nobody changed the schema.           *)
(***************************************************************************)
Snap(d, c, S) ==
    /\ DOMAIN d.tab = DOMAIN c \cup S
    /\ \A t \in DOMAIN c \ S : c[t] = d.tab[t].cols

SnapOf(d, job, S) == "schema" \notin job.met => Snap(d, job.seen.schema, S)

Gathering(d, job, rest) ==
    \/ Head(job.todo) = Do("list tables") /\ Tail(job.todo) = rest /\ job.seen.schema = <<>>
    \/ \E S \in SUBSET Tables :
        S # {} /\ job.todo = <<[do |-> "read columns", of |-> S]>> \o rest /\ SnapOf(d, job, S)
    \/ job.todo = rest /\ SnapOf(d, job, {})

\* Databases of the same schema have the same tables with the same columns.
LEMMA SameColumns ==
    ASSUME NEW d, NEW e, Database(d), Database(e), "schema" \notin Changed(d, e)
    PROVE  DOMAIN e.tab = DOMAIN d.tab /\ \A t \in DOMAIN d.tab : e.tab[t].cols = d.tab[t].cols
<1>1. Shape(d) = Shape(e)
    BY DEF Changed
<1>2. DOMAIN Shape(d) = DOMAIN d.tab /\ DOMAIN Shape(e) = DOMAIN e.tab
    BY DEF Shape
<1>3. ASSUME NEW t \in DOMAIN d.tab PROVE e.tab[t].cols = d.tab[t].cols
    <2>1. t \in DOMAIN e.tab /\ [d.tab[t] EXCEPT !.rows = {}] = [e.tab[t] EXCEPT !.rows = {}]
        BY <1>1, <1>2 DEF Shape
    <2>2. d.tab[t] \in Table /\ e.tab[t] \in Table
        BY <2>1 DEF Database
    <2>3. ASSUME NEW T \in Table PROVE [T EXCEPT !.rows = {}].cols = T.cols
        BY DEF Table
    <2> HIDE DEF Table
    <2> QED BY <2>1, <2>2, <2>3
<1> QED BY <1>1, <1>2, <1>3

\* What a request has read stays right while the others change no schema.
LEMMA SnapKeeps ==
    ASSUME NEW a, NEW b, Sees(a, b), Database(db), Database(db)', NEW S, SnapOf(db, a, S)
    PROVE  SnapOf(db', b, S)
<1>1. PICK m : /\ b = [op |-> a.op, tab |-> a.tab, todo |-> a.todo, seen |-> a.seen, met |-> m]
               /\ a.met \subseteq m /\ Changed(db, db') \subseteq m
    BY DEF Sees
<1>2. b.met = m /\ b.seen = a.seen
    BY <1>1
<1>3. ASSUME "schema" \notin m PROVE Snap(db', a.seen.schema, S)
    <2>1. Snap(db, a.seen.schema, S)
        BY <1>1, <1>3 DEF SnapOf
    <2>2. DOMAIN db'.tab = DOMAIN db.tab /\ \A t \in DOMAIN db.tab : db'.tab[t].cols = db.tab[t].cols
        BY <1>1, <1>3, SameColumns
    <2> QED BY <2>1, <2>2 DEF Snap
<1> QED BY <1>2, <1>3 DEF SnapOf

\* So does what a request is gathering.
LEMMA GatheringKeeps ==
    ASSUME NEW a, NEW b, Sees(a, b), Database(db), Database(db)', NEW rest, Gathering(db, a, rest)
    PROVE  Gathering(db', b, rest)
<1>1. b.todo = a.todo /\ b.seen = a.seen
    BY DEF Sees
<1>2. \A S : SnapOf(db, a, S) => SnapOf(db', b, S)
    BY SnapKeeps
<1> QED BY <1>1, <1>2 DEF Gathering

\* A step before others.
LEMMA ConsIs ==
    ASSUME NEW x, NEW rest, IsSeq(rest)
    PROVE  /\ <<x>> \o rest # <<>> /\ Head(<<x>> \o rest) = x /\ Tail(<<x>> \o rest) = rest
           /\ <<>> \o rest = rest
<1> DEFINE q == <<x>> \o rest  T == Tail(q)
<1>1. IsSeq(<<x>>) /\ Len(<<x>>) = 1 /\ <<x>>[1] = x
    BY OneSeq
<1>2. /\ IsSeq(q) /\ Len(rest) \in Nat /\ Len(q) = 1 + Len(rest)
      /\ \A i \in 1 .. 1 + Len(rest) : q[i] = IF i <= 1 THEN <<x>>[i] ELSE rest[i - 1]
    BY <1>1, CatOf
<1> HIDE DEF q
<1>3. q # <<>> /\ q[1] = x
    BY <1>1, <1>2, SeqParts
<1>4. IsSeq(T) /\ Head(q) = x /\ Len(T) = Len(rest) /\ \A i \in 1 .. Len(rest) : T[i] = q[i + 1]
    BY <1>2, <1>3, TailOf
<1> HIDE DEF T
<1>5. \A i \in 1 .. Len(rest) : T[i] = rest[i]
    BY <1>2, <1>4
<1>6. T = rest
    <2>1. T = [i \in 1 .. Len(rest) |-> T[i]] /\ rest = [i \in 1 .. Len(rest) |-> rest[i]]
        BY <1>4, SeqParts
    <2> QED BY <1>5, <2>1
<1>7. <<>> \o rest = rest
    <2>1. PICK A : rest \in Seq(A)
        BY DEF IsSeq
    <2> QED BY <2>1
<1> QED BY <1>3, <1>4, <1>6, <1>7 DEF q, T

CaptureRest == <<Do("last version"), Do("insert version")>>

\* The first step of three, of two, of one, and what follows it.
LEMMA Firsts ==
    ASSUME NEW x, NEW y, NEW z
    PROVE  /\ <<x, y, z>> # <<>> /\ Head(<<x, y, z>>) = x /\ Tail(<<x, y, z>>) = <<y, z>>
           /\ <<x, y>> # <<>> /\ Head(<<x, y>>) = x /\ Tail(<<x, y>>) = <<y>> /\ IsSeq(<<x, y>>)
           /\ <<x>> # <<>> /\ Head(<<x>>) = x /\ Tail(<<x>>) = <<>> /\ IsSeq(<<x>>)
<1>1. <<x, y, z>> # <<>> /\ Head(<<x, y, z>>) = x /\ Tail(<<x, y, z>>) = <<y, z>>
    OBVIOUS
<1>2. <<x, y>> # <<>> /\ Head(<<x, y>>) = x /\ Tail(<<x, y>>) = <<y>>
    OBVIOUS
<1>3. <<x>> # <<>> /\ Head(<<x>>) = x /\ Tail(<<x>>) = <<>>
    OBVIOUS
<1> QED BY <1>1, <1>2, <1>3, OneSeq, TwoSeq

\* A request is at the read that its first step asks for.
LEMMA AtDo ==
    ASSUME NEW j, jobs[j] # NoJob, NEW x, Head(jobs[j].todo) = x, NEW what, x.do = what, "do" \in DOMAIN x
    PROVE  At(j, what)
BY DEF At

\* What the reads are.
LEMMA DoIs ==
    ASSUME NEW what, NEW x, NEW S
    PROVE  /\ x = Do(what) => x.do = what /\ "do" \in DOMAIN x /\ "sql" \notin DOMAIN x
           /\ x = [do |-> what, of |-> S] => x.do = what /\ x.of = S /\ "do" \in DOMAIN x /\ "sql" \notin DOMAIN x
BY DEF Do

\* Nothing read is the schema without tables.
LEMMA SnapNone ==
    ASSUME NEW d, NEW c, c = <<>>
    PROVE  Snap(d, c, DOMAIN d.tab)
<1>1. DOMAIN c = {}
    BY NoSteps
<1> QED BY <1>1 DEF Snap

\* The request that a read moves goes on with what it lets follow.
LEMMA LearnIs ==
    ASSUME NEW n, Typed(n), NEW j \in Jobs, jobs[j] # NoJob, NEW more, NEW seen, Learn(j, more, seen),
           more \o Tail(jobs[j].todo) # <<>>
    PROVE  /\ db' = db /\ jobs'[j] # NoJob
           /\ jobs'[j].op = jobs[j].op /\ jobs'[j].todo = more \o Tail(jobs[j].todo)
           /\ jobs'[j].seen = seen /\ jobs'[j].met = jobs[j].met
<1> DEFINE todo == more \o Tail(jobs[j].todo)
<1>1. Go(j, todo, seen, db, {}) /\ todo # <<>>
    BY DEF Learn
<1> HIDE DEF todo
<1>2. db' = db /\ jobs'[j] # NoJob
      /\ jobs'[j] = [op |-> jobs[j].op, tab |-> jobs[j].tab, todo |-> todo, seen |-> seen, met |-> jobs[j].met]
    BY <1>1, GoIs
<1> QED BY <1>2 DEF todo

\* A loop over the tables S that stands before what follows it.
LEMMA LoopIs ==
    ASSUME NEW S, NEW rest, IsSeq(rest)
    PROVE  Loop("read columns", S) \o rest = IF S = {} THEN rest ELSE <<[do |-> "read columns", of |-> S]>> \o rest
BY ConsIs DEF Loop

\* A request that gathers the schema reads the names of the tables, or the columns of one.
LEMMA GatherStep ==
    ASSUME NEW n, Typed(n), NEW j \in Jobs, Acts(j), jobs[j] # NoJob, jobs[j].op \in {"capture", "rollback"},
           NEW rest, IsSeq(rest), rest # <<>>, Gathering(db, jobs[j], rest), jobs[j].todo # rest
    PROVE  db' = db /\ jobs'[j] # NoJob /\ Gathering(db, jobs'[j], rest)
<1> DEFINE J == jobs[j]  s == Head(J.todo)
<1>0. Database(db) /\ DOMAIN db.tab \subseteq Tables /\ SeenOK(J.seen, n) /\ SchemaOK(J.seen.schema)
    <2>1. Database(db) /\ JobOK(J, n)
        BY DEF Typed
    <2> QED BY <2>1 DEF Database, JobOK, SeenOK
<1>1. CASE s = Do("list tables") /\ Tail(J.todo) = rest /\ J.seen.schema = <<>>
    <2>1. At(j, "list tables") /\ "sql" \notin DOMAIN s
        <3>1. PICK x : x = s
            OBVIOUS
        <3>2. x.do = "list tables" /\ "do" \in DOMAIN x /\ "sql" \notin DOMAIN x
            BY <1>1, <3>1, DoIs
        <3> QED BY <3>1, <3>2, AtDo
    <2>2. "capture" \notin Exports /\ "rollback" \notin Exports
        BY DEF Exports
    <2>3. ListTables(j)
        BY <2>1, <2>2, ReadIs DEF ListToExport
    <2> DEFINE S == DOMAIN db.tab  more == Loop("read columns", S)
    <2>4. Learn(j, more, J.seen)
        BY <2>3 DEF ListTables
    <2>5. more \o rest = IF S = {} THEN rest ELSE <<[do |-> "read columns", of |-> S]>> \o rest
        BY LoopIs
    <2>6. S # {} => <<[do |-> "read columns", of |-> S]>> \o rest # <<>>
        BY ConsIs
    <2>7. Snap(db, J.seen.schema, S)
        BY <1>1, SnapNone
    <2> HIDE DEF more, J, s
    <2>8. db' = db /\ jobs'[j] # NoJob /\ jobs'[j].todo = more \o rest /\ jobs'[j].seen = J.seen /\ jobs'[j].met = J.met
        BY <1>1, <2>4, <2>5, <2>6, LearnIs DEF J
    <2>9. SnapOf(db, jobs'[j], S)
        BY <2>7, <2>8 DEF SnapOf
    <2>10. CASE S = {}
        BY <2>5, <2>8, <2>9, <2>10 DEF Gathering
    <2>11. CASE S # {}
        <3>1. S \in SUBSET Tables /\ jobs'[j].todo = <<[do |-> "read columns", of |-> S]>> \o rest
            BY <1>0, <2>5, <2>8, <2>11
        <3> HIDE DEF S
        <3> QED BY <2>8, <2>9, <2>11, <3>1 DEF Gathering
    <2> QED BY <2>10, <2>11
<1>2. ASSUME NEW S \in SUBSET Tables, S # {}, J.todo = <<[do |-> "read columns", of |-> S]>> \o rest, SnapOf(db, J, S)
      PROVE  db' = db /\ jobs'[j] # NoJob /\ Gathering(db, jobs'[j], rest)
    <2>1. s = [do |-> "read columns", of |-> S] /\ Tail(J.todo) = rest
        BY <1>2, ConsIs
    <2>2. At(j, "read columns") /\ "sql" \notin DOMAIN s /\ s.of = S
        <3>1. PICK x : x = s
            OBVIOUS
        <3>2. x.do = "read columns" /\ "do" \in DOMAIN x /\ "sql" \notin DOMAIN x /\ x.of = S
            <4>1. x = [do |-> "read columns", of |-> S]
                BY <2>1, <3>1
            <4> HIDE DEF s
            <4> QED BY <4>1, DoIs
        <3> QED BY <3>1, <3>2, AtDo
    <2>3. ReadColumns(j)
        BY <2>2, ReadIs
    <2> DEFINE t == First(S)  U == S \ {t}  more == Loop("read columns", U)
               x == IF t \in DOMAIN db.tab THEN db.tab[t].cols ELSE {}
               c == Put(J.seen.schema, t, x)
               seen == [J.seen EXCEPT !.schema = c]
    <2>4. Learn(j, more, seen)
        BY <2>2, <2>3 DEF ReadColumns
    <2>5. more \o rest = IF U = {} THEN rest ELSE <<[do |-> "read columns", of |-> U]>> \o rest
        BY LoopIs
    <2>6. <<[do |-> "read columns", of |-> U]>> \o rest # <<>>
        BY ConsIs
    <2>7. t \in S
        BY <1>2, FirstIs
    <2>8. seen.schema = c
        BY <1>0 DEF SeenOK
    <2>9. DOMAIN c = DOMAIN J.seen.schema \cup {t} /\ \A u \in DOMAIN c : c[u] = IF u = t THEN x ELSE J.seen.schema[u]
        BY DEF Put
    <2> HIDE DEF more, J, s, t, c, seen
    <2>10. db' = db /\ jobs'[j] # NoJob /\ jobs'[j].todo = more \o rest /\ jobs'[j].seen = seen /\ jobs'[j].met = J.met
        BY <2>1, <2>4, <2>5, <2>6, LearnIs DEF J
    <2>11. SnapOf(db, jobs'[j], U)
        <3>1. ASSUME "schema" \notin J.met PROVE Snap(db, c, U)
            <4>1. Snap(db, J.seen.schema, S)
                BY <1>2, <3>1 DEF SnapOf
            <4>2. DOMAIN db.tab = DOMAIN c \cup U
                BY <2>7, <2>9, <4>1 DEF Snap
            <4>3. ASSUME NEW u \in DOMAIN c \ U PROVE c[u] = db.tab[u].cols
                BY <2>9, <4>1, <4>2, <4>3 DEF Snap
            <4> QED BY <4>2, <4>3 DEF Snap
        <3> QED BY <2>8, <2>10, <3>1 DEF SnapOf
    <2>12. U \in SUBSET Tables
        OBVIOUS
    <2> HIDE DEF U
    <2>13. CASE U = {}
        BY <2>5, <2>10, <2>11, <2>13 DEF Gathering
    <2>14. CASE U # {}
        <3>1. jobs'[j].todo = <<[do |-> "read columns", of |-> U]>> \o rest
            BY <2>5, <2>10, <2>14
        <3> QED BY <2>10, <2>11, <2>12, <2>14, <3>1 DEF Gathering
    <2> QED BY <2>13, <2>14
<1> QED BY <1>1, <1>2 DEF Gathering

Insertion == <<Do("insert version")>>

\* The number read is the greatest, while nobody inserted a version, and a version had it.
Numbered(vs, job) ==
    /\ "versions" \notin job.met => \A i \in DOMAIN vs : vs[i].number <= job.seen.number
    /\ job.seen.number # 0 => \E i \in DOMAIN vs : vs[i].number = job.seen.number /\ vs[i].schema = job.seen.prior

Capturing(d, vs, job) ==
    \/ Gathering(d, job, CaptureRest)
    \/ job.todo = Insertion /\ SnapOf(d, job, {}) /\ Numbered(vs, job)

CaptureInv ==
    /\ TypeInv /\ TableInv
    /\ \A k \in Jobs : jobs[k] # NoJob /\ jobs[k].op = "capture" => Capturing(db, versions, jobs[k])

\* What is left of a capture that has read the schema.
LEMMA CaptureSeqs ==
    /\ IsSeq(CaptureRest) /\ CaptureRest # <<>> /\ Head(CaptureRest) = Do("last version") /\ Tail(CaptureRest) = Insertion
    /\ Insertion # <<>> /\ Head(Insertion) = Do("insert version") /\ Tail(Insertion) = <<>> /\ IsSeq(Insertion)
    /\ CaptureRest # Insertion
<1>1. PICK x : x = Do("last version")
    OBVIOUS
<1>2. PICK y : y = Do("insert version")
    OBVIOUS
<1>3. x # y
    <2>1. x.do = "last version" /\ y.do = "insert version"
        BY <1>1, <1>2, DoIs
    <2> QED BY <2>1
<1>4. CaptureRest = <<x, y>> /\ Insertion = <<y>>
    BY <1>1, <1>2 DEF CaptureRest, Insertion
<1> HIDE DEF CaptureRest, Insertion
<1>5. /\ IsSeq(CaptureRest) /\ CaptureRest # <<>> /\ Head(CaptureRest) = x /\ Tail(CaptureRest) = Insertion
      /\ Insertion # <<>> /\ Head(Insertion) = y /\ Tail(Insertion) = <<>> /\ IsSeq(Insertion)
    BY <1>4, Firsts
<1> QED BY <1>1, <1>2, <1>3, <1>5

\* The step of another request leaves a capture right.
LEMMA CapturingKeeps ==
    ASSUME NEW a, NEW b, Sees(a, b), Database(db), Database(db)', IsSeq(versions),
           versions' = versions \/ \E v : versions' = Append(versions, v), Capturing(db, versions, a)
    PROVE  Capturing(db, versions, b)'
<1>1. PICK m : /\ b = [op |-> a.op, tab |-> a.tab, todo |-> a.todo, seen |-> a.seen, met |-> m]
               /\ a.met \subseteq m /\ (versions' # versions => "versions" \in m)
    BY DEF Sees
<1>2. b.todo = a.todo /\ b.seen = a.seen /\ b.met = m
    BY <1>1
<1>3. CASE Gathering(db, a, CaptureRest)
    BY <1>3, GatheringKeeps DEF Capturing
<1>4. CASE a.todo = Insertion /\ SnapOf(db, a, {}) /\ Numbered(versions, a)
    <2>1. SnapOf(db', b, {})
        BY <1>4, SnapKeeps
    <2>2. \A i \in DOMAIN versions : i \in DOMAIN versions' /\ versions'[i] = versions[i]
        <3>1. CASE versions' = versions
            BY <3>1
        <3>2. ASSUME NEW v, versions' = Append(versions, v) PROVE \A i \in DOMAIN versions : i \in DOMAIN versions' /\ versions'[i] = versions[i]
            <4>1. DOMAIN versions = 1 .. Len(versions) /\ Len(versions) \in Nat
                  /\ DOMAIN versions' = 1 .. Len(versions) + 1
                  /\ \A i \in 1 .. Len(versions) + 1 : versions'[i] = IF i <= Len(versions) THEN versions[i] ELSE v
                BY <3>2, AppendOf, SeqParts
            <4> QED BY <4>1
        <3> QED BY <3>1, <3>2
    <2>3. Numbered(versions', b)
        BY <1>1, <1>2, <1>4, <2>2 DEF Numbered
    <2> QED BY <1>2, <1>4, <2>1, <2>3 DEF Capturing
<1> QED BY <1>3, <1>4 DEF Capturing

\* So does the step of the capture itself.
LEMMA CaptureStep ==
    ASSUME NEW n, Typed(n), IsSeq(versions), \A i \in DOMAIN versions : versions[i].number \in Nat \ {0},
           NEW j \in Jobs, Acts(j), versions' = versions \/ InsertVersion(j),
           jobs[j] # NoJob, jobs[j].op = "capture", Capturing(db, versions, jobs[j]), jobs'[j] # NoJob
    PROVE  Capturing(db, versions, jobs[j])'
<1>1. CASE Gathering(db, jobs[j], CaptureRest) /\ jobs[j].todo # CaptureRest
    BY <1>1, GatherStep, CaptureSeqs DEF Capturing
<1>2. CASE Gathering(db, jobs[j], CaptureRest) /\ jobs[j].todo = CaptureRest
    <2>1. PICK x : x = Head(jobs[j].todo) /\ x.do = "last version" /\ "do" \in DOMAIN x /\ "sql" \notin DOMAIN x
        <3>1. PICK x : x = Do("last version")
            OBVIOUS
        <3> QED BY <1>2, <3>1, CaptureSeqs, DoIs
    <2>2. At(j, "last version") /\ "sql" \notin DOMAIN Head(jobs[j].todo)
        BY <2>1, AtDo
    <2>3. ReadLastVersion(j)
        BY <2>2, ReadIs
    <2>4. PICK i \in 0 .. Len(versions) :
            /\ i = 0 <=> versions = <<>>
            /\ \A k \in DOMAIN versions : versions[k].number <= versions[i].number
            /\ Learn(j, <<>>, [jobs[j].seen EXCEPT
                              !.number = IF i = 0 THEN 0 ELSE versions[i].number,
                              !.prior = IF i = 0 THEN <<>> ELSE versions[i].schema])
        BY <2>3 DEF ReadLastVersion
    <2> DEFINE m == IF i = 0 THEN 0 ELSE versions[i].number
               c == IF i = 0 THEN <<>> ELSE versions[i].schema
    <2>5. Learn(j, <<>>, [jobs[j].seen EXCEPT !.number = m, !.prior = c])
        BY <2>4
    <2>6. PICK seen : seen = [jobs[j].seen EXCEPT !.number = m, !.prior = c]
        OBVIOUS
    <2>7. seen.number = m /\ seen.prior = c /\ seen.schema = jobs[j].seen.schema
        <3>1. PICK q : q = jobs[j].seen
            OBVIOUS
        <3>2. q = [schema |-> q.schema, number |-> q.number, prior |-> q.prior, rows |-> q.rows,
                   links |-> q.links, uniq |-> q.uniq, sys |-> q.sys, ruled |-> q.ruled, soft |-> q.soft,
                   excused |-> q.excused]
            BY <3>1 DEF Typed, JobOK, SeenOK
        <3> HIDE DEF m, c
        <3>3. seen = [q EXCEPT !.number = m, !.prior = c]
            BY <2>6, <3>1
        <3>4. PICK r : r = [q EXCEPT !.number = m]
            OBVIOUS
        <3>5. seen = [r EXCEPT !.prior = c]
            BY <3>3, <3>4
        <3>6. r = [schema |-> q.schema, number |-> m, prior |-> q.prior, rows |-> q.rows,
                   links |-> q.links, uniq |-> q.uniq, sys |-> q.sys, ruled |-> q.ruled, soft |-> q.soft,
                   excused |-> q.excused]
            BY <3>2, <3>4
        <3>7. seen = [schema |-> q.schema, number |-> m, prior |-> c, rows |-> q.rows,
                   links |-> q.links, uniq |-> q.uniq, sys |-> q.sys, ruled |-> q.ruled, soft |-> q.soft,
                   excused |-> q.excused]
            BY <3>5, <3>6
        <3> QED BY <3>1, <3>7
    <2>8. /\ \A k \in DOMAIN versions : versions[k].number <= m
          /\ m # 0 => \E k \in DOMAIN versions : versions[k].number = m /\ versions[k].schema = c
        <3>1. Len(versions) \in Nat /\ DOMAIN versions = 1 .. Len(versions) /\ (versions = <<>> <=> Len(versions) = 0)
            BY SeqParts
        <3>2. CASE i = 0
            BY <2>4, <3>1, <3>2
        <3>3. CASE i # 0
            BY <2>4, <3>1, <3>3
        <3> QED BY <3>2, <3>3
    <2> HIDE DEF m, c
    <2>9. <<>> \o Tail(jobs[j].todo) = Insertion
        BY <1>2, CaptureSeqs, ConsIs
    <2>10. /\ db' = db /\ jobs'[j].todo = Insertion /\ jobs'[j].seen = seen /\ jobs'[j].met = jobs[j].met
        <3>1. Learn(j, <<>>, seen)
            BY <2>5, <2>6
        <3> QED BY <2>9, <3>1, CaptureSeqs, LearnIs
    <2>11. versions' = versions
        BY <2>3 DEF ReadLastVersion
    <2>12. SnapOf(db, jobs[j], {})
        <3>1. Head(jobs[j].todo) # Do("list tables")
            <4>1. PICK y : y = Do("list tables")
                OBVIOUS
            <4>2. y.do = "list tables"
                BY <4>1, DoIs
            <4> QED BY <2>1, <4>1, <4>2
        <3>2. \A S \in SUBSET Tables : jobs[j].todo # <<[do |-> "read columns", of |-> S]>> \o CaptureRest
            <4>1. ASSUME NEW S, jobs[j].todo = <<[do |-> "read columns", of |-> S]>> \o CaptureRest PROVE FALSE
                <5>1. PICK y : y = [do |-> "read columns", of |-> S]
                    OBVIOUS
                <5>2. jobs[j].todo = <<y>> \o CaptureRest
                    BY <4>1, <5>1
                <5>3. Tail(jobs[j].todo) = CaptureRest
                    BY <5>2, CaptureSeqs, ConsIs
                <5> QED BY <1>2, <5>3, CaptureSeqs
            <4> QED BY <4>1
        <3> QED BY <1>2, <3>1, <3>2 DEF Gathering
    <2>13. SnapOf(db, jobs'[j], {})
        BY <2>7, <2>10, <2>12 DEF SnapOf
    <2>14. Numbered(versions, jobs'[j])
        BY <2>7, <2>8, <2>10 DEF Numbered
    <2> QED BY <2>10, <2>11, <2>13, <2>14 DEF Capturing
<1>3. CASE jobs[j].todo = Insertion
    <2>1. PICK x : x = Head(jobs[j].todo) /\ x.do = "insert version" /\ "do" \in DOMAIN x /\ "sql" \notin DOMAIN x
        <3>1. PICK x : x = Do("insert version")
            OBVIOUS
        <3>2. x = Head(jobs[j].todo)
            BY <1>3, <3>1, CaptureSeqs
        <3>3. x.do = "insert version" /\ "do" \in DOMAIN x /\ "sql" \notin DOMAIN x
            BY <3>1, DoIs
        <3> QED BY <3>2, <3>3
    <2>2. At(j, "insert version") /\ "sql" \notin DOMAIN Head(jobs[j].todo)
        BY <2>1, AtDo
    <2>3. InsertVersion(j)
        BY <2>2, ReadIs
    <2>4. PICK todo, seen : Go(j, todo, seen, db, {"versions"}) /\ todo = Tail(jobs[j].todo)
        BY <2>3 DEF InsertVersion
    <2>5. todo = <<>>
        BY <1>3, <2>4, CaptureSeqs
    <2> QED BY <2>4, <2>5, GoIs
<1> QED BY <1>1, <1>2, <1>3 DEF Capturing

\* Every step of the project is one request's, or it stops them all, or it changes no request and no version.
LEMMA StepIs ==
    ASSUME TypeInv, [Next]_vars
    PROVE  \/ \E j \in Jobs : Acts(j) /\ (versions' = versions \/ InsertVersion(j))
           \/ versions' = versions /\ \A k \in Jobs : jobs'[k] = NoJob
           \/ versions' = versions /\ db' = db /\ jobs' = jobs
<1>1. PICK n : n = Len(versions)
    OBVIOUS
<1>2. n \in Nat /\ Typed(n) /\ VersionsOK(versions)
    BY <1>1, SeqParts DEF TypeInv, VersionsOK, Typed
<1>3. ASSUME NEW j \in Jobs, VersionStep(j) PROVE versions' = versions \/ InsertVersion(j)
    BY <1>1, <1>2, <1>3, VersionReads
<1>4. CASE Expire /\ UNCHANGED <<versions, archive>>
    BY <1>4 DEF Expire, dbVars
<1>5. CASE Restart
    BY <1>5 DEF Restart, Stop
<1>6. CASE UNCHANGED vars
    BY <1>6 DEF vars, dbVars
<1>7. ASSUME NEW j \in Jobs,
             \/ (DbStep(j) \/ SchemaStep(j) \/ TimescaleStep(j) \/ DataRequest(j)) /\ UNCHANGED <<versions, archive, caches>>
             \/ VersionStep(j) /\ UNCHANGED <<archive, caches>>
             \/ BackupStep(j) /\ UNCHANGED <<versions, caches>>
             \/ Lookup(j) /\ UNCHANGED <<versions, archive>>
      PROVE  Acts(j) /\ (versions' = versions \/ InsertVersion(j))
    BY <1>3, <1>7 DEF Acts
<1> QED BY <1>4, <1>5, <1>6, <1>7 DEF Next, Step

\* Every step keeps what is known of the captures.
LEMMA StepCaptures == ASSUME CaptureInv, [Next]_vars PROVE CaptureInv'
<1>1. TypeInv' /\ TableInv'
    BY NextTyped, StepWhole DEF CaptureInv
<1>2. PICK n : n = Len(versions)
    OBVIOUS
<1>3. n \in Nat /\ Typed(n) /\ VersionsOK(versions) /\ Database(db)
    BY <1>2, SeqParts DEF TypeInv, VersionsOK, Typed, CaptureInv
<1>4. Database(db)'
    BY <1>1 DEF TypeInv, Typed
<1>5. IsSeq(versions) /\ \A i \in DOMAIN versions : versions[i].number \in Nat \ {0}
    <2>1. IsSeq(versions) /\ DOMAIN versions = 1 .. n /\ \A i \in DOMAIN versions : versions[i].number \in 1 .. i
        BY <1>2, <1>3, SeqParts DEF VersionsOK
    <2> QED BY <1>3, <2>1
<1>6. ASSUME NEW j \in Jobs, Acts(j), versions' = versions \/ InsertVersion(j),
             NEW k \in Jobs, jobs'[k] # NoJob, jobs'[k].op = "capture"
      PROVE  Capturing(db, versions, jobs[k])'
    <2>1. CASE k # j
        <3>1. jobs[k] # NoJob /\ Sees(jobs[k], jobs'[k])
            BY <1>3, <1>6, <2>1, Others
        <3>2. jobs[k].op = "capture"
            BY <1>6, <3>1 DEF Sees
        <3>3. versions' = versions \/ \E v : versions' = Append(versions, v)
            BY <1>6 DEF InsertVersion
        <3>4. Capturing(db, versions, jobs[k])
            BY <3>1, <3>2 DEF CaptureInv
        <3>5. PICK b : b = jobs'[k]
            OBVIOUS
        <3>6. Capturing(db', versions', b)
            BY <1>3, <1>4, <1>5, <3>1, <3>3, <3>4, <3>5, CapturingKeeps
        <3> QED BY <3>5, <3>6
    <2>2. CASE k = j /\ jobs[j] # NoJob
        <3>1. jobs[j].op = "capture"
            BY <1>3, <1>6, <2>2, SameOp
        <3>2. Capturing(db, versions, jobs[j])
            BY <2>2, <3>1 DEF CaptureInv
        <3> QED BY <1>3, <1>5, <1>6, <2>2, <3>1, <3>2, CaptureStep
    <2>3. CASE k = j /\ jobs[j] = NoJob
        <3>1. CaptureVersion(j)
            BY <1>3, <1>6, <2>3, AskedOps
        <3>2. PICK x : x = Do("list tables")
            OBVIOUS
        <3>3. PICK y : y = Do("last version")
            OBVIOUS
        <3>4. PICK z : z = Do("insert version")
            OBVIOUS
        <3>5. PICK q : q = <<x, y, z>>
            OBVIOUS
        <3>6. CaptureRest = <<y, z>>
            BY <3>3, <3>4 DEF CaptureRest
        <3>7. Begin(j, "capture", TableOrder[1], q)
            BY <3>1, <3>2, <3>3, <3>4, <3>5 DEF CaptureVersion
        <3>8. jobs'[j] = [op |-> "capture", tab |-> TableOrder[1], todo |-> q, seen |-> Nothing, met |-> {}]
            BY <1>3, <3>7, BeginIs
        <3>9. jobs'[j].todo = q /\ jobs'[j].seen = Nothing
            BY <3>8
        <3>10. Head(q) = x /\ Tail(q) = CaptureRest
            BY <3>5, <3>6, Firsts
        <3>11. Nothing.schema = <<>>
            BY DEF Nothing
        <3> QED BY <2>3, <3>2, <3>9, <3>10, <3>11 DEF Capturing, Gathering
    <2> QED BY <2>1, <2>2, <2>3
<1>7. CASE versions' = versions /\ db' = db /\ jobs' = jobs
    <2>1. ASSUME NEW k \in Jobs, jobs'[k] # NoJob, jobs'[k].op = "capture" PROVE Capturing(db, versions, jobs[k])'
        <3>1. Capturing(db, versions, jobs[k])
            BY <1>7, <2>1 DEF CaptureInv
        <3>2. PICK e, vs, J : e = db /\ vs = versions /\ J = jobs[k]
            OBVIOUS
        <3>3. Capturing(e, vs, J) /\ e = db' /\ vs = versions' /\ J = jobs'[k]
            BY <1>7, <3>1, <3>2
        <3> QED BY <3>3
    <2> QED BY <1>1, <2>1 DEF CaptureInv
<1>8. ASSUME NEW k \in Jobs, jobs'[k] # NoJob, jobs'[k].op = "capture" PROVE Capturing(db, versions, jobs[k])'
    <2>1. CASE \E j \in Jobs : Acts(j) /\ (versions' = versions \/ InsertVersion(j))
        BY <1>6, <1>8, <2>1
    <2>2. CASE versions' = versions /\ \A i \in Jobs : jobs'[i] = NoJob
        BY <1>8, <2>2
    <2>3. CASE versions' = versions /\ db' = db /\ jobs' = jobs
        BY <1>7, <1>8, <2>3 DEF CaptureInv
    <2>4. TypeInv
        BY DEF CaptureInv
    <2> QED BY <2>1, <2>2, <2>3, <2>4, StepIs
<1> QED BY <1>1, <1>8 DEF CaptureInv, NoJob

\* A difference leads from the schema p to the schema q.
Leads(p, q, x) ==
    /\ DOMAIN q = (DOMAIN p \ x.removed) \cup x.added
    /\ \A t \in DOMAIN q \cap DOMAIN p :
        q[t] = (p[t] \ {c \in p[t] : <<t, c>> \in x.lost}) \cup {c \in Columns : <<t, c>> \in x.gained}

\* What computeDiff says leads from one schema to the other.
LEMMA DiffIs ==
    ASSUME NEW p, NEW q, SchemaOK(p), SchemaOK(q), NEW x, x = ComputeDiff(p, q)
    PROVE  Leads(p, q, x)
<1>1. /\ x.added = DOMAIN q \ DOMAIN p /\ x.removed = DOMAIN p \ DOMAIN q
      /\ x.gained = Gained(p, q) /\ x.lost = Gained(q, p)
    BY DEF ComputeDiff
<1>2. ASSUME NEW a, NEW b, NEW t \in DOMAIN a \cap DOMAIN b, NEW c
      PROVE  <<t, c>> \in Gained(a, b) <=> c \in b[t] \ a[t]
    <2>1. ASSUME <<t, c>> \in Gained(a, b) PROVE c \in b[t] \ a[t]
        <3>1. PICK u \in DOMAIN b \cap DOMAIN a : <<t, c>> \in {u} \X (b[u] \ a[u])
            BY <2>1 DEF Gained
        <3> QED BY <3>1
    <2>2. ASSUME c \in b[t] \ a[t] PROVE <<t, c>> \in Gained(a, b)
        <3>1. <<t, c>> \in {t} \X (b[t] \ a[t])
            BY <2>2
        <3> QED BY <3>1 DEF Gained
    <2> QED BY <2>1, <2>2
<1>3. ASSUME NEW t \in DOMAIN q \cap DOMAIN p
      PROVE  q[t] = (p[t] \ {c \in p[t] : <<t, c>> \in x.lost}) \cup {c \in Columns : <<t, c>> \in x.gained}
    <2>1. \A c : (<<t, c>> \in x.lost <=> c \in p[t] \ q[t]) /\ (<<t, c>> \in x.gained <=> c \in q[t] \ p[t])
        BY <1>1, <1>2
    <2>2. p[t] \subseteq Columns /\ q[t] \subseteq Columns
        BY DEF SchemaOK
    <2> QED BY <2>1, <2>2
<1>4. DOMAIN q = (DOMAIN p \ x.removed) \cup x.added
    BY <1>1
<1> QED BY <1>3, <1>4 DEF Leads

\* A version that is inserted is right.
LEMMA InsertedRight ==
    ASSUME CaptureInv, [Next]_vars, NEW j \in Jobs, Inserts(j)
    PROVE  RightVersion(j)
<1> DEFINE J == jobs[j]
<1>1. PICK n : n = Len(versions)
    OBVIOUS
<1>2. n \in Nat /\ Typed(n) /\ VersionsOK(versions) /\ TypeInv /\ TableInv
    BY <1>1, SeqParts DEF TypeInv, VersionsOK, Typed, CaptureInv
<1>3. IsSeq(versions) /\ DOMAIN versions = 1 .. n
      /\ \A i \in DOMAIN versions : versions[i].number \in 1 .. i /\ SchemaOK(versions[i].schema)
    BY <1>1, <1>2, SeqParts DEF VersionsOK
<1>4. J # NoJob /\ At(j, "insert version") /\ versions' # versions /\ jobs'[j] = NoJob
    BY DEF Inserts
<1>5. InsertVersion(j)
    <2>1. CASE versions' = versions
        BY <1>4, <2>1
    <2>2. ASSUME NEW k \in Jobs, Acts(k), InsertVersion(k) PROVE k = j
        <3>1. ASSUME k # j PROVE FALSE
            <4>1. j \in Jobs \ {k} /\ jobs[j] # NoJob /\ jobs'[j] = NoJob
                BY <1>4, <3>1
            <4> QED BY <1>2, <2>2, <4>1, Others
        <3> QED BY <3>1
    <2> QED BY <1>2, <2>1, <2>2, StepIs
<1>6. J.op = "capture"
    <2>1. Suits(J.op, J.tab, Head(J.todo)) /\ "do" \in DOMAIN Head(J.todo) /\ Head(J.todo).do = "insert version"
        BY <1>2, <1>4, HeadRead
    <2> QED BY <2>1 DEF Suits
<1>7. SnapOf(db, J, {}) /\ Numbered(versions, J)
    <2>1. Head(J.todo).do = "insert version"
        BY <1>4 DEF At
    <2>2. ~Gathering(db, J, CaptureRest)
        <3>1. Head(J.todo) # Do("list tables")
            <4>1. PICK y : y = Do("list tables")
                OBVIOUS
            <4>2. y.do = "list tables"
                BY <4>1, DoIs
            <4> QED BY <2>1, <4>1, <4>2
        <3>2. ASSUME NEW S, J.todo = <<[do |-> "read columns", of |-> S]>> \o CaptureRest PROVE FALSE
            <4>1. PICK y : y = [do |-> "read columns", of |-> S]
                OBVIOUS
            <4>2. J.todo = <<y>> \o CaptureRest
                BY <3>2, <4>1
            <4>3. Head(J.todo) = y
                BY <4>2, CaptureSeqs, ConsIs
            <4>4. y.do = "read columns"
                BY <4>1
            <4> QED BY <2>1, <4>3, <4>4
        <3>3. J.todo # CaptureRest
            <4>1. PICK y : y = Do("last version")
                OBVIOUS
            <4>2. y.do = "last version"
                BY <4>1, DoIs
            <4> QED BY <2>1, <4>1, <4>2, CaptureSeqs
        <3> QED BY <3>1, <3>2, <3>3 DEF Gathering
    <2> QED BY <1>4, <1>6, <2>2 DEF CaptureInv, Capturing
<1> DEFINE c == J.seen.schema  p == J.seen.prior
           v == [number |-> J.seen.number + 1, schema |-> c, diff |-> ComputeDiff(p, c)]
<1>8. versions' = Append(versions, v)
    BY <1>5 DEF InsertVersion
<1>9. v.number = J.seen.number + 1 /\ v.schema = c /\ v.diff = ComputeDiff(p, c)
    OBVIOUS
<1> HIDE DEF v
<1>10. Last(versions') = v
    <2>1. Len(versions') = n + 1 /\ versions'[n + 1] = v
        BY <1>1, <1>2, <1>3, <1>8, AppendOf
    <2> QED BY <2>1 DEF Last
<1>11. SchemaOK(c) /\ SchemaOK(p) /\ J.seen.number \in Nat
    <2>1. SeenOK(J.seen, n)
        BY <1>2, <1>4 DEF Typed, JobOK
    <2> QED BY <1>2, <2>1 DEF SeenOK
<1>12. ASSUME "schema" \notin J.met PROVE c = ColumnsOf(db)
    <2>1. DOMAIN db.tab = DOMAIN c /\ \A t \in DOMAIN c : c[t] = db.tab[t].cols
        BY <1>7, <1>12 DEF SnapOf, Snap
    <2>2. c = [t \in DOMAIN c |-> c[t]]
        BY <1>11 DEF SchemaOK
    <2> HIDE DEF c
    <2> QED BY <2>1, <2>2 DEF ColumnsOf
<1>13. ASSUME "versions" \notin J.met, NEW i \in DOMAIN versions PROVE versions[i].number < v.number
    <2>1. versions[i].number <= J.seen.number /\ versions[i].number \in 1 .. i /\ i \in 1 .. n
        BY <1>3, <1>7, <1>13 DEF Numbered
    <2>2. versions[i].number \in Nat
        BY <1>2, <2>1
    <2> QED BY <1>9, <1>11, <2>1, <2>2
<1>14. ASSUME v.number > 1
       PROVE  \E i \in DOMAIN versions :
                LET w == versions[i] IN
                /\ w.number = v.number - 1
                /\ DOMAIN v.schema = (DOMAIN w.schema \ v.diff.removed) \cup v.diff.added
                /\ \A t \in DOMAIN v.schema \cap DOMAIN w.schema :
                    v.schema[t] = (w.schema[t] \ {x \in w.schema[t] : <<t, x>> \in v.diff.lost})
                                      \cup {x \in Columns : <<t, x>> \in v.diff.gained}
    <2>1. J.seen.number # 0 /\ J.seen.number = v.number - 1
        BY <1>9, <1>11, <1>14
    <2>2. PICK i \in DOMAIN versions : versions[i].number = J.seen.number /\ versions[i].schema = p
        BY <1>7, <2>1 DEF Numbered
    <2>3. /\ DOMAIN c = (DOMAIN p \ v.diff.removed) \cup v.diff.added
          /\ \A t \in DOMAIN c \cap DOMAIN p :
                c[t] = (p[t] \ {x \in p[t] : <<t, x>> \in v.diff.lost}) \cup {x \in Columns : <<t, x>> \in v.diff.gained}
        <3> HIDE DEF c, p
        <3>1. PICK x : x = ComputeDiff(p, c)
            OBVIOUS
        <3>2. x = v.diff
            BY <1>9, <3>1
        <3> HIDE DEF c, p
        <3>3. Leads(p, c, x)
            BY <1>11, <3>1, DiffIs
        <3>4. Leads(p, c, v.diff)
            BY <3>2, <3>3
        <3> QED BY <3>4 DEF Leads
    <2> HIDE DEF c, p
    <2> QED BY <1>9, <2>1, <2>2, <2>3
<1>15. "schema" \notin jobs[j].met => v.schema = ColumnsOf(db)
    BY <1>9, <1>12
<1>16. "versions" \notin jobs[j].met => \A i \in DOMAIN versions : versions[i].number < v.number
    BY <1>13
<1> HIDE DEF J, c, p
<1> QED BY <1>10, <1>14, <1>15, <1>16 DEF RightVersion

\* A capture reads the tables, their columns and the last version, and inserts the next
\* one, each in a statement of its own.  Whatever else is done to the project between
\* them, the version it inserts is the newest unless another was inserted after the last
\* was read, holds the schema as it is unless somebody changed the schema since the
\* capture began, and its difference is that from a version of the number before.
THEOREM VersionsAreExplained == Spec => VersionsExplained
<1>1. Init => CaptureInv
    <2>1. Init => \A k \in Jobs : jobs[k] = NoJob
        BY DEF Init, DbInit
    <2> QED BY <2>1, InitTyped, InitWhole DEF CaptureInv
<1>2. CaptureInv /\ [Next]_vars => CaptureInv'
    BY StepCaptures
<1>3. CaptureInv /\ [Next]_vars => [\A j \in Jobs : Inserts(j) => RightVersion(j)]_versionVars
    BY InsertedRight
<1> QED BY <1>1, <1>2, <1>3, PTL DEF Spec, VersionsExplained

----------------------------------------------------------------------------
(***************************************************************************)
(* A rollback on its way to the schema want: what the steps R that it has  *)
(* left do not bring back is as want has it, but for required columns that *)
(* a table with rows could not be given.                                   *)
(***************************************************************************)
PlanStep(x, want) ==
    /\ "sql" \in DOMAIN x /\ "do" \notin DOMAIN x
    /\ x.sql \in PlanSql
    /\ x.soft = (x.sql \in {"ADD COLUMN", "ADD AS RECORDED"})
    /\ x.sql = "DROP TABLE" => x.tab \notin DOMAIN want
    /\ x.sql = "CREATE TABLE" => x.tab \in DOMAIN want /\ x.cols = want[x.tab]
    /\ x.sql = "DROP COLUMN" => x.tab \in DOMAIN want /\ x.col \notin want[x.tab]
    /\ x.sql = "ADD COLUMN" => x.tab \in DOMAIN want /\ x.col \in want[x.tab]

AddsColumn(s) == s.sql = "ADD COLUMN"

TableStep(R, what, t) == \E x \in R : x.sql = what /\ x.tab = t
ColumnStep(R, what, t, c) == \E x \in R : x.sql = what /\ x.tab = t /\ x.col = c

Back(d, want, met, R) ==
    /\ \A t \in DOMAIN d.tab : t \in DOMAIN want \/ TableStep(R, "DROP TABLE", t)
    /\ \A t \in DOMAIN want :
        t \in DOMAIN d.tab \/ TableStep(R, "CREATE TABLE", t) \/ TableStep(R, "CREATE AS RECORDED", t)
    /\ \A t \in DOMAIN d.tab \cap DOMAIN want :
        /\ \A c \in d.tab[t].cols : c \in want[t] \/ ColumnStep(R, "DROP COLUMN", t, c)
        /\ \A c \in want[t] : c \in d.tab[t].cols \/ ColumnStep(R, "ADD COLUMN", t, c) \/ <<t, c>> \in Unsaved
                              \/ (c \in Required /\ (d.tab[t].rows # {} \/ "rows" \in met))

\* A statement that makes a table or a column as it is recorded, when it cannot be, is refused.
LEMMA RecordedRefused ==
    ASSUME NEW d, NEW s, s.sql \in Recorded
    PROVE  Single(d, s) = {}
<1>1. OnTable(d, s) = {}
    BY DEF OnTable, Recorded
<1>2. Effects(d, s) = OnTable(d, s)
    BY DEF Effects, Recorded
<1> QED BY <1>1, <1>2 DEF Single

\* The statements of a plan empty no table that stays.
LEMMA RowsStay ==
    ASSUME NEW d, Database(d), NEW s, SingleOK(s), NEW e \in Single(d, s),
           s.sql \in PlanSql,
           NEW u \in DOMAIN d.tab \cap DOMAIN e.tab, d.tab[u].rows # {}
    PROVE  e.tab[u].rows # {}
<1> DEFINE t == s.tab  T == d.tab[t]
<1>0. s.sql \in PlanSql \ Recorded
    BY RecordedRefused
<1>1. e \in OnTable(d, s)
    BY <1>0 DEF Single, Effects, PlanSql
<1>2. d.tab[u] \in Table /\ t \in Tables /\ d = [tab |-> d.tab, fks |-> d.fks, sys |-> d.sys]
    BY <1>0 DEF Database, SingleOK, OnTables, PlanSql
<1>3. CASE s.sql = "DROP TABLE"
    <2>1. e = Without(d, t)
        BY <1>1, <1>3 DEF OnTable
    <2>2. e.tab[u] = d.tab[u]
        BY <1>2, <2>1 DEF Without, Restrict
    <2> QED BY <2>2
<1>4. CASE s.sql = "CREATE TABLE"
    <2>1. t \notin DOMAIN d.tab /\ e = With(d, t, NewTable(s.cols, s.key))
        BY <1>1, <1>4 DEF OnTable
    <2>2. PICK U : U = NewTable(s.cols, s.key)
        OBVIOUS
    <2>3. e = With(d, t, U)
        BY <2>1, <2>2
    <2> HIDE DEF T, t
    <2>4. u \in DOMAIN e.tab /\ e.tab[u] = IF u = t THEN U ELSE d.tab[u]
        BY <1>2, <2>3, WithTabs
    <2> QED BY <2>1, <2>4
<1>5. CASE s.sql = "ADD COLUMN"
    <2>1. e = With(d, t, [T EXCEPT !.cols = @ \cup {s.col}]) /\ t \in DOMAIN d.tab
        BY <1>1, <1>5 DEF OnTable
    <2>2. PICK U : U = [T EXCEPT !.cols = @ \cup {s.col}]
        OBVIOUS
    <2>3. e = With(d, t, U)
        BY <2>1, <2>2
    <2>4. u = t => U.rows = d.tab[u].rows
        BY <1>2, <2>2 DEF Table
    <2> HIDE DEF T, t
    <2>5. u \in DOMAIN e.tab /\ e.tab[u] = IF u = t THEN U ELSE d.tab[u]
        BY <1>2, <2>3, WithTabs
    <2> QED BY <2>4, <2>5
<1>6. CASE s.sql = "DROP COLUMN"
    <2>1. e = DropCascade(d, t, s.col) /\ t \in DOMAIN d.tab
        BY <1>1, <1>6 DEF OnTable
    <2> DEFINE rows == Blank(T.rows, s.col)
               U == [T EXCEPT !.cols = @ \ {s.col}, !.key = IF @ = s.col THEN "none" ELSE @,
                              !.uniq = @ /\ s.col # "v", !.rows = rows]
               W == With(d, t, U)
               F == {f \in d.fks : ~(f.to = t /\ s.col = "id") /\ ~(f.from = t /\ s.col = "v")}
    <2>2. T \in Table
        BY <2>1 DEF Database
    <2>3. e = [W EXCEPT !.fks = F]
        <3>1. U = [T EXCEPT !.cols = @ \ {s.col}, !.key = IF @ = s.col THEN "none" ELSE @, !.uniq = @ /\ s.col # "v",
                            !.rows = Blank(@, s.col)]
            BY <2>2 DEF Table
        <3> QED BY <3>1, <2>1, <1>2 DEF DropCascade, With, Put
    <2>4. U.rows = rows
        BY <2>2 DEF Table
    <2> HIDE DEF U
    <2>a. W = With(d, t, U)
        OBVIOUS
    <2> HIDE DEF W, F, t
    <2>5. W = [tab |-> W.tab, fks |-> d.fks, sys |-> d.sys]
          /\ \A x \in DOMAIN W.tab : W.tab[x] = IF x = t THEN U ELSE d.tab[x]
        BY <1>2, <2>a, WithTabs
    <2>6. e.tab = W.tab
        BY <2>3, <2>5
    <2>7. e.tab[u] = IF u = t THEN U ELSE d.tab[u]
        BY <2>5, <2>6
    <2>8. T.rows # {} => rows # {}
        <3>1. PICK S : S = T.rows
            OBVIOUS
        <3>2. S # {} => {[r EXCEPT !.gone = FALSE] : r \in S} # {} /\ {[r EXCEPT !.v = Null] : r \in S} # {}
            OBVIOUS
        <3>3. rows = Blank(S, s.col)
            BY <3>1
        <3> HIDE DEF rows
        <3> QED BY <3>1, <3>2, <3>3 DEF Blank
    <2> QED BY <2>4, <2>7, <2>8
<1> QED BY <1>0, <1>3, <1>4, <1>5, <1>6 DEF PlanSql, Recorded

\* A column is refused to a table only when it has it, or must have it in every row.
LEMMA AddRefused ==
    ASSUME NEW d, Database(d), NEW s, SingleOK(s), AddsColumn(s), Single(d, s) = {}, s.tab \in DOMAIN d.tab
    PROVE  s.col \in d.tab[s.tab].cols \/ (s.col \in Required /\ d.tab[s.tab].rows # {})
<1> DEFINE t == s.tab  T == d.tab[t]  U == [T EXCEPT !.cols = @ \cup {s.col}]  e == With(d, t, U)
<1>1. T \in Table /\ t \in Tables /\ Sound(d)
    BY DEF Database
<1>2. U.key = T.key /\ U.uniq = T.uniq /\ U.rows = T.rows /\ U.time = T.time
    BY <1>1 DEF Table
<1> HIDE DEF U
<1>3. /\ e.fks = d.fks /\ DOMAIN e.tab = DOMAIN d.tab
      /\ \A u \in DOMAIN d.tab : e.tab[u] = IF u = t THEN U ELSE d.tab[u]
    <2>1. e = With(d, t, U)
        OBVIOUS
    <2>2. t \in DOMAIN d.tab
        OBVIOUS
    <2> HIDE DEF e, t
    <2>3. /\ e = [tab |-> e.tab, fks |-> d.fks, sys |-> d.sys]
           /\ DOMAIN e.tab = DOMAIN d.tab \cup {t}
           /\ \A u \in DOMAIN e.tab : e.tab[u] = IF u = t THEN U ELSE d.tab[u]
        BY <1>1, <2>1, WithTabs
    <2>4. e.fks = d.fks
        BY <2>3
    <2> QED BY <2>2, <2>3, <2>4
<1> HIDE DEF e
<1>4. \A u \in DOMAIN d.tab : e.tab[u].key = d.tab[u].key /\ e.tab[u].uniq = d.tab[u].uniq /\ e.tab[u].rows = d.tab[u].rows
                              /\ e.tab[u].time = d.tab[u].time
    BY <1>2, <1>3
<1>5. Sound(e)
    <2>1. ASSUME NEW u \in DOMAIN e.tab
          PROVE  /\ e.tab[u].key # "none" => Unique(e.tab[u].rows, e.tab[u].key)
                 /\ e.tab[u].uniq => Unique(e.tab[u].rows, "v")
                 /\ e.tab[u].key = "v" \/ "hypertable" \in e.tab[u].time => \A r \in e.tab[u].rows : r.v # Null
        <3>1. e.tab[u].key = d.tab[u].key /\ e.tab[u].uniq = d.tab[u].uniq /\ e.tab[u].rows = d.tab[u].rows
              /\ e.tab[u].time = d.tab[u].time /\ u \in DOMAIN d.tab
            BY <1>3, <1>4
        <3> QED BY <1>1, <3>1 DEF Sound
    <2>2. ASSUME NEW f \in e.fks
          PROVE  /\ f.from \in DOMAIN e.tab /\ f.to \in DOMAIN e.tab /\ e.tab[f.to].key = "id"
                 /\ \A r \in e.tab[f.from].rows : r.v # Null => \E q \in e.tab[f.to].rows : q.id = r.v
        <3>1. /\ f.from \in DOMAIN d.tab /\ f.to \in DOMAIN d.tab /\ d.tab[f.to].key = "id"
              /\ \A r \in d.tab[f.from].rows : r.v # Null => \E q \in d.tab[f.to].rows : q.id = r.v
            BY <1>1, <1>3 DEF Sound
        <3>2. e.tab[f.from].rows = d.tab[f.from].rows /\ e.tab[f.to].rows = d.tab[f.to].rows /\ e.tab[f.to].key = "id"
            BY <1>4, <3>1
        <3> QED BY <1>3, <3>1, <3>2
    <2> QED BY <2>1, <2>2 DEF Sound
<1>6. ASSUME s.col \notin T.cols, s.col \in Required => T.rows = {} PROVE FALSE
    <2>1. e \in OnTable(d, s)
        BY <1>6 DEF OnTable, AddsColumn, e, U
    <2>2. e \in Effects(d, s)
        BY <2>1 DEF Effects, AddsColumn
    <2> QED BY <1>5, <2>2 DEF Single
<1> QED BY <1>6

\* A statement of the plan that is carried out is no longer needed.
LEMMA BackExecuted ==
    ASSUME NEW d, Database(d), NEW x, SingleOK(x), NEW want, PlanStep(x, want), NEW met, NEW R,
           Back(d, want, met, R \cup {x}), NEW e \in Single(d, x)
    PROVE  Back(e, want, met, R)
<1>1. /\ DOMAIN e.tab = IF x.sql = "CREATE TABLE" THEN DOMAIN d.tab \cup {x.tab}
                         ELSE IF x.sql = "DROP TABLE" THEN DOMAIN d.tab \ {x.tab} ELSE DOMAIN d.tab
      /\ x.sql = "CREATE TABLE" => x.tab \notin DOMAIN d.tab /\ e.tab[x.tab] = NewTable(x.cols, x.key)
      /\ \A t \in DOMAIN d.tab \cap DOMAIN e.tab : Becomes(x, d.tab[t], e.tab[t], t)
    <2>1. x.sql # "DROP TABLE RESTRICT"
        BY DEF PlanStep, PlanSql, Recorded
    <2> QED BY <2>1, SingleShape
<1>a. x.sql \notin Recorded
    BY RecordedRefused
<1>2. \A t \in DOMAIN d.tab \cap DOMAIN e.tab : e.tab[t].cols = NewCols(x, d.tab[t], t)
    BY <1>1 DEF Becomes
<1>3. \A t \in DOMAIN d.tab \cap DOMAIN e.tab : d.tab[t].rows # {} => e.tab[t].rows # {}
    <2>1. x.sql \in PlanSql
        BY DEF PlanStep
    <2> QED BY <2>1, RowsStay
<1>4. ASSUME NEW t, NEW what, what \in PlanSql, TableStep(R \cup {x}, what, t)
      PROVE  TableStep(R, what, t) \/ Here(x, what, t)
    BY <1>4 DEF TableStep, Here
<1>5. ASSUME NEW t, NEW what, what \in PlanSql, NEW c, ColumnStep(R \cup {x}, what, t, c)
      PROVE  ColumnStep(R, what, t, c) \/ (Here(x, what, t) /\ x.col = c)
    BY <1>5 DEF ColumnStep, Here
<1>6. ASSUME NEW t \in DOMAIN e.tab PROVE t \in DOMAIN want \/ TableStep(R, "DROP TABLE", t)
    <2>1. CASE t \in DOMAIN d.tab
        <3>1. t \in DOMAIN want \/ TableStep(R \cup {x}, "DROP TABLE", t)
            BY <2>1 DEF Back
        <3>2. ~Here(x, "DROP TABLE", t)
            BY <1>1, <1>6 DEF Here
        <3> QED BY <1>4, <3>1, <3>2 DEF PlanSql
    <2>2. CASE t \notin DOMAIN d.tab
        BY <1>1, <1>6, <2>2 DEF PlanStep
    <2> QED BY <2>1, <2>2
<1>7. ASSUME NEW t \in DOMAIN want
      PROVE  t \in DOMAIN e.tab \/ TableStep(R, "CREATE TABLE", t) \/ TableStep(R, "CREATE AS RECORDED", t)
    <2>1. t \in DOMAIN d.tab \/ TableStep(R \cup {x}, "CREATE TABLE", t) \/ TableStep(R \cup {x}, "CREATE AS RECORDED", t)
        BY <1>7 DEF Back
    <2>2. Here(x, "CREATE TABLE", t) => t \in DOMAIN e.tab
        BY <1>1 DEF Here
    <2>3. t \in DOMAIN d.tab => t \in DOMAIN e.tab
        BY <1>1, <1>7 DEF PlanStep
    <2>4. ~Here(x, "CREATE AS RECORDED", t)
        BY <1>a DEF Here, Recorded
    <2> QED BY <1>4, <2>1, <2>2, <2>3, <2>4 DEF PlanSql, Recorded
<1>8. ASSUME NEW t \in DOMAIN e.tab \cap DOMAIN want, NEW c \in e.tab[t].cols
      PROVE  c \in want[t] \/ ColumnStep(R, "DROP COLUMN", t, c)
    <2>1. CASE t \notin DOMAIN d.tab
        <3>1. x.sql = "CREATE TABLE" /\ t = x.tab
            BY <1>1, <1>8, <2>1
        <3>2. e.tab[t].cols = want[t]
            <4>1. PICK U : U = NewTable(x.cols, x.key)
                OBVIOUS
            <4>2. U.cols = x.cols
                BY <4>1 DEF NewTable
            <4>3. e.tab[t] = U
                BY <1>1, <3>1, <4>1
            <4>4. x.cols = want[t]
                BY <3>1 DEF PlanStep
            <4> QED BY <4>2, <4>3, <4>4
        <3> QED BY <1>8, <3>2
    <2>2. CASE t \in DOMAIN d.tab /\ c \in d.tab[t].cols
        <3>1. c \in want[t] \/ ColumnStep(R \cup {x}, "DROP COLUMN", t, c)
            BY <1>8, <2>2 DEF Back
        <3>2. ~(Here(x, "DROP COLUMN", t) /\ x.col = c)
            BY <1>2, <1>8, <2>2 DEF NewCols, Here
        <3> QED BY <1>5, <3>1, <3>2 DEF PlanSql
    <2>3. CASE t \in DOMAIN d.tab /\ c \notin d.tab[t].cols
        <3>1. Here(x, "ADD COLUMN", t) /\ c = x.col
            BY <1>2, <1>8, <2>3 DEF NewCols
        <3> QED BY <3>1 DEF PlanStep, Here
    <2> QED BY <2>1, <2>2, <2>3
<1>9. ASSUME NEW t \in DOMAIN e.tab \cap DOMAIN want, NEW c \in want[t]
      PROVE  c \in e.tab[t].cols \/ ColumnStep(R, "ADD COLUMN", t, c) \/ <<t, c>> \in Unsaved
                \/ (c \in Required /\ (e.tab[t].rows # {} \/ "rows" \in met))
    <2>1. CASE t \notin DOMAIN d.tab
        <3>1. x.sql = "CREATE TABLE" /\ t = x.tab
            BY <1>1, <1>9, <2>1
        <3>2. e.tab[t].cols = want[t]
            <4>1. PICK U : U = NewTable(x.cols, x.key)
                OBVIOUS
            <4>2. U.cols = x.cols
                BY <4>1 DEF NewTable
            <4>3. e.tab[t] = U
                BY <1>1, <3>1, <4>1
            <4>4. x.cols = want[t]
                BY <3>1 DEF PlanStep
            <4> QED BY <4>2, <4>3, <4>4
        <3> QED BY <1>9, <3>2
    <2>2. CASE t \in DOMAIN d.tab /\ c \in d.tab[t].cols
        <3>1. ~(Here(x, "DROP COLUMN", t) /\ x.col = c)
            BY <1>9 DEF PlanStep, Here
        <3> QED BY <1>2, <1>9, <2>2, <3>1 DEF NewCols
    <2>3. CASE t \in DOMAIN d.tab /\ ColumnStep(R \cup {x}, "ADD COLUMN", t, c)
        <3>1. Here(x, "ADD COLUMN", t) /\ x.col = c => c \in e.tab[t].cols
            BY <1>2, <1>9, <2>3 DEF NewCols
        <3> QED BY <1>5, <2>3, <3>1 DEF PlanSql
    <2>4. CASE t \in DOMAIN d.tab /\ c \in Required /\ (d.tab[t].rows # {} \/ "rows" \in met)
        BY <1>3, <1>9, <2>4
    <2> QED BY <1>9, <2>1, <2>2, <2>3, <2>4 DEF Back
<1> QED BY <1>6, <1>7, <1>8, <1>9 DEF Back

\* A column that cannot be added is passed over, and its table has it, or has rows.
LEMMA BackPassed ==
    ASSUME NEW d, Database(d), NEW x, SingleOK(x), NEW want, PlanStep(x, want), x.soft, NEW met, NEW R,
           Back(d, want, met, R \cup {x}), Single(d, x) = {}
    PROVE  Back(d, want, met, R)
<1>1. x.sql \in {"ADD COLUMN", "ADD AS RECORDED"} /\ (x.sql = "ADD COLUMN" => AddsColumn(x))
    BY DEF PlanStep, AddsColumn
<1>2. \A t : TableStep(R \cup {x}, "DROP TABLE", t) => TableStep(R, "DROP TABLE", t)
    BY <1>1 DEF TableStep
<1>3. \A t : TableStep(R \cup {x}, "CREATE TABLE", t) => TableStep(R, "CREATE TABLE", t)
    BY <1>1 DEF TableStep
<1>r. \A t : TableStep(R \cup {x}, "CREATE AS RECORDED", t) => TableStep(R, "CREATE AS RECORDED", t)
    BY <1>1 DEF TableStep
<1>4. \A t, c : ColumnStep(R \cup {x}, "DROP COLUMN", t, c) => ColumnStep(R, "DROP COLUMN", t, c)
    BY <1>1 DEF ColumnStep
<1>5. ASSUME NEW t \in DOMAIN d.tab, NEW c, ColumnStep(R \cup {x}, "ADD COLUMN", t, c)
      PROVE  ColumnStep(R, "ADD COLUMN", t, c) \/ c \in d.tab[t].cols \/ (c \in Required /\ d.tab[t].rows # {})
    <2>1. ColumnStep(R, "ADD COLUMN", t, c) \/ (x.sql = "ADD COLUMN" /\ x.tab = t /\ x.col = c)
        BY <1>5 DEF ColumnStep
    <2>2. CASE x.sql = "ADD COLUMN" /\ x.tab = t /\ x.col = c
        BY <1>1, <2>2, AddRefused
    <2> QED BY <2>1, <2>2
<1>6. \A t \in DOMAIN d.tab : t \in DOMAIN want \/ TableStep(R, "DROP TABLE", t)
    BY <1>2 DEF Back
<1>7. ASSUME NEW t \in DOMAIN want, t \notin DOMAIN d.tab
      PROVE  TableStep(R, "CREATE TABLE", t) \/ TableStep(R, "CREATE AS RECORDED", t)
    <2>1. TableStep(R \cup {x}, "CREATE TABLE", t) \/ TableStep(R \cup {x}, "CREATE AS RECORDED", t)
        BY <1>7 DEF Back
    <2> QED BY <1>3, <1>r, <2>1
<1>8. ASSUME NEW t \in DOMAIN d.tab \cap DOMAIN want
      PROVE  /\ \A c \in d.tab[t].cols : c \in want[t] \/ ColumnStep(R, "DROP COLUMN", t, c)
             /\ \A c \in want[t] : c \in d.tab[t].cols \/ ColumnStep(R, "ADD COLUMN", t, c) \/ <<t, c>> \in Unsaved
                              \/ (c \in Required /\ (d.tab[t].rows # {} \/ "rows" \in met))
    <2>1. \A c \in d.tab[t].cols : c \in want[t] \/ ColumnStep(R, "DROP COLUMN", t, c)
        BY <1>4, <1>8 DEF Back
    <2>2. \A c \in want[t] : c \in d.tab[t].cols \/ ColumnStep(R, "ADD COLUMN", t, c) \/ <<t, c>> \in Unsaved
                              \/ (c \in Required /\ (d.tab[t].rows # {} \/ "rows" \in met))
        BY <1>5, <1>8 DEF Back
    <2> QED BY <2>1, <2>2
<1> QED BY <1>6, <1>7, <1>8 DEF Back

\* Databases of the same rows have rows in the same tables.
LEMMA SameRows ==
    ASSUME NEW d, NEW e, "rows" \notin Changed(d, e)
    PROVE  \A t \in DOMAIN d.tab : e.tab[t].rows = d.tab[t].rows
<1>1. Contents(d) = Contents(e)
    BY DEF Changed
<1>2. DOMAIN Contents(d) = DOMAIN d.tab /\ DOMAIN Contents(e) = DOMAIN e.tab
    BY DEF Contents
<1> QED BY <1>1, <1>2 DEF Contents

\* The steps of others that change no schema leave a rollback where it is.
LEMMA BackKeeps ==
    ASSUME NEW d, NEW e, Database(d), Database(e), "schema" \notin Changed(d, e), NEW want, NEW R,
           NEW met, NEW m, met \subseteq m, Changed(d, e) \subseteq m, Back(d, want, met, R)
    PROVE  Back(e, want, m, R)
<1>1. DOMAIN e.tab = DOMAIN d.tab /\ \A t \in DOMAIN d.tab : e.tab[t].cols = d.tab[t].cols
    BY SameColumns
<1>2. \A t \in DOMAIN d.tab : d.tab[t].rows # {} => e.tab[t].rows # {} \/ "rows" \in m
    BY SameRows
<1> QED BY <1>1, <1>2 DEF Back

\* A rollback with nothing left to do has brought back the tables and the columns.
LEMMA BackDone ==
    ASSUME NEW d, NEW want, NEW met, Back(d, want, met, {})
    PROVE  /\ DOMAIN d.tab = DOMAIN want
           /\ \A t \in DOMAIN want :
               \/ d.tab[t].cols = want[t]
               \/ /\ d.tab[t].cols \subseteq want[t]
                  /\ \A c \in want[t] \ d.tab[t].cols :
                      <<t, c>> \in Unsaved \/ (c \in Required /\ (d.tab[t].rows # {} \/ "rows" \in met))
BY DEF Back, TableStep, ColumnStep

\* A statement of a plan that does what to the table t, or to its column c.
Part(x, what, t) ==
    /\ x.sql = what /\ x.tab = t /\ x.soft = (what \in {"ADD COLUMN", "ADD AS RECORDED"})
    /\ "sql" \in DOMAIN x /\ "do" \notin DOMAIN x

\* A value outside of a set is said not to be in it.
LEMMA OutIsFalse == ASSUME NEW w, NEW S, w \notin S PROVE (w \in S) = FALSE
OBVIOUS

\* A table is dropped.
LEMMA DropPart == ASSUME NEW t, NEW x, x = Sql("DROP TABLE", t) PROVE Part(x, "DROP TABLE", t)
<1>1. x.sql = "DROP TABLE" /\ x.tab = t /\ x.soft = FALSE /\ "sql" \in DOMAIN x /\ "do" \notin DOMAIN x
    BY DEF Sql
<1>2. x.soft = ("DROP TABLE" \in {"ADD COLUMN", "ADD AS RECORDED"})
    <2>1. ("DROP TABLE" \in {"ADD COLUMN", "ADD AS RECORDED"}) = FALSE
        BY OutIsFalse, "DROP TABLE" \notin {"ADD COLUMN", "ADD AS RECORDED"}
    <2> QED BY <1>1, <2>1
<1> QED BY <1>1, <1>2 DEF Part

\* A table is created, with columns, or as it is recorded.
LEMMA RecreatePart ==
    ASSUME NEW t, NEW S, NEW x, x = Recreate(t, S)
    PROVE  (Part(x, "CREATE TABLE", t) /\ x.cols = S) \/ Part(x, "CREATE AS RECORDED", t)
<1>1. ASSUME NEW y, y = CreateTable(t, S, "none") PROVE Part(y, "CREATE TABLE", t) /\ y.cols = S
    <2>1. y.sql = "CREATE TABLE" /\ y.tab = t /\ y.soft = FALSE /\ y.cols = S /\ "sql" \in DOMAIN y /\ "do" \notin DOMAIN y
        BY <1>1 DEF CreateTable
    <2>2. ("CREATE TABLE" \in {"ADD COLUMN", "ADD AS RECORDED"}) = FALSE
        BY OutIsFalse, "CREATE TABLE" \notin {"ADD COLUMN", "ADD AS RECORDED"}
    <2> QED BY <2>1, <2>2 DEF Part
<1>2. ASSUME NEW y, y = Sql("CREATE AS RECORDED", t) PROVE Part(y, "CREATE AS RECORDED", t)
    <2>1. y.sql = "CREATE AS RECORDED" /\ y.tab = t /\ y.soft = FALSE /\ "sql" \in DOMAIN y /\ "do" \notin DOMAIN y
        BY <1>2 DEF Sql
    <2>2. ("CREATE AS RECORDED" \in {"ADD COLUMN", "ADD AS RECORDED"}) = FALSE
        BY OutIsFalse, "CREATE AS RECORDED" \notin {"ADD COLUMN", "ADD AS RECORDED"}
    <2> QED BY <2>1, <2>2 DEF Part
<1> QED BY <1>1, <1>2 DEF Recreate

\* A column is dropped.
LEMMA DropColumnPart ==
    ASSUME NEW t, NEW c, NEW x, x = DropColumn(t, c)
    PROVE  Part(x, "DROP COLUMN", t) /\ x.col = c
<1>1. x.sql = "DROP COLUMN" /\ x.tab = t /\ x.soft = FALSE /\ x.col = c /\ "sql" \in DOMAIN x /\ "do" \notin DOMAIN x
    BY DEF DropColumn
<1>2. x.soft = ("DROP COLUMN" \in {"ADD COLUMN", "ADD AS RECORDED"})
    <2>1. ("DROP COLUMN" \in {"ADD COLUMN", "ADD AS RECORDED"}) = FALSE
        BY OutIsFalse, "DROP COLUMN" \notin {"ADD COLUMN", "ADD AS RECORDED"}
    <2> QED BY <1>1, <2>1
<1> QED BY <1>1, <1>2 DEF Part

\* A column is added, if it can be.
LEMMA AddColumnPart ==
    ASSUME NEW t, NEW c, NEW x, x = Soft(Readd(t, c))
    PROVE  /\ (Part(x, "ADD COLUMN", t) /\ x.col = c) \/ Part(x, "ADD AS RECORDED", t)
           /\ <<t, c>> \notin Unsaved => Part(x, "ADD COLUMN", t) /\ x.col = c
<1>1. PICK y : y = Readd(t, c)
    OBVIOUS
<1>2. x = [y EXCEPT !.soft = TRUE]
    BY <1>1 DEF Soft
<1>3. CASE y = AddColumn(t, c)
    <2>1. y = [sql |-> "ADD COLUMN", tab |-> t, soft |-> FALSE, col |-> c]
        BY <1>3 DEF AddColumn
    <2>2. x.sql = "ADD COLUMN" /\ x.tab = t /\ x.col = c /\ x.soft = TRUE /\ "sql" \in DOMAIN x /\ "do" \notin DOMAIN x
        BY <1>2, <2>1
    <2>3. x.soft = ("ADD COLUMN" \in {"ADD COLUMN", "ADD AS RECORDED"})
        BY <2>2
    <2> QED BY <2>2, <2>3 DEF Part
<1>4. CASE y = Sql("ADD AS RECORDED", t) /\ <<t, c>> \in Unsaved
    <2>1. y = [sql |-> "ADD AS RECORDED", tab |-> t, soft |-> FALSE]
        BY <1>4 DEF Sql
    <2>2. x.sql = "ADD AS RECORDED" /\ x.tab = t /\ x.soft = TRUE /\ "sql" \in DOMAIN x /\ "do" \notin DOMAIN x
        BY <1>2, <2>1
    <2>3. x.soft = ("ADD AS RECORDED" \in {"ADD COLUMN", "ADD AS RECORDED"})
        BY <2>2
    <2> QED BY <1>4, <2>2, <2>3 DEF Part
<1> QED BY <1>1, <1>3, <1>4 DEF Readd

\* The statements of a plan are needed on the way to its schema.
LEMMA PlanStepsAre ==
    ASSUME NEW have, NEW want, NEW x \in PlanSteps(have, want)
    PROVE  PlanStep(x, want)
<1>1. ASSUME NEW t \in DOMAIN have \ DOMAIN want, x = Sql("DROP TABLE", t) PROVE PlanStep(x, want)
    <2>1. Part(x, "DROP TABLE", t)
        BY <1>1, DropPart
    <2> QED BY <2>1 DEF Part, PlanStep, PlanSql
<1>2. ASSUME NEW t \in DOMAIN want, x = Recreate(t, want[t]) PROVE PlanStep(x, want)
    <2>1. (Part(x, "CREATE TABLE", t) /\ x.cols = want[t]) \/ Part(x, "CREATE AS RECORDED", t)
        BY <1>2, RecreatePart
    <2> QED BY <1>2, <2>1 DEF Part, PlanStep, PlanSql, Recorded
<1>3. ASSUME NEW t \in DOMAIN want, NEW c, c \notin want[t], x = DropColumn(t, c) PROVE PlanStep(x, want)
    <2>1. Part(x, "DROP COLUMN", t) /\ x.col = c
        BY <1>3, DropColumnPart
    <2> QED BY <1>3, <2>1 DEF Part, PlanStep, PlanSql
<1>4. ASSUME NEW t \in DOMAIN want, NEW c, c \in want[t], x = Soft(Readd(t, c)) PROVE PlanStep(x, want)
    <2>1. (Part(x, "ADD COLUMN", t) /\ x.col = c) \/ Part(x, "ADD AS RECORDED", t)
        BY <1>4, AddColumnPart
    <2> QED BY <1>4, <2>1 DEF Part, PlanStep, PlanSql, Recorded
<1>5. CASE x \in {Sql("DROP TABLE", t) : t \in DOMAIN have \ DOMAIN want}
    BY <1>1, <1>5
<1>6. CASE x \in {Recreate(t, want[t]) : t \in DOMAIN want \ DOMAIN have}
    BY <1>2, <1>6
<1>7. ASSUME NEW t \in DOMAIN have \cap DOMAIN want, x \in Drops(t, have[t] \ want[t]) \cup Adds(t, want[t] \ have[t])
      PROVE  PlanStep(x, want)
    <2>1. CASE x \in Drops(t, have[t] \ want[t])
        <3>1. PICK c \in have[t] \ want[t] : x = DropColumn(t, c)
            BY <2>1 DEF Drops
        <3> QED BY <1>3, <3>1
    <2>2. CASE x \in Adds(t, want[t] \ have[t])
        <3>1. PICK c \in want[t] \ have[t] : x = Soft(Readd(t, c))
            BY <2>2 DEF Adds
        <3> QED BY <1>4, <3>1
    <2> QED BY <1>7, <2>1, <2>2
<1>8. CASE x \in UNION {Drops(t, have[t] \ want[t]) \cup Adds(t, want[t] \ have[t]) : t \in DOMAIN have \cap DOMAIN want}
    <2>1. PICK t \in DOMAIN have \cap DOMAIN want : x \in Drops(t, have[t] \ want[t]) \cup Adds(t, want[t] \ have[t])
        BY <1>8
    <2> QED BY <1>7, <2>1
<1> QED BY <1>5, <1>6, <1>8 DEF PlanSteps

\* They are all that is needed from the schema that the plan was made for.
LEMMA PlanBack ==
    ASSUME NEW d, NEW have, NEW want, Snap(d, have, {}), NEW met
    PROVE  Back(d, want, met, PlanSteps(have, want))
<1>0. PICK R : R = PlanSteps(have, want)
    OBVIOUS
<1>1. DOMAIN d.tab = DOMAIN have /\ \A t \in DOMAIN have : d.tab[t].cols = have[t]
    BY DEF Snap
<1>2. ASSUME NEW t \in DOMAIN have \ DOMAIN want PROVE TableStep(R, "DROP TABLE", t)
    <2>1. PICK x : x = Sql("DROP TABLE", t)
        OBVIOUS
    <2>2. x \in {Sql("DROP TABLE", u) : u \in DOMAIN have \ DOMAIN want}
        BY <2>1
    <2>3. x \in R
        BY <1>0, <2>2 DEF PlanSteps
    <2>4. Part(x, "DROP TABLE", t)
        BY <2>1, DropPart
    <2> QED BY <2>3, <2>4 DEF Part, TableStep
<1>3. ASSUME NEW t \in DOMAIN want \ DOMAIN have
      PROVE  TableStep(R, "CREATE TABLE", t) \/ TableStep(R, "CREATE AS RECORDED", t)
    <2>1. PICK x : x = Recreate(t, want[t])
        OBVIOUS
    <2>2. x \in {Recreate(u, want[u]) : u \in DOMAIN want \ DOMAIN have}
        BY <2>1
    <2>3. x \in R
        BY <1>0, <2>2 DEF PlanSteps
    <2>4. Part(x, "CREATE TABLE", t) \/ Part(x, "CREATE AS RECORDED", t)
        BY <2>1, RecreatePart
    <2> QED BY <2>3, <2>4 DEF Part, TableStep
<1>a. ASSUME NEW t \in DOMAIN have \cap DOMAIN want, NEW x \in Drops(t, have[t] \ want[t]) \cup Adds(t, want[t] \ have[t])
      PROVE  x \in R
    <2>1. x \in UNION {Drops(u, have[u] \ want[u]) \cup Adds(u, want[u] \ have[u]) : u \in DOMAIN have \cap DOMAIN want}
        BY <1>a
    <2> QED BY <1>0, <2>1 DEF PlanSteps
<1>4. ASSUME NEW t \in DOMAIN have \cap DOMAIN want, NEW c \in have[t] \ want[t] PROVE ColumnStep(R, "DROP COLUMN", t, c)
    <2>1. PICK x : x = DropColumn(t, c)
        OBVIOUS
    <2>2. x \in Drops(t, have[t] \ want[t])
        BY <2>1 DEF Drops
    <2>3. x \in R
        BY <1>a, <2>2
    <2>4. Part(x, "DROP COLUMN", t) /\ x.col = c
        BY <2>1, DropColumnPart
    <2> QED BY <2>3, <2>4 DEF Part, ColumnStep
<1>5. ASSUME NEW t \in DOMAIN have \cap DOMAIN want, NEW c \in want[t] \ have[t], <<t, c>> \notin Unsaved
      PROVE  ColumnStep(R, "ADD COLUMN", t, c)
    <2>1. PICK x : x = Soft(Readd(t, c))
        OBVIOUS
    <2>2. x \in Adds(t, want[t] \ have[t])
        BY <2>1 DEF Adds
    <2>3. x \in R
        BY <1>a, <2>2
    <2>4. Part(x, "ADD COLUMN", t) /\ x.col = c
        BY <1>5, <2>1, AddColumnPart
    <2> QED BY <2>3, <2>4 DEF Part, ColumnStep
<1>6. Back(d, want, met, R)
    BY <1>1, <1>2, <1>3, <1>4, <1>5 DEF Back
<1> QED BY <1>0, <1>6

Want(want) == [do |-> "plan rollback", to |-> want]

\* A rollback that has made its plan: no failure of it was swallowed, and nobody else
\* changed the schema, or what is left of the plan is not all that is needed.
Returning(d, job) ==
    /\ \A x \in ToSet(job.todo) : PlanStep(x, job.seen.prior)
    /\ "schema" \notin job.met /\ ~job.seen.excused => Back(d, job.seen.prior, job.met, ToSet(job.todo))

Rolling(d, job) == (\E want : Gathering(d, job, <<Want(want)>>)) \/ Returning(d, job)

RollbackInv ==
    /\ TypeInv /\ TableInv
    /\ \A k \in Jobs : jobs[k] # NoJob /\ jobs[k].op = "rollback" => Rolling(db, jobs[k])
    /\ faults \in Nat

\* The read that makes the plan.
LEMMA WantIs ==
    ASSUME NEW want, NEW x, x = Want(want)
    PROVE  x.do = "plan rollback" /\ x.to = want /\ "do" \in DOMAIN x /\ "sql" \notin DOMAIN x
BY DEF Want

\* Every read of a request is asked for by its first step.
LEMMA ReadsAt ==
    ASSUME NEW j, ReadSteps(j)
    PROVE  jobs[j] # NoJob /\ "do" \in DOMAIN Head(jobs[j].todo)
<1>1. ASSUME NEW what, At(j, what) PROVE jobs[j] # NoJob /\ "do" \in DOMAIN Head(jobs[j].todo)
    BY <1>1 DEF At
<1>2. CASE FindKey(j) \/ FindIndex(j) \/ ListTables(j) \/ ReadColumns(j) \/ ReadLastVersion(j)
    BY <1>1, <1>2 DEF FindKey, FindIndex, ListTables, ReadColumns, ReadLastVersion
<1>3. CASE InsertVersion(j) \/ PlanRollback(j) \/ ListToExport(j) \/ ExportColumns(j) \/ ExportLinks(j)
    BY <1>1, <1>3 DEF InsertVersion, PlanRollback, ListToExport, ExportColumns, ExportLinks
<1>4. CASE ExportRows(j) \/ ExportRowsFails(j) \/ ExportSystem(j) \/ EndExport(j) \/ CutExport(j) \/ ReadExisting(j)
    BY <1>1, <1>4 DEF ExportRows, ExportRowsFails, ExportSystem, EndExport, CutExport, ReadExisting
<1>5. CASE FindRecord(j) \/ GetRules(j) \/ KeepRules(j) \/ ForgetRules(j) \/ CheckRecord(j)
    BY <1>1, <1>5 DEF FindRecord, GetRules, KeepRules, ForgetRules, CheckRecord
<1>6. CASE GetColumns(j) \/ KeepColumns(j) \/ ImportBatch(j) \/ SeedRows(j) \/ FindRule(j)
    BY <1>1, <1>6 DEF GetColumns, KeepColumns, ImportBatch, SeedRows, FindRule
<1> QED BY <1>2, <1>3, <1>4, <1>5, <1>6 DEF ReadSteps, Lookup

\* What has been read when what follows it is next.
LEMMA Gathered ==
    ASSUME NEW d, NEW job, NEW rest, IsSeq(rest), job.todo = rest, Tail(rest) # rest,
           Head(rest).do # "list tables", Gathering(d, job, rest)
    PROVE  SnapOf(d, job, {})
<1>1. Head(job.todo) # Do("list tables")
    <2>1. PICK y : y = Do("list tables")
        OBVIOUS
    <2>2. y.do = "list tables"
        BY <2>1, DoIs
    <2> QED BY <2>1, <2>2
<1>2. ASSUME NEW S, job.todo = <<[do |-> "read columns", of |-> S]>> \o rest PROVE FALSE
    <2>1. PICK y : y = [do |-> "read columns", of |-> S]
        OBVIOUS
    <2>2. job.todo = <<y>> \o rest
        BY <1>2, <2>1
    <2>3. Tail(<<y>> \o rest) = rest
        BY ConsIs
    <2>4. Tail(job.todo) = rest
        BY <2>2, <2>3
    <2> QED BY <2>4
<1> QED BY <1>1, <1>2 DEF Gathering

\* A rollback that is gathering the schema goes on with that, or makes its plan.
LEMMA AwaitStep ==
    ASSUME NEW n, Typed(n), NEW j \in Jobs, Acts(j), jobs[j] # NoJob, jobs[j].op = "rollback",
           NEW want, Gathering(db, jobs[j], <<Want(want)>>)
    PROVE  \/ db' = db /\ jobs'[j] # NoJob /\ Gathering(db, jobs'[j], <<Want(want)>>)
           \/ /\ db' = db /\ At(j, "plan rollback") /\ Head(jobs[j].todo).to = want
              /\ \E R : /\ \A x \in R : PlanStep(x, want)
                        /\ "schema" \notin jobs[j].met => Back(db, want, jobs[j].met, R)
                        /\ jobs'[j] = NoJob => R = {}
                        /\ jobs'[j] # NoJob => /\ jobs'[j].seen.prior = want /\ jobs'[j].met = jobs[j].met
                                               /\ ToSet(jobs'[j].todo) = R
<1>1. PICK y : y = Want(want)
    OBVIOUS
<1>2. y.do = "plan rollback" /\ y.to = want /\ "do" \in DOMAIN y /\ "sql" \notin DOMAIN y
    BY <1>1, WantIs
<1>3. PICK rest : rest = <<y>>
    OBVIOUS
<1>4. IsSeq(rest) /\ rest # <<>> /\ Head(rest) = y /\ Tail(rest) = <<>>
    BY <1>3, Firsts
<1>5. Gathering(db, jobs[j], rest)
    BY <1>1, <1>3
<1>6. CASE jobs[j].todo # rest
    <2>1. db' = db /\ jobs'[j] # NoJob /\ Gathering(db, jobs'[j], rest)
        BY <1>4, <1>5, <1>6, GatherStep
    <2> QED BY <1>1, <1>3, <2>1
<1>7. CASE jobs[j].todo = rest
    <2>1. At(j, "plan rollback") /\ "sql" \notin DOMAIN Head(jobs[j].todo) /\ Head(jobs[j].todo).to = want
        BY <1>2, <1>4, <1>7, AtDo
    <2>2. PlanRollback(j)
        BY <2>1, ReadIs
    <2>3. SnapOf(db, jobs[j], {})
        BY <1>2, <1>4, <1>5, <1>7, Gathered
    <2>4. SeenOK(jobs[j].seen, n) /\ SchemaOK(want) /\ SchemaOK(jobs[j].seen.schema)
        <3>1. SeenOK(jobs[j].seen, n) /\ ReadOK(Head(jobs[j].todo)) /\ Head(jobs[j].todo).do = "plan rollback"
            BY <2>1, AtIs
        <3> QED BY <2>1, <3>1 DEF ReadOK, SeenOK
    <2>5. PICK q, R : q = Plan(jobs[j].seen.schema, want) /\ R = PlanSteps(jobs[j].seen.schema, want)
        OBVIOUS
    <2>6. IsSeq(q) /\ ToSet(q) = R
        BY <2>4, <2>5, PlanMembers
    <2>7. \A x \in R : PlanStep(x, want)
        BY <2>5, PlanStepsAre
    <2>8. "schema" \notin jobs[j].met => Back(db, want, jobs[j].met, R)
        BY <2>3, <2>5, PlanBack DEF SnapOf
    <2>9. PICK seen : seen = [jobs[j].seen EXCEPT !.prior = want]
        OBVIOUS
    <2>10. Learn(j, q, seen)
        BY <2>1, <2>2, <2>5, <2>9 DEF PlanRollback
    <2>11. seen.prior = want
        <3>1. PICK p : p = jobs[j].seen
            OBVIOUS
        <3>2. seen = [p EXCEPT !.prior = want]
            BY <2>9, <3>1
        <3>3. p = [schema |-> p.schema, number |-> p.number, prior |-> p.prior, rows |-> p.rows,
                   links |-> p.links, uniq |-> p.uniq, sys |-> p.sys, ruled |-> p.ruled, soft |-> p.soft,
                   excused |-> p.excused]
            BY <2>4, <3>1 DEF SeenOK
        <3> QED BY <3>2, <3>3
    <2>12. q \o Tail(jobs[j].todo) = q
        <3>1. q \o <<>> = q
            <4>1. PICK A : q \in Seq(A)
                BY <2>6 DEF IsSeq
            <4> QED BY <4>1
        <3> QED BY <1>4, <1>7, <3>1
    <2>13. Go(j, q, seen, db, {})
        BY <2>10, <2>12 DEF Learn
    <2>14. CASE q = <<>>
        <3>1. db' = db /\ jobs'[j] = NoJob
            BY <2>13, <2>14, GoIs
        <3>2. R = {}
            BY <2>6, <2>14, MembersFew
        <3> QED BY <2>1, <2>7, <2>8, <3>1, <3>2
    <2>15. CASE q # <<>>
        <3>1. db' = db /\ jobs'[j] # NoJob
              /\ jobs'[j] = [op |-> jobs[j].op, tab |-> jobs[j].tab, todo |-> q, seen |-> seen, met |-> jobs[j].met]
            BY <2>13, <2>15, GoIs
        <3>2. jobs'[j].todo = q /\ jobs'[j].seen = seen /\ jobs'[j].met = jobs[j].met
            BY <3>1
        <3> QED BY <2>1, <2>6, <2>7, <2>8, <2>11, <3>1, <3>2
    <2> QED BY <2>14, <2>15
<1> QED BY <1>6, <1>7

\* A rollback under way takes one statement of its plan off, whether or not it is done.
LEMMA TakesOff ==
    ASSUME NEW n, Typed(n), NEW j \in Jobs, jobs[j] # NoJob, NEW x, x = Head(jobs[j].todo),
           NEW R, R = ToSet(Tail(jobs[j].todo)), NEW want,
           \A y \in R : PlanStep(y, want), NEW seen, seen.prior = want, NEW e,
           "schema" \notin jobs[j].met /\ ~seen.excused => Back(e, want, jobs[j].met, R),
           Go(j, Tail(jobs[j].todo), seen, e, {})
    PROVE  /\ db' = e
           /\ jobs'[j] = NoJob => R = {}
           /\ jobs'[j] # NoJob => Returning(db', jobs'[j])
<1>1. PICK q : q = Tail(jobs[j].todo)
    OBVIOUS
<1>2. Go(j, q, seen, e, {}) /\ R = ToSet(q)
    BY <1>1
<1>3. CASE q = <<>>
    <2>1. db' = e /\ jobs'[j] = NoJob
        BY <1>2, <1>3, GoIs
    <2>2. R = {}
        BY <1>2, <1>3, MembersFew
    <2> QED BY <2>1, <2>2
<1>4. CASE q # <<>>
    <2>1. db' = e /\ jobs'[j] # NoJob
          /\ jobs'[j] = [op |-> jobs[j].op, tab |-> jobs[j].tab, todo |-> q, seen |-> seen, met |-> jobs[j].met]
        BY <1>2, <1>4, GoIs
    <2>2. PICK b : b = jobs'[j]
        OBVIOUS
    <2>3. b.todo = q /\ b.seen = seen /\ b.met = jobs[j].met
        BY <2>1, <2>2
    <2>4. Returning(e, b)
        BY <1>2, <2>3 DEF Returning
    <2> QED BY <2>1, <2>2, <2>4
<1> QED BY <1>3, <1>4

\* A rollback that runs the statements of its plan goes on with them, is answered with an
\* error, loses the last of them, or has done what it was asked for.
LEMMA ReturnStep ==
    ASSUME NEW n, Typed(n), NEW j \in Jobs, Acts(j), jobs[j] # NoJob, Returning(db, jobs[j]), faults \in Nat
    PROVE  /\ ~At(j, "plan rollback")
           /\ jobs'[j] # NoJob => Returning(db', jobs'[j])
           /\ jobs'[j] = NoJob /\ answer'[j] = "ok" /\ faults' = faults /\ "schema" \notin jobs[j].met
                /\ ~jobs[j].seen.excused => Back(db', jobs[j].seen.prior, jobs[j].met, {})
<1>1. PICK J, x, R, want : J = jobs[j] /\ x = Head(J.todo) /\ R = ToSet(Tail(J.todo)) /\ want = J.seen.prior
    OBVIOUS
<1>2. IsSeq(J.todo) /\ J.todo # <<>> /\ SeenOK(J.seen, n) /\ JobOK(J, n)
    BY <1>1 DEF Typed, JobOK, Fine
<1>3. ToSet(J.todo) = R \cup {x}
    BY <1>1, <1>2, MembersTail
<1>4. PlanStep(x, want) /\ \A y \in R : PlanStep(y, want)
    BY <1>1, <1>3 DEF Returning
<1>5. "schema" \notin J.met /\ ~J.seen.excused => Back(db, want, J.met, R \cup {x})
    BY <1>1, <1>3 DEF Returning
<1>6. "sql" \in DOMAIN x /\ "do" \notin DOMAIN x /\ Statement(j)
    BY <1>1, <1>4 DEF PlanStep, Statement
<1>7. DbStep(j)
    <2>1. ~ReadSteps(j)
        BY <1>1, <1>6, ReadsAt
    <2> QED BY <2>1, ActsAre
<1>8. SingleOK(x) /\ x.sql # "TRANSACTION" /\ After(db, x) = Single(db, x)
    <2>1. StatementOK(x)
        BY <1>1, <1>6, StatementIs
    <2>2. x.sql \in PlanSql
        BY <1>4 DEF PlanStep
    <2>3. x.sql # "TRANSACTION"
        BY <2>2 DEF PlanSql, Recorded
    <2> QED BY <2>1, <2>3 DEF StatementOK, After
<1>9. Database(db)
    BY DEF Typed
<1>10. ~At(j, "plan rollback")
    BY <1>1, <1>6 DEF At
<1>11. ASSUME NEW said, NEW e, NEW kinds, End(j, said, e, kinds), said # "ok"
       PROVE  jobs'[j] = NoJob /\ answer'[j] # "ok"
    <2>1. Become(j, NoJob, e, kinds) /\ answer' = [answer EXCEPT ![j] = said]
        BY <1>11 DEF End
    <2>2. jobs'[j] = NoJob
        BY <2>1, OthersAre
    <2>3. answer'[j] = said
        BY <2>1 DEF Typed
    <2> QED BY <1>11, <2>2, <2>3
<1>12. CASE Execute(j)
    <2>1. PICK e \in Single(db, x) : Go(j, Tail(jobs[j].todo), J.seen, e, {})
        BY <1>1, <1>8, <1>12 DEF Execute
    <2>2. "schema" \notin J.met /\ ~J.seen.excused => Back(e, want, J.met, R)
        BY <1>4, <1>5, <1>8, <1>9, BackExecuted
    <2>3. /\ db' = e
          /\ jobs'[j] = NoJob => R = {}
          /\ jobs'[j] # NoJob => Returning(db', jobs'[j])
        BY <1>1, <1>4, <2>1, <2>2, TakesOff
    <2> QED BY <1>1, <1>10, <2>2, <2>3
<1>13. CASE Rejected(j)
    <2>1. Single(db, x) = {} /\ Fail(j, J.seen)
        BY <1>1, <1>8, <1>13 DEF Rejected
    <2>2. CASE x.soft
        <3>1. Go(j, Tail(jobs[j].todo), J.seen, db, {})
            BY <1>1, <2>1, <2>2 DEF Fail
        <3>2. "schema" \notin J.met /\ ~J.seen.excused => Back(db, want, J.met, R)
            BY <1>4, <1>5, <1>8, <1>9, <2>1, <2>2, BackPassed
        <3>3. /\ db' = db
              /\ jobs'[j] = NoJob => R = {}
              /\ jobs'[j] # NoJob => Returning(db', jobs'[j])
            BY <1>1, <1>4, <3>1, <3>2, TakesOff
        <3> QED BY <1>1, <1>10, <3>2, <3>3
    <2>3. CASE ~x.soft
        <3>1. End(j, "error", db, {})
            BY <1>1, <2>1, <2>3 DEF Fail
        <3>2. jobs'[j] = NoJob /\ answer'[j] # "ok"
            BY <1>11, <3>1
        <3> QED BY <1>10, <3>2
    <2> QED BY <2>2, <2>3
<1>14. CASE Fault(j)
    <2>1. PICK seen : seen = [J.seen EXCEPT !.excused = TRUE]
        OBVIOUS
    <2>2. Fail(j, seen) /\ faults' # faults
        BY <1>1, <1>14, <2>1 DEF Fault
    <2>3. seen.prior = want /\ seen.excused
        <3>1. PICK p : p = J.seen
            OBVIOUS
        <3>2. seen = [p EXCEPT !.excused = TRUE]
            BY <2>1, <3>1
        <3>3. p = [schema |-> p.schema, number |-> p.number, prior |-> p.prior, rows |-> p.rows,
                   links |-> p.links, uniq |-> p.uniq, sys |-> p.sys, ruled |-> p.ruled, soft |-> p.soft,
                   excused |-> p.excused]
            BY <1>2, <3>1 DEF SeenOK
        <3>4. seen.prior = p.prior /\ seen.excused
            BY <3>2, <3>3
        <3> QED BY <1>1, <3>1, <3>4
    <2>4. CASE x.soft
        <3>1. Go(j, Tail(jobs[j].todo), seen, db, {})
            BY <1>1, <2>2, <2>4 DEF Fail
        <3>2. jobs'[j] # NoJob => Returning(db', jobs'[j])
            BY <1>1, <1>4, <2>3, <3>1, TakesOff
        <3> QED BY <1>10, <2>2, <3>2
    <2>5. CASE ~x.soft
        <3>1. End(j, "error", db, {})
            BY <1>1, <2>2, <2>5 DEF Fail
        <3>2. jobs'[j] = NoJob /\ answer'[j] # "ok"
            BY <1>11, <3>1
        <3> QED BY <1>10, <3>2
    <2> QED BY <2>4, <2>5
<1> QED BY <1>7, <1>12, <1>13, <1>14 DEF DbStep

\* The step of another request leaves a rollback right.
LEMMA RollingKeeps ==
    ASSUME NEW a, NEW b, Sees(a, b), Database(db), Database(db)', Rolling(db, a)
    PROVE  Rolling(db', b)
<1>1. PICK m : /\ b = [op |-> a.op, tab |-> a.tab, todo |-> a.todo, seen |-> a.seen, met |-> m]
               /\ a.met \subseteq m /\ Changed(db, db') \subseteq m
    BY DEF Sees
<1>2. b.todo = a.todo /\ b.seen = a.seen /\ b.met = m
    BY <1>1
<1>3. ASSUME NEW want, Gathering(db, a, <<Want(want)>>) PROVE Rolling(db', b)
    BY <1>3, GatheringKeeps DEF Rolling
<1>4. CASE Returning(db, a)
    <2>1. PICK R, want : R = ToSet(a.todo) /\ want = a.seen.prior
        OBVIOUS
    <2>2. \A x \in R : PlanStep(x, want)
        BY <1>4, <2>1 DEF Returning
    <2>3. ASSUME "schema" \notin m, ~a.seen.excused PROVE Back(db', want, m, R)
        <3>1. Back(db, want, a.met, R)
            BY <1>1, <1>4, <2>1, <2>3 DEF Returning
        <3>2. "schema" \notin Changed(db, db')
            BY <1>1, <2>3
        <3> QED BY <1>1, <3>1, <3>2, BackKeeps
    <2>4. Returning(db', b)
        BY <1>2, <2>1, <2>2, <2>3 DEF Returning
    <2> QED BY <2>4 DEF Rolling
<1> QED BY <1>3, <1>4 DEF Rolling

\* A step takes none of the failures to come, or one.
Spends == faults' = faults \/ (faults > 0 /\ faults' = faults - 1)

\* So does every step there is.
LEMMA StepSpends == ASSUME [Next]_vars PROVE Spends
<1>1. ASSUME NEW op, NEW t, NEW todo, NEW j, Begin(j, op, t, todo) PROVE Spends
    BY <1>1 DEF Begin, Spends
<1>2. ASSUME NEW j, NEW more, NEW seen, Learn(j, more, seen) PROVE Spends
    BY <1>2 DEF Learn, Spends
<1>3. ASSUME NEW j, Refuse(j) PROVE Spends
    BY <1>3 DEF Refuse, Spends
<1>4. ASSUME NEW j \in Jobs, Acts(j) PROVE Spends
    <2>1. CASE Asks(j)
        BY <1>1, <2>1 DEF Asks
    <2>2. CASE DbStep(j)
        BY <2>2 DEF DbStep, Execute, Rejected, Fault, Spends
    <2>3. CASE FindKey(j) \/ FindIndex(j) \/ ListTables(j) \/ ReadColumns(j) \/ ReadLastVersion(j) \/ PlanRollback(j)
        BY <1>2, <2>3 DEF FindKey, FindIndex, ListTables, ReadColumns, ReadLastVersion, PlanRollback
    <2>4. CASE InsertVersion(j) \/ EndExport(j) \/ CutExport(j)
        BY <2>4 DEF InsertVersion, EndExport, CutExport, Spends
    <2>5. CASE ListToExport(j) \/ ExportColumns(j) \/ ExportLinks(j) \/ ExportRows(j)
        BY <1>2, <2>5 DEF ListToExport, ExportColumns, ExportLinks, ExportRows
    <2>6. CASE ExportRowsFails(j) \/ ReadExisting(j)
        BY <1>2, <1>3, <2>6 DEF ExportRowsFails, ReadExisting
    <2>7. CASE ExportSystem(j)
        BY <1>2, <2>7 DEF ExportSystem, Spends
    <2>8. CASE FindRecord(j) \/ GetRules(j) \/ KeepRules(j) \/ ForgetRules(j)
        BY <1>2, <1>3, <2>8 DEF FindRecord, GetRules, KeepRules, ForgetRules
    <2>9. CASE CheckRecord(j)
        BY <1>2, <1>3, <2>9 DEF CheckRecord, Spends
    <2>10. CASE GetColumns(j) \/ KeepColumns(j) \/ SeedRows(j) \/ FindRule(j)
        BY <1>2, <1>3, <2>10 DEF GetColumns, KeepColumns, SeedRows, FindRule
    <2>11. CASE ImportBatch(j)
        BY <1>2, <2>11 DEF ImportBatch, Spends
    <2> QED BY <1>4, <2>1, <2>2, <2>3, <2>4, <2>5, <2>6, <2>7, <2>8, <2>9, <2>10, <2>11, ActsAre DEF ReadSteps, Lookup
<1>5. CASE Expire
    BY <1>5 DEF Expire, dbVars, Spends
<1>6. CASE Restart
    BY <1>6 DEF Restart, Stop, Spends
<1>7. CASE UNCHANGED vars
    BY <1>7 DEF vars, dbVars, Spends
<1> QED BY <1>4, <1>5, <1>6, <1>7 DEF Next, Step, Acts

\* A request answered with success is answered by a step of its own.
LEMMA AnsweredIs ==
    ASSUME TypeInv, [Next]_vars, NEW j \in Jobs, jobs[j] # NoJob, jobs'[j] = NoJob, answer'[j] = "ok"
    PROVE  Acts(j)
<1>1. PICK n : n = Len(versions)
    OBVIOUS
<1>2. n \in Nat /\ Typed(n) /\ VersionsOK(versions)
    BY <1>1, SeqParts DEF TypeInv, VersionsOK, Typed
<1>3. ~Restart
    BY DEF Restart, Stop
<1>4. ASSUME NEW k \in Jobs, VersionStep(k) PROVE versions' = versions \/ InsertVersion(k)
    BY <1>1, <1>2, <1>4, VersionReads
<1>5. ~Expire /\ ~UNCHANGED vars
    BY DEF Expire, vars, dbVars
<1>6. PICK k \in Jobs : Acts(k) /\ (versions' = versions \/ InsertVersion(k))
    <2>1. ASSUME NEW k \in Jobs,
             \/ (DbStep(k) \/ SchemaStep(k) \/ TimescaleStep(k) \/ DataRequest(k)) /\ UNCHANGED <<versions, archive, caches>>
             \/ VersionStep(k) /\ UNCHANGED <<archive, caches>>
             \/ BackupStep(k) /\ UNCHANGED <<versions, caches>>
             \/ Lookup(k) /\ UNCHANGED <<versions, archive>>
          PROVE  Acts(k) /\ (versions' = versions \/ InsertVersion(k))
        BY <1>4, <2>1 DEF Acts
    <2> QED BY <1>3, <1>5, <2>1 DEF Next, Step
<1>7. ASSUME k # j PROVE FALSE
    <2>1. j \in Jobs \ {k}
        BY <1>7
    <2> QED BY <1>2, <1>6, <2>1, Others
<1> QED BY <1>6, <1>7

\* Every step keeps what is known of the rollbacks.
LEMMA StepRollbacks == ASSUME RollbackInv, [Next]_vars PROVE RollbackInv'
<1>1. TypeInv' /\ TableInv'
    BY NextTyped, StepWhole DEF RollbackInv
<1>2. PICK n : n = Len(versions)
    OBVIOUS
<1>3. n \in Nat /\ Typed(n) /\ VersionsOK(versions) /\ Database(db) /\ IsSeq(versions)
    BY <1>2, SeqParts DEF TypeInv, VersionsOK, Typed, RollbackInv
<1>4. Database(db)' /\ faults' \in Nat
    <2>1. faults \in Nat /\ Spends
        BY StepSpends DEF RollbackInv
    <2> QED BY <1>1, <2>1 DEF TypeInv, Typed, Spends
<1>5. DOMAIN versions = 1 .. n /\ \A i \in DOMAIN versions : SchemaOK(versions[i].schema)
    BY <1>2, <1>3, SeqParts DEF VersionsOK
<1>6. ASSUME NEW j \in Jobs, Acts(j), versions' = versions \/ InsertVersion(j),
             NEW k \in Jobs, jobs'[k] # NoJob, jobs'[k].op = "rollback"
      PROVE  Rolling(db, jobs[k])'
    <2>1. CASE k # j
        <3>1. jobs[k] # NoJob /\ Sees(jobs[k], jobs'[k])
            BY <1>3, <1>6, <2>1, Others
        <3>2. jobs[k].op = "rollback"
            BY <1>6, <3>1 DEF Sees
        <3>3. Rolling(db, jobs[k])
            BY <3>1, <3>2 DEF RollbackInv
        <3>4. PICK b : b = jobs'[k]
            OBVIOUS
        <3>5. Rolling(db', b)
            BY <1>3, <1>4, <3>1, <3>3, <3>4, RollingKeeps
        <3> QED BY <3>4, <3>5
    <2>2. CASE k = j /\ jobs[j] # NoJob
        <3>1. jobs[j].op = "rollback"
            BY <1>3, <1>6, <2>2, SameOp
        <3>2. Rolling(db, jobs[j])
            BY <2>2, <3>1 DEF RollbackInv
        <3>3. ASSUME NEW want, Gathering(db, jobs[j], <<Want(want)>>) PROVE Rolling(db', jobs'[j])
            <4>1. CASE db' = db /\ Gathering(db, jobs'[j], <<Want(want)>>)
                BY <4>1 DEF Rolling
            <4>2. ASSUME db' = db, NEW R, \A x \in R : PlanStep(x, want),
                         "schema" \notin jobs[j].met => Back(db, want, jobs[j].met, R),
                         jobs'[j].seen.prior = want, jobs'[j].met = jobs[j].met, ToSet(jobs'[j].todo) = R
                  PROVE  Returning(db', jobs'[j])
                BY <4>2 DEF Returning
            <4> QED BY <1>3, <1>6, <2>2, <3>1, <3>3, <4>1, <4>2, AwaitStep DEF Rolling
        <3>4. CASE Returning(db, jobs[j])
            <4>1. faults \in Nat
                BY DEF RollbackInv
            <4> QED BY <1>3, <1>6, <2>2, <3>4, <4>1, ReturnStep DEF Rolling
        <3> QED BY <2>2, <3>2, <3>3, <3>4 DEF Rolling
    <2>3. CASE k = j /\ jobs[j] = NoJob
        <3>1. RollbackTo(j)
            BY <1>3, <1>6, <2>3, AskedOps
        <3>2. PICK i \in DOMAIN versions :
                Begin(j, "rollback", TableOrder[1],
                      <<Do("list tables"), [do |-> "plan rollback", to |-> versions[i].schema]>>)
            BY <3>1 DEF RollbackTo
        <3>3. PICK want : want = versions[i].schema
            OBVIOUS
        <3>4. PICK x : x = Do("list tables")
            OBVIOUS
        <3>5. PICK y : y = Want(want)
            OBVIOUS
        <3>6. PICK q : q = <<x, y>>
            OBVIOUS
        <3>7. Begin(j, "rollback", TableOrder[1], q)
            BY <3>2, <3>3, <3>4, <3>5, <3>6 DEF Want
        <3>8. jobs'[j] = [op |-> "rollback", tab |-> TableOrder[1], todo |-> q, seen |-> Nothing, met |-> {}]
            BY <1>3, <3>7, BeginIs
        <3>9. jobs'[j].todo = q /\ jobs'[j].seen = Nothing
            BY <3>8
        <3>10. Head(q) = x /\ Tail(q) = <<y>>
            BY <3>6, Firsts
        <3>11. Nothing.schema = <<>>
            BY DEF Nothing
        <3>12. Gathering(db', jobs'[j], <<Want(want)>>)
            BY <3>4, <3>5, <3>9, <3>10, <3>11 DEF Gathering
        <3> QED BY <2>3, <3>12 DEF Rolling
    <2> QED BY <2>1, <2>2, <2>3
<1>7. ASSUME versions' = versions, db' = db, jobs' = jobs, NEW k \in Jobs, jobs'[k] # NoJob, jobs'[k].op = "rollback"
      PROVE  Rolling(db, jobs[k])'
    <2>1. Rolling(db, jobs[k])
        BY <1>7 DEF RollbackInv
    <2>2. PICK e, J : e = db /\ J = jobs[k]
        OBVIOUS
    <2>3. Rolling(e, J) /\ e = db' /\ J = jobs'[k]
        BY <1>7, <2>1, <2>2
    <2> QED BY <2>3
<1>8. ASSUME NEW k \in Jobs, jobs'[k] # NoJob, jobs'[k].op = "rollback" PROVE Rolling(db, jobs[k])'
    <2>1. TypeInv
        BY DEF RollbackInv
    <2>2. CASE \E j \in Jobs : Acts(j) /\ (versions' = versions \/ InsertVersion(j))
        BY <1>6, <1>8, <2>2
    <2>3. CASE versions' = versions /\ \A i \in Jobs : jobs'[i] = NoJob
        BY <1>8, <2>3
    <2>4. CASE versions' = versions /\ db' = db /\ jobs' = jobs
        BY <1>7, <1>8, <2>4
    <2> QED BY <2>1, <2>2, <2>3, <2>4, StepIs
<1> QED BY <1>1, <1>4, <1>8 DEF RollbackInv, NoJob

\* A rollback that answers success has brought back what it should.
LEMMA RolledBack == ASSUME RollbackInv, [Next]_vars, NEW j \in Jobs, RollsBack(j) PROVE BroughtBack(j)
<1>1. /\ jobs[j] # NoJob /\ jobs[j].op = "rollback" /\ "schema" \notin jobs[j].met
      /\ jobs'[j] = NoJob /\ answer'[j] = "ok" /\ ~jobs[j].seen.excused /\ faults' = faults
    BY DEF RollsBack
<1>2. TypeInv /\ faults \in Nat /\ Rolling(db, jobs[j])
    BY <1>1 DEF RollbackInv
<1>3. Acts(j)
    BY <1>1, <1>2, AnsweredIs
<1>4. PICK n : Typed(n)
    BY <1>2 DEF TypeInv
<1>5. PICK want : want = IF At(j, "plan rollback") THEN Head(jobs[j].todo).to ELSE jobs[j].seen.prior
    OBVIOUS
<1>6. Back(db', want, jobs[j].met, {})
    <2>1. ASSUME NEW w, Gathering(db, jobs[j], <<Want(w)>>) PROVE Back(db', want, jobs[j].met, {})
        <3>1. /\ db' = db /\ At(j, "plan rollback") /\ Head(jobs[j].todo).to = w
              /\ \E R : Back(db, w, jobs[j].met, R) /\ R = {}
            BY <1>1, <1>3, <1>4, <2>1, AwaitStep
        <3> QED BY <1>5, <3>1
    <2>2. CASE Returning(db, jobs[j])
        <3>1. ~At(j, "plan rollback") /\ Back(db', jobs[j].seen.prior, jobs[j].met, {})
            BY <1>1, <1>2, <1>3, <1>4, <2>2, ReturnStep
        <3> QED BY <1>5, <3>1
    <2> QED BY <1>2, <2>1, <2>2 DEF Rolling
<1>7. /\ DOMAIN db'.tab = DOMAIN want
      /\ \A t \in DOMAIN want :
          \/ db'.tab[t].cols = want[t]
          \/ /\ db'.tab[t].cols \subseteq want[t]
             /\ \A c \in want[t] \ db'.tab[t].cols :
                 <<t, c>> \in Unsaved \/ (c \in Required /\ (db'.tab[t].rows # {} \/ "rows" \in jobs[j].met))
    BY <1>6, BackDone
<1> QED BY <1>5, <1>7 DEF BroughtBack

\* A rollback reads the schema table by table, makes the plan that leads from it to the
\* version's, and runs it statement by statement, passing over the columns that it cannot
\* add.  Whatever is done to the records meanwhile, a rollback that is answered with success
\* has brought back the tables and the columns of its version, when nobody else changed the
\* schema and no failure was swallowed: what a plan has still to do is always all that is
\* missing, but for required columns that a table with rows cannot be given.
THEOREM RollbackIsExplained == Spec => RollbackExplained
<1>1. Init => RollbackInv
    <2>1. Init => (\A k \in Jobs : jobs[k] = NoJob) /\ faults \in Nat
        BY ProjectAssumption DEF Init, DbInit
    <2> QED BY <2>1, InitTyped, InitWhole DEF RollbackInv
<1>2. RollbackInv /\ [Next]_vars => RollbackInv'
    BY StepRollbacks
<1>3. RollbackInv /\ [Next]_vars => [\A j \in Jobs : RollsBack(j) => BroughtBack(j)]_versionVars
    BY RolledBack
<1> QED BY <1>1, <1>2, <1>3, PTL DEF Spec, RollbackExplained
==============================================================================
