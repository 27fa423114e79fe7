----------------------- MODULE PersistenceWalkProofs -----------------------
(***************************************************************************)
(* Proofs about PersistenceWalk, for every host, every set of users, every *)
(* bound on its changes and on the failures of calls.                      *)
(***************************************************************************)
EXTENDS PersistenceWalk, SequenceTheorems, FiniteSetTheorems, WellFoundedInduction, TLAPS

\* Every nonempty set of naturals has a least element.
LEMMA LeastNatural ==
  ASSUME NEW S, S \subseteq Nat, S # {}
  PROVE  \E p \in S : \A q \in S : p <= q
<1>. DEFINE Below(p) == 0 .. p - 1
            F == {Below(p) : p \in S}
<1>1. \A p \in S : IsFiniteSet(Below(p)) /\ Below(p) \subseteq Nat
  BY FS_Interval
<1>2. F \subseteq FiniteSubsetsOf(Nat) /\ F # {}
  BY <1>1 DEF FiniteSubsetsOf
<1>3. PICK X \in F : \A Y \in F : ~(<<Y, X>> \in StrictSubsetOrdering(Nat))
  <2>. HIDE DEF F
  <2>. QED
    BY <1>2, FS_StrictSubsetOrderingWellFounded, WFMin
<1>4. PICK p \in S : X = Below(p)
  OBVIOUS
<1>5. ASSUME NEW q \in S, ~(p <= q) PROVE FALSE
  <2>1. Below(q) \subseteq Below(p) /\ q \in Below(p) /\ q \notin Below(q)
    BY <1>5
  <2>2. <<Below(q), Below(p)>> \in StrictSubsetOrdering(Nat)
    BY <1>1, <2>1 DEF StrictSubsetOrdering
  <2>. QED
    BY <1>3, <1>4, <2>2
<1>. QED
  BY <1>5

----------------------------------------------------------------------------
(* Paths, their places in the list, and the directories they are in.       *)

LEMMA SortedFacts ==
  /\ Sorted \in Seq(Node) /\ Len(Sorted) \in Nat /\ DOMAIN Sorted = 1 .. Len(Sorted)
  /\ Sorted[1] \in Node
  /\ \A n \in Node : \E k \in DOMAIN Sorted : Sorted[k] = n
<1>1. Sorted \in Seq(Node) /\ Sorted # <<>>
  BY PathAssumption
<1>2. Len(Sorted) \in Nat /\ DOMAIN Sorted = 1 .. Len(Sorted) /\ Len(Sorted) # 0
  BY <1>1, EmptySeq, LenProperties
<1>3. Sorted[1] \in Node
  BY <1>2 DEF Node
<1>. QED
  BY <1>1, <1>2, <1>3 DEF Node

\* Every path has a position, and a directory one before what is in it.
LEMMA PositionFacts ==
  /\ \A n \in Node : Position[n] \in Nat /\ Position[n] \in DOMAIN Sorted /\ Sorted[Position[n]] = n
  /\ \A n \in Node : Up[n] # "/" => Up[n] \in Node /\ Position[Up[n]] < Position[n]
<1>1. ASSUME NEW n \in Node
      PROVE  Position[n] \in Nat /\ Position[n] \in DOMAIN Sorted /\ Sorted[Position[n]] = n
  <2>1. PICK k \in DOMAIN Sorted : Sorted[k] = n
    BY SortedFacts
  <2>2. Position[n] = CHOOSE j \in DOMAIN Sorted : Sorted[j] = n
    BY DEF Position
  <2>3. Position[n] \in DOMAIN Sorted /\ Sorted[Position[n]] = n
    BY <2>1, <2>2
  <2>. QED
    BY <2>3, SortedFacts
<1>2. ASSUME NEW n \in Node, Up[n] # "/"
      PROVE  Up[n] \in Node /\ Position[Up[n]] < Position[n]
  <2>1. Position[n] \in DOMAIN Sorted /\ Sorted[Position[n]] = n
    BY <1>1
  <2>2. Up[n] \in Node
    BY <1>2, PathAssumption
  <2>3. PICK j \in 1 .. Position[n] - 1 : Sorted[j] = Up[n]
    BY <1>2, <2>1, PathAssumption
  <2>4. j \in DOMAIN Sorted /\ j < Position[n]
    BY <2>1, <2>3, SortedFacts
  <2>5. Position[Up[n]] = j
    <3>1. PICK p : p = Position[Up[n]]
      OBVIOUS
    <3>2. p \in DOMAIN Sorted /\ Sorted[p] = Sorted[j]
      BY <1>1, <2>2, <2>3, <3>1
    <3>3. \A h, k \in DOMAIN Sorted : Sorted[h] = Sorted[k] => h = k
      BY PathAssumption
    <3>. QED
      BY <2>4, <3>1, <3>2, <3>3
  <2>. QED
    BY <2>2, <2>4, <2>5
<1>. QED
  BY <1>1, <1>2

\* In every set of paths one comes first.
LEMMA FirstPath ==
  ASSUME NEW S, S \subseteq Node, S # {}
  PROVE  \E n \in S : \A m \in S : Position[n] <= Position[m]
<1>. DEFINE P == {Position[n] : n \in S}
<1>1. P \subseteq Nat /\ P # {}
  BY PositionFacts
<1>2. PICK p \in P : \A q \in P : p <= q
  <2>. HIDE DEF P
  <2>. QED
    BY <1>1, LeastNatural
<1>. QED
  BY <1>2

LEMMA ForemostIn ==
  ASSUME NEW S, S \subseteq Node, S # {}
  PROVE  Foremost(S) \in S /\ Foremost(S) \in Node
BY FirstPath DEF Foremost

\* The path and the directories it is in, as the smallest set closed under Up.
LEMMA AboveEquation ==
  \A n \in Node : Above[n] = {n} \union (IF Up[n] = "/" THEN {} ELSE Above[Up[n]])
<1>. DEFINE Closed(S) == \A m \in S : Up[m] = "/" \/ Up[m] \in S
            G(n) == {a \in Node : \A S \in SUBSET Node : n \in S /\ Closed(S) => a \in S}
            g == [n \in Node |-> G(n)]
            Equation(f) == f = [n \in Node |-> {n} \union (IF Up[n] = "/" THEN {} ELSE f[Up[n]])]
<1>1. ASSUME NEW n \in Node, Up[n] = "/" PROVE G(n) = {n}
  <2>1. {n} \in SUBSET Node /\ Closed({n})
    BY <1>1
  <2>. QED
    BY <2>1
<1>2. ASSUME NEW n \in Node, Up[n] # "/" PROVE G(n) = {n} \union G(Up[n])
  <2>1. Up[n] \in Node
    BY <1>2, PathAssumption
  <2>2. ASSUME NEW a \in G(n), a # n PROVE a \in G(Up[n])
    <3>1. ASSUME NEW S \in SUBSET Node, Up[n] \in S, Closed(S) PROVE a \in S
      <4>1. S \union {n} \in SUBSET Node /\ Closed(S \union {n})
        BY <3>1
      <4>. QED
        BY <4>1, <2>2
    <3>. QED
      BY <3>1
  <2>3. ASSUME NEW a \in G(Up[n]) PROVE a \in G(n)
    <3>1. ASSUME NEW S \in SUBSET Node, n \in S, Closed(S) PROVE a \in S
      BY <3>1, <1>2
    <3>. QED
      BY <3>1
  <2>4. n \in G(n)
    OBVIOUS
  <2>. HIDE DEF G
  <2>. QED
    BY <2>2, <2>3, <2>4
<1>3. Equation(g)
  <2>. HIDE DEF G, Closed
  <2>1. ASSUME NEW n \in Node
        PROVE  G(n) = {n} \union (IF Up[n] = "/" THEN {} ELSE g[Up[n]])
    <3>1. CASE Up[n] = "/"
      BY <3>1, <1>1
    <3>2. CASE Up[n] # "/"
      BY <3>2, <1>2, PathAssumption
    <3>. QED
      BY <3>1, <3>2
  <2>. QED
    BY <2>1
<1>4. Equation(CHOOSE f : Equation(f))
  <2>. HIDE DEF Equation, g
  <2>. QED
    BY <1>3
<1>5. Above = CHOOSE f : Equation(f)
  BY DEF Above
<1>6. Equation(Above)
  <2>. HIDE DEF Equation
  <2>. QED
    BY <1>4, <1>5
<1>. QED
  <2>1. \A n \in Node : [m \in Node |-> {m} \union (IF Up[m] = "/" THEN {} ELSE Above[Up[m]])][n]
                        = {n} \union (IF Up[n] = "/" THEN {} ELSE Above[Up[n]])
    OBVIOUS
  <2>. QED
    BY <1>6, <2>1

\* Every path above is one of the host's, is above all that is below it, and is
\* the directory of the next one down.
LEMMA AboveFacts ==
  ASSUME NEW n \in Node
  PROVE  /\ n \in Above[n] /\ Above[n] \subseteq Node
         /\ \A m \in Above[n] : Up[m] # "/" => Up[m] \in Above[n]
         /\ \A a \in Above[n] : a # n => \E m \in Above[n] : Up[m] = a
         /\ \A a \in Above[n] : a # n => Up[n] # "/" /\ a \in Above[Up[n]]
<1>. DEFINE Fine(m) == /\ Above[m] \subseteq Node
                       /\ \A x \in Above[m] : Up[x] # "/" => Up[x] \in Above[m]
                       /\ \A a \in Above[m] : a # m => \E x \in Above[m] : Up[x] = a
            Bad == {m \in Node : ~Fine(m)}
<1>1. Bad = {}
  <2>1. SUFFICES ASSUME Bad # {} PROVE FALSE
    OBVIOUS
  <2>2. PICK m \in Bad : \A x \in Bad : Position[m] <= Position[x]
    <3>1. Bad \subseteq Node
      OBVIOUS
    <3>. HIDE DEF Bad
    <3>. QED
      BY <2>1, <3>1, FirstPath
  <2>3. m \in Node /\ Above[m] = {m} \union (IF Up[m] = "/" THEN {} ELSE Above[Up[m]])
    BY AboveEquation
  <2>4. CASE Up[m] = "/"
    BY <2>3, <2>4
  <2>5. CASE Up[m] # "/"
    <3>1. Up[m] \in Node /\ Position[Up[m]] < Position[m] /\ Position[m] \in Nat /\ Position[Up[m]] \in Nat
      BY <2>3, <2>5, PositionFacts
    <3>2. Up[m] \notin Bad
      <4>. HIDE DEF Bad
      <4>. QED
        BY <3>1, <2>2
    <3>3. Fine(Up[m])
      BY <3>1, <3>2
    <3>4. Above[m] = {m} \union Above[Up[m]] /\ Up[m] \in Above[Up[m]]
      BY <2>3, <2>5, <3>1, AboveEquation
    <3>5. Fine(m)
      BY <2>3, <3>3, <3>4
    <3>. QED
      BY <3>5
  <2>. QED
    BY <2>4, <2>5
<1>2. Fine(n)
  BY <1>1
<1>3. Above[n] = {n} \union (IF Up[n] = "/" THEN {} ELSE Above[Up[n]])
  BY AboveEquation
<1>. QED
  BY <1>2, <1>3

----------------------------------------------------------------------------
(* The list: what its entries are, and that users come before the entries  *)
(* that are for them.                                                      *)

IsSeq(s) == \E S : s \in Seq(S)

EntryKinds == {"check", "users", "file", "tree", "glob", "pam"}
Parses == {"none", "cron", "periodic", "anacron", "rc", "init", "unit", "ssh", "profile", "loader",
           "sudoers", "pam", "at", "desktop"}

EntryOK(e) == /\ e.kind \in EntryKinds /\ e.parse \in Parses /\ e.reading \in {0, 1, 2}
              /\ e.kind = "users" => e.reading \in {1, 2} /\ e.path = "/etc/passwd"

\* What is for the users of a reading comes after that reading, or the reading
\* is one of those that came before the list.
Well(s, had) ==
  /\ IsSeq(s)
  /\ \A k \in DOMAIN s :
       /\ EntryOK(s[k])
       /\ s[k].reading # 0 /\ s[k].kind # "users" =>
            \/ s[k].reading \in had
            \/ \E j \in DOMAIN s : j < k /\ s[j].kind = "users" /\ s[j].reading = s[k].reading

Gives(s, r) == \E j \in DOMAIN s : s[j].kind = "users" /\ s[j].reading = r

LEMMA SeqFacts ==
  ASSUME NEW s, IsSeq(s)
  PROVE  Len(s) \in Nat /\ DOMAIN s = 1 .. Len(s)
<1>1. PICK S : s \in Seq(S)
  BY DEF IsSeq
<1>. QED
  BY <1>1, LenProperties

LEMMA CatFacts ==
  ASSUME NEW a, NEW b, IsSeq(a), IsSeq(b)
  PROVE  /\ IsSeq(a \o b) /\ Len(a \o b) = Len(a) + Len(b)
         /\ \A k \in DOMAIN a : k \in DOMAIN (a \o b) /\ (a \o b)[k] = a[k]
         /\ \A k \in DOMAIN (a \o b) : k \notin DOMAIN a => k - Len(a) \in DOMAIN b /\ (a \o b)[k] = b[k - Len(a)]
         /\ \A k \in DOMAIN b : k + Len(a) \in DOMAIN (a \o b) /\ (a \o b)[k + Len(a)] = b[k]
         /\ DOMAIN (a \o b) = 1 .. Len(a) + Len(b)
<1>1. PICK S : a \in Seq(S)
  BY DEF IsSeq
<1>2. PICK T : b \in Seq(T)
  BY DEF IsSeq
<1>3. a \in Seq(S \union T) /\ b \in Seq(S \union T)
  BY <1>1, <1>2
<1>4. /\ a \o b \in Seq(S \union T) /\ Len(a \o b) = Len(a) + Len(b)
      /\ \A i \in 1 .. Len(a) + Len(b) : (a \o b)[i] = IF i <= Len(a) THEN a[i] ELSE b[i - Len(a)]
  BY <1>3, ConcatProperties
<1>5. IsSeq(a \o b)
  BY <1>4 DEF IsSeq
<1>6. /\ Len(a) \in Nat /\ DOMAIN a = 1 .. Len(a) /\ Len(b) \in Nat /\ DOMAIN b = 1 .. Len(b)
      /\ DOMAIN (a \o b) = 1 .. Len(a) + Len(b)
  BY <1>4, <1>5, SeqFacts
<1>. DEFINE m == Len(a)
            n == Len(b)
            c == a \o b
<1>7. /\ m \in Nat /\ DOMAIN a = 1 .. m /\ n \in Nat /\ DOMAIN b = 1 .. n /\ DOMAIN c = 1 .. m + n
      /\ \A i \in 1 .. m + n : c[i] = IF i <= m THEN a[i] ELSE b[i - m]
  BY <1>4, <1>6
<1>8. /\ \A k \in DOMAIN a : k \in DOMAIN c /\ c[k] = a[k]
      /\ \A k \in DOMAIN c : k \notin DOMAIN a => k - m \in DOMAIN b /\ c[k] = b[k - m]
  <2>. HIDE DEF m, n, c
  <2>. QED
    BY <1>7
<1>9. \A k \in DOMAIN b : k + m \in DOMAIN c /\ c[k + m] = b[k]
  <2>. HIDE DEF m, n, c
  <2>. SUFFICES ASSUME NEW k \in DOMAIN b PROVE k + m \in DOMAIN c /\ c[k + m] = b[k]
    OBVIOUS
  <2>1. k + m \in DOMAIN c /\ k + m - m = k /\ ~(k + m <= m)
    BY <1>7
  <2>. QED
    BY <1>7, <2>1
<1>. QED
  BY <1>4, <1>5, <1>6, <1>8, <1>9

LEMMA WellCat ==
  ASSUME NEW a, NEW b, NEW had, NEW more, Well(a, had), Well(b, had \union more),
         \A r \in more : Gives(a, r)
  PROVE  Well(a \o b, had)
<1>. DEFINE c == a \o b
            m == Len(a)
<1>1. /\ IsSeq(c) /\ IsSeq(a) /\ m \in Nat /\ DOMAIN a = 1 .. m
      /\ \A k \in DOMAIN a : k \in DOMAIN c /\ c[k] = a[k]
      /\ \A k \in DOMAIN c : k \notin DOMAIN a => k - m \in DOMAIN b /\ c[k] = b[k - m]
      /\ \A k \in DOMAIN b : k + m \in DOMAIN c /\ c[k + m] = b[k]
      /\ DOMAIN c = 1 .. m + Len(b) /\ Len(b) \in Nat /\ DOMAIN b = 1 .. Len(b)
  BY CatFacts, SeqFacts DEF Well
<1>. HIDE DEF c, m
<1>2. ASSUME NEW k \in DOMAIN c
      PROVE  /\ EntryOK(c[k])
             /\ c[k].reading # 0 /\ c[k].kind # "users" =>
                  \/ c[k].reading \in had
                  \/ \E j \in DOMAIN c : j < k /\ c[j].kind = "users" /\ c[j].reading = c[k].reading
  <2>1. CASE k \in DOMAIN a
    <3>1. c[k] = a[k] /\ EntryOK(a[k])
      BY <1>1, <2>1 DEF Well
    <3>2. ASSUME c[k].reading # 0, c[k].kind # "users", c[k].reading \notin had
          PROVE  \E j \in DOMAIN c : j < k /\ c[j].kind = "users" /\ c[j].reading = c[k].reading
      <4>1. PICK j \in DOMAIN a : j < k /\ a[j].kind = "users" /\ a[j].reading = a[k].reading
        BY <2>1, <3>1, <3>2 DEF Well
      <4>. QED
        BY <1>1, <3>1, <4>1
    <3>. QED
      BY <3>1, <3>2
  <2>2. CASE k \notin DOMAIN a
    <3>. DEFINE i == k - m
    <3>1. i \in DOMAIN b /\ c[k] = b[i] /\ k \in Nat /\ k = i + m
      BY <1>1, <2>2
    <3>2. EntryOK(b[i])
      BY <3>1 DEF Well
    <3>3. ASSUME c[k].reading # 0, c[k].kind # "users", c[k].reading \notin had
          PROVE  \E j \in DOMAIN c : j < k /\ c[j].kind = "users" /\ c[j].reading = c[k].reading
      <4>1. CASE b[i].reading \in more
        <5>1. PICK j \in DOMAIN a : a[j].kind = "users" /\ a[j].reading = b[i].reading
          BY <4>1 DEF Gives
        <5>2. j < k /\ j \in DOMAIN c /\ c[j] = a[j]
          BY <1>1, <2>2, <5>1
        <5>. QED
          BY <3>1, <5>1, <5>2
      <4>2. CASE b[i].reading \notin more
        <5>1. PICK j \in DOMAIN b : j < i /\ b[j].kind = "users" /\ b[j].reading = b[i].reading
          BY <3>1, <3>3, <4>2 DEF Well
        <5>2. j + m < k /\ j + m \in DOMAIN c /\ c[j + m] = b[j]
          BY <1>1, <3>1, <5>1
        <5>. QED
          BY <3>1, <5>1, <5>2
      <4>. QED
        BY <4>1, <4>2
    <3>. HIDE DEF i
    <3>. QED
      BY <3>1, <3>2, <3>3
  <2>. QED
    BY <2>1, <2>2
<1>3. Well(c, had)
  BY <1>1, <1>2 DEF Well
<1>. QED
  BY <1>3 DEF c

\* Two lists that need nothing from before.
LEMMA WellCatPlain ==
  ASSUME NEW a, NEW b, NEW had, Well(a, had), Well(b, had)
  PROVE  Well(a \o b, had)
<1>. DEFINE more == {}
<1>1. had \union more = had /\ \A r \in more : Gives(a, r)
  OBVIOUS
<1>. HIDE DEF more
<1>2. Well(b, had \union more)
  BY <1>1
<1>. QED
  BY <1>1, <1>2, WellCat

LEMMA WellMore ==
  ASSUME NEW a, NEW had, Well(a, {})
  PROVE  Well(a, had)
BY DEF Well

LEMMA GivesCat ==
  ASSUME NEW a, NEW b, IsSeq(a), IsSeq(b), NEW r, Gives(a, r)
  PROVE  Gives(a \o b, r)
<1>1. PICK j \in DOMAIN a : a[j].kind = "users" /\ a[j].reading = r
  BY DEF Gives
<1>2. j \in DOMAIN (a \o b) /\ (a \o b)[j] = a[j]
  BY CatFacts
<1>. QED
  BY <1>1, <1>2 DEF Gives

LEMMA GivesAfter ==
  ASSUME NEW a, NEW b, IsSeq(a), IsSeq(b), NEW r, Gives(b, r)
  PROVE  Gives(a \o b, r)
<1>. DEFINE c == a \o b
            m == Len(a)
<1>1. \A k \in DOMAIN b : k + m \in DOMAIN c /\ c[k + m] = b[k]
  BY CatFacts
<1>2. PICK j \in DOMAIN b : b[j].kind = "users" /\ b[j].reading = r
  BY DEF Gives
<1>. HIDE DEF c, m
<1>3. Gives(c, r)
  BY <1>1, <1>2 DEF Gives
<1>. QED
  BY <1>3 DEF c

LEMMA Arities ==
  /\ \A a : IsSeq(<<a>>)
  /\ \A a, b : IsSeq(<<a, b>>)
  /\ \A a, b, c, d : IsSeq(<<a, b, c, d>>)
  /\ \A a, b, c, d, e, f, g, h : IsSeq(<<a, b, c, d, e, f, g, h>>)
  /\ \A a, b, c, d, e, f, g, h, i : IsSeq(<<a, b, c, d, e, f, g, h, i>>)
<1>1. ASSUME NEW a PROVE IsSeq(<<a>>)
  <2>1. <<a>> \in Seq({a})
    OBVIOUS
  <2>. QED
    BY <2>1 DEF IsSeq
<1>2. ASSUME NEW a, NEW b PROVE IsSeq(<<a, b>>)
  <2>1. <<a, b>> \in Seq({a, b})
    OBVIOUS
  <2>. QED
    BY <2>1 DEF IsSeq
<1>4. ASSUME NEW a, NEW b, NEW c, NEW d PROVE IsSeq(<<a, b, c, d>>)
  <2>1. <<a, b, c, d>> \in Seq({a, b, c, d})
    OBVIOUS
  <2>. QED
    BY <2>1 DEF IsSeq
<1>8. ASSUME NEW a, NEW b, NEW c, NEW d, NEW e, NEW f, NEW g, NEW h
      PROVE  IsSeq(<<a, b, c, d, e, f, g, h>>)
  <2>1. <<a, b, c, d, e, f, g, h>> \in Seq({a, b, c, d, e, f, g, h})
    OBVIOUS
  <2>. QED
    BY <2>1 DEF IsSeq
<1>9. ASSUME NEW a, NEW b, NEW c, NEW d, NEW e, NEW f, NEW g, NEW h, NEW i
      PROVE  IsSeq(<<a, b, c, d, e, f, g, h, i>>)
  <2>1. <<a, b, c, d, e, f, g, h, i>> \in Seq({a, b, c, d, e, f, g, h, i})
    OBVIOUS
  <2>. QED
    BY <2>1 DEF IsSeq
<1>. QED
  BY <1>1, <1>2, <1>4, <1>8, <1>9

LEMMA EntryFacts ==
  ASSUME NEW kind, NEW path, NEW parse, NEW skip, NEW r, NEW u
  PROVE  /\ Source(kind, path, parse, skip, r, u).kind = kind
         /\ Source(kind, path, parse, skip, r, u).path = path
         /\ Source(kind, path, parse, skip, r, u).parse = parse
         /\ Source(kind, path, parse, skip, r, u).skip = skip
         /\ Source(kind, path, parse, skip, r, u).reading = r
         /\ Source(kind, path, parse, skip, r, u).user = u
BY DEF Source

LEMMA OneWell ==
  ASSUME NEW kind \in EntryKinds \ {"users"}, NEW path, NEW parse \in Parses, NEW skip
  PROVE  Well(<<Entry(kind, path, parse, skip)>>, {})
<1>. DEFINE e == Entry(kind, path, parse, skip)
<1>1. EntryOK(e) /\ e.reading = 0
  BY EntryFacts DEF Entry, EntryOK
<1>. HIDE DEF e
<1>2. IsSeq(<<e>>)
  BY Arities
<1>3. \A k \in DOMAIN <<e>> : <<e>>[k] = e
  OBVIOUS
<1>4. Well(<<e>>, {})
  BY <1>1, <1>2, <1>3 DEF Well
<1>. QED
  BY <1>4 DEF e

LEMMA FilesWell ==
  ASSUME NEW paths, IsSeq(paths), NEW parse \in Parses
  PROVE  Well(Files(paths, parse), {}) /\ Well(Trees(paths, parse), {})
<1>. DEFINE f == Files(paths, parse)
            t == Trees(paths, parse)
<1>1. DOMAIN f = DOMAIN paths /\ DOMAIN t = DOMAIN paths
  BY DEF Files, Trees
<1>2. \A k \in DOMAIN paths : /\ EntryOK(f[k]) /\ f[k].reading = 0
                              /\ EntryOK(t[k]) /\ t[k].reading = 0
  <2>. SUFFICES ASSUME NEW k \in DOMAIN paths
                PROVE  EntryOK(f[k]) /\ f[k].reading = 0 /\ EntryOK(t[k]) /\ t[k].reading = 0
    OBVIOUS
  <2>1. f[k] = Entry("file", paths[k], parse, {}) /\ t[k] = Entry("tree", paths[k], parse, {})
    BY DEF Files, Trees
  <2>. HIDE DEF f, t
  <2>2. EntryOK(Entry("file", paths[k], parse, {})) /\ Entry("file", paths[k], parse, {}).reading = 0
    BY EntryFacts DEF Entry, EntryOK, EntryKinds
  <2>3. EntryOK(Entry("tree", paths[k], parse, {})) /\ Entry("tree", paths[k], parse, {}).reading = 0
    BY EntryFacts DEF Entry, EntryOK, EntryKinds
  <2>. QED
    BY <2>1, <2>2, <2>3
<1>3. Len(paths) \in Nat /\ DOMAIN paths = 1 .. Len(paths)
  BY SeqFacts
<1>4. IsSeq(f) /\ IsSeq(t)
  <2>. DEFINE n == Len(paths)
              F == {f[k] : k \in 1 .. n}
              T == {t[k] : k \in 1 .. n}
  <2>1. f = [k \in 1 .. n |-> f[k]] /\ t = [k \in 1 .. n |-> t[k]] /\ n \in Nat
    BY <1>3 DEF Files, Trees
  <2>. HIDE DEF f, t, n
  <2>2. f \in Seq(F) /\ t \in Seq(T)
    BY <2>1, IsASeq
  <2>. QED
    BY <2>2 DEF IsSeq
<1>5. Well(f, {}) /\ Well(t, {})
  <2>. HIDE DEF f, t
  <2>. QED
    BY <1>1, <1>2, <1>4 DEF Well
<1>. QED
  BY <1>5

LEMMA PerUserWell ==
  ASSUME NEW kind \in {"file", "tree"}, NEW rels, IsSeq(rels), NEW parse \in Parses, NEW r \in {1, 2}
  PROVE  Well(PerUser(kind, rels, parse, r), {r})
<1>. DEFINE p == PerUser(kind, rels, parse, r)
            n == Len(UserOrder) * Len(rels)
            E(k) == Source(kind, In[<<UserOrder[((k - 1) \div Len(rels)) + 1], rels[((k - 1) % Len(rels)) + 1]>>],
                           parse, {}, r, UserOrder[((k - 1) \div Len(rels)) + 1])
<1>1. n \in Nat
  <2>1. Len(rels) \in Nat
    BY SeqFacts
  <2>2. Len(UserOrder) \in Nat
    BY HostAssumption, LenProperties
  <2>3. \A x, y \in Nat : x * y \in Nat
    OBVIOUS
  <2>. QED
    BY <2>1, <2>2, <2>3
<1>2. p = [k \in 1 .. n |-> E(k)]
  BY Zenon DEF PerUser
<1>3. \A k \in 1 .. n : p[k] = E(k)
  <2>. HIDE DEF p, E, n
  <2>. QED
    BY <1>2
<1>4. \A k : EntryOK(E(k)) /\ E(k).reading = r
  <2>. SUFFICES ASSUME NEW k PROVE EntryOK(E(k)) /\ E(k).reading = r
    OBVIOUS
  <2>. DEFINE path == In[<<UserOrder[((k - 1) \div Len(rels)) + 1], rels[((k - 1) % Len(rels)) + 1]>>]
              u == UserOrder[((k - 1) \div Len(rels)) + 1]
  <2>. HIDE DEF path, u
  <2>1. EntryOK(Source(kind, path, parse, {}, r, u)) /\ Source(kind, path, parse, {}, r, u).reading = r
    BY EntryFacts DEF EntryOK, EntryKinds
  <2>. QED
    BY <2>1 DEF path, u
<1>5. IsSeq(p)
  <2>. DEFINE S == {p[k] : k \in 1 .. n}
  <2>1. p = [k \in 1 .. n |-> p[k]]
    <3>. HIDE DEF n, E, p
    <3>. QED
      BY <1>2
  <2>2. p \in Seq(S)
    <3>. HIDE DEF p, n
    <3>. QED
      BY <2>1, <1>1, IsASeq
  <2>. QED
    BY <2>2 DEF IsSeq
<1>6. DOMAIN p = 1 .. n
  <2>. HIDE DEF p, n, E
  <2>. QED
    BY <1>2
<1>7. Well(p, {r})
  <2>. HIDE DEF p, n, E
  <2>1. \A k \in DOMAIN p : EntryOK(p[k]) /\ p[k].reading = r
    BY <1>3, <1>4, <1>6
  <2>. QED
    BY <1>5, <2>1 DEF Well
<1>. QED
  BY <1>7 DEF p

\* Every part of the list that is for no user, and those that are.
LEMMA PlainParts ==
  /\ Well(Check, {}) /\ Well(ScanCron, {}) /\ Well(ScanAnacron, {}) /\ Well(ScanRcInit, {})
  /\ Well(ScanLoader, {}) /\ Well(ScanSudoers, {}) /\ Well(ScanPAM, {})
  /\ Well(ScanAt, {}) /\ Well(ScanCronLog, {})
<1>1. Well(Check, {})
  BY OneWell DEF Check, EntryKinds, Parses
<1>2. Well(ScanCron, {})
  <2>. DEFINE e1 == <<Entry("tree", "/var/spool/cron", "cron", SpoolExcluded)>>
              tables == <<"/etc/crontab">>
              lists == <<"/etc/cron.allow", "/etc/cron.deny">>
              daily == <<"/etc/cron.hourly", "/etc/cron.daily", "/etc/cron.weekly", "/etc/cron.monthly">>
              skip == Ran(tables \o lists \o daily) \union {"/etc/cron.d"}
              e2 == <<Entry("glob", "/etc/cron*", "cron", skip)>>
              one == <<"/etc/cron.d">>
              two == <<"/var/spool/cron/crontabs", "/var/cron/tabs">>
  <2>1. ScanCron = Files(tables, "cron") \o Files(lists, "none") \o Trees(one, "cron")
                   \o Trees(daily, "periodic") \o e1 \o Trees(two, "cron") \o e2
    BY DEF ScanCron
  <2>2. IsSeq(tables) /\ IsSeq(lists) /\ IsSeq(daily) /\ IsSeq(one) /\ IsSeq(two)
    BY Arities, Zenon
  <2>3. Well(e1, {})
    BY OneWell DEF EntryKinds, Parses
  <2>4. Well(e2, {})
    <3>. HIDE DEF skip
    <3>. QED
      BY OneWell DEF EntryKinds, Parses
  <2>. HIDE DEF e1, e2, tables, lists, daily, one, two
  <2>5. /\ Well(Files(tables, "cron"), {}) /\ Well(Files(lists, "none"), {}) /\ Well(Trees(one, "cron"), {})
        /\ Well(Trees(daily, "periodic"), {}) /\ Well(Trees(two, "cron"), {})
    BY <2>2, FilesWell DEF Parses
  <2>6. Well(Files(tables, "cron") \o Files(lists, "none"), {})
    BY <2>5, WellCatPlain
  <2>7. Well(Files(tables, "cron") \o Files(lists, "none") \o Trees(one, "cron"), {})
    BY <2>5, <2>6, WellCatPlain
  <2>8. Well(Files(tables, "cron") \o Files(lists, "none") \o Trees(one, "cron")
             \o Trees(daily, "periodic"), {})
    BY <2>5, <2>7, WellCatPlain
  <2>9. Well(Files(tables, "cron") \o Files(lists, "none") \o Trees(one, "cron")
             \o Trees(daily, "periodic") \o e1, {})
    BY <2>3, <2>8, WellCatPlain
  <2>10. Well(Files(tables, "cron") \o Files(lists, "none") \o Trees(one, "cron")
             \o Trees(daily, "periodic") \o e1 \o Trees(two, "cron"), {})
    BY <2>5, <2>9, WellCatPlain
  <2>. QED
    BY <2>1, <2>4, <2>10, WellCatPlain
<1>3. Well(ScanAnacron, {})
  <2>. DEFINE one == <<"/etc/anacrontab">>
  <2>1. IsSeq(one) /\ ScanAnacron = Files(one, "anacron")
    BY Arities, Zenon DEF ScanAnacron
  <2>. HIDE DEF one
  <2>. QED
    BY <2>1, FilesWell DEF Parses
<1>4. Well(ScanRcInit, {})
  <2>. DEFINE dirs == <<"/etc/init", "/etc/init.d", "/etc/rc0.d", "/etc/rc1.d", "/etc/rc2.d", "/etc/rc3.d",
                        "/etc/rc4.d", "/etc/rc5.d", "/etc/rc6.d">>
              two == <<"/etc/rc.local", "/etc/inittab">>
              skip == {"/etc/rc.local"} \union Ran(dirs)
              e == <<Entry("glob", "/etc/rc*", "rc", skip)>>
  <2>1. ScanRcInit = Files(two, "rc") \o Trees(dirs, "init") \o e
    BY DEF ScanRcInit
  <2>2. IsSeq(dirs) /\ IsSeq(two)
    BY Arities, Zenon
  <2>3. Well(e, {})
    <3>. HIDE DEF skip
    <3>. QED
      BY OneWell DEF EntryKinds, Parses
  <2>. HIDE DEF dirs, two, e
  <2>4. Well(Files(two, "rc"), {}) /\ Well(Trees(dirs, "init"), {})
    BY <2>2, FilesWell DEF Parses
  <2>5. Well(Files(two, "rc") \o Trees(dirs, "init"), {})
    BY <2>4, WellCatPlain
  <2>. QED
    BY <2>1, <2>3, <2>5, WellCatPlain
<1>5. Well(ScanLoader, {})
  <2>. DEFINE two == <<"/etc/ld.so.preload", "/etc/ld.so.conf">>
              one == <<"/etc/ld.so.conf.d">>
  <2>1. ScanLoader = Files(two, "loader") \o Trees(one, "loader") /\ IsSeq(one) /\ IsSeq(two)
    BY Arities, Zenon DEF ScanLoader
  <2>. HIDE DEF one, two
  <2>2. Well(Files(two, "loader"), {}) /\ Well(Trees(one, "loader"), {})
    BY <2>1, FilesWell DEF Parses
  <2>. QED
    BY <2>1, <2>2, WellCatPlain
<1>6. Well(ScanSudoers, {})
  <2>. DEFINE file == <<"/etc/sudoers">>
              one == <<"/etc/sudoers.d">>
  <2>1. ScanSudoers = Files(file, "sudoers") \o Trees(one, "sudoers") /\ IsSeq(one) /\ IsSeq(file)
    BY Arities, Zenon DEF ScanSudoers
  <2>. HIDE DEF one, file
  <2>2. Well(Files(file, "sudoers"), {}) /\ Well(Trees(one, "sudoers"), {})
    BY <2>1, FilesWell DEF Parses
  <2>. QED
    BY <2>1, <2>2, WellCatPlain
<1>7. Well(ScanPAM, {})
  BY OneWell DEF ScanPAM, EntryKinds, Parses
<1>8. Well(ScanAt, {})
  <2>. DEFINE two == <<"/etc/at.allow", "/etc/at.deny">>
              four == <<"/var/spool/at", "/var/spool/atjobs", "/var/spool/cron/atjobs", "/var/at/jobs">>
  <2>1. ScanAt = Files(two, "none") \o Trees(four, "at") /\ IsSeq(two) /\ IsSeq(four)
    BY Arities, Zenon DEF ScanAt
  <2>. HIDE DEF two, four
  <2>2. Well(Files(two, "none"), {}) /\ Well(Trees(four, "at"), {})
    BY <2>1, FilesWell DEF Parses
  <2>. QED
    BY <2>1, <2>2, WellCatPlain
<1>9. Well(ScanCronLog, {})
  <2>. DEFINE one == <<"/var/log/cron">>
  <2>1. IsSeq(one) /\ ScanCronLog = Files(one, "none")
    BY Arities, Zenon DEF ScanCronLog
  <2>. HIDE DEF one
  <2>. QED
    BY <2>1, FilesWell DEF Parses
<1>. QED
  BY <1>1, <1>2, <1>3, <1>4, <1>5, <1>6, <1>7, <1>8, <1>9

LEMMA ReadingWell ==
  ASSUME NEW r \in {1, 2}
  PROVE  Well(Reading(r), {}) /\ Gives(Reading(r), r)
<1>. DEFINE e == Source("users", "/etc/passwd", "none", {}, r, NoUser)
<1>1. EntryOK(e) /\ e.kind = "users" /\ e.reading = r
  BY EntryFacts DEF EntryOK, EntryKinds, Parses
<1>2. Reading(r) = <<e>>
  BY DEF Reading
<1>. HIDE DEF e
<1>3. IsSeq(<<e>>)
  BY Arities
<1>4. DOMAIN <<e>> = {1} /\ \A k \in DOMAIN <<e>> : <<e>>[k] = e
  OBVIOUS
<1>5. Well(<<e>>, {}) /\ Gives(<<e>>, r)
  BY <1>1, <1>3, <1>4 DEF Well, Gives
<1>. QED
  BY <1>2, <1>5

LEMMA UserParts ==
  Well(ScanSystemd, {}) /\ Well(ScanSSH, {1}) /\ Well(ScanProfiles, {1}) /\ Well(ScanXDG, {1})
<1>1. Well(ScanSystemd, {})
  <2>. DEFINE dirs == <<"/etc/systemd/system", "/lib/systemd/system", "/usr/lib/systemd/system",
                        "/run/systemd/system", "/etc/systemd/user", "/lib/systemd/user",
                        "/usr/lib/systemd/user", "/run/systemd/user">>
              one == <<".config/systemd/user">>
  <2>1. /\ ScanSystemd = Trees(dirs, "unit") \o Reading(2) \o PerUser("tree", one, "unit", 2)
        /\ IsSeq(dirs) /\ IsSeq(one)
    BY Arities, Zenon DEF ScanSystemd
  <2>. HIDE DEF dirs, one
  <2>2. Well(Trees(dirs, "unit"), {}) /\ Well(Reading(2), {}) /\ Gives(Reading(2), 2)
    BY <2>1, FilesWell, ReadingWell DEF Parses
  <2>3. Well(PerUser("tree", one, "unit", 2), {2})
    BY <2>1, PerUserWell DEF Parses
  <2>. DEFINE a == Trees(dirs, "unit")
              b == PerUser("tree", one, "unit", 2)
              c == a \o Reading(2)
  <2>4. Well(c, {})
    BY <2>2, WellCatPlain
  <2>5. Gives(c, 2)
    <3>1. PICK j \in DOMAIN Reading(2) : Reading(2)[j].kind = "users" /\ Reading(2)[j].reading = 2
      BY <2>2 DEF Gives
    <3>2. IsSeq(a) /\ IsSeq(Reading(2))
      BY <2>2 DEF Well
    <3>. HIDE DEF a
    <3>3. j + Len(a) \in DOMAIN c /\ c[j + Len(a)] = Reading(2)[j]
      BY <3>1, <3>2, CatFacts
    <3>. QED
      BY <3>1, <3>3 DEF Gives
  <2>6. Well(c \o b, {})
    <3>. DEFINE more == {2}
    <3>1. {} \union more = {2} /\ \A r \in more : Gives(c, r)
      BY <2>5
    <3>. HIDE DEF more, c, b
    <3>2. Well(b, {} \union more)
      BY <2>3, <3>1 DEF b
    <3>. QED
      BY <2>4, <3>1, <3>2, WellCat
  <2>. QED
    BY <2>1, <2>6
<1>2. Well(ScanSSH, {1})
  <2>. DEFINE dirs == <<"/etc/ssh">>
              one == <<".ssh">>
  <2>1. ScanSSH = Trees(dirs, "ssh") \o PerUser("tree", one, "ssh", 1) /\ IsSeq(dirs) /\ IsSeq(one)
    BY Arities, Zenon DEF ScanSSH
  <2>. HIDE DEF dirs, one
  <2>2. Well(Trees(dirs, "ssh"), {1}) /\ Well(PerUser("tree", one, "ssh", 1), {1})
    BY <2>1, FilesWell, PerUserWell, WellMore DEF Parses
  <2>. QED
    BY <2>1, <2>2, WellCatPlain
<1>3. Well(ScanProfiles, {1})
  <2>. DEFINE files4 == <<"/etc/profile", "/etc/bash.bashrc", "/etc/zsh/zshenv", "/etc/zsh/zprofile">>
              dirs == <<"/etc/profile.d">>
              rels == <<".profile", ".bashrc", ".bash_profile", ".bash_login", ".zshrc", ".zprofile",
                        ".zshenv", ".config/fish/config.fish">>
  <2>1. /\ ScanProfiles = Files(files4, "profile") \o Trees(dirs, "profile") \o PerUser("file", rels, "profile", 1)
        /\ IsSeq(files4) /\ IsSeq(dirs) /\ IsSeq(rels)
    BY Arities, Zenon DEF ScanProfiles
  <2>. HIDE DEF files4, dirs, rels
  <2>2. /\ Well(Files(files4, "profile"), {1}) /\ Well(Trees(dirs, "profile"), {1})
        /\ Well(PerUser("file", rels, "profile", 1), {1})
    BY <2>1, FilesWell, PerUserWell, WellMore DEF Parses
  <2>3. Well(Files(files4, "profile") \o Trees(dirs, "profile"), {1})
    BY <2>2, WellCatPlain
  <2>. QED
    BY <2>1, <2>2, <2>3, WellCatPlain
<1>4. Well(ScanXDG, {1})
  <2>. DEFINE dirs == <<"/etc/xdg/autostart">>
              one == <<".config/autostart">>
  <2>1. ScanXDG = Trees(dirs, "desktop") \o PerUser("tree", one, "desktop", 1) /\ IsSeq(dirs) /\ IsSeq(one)
    BY Arities, Zenon DEF ScanXDG
  <2>. HIDE DEF dirs, one
  <2>2. Well(Trees(dirs, "desktop"), {1}) /\ Well(PerUser("tree", one, "desktop", 1), {1})
    BY <2>1, FilesWell, PerUserWell, WellMore DEF Parses
  <2>. QED
    BY <2>1, <2>2, WellCatPlain
<1>. QED
  BY <1>1, <1>2, <1>3, <1>4

\* A list that begins with the first reading, and what is added to it.
Started(s) == Well(s, {}) /\ Gives(s, 1)

LEMMA StartedCat ==
  ASSUME NEW a, NEW b, Started(a), Well(b, {1})
  PROVE  Started(a \o b)
<1>. DEFINE more == {1}
<1>1. {} \union more = {1} /\ \A r \in more : Gives(a, r)
  BY DEF Started
<1>. HIDE DEF more
<1>2. Well(a, {}) /\ Well(b, {} \union more) /\ IsSeq(a) /\ IsSeq(b)
  BY <1>1 DEF Started, Well
<1>3. Well(a \o b, {})
  BY <1>1, <1>2, WellCat
<1>4. Gives(a \o b, 1)
  BY <1>2, GivesCat DEF Started
<1>. QED
  BY <1>3, <1>4 DEF Started

LEMMA WholeWell == Well(Whole, {})
<1>1. Started(Check \o Reading(1))
  <2>1. Well(Check, {}) /\ Well(Reading(1), {}) /\ Gives(Reading(1), 1)
    BY PlainParts, ReadingWell
  <2>2. Well(Check \o Reading(1), {})
    BY <2>1, WellCatPlain
  <2>3. IsSeq(Check) /\ IsSeq(Reading(1))
    BY <2>1 DEF Well
  <2>4. Gives(Check \o Reading(1), 1)
    BY <2>1, <2>3, GivesAfter
  <2>. QED
    BY <2>2, <2>4 DEF Started
<1>2. /\ Well(Check, {1}) /\ Well(ScanCron, {1}) /\ Well(ScanAnacron, {1}) /\ Well(ScanRcInit, {1})
      /\ Well(ScanLoader, {1}) /\ Well(ScanSudoers, {1}) /\ Well(ScanPAM, {1}) /\ Well(ScanAt, {1})
      /\ Well(ScanCronLog, {1}) /\ Well(ScanSystemd, {1}) /\ Well(ScanSSH, {1}) /\ Well(ScanProfiles, {1})
      /\ Well(ScanXDG, {1})
  BY PlainParts, UserParts, WellMore
<1>. DEFINE w3 == Check \o Reading(1) \o ScanCron \o ScanAnacron \o Check
            w6 == w3 \o ScanRcInit \o ScanSystemd \o Check
            w10 == w6 \o ScanSSH \o ScanProfiles \o ScanLoader \o Check
            w12 == w10 \o ScanSudoers \o ScanPAM \o ScanAt
<1>3. Started(w3)
  BY <1>1, <1>2, StartedCat
<1>4. Started(w6)
  <2>. HIDE DEF w3
  <2>. QED
    BY <1>2, <1>3, StartedCat
<1>5. Started(w10)
  <2>. HIDE DEF w6
  <2>. QED
    BY <1>2, <1>4, StartedCat
<1>6. Started(w12)
  <2>. HIDE DEF w10
  <2>. QED
    BY <1>2, <1>5, StartedCat
<1>7. Started(w12 \o ScanCronLog \o ScanXDG)
  <2>. HIDE DEF w12
  <2>. QED
    BY <1>2, <1>6, StartedCat
<1>8. Whole = w12 \o ScanCronLog \o ScanXDG
  BY DEF Whole
<1>. QED
  BY <1>7, <1>8 DEF Started

\* Positions of the agenda, and the next of them.
LEMMA AgendaFacts ==
  /\ Len(Whole) \in Nat /\ DOMAIN Whole = 1 .. Len(Whole) /\ Positions \subseteq 1 .. Len(Whole)
  /\ \A k \in Positions :
       /\ EntryOK(Whole[k])
       /\ Whole[k].kind \in {"file", "tree", "pam"} => Whole[k].path \in Node
       /\ Whole[k].reading # 0 /\ Whole[k].kind # "users" =>
            \E j \in Positions : j < k /\ Whole[j].kind = "users" /\ Whole[j].reading = Whole[k].reading
<1>1. /\ Len(Whole) \in Nat /\ DOMAIN Whole = 1 .. Len(Whole)
  BY WholeWell, SeqFacts DEF Well
<1>2. Positions \subseteq 1 .. Len(Whole)
  BY <1>1 DEF Positions
<1>3. ASSUME NEW k \in Positions
      PROVE  /\ EntryOK(Whole[k])
             /\ Whole[k].kind \in {"file", "tree", "pam"} => Whole[k].path \in Node
             /\ Whole[k].reading # 0 /\ Whole[k].kind # "users" =>
                 \E j \in Positions : j < k /\ Whole[j].kind = "users" /\ Whole[j].reading = Whole[k].reading
  <2>1. k \in DOMAIN Whole /\ Relevant(Whole[k])
    BY DEF Positions
  <2>2. EntryOK(Whole[k])
    BY <2>1, WholeWell DEF Well
  <2>3. Whole[k].kind \in {"file", "tree", "pam"} => Whole[k].path \in Node
    BY <2>1 DEF Relevant
  <2>4. ASSUME Whole[k].reading # 0, Whole[k].kind # "users"
        PROVE  \E j \in Positions : j < k /\ Whole[j].kind = "users" /\ Whole[j].reading = Whole[k].reading
    <3>1. PICK j \in DOMAIN Whole : j < k /\ Whole[j].kind = "users" /\ Whole[j].reading = Whole[k].reading
      BY <2>1, <2>4, WholeWell DEF Well
    <3>2. j \in Positions
      BY <3>1 DEF Positions, Relevant
    <3>. QED
      BY <3>1, <3>2
  <2>. QED
    BY <2>2, <2>3, <2>4
<1>. QED
  BY <1>1, <1>2, <1>3

LEMMA FollowingFacts ==
  ASSUME NEW k \in 0 .. Len(Whole)
  PROVE  /\ Following[k] \in Positions \union {Len(Whole) + 1}
         /\ \A i \in Positions : i > k => Following[k] <= i
         /\ Following[k] > k
<1>. DEFINE n == Len(Whole)
            S == {j \in Positions : j > k}
<1>1. n \in Nat /\ Positions \subseteq 1 .. n
  BY AgendaFacts
<1>2. Following[k] = IF \E j \in Positions : j > k
                     THEN CHOOSE j \in Positions : j > k /\ \A i \in Positions : i > k => j <= i
                     ELSE n + 1
  BY DEF Following
<1>. HIDE DEF n
<1>3. CASE \E j \in Positions : j > k
  <2>0. Positions \subseteq Nat
    BY <1>1
  <2>1. S \subseteq Nat /\ S # {}
    BY <2>0, <1>3
  <2>2. PICK p \in S : \A q \in S : p <= q
    <3>. HIDE DEF S
    <3>. QED
      BY <2>1, LeastNatural
  <2>3. p \in Positions /\ p > k /\ \A i \in Positions : i > k => p <= i
    BY <2>2
  <2>. QED
    BY <1>2, <1>3, <2>3
<1>4. CASE ~\E j \in Positions : j > k
  <2>1. Following[k] = n + 1 /\ k \in 0 .. n
    BY <1>2, <1>4 DEF n
  <2>. QED
    BY <1>1, <1>4, <2>1 DEF n
<1>. QED
  BY <1>3, <1>4

----------------------------------------------------------------------------
(* Types.                                                                  *)

Version == 0 .. MaxChanges
Entity  == [kind : Kind, ver : Version, key : BOOLEAN]
Content1 == [ver : Version, key : BOOLEAN]
Listing == [node : Node, dir : BOOLEAN]
States  == {"agenda", "glob", "root", "begin", "absent", "walk", "list", "look", "readlink", "stat",
            "read", "save", "items", "score", "target", "readtarget", "fallback", "script",
            "readscript", "module", "write", "done"}
ItemKinds == {"cron_entry", "anacron_job", "rc_command", "profile_command", "sudoers_rule",
              "ld_so_path", "desktop_autostart", "pam_record", "ssh_config_directive",
              "authorized_key", "at_unread", "at_job", "unit_symlink", "unit", "private_key",
              "periodic_script", "init_script"}
Items == [kind : ItemKinds \union {"none"}, path : Node, src : Version, text : Version,
          target : Node \union {NoPath}, tver : Version, script : Node \union {NoPath}, sver : Version]
Got == [state : {"none", "there"}, kind : Kind, ver : Version, hash : Version, link : BOOLEAN,
        key : BOOLEAN, copied : BOOLEAN]
Filed == [state : {"there"}, kind : Kind, ver : Version, hash : Version, link : BOOLEAN,
          key : BOOLEAN, copied : BOOLEAN] \union {Absence}

InItem == {"score", "target", "readtarget", "fallback", "script", "readscript", "module", "write"}

HostTypes == tree \in [Node -> Entity] /\ listed \in [User -> Version] /\ changes \in 1 .. MaxChanges
RunTypes  == /\ pc \in States /\ ret \in {"none", "ok", "err"} /\ (pc = "done" <=> ret # "none")
             /\ faults \in 0 .. MaxFaults
PlaceTypes ==
  /\ at \in Positions \union {Len(Whole) + 1} /\ (pc \notin {"agenda", "done"} => at \in Positions)
  /\ known \in [{1, 2} -> SUBSET User] /\ queue \subseteq Node /\ base \in Node
  /\ pending \subseteq Listing
  /\ pc \in {"agenda", "glob", "root", "begin", "absent"} => pending = {}
  /\ pc = "list" => pending # {} /\ Met.dir
  /\ pc = "glob" => Asked.kind = "glob"
RecordTypes ==
  /\ cur \in Node /\ use \in {"dir", "text", "pam"} /\ got \in Got /\ data \in Content1
  /\ pc \in {"readlink", "stat", "read", "save"} => got.state = "there"
ParseTypes ==
  /\ todo \in Seq(ItemKinds) /\ item \in Items
  /\ pc = "score" => item.kind \in WithCommand /\ Names[cur] # <<>>
  /\ pc \in {"target", "readtarget", "fallback", "module"} => item.target \in Node
  /\ pc \in {"target", "readtarget"} /\ item.kind \in Scripts => item.script \in Node
  /\ pc \in {"script", "readscript"} => item.script \in Node
  /\ pc = "module" => item.kind = "pam_record" /\ \E k \in DOMAIN Candidates : item.target = Candidates[k]
OutputTypes ==
  /\ files \in [Node -> Seq(Filed)] /\ items \subseteq Items /\ absents \subseteq Node
  /\ copies \in [Node -> Content1]

Types == HostTypes /\ RunTypes /\ PlaceTypes /\ RecordTypes /\ ParseTypes /\ OutputTypes

LEMMA MetIn ==
  ASSUME pending \subseteq Listing, pending # {}
  PROVE  Met \in pending /\ Met.node \in Node /\ Met.dir \in BOOLEAN
<1>. DEFINE S == {x.node : x \in pending}
<1>1. S \subseteq Node /\ S # {}
  BY DEF Listing
<1>2. PICK n \in S : \A m \in S : Position[n] <= Position[m]
  <2>. HIDE DEF S
  <2>. QED
    BY <1>1, FirstPath
<1>3. \E x \in pending : \A y \in pending : Position[x.node] <= Position[y.node]
  BY <1>2
<1>4. Met \in pending
  BY <1>3, Zenon DEF Met
<1>. QED
  BY <1>4 DEF Listing

LEMMA Bounds == MaxChanges \in Nat /\ MaxChanges >= 1 /\ MaxFaults \in Nat
BY WalkBoundAssumption

LEMMA InitTypes == Init => Types
<1>. SUFFICES ASSUME Init PROVE Types
  OBVIOUS
<1>. USE Bounds
<1>1. HostTypes
  <2>1. tree \in [Node -> [kind : Kind, ver : {0, 1}, key : BOOLEAN]]
    BY HostAssumption DEF Init
  <2>2. tree \in [Node -> Entity]
    BY <2>1 DEF Entity, Version
  <2>3. listed \in [User -> Version] /\ changes \in 1 .. MaxChanges
    BY DEF Init, Version
  <2>. QED
    BY <2>2, <2>3 DEF HostTypes
<1>2. RunTypes
  BY DEF Init, RunTypes, States
<1>3. PlaceTypes
  <2>1. Following[0] \in Positions \union {Len(Whole) + 1}
    BY AgendaFacts, FollowingFacts
  <2>2. Sorted[1] \in Node
    BY SortedFacts
  <2>. QED
    BY <2>1, <2>2 DEF Init, PlaceTypes
<1>4. RecordTypes
  BY SortedFacts DEF Init, RecordTypes, NoFile, Blank, Got, Unread, Content1, Version, Kind
<1>5. ParseTypes
  <2>1. NoItem \in Items
    BY SortedFacts DEF NoItem, Items, Version
  <2>. QED
    BY <2>1 DEF Init, ParseTypes
<1>6. OutputTypes
  BY DEF Init, OutputTypes, Unread, Content1, Version
<1>. QED
  BY <1>1, <1>2, <1>3, <1>4, <1>5, <1>6 DEF Types

----------------------------------------------------------------------------
(* The host's steps.                                                       *)

\* What a step of the host does to the tree: one path changes, to what the last
\* change made or to nothing, and only where its directory is there and nothing
\* is in what goes away.
TreeStep(n) ==
  \E f \in [kind : Kind, ver : {0, changes'}, key : BOOLEAN] :
    /\ tree' = [tree EXCEPT ![n] = f]
    /\ f = Nothing \/ (f.kind # "none" /\ f.ver = changes')
    /\ \/ tree[n].kind = "none" /\ Parent(n) /\ f.kind \in May[n]
       \/ tree[n].kind = "file" /\ f.kind = "file" /\ "file" \in May[n]
       \/ f = Nothing /\ Empty(n)

LEMMA HostStepShape ==
  ASSUME HostTypes, HostStep
  PROVE  /\ changes' = changes + 1 /\ changes' \in 1 .. MaxChanges
         /\ \/ listed' = listed /\ \E n \in Node : TreeStep(n)
            \/ tree' = tree /\ \E u \in User : listed' = [listed EXCEPT ![u] = IF @ = 0 THEN changes' ELSE 0]
<1>. USE Bounds
<1>1. changes < MaxChanges /\ changes' = changes + 1 /\ changes' \in 1 .. MaxChanges
  BY DEF HostTypes, HostStep
<1>2. ASSUME NEW n \in Node, Create(n) PROVE TreeStep(n)
  <2>1. PICK k \in May[n] : \E b \in (IF k = "file" THEN MayBeKey(n) ELSE {FALSE}) :
          tree' = [tree EXCEPT ![n] = [kind |-> k, ver |-> changes', key |-> b]]
    BY <1>2 DEF Create
  <2>2. PICK b \in (IF k = "file" THEN MayBeKey(n) ELSE {FALSE}) :
          tree' = [tree EXCEPT ![n] = [kind |-> k, ver |-> changes', key |-> b]]
    BY <2>1
  <2>3. k \in Kind /\ k # "none" /\ b \in BOOLEAN
    BY HostAssumption DEF MayBeKey
  <2>. DEFINE f == [kind |-> k, ver |-> changes', key |-> b]
  <2>4. f \in [kind : Kind, ver : {0, changes'}, key : BOOLEAN] /\ f.kind = k /\ f.ver = changes'
    BY <2>3
  <2>5. tree' = [tree EXCEPT ![n] = f] /\ tree[n].kind = "none" /\ Parent(n)
    BY <1>2, <2>2 DEF Create
  <2>. HIDE DEF f
  <2>. QED
    BY <2>3, <2>4, <2>5 DEF TreeStep
<1>3. ASSUME NEW n \in Node, Modify(n) PROVE TreeStep(n)
  <2>1. PICK b \in MayBeKey(n) : tree' = [tree EXCEPT ![n] = [kind |-> "file", ver |-> changes', key |-> b]]
    BY <1>3 DEF Modify
  <2>. DEFINE f == [kind |-> "file", ver |-> changes', key |-> b]
  <2>2. b \in BOOLEAN
    BY DEF MayBeKey
  <2>3. f \in [kind : Kind, ver : {0, changes'}, key : BOOLEAN] /\ f.kind = "file" /\ f.ver = changes'
    BY <2>2 DEF Kind
  <2>4. tree' = [tree EXCEPT ![n] = f] /\ tree[n].kind = "file" /\ "file" \in May[n]
    BY <1>3, <2>1 DEF Modify
  <2>. HIDE DEF f
  <2>. QED
    BY <2>3, <2>4 DEF TreeStep
<1>4. ASSUME NEW n \in Node, Unlink(n) PROVE TreeStep(n)
  <2>1. Nothing \in [kind : Kind, ver : {0, changes'}, key : BOOLEAN]
    BY DEF Nothing, Kind
  <2>2. tree' = [tree EXCEPT ![n] = Nothing] /\ Empty(n)
    BY <1>4 DEF Unlink
  <2>. QED
    BY <2>1, <2>2 DEF TreeStep
<1>5. ASSUME NEW u \in User \ Always, EditUsers(u)
      PROVE  tree' = tree /\ listed' = [listed EXCEPT ![u] = IF @ = 0 THEN changes' ELSE 0]
  BY <1>5 DEF EditUsers
<1>6. ASSUME NEW n \in Node, Create(n) \/ Modify(n) \/ Unlink(n) PROVE listed' = listed
  BY <1>6 DEF Create, Modify, Unlink
<1>. QED
  BY <1>1, <1>2, <1>3, <1>4, <1>5, <1>6 DEF HostStep

LEMMA HostStepTypes ==
  ASSUME Types, HostStep
  PROVE  Types'
<1>. USE Bounds
<1>1. /\ changes' = changes + 1 /\ changes' \in 1 .. MaxChanges
      /\ \/ listed' = listed /\ \E n \in Node : TreeStep(n)
         \/ tree' = tree /\ \E u \in User : listed' = [listed EXCEPT ![u] = IF @ = 0 THEN changes' ELSE 0]
  BY HostStepShape DEF Types
<1>2. HostTypes'
  <2>1. CASE listed' = listed /\ \E n \in Node : TreeStep(n)
    <3>1. PICK n \in Node : TreeStep(n)
      BY <2>1
    <3>2. PICK f \in [kind : Kind, ver : {0, changes'}, key : BOOLEAN] : tree' = [tree EXCEPT ![n] = f]
      BY <3>1 DEF TreeStep
    <3>3. f \in Entity
      BY <1>1, <3>2 DEF Entity, Version
    <3>. QED
      BY <1>1, <2>1, <3>2, <3>3 DEF HostTypes, Types
  <2>2. CASE tree' = tree /\ \E u \in User : listed' = [listed EXCEPT ![u] = IF @ = 0 THEN changes' ELSE 0]
    BY <1>1, <2>2 DEF HostTypes, Types, Version
  <2>. QED
    BY <1>1, <2>1, <2>2
<1>3. UNCHANGED <<pc, at, known, queue, base, pending, cur, use, got, data, todo, item, files, items,
                  absents, copies, faults, ret>>
  BY DEF HostStep, place, record, parsing, output, noted
<1>4. Met' = Met /\ Asked' = Asked
  BY <1>3 DEF Met, Asked
<1>. QED
  BY <1>2, <1>3, <1>4 DEF Types, RunTypes, PlaceTypes, RecordTypes, ParseTypes, OutputTypes

----------------------------------------------------------------------------
(* What the collector's steps do to the errors.                            *)

LEMMA ReportFacts ==
  ASSUME NEW e, Report(e), faults \in 0 .. MaxFaults
  PROVE  /\ faults' \in 0 .. MaxFaults /\ errors \subseteq errors' /\ silent \subseteq silent'
         /\ e \in errors' \union silent'
BY Bounds DEF Report, Fault, Hush

LEMMA FailFacts ==
  ASSUME NEW e, FailAndReport(e), faults \in 0 .. MaxFaults
  PROVE  /\ faults' \in 0 .. MaxFaults /\ errors \subseteq errors' /\ silent \subseteq silent'
         /\ e \in errors' \union silent'
BY Bounds DEF FailAndReport, Hush

LEMMA HushFacts ==
  ASSUME NEW e, Fault, Hush(e), faults \in 0 .. MaxFaults
  PROVE  /\ faults' \in 0 .. MaxFaults /\ errors \subseteq errors' /\ silent \subseteq silent'
         /\ e \in errors' \union silent'
BY Bounds DEF Fault, Hush

\* No step of the collector touches the host.
LEMMA CollectHost ==
  ASSUME Collect
  PROVE  tree' = tree /\ listed' = listed /\ changes' = changes
BY DEF Collect, host, PassCheck, Interrupt, ReadUsers, NotForUs, BeginEntry, Match, MatchFails, MatchesDone,
   End, LookAtRoot, RootFails, WriteAbsent, BeginWalk, BeginFails, Meet, ListDir, ListFails, EndWalk,
   Look, LookFails, ReadLink, StatTarget, ReadFile, ReadFails, Save, SaveFails, NextItem, ItemsDone,
   ChooseTarget, LookAtTarget, ReadTarget, Fallback, LookAtScript, ReadScript, ResolveModule,
   WriteItem, WriteFails

\* Where the collector goes from a path: on with the walk, on with the glob, or to
\* the next entry.
LEMMA LeaveTypes ==
  ASSUME PlaceTypes, Leave, pc \notin {"agenda", "done"}, pending' = {}, UNCHANGED <<known, queue, base>>
  PROVE  PlaceTypes' /\ pc' \in {"agenda", "glob"}
<1>1. CASE Asked.kind = "glob"
  <2>1. pc' = "glob" /\ at' = at
    BY <1>1 DEF Leave
  <2>2. Asked' = Asked
    BY <2>1 DEF Asked
  <2>. QED
    BY <1>1, <2>1, <2>2 DEF PlaceTypes
<1>2. CASE Asked.kind # "glob"
  <2>1. pc' = "agenda" /\ at' = Following[at]
    BY <1>2 DEF Leave, NextEntry
  <2>2. at \in 0 .. Len(Whole)
    BY AgendaFacts DEF PlaceTypes
  <2>3. at' \in Positions \union {Len(Whole) + 1}
    BY <2>1, <2>2, FollowingFacts
  <2>. QED
    BY <2>1, <2>3 DEF PlaceTypes
<1>. QED
  BY <1>1, <1>2

LEMMA BackTypes ==
  ASSUME PlaceTypes, Back, pc \notin {"agenda", "done"}, UNCHANGED <<known, queue, base>>
  PROVE  PlaceTypes' /\ pc' \in {"agenda", "glob", "list", "walk"}
<1>1. CASE pending = {}
  <2>1. Leave /\ pending' = {}
    BY <1>1 DEF Back
  <2>. QED
    BY <2>1, LeaveTypes
<1>2. CASE pending # {}
  <2>1. at' = at
    BY <1>2 DEF Back
  <2>2. CASE Met.dir
    <3>1. pc' = "list" /\ pending' = pending
      BY <1>2, <2>2 DEF Back
    <3>2. Met' = Met
      BY <3>1 DEF Met
    <3>. QED
      BY <1>2, <2>1, <2>2, <3>1, <3>2 DEF PlaceTypes
  <2>3. CASE ~Met.dir
    <3>1. pc' = "walk" /\ pending' = Rest
      BY <1>2, <2>3 DEF Back
    <3>2. pending' \subseteq Listing
      BY <3>1 DEF Rest, PlaceTypes
    <3>. QED
      BY <2>1, <3>1, <3>2 DEF PlaceTypes
  <2>. QED
    BY <2>2, <2>3
<1>. QED
  BY <1>1, <1>2

LEMMA NextEntryAt ==
  ASSUME PlaceTypes, NextEntry, ~Finished
  PROVE  at \in Positions /\ at' \in Positions \union {Len(Whole) + 1} /\ pc' = "agenda"
<1>1. at \in Positions
  BY AgendaFacts DEF PlaceTypes, Finished
<1>2. at \in 0 .. Len(Whole)
  BY <1>1, AgendaFacts
<1>. QED
  BY <1>1, <1>2, FollowingFacts DEF NextEntry

LEMMA FilesAppend ==
  ASSUME NEW f, f \in [Node -> Seq(Filed)], NEW n \in Node, NEW r \in Filed
  PROVE  [f EXCEPT ![n] = Append(@, r)] \in [Node -> Seq(Filed)]
<1>1. f[n] \in Seq(Filed)
  OBVIOUS
<1>2. Append(f[n], r) \in Seq(Filed)
  BY <1>1, AppendProperties
<1>. QED
  BY <1>2

LEMMA FollowTypes ==
  ASSUME HostTypes, NEW n \in Node
  PROVE  Follow(n) \in Entity
<1>1. Nothing \in Entity
  BY Bounds DEF Nothing, Entity, Version, Kind
<1>2. tree[n] \in Entity
  BY DEF HostTypes
<1>3. n \in DOMAIN LinkTo => tree[LinkTo[n]] \in Entity
  BY HostAssumption DEF HostTypes
<1>. QED
  BY <1>1, <1>2, <1>3 DEF Follow

----------------------------------------------------------------------------
(* The agenda, globs and walks keep the types.                             *)

LEMMA AgendaTypes ==
  ASSUME Types, PassCheck \/ Interrupt \/ ReadUsers \/ NotForUs \/ End
  PROVE  Types'
<1>. USE Bounds
<1>1. CASE PassCheck
  <2>1. /\ pc = "agenda" /\ NextEntry /\ ~Finished
        /\ UNCHANGED <<tree, listed, changes, known, queue, base, pending, cur, use, got, data, todo,
                       item, files, items, absents, copies, faults, ret>>
    BY <1>1 DEF PassCheck, host, record, parsing, output, noted
  <2>2. at' \in Positions \union {Len(Whole) + 1} /\ pc' = "agenda"
    BY <2>1, NextEntryAt DEF Types
  <2>. QED
    BY <2>1, <2>2 DEF Types, HostTypes, RunTypes, PlaceTypes, RecordTypes, ParseTypes, OutputTypes, States
<1>2. CASE NotForUs
  <2>1. /\ pc = "agenda" /\ NextEntry /\ ~Finished
        /\ UNCHANGED <<tree, listed, changes, known, queue, base, pending, cur, use, got, data, todo,
                       item, files, items, absents, copies, faults, ret>>
    BY <1>2 DEF NotForUs, Reads, host, record, parsing, output, noted
  <2>2. at' \in Positions \union {Len(Whole) + 1} /\ pc' = "agenda"
    BY <2>1, NextEntryAt DEF Types
  <2>. QED
    BY <2>1, <2>2 DEF Types, HostTypes, RunTypes, PlaceTypes, RecordTypes, ParseTypes, OutputTypes, States
<1>3. CASE Interrupt \/ End
  <2>1. /\ pc = "agenda" /\ pc' = "done" /\ ret' \in {"ok", "err"}
        /\ UNCHANGED <<tree, listed, changes, at, known, queue, base, pending, cur, use, got, data, todo,
                       item, files, items, absents, copies, faults>>
    BY <1>3 DEF Interrupt, End, Return, host, place, record, parsing, output, noted
  <2>. QED
    BY <2>1 DEF Types, HostTypes, RunTypes, PlaceTypes, RecordTypes, ParseTypes, OutputTypes, States
<1>4. CASE ReadUsers
  <2>1. /\ pc = "agenda" /\ NextEntry /\ ~Finished /\ Asked.kind = "users"
        /\ UNCHANGED <<tree, listed, changes, queue, base, pending, cur, use, got, data, todo,
                       item, files, items, absents, copies, ret>>
    BY <1>4 DEF ReadUsers, host, record, parsing, output
  <2>2. at \in Positions /\ at' \in Positions \union {Len(Whole) + 1} /\ pc' = "agenda"
    BY <2>1, NextEntryAt DEF Types
  <2>3. Asked.reading \in {1, 2}
    BY <2>1, <2>2, AgendaFacts DEF Asked, EntryOK
  <2>4. known' \in [{1, 2} -> SUBSET User] /\ faults' \in 0 .. MaxFaults
    <3>1. CASE known' = [known EXCEPT ![Asked.reading] = {u \in User : listed[u] # 0}] /\ UNCHANGED noted
      BY <2>3, <3>1 DEF Types, PlaceTypes, RunTypes, noted
    <3>2. CASE Fault /\ Hush(<<"passwd", Asked.path>>) /\ UNCHANGED known
      BY <3>2 DEF Types, PlaceTypes, RunTypes, Fault
    <3>. QED
      BY <1>4, <3>1, <3>2 DEF ReadUsers
  <2>. QED
    BY <2>1, <2>2, <2>4
    DEF Types, HostTypes, RunTypes, PlaceTypes, RecordTypes, ParseTypes, OutputTypes, States
<1>. QED
  BY <1>1, <1>2, <1>3, <1>4

LEMMA EntryTypes ==
  ASSUME Types, BeginEntry
  PROVE  Types'
<1>. USE Bounds
<1>1. /\ pc = "agenda" /\ Reads
      /\ UNCHANGED <<tree, listed, changes, at, known, pending, got, data, todo,
                     item, files, items, absents, copies, faults, ret>>
  BY DEF BeginEntry, host, parsing, output, noted
<1>2. at \in Positions
  BY <1>1, AgendaFacts DEF Types, PlaceTypes, Reads, Finished
<1>3. Asked.kind \in {"file", "tree", "glob", "pam"} /\ Asked' = Asked
      /\ (Asked.kind # "glob" => Asked.path \in Node)
  BY <1>1, <1>2, AgendaFacts DEF Asked, Reads, EntryOK, EntryKinds
<1>4. CASE Asked.kind = "file"
  <2>1. cur' = Asked.path /\ use' = "text" /\ pc' = "look" /\ UNCHANGED <<base, queue>>
    BY <1>4 DEF BeginEntry
  <2>. QED
    BY <1>1, <1>2, <1>3, <1>4, <2>1
    DEF Types, HostTypes, RunTypes, PlaceTypes, RecordTypes, ParseTypes, OutputTypes, States
<1>5. CASE Asked.kind = "glob"
  <2>1. queue' \subseteq Node /\ pc' = "glob" /\ UNCHANGED <<base, cur, use>>
    BY <1>5 DEF BeginEntry
  <2>. QED
    BY <1>1, <1>2, <1>3, <1>5, <2>1
    DEF Types, HostTypes, RunTypes, PlaceTypes, RecordTypes, ParseTypes, OutputTypes, States
<1>6. CASE Asked.kind \notin {"file", "glob"}
  <2>1. base' = Asked.path /\ pc' = "root" /\ UNCHANGED <<queue, cur, use>>
    BY <1>6 DEF BeginEntry
  <2>. QED
    BY <1>1, <1>2, <1>3, <1>6, <2>1
    DEF Types, HostTypes, RunTypes, PlaceTypes, RecordTypes, ParseTypes, OutputTypes, States
<1>. QED
  BY <1>4, <1>5, <1>6

LEMMA GlobTypes ==
  ASSUME Types, Match \/ MatchFails \/ MatchesDone
  PROVE  Types'
<1>. USE Bounds
<1>1. CASE Match
  <2>1. /\ pc = "glob" /\ queue # {} /\ queue' = queue \ {Foremost(queue)}
        /\ UNCHANGED <<tree, listed, changes, at, known, pending, got, data, todo,
                       item, files, items, absents, copies, ret>>
    BY <1>1 DEF Match, host, parsing, output
  <2>. DEFINE n == Foremost(queue)
  <2>2. n \in Node
    BY <2>1, ForemostIn DEF Types, PlaceTypes
  <2>3. Asked' = Asked
    BY <2>1 DEF Asked
  <2>4. \/ base' = n /\ pc' = "root" /\ UNCHANGED <<cur, use, noted>>
        \/ Report(<<"match", n>>) /\ UNCHANGED <<pc, base, cur, use>>
        \/ cur' = n /\ use' = "text" /\ pc' = "look" /\ UNCHANGED <<base, noted>>
    BY <1>1 DEF Match
  <2>5. faults' \in 0 .. MaxFaults
    BY <2>4, ReportFacts DEF Types, RunTypes, noted
  <2>. HIDE DEF n
  <2>6. /\ cur' \in Node /\ base' \in Node /\ use' \in {"dir", "text", "pam"} /\ pc' \in {"root", "glob", "look"}
        /\ queue' \subseteq Node
    BY <2>1, <2>2, <2>4 DEF Types, PlaceTypes, RecordTypes
  <2>. QED
    BY <2>1, <2>3, <2>5, <2>6
    DEF Types, HostTypes, RunTypes, PlaceTypes, RecordTypes, ParseTypes, OutputTypes, States
<1>2. CASE MatchFails
  <2>1. /\ pc = "glob" /\ queue' = queue \ {Foremost(queue)} /\ FailAndReport(<<"match", Foremost(queue)>>)
        /\ UNCHANGED <<tree, listed, changes, pc, at, known, base, pending, cur, use, got, data, todo,
                       item, files, items, absents, copies, ret>>
    BY <1>2 DEF MatchFails, host, record, parsing, output
  <2>2. faults' \in 0 .. MaxFaults /\ Asked' = Asked
    BY <2>1, FailFacts DEF Types, RunTypes, Asked
  <2>. QED
    BY <2>1, <2>2 DEF Types, HostTypes, RunTypes, PlaceTypes, RecordTypes, ParseTypes, OutputTypes, States
<1>3. CASE MatchesDone
  <2>1. /\ pc = "glob" /\ NextEntry
        /\ UNCHANGED <<tree, listed, changes, known, queue, base, pending, cur, use, got, data, todo,
                       item, files, items, absents, copies, faults, ret>>
    BY <1>3 DEF MatchesDone, host, record, parsing, output, noted
  <2>2. ~Finished
    BY <2>1, AgendaFacts DEF Finished, Types, PlaceTypes
  <2>3. at' \in Positions \union {Len(Whole) + 1} /\ pc' = "agenda"
    BY <2>1, <2>2, NextEntryAt DEF Types
  <2>. QED
    BY <2>1, <2>3 DEF Types, HostTypes, RunTypes, PlaceTypes, RecordTypes, ParseTypes, OutputTypes, States
<1>. QED
  BY <1>1, <1>2, <1>3

LEMMA RootTypes ==
  ASSUME Types, LookAtRoot \/ RootFails \/ WriteAbsent \/ BeginWalk \/ BeginFails
  PROVE  Types'
<1>. USE Bounds
<1>1. CASE LookAtRoot
  <2>1. /\ pc = "root" /\ pc' \in {"absent", "begin", "look"} /\ cur' \in {cur, base}
        /\ use' \in {"dir", "text", "pam"}
        /\ UNCHANGED <<tree, listed, changes, at, known, queue, base, pending, got, data, todo,
                       item, files, items, absents, copies, faults, ret>>
    BY <1>1 DEF LookAtRoot, host, place, parsing, output, noted, Types, RecordTypes
  <2>2. Asked' = Asked
    BY <2>1 DEF Asked
  <2>. QED
    BY <2>1, <2>2 DEF Types, HostTypes, RunTypes, PlaceTypes, RecordTypes, ParseTypes, OutputTypes, States
<1>2. CASE RootFails
  <2>1. /\ pc = "root" /\ pc' = "absent" /\ faults' \in 0 .. MaxFaults
        /\ UNCHANGED <<tree, listed, changes, at, known, queue, base, pending, cur, use, got, data, todo,
                       item, files, items, absents, copies, ret>>
    BY <1>2 DEF RootFails, Fault, host, place, record, parsing, output, Types, RunTypes
  <2>. QED
    BY <2>1 DEF Types, HostTypes, RunTypes, PlaceTypes, RecordTypes, ParseTypes, OutputTypes, States
<1>3. CASE WriteAbsent
  <2>1. /\ pc = "absent" /\ files' = [files EXCEPT ![base] = Append(@, Absence)]
        /\ absents' = absents \union {base} /\ Leave
        /\ UNCHANGED <<tree, listed, changes, known, queue, base, pending, cur, use, got, data, todo,
                       item, items, copies, faults, ret>>
    BY <1>3 DEF WriteAbsent, host, record, parsing, noted
  <2>2. PlaceTypes' /\ pc' \in {"agenda", "glob"}
    BY <2>1, LeaveTypes DEF Types, PlaceTypes
  <2>3. files' \in [Node -> Seq(Filed)]
    BY <2>1, FilesAppend DEF Types, OutputTypes, PlaceTypes, Filed
  <2>. QED
    BY <2>1, <2>2, <2>3 DEF Types, HostTypes, RunTypes, RecordTypes, ParseTypes, OutputTypes, PlaceTypes, States
<1>4. CASE BeginWalk
  <2>1. /\ pc = "begin"
        /\ UNCHANGED <<tree, listed, changes, known, queue, base, cur, use, got, data, todo,
                       item, files, items, absents, copies, ret>>
    BY <1>4 DEF BeginWalk, host, record, parsing, output
  <2>2. CASE tree[base].kind = "none"
    <3>1. Report(<<"walk", base>>) /\ Leave /\ UNCHANGED pending
      BY <1>4, <2>2 DEF BeginWalk
    <3>2. faults' \in 0 .. MaxFaults
      BY <3>1, ReportFacts DEF Types, RunTypes
    <3>3. PlaceTypes' /\ pc' \in {"agenda", "glob"}
      BY <2>1, <3>1, LeaveTypes DEF Types, PlaceTypes
    <3>. QED
      BY <2>1, <3>2, <3>3 DEF Types, HostTypes, RunTypes, RecordTypes, ParseTypes, OutputTypes, States
  <2>3. CASE tree[base].kind # "none"
    <3>1. /\ pending' = {[node |-> base, dir |-> tree[base].kind = "dir"]} /\ pc' = "walk"
          /\ UNCHANGED <<at, noted>>
      BY <1>4, <2>3 DEF BeginWalk
    <3>2. pending' \subseteq Listing
      BY <3>1 DEF Listing, Types, PlaceTypes
    <3>. QED
      BY <2>1, <3>1, <3>2
      DEF Types, HostTypes, RunTypes, PlaceTypes, RecordTypes, ParseTypes, OutputTypes, States, noted
  <2>. QED
    BY <2>2, <2>3
<1>5. CASE BeginFails
  <2>1. /\ pc = "begin" /\ Leave /\ FailAndReport(<<"walk", base>>)
        /\ UNCHANGED <<tree, listed, changes, known, queue, base, pending, cur, use, got, data, todo,
                       item, files, items, absents, copies, ret>>
    BY <1>5 DEF BeginFails, host, record, parsing, output
  <2>2. faults' \in 0 .. MaxFaults
    BY <2>1, FailFacts DEF Types, RunTypes
  <2>3. PlaceTypes' /\ pc' \in {"agenda", "glob"}
    BY <2>1, LeaveTypes DEF Types, PlaceTypes
  <2>. QED
    BY <2>1, <2>2, <2>3 DEF Types, HostTypes, RunTypes, RecordTypes, ParseTypes, OutputTypes, States
<1>. QED
  BY <1>1, <1>2, <1>3, <1>4, <1>5

LEMMA WalkTypes ==
  ASSUME Types, Meet \/ ListDir \/ ListFails \/ EndWalk
  PROVE  Types'
<1>. USE Bounds
<1>1. CASE Meet
  <2>1. /\ pc = "walk" /\ pending # {} /\ pc' \in {"walk", "look"}
        /\ pending' \in {pending, Rest} /\ cur' \in {cur, Met.node} /\ use' \in {"dir", "text", "pam"}
        /\ UNCHANGED <<tree, listed, changes, at, known, queue, base, got, data, todo,
                       item, files, items, absents, copies, faults, ret>>
    BY <1>1 DEF Meet, host, parsing, output, noted, Types, RecordTypes
  <2>2. cur' \in Node /\ pending' \subseteq Listing
    BY <2>1, MetIn DEF Types, PlaceTypes, RecordTypes, Rest
  <2>. QED
    BY <2>1, <2>2 DEF Types, HostTypes, RunTypes, PlaceTypes, RecordTypes, ParseTypes, OutputTypes, States
<1>2. CASE ListDir
  <2>1. /\ pc = "list" /\ pc' = "walk"
        /\ UNCHANGED <<tree, listed, changes, at, known, queue, base, cur, use, got, data, todo,
                       item, files, items, absents, copies, ret>>
    BY <1>2 DEF ListDir, host, record, parsing, output
  <2>2. pending' \subseteq Listing /\ faults' \in 0 .. MaxFaults
    <3>1. CASE tree[Met.node].kind = "dir"
      <4>1. /\ pending' = Rest \union {[node |-> m, dir |-> tree[m].kind = "dir"] :
                                       m \in {x \in Node : Up[x] = Met.node /\ tree[x].kind # "none"}}
            /\ UNCHANGED noted
        BY <1>2, <3>1 DEF ListDir
      <4>2. Rest \subseteq Listing
        BY DEF Rest, Types, PlaceTypes
      <4>3. \A m \in Node : [node |-> m, dir |-> tree[m].kind = "dir"] \in Listing
        BY DEF Listing
      <4>. QED
        BY <4>1, <4>2, <4>3 DEF noted, Types, RunTypes
    <3>2. CASE tree[Met.node].kind # "dir"
      <4>1. pending' = Rest /\ Report(<<"walk", Met.node>>)
        BY <1>2, <3>2 DEF ListDir
      <4>. QED
        BY <4>1, ReportFacts DEF Rest, Types, PlaceTypes, RunTypes
    <3>. QED
      BY <3>1, <3>2
  <2>. QED
    BY <2>1, <2>2 DEF Types, HostTypes, RunTypes, PlaceTypes, RecordTypes, ParseTypes, OutputTypes, States
<1>3. CASE ListFails
  <2>1. /\ pc = "list" /\ pc' = "walk" /\ pending' = Rest /\ FailAndReport(<<"walk", Met.node>>)
        /\ UNCHANGED <<tree, listed, changes, at, known, queue, base, cur, use, got, data, todo,
                       item, files, items, absents, copies, ret>>
    BY <1>3 DEF ListFails, host, record, parsing, output
  <2>2. faults' \in 0 .. MaxFaults
    BY <2>1, FailFacts DEF Types, RunTypes
  <2>3. pending' \subseteq Listing
    BY <2>1 DEF Rest, Types, PlaceTypes
  <2>. QED
    BY <2>1, <2>2, <2>3
    DEF Types, HostTypes, RunTypes, PlaceTypes, RecordTypes, ParseTypes, OutputTypes, States
<1>4. CASE EndWalk
  <2>1. /\ pc = "walk" /\ pending = {} /\ Leave
        /\ UNCHANGED <<tree, listed, changes, known, queue, base, pending, cur, use, got, data, todo,
                       item, files, items, absents, copies, faults, ret>>
    BY <1>4 DEF EndWalk, host, record, parsing, output, noted
  <2>2. PlaceTypes' /\ pc' \in {"agenda", "glob"}
    BY <2>1, LeaveTypes DEF Types
  <2>. QED
    BY <2>1, <2>2 DEF Types, HostTypes, RunTypes, RecordTypes, ParseTypes, OutputTypes, States
<1>. QED
  BY <1>1, <1>2, <1>3, <1>4

----------------------------------------------------------------------------
(* The record of a path, and the items of a text, keep the types.          *)

\* What the parsers give is a list of items.
LEMMA ItemsOfSeq ==
  ASSUME NEW parse
  PROVE  ItemsOf(parse) \in Seq(ItemKinds)
<1>1. \A kind \in ItemKinds : <<kind>> \in Seq(ItemKinds) /\ Scanned(kind) \in Seq(ItemKinds)
  <2>. SUFFICES ASSUME NEW kind \in ItemKinds
                PROVE  <<kind>> \in Seq(ItemKinds) /\ Scanned(kind) \in Seq(ItemKinds)
    OBVIOUS
  <2>. HIDE DEF ItemKinds
  <2>1. <<kind>> \in Seq(ItemKinds) /\ <<>> \in Seq(ItemKinds)
    OBVIOUS
  <2>. QED
    BY <2>1 DEF Scanned
<1>2. /\ {"cron_entry", "anacron_job", "rc_command", "profile_command", "sudoers_rule"} \subseteq ItemKinds
      /\ {"ld_so_path", "desktop_autostart", "pam_record", "ssh_config_directive"} \subseteq ItemKinds
      /\ {"authorized_key", "at_unread", "at_job", "unit_symlink", "unit", "private_key"} \subseteq ItemKinds
      /\ {"periodic_script", "init_script"} \subseteq ItemKinds
  BY DEF ItemKinds
<1>3. <<"init_script">> \o RcItems \in Seq(ItemKinds)
  <2>1. <<"init_script">> \in Seq(ItemKinds) /\ RcItems \in Seq(ItemKinds)
    BY <1>1, <1>2 DEF RcItems
  <2>. DEFINE a == <<"init_script">>
  <2>2. a \in Seq(ItemKinds)
    BY <2>1
  <2>. HIDE DEF a
  <2>3. a \o RcItems \in Seq(ItemKinds)
    BY <2>1, <2>2, ConcatProperties
  <2>. QED
    BY <2>3 DEF a
<1>4. <<"unit_symlink", "unit">> \in Seq(ItemKinds)
  <2>. DEFINE a == "unit_symlink"
              b == "unit"
  <2>1. a \in ItemKinds /\ b \in ItemKinds
    BY <1>2
  <2>. HIDE DEF a, b, ItemKinds
  <2>2. <<a, b>> \in Seq(ItemKinds)
    BY <2>1
  <2>. QED
    BY <2>2 DEF a, b
<1>5. <<>> \in Seq(ItemKinds)
  OBVIOUS
<1>6. UnitItems \in Seq(ItemKinds) /\ SSHItems \in Seq(ItemKinds) /\ AtItems \in Seq(ItemKinds)
  BY <1>1, <1>2, <1>4 DEF UnitItems, SSHItems, AtItems, SSHConfigItems, AuthorizedKeys
<1>7. /\ CronItems \in Seq(ItemKinds) /\ AnacronItems \in Seq(ItemKinds) /\ RcItems \in Seq(ItemKinds)
      /\ DesktopItems \in Seq(ItemKinds) /\ LoaderItems \in Seq(ItemKinds) /\ PAMItems \in Seq(ItemKinds)
      /\ ProfileItems \in Seq(ItemKinds) /\ SudoersItems \in Seq(ItemKinds)
      /\ <<"periodic_script">> \in Seq(ItemKinds)
  BY <1>1, <1>2 DEF CronItems, AnacronItems, RcItems, DesktopItems, LoaderItems, PAMItems, ProfileItems, SudoersItems
<1>. QED
  BY <1>3, <1>5, <1>6, <1>7, Zenon DEF ItemsOf

\* The record that is written, with what is said of its copy.
Claim(c) == [got EXCEPT !.copied = c]

LEMMA ClaimFiled ==
  ASSUME got \in Got, got.state = "there", NEW c \in BOOLEAN
  PROVE  /\ Claim(c) \in Filed /\ Claim(c).copied = c /\ Claim(c).hash = got.hash
         /\ Claim(c).key = got.key /\ Claim(c).state = "there"
<1>. PICK g : g = got
  OBVIOUS
<1>1. g \in Got /\ g.state = "there"
  OBVIOUS
<1>2. [g EXCEPT !.copied = c] \in Got /\ [g EXCEPT !.copied = c].state = "there"
      /\ [g EXCEPT !.copied = c].copied = c /\ [g EXCEPT !.copied = c].hash = g.hash
      /\ [g EXCEPT !.copied = c].key = g.key
  BY <1>1 DEF Got
<1>3. \A x \in Got : x.state = "there" => x \in Filed
  BY DEF Got, Filed
<1>. QED
  BY <1>2, <1>3 DEF Claim

\* What a read makes of the record.
LEMMA ReadGot ==
  ASSUME NEW g \in Got, NEW v \in Version, NEW b \in BOOLEAN
  PROVE  /\ [g EXCEPT !.hash = v, !.key = b] \in Got
         /\ [g EXCEPT !.hash = v, !.key = b].hash = v /\ [g EXCEPT !.hash = v, !.key = b].key = b
         /\ [g EXCEPT !.hash = v, !.key = b].state = g.state
BY DEF Got

LEMMA CopiedFact ==
  ASSUME got \in Got
  PROVE  Copied \in BOOLEAN
BY DEF Copied, Got

LEMMA LookTypes ==
  ASSUME Types, Look \/ LookFails
  PROVE  Types'
<1>. USE Bounds
<1>1. ASSUME RecordAbsent, pc = "look", UNCHANGED <<known, queue, base>>
      PROVE  /\ PlaceTypes' /\ pc' \in {"agenda", "glob", "list", "walk"}
             /\ files' \in [Node -> Seq(Filed)] /\ absents' \subseteq Node
  <2>1. /\ files' = [files EXCEPT ![cur] = Append(@, Absence)] /\ Back
        /\ absents' \in {absents, absents \union {cur}}
    BY <1>1 DEF RecordAbsent, Append1
  <2>2. PlaceTypes' /\ pc' \in {"agenda", "glob", "list", "walk"}
    BY <1>1, <2>1, BackTypes DEF Types
  <2>3. files' \in [Node -> Seq(Filed)]
    BY <2>1, FilesAppend DEF Types, OutputTypes, RecordTypes, Filed
  <2>. QED
    BY <2>1, <2>2, <2>3 DEF Types, OutputTypes, RecordTypes
<1>2. CASE Look
  <2>1. /\ pc = "look"
        /\ UNCHANGED <<tree, listed, changes, known, queue, base, cur, use, todo, item, items, copies, ret>>
    BY <1>2 DEF Look, host, parsing
  <2>2. CASE tree[cur].kind = "none"
    <3>1. /\ RecordAbsent /\ (Report(<<"look", cur>>) \/ UNCHANGED noted)
          /\ UNCHANGED <<got, data>>
      BY <1>2, <2>2 DEF Look
    <3>2. faults' \in 0 .. MaxFaults
      BY <3>1, ReportFacts DEF Types, RunTypes, noted
    <3>3. /\ PlaceTypes' /\ pc' \in {"agenda", "glob", "list", "walk"}
          /\ files' \in [Node -> Seq(Filed)] /\ absents' \subseteq Node
      BY <2>1, <3>1, <1>1
    <3>. QED
      BY <2>1, <3>1, <3>2, <3>3 DEF Types, HostTypes, RunTypes, RecordTypes, ParseTypes, OutputTypes, States
  <2>3. CASE tree[cur].kind # "none"
    <3>1. /\ got' = There(tree[cur]) /\ data' = Unread
          /\ pc' = (CASE tree[cur].kind = "link" -> "readlink" [] tree[cur].kind = "file" -> "read"
                     [] OTHER -> "save")
          /\ UNCHANGED <<at, pending, files, absents, noted>>
      BY <1>2, <2>3 DEF Look
    <3>2. pc' \in {"readlink", "read", "save"}
      BY <3>1
    <3>3. got' \in Got /\ got'.state = "there" /\ data' \in Content1
      BY <3>1 DEF There, Got, Unread, Content1, Version, Types, HostTypes, RecordTypes, Entity
    <3>. HIDE <3>1
    <3>4. UNCHANGED <<at, pending, files, absents, faults>>
      BY <3>1 DEF noted
    <3>. QED
      BY <2>1, <3>2, <3>3, <3>4
      DEF Types, HostTypes, RunTypes, PlaceTypes, RecordTypes, ParseTypes, OutputTypes, States
  <2>. QED
    BY <2>2, <2>3
<1>3. CASE LookFails
  <2>1. /\ pc = "look" /\ RecordAbsent
        /\ UNCHANGED <<tree, listed, changes, known, queue, base, cur, use, got, data, todo, item, items, copies, ret>>
    BY <1>3 DEF LookFails, host, parsing, record
  <2>2. FailAndReport(<<"look", cur>>) \/ (Fault /\ Hush(<<"look", cur>>))
    BY <1>3 DEF LookFails
  <2>3. faults' \in 0 .. MaxFaults
    BY <2>2, FailFacts, HushFacts DEF Types, RunTypes
  <2>4. /\ PlaceTypes' /\ pc' \in {"agenda", "glob", "list", "walk"}
        /\ files' \in [Node -> Seq(Filed)] /\ absents' \subseteq Node
    BY <2>1, <1>1
  <2>. QED
    BY <2>1, <2>3, <2>4 DEF Types, HostTypes, RunTypes, RecordTypes, ParseTypes, OutputTypes, States
<1>. QED
  BY <1>2, <1>3

LEMMA ReadTypes ==
  ASSUME Types, ReadLink \/ StatTarget \/ ReadFile \/ ReadFails
  PROVE  Types'
<1>. USE Bounds
<1>1. CASE ReadLink
  <2>1. /\ pc = "readlink" /\ pc' = "stat"
        /\ UNCHANGED <<tree, listed, changes, at, known, queue, base, pending, cur, use, data, todo, item,
                       files, items, absents, copies, ret>>
    BY <1>1 DEF ReadLink, host, place, parsing, output
  <2>2. got' \in Got /\ got'.state = "there"
    <3>1. got \in Got /\ got.state = "there"
      BY <2>1 DEF Types, RecordTypes
    <3>2. \A b \in BOOLEAN : [got EXCEPT !.link = b] \in Got /\ [got EXCEPT !.link = b].state = got.state
      BY <3>1 DEF Got
    <3>3. got' = got \/ got' = [got EXCEPT !.link = (tree[cur].kind = "link")]
      BY <1>1 DEF ReadLink
    <3>. QED
      BY <3>1, <3>2, <3>3
  <2>3. faults' \in 0 .. MaxFaults
    <3>1. UNCHANGED noted \/ Fault
      BY <1>1 DEF ReadLink
    <3>. QED
      BY <3>1 DEF Types, RunTypes, Fault, noted
  <2>. QED
    BY <2>1, <2>2, <2>3 DEF Types, HostTypes, RunTypes, PlaceTypes, RecordTypes, ParseTypes, OutputTypes, States
<1>2. CASE StatTarget
  <2>1. /\ pc = "stat" /\ pc' \in {"read", "save"} /\ (UNCHANGED noted \/ Fault)
        /\ UNCHANGED <<tree, listed, changes, at, known, queue, base, pending, cur, use, got, data, todo, item,
                       files, items, absents, copies, ret>>
    BY <1>2 DEF StatTarget, host, place, record, parsing, output
  <2>2. faults' \in 0 .. MaxFaults
    BY <2>1 DEF Types, RunTypes, Fault, noted
  <2>. QED
    BY <2>1, <2>2 DEF Types, HostTypes, RunTypes, PlaceTypes, RecordTypes, ParseTypes, OutputTypes, States
<1>3. CASE ReadFile
  <2>1. /\ pc = "read" /\ pc' = "save"
        /\ UNCHANGED <<tree, listed, changes, at, known, queue, base, pending, cur, use, todo, item,
                       files, items, absents, copies, ret>>
    BY <1>3 DEF ReadFile, host, place, parsing, output
  <2>2. got \in Got /\ got.state = "there" /\ data \in Content1
    BY <2>1 DEF Types, RecordTypes
  <2>3. got' \in Got /\ got'.state = "there" /\ data' \in Content1 /\ faults' \in 0 .. MaxFaults
    <3>. DEFINE f == Follow(cur)
                d == [ver |-> f.ver, key |-> f.key]
    <3>1. CASE f.kind = "file"
      <4>1. /\ data' = d /\ got' = [got EXCEPT !.hash = d.ver, !.key = Sensitive(cur, d)] /\ UNCHANGED noted
        BY <1>3, <3>1 DEF ReadFile
      <4>2. f \in Entity
        BY FollowTypes DEF Types, RecordTypes
      <4>3. d \in Content1 /\ d.ver \in Version /\ Sensitive(cur, d) \in BOOLEAN
        BY <4>2 DEF Entity, Content1, Sensitive
      <4>. HIDE DEF d
      <4>4. PICK g \in Got, v \in Version, b \in BOOLEAN : g = got /\ v = d.ver /\ b = Sensitive(cur, d)
        BY <2>2, <4>3
      <4>5. got' = [g EXCEPT !.hash = v, !.key = b]
        BY <4>1, <4>4
      <4>. DEFINE x == [g EXCEPT !.hash = v, !.key = b]
      <4>8. x \in Got /\ x.state = g.state
        BY DEF Got
      <4>9. got' = x
        BY <4>5
      <4>. HIDE DEF x
      <4>6. got' \in Got /\ got'.state = "there"
        BY <4>4, <4>8, <4>9, <2>2
      <4>7. faults' \in 0 .. MaxFaults
        BY <4>1 DEF noted, Types, RunTypes
      <4>. QED
        BY <4>1, <4>3, <4>6, <4>7
    <3>2. CASE f.kind # "file"
      <4>1. Report(<<"read", cur>>) /\ UNCHANGED <<got, data>>
        BY <1>3, <3>2 DEF ReadFile
      <4>. QED
        BY <4>1, <2>2, ReportFacts DEF Types, RunTypes
    <3>. QED
      BY <3>1, <3>2
  <2>. QED
    BY <2>1, <2>3 DEF Types, HostTypes, RunTypes, PlaceTypes, RecordTypes, ParseTypes, OutputTypes, States
<1>4. CASE ReadFails
  <2>1. /\ pc = "read" /\ pc' = "save" /\ FailAndReport(<<"read", cur>>)
        /\ UNCHANGED <<tree, listed, changes, at, known, queue, base, pending, cur, use, got, data, todo, item,
                       files, items, absents, copies, ret>>
    BY <1>4 DEF ReadFails, host, place, record, parsing, output
  <2>2. faults' \in 0 .. MaxFaults
    BY <2>1, FailFacts DEF Types, RunTypes
  <2>. QED
    BY <2>1, <2>2 DEF Types, HostTypes, RunTypes, PlaceTypes, RecordTypes, ParseTypes, OutputTypes, States
<1>. QED
  BY <1>1, <1>2, <1>3, <1>4

LEMMA SaveTypes ==
  ASSUME Types, Save \/ SaveFails
  PROVE  Types'
<1>. USE Bounds
<1>1. CASE Save
  <2>1. /\ pc = "save" /\ files' = [files EXCEPT ![cur] = Append(@, Claim(Copied))]
        /\ copies' \in {copies, [copies EXCEPT ![cur] = data]}
        /\ UNCHANGED <<tree, listed, changes, known, queue, base, cur, use, got, data, item, items, absents,
                       faults, ret>>
    BY <1>1 DEF Save, Append1, Claim, host, record, noted
  <2>2. got \in Got /\ got.state = "there" /\ data \in Content1 /\ cur \in Node
    BY <2>1 DEF Types, RecordTypes
  <2>3. files' \in [Node -> Seq(Filed)]
    BY <2>1, <2>2, FilesAppend, ClaimFiled, CopiedFact DEF Types, OutputTypes
  <2>4. copies' \in [Node -> Content1]
    BY <2>1, <2>2 DEF Types, OutputTypes
  <2>5. CASE use = "dir"
    <3>1. Back /\ UNCHANGED todo
      BY <1>1, <2>5 DEF Save
    <3>2. PlaceTypes' /\ pc' \in {"agenda", "glob", "list", "walk"}
      BY <2>1, <3>1, BackTypes DEF Types
    <3>. QED
      BY <2>1, <2>3, <2>4, <3>1, <3>2 DEF Types, HostTypes, RunTypes, RecordTypes, ParseTypes, OutputTypes, States
  <2>6. CASE use # "dir"
    <3>1. pc' = "items" /\ todo' = ItemsOf(Asked.parse) /\ UNCHANGED <<at, pending>>
      BY <1>1, <2>6 DEF Save
    <3>2. todo' \in Seq(ItemKinds)
      BY <3>1, ItemsOfSeq
    <3>. QED
      BY <2>1, <2>3, <2>4, <3>1, <3>2
      DEF Types, HostTypes, RunTypes, PlaceTypes, RecordTypes, ParseTypes, OutputTypes, States
  <2>. QED
    BY <2>5, <2>6
<1>2. CASE SaveFails
  <2>1. /\ pc = "save" /\ pc' = "done" /\ ret' = "err" /\ Fault
        /\ copies' \in {copies, [copies EXCEPT ![cur] = data]}
        /\ UNCHANGED <<tree, listed, changes, at, known, queue, base, pending, cur, use, got, data, todo, item,
                       files, items, absents>>
    BY <1>2 DEF SaveFails, Return, host, place, record, parsing
  <2>2. copies' \in [Node -> Content1] /\ faults' \in 0 .. MaxFaults
    BY <2>1 DEF Types, OutputTypes, RecordTypes, RunTypes, Fault
  <2>. QED
    BY <2>1, <2>2 DEF Types, HostTypes, RunTypes, PlaceTypes, RecordTypes, ParseTypes, OutputTypes, States
<1>. QED
  BY <1>1, <1>2

\* An item is of the text that is being parsed, and its fields change one at a time.
LEMMA NewItemFacts ==
  ASSUME RecordTypes, NEW k \in ItemKinds, NEW t \in Node \union {NoPath}, NEW s \in Node \union {NoPath},
         NEW j, j = NewItem(k, t, s)
  PROVE  /\ j \in Items /\ j.kind = k /\ j.target = t /\ j.script = s /\ j.path = cur
         /\ j.src = got.hash /\ j.text = data.ver /\ j.tver = 0 /\ j.sver = 0
<1>1. cur \in Node /\ got.hash \in Version /\ data.ver \in Version /\ 0 \in Version
  BY Bounds DEF RecordTypes, Got, Content1, Version
<1>. HIDE DEF Version, ItemKinds
<1>. QED
  BY <1>1 DEF NewItem, Items

LEMMA SetTarget ==
  ASSUME NEW i \in Items, NEW v \in Node \union {NoPath}, NEW j, j = [i EXCEPT !.target = v]
  PROVE  /\ j \in Items /\ j.target = v
         /\ j.kind = i.kind /\ j.path = i.path /\ j.src = i.src /\ j.text = i.text
         /\ j.tver = i.tver /\ j.script = i.script /\ j.sver = i.sver
BY DEF Items

LEMMA SetScript ==
  ASSUME NEW i \in Items, NEW v \in Node \union {NoPath}, NEW j, j = [i EXCEPT !.script = v]
  PROVE  /\ j \in Items /\ j.script = v
         /\ j.kind = i.kind /\ j.path = i.path /\ j.src = i.src /\ j.text = i.text
         /\ j.target = i.target /\ j.tver = i.tver /\ j.sver = i.sver
BY DEF Items

LEMMA SetTver ==
  ASSUME NEW i \in Items, NEW v \in Version, NEW j, j = [i EXCEPT !.tver = v]
  PROVE  /\ j \in Items /\ j.tver = v
         /\ j.kind = i.kind /\ j.path = i.path /\ j.src = i.src /\ j.text = i.text
         /\ j.target = i.target /\ j.script = i.script /\ j.sver = i.sver
BY DEF Items

LEMMA SetSver ==
  ASSUME NEW i \in Items, NEW v \in Version, NEW j, j = [i EXCEPT !.sver = v]
  PROVE  /\ j \in Items /\ j.sver = v
         /\ j.kind = i.kind /\ j.path = i.path /\ j.src = i.src /\ j.text = i.text
         /\ j.target = i.target /\ j.tver = i.tver /\ j.script = i.script
BY DEF Items

LEMMA SeqStep ==
  ASSUME NEW T, NEW s \in Seq(T), s # <<>>
  PROVE  Head(s) \in T /\ Tail(s) \in Seq(T) /\ 1 \in DOMAIN s /\ Head(s) = s[1]
BY HeadTailProperties

\* What NextItem does, by the kind of the item.
LEMMA NextItemShape ==
  ASSUME RecordTypes, todo \in Seq(ItemKinds), NextItem
  PROVE  /\ pc = "items" /\ todo # <<>> /\ todo' = Tail(todo) /\ Head(todo) \in ItemKinds
         /\ UNCHANGED <<tree, listed, changes, at, known, queue, base, pending, cur, use, got, data,
                        files, items, absents, copies, errors, silent, faults, ret>>
         /\ \/ Head(todo) \in Scripts /\ item' = NewItem(Head(todo), cur, cur) /\ pc' = "target"
            \/ /\ Head(todo) \in WithCommand /\ Names[cur] # <<>>
               /\ item' = NewItem(Head(todo), NoPath, NoPath) /\ pc' = "score"
            \/ /\ Head(todo) = "ld_so_path" /\ Names[cur] # <<>>
               /\ item' = NewItem(Head(todo), Names[cur][1], NoPath) /\ pc' = "target"
            \/ /\ Head(todo) = "pam_record" /\ Candidates # <<>>
               /\ item' = NewItem(Head(todo), Candidates[1], NoPath) /\ pc' = "module"
            \/ /\ Head(todo) \notin Scripts /\ (Head(todo) \in WithCommand => Names[cur] = <<>>)
               /\ (Head(todo) = "pam_record" => Candidates = <<>>)
               /\ item' = NewItem(Head(todo), NoPath, NoPath) /\ pc' = "write"
<1>. DEFINE k == Head(todo)
            names == Names[cur]
<1>1. /\ pc = "items" /\ todo # <<>> /\ todo' = Tail(todo)
      /\ UNCHANGED <<tree, listed, changes, at, known, queue, base, pending, cur, use, got, data,
                     files, items, absents, copies, errors, silent, faults, ret>>
  BY DEF NextItem, host, place, record, output, noted
<1>2. k \in ItemKinds
  BY <1>1, SeqStep
<1>3. names \in Seq(Node) /\ (names # <<>> => Head(names) = names[1])
      /\ (Candidates # <<>> => Head(Candidates) = Candidates[1])
  BY HostAssumption, SeqStep DEF RecordTypes
<1>4. (CASE k \in Scripts -> item' = NewItem(k, cur, cur) /\ pc' = "target"
        [] k \in WithCommand /\ names # <<>> -> item' = NewItem(k, NoPath, NoPath) /\ pc' = "score"
        [] k = "ld_so_path" /\ names # <<>> -> item' = NewItem(k, Head(names), NoPath) /\ pc' = "target"
        [] k = "pam_record" /\ Candidates # <<>> ->
             item' = NewItem(k, Head(Candidates), NoPath) /\ pc' = "module"
        [] OTHER -> item' = NewItem(k, NoPath, NoPath) /\ pc' = "write")
  BY Zenon DEF NextItem
<1>. HIDE DEF k, names
<1>5. \/ k \in Scripts /\ item' = NewItem(k, cur, cur) /\ pc' = "target"
      \/ /\ k \in WithCommand /\ names # <<>>
         /\ item' = NewItem(k, NoPath, NoPath) /\ pc' = "score"
      \/ /\ k = "ld_so_path" /\ names # <<>>
         /\ item' = NewItem(k, names[1], NoPath) /\ pc' = "target"
      \/ /\ k = "pam_record" /\ Candidates # <<>>
         /\ item' = NewItem(k, Candidates[1], NoPath) /\ pc' = "module"
      \/ /\ k \notin Scripts /\ (k \in WithCommand => names = <<>>)
         /\ (k = "pam_record" => Candidates = <<>>)
         /\ item' = NewItem(k, NoPath, NoPath) /\ pc' = "write"
  BY <1>3, <1>4
<1>. QED
  BY <1>1, <1>2, <1>5 DEF k, names

LEMMA ItemTypes ==
  ASSUME Types, NextItem \/ ItemsDone
  PROVE  Types'
<1>. USE Bounds
<1>1. CASE NextItem
  <2>1. RecordTypes /\ todo \in Seq(ItemKinds) /\ cur \in Node
    BY DEF Types, ParseTypes, RecordTypes
  <2>2. /\ pc = "items" /\ todo # <<>> /\ todo' = Tail(todo) /\ Head(todo) \in ItemKinds
        /\ UNCHANGED <<tree, listed, changes, at, known, queue, base, pending, cur, use, got, data,
                       files, items, absents, copies, errors, silent, faults, ret>>
    BY <1>1, <2>1, NextItemShape
  <2>3. todo' \in Seq(ItemKinds)
    BY <2>1, <2>2, SeqStep
  <2>4. /\ pc' \in {"score", "target", "module", "write"} /\ item' \in Items
        /\ (pc' = "score" => item'.kind \in WithCommand /\ Names[cur] # <<>>)
        /\ (pc' \in {"target", "module"} => item'.target \in Node)
        /\ (pc' = "target" /\ item'.kind \in Scripts => item'.script \in Node)
        /\ (pc' = "module" => item'.kind = "pam_record" /\ \E j \in DOMAIN Candidates : item'.target = Candidates[j])
    <3>. DEFINE k == Head(todo)
    <3>0. k \in ItemKinds
      BY <2>2
    <3>. HIDE DEF k
    <3>1. CASE k \in Scripts /\ item' = NewItem(k, cur, cur) /\ pc' = "target"
      BY <2>1, <3>0, <3>1, NewItemFacts
    <3>2. CASE /\ k \in WithCommand /\ Names[cur] # <<>>
               /\ item' = NewItem(k, NoPath, NoPath) /\ pc' = "score"
      BY <2>1, <3>0, <3>2, NewItemFacts
    <3>3. CASE /\ k = "ld_so_path" /\ Names[cur] # <<>>
               /\ item' = NewItem(k, Names[cur][1], NoPath) /\ pc' = "target"
      <4>1. Names[cur][1] \in Node
        BY <2>1, <3>3, SeqStep, HostAssumption
      <4>2. item' \in Items /\ item'.target \in Node /\ item'.kind = k
        BY <2>1, <3>0, <3>3, <4>1, NewItemFacts
      <4>. QED
        BY <3>3, <4>2 DEF Scripts
    <3>4. CASE /\ k = "pam_record" /\ Candidates # <<>>
               /\ item' = NewItem(k, Candidates[1], NoPath) /\ pc' = "module"
      <4>1. Candidates[1] \in Node /\ 1 \in DOMAIN Candidates
        BY <3>4, SeqStep, HostAssumption
      <4>2. item' \in Items /\ item'.target \in Node /\ item'.target = Candidates[1] /\ item'.kind = k
        BY <2>1, <3>0, <3>4, <4>1, NewItemFacts
      <4>. QED
        BY <3>4, <4>1, <4>2
    <3>5. CASE item' = NewItem(k, NoPath, NoPath) /\ pc' = "write"
      BY <2>1, <3>0, <3>5, NewItemFacts
    <3>6. \/ k \in Scripts /\ item' = NewItem(k, cur, cur) /\ pc' = "target"
          \/ /\ k \in WithCommand /\ Names[cur] # <<>>
             /\ item' = NewItem(k, NoPath, NoPath) /\ pc' = "score"
          \/ /\ k = "ld_so_path" /\ Names[cur] # <<>>
             /\ item' = NewItem(k, Names[cur][1], NoPath) /\ pc' = "target"
          \/ /\ k = "pam_record" /\ Candidates # <<>>
             /\ item' = NewItem(k, Candidates[1], NoPath) /\ pc' = "module"
          \/ item' = NewItem(k, NoPath, NoPath) /\ pc' = "write"
      BY <1>1, <2>1, NextItemShape DEF k
    <3>. QED
      BY <3>1, <3>2, <3>3, <3>4, <3>5, <3>6
  <2>. QED
    BY <2>1, <2>2, <2>3, <2>4
    DEF Types, HostTypes, RunTypes, PlaceTypes, RecordTypes, ParseTypes, OutputTypes, States, Met, Asked
<1>2. CASE ItemsDone
  <2>1. /\ pc = "items" /\ Back
        /\ UNCHANGED <<tree, listed, changes, known, queue, base, cur, use, got, data, todo, item, files, items,
                       absents, copies, faults, ret>>
    BY <1>2 DEF ItemsDone, host, record, parsing, output, noted
  <2>2. PlaceTypes' /\ pc' \in {"agenda", "glob", "list", "walk"}
    BY <2>1, BackTypes DEF Types
  <2>. QED
    BY <2>1, <2>2 DEF Types, HostTypes, RunTypes, RecordTypes, ParseTypes, OutputTypes, States
<1>. QED
  BY <1>1, <1>2

\* The best of the names is one of them: it scores no less than any other, and
\* those that score as much come after it.
LEMMA BestFacts ==
  ASSUME NEW names \in Seq(Node), names # <<>>
  PROVE  /\ Best(names) \in DOMAIN names
         /\ \A j \in DOMAIN names : \/ Score(names[Best(names)]) > Score(names[j])
                                    \/ Score(names[Best(names)]) = Score(names[j]) /\ Best(names) <= j
<1>. DEFINE n == Len(names)
            S(v) == {k \in DOMAIN names : Score(names[k]) = v}
            Top(k) == \A j \in DOMAIN names : Score(names[k]) >= Score(names[j])
            Tops == {k \in DOMAIN names : Top(k)}
            Good(k) == \A j \in DOMAIN names : \/ Score(names[k]) > Score(names[j])
                                               \/ Score(names[k]) = Score(names[j]) /\ k <= j
<1>1. n \in Nat /\ n # 0 /\ DOMAIN names = 1 .. n
  BY LenProperties, EmptySeq
<1>2. \A k : Score(names[k]) \in {50, 60, 80}
  BY DEF Score
<1>3. \E k \in DOMAIN names : Top(k)
  <2>0. 1 \in DOMAIN names
    BY <1>1
  <2>1. CASE S(80) # {}
    <3>1. PICK k \in DOMAIN names : Score(names[k]) = 80
      BY <2>1
    <3>. QED
      BY <1>2, <3>1
  <2>2. CASE S(80) = {} /\ S(60) # {}
    <3>1. PICK k \in DOMAIN names : Score(names[k]) = 60
      BY <2>2
    <3>2. \A j \in DOMAIN names : Score(names[j]) \in {50, 60}
      BY <1>2, <2>2
    <3>. QED
      BY <3>1, <3>2
  <2>3. CASE S(80) = {} /\ S(60) = {}
    <3>1. \A j \in DOMAIN names : Score(names[j]) = 50
      BY <1>2, <2>3
    <3>. QED
      BY <2>0, <3>1
  <2>. QED
    BY <2>1, <2>2, <2>3
<1>4. Tops \subseteq Nat /\ Tops # {}
  BY <1>1, <1>3
<1>5. PICK k \in Tops : \A j \in Tops : k <= j
  <2>. HIDE DEF Tops
  <2>. QED
    BY <1>4, LeastNatural
<1>6. k \in DOMAIN names /\ Good(k)
  <2>1. k \in DOMAIN names /\ Top(k)
    BY <1>5
  <2>2. ASSUME NEW j \in DOMAIN names, ~(Score(names[k]) > Score(names[j]))
        PROVE  Score(names[k]) = Score(names[j]) /\ k <= j
    <3>. HIDE DEF Top
    <3>0. \A x \in DOMAIN names : Score(names[x]) \in Nat
      BY <1>2
    <3>1. Score(names[k]) = Score(names[j])
      BY <2>1, <2>2, <3>0 DEF Top
    <3>2. Top(j)
      BY <2>1, <3>1 DEF Top
    <3>. QED
      BY <1>5, <3>1, <3>2
  <2>. QED
    BY <2>1, <2>2
<1>7. Best(names) = CHOOSE x \in DOMAIN names : Good(x)
  BY DEF Best
<1>. HIDE DEF Good
<1>8. Best(names) \in DOMAIN names /\ Good(Best(names))
  BY <1>6, <1>7
<1>. QED
  BY <1>8 DEF Good

LEMMA TargetTypes ==
  ASSUME Types, ChooseTarget \/ LookAtTarget \/ ReadTarget
  PROVE  Types'
<1>. USE Bounds
<1>1. CASE ChooseTarget
  <2>1. /\ pc = "score" /\ pc' = "target" /\ item' = [item EXCEPT !.target = Names[cur][Best(Names[cur])]]
        /\ UNCHANGED <<tree, listed, changes, at, known, queue, base, pending, cur, use, got, data, todo,
                       files, items, absents, copies, faults, ret>>
    BY <1>1 DEF ChooseTarget, host, place, record, output, noted
  <2>2. /\ item \in Items /\ Names[cur] \in Seq(Node) /\ Names[cur] # <<>> /\ item.kind \in WithCommand
        /\ cur \in Node
    BY <2>1, HostAssumption DEF Types, ParseTypes, RecordTypes
  <2>. DEFINE t == Names[cur][Best(Names[cur])]
  <2>3. t \in Node
    BY <2>2, BestFacts
  <2>. HIDE DEF t
  <2>4. item' \in Items /\ item'.target \in Node /\ item'.kind \notin Scripts
    <3>1. item' = [item EXCEPT !.target = t]
      BY <2>1 DEF t
    <3>2. item' \in Items /\ item'.target \in Node /\ item'.kind = item.kind
      BY <2>2, <2>3, <3>1, SetTarget
    <3>. QED
      BY <2>2, <3>2 DEF WithCommand, Scripts
  <2>. QED
    BY <2>1, <2>2, <2>4
    DEF Types, HostTypes, RunTypes, PlaceTypes, RecordTypes, ParseTypes, OutputTypes, States, Met, Asked
<1>2. AfterTarget \in {"script", "fallback", "write"} /\ (AfterTarget = "script" => item.kind \in Scripts)
  BY DEF AfterTarget
<1>3. CASE LookAtTarget
  <2>1. /\ pc = "target" /\ pc' \in {"readtarget", AfterTarget} /\ (Fault \/ UNCHANGED noted)
        /\ UNCHANGED <<tree, listed, changes, at, known, queue, base, pending, cur, use, got, data, todo, item,
                       files, items, absents, copies, ret>>
    BY <1>3 DEF LookAtTarget, host, place, record, parsing, output
  <2>2. faults' \in 0 .. MaxFaults
    BY <2>1 DEF Types, RunTypes, Fault, noted
  <2>. QED
    BY <1>2, <2>1, <2>2
    DEF Types, HostTypes, RunTypes, PlaceTypes, RecordTypes, ParseTypes, OutputTypes, States, Met, Asked
<1>4. CASE ReadTarget
  <2>1. /\ pc = "readtarget" /\ pc' = AfterTarget
        /\ \/ item' = [item EXCEPT !.tver = Content(item.target)] /\ UNCHANGED noted
           \/ Fault /\ UNCHANGED item
        /\ UNCHANGED <<tree, listed, changes, at, known, queue, base, pending, cur, use, got, data, todo,
                       files, items, absents, copies, ret>>
    BY <1>4 DEF ReadTarget, host, place, record, output
  <2>2. faults' \in 0 .. MaxFaults
    BY <2>1 DEF Types, RunTypes, Fault, noted
  <2>3. item \in Items /\ item.target \in Node
    BY <2>1 DEF Types, ParseTypes
  <2>4. Content(item.target) \in Version
    BY <2>3, FollowTypes DEF Content, Entity, Version, Types
  <2>. DEFINE v == Content(item.target)
  <2>. HIDE DEF v
  <2>5. item' \in Items /\ item'.kind = item.kind /\ item'.script = item.script /\ item'.target = item.target
    <3>1. item' = item \/ (v \in Version /\ item' = [item EXCEPT !.tver = v])
      BY <2>1, <2>4 DEF v
    <3>. QED
      BY <2>3, <3>1, SetTver
  <2>. QED
    BY <1>2, <2>1, <2>2, <2>3, <2>5
    DEF Types, HostTypes, RunTypes, PlaceTypes, RecordTypes, ParseTypes, OutputTypes, States, Met, Asked
<1>. QED
  BY <1>1, <1>3, <1>4

LEMMA ScriptTypes ==
  ASSUME Types, Fallback \/ LookAtScript \/ ReadScript
  PROVE  Types'
<1>. USE Bounds
<1>1. CASE Fallback
  <2>1. /\ pc = "fallback"
        /\ \/ pc' = "write" /\ item' = item
           \/ pc' = "script" /\ item' = [item EXCEPT !.script = item.target]
        /\ UNCHANGED <<tree, listed, changes, at, known, queue, base, pending, cur, use, got, data, todo,
                       files, items, absents, copies, faults, ret>>
    BY <1>1 DEF Fallback, host, place, record, output, noted
  <2>2. item \in Items /\ item.target \in Node
    BY <2>1 DEF Types, ParseTypes
  <2>3. item' \in Items /\ (pc' = "script" => item'.script \in Node)
    <3>. DEFINE t == item.target
    <3>1. (pc' = "write" /\ item' = item) \/ (pc' = "script" /\ item' = [item EXCEPT !.script = t])
      BY <2>1
    <3>2. t \in Node
      BY <2>2
    <3>. HIDE DEF t
    <3>. QED
      BY <2>2, <3>1, <3>2, SetScript
  <2>. QED
    BY <2>1, <2>3
    DEF Types, HostTypes, RunTypes, PlaceTypes, RecordTypes, ParseTypes, OutputTypes, States, Met, Asked
<1>2. CASE LookAtScript
  <2>1. /\ pc = "script" /\ pc' \in {"readscript", "write"} /\ (Fault \/ UNCHANGED noted)
        /\ UNCHANGED <<tree, listed, changes, at, known, queue, base, pending, cur, use, got, data, todo, item,
                       files, items, absents, copies, ret>>
    BY <1>2 DEF LookAtScript, host, place, record, parsing, output
  <2>2. faults' \in 0 .. MaxFaults
    BY <2>1 DEF Types, RunTypes, Fault, noted
  <2>. QED
    BY <2>1, <2>2
    DEF Types, HostTypes, RunTypes, PlaceTypes, RecordTypes, ParseTypes, OutputTypes, States, Met, Asked
<1>3. CASE ReadScript
  <2>1. /\ pc = "readscript" /\ pc' = "write"
        /\ \/ item' = [item EXCEPT !.sver = Content(item.script)] /\ UNCHANGED noted
           \/ Fault /\ UNCHANGED item
        /\ UNCHANGED <<tree, listed, changes, at, known, queue, base, pending, cur, use, got, data, todo,
                       files, items, absents, copies, ret>>
    BY <1>3 DEF ReadScript, host, place, record, output
  <2>2. faults' \in 0 .. MaxFaults
    BY <2>1 DEF Types, RunTypes, Fault, noted
  <2>3. item \in Items /\ item.script \in Node
    BY <2>1 DEF Types, ParseTypes
  <2>4. Content(item.script) \in Version
    BY <2>3, FollowTypes DEF Content, Entity, Version, Types
  <2>. DEFINE v == Content(item.script)
  <2>. HIDE DEF v
  <2>5. item' \in Items
    <3>1. item' = item \/ (v \in Version /\ item' = [item EXCEPT !.sver = v])
      BY <2>1, <2>4 DEF v
    <3>. QED
      BY <2>3, <3>1, SetSver
  <2>. QED
    BY <2>1, <2>2, <2>5
    DEF Types, HostTypes, RunTypes, PlaceTypes, RecordTypes, ParseTypes, OutputTypes, States, Met, Asked
<1>. QED
  BY <1>1, <1>2, <1>3

\* The next candidate, or none.
LEMMA NextCandidateFacts ==
  ASSUME NextCandidate, NEW k \in DOMAIN Candidates, item.target = Candidates[k]
  PROVE  \/ k < Len(Candidates) /\ item' = [item EXCEPT !.target = Candidates[k + 1]] /\ pc' = pc
         \/ k = Len(Candidates) /\ item' = [item EXCEPT !.target = NoPath] /\ pc' = "write"
<1>. DEFINE n == Len(Candidates)
            c == CHOOSE j \in DOMAIN Candidates : Candidates[j] = item.target
<1>1. n \in Nat /\ DOMAIN Candidates = 1 .. n
  BY HostAssumption, LenProperties
<1>2. c = k
  BY HostAssumption
<1>3. IF c < n THEN item' = [item EXCEPT !.target = Candidates[c + 1]] /\ UNCHANGED pc
      ELSE item' = [item EXCEPT !.target = NoPath] /\ pc' = "write"
  BY DEF NextCandidate
<1>. HIDE DEF c, n
<1>4. k <= n
  BY <1>1
<1>. QED
  BY <1>1, <1>2, <1>3, <1>4 DEF n

LEMMA ModuleTypes ==
  ASSUME Types, ResolveModule
  PROVE  Types'
<1>. USE Bounds
<1>1. /\ pc = "module" /\ (Fault \/ UNCHANGED noted)
      /\ UNCHANGED <<tree, listed, changes, at, known, queue, base, pending, cur, use, got, data, todo,
                     files, items, absents, copies, ret>>
  BY DEF ResolveModule, host, place, record, output
<1>2. /\ item \in Items /\ item.target \in Node /\ item.kind = "pam_record"
      /\ \E k \in DOMAIN Candidates : item.target = Candidates[k]
  BY <1>1 DEF Types, ParseTypes
<1>3. faults' \in 0 .. MaxFaults
  BY <1>1 DEF Types, RunTypes, Fault, noted
<1>4. PICK k \in DOMAIN Candidates : item.target = Candidates[k]
  BY <1>2
<1>5. /\ pc' \in {"module", "write", "readtarget"} /\ item' \in Items
      /\ (pc' \in {"readtarget", "module"} => item'.target \in Node) /\ item'.kind = "pam_record"
      /\ (pc' = "module" => \E j \in DOMAIN Candidates : item'.target = Candidates[j])
  <2>1. CASE NextCandidate
    <3>. DEFINE t == Candidates[k + 1]
    <3>1. \/ k < Len(Candidates) /\ item' = [item EXCEPT !.target = t] /\ pc' = "module"
          \/ item' = [item EXCEPT !.target = NoPath] /\ pc' = "write"
      BY <1>1, <1>4, <2>1, NextCandidateFacts
    <3>2. k < Len(Candidates) => t \in Node /\ k + 1 \in DOMAIN Candidates
      BY HostAssumption, LenProperties
    <3>3. k < Len(Candidates) => \E j \in DOMAIN Candidates : t = Candidates[j]
      BY <3>2
    <3>. HIDE DEF t
    <3>. QED
      BY <1>2, <3>1, <3>2, <3>3, SetTarget
  <2>2. CASE item' = item /\ pc' = (IF Follow(item.target).kind = "file" THEN "readtarget" ELSE "write")
    <3>1. pc' \in {"readtarget", "write"}
      BY <2>2
    <3>. QED
      BY <1>2, <2>2, <3>1
  <2>. QED
    BY <2>1, <2>2 DEF ResolveModule
<1>. QED
  BY <1>1, <1>3, <1>5
  DEF Types, HostTypes, RunTypes, PlaceTypes, RecordTypes, ParseTypes, OutputTypes, States, Met, Asked, Scripts

LEMMA WriteTypes ==
  ASSUME Types, WriteItem \/ WriteFails
  PROVE  Types'
<1>. USE Bounds
<1>1. CASE WriteItem
  <2>1. /\ pc = "write" /\ pc' = "items" /\ items' = items \union {item}
        /\ UNCHANGED <<tree, listed, changes, at, known, queue, base, pending, cur, use, got, data, todo, item,
                       files, absents, copies, faults, ret>>
    BY <1>1 DEF WriteItem, host, place, record, parsing, noted
  <2>. QED
    BY <2>1
    DEF Types, HostTypes, RunTypes, PlaceTypes, RecordTypes, ParseTypes, OutputTypes, States, Met, Asked
<1>2. CASE WriteFails
  <2>1. /\ pc \in {"absent", "write", "look"} /\ pc' = "done" /\ ret' = "err" /\ Fault
        /\ UNCHANGED <<tree, listed, changes, at, known, queue, base, pending, cur, use, got, data, todo, item,
                       files, items, absents, copies>>
    BY <1>2 DEF WriteFails, Return, host, place, record, parsing, output
  <2>2. faults' \in 0 .. MaxFaults
    BY <2>1 DEF Types, RunTypes, Fault
  <2>. QED
    BY <2>1, <2>2
    DEF Types, HostTypes, RunTypes, PlaceTypes, RecordTypes, ParseTypes, OutputTypes, States
<1>. QED
  BY <1>1, <1>2

----------------------------------------------------------------------------
(* The shapes of the steps.                                                *)

Elsewhere == {"agenda", "glob", "root", "begin", "absent", "walk", "list", "look", "done"}
Parsing   == {"items"} \union InItem

\* Steps after which no record and no item is being made.
Outside ==
  \/ PassCheck \/ Interrupt \/ ReadUsers \/ NotForUs \/ BeginEntry
  \/ Match \/ MatchFails \/ MatchesDone \/ End
  \/ LookAtRoot \/ RootFails \/ WriteAbsent \/ BeginWalk \/ BeginFails
  \/ Meet \/ ListDir \/ ListFails \/ EndWalk
  \/ LookFails \/ SaveFails \/ ItemsDone \/ WriteFails

\* Steps that make the record of a path.
Recording == Look \/ ReadLink \/ StatTarget \/ ReadFile \/ ReadFails \/ Save

\* Steps inside an item that is being made.
WithinItem == ChooseTarget \/ LookAtTarget \/ ReadTarget \/ Fallback \/ LookAtScript \/ ReadScript \/ ResolveModule

LEMMA CollectGroups == Collect <=> Outside \/ Recording \/ NextItem \/ WithinItem \/ WriteItem
BY DEF Collect, Outside, Recording, WithinItem

LEMMA BackElsewhere == (Back \/ Leave \/ NextEntry) => pc' \in {"agenda", "glob", "list", "walk"}
BY DEF Back, Leave, NextEntry

LEMMA OutsideElsewhere ==
  ASSUME Outside
  PROVE  pc' \in Elsewhere
<1>1. ASSUME BeginEntry PROVE pc' \in Elsewhere
  <2>1. pc' \in {"look", "glob", "root"}
    BY <1>1 DEF BeginEntry
  <2>. QED
    BY <2>1 DEF Elsewhere
<1>2. ASSUME Match \/ MatchFails \/ LookAtRoot PROVE pc' \in Elsewhere
  <2>1. pc' \in {"root", "look", "glob", "absent", "begin"}
    BY <1>2 DEF Match, MatchFails, LookAtRoot
  <2>. QED
    BY <2>1 DEF Elsewhere
<1>3. ASSUME PassCheck \/ ReadUsers \/ NotForUs \/ MatchesDone \/ WriteAbsent \/ BeginFails \/ EndWalk \/ ItemsDone
             \/ LookFails
      PROVE  pc' \in Elsewhere
  <2>1. Back \/ Leave \/ NextEntry
    BY <1>3 DEF PassCheck, ReadUsers, NotForUs, MatchesDone, WriteAbsent, BeginFails, EndWalk, ItemsDone,
       LookFails, RecordAbsent
  <2>. QED
    BY <2>1, BackElsewhere DEF Elsewhere
<1>4. ASSUME Interrupt \/ End \/ RootFails \/ SaveFails \/ WriteFails \/ ListDir \/ ListFails PROVE pc' \in Elsewhere
  BY <1>4 DEF Interrupt, End, RootFails, SaveFails, WriteFails, ListDir, ListFails, Return, Elsewhere
<1>5. ASSUME BeginWalk PROVE pc' \in Elsewhere
  <2>1. Leave \/ pc' = "walk"
    BY <1>5 DEF BeginWalk
  <2>. QED
    BY <2>1, BackElsewhere DEF Elsewhere
<1>6. ASSUME Meet PROVE pc' \in Elsewhere
  BY <1>6 DEF Meet, Elsewhere
<1>. QED
  BY <1>1, <1>2, <1>3, <1>4, <1>5, <1>6 DEF Outside

\* What the collector's steps do to the output: all but three of them change
\* nothing or record an absence.
Append2(n, r) == files' = [files EXCEPT ![n] = Append(@, r)]

LEMMA OutputShape ==
  ASSUME Types, Collect
  PROVE  \/ Save \/ SaveFails \/ WriteItem
         \/ UNCHANGED <<files, items, copies>>
         \/ UNCHANGED <<items, copies>> /\ \E n \in Node : Append2(n, Absence)
<1>1. ASSUME Outside, ~SaveFails
      PROVE  \/ UNCHANGED <<files, items, copies>>
             \/ UNCHANGED <<items, copies>> /\ \E n \in Node : Append2(n, Absence)
  <2>1. CASE WriteAbsent
    BY <2>1 DEF WriteAbsent, Append2, Types, PlaceTypes
  <2>2. CASE LookFails
    BY <2>2 DEF LookFails, RecordAbsent, Append1, Append2, Types, RecordTypes
  <2>3. CASE ~WriteAbsent /\ ~LookFails
    BY <1>1, <2>3 DEF Outside, PassCheck, Interrupt, ReadUsers, NotForUs, BeginEntry, Match, MatchFails,
       MatchesDone, End, LookAtRoot, RootFails, BeginWalk, BeginFails, Meet, ListDir, ListFails, EndWalk,
       ItemsDone, WriteFails, output
  <2>. QED
    BY <2>1, <2>2, <2>3
<1>2. ASSUME Recording, ~Save
      PROVE  \/ UNCHANGED <<files, items, copies>>
             \/ UNCHANGED <<items, copies>> /\ \E n \in Node : Append2(n, Absence)
  <2>1. CASE Look
    BY <2>1 DEF Look, RecordAbsent, Append1, Append2, Types, RecordTypes
  <2>2. CASE ~Look
    BY <1>2, <2>2 DEF Recording, ReadLink, StatTarget, ReadFile, ReadFails, output
  <2>. QED
    BY <2>1, <2>2
<1>3. ASSUME NextItem \/ WithinItem
      PROVE  UNCHANGED <<files, items, copies>>
  BY <1>3 DEF NextItem, WithinItem, ChooseTarget, LookAtTarget, ReadTarget, Fallback, LookAtScript, ReadScript,
     ResolveModule, output
<1>. QED
  BY <1>1, <1>2, <1>3, CollectGroups

\* A step within an item changes where its files were found and what they hold.
LEMMA WithinShape ==
  ASSUME Types, WithinItem
  PROVE  /\ pc \in InItem \ {"write"} /\ pc' \in InItem \ {"score"}
         /\ item' \in Items /\ item'.kind = item.kind /\ item'.path = item.path
         /\ item'.src = item.src /\ item'.text = item.text
         /\ UNCHANGED <<tree, listed, changes, at, known, queue, base, pending, cur, use, got, data, todo,
                        files, items, absents, copies, ret>>
<1>1. UNCHANGED <<tree, listed, changes, at, known, queue, base, pending, cur, use, got, data, todo,
                  files, items, absents, copies, ret>>
  BY DEF WithinItem, ChooseTarget, LookAtTarget, ReadTarget, Fallback, LookAtScript, ReadScript,
     ResolveModule, host, place, record, parsing, output
<1>2. AfterTarget \in {"script", "fallback", "write"}
  BY DEF AfterTarget
<1>3. ASSUME ChooseTarget
      PROVE  pc = "score" /\ pc' = "target" /\ \E t \in Node \union {NoPath} : item' = [item EXCEPT !.target = t]
  <2>1. pc = "score" /\ Names[cur] \in Seq(Node) /\ Names[cur] # <<>>
    BY <1>3, HostAssumption DEF ChooseTarget, Types, ParseTypes, RecordTypes
  <2>2. Names[cur][Best(Names[cur])] \in Node
    BY <2>1, BestFacts
  <2>. QED
    BY <1>3, <2>1, <2>2 DEF ChooseTarget
<1>4. ASSUME LookAtTarget \/ LookAtScript
      PROVE  /\ pc \in {"target", "script"} /\ pc' \in {"readtarget", "readscript", "write", "script", "fallback"}
             /\ item' = item
  BY <1>2, <1>4 DEF LookAtTarget, LookAtScript, parsing
<1>5. ASSUME ReadTarget
      PROVE  pc = "readtarget" /\ pc' = AfterTarget /\ (item' = item \/ \E v \in Version : item' = [item EXCEPT !.tver = v])
  <2>1. pc = "readtarget" /\ item.target \in Node
    BY <1>5 DEF ReadTarget, Types, ParseTypes
  <2>2. Content(item.target) \in Version
    BY <2>1, FollowTypes, Bounds DEF Content, Entity, Version, Types
  <2>. QED
    BY <1>5, <2>1, <2>2 DEF ReadTarget
<1>6. ASSUME Fallback
      PROVE  /\ pc = "fallback" /\ pc' \in {"write", "script"}
             /\ (item' = item \/ \E t \in Node \union {NoPath} : item' = [item EXCEPT !.script = t])
  BY <1>6 DEF Fallback, Types, ParseTypes
<1>7. ASSUME ReadScript
      PROVE  pc = "readscript" /\ pc' = "write" /\ (item' = item \/ \E v \in Version : item' = [item EXCEPT !.sver = v])
  <2>1. pc = "readscript" /\ item.script \in Node
    BY <1>7 DEF ReadScript, Types, ParseTypes
  <2>2. Content(item.script) \in Version
    BY <2>1, FollowTypes, Bounds DEF Content, Entity, Version, Types
  <2>. QED
    BY <1>7, <2>1, <2>2 DEF ReadScript
<1>8. ASSUME ResolveModule
      PROVE  /\ pc = "module" /\ pc' \in {"module", "readtarget", "write"}
             /\ (item' = item \/ \E t \in Node \union {NoPath} : item' = [item EXCEPT !.target = t])
  <2>1. pc = "module" /\ \E k \in DOMAIN Candidates : item.target = Candidates[k]
    BY <1>8 DEF ResolveModule, Types, ParseTypes
  <2>2. PICK k \in DOMAIN Candidates : item.target = Candidates[k]
    BY <2>1
  <2>3. ASSUME NextCandidate
        PROVE  pc' \in {"module", "write"} /\ \E t \in Node \union {NoPath} : item' = [item EXCEPT !.target = t]
    <3>. DEFINE t == Candidates[k + 1]
    <3>1. \/ k < Len(Candidates) /\ item' = [item EXCEPT !.target = t] /\ pc' = "module"
          \/ item' = [item EXCEPT !.target = NoPath] /\ pc' = "write"
      BY <2>1, <2>2, <2>3, NextCandidateFacts
    <3>2. k < Len(Candidates) => t \in Node
      BY HostAssumption, LenProperties
    <3>. HIDE DEF t
    <3>. QED
      BY <3>1, <3>2
  <2>4. ASSUME UNCHANGED <<item, noted>>, pc' = (IF Follow(item.target).kind = "file" THEN "readtarget" ELSE "write")
        PROVE  pc' \in {"readtarget", "write"} /\ item' = item
    BY <2>4
  <2>. QED
    BY <1>8, <2>1, <2>3, <2>4 DEF ResolveModule
<1>9. item \in Items
  BY DEF Types, ParseTypes
<1>10. pc \in InItem \ {"write"} /\ pc' \in InItem \ {"score"}
  BY <1>2, <1>3, <1>4, <1>5, <1>6, <1>7, <1>8 DEF WithinItem, InItem
<1>11. \/ item' = item
       \/ \E t \in Node \union {NoPath} : item' = [item EXCEPT !.target = t]
       \/ \E t \in Node \union {NoPath} : item' = [item EXCEPT !.script = t]
       \/ \E v \in Version : item' = [item EXCEPT !.tver = v]
       \/ \E v \in Version : item' = [item EXCEPT !.sver = v]
  BY <1>3, <1>4, <1>5, <1>6, <1>7, <1>8 DEF WithinItem
<1>12. item' \in Items /\ item'.kind = item.kind /\ item'.path = item.path
       /\ item'.src = item.src /\ item'.text = item.text
  <2>1. ASSUME NEW t \in Node \union {NoPath}, item' = [item EXCEPT !.target = t]
        PROVE  item' \in Items /\ item'.kind = item.kind /\ item'.path = item.path
               /\ item'.src = item.src /\ item'.text = item.text
    BY <1>9, <2>1, SetTarget
  <2>2. ASSUME NEW t \in Node \union {NoPath}, item' = [item EXCEPT !.script = t]
        PROVE  item' \in Items /\ item'.kind = item.kind /\ item'.path = item.path
               /\ item'.src = item.src /\ item'.text = item.text
    BY <1>9, <2>2, SetScript
  <2>3. ASSUME NEW v \in Version, item' = [item EXCEPT !.tver = v]
        PROVE  item' \in Items /\ item'.kind = item.kind /\ item'.path = item.path
               /\ item'.src = item.src /\ item'.text = item.text
    BY <1>9, <2>3, SetTver
  <2>4. ASSUME NEW v \in Version, item' = [item EXCEPT !.sver = v]
        PROVE  item' \in Items /\ item'.kind = item.kind /\ item'.path = item.path
               /\ item'.src = item.src /\ item'.text = item.text
    BY <1>9, <2>4, SetSver
  <2>. QED
    BY <1>9, <1>11, <2>1, <2>2, <2>3, <2>4
<1>. QED
  BY <1>1, <1>10, <1>12

----------------------------------------------------------------------------
(* The types, as an invariant.                                             *)

LEMMA TypesStep == Types /\ [Next]_vars => Types'
<1>. SUFFICES ASSUME Types, [Next]_vars PROVE Types'
  OBVIOUS
<1>1. CASE Outside \/ Recording \/ NextItem \/ WithinItem \/ WriteItem
  <2>1. ASSUME PassCheck \/ Interrupt \/ ReadUsers \/ NotForUs \/ End PROVE Types'
    BY <2>1, AgendaTypes
  <2>2. ASSUME BeginEntry PROVE Types'
    BY <2>2, EntryTypes
  <2>3. ASSUME Match \/ MatchFails \/ MatchesDone PROVE Types'
    BY <2>3, GlobTypes
  <2>4. ASSUME LookAtRoot \/ RootFails \/ WriteAbsent \/ BeginWalk \/ BeginFails PROVE Types'
    BY <2>4, RootTypes
  <2>5. ASSUME Meet \/ ListDir \/ ListFails \/ EndWalk PROVE Types'
    BY <2>5, WalkTypes
  <2>6. ASSUME Look \/ LookFails PROVE Types'
    BY <2>6, LookTypes
  <2>7. ASSUME ReadLink \/ StatTarget \/ ReadFile \/ ReadFails PROVE Types'
    BY <2>7, ReadTypes
  <2>8. ASSUME Save \/ SaveFails PROVE Types'
    BY <2>8, SaveTypes
  <2>9. ASSUME NextItem \/ ItemsDone PROVE Types'
    BY <2>9, ItemTypes
  <2>10. ASSUME ChooseTarget \/ LookAtTarget \/ ReadTarget PROVE Types'
    BY <2>10, TargetTypes
  <2>11. ASSUME Fallback \/ LookAtScript \/ ReadScript PROVE Types'
    BY <2>11, ScriptTypes
  <2>12. ASSUME ResolveModule PROVE Types'
    BY <2>12, ModuleTypes
  <2>13. ASSUME WriteItem \/ WriteFails PROVE Types'
    BY <2>13, WriteTypes
  <2>. QED
    BY <1>1, <2>1, <2>2, <2>3, <2>4, <2>5, <2>6, <2>7, <2>8, <2>9, <2>10, <2>11, <2>12, <2>13
    DEF Outside, Recording, WithinItem
<1>2. CASE HostStep
  BY <1>2, HostStepTypes
<1>3. CASE UNCHANGED vars
  <2>1. UNCHANGED <<tree, listed, changes, pc, at, known, queue, base, pending, cur, use, got, data, todo,
                    item, files, items, absents, copies, faults, ret>>
    BY <1>3 DEF vars, host, place, record, parsing, output, noted
  <2>. QED
    BY <2>1 DEF Types, HostTypes, RunTypes, PlaceTypes, RecordTypes, ParseTypes, OutputTypes, Met, Asked
<1>. QED
  BY <1>1, <1>2, <1>3, CollectGroups DEF Next

LEMMA TypesTypeOK == Types => TypeOK
<1>. SUFFICES ASSUME Types PROVE TypeOK
  OBVIOUS
<1>1. \A n \in Node : \A r \in Ran(files[n]) : r \in Record /\ (r.state = "absent" => r = Absence)
  <2>. SUFFICES ASSUME NEW n \in Node, NEW r \in Ran(files[n])
                PROVE  r \in Record /\ (r.state = "absent" => r = Absence)
    OBVIOUS
  <2>1. files[n] \in Seq(Filed)
    BY DEF Types, OutputTypes
  <2>2. PICK k \in DOMAIN files[n] : r = files[n][k]
    BY DEF Ran
  <2>3. r \in Filed
    BY <2>1, <2>2, ElementOfSeq, LenProperties
  <2>4. Absence \in Record
    BY DEF Absence, Blank, Record, Kind
  <2>5. \A v \in Version : v \in Nat
    BY Bounds DEF Version
  <2>6. ASSUME r # Absence PROVE r \in Record /\ r.state # "absent"
    <3>. HIDE DEF Version, Absence
    <3>. QED
      BY <2>3, <2>5, <2>6 DEF Filed, Record
  <2>. QED
    BY <2>4, <2>6
<1>2. /\ tree \in [Node -> [kind : Kind, ver : 0 .. MaxChanges, key : BOOLEAN]]
      /\ copies \in [Node -> [ver : 0 .. MaxChanges, key : BOOLEAN]]
      /\ listed \in [User -> 0 .. MaxChanges]
  BY DEF Types, HostTypes, OutputTypes, Entity, Content1, Version
<1>. QED
  BY <1>1, <1>2 DEF Types, HostTypes, RunTypes, PlaceTypes, RecordTypes, OutputTypes, Listing, TypeOK

\* Every variable has its type, the walk is inside an entry only, and the record
\* of an absence says nothing else (recordFile, writeAbsentFile).
THEOREM TypesInvariant == Spec => []TypeOK
<1>1. Spec => []Types
  BY InitTypes, TypesStep, PTL DEF Spec
<1>. QED
  BY <1>1, TypesTypeOK, PTL

----------------------------------------------------------------------------
(* Records and copies.                                                     *)

\* Records only come at the end of the list of a path.
LEMMA AppendShape ==
  ASSUME Types, NEW n \in Node, NEW r \in Filed, Append2(n, r)
  PROVE  /\ \A m \in Node : \A k \in DOMAIN files[m] : k \in DOMAIN files'[m] /\ files'[m][k] = files[m][k]
         /\ \A m \in Node : m # n => files'[m] = files[m]
         /\ DOMAIN files[n] = 1 .. Len(files[n]) /\ Len(files[n]) \in Nat
         /\ DOMAIN files'[n] = 1 .. Len(files[n]) + 1
         /\ files'[n][Len(files[n]) + 1] = r
<1>. DEFINE s == files[n]
            l == Len(s)
            t == Append(s, r)
<1>1. files \in [Node -> Seq(Filed)] /\ s \in Seq(Filed)
  BY DEF Types, OutputTypes
<1>2. files' = [files EXCEPT ![n] = t]
  BY DEF Append2
<1>3. files'[n] = t /\ \A m \in Node : m # n => files'[m] = files[m]
  BY <1>1, <1>2
<1>4. l \in Nat /\ DOMAIN s = 1 .. l
  BY <1>1, LenProperties
<1>5. t \in Seq(Filed) /\ Len(t) = l + 1 /\ (\A i \in 1 .. l : t[i] = s[i]) /\ t[l + 1] = r
  BY <1>1, AppendProperties
<1>6. DOMAIN t = 1 .. l + 1
  BY <1>5, LenProperties
<1>. HIDE DEF s, l, t
<1>7. \A k \in DOMAIN s : k \in DOMAIN t /\ t[k] = s[k]
  BY <1>4, <1>5, <1>6
<1>8. \A m \in Node : \A k \in DOMAIN files[m] : k \in DOMAIN files'[m] /\ files'[m][k] = files[m][k]
  BY <1>3, <1>7 DEF s
<1>. QED
  BY <1>3, <1>4, <1>5, <1>6, <1>8 DEF s, l


LEMMA AtEnd == Collect => pc # "done" /\ ret' \in {ret, "ok", "err"}
BY DEF Collect, PassCheck, Interrupt, ReadUsers, NotForUs, BeginEntry, Match, MatchFails, MatchesDone, End,
   LookAtRoot, RootFails, WriteAbsent, BeginWalk, BeginFails, Meet, ListDir, ListFails, EndWalk, Look, LookFails,
   ReadLink, StatTarget, ReadFile, ReadFails, Save, SaveFails, NextItem, ItemsDone, ChooseTarget, LookAtTarget,
   ReadTarget, Fallback, LookAtScript, ReadScript, ResolveModule, WriteItem, WriteFails, Return

\* Until the read nothing is known of the content; after it the record, the
\* copy and the items are all of one content, and the record comes before the
\* items.
Unhashed == got.hash = 0 /\ data = Unread
Hashed   == got.hash = data.ver /\ (got.hash # 0 => (got.key <=> Sensitive(cur, data)))
OnFile(n, h) == \E k \in DOMAIN files[n] : files[n][k].state = "there" /\ files[n][k].hash = h
Stage ==
  /\ pc \in {"readlink", "stat", "read"} => Unhashed
  /\ pc \in {"save"} \union Parsing => Hashed
  /\ pc \in Parsing => OnFile(cur, got.hash)
  /\ pc \in InItem => item.path = cur /\ item.src = got.hash /\ item.text = data.ver

\* A copy is the last one that some record claims.
Claimed(n) == \E k \in DOMAIN files[n] : /\ files[n][k].copied /\ files[n][k].hash = copies[n].ver
                                        /\ \A j \in DOMAIN files[n] : j > k => ~files[n][j].copied
CopyInv ==
  /\ Stage
  /\ ret # "err" => \A n \in Node : copies[n].ver # 0 => Claimed(n)
  /\ \A i \in items : i.text = i.src /\ OnFile(i.path, i.src)
  /\ \A n \in Node : ~copies[n].key /\ (copies[n].ver # 0 => n \notin KeyName)

LEMMA RecordStage ==
  ASSUME Types, Stage, Look \/ ReadLink \/ StatTarget \/ ReadFile \/ ReadFails
  PROVE  /\ pc' \in Elsewhere \union {"readlink", "stat", "read", "save"}
         /\ pc' \in {"readlink", "stat", "read"} => Unhashed'
         /\ pc' = "save" => Hashed'
<1>1. CASE Look
  <2>1. CASE tree[cur].kind = "none"
    <3>1. Back
      BY <1>1, <2>1 DEF Look, RecordAbsent
    <3>. QED
      BY <3>1, BackElsewhere DEF Elsewhere
  <2>2. CASE tree[cur].kind # "none"
    <3>1. /\ got' = There(tree[cur]) /\ data' = Unread
          /\ pc' = (CASE tree[cur].kind = "link" -> "readlink" [] tree[cur].kind = "file" -> "read"
                     [] OTHER -> "save")
      BY <1>1, <2>2 DEF Look
    <3>2. pc' \in {"readlink", "read", "save"}
      BY <3>1
    <3>3. got'.hash = 0 /\ data' = Unread /\ data'.ver = 0
      BY <3>1 DEF There, Unread
    <3>. QED
      BY <3>2, <3>3 DEF Unhashed, Hashed
  <2>. QED
    BY <2>1, <2>2
<1>2. CASE ReadLink
  <2>1. pc = "readlink" /\ pc' = "stat" /\ data' = data /\ Unhashed /\ got \in Got
    BY <1>2 DEF ReadLink, Stage, Types, RecordTypes
  <2>2. \A b \in BOOLEAN : [got EXCEPT !.link = b].hash = got.hash
    BY <2>1 DEF Got
  <2>3. got' = got \/ got' = [got EXCEPT !.link = (tree[cur].kind = "link")]
    BY <1>2 DEF ReadLink
  <2>4. got'.hash = got.hash
    BY <2>2, <2>3
  <2>. QED
    BY <2>1, <2>4 DEF Unhashed
<1>3. CASE StatTarget
  <2>1. pc = "stat" /\ pc' \in {"read", "save"} /\ UNCHANGED <<cur, got, data>> /\ Unhashed
    BY <1>3 DEF StatTarget, record, Stage
  <2>. QED
    BY <2>1 DEF Unhashed, Hashed, Unread
<1>4. CASE ReadFile
  <2>1. pc = "read" /\ pc' = "save" /\ cur' = cur /\ Unhashed
    BY <1>4 DEF ReadFile, Stage
  <2>. DEFINE f == Follow(cur)
              d == [ver |-> f.ver, key |-> f.key]
  <2>2. CASE f.kind = "file"
    <3>1. /\ data' = d /\ got' = [got EXCEPT !.hash = d.ver, !.key = Sensitive(cur, d)]
      BY <1>4, <2>2 DEF ReadFile
    <3>2. f \in Entity
      BY FollowTypes DEF Types, RecordTypes
    <3>3. d \in Content1 /\ d.ver \in Version /\ Sensitive(cur, d) \in BOOLEAN
      BY <3>2 DEF Entity, Content1, Sensitive
    <3>. HIDE DEF d
    <3>4. PICK g \in Got, v \in Version, b \in BOOLEAN : g = got /\ v = d.ver /\ b = Sensitive(cur, d)
      BY <3>3 DEF Types, RecordTypes
    <3>. DEFINE x == [g EXCEPT !.hash = v, !.key = b]
    <3>5. x.hash = v /\ x.key = b
      BY DEF Got
    <3>6. got' = x
      BY <3>1, <3>4
    <3>. HIDE DEF x
    <3>7. got'.hash = d.ver /\ (got'.key <=> Sensitive(cur, d))
      BY <3>4, <3>5, <3>6
    <3>8. Sensitive(cur, data)' <=> Sensitive(cur, d)
      BY <2>1, <3>1 DEF Sensitive
    <3>. QED
      BY <2>1, <3>1, <3>7, <3>8 DEF Hashed
  <2>3. CASE f.kind # "file"
    <3>1. UNCHANGED <<got, data>>
      BY <1>4, <2>3 DEF ReadFile
    <3>. QED
      BY <2>1, <3>1 DEF Unhashed, Hashed, Unread
  <2>. QED
    BY <2>2, <2>3
<1>5. CASE ReadFails
  <2>1. pc = "read" /\ pc' = "save" /\ UNCHANGED <<cur, got, data>> /\ Unhashed
    BY <1>5 DEF ReadFails, record, Stage
  <2>. QED
    BY <2>1 DEF Unhashed, Hashed, Unread
<1>. QED
  BY <1>1, <1>2, <1>3, <1>4, <1>5

\* What a path has on file it keeps.
LEMMA OnFileKept ==
  ASSUME Types, NEW m \in Node, NEW r \in Filed, Append2(m, r), NEW n \in Node, NEW h, OnFile(n, h)
  PROVE  OnFile(n, h)'
BY AppendShape DEF OnFile

LEMMA SaveShape ==
  ASSUME Types, Save
  PROVE  /\ pc = "save" /\ Append2(cur, Claim(Copied)) /\ Claim(Copied) \in Filed
         /\ Claim(Copied).copied = Copied /\ Claim(Copied).hash = got.hash /\ Claim(Copied).state = "there"
         /\ Claim(Copied).key = got.key
         /\ copies' = (IF Copied THEN [copies EXCEPT ![cur] = data] ELSE copies)
         /\ UNCHANGED <<tree, listed, changes, known, queue, base, cur, use, got, data, item, items, absents,
                        errors, silent, faults, ret>>
         /\ \/ use = "dir" /\ Back /\ UNCHANGED todo
            \/ use # "dir" /\ pc' = "items" /\ todo' = ItemsOf(Asked.parse) /\ UNCHANGED <<at, pending>>
<1>1. /\ pc = "save" /\ Append2(cur, Claim(Copied))
      /\ copies' = (IF Copied THEN [copies EXCEPT ![cur] = data] ELSE copies)
      /\ UNCHANGED <<tree, listed, changes, known, queue, base, cur, use, got, data, item, items, absents,
                     errors, silent, faults, ret>>
  BY DEF Save, Append1, Append2, Claim, host, record, noted
<1>2. got \in Got /\ got.state = "there"
  BY <1>1 DEF Types, RecordTypes
<1>3. Copied \in BOOLEAN
  BY <1>2, CopiedFact
<1>4. /\ Claim(Copied) \in Filed /\ Claim(Copied).copied = Copied /\ Claim(Copied).hash = got.hash
      /\ Claim(Copied).key = got.key /\ Claim(Copied).state = "there"
  BY <1>2, <1>3, ClaimFiled
<1>5. \/ use = "dir" /\ Back /\ UNCHANGED todo
      \/ use # "dir" /\ pc' = "items" /\ todo' = ItemsOf(Asked.parse) /\ UNCHANGED <<at, pending>>
  BY DEF Save
<1>. QED
  BY <1>1, <1>4, <1>5

LEMMA SaveStage ==
  ASSUME Types, Stage, Save
  PROVE  Stage' /\ OnFile(cur, got.hash)'
<1>1. /\ pc = "save" /\ Append2(cur, Claim(Copied)) /\ Claim(Copied) \in Filed
      /\ Claim(Copied).hash = got.hash /\ Claim(Copied).state = "there"
      /\ UNCHANGED <<cur, got, data>>
  BY SaveShape
<1>2. pc' \in {"agenda", "glob", "list", "walk", "items"}
  BY SaveShape, BackElsewhere
<1>3. cur \in Node
  BY DEF Types, RecordTypes
<1>4. OnFile(cur, got.hash)'
  <2>. DEFINE l == Len(files[cur]) + 1
              r == Claim(Copied)
  <2>1. r \in Filed /\ Append2(cur, r)
    BY <1>1
  <2>. HIDE DEF r
  <2>2. Len(files[cur]) \in Nat /\ DOMAIN files'[cur] = 1 .. l /\ files'[cur][l] = r
    BY <1>3, <2>1, AppendShape
  <2>3. l \in DOMAIN files'[cur]
    BY <2>2
  <2>. HIDE DEF l
  <2>. QED
    BY <1>1, <2>2, <2>3 DEF OnFile, r
<1>5. Hashed'
  BY <1>1 DEF Stage, Hashed, Sensitive
<1>. QED
  BY <1>2, <1>4, <1>5 DEF Stage, InItem

LEMMA ItemStage ==
  ASSUME Types, Stage, NextItem \/ WithinItem \/ WriteItem
  PROVE  Stage'
<1>1. ASSUME pc \in Parsing, pc' \in Parsing, UNCHANGED <<cur, got, data, files>>,
             pc' \in InItem => item'.path = cur /\ item'.src = got.hash /\ item'.text = data.ver
      PROVE  Stage'
  <2>1. Hashed' /\ OnFile(cur, got.hash)'
    BY <1>1 DEF Stage, Hashed, OnFile, Sensitive
  <2>. QED
    BY <1>1, <2>1 DEF Stage, Parsing, InItem
<1>2. CASE NextItem
  <2>1. RecordTypes /\ todo \in Seq(ItemKinds)
    BY DEF Types, ParseTypes
  <2>2. pc = "items" /\ UNCHANGED <<cur, got, data, files>> /\ Head(todo) \in ItemKinds
    BY <1>2, <2>1, NextItemShape
  <2>. DEFINE k == Head(todo)
  <2>3. /\ pc' \in InItem
        /\ \E t \in Node \union {NoPath}, s \in Node \union {NoPath} : item' = NewItem(k, t, s)
    <3>. HIDE DEF k
    <3>1. cur \in Node /\ (Names[cur] # <<>> => Names[cur][1] \in Node) /\ (Candidates # <<>> => Candidates[1] \in Node)
      BY <2>1, SeqStep, HostAssumption DEF RecordTypes
    <3>2. /\ pc' \in {"target", "score", "module", "write"}
          /\ \/ item' = NewItem(k, cur, cur)
             \/ Names[cur] # <<>> /\ item' = NewItem(k, Names[cur][1], NoPath)
             \/ Candidates # <<>> /\ item' = NewItem(k, Candidates[1], NoPath)
             \/ item' = NewItem(k, NoPath, NoPath)
      BY <1>2, <2>1, NextItemShape DEF k
    <3>. QED
      BY <3>1, <3>2 DEF InItem
  <2>4. item'.path = cur /\ item'.src = got.hash /\ item'.text = data.ver
    <3>2. k \in ItemKinds
      BY <2>2
    <3>. HIDE DEF k
    <3>1. PICK t \in Node \union {NoPath}, s \in Node \union {NoPath} : item' = NewItem(k, t, s)
      BY <2>3
    <3>3. PICK j : j = item'
      OBVIOUS
    <3>4. j = NewItem(k, t, s)
      BY <3>1, <3>3
    <3>5. j.path = cur /\ j.src = got.hash /\ j.text = data.ver
      BY <3>4 DEF NewItem
    <3>. QED
      BY <3>3, <3>5
  <2>. QED
    BY <1>1, <2>2, <2>3, <2>4 DEF Parsing
<1>3. CASE WithinItem
  <2>1. /\ pc \in InItem /\ pc' \in InItem
        /\ item'.path = item.path /\ item'.src = item.src /\ item'.text = item.text
        /\ UNCHANGED <<cur, got, data, files>>
    BY <1>3, WithinShape
  <2>2. item.path = cur /\ item.src = got.hash /\ item.text = data.ver
    BY <2>1 DEF Stage
  <2>. QED
    BY <1>1, <2>1, <2>2 DEF Parsing
<1>4. CASE WriteItem
  <2>1. pc = "write" /\ pc' = "items" /\ UNCHANGED <<cur, got, data, files>>
    BY <1>4 DEF WriteItem, record
  <2>. QED
    BY <1>1, <2>1 DEF Parsing, InItem
<1>. QED
  BY <1>2, <1>3, <1>4

LEMMA StageStep ==
  ASSUME Types, Stage, Collect
  PROVE  Stage'
<1>1. ASSUME pc' \in Elsewhere PROVE Stage'
  BY <1>1 DEF Stage, Elsewhere, Parsing, InItem
<1>2. ASSUME Recording PROVE Stage'
  <2>1. ASSUME ~Save PROVE Stage'
    <3>1. Look \/ ReadLink \/ StatTarget \/ ReadFile \/ ReadFails
      BY <1>2, <2>1 DEF Recording
    <3>. QED
      BY <3>1, RecordStage DEF Stage, Elsewhere, Parsing, InItem
  <2>. QED
    BY <2>1, SaveStage
<1>. QED
  BY <1>1, <1>2, ItemStage, OutsideElsewhere, CollectGroups


LEMMA CopyStutter ==
  ASSUME CopyInv, UNCHANGED <<pc, cur, got, data, item, files, items, copies, ret>>
  PROVE  CopyInv'
<1>1. Stage'
  BY DEF CopyInv, Stage, Unhashed, Hashed, OnFile, Sensitive
<1>2. (\A n \in Node : Claimed(n) => Claimed(n)') /\ (\A i \in items : OnFile(i.path, i.src) => OnFile(i.path, i.src)')
  BY DEF Claimed, OnFile
<1>. QED
  BY <1>1, <1>2 DEF CopyInv

LEMMA CopyAbsence ==
  ASSUME Types, CopyInv, Stage', NEW n \in Node, Append2(n, Absence), UNCHANGED <<items, copies>>,
         ret' # "err" => ret # "err"
  PROVE  CopyInv'
<1>. DEFINE l == Len(files[n])
<1>0. Absence \in Filed /\ Absence.copied = FALSE
  BY DEF Filed, Absence, Blank
<1>1. /\ \A m \in Node : \A k \in DOMAIN files[m] : k \in DOMAIN files'[m] /\ files'[m][k] = files[m][k]
      /\ \A m \in Node : m # n => files'[m] = files[m]
      /\ DOMAIN files[n] = 1 .. l /\ l \in Nat /\ DOMAIN files'[n] = 1 .. l + 1 /\ files'[n][l + 1] = Absence
  BY <1>0, AppendShape
<1>2. ASSUME NEW m \in Node, Claimed(m) PROVE Claimed(m)'
  <2>1. PICK k \in DOMAIN files[m] : /\ files[m][k].copied /\ files[m][k].hash = copies[m].ver
                                     /\ \A j \in DOMAIN files[m] : j > k => ~files[m][j].copied
    BY <1>2 DEF Claimed
  <2>2. k \in DOMAIN files'[m] /\ files'[m][k].copied /\ files'[m][k].hash = copies'[m].ver
    BY <1>1, <2>1
  <2>3. ASSUME NEW j \in DOMAIN files'[m], j > k PROVE ~files'[m][j].copied
    <3>1. CASE j \in DOMAIN files[m]
      BY <1>1, <2>1, <2>3, <3>1
    <3>2. CASE j \notin DOMAIN files[m]
      <4>. HIDE DEF l
      <4>1. m = n /\ j = l + 1
        BY <1>1, <3>2
      <4>. QED
        BY <1>0, <1>1, <4>1
    <3>. QED
      BY <3>1, <3>2
  <2>. QED
    BY <2>2, <2>3 DEF Claimed
<1>3. \A i \in items : i.path \in Node
  BY DEF Types, OutputTypes, Items
<1>4. \A i \in items : OnFile(i.path, i.src)'
  BY <1>0, <1>3, OnFileKept DEF CopyInv
<1>. QED
  BY <1>2, <1>4 DEF CopyInv

LEMMA CopySave ==
  ASSUME Types, CopyInv, Stage', Save
  PROVE  CopyInv'
<1>. DEFINE l == Len(files[cur])
            r == Claim(Copied)
<1>0. Copied \in BOOLEAN /\ r.copied = Copied
  BY SaveShape, CopiedFact DEF Types, RecordTypes
<1>1. /\ Append2(cur, r) /\ r \in Filed /\ (Copied => r.copied) /\ (~Copied => ~r.copied) /\ r.hash = got.hash
      /\ copies' = (IF Copied THEN [copies EXCEPT ![cur] = data] ELSE copies)
      /\ UNCHANGED <<items, ret>> /\ pc = "save"
  <2>1. (Copied => r.copied) /\ (~Copied => ~r.copied)
    <3>. HIDE DEF r
    <3>. QED
      BY <1>0
  <2>. QED
    BY SaveShape, <2>1
<1>2. cur \in Node /\ copies \in [Node -> Content1]
  BY DEF Types, RecordTypes, OutputTypes
<1>. PICK c \in Node : c = cur
  BY <1>2
<1>. HIDE DEF r
<1>3. /\ \A m \in Node : \A k \in DOMAIN files[m] : k \in DOMAIN files'[m] /\ files'[m][k] = files[m][k]
      /\ \A m \in Node : m # c => files'[m] = files[m]
      /\ DOMAIN files[c] = 1 .. l /\ l \in Nat /\ DOMAIN files'[c] = 1 .. l + 1 /\ files'[c][l + 1] = r
  BY <1>1, <1>2, AppendShape
<1>4. Hashed
  BY <1>1 DEF CopyInv, Stage
<1>5. Copied => got.hash = data.ver /\ got.hash # 0 /\ cur \notin KeyName /\ ~data.key
  BY <1>4 DEF Copied, Hashed, Sensitive
<1>6. /\ Copied => copies'[c] = data
      /\ \A m \in Node : m # c \/ ~Copied => copies'[m] = copies[m]
  BY <1>1, <1>2
<1>7. ASSUME NEW m \in Node, m # c, Claimed(m) PROVE Claimed(m)'
  BY <1>3, <1>6, <1>7 DEF Claimed
<1>8. ASSUME Copied PROVE Claimed(c)'
  <2>1. l + 1 \in DOMAIN files'[c] /\ files'[c][l + 1].copied /\ files'[c][l + 1].hash = data.ver
    BY <1>1, <1>3, <1>5, <1>8
  <2>. HIDE DEF l
  <2>2. \A j \in DOMAIN files'[c] : ~(j > l + 1)
    BY <1>3
  <2>. QED
    BY <1>6, <1>8, <2>1, <2>2 DEF Claimed
<1>9. ASSUME ~Copied, Claimed(c) PROVE Claimed(c)'
  <2>1. PICK k \in DOMAIN files[c] : /\ files[c][k].copied /\ files[c][k].hash = copies[c].ver
                                     /\ \A j \in DOMAIN files[c] : j > k => ~files[c][j].copied
    BY <1>9 DEF Claimed
  <2>2. k \in DOMAIN files'[c] /\ files'[c][k].copied /\ files'[c][k].hash = copies'[c].ver
    BY <1>2, <1>3, <1>6, <1>9, <2>1
  <2>3. ASSUME NEW j \in DOMAIN files'[c], j > k PROVE ~files'[c][j].copied
    <3>1. CASE j \in DOMAIN files[c]
      BY <1>2, <1>3, <2>1, <2>3, <3>1
    <3>2. CASE j \notin DOMAIN files[c]
      <4>. HIDE DEF l
      <4>1. j = l + 1
        BY <1>3, <3>2
      <4>. QED
        BY <1>1, <1>3, <1>9, <4>1
    <3>. QED
      BY <3>1, <3>2
  <2>4. \E k2 \in DOMAIN files'[c] :
          /\ files'[c][k2].copied /\ files'[c][k2].hash = copies'[c].ver
          /\ \A j \in DOMAIN files'[c] : j > k2 => ~files'[c][j].copied
    BY <2>2, <2>3
  <2>. QED
    BY <2>4 DEF Claimed
<1>10. \A i \in items : OnFile(i.path, i.src)'
  <2>1. \A i \in items : i.path \in Node
    BY DEF Types, OutputTypes, Items
  <2>. QED
    BY <1>1, <1>2, <2>1, OnFileKept DEF CopyInv
<1>. QED
  BY <1>1, <1>2, <1>5, <1>6, <1>7, <1>8, <1>9, <1>10 DEF CopyInv


LEMMA CopySaveFails ==
  ASSUME Types, CopyInv, Stage', SaveFails
  PROVE  CopyInv'
<1>1. /\ pc = "save" /\ ret' = "err" /\ UNCHANGED <<files, items, cur, got, data>>
      /\ copies' = copies \/ (Copied /\ copies' = [copies EXCEPT ![cur] = data])
  BY DEF SaveFails, Return, record
<1>2. Hashed
  BY <1>1 DEF CopyInv, Stage
<1>3. Copied => cur \notin KeyName /\ ~data.key
  BY <1>2 DEF Copied, Hashed, Sensitive
<1>4. cur \in Node /\ copies \in [Node -> Content1]
  BY DEF Types, RecordTypes, OutputTypes
<1>5. \A n \in Node : ~copies'[n].key /\ (copies'[n].ver # 0 => n \notin KeyName)
  <2>1. CASE copies' = copies
    BY <2>1 DEF CopyInv
  <2>2. CASE Copied /\ copies' = [copies EXCEPT ![cur] = data]
    <3>1. \A n \in Node : copies'[n] = IF n = cur THEN data ELSE copies[n]
      BY <1>4, <2>2
    <3>. QED
      BY <1>3, <2>2, <3>1 DEF CopyInv
  <2>. QED
    BY <1>1, <2>1, <2>2
<1>6. \A i \in items : OnFile(i.path, i.src)'
  BY <1>1 DEF CopyInv, OnFile
<1>. QED
  BY <1>1, <1>5, <1>6 DEF CopyInv

LEMMA CopyWrite ==
  ASSUME Types, CopyInv, Stage', WriteItem
  PROVE  CopyInv'
<1>1. pc = "write" /\ items' = items \union {item} /\ UNCHANGED <<files, copies, ret>>
  BY DEF WriteItem, noted
<1>2. item.path = cur /\ item.src = got.hash /\ item.text = data.ver /\ OnFile(cur, got.hash) /\ Hashed
  BY <1>1 DEF CopyInv, Stage, Parsing, InItem
<1>3. item.text = item.src /\ OnFile(item.path, item.src)
  BY <1>2 DEF Hashed
<1>4. \A i \in items' : i.text = i.src /\ OnFile(i.path, i.src)
  BY <1>1, <1>3 DEF CopyInv
<1>5. \A i \in items' : OnFile(i.path, i.src)'
  BY <1>1, <1>4 DEF OnFile
<1>6. \A n \in Node : Claimed(n) => Claimed(n)'
  BY <1>1 DEF Claimed
<1>. QED
  BY <1>1, <1>4, <1>5, <1>6 DEF CopyInv

LEMMA CopyStep == Types /\ CopyInv /\ [Next]_vars => CopyInv'
<1>. SUFFICES ASSUME Types, CopyInv, [Next]_vars PROVE CopyInv'
  OBVIOUS
<1>1. CASE Collect
  <2>1. Stage' /\ ret = "none"
    BY <1>1, StageStep, AtEnd DEF CopyInv, Types, RunTypes
  <2>2. ASSUME Save \/ SaveFails \/ WriteItem PROVE CopyInv'
    BY <2>1, <2>2, CopySave, CopySaveFails, CopyWrite
  <2>3. ASSUME UNCHANGED <<files, items, copies>> PROVE CopyInv'
    <3>1. /\ \A n \in Node : Claimed(n) => Claimed(n)'
          /\ \A i \in items : OnFile(i.path, i.src) => OnFile(i.path, i.src)'
      BY <2>3 DEF Claimed, OnFile
    <3>. QED
      BY <2>1, <2>3, <3>1 DEF CopyInv
  <2>4. ASSUME NEW n \in Node, Append2(n, Absence), UNCHANGED <<items, copies>> PROVE CopyInv'
    BY <2>1, <2>4, CopyAbsence
  <2>. QED
    BY <1>1, <2>2, <2>3, <2>4, OutputShape
<1>2. CASE HostStep
  BY <1>2, CopyStutter DEF HostStep, place, record, parsing, output, noted
<1>3. CASE UNCHANGED vars
  BY <1>3, CopyStutter DEF vars, record, parsing, output
<1>. QED
  BY <1>1, <1>2, <1>3 DEF Next

\* The legacy copy of a file is of the content its last claiming record gives the
\* hash of, items carry the hash of the text they were taken from, which some
\* record gives too, and no private key is copied (recordFile, processTextFile).
THEOREM CopiesInvariant == Spec => []CopyMatchesRecord
<1>1. Init => CopyInv
  BY DEF Init, CopyInv, Stage, Parsing, InItem, Unread
<1>2. Spec => [](Types /\ CopyInv)
  BY <1>1, InitTypes, TypesStep, CopyStep, PTL DEF Spec
<1>3. Types /\ CopyInv => CopyMatchesRecord
  <2>. SUFFICES ASSUME Types, CopyInv PROVE CopyMatchesRecord
    OBVIOUS
  <2>1. \A i \in items : i.text = i.src /\ \E r \in Ran(files[i.path]) : r.state = "there" /\ r.hash = i.src
    BY DEF CopyInv, OnFile, Ran
  <2>. QED
    BY <2>1 DEF CopyInv, Claimed, CopyMatchesRecord
<1>. QED
  BY <1>2, <1>3, PTL


----------------------------------------------------------------------------
(* The files that lines name.                                              *)

\* Failures that were noted stay noted.
LEMMA NotedGrow ==
  ASSUME Types, Collect
  PROVE  errors \subseteq errors' /\ silent \subseteq silent'
<1>. DEFINE grow == errors \subseteq errors' /\ silent \subseteq silent'
<1>0. faults \in 0 .. MaxFaults
  BY DEF Types, RunTypes
<1>1. (\A e : Report(e) => grow) /\ (\A e : FailAndReport(e) => grow) /\ (\A e : Fault /\ Hush(e) => grow)
  BY <1>0, ReportFacts, FailFacts, HushFacts
<1>2. UNCHANGED noted => grow
  BY DEF noted
<1>. HIDE DEF grow
<1>3. ASSUME PassCheck \/ Interrupt \/ ReadUsers \/ NotForUs \/ BeginEntry \/ End PROVE grow
  BY <1>1, <1>2, <1>3 DEF PassCheck, Interrupt, ReadUsers, NotForUs, BeginEntry, End
<1>4. ASSUME Match \/ MatchFails \/ MatchesDone PROVE grow
  BY <1>1, <1>2, <1>4 DEF Match, MatchFails, MatchesDone, noted
<1>5. ASSUME LookAtRoot \/ RootFails \/ WriteAbsent \/ BeginWalk \/ BeginFails PROVE grow
  BY <1>1, <1>2, <1>5 DEF LookAtRoot, RootFails, WriteAbsent, BeginWalk, BeginFails, noted
<1>6. ASSUME Meet \/ ListDir \/ ListFails \/ EndWalk PROVE grow
  BY <1>1, <1>2, <1>6 DEF Meet, ListDir, ListFails, EndWalk
<1>7. ASSUME Look \/ LookFails PROVE grow
  BY <1>1, <1>2, <1>7 DEF Look, LookFails, noted
<1>8. ASSUME ReadLink \/ StatTarget \/ ReadFile \/ ReadFails PROVE grow
  BY <1>1, <1>2, <1>8 DEF ReadLink, StatTarget, ReadFile, ReadFails
<1>9. ASSUME Save \/ NextItem \/ ItemsDone \/ ChooseTarget \/ Fallback \/ WriteItem PROVE grow
  BY <1>2, <1>9 DEF Save, NextItem, ItemsDone, ChooseTarget, Fallback, WriteItem
<1>10. ASSUME LookAtTarget \/ ReadTarget \/ LookAtScript \/ ReadScript \/ ResolveModule PROVE grow
  BY <1>1, <1>2, <1>10 DEF LookAtTarget, ReadTarget, LookAtScript, ReadScript, ResolveModule, noted
<1>11. ASSUME SaveFails \/ WriteFails PROVE grow
  BY <1>11 DEF SaveFails, WriteFails, grow, Fault
<1>12. grow
  BY <1>3, <1>4, <1>5, <1>6, <1>7, <1>8, <1>9, <1>10, <1>11 DEF Collect
<1>. QED
  BY <1>12 DEF grow

LEMMA QuietBefore ==
  ASSUME Types, [Next]_vars, NEW n, Quiet(n)'
  PROVE  Quiet(n)
<1>1. CASE Collect
  BY <1>1, NotedGrow DEF Quiet
<1>2. CASE HostStep \/ UNCHANGED vars
  BY <1>2 DEF HostStep, vars, noted, Quiet
<1>. QED
  BY <1>1, <1>2 DEF Next

\* What is of the first version now has always been.
LEMMA FirstVersion ==
  ASSUME Types, [Next]_vars, NEW n \in Node, tree'[n].ver = 1
  PROVE  tree'[n] = tree[n]
<1>1. CASE HostStep
  <2>1. CASE tree' = tree
    BY <2>1
  <2>2. CASE \E m \in Node : TreeStep(m)
    <3>1. PICK m \in Node : TreeStep(m)
      BY <2>2
    <3>2. PICK f : /\ tree' = [tree EXCEPT ![m] = f]
                   /\ f = Nothing \/ (f.kind # "none" /\ f.ver = changes')
      BY <3>1 DEF TreeStep
    <3>3. f.ver # 1
      <4>1. changes' = changes + 1 /\ changes \in Nat /\ changes >= 1
        BY <1>1, HostStepShape DEF Types, HostTypes
      <4>. QED
        BY <3>2, <4>1 DEF Nothing
    <3>4. n # m
      BY <3>2, <3>3 DEF Types, HostTypes
    <3>. QED
      BY <3>2, <3>4 DEF Types, HostTypes
  <2>. QED
    BY <1>1, <2>1, <2>2, HostStepShape DEF Types
<1>2. CASE Collect \/ UNCHANGED vars
  BY <1>2, CollectHost DEF vars, host
<1>. QED
  BY <1>1, <1>2 DEF Next

\* Where only directories are found there never is anything else.
DirOnly == \A n \in Node : OnlyDir(n) => tree[n].kind \in {"none", "dir"}

LEMMA DirOnlyStep ==
  ASSUME Types, DirOnly, [Next]_vars
  PROVE  DirOnly'
<1>1. CASE HostStep
  <2>1. CASE tree' = tree
    BY <2>1 DEF DirOnly, OnlyDir
  <2>2. CASE \E m \in Node : TreeStep(m)
    <3>1. PICK m \in Node : TreeStep(m)
      BY <2>2
    <3>2. PICK f : /\ tree' = [tree EXCEPT ![m] = f]
                   /\ f = Nothing \/ (f.kind # "none" /\ f.ver = changes')
                   /\ \/ tree[m].kind = "none" /\ Parent(m) /\ f.kind \in May[m]
                      \/ tree[m].kind = "file" /\ f.kind = "file" /\ "file" \in May[m]
                      \/ f = Nothing /\ Empty(m)
      BY <3>1 DEF TreeStep
    <3>3. OnlyDir(m) => f.kind \in {"none", "dir"}
      BY <3>2 DEF OnlyDir, Nothing
    <3>4. \A n \in Node : tree'[n] = IF n = m THEN f ELSE tree[n]
      BY <3>2 DEF Types, HostTypes
    <3>. QED
      BY <3>3, <3>4 DEF DirOnly, OnlyDir
  <2>. QED
    BY <1>1, <2>1, <2>2, HostStepShape DEF Types
<1>2. CASE Collect \/ UNCHANGED vars
  BY <1>2, CollectHost DEF vars, host, DirOnly, OnlyDir
<1>. QED
  BY <1>1, <1>2 DEF Next

\* A file nobody touched, with no failure noted on the way to it.
Plain(n) == n \in Node /\ tree[n].kind = "file" /\ tree[n].ver = 1 /\ Quiet(n)

LEMMA PlainBefore ==
  ASSUME Types, [Next]_vars, NEW n, Plain(n)'
  PROVE  Plain(n)
<1>1. n \in Node /\ tree'[n].kind = "file" /\ tree'[n].ver = 1 /\ Quiet(n)'
  BY DEF Plain
<1>2. tree'[n] = tree[n] /\ Quiet(n)
  BY <1>1, FirstVersion, QuietBefore
<1>. QED
  BY <1>1, <1>2 DEF Plain

TargetAgrees(i)  == Plain(i.target) => i.tver = 1
ScriptAgrees(i)  == Plain(i.script) => i.sver = 1
CommandAgrees(i) == i.kind \in WithCommand => \A k \in DOMAIN Names[i.path] :
                      Plain(Names[i.path][k]) /\ (\A j \in 1 .. k - 1 : OnlyDir(Names[i.path][j])) =>
                        i.target = Names[i.path][k]
ModuleAgrees(i)  == i.kind = "pam_record" => \A k \in DOMAIN Candidates :
                      Plain(Candidates[k]) =>
                        i.target # NoPath /\ (k = 1 => i.target = Candidates[1] /\ i.tver = 1)
Agrees(i) == TargetAgrees(i) /\ ScriptAgrees(i) /\ CommandAgrees(i) /\ ModuleAgrees(i)

\* What is known of the item in progress.
Naming ==
  /\ pc \in {"fallback", "script", "readscript", "write"} => TargetAgrees(item)
  /\ pc = "write" => ScriptAgrees(item) /\ ModuleAgrees(item)
  /\ pc \in InItem \ {"score"} => CommandAgrees(item)
  /\ pc \in {"module", "readtarget"} /\ item.kind = "pam_record" =>
       \E k \in DOMAIN Candidates : /\ item.target = Candidates[k]
                                   /\ \A j \in 1 .. k - 1 : ~Plain(Candidates[j])
  /\ pc \in {"score", "target", "readtarget", "fallback", "module"} /\ item.kind \notin Scripts =>
       item.script = NoPath
  /\ pc \in {"score", "target", "fallback", "script", "readscript"} => item.kind # "pam_record"
  /\ pc = "fallback" => item.kind \notin Scripts

NamedInv == DirOnly /\ Naming /\ \A i \in items : Agrees(i)

\* What holds of an item goes on holding.
LEMMA AgreesKept ==
  ASSUME Types, [Next]_vars, NEW i
  PROVE  /\ TargetAgrees(i) => TargetAgrees(i)'
         /\ ScriptAgrees(i) => ScriptAgrees(i)'
         /\ CommandAgrees(i) => CommandAgrees(i)'
         /\ ModuleAgrees(i) => ModuleAgrees(i)'
BY PlainBefore DEF TargetAgrees, ScriptAgrees, CommandAgrees, ModuleAgrees


LEMMA NoPathIsNone == NoPath \notin Node /\ ~Plain(NoPath)
BY PathAssumption DEF Plain

\* The kinds do not overlap.
LEMMA KindsApart ==
  /\ \A k \in Scripts : k \notin WithCommand /\ k # "pam_record" /\ k # "ld_so_path"
  /\ \A k \in WithCommand : k # "pam_record" /\ k # "ld_so_path"
BY DEF Scripts, WithCommand

LEMMA NextItemNaming ==
  ASSUME Types, NextItem
  PROVE  Naming'
<1>1. RecordTypes /\ todo \in Seq(ItemKinds)
  BY DEF Types, ParseTypes
<1>. DEFINE k == Head(todo)
<1>2. /\ k \in ItemKinds /\ cur' = cur
      /\ \/ k \in Scripts /\ item' = NewItem(k, cur, cur) /\ pc' = "target"
         \/ k \in WithCommand /\ Names[cur] # <<>> /\ item' = NewItem(k, NoPath, NoPath) /\ pc' = "score"
         \/ k = "ld_so_path" /\ Names[cur] # <<>> /\ item' = NewItem(k, Names[cur][1], NoPath) /\ pc' = "target"
         \/ k = "pam_record" /\ Candidates # <<>> /\ item' = NewItem(k, Candidates[1], NoPath) /\ pc' = "module"
         \/ /\ k \notin Scripts /\ (k \in WithCommand => Names[cur] = <<>>)
            /\ (k = "pam_record" => Candidates = <<>>)
            /\ item' = NewItem(k, NoPath, NoPath) /\ pc' = "write"
  BY <1>1, NextItemShape
<1>. HIDE DEF k
<1>3. PICK j : j = item'
  OBVIOUS
<1>4. PICK c : c = cur
  OBVIOUS
<1>5. CASE k \in Scripts /\ item' = NewItem(k, cur, cur) /\ pc' = "target"
  <2>1. j.kind = k
    BY <1>3, <1>5 DEF NewItem
  <2>. QED
    BY <1>3, <1>5, <2>1, KindsApart DEF Naming, InItem, CommandAgrees
<1>6. CASE k \in WithCommand /\ item' = NewItem(k, NoPath, NoPath) /\ pc' = "score"
  <2>1. j.kind = k /\ j.script = NoPath
    BY <1>3, <1>6 DEF NewItem
  <2>. QED
    BY <1>3, <1>6, <2>1, KindsApart DEF Naming, InItem
<1>7. CASE k = "ld_so_path" /\ item' = NewItem(k, Names[cur][1], NoPath) /\ pc' = "target"
  <2>1. j.kind = k /\ j.script = NoPath
    BY <1>3, <1>7 DEF NewItem
  <2>. QED
    BY <1>3, <1>7, <2>1, KindsApart DEF Naming, InItem, CommandAgrees
<1>8. CASE k = "pam_record" /\ Candidates # <<>> /\ item' = NewItem(k, Candidates[1], NoPath) /\ pc' = "module"
  <2>1. j.kind = k /\ j.script = NoPath /\ j.target = Candidates[1]
    BY <1>3, <1>8 DEF NewItem
  <2>2. 1 \in DOMAIN Candidates
    BY <1>8, HostAssumption, SeqStep
  <2>3. \E i \in DOMAIN Candidates : j.target = Candidates[i] /\ \A h \in 1 .. i - 1 : ~Plain(Candidates[h])'
    BY <2>1, <2>2
  <2>. QED
    BY <1>3, <1>8, <2>1, <2>3, KindsApart DEF Naming, InItem, CommandAgrees
<1>9. CASE /\ k \notin Scripts /\ (k \in WithCommand => Names[cur] = <<>>)
           /\ (k = "pam_record" => Candidates = <<>>)
           /\ item' = NewItem(k, NoPath, NoPath) /\ pc' = "write"
  <2>1. j.kind = k /\ j.script = NoPath /\ j.target = NoPath /\ j.path = c
    BY <1>3, <1>4, <1>9 DEF NewItem
  <2>2. TargetAgrees(j)' /\ ScriptAgrees(j)'
    BY <2>1, NoPathIsNone DEF TargetAgrees, ScriptAgrees, Plain
  <2>3. CommandAgrees(j)'
    BY <1>4, <1>9, <2>1 DEF CommandAgrees
  <2>4. ModuleAgrees(j)'
    BY <1>9, <2>1 DEF ModuleAgrees
  <2>5. TargetAgrees(item)' /\ ScriptAgrees(item)' /\ CommandAgrees(item)' /\ ModuleAgrees(item)'
    BY <1>3, <2>2, <2>3, <2>4 DEF TargetAgrees, ScriptAgrees, CommandAgrees, ModuleAgrees
  <2>. QED
    BY <1>9, <2>5 DEF Naming
<1>. QED
  BY <1>2, <1>5, <1>6, <1>7, <1>8, <1>9

\* The first of the best names is the first file, when only directories come
\* before it.
LEMMA BestIsFirstFile ==
  ASSUME DirOnly, NEW names \in Seq(Node), NEW k \in DOMAIN names, tree[names[k]].kind = "file",
         \A j \in 1 .. k - 1 : OnlyDir(names[j])
  PROVE  Best(names) = k
<1>. DEFINE n == Len(names)
            b == Best(names)
<1>1. n \in Nat /\ DOMAIN names = 1 .. n /\ names # <<>>
  BY LenProperties, EmptySeq
<1>2. /\ b \in DOMAIN names
      /\ \/ Score(names[b]) > Score(names[k])
         \/ Score(names[b]) = Score(names[k]) /\ b <= k
  BY <1>1, BestFacts
<1>3. Score(names[k]) = 80
  BY DEF Score
<1>4. Score(names[b]) \in {50, 60, 80} /\ (Score(names[b]) = 80 => tree[names[b]].kind = "file")
  BY DEF Score
<1>. HIDE DEF b, n
<1>5. b <= k /\ tree[names[b]].kind = "file"
  BY <1>2, <1>3, <1>4
<1>6. ASSUME b < k PROVE FALSE
  <2>1. b \in 1 .. k - 1 /\ names[b] \in Node
    BY <1>1, <1>2, <1>6
  <2>2. tree[names[b]].kind \in {"none", "dir"}
    BY <2>1 DEF DirOnly
  <2>. QED
    BY <1>5, <2>2
<1>. QED
  BY <1>1, <1>2, <1>5, <1>6 DEF b

LEMMA ChooseNaming ==
  ASSUME Types, Stage, NamedInv, ChooseTarget, [Next]_vars
  PROVE  Naming'
<1>1. /\ pc = "score" /\ pc' = "target" /\ item' = [item EXCEPT !.target = Names[cur][Best(Names[cur])]]
      /\ tree' = tree
  BY DEF ChooseTarget, host
<1>2. /\ item \in Items /\ Names[cur] \in Seq(Node) /\ Names[cur] # <<>> /\ item.kind \in WithCommand
      /\ cur \in Node /\ item.path = cur /\ (item.kind \notin Scripts => item.script = NoPath)
  BY <1>1, HostAssumption DEF Types, ParseTypes, RecordTypes, Stage, InItem, NamedInv, Naming
<1>3. PICK i, j, c, names : i = item /\ j = item' /\ c = cur /\ names = Names[c]
  OBVIOUS
<1>0. i \in Items /\ c \in Node /\ names \in Seq(Node) /\ names # <<>>
  BY <1>2, <1>3
<1>. DEFINE b == Best(names)
            t == names[b]
<1>4. t \in Node
  BY <1>0, BestFacts
<1>5. j = [i EXCEPT !.target = t]
  BY <1>1, <1>3
<1>6. \A k \in DOMAIN names : Plain(names[k])' /\ (\A h \in 1 .. k - 1 : OnlyDir(names[h])) => t = names[k]
  <2>. SUFFICES ASSUME NEW k \in DOMAIN names, Plain(names[k])', \A h \in 1 .. k - 1 : OnlyDir(names[h])
                PROVE  b = k
    OBVIOUS
  <2>1. Plain(names[k])
    BY PlainBefore
  <2>. QED
    BY <1>0, <2>1, BestIsFirstFile DEF Plain, NamedInv
<1>. HIDE DEF t
<1>7. j.target = t /\ j.kind = i.kind /\ j.path = i.path /\ j.script = i.script
  BY <1>0, <1>4, <1>5, SetTarget
<1>8. CommandAgrees(j)'
  BY <1>2, <1>3, <1>6, <1>7 DEF CommandAgrees
<1>9. CommandAgrees(item)'
  BY <1>3, <1>8 DEF CommandAgrees
<1>. QED
  BY <1>1, <1>2, <1>3, <1>7, <1>9, KindsApart DEF Naming, InItem


LEMMA NotedNotPlain ==
  ASSUME NEW w, NEW n \in Node, Hush(<<w, n>>)
  PROVE  ~Plain(n)'
<1>1. <<w, n>> \in silent' /\ n \in Above[n]
  BY AboveFacts DEF Hush
<1>. QED
  BY <1>1 DEF Plain, Quiet

LEMMA AfterTargetFacts ==
  /\ item.kind \in Scripts => AfterTarget = "script"
  /\ item.kind \notin Scripts /\ item.kind \in WithCommand => AfterTarget = "fallback"
  /\ item.kind \notin Scripts /\ item.kind \notin WithCommand => AfterTarget = "write"
BY KindsApart DEF AfterTarget

\* After the target comes the script, or the item is done.
LEMMA TargetDone ==
  ASSUME Types, NamedInv, [Next]_vars, pc \in {"target", "readtarget"}, pc' = AfterTarget,
         NEW j, j = item', j.kind = item.kind, j.path = item.path, j.target = item.target, j.script = item.script,
         TargetAgrees(j)', item.kind = "pam_record" => ModuleAgrees(j)'
  PROVE  Naming'
<1>1. PICK i : i = item
  OBVIOUS
<1>2. CommandAgrees(i)
  BY <1>1 DEF NamedInv, Naming, InItem
<1>3. CommandAgrees(i)'
  BY <1>2, AgreesKept
<1>4. CommandAgrees(j)'
  BY <1>1, <1>3 DEF CommandAgrees
<1>5. CommandAgrees(item)' /\ TargetAgrees(item)'
  BY <1>4 DEF CommandAgrees, TargetAgrees
<1>6. i.kind \notin Scripts => i.script = NoPath
  BY <1>1 DEF NamedInv, Naming
<1>7. CASE item.kind \in Scripts
  BY <1>5, <1>7, AfterTargetFacts, KindsApart DEF Naming, InItem
<1>8. CASE item.kind \notin Scripts /\ item.kind \in WithCommand
  BY <1>1, <1>5, <1>6, <1>8, AfterTargetFacts, KindsApart DEF Naming, InItem
<1>9. CASE item.kind \notin Scripts /\ item.kind \notin WithCommand
  <2>1. pc' = "write" /\ j.script = NoPath
    BY <1>1, <1>6, <1>9, AfterTargetFacts
  <2>2. ScriptAgrees(item)'
    BY <2>1, NoPathIsNone DEF ScriptAgrees, Plain
  <2>3. ModuleAgrees(j)'
    BY <1>1 DEF ModuleAgrees
  <2>4. ModuleAgrees(item)'
    BY <2>3 DEF ModuleAgrees
  <2>. QED
    BY <1>5, <2>1, <2>2, <2>4 DEF Naming, InItem
<1>. QED
  BY <1>7, <1>8, <1>9

LEMMA LookTargetNaming ==
  ASSUME Types, NamedInv, LookAtTarget, [Next]_vars
  PROVE  Naming'
<1>1. /\ pc = "target" /\ UNCHANGED item /\ item \in Items /\ item.target \in Node /\ tree' = tree
      /\ item.kind # "pam_record"
  BY DEF LookAtTarget, parsing, host, Types, ParseTypes, NamedInv, Naming
<1>2. PICK i : i = item /\ i = item'
  BY <1>1
<1>3. CASE pc' = "readtarget"
  <2>1. CommandAgrees(i)
    BY <1>1, <1>2 DEF NamedInv, Naming, InItem
  <2>2. CommandAgrees(i)'
    BY <2>1, AgreesKept
  <2>3. CommandAgrees(item)'
    BY <1>2, <2>2 DEF CommandAgrees
  <2>. QED
    BY <1>1, <1>3, <2>3 DEF NamedInv, Naming, InItem
<1>4. CASE pc' = AfterTarget /\ ~Plain(i.target)'
  BY <1>1, <1>2, <1>4, TargetDone DEF TargetAgrees
<1>5. pc' = "readtarget" \/ (pc' = AfterTarget /\ ~Plain(i.target)')
  <2>1. CASE Fault /\ Hush(<<"target", item.target>>) /\ pc' = AfterTarget
    <3>1. i.target \in Node /\ Hush(<<"target", i.target>>)
      BY <1>1, <1>2, <2>1
    <3>. QED
      BY <2>1, <3>1, NotedNotPlain
  <2>2. CASE pc' = (IF tree[item.target].kind = "file" THEN "readtarget" ELSE AfterTarget)
    <3>1. tree[item.target].kind # "file" => ~Plain(i.target)'
      BY <1>1, <1>2 DEF Plain
    <3>. QED
      BY <2>2, <3>1
  <2>. QED
    BY <2>1, <2>2 DEF LookAtTarget
<1>. QED
  BY <1>3, <1>4, <1>5

\* What is read of a plain file is the first version.
LEMMA PlainContent ==
  ASSUME NEW n, Plain(n)
  PROVE  Content(n) = 1
BY DEF Plain, Content, Follow

LEMMA ReadTargetNaming ==
  ASSUME Types, NamedInv, ReadTarget, [Next]_vars
  PROVE  Naming'
<1>1. /\ pc = "readtarget" /\ pc' = AfterTarget /\ item \in Items /\ item.target \in Node
      /\ \/ item' = [item EXCEPT !.tver = Content(item.target)]
         \/ Hush(<<"target", item.target>>) /\ item' = item
  BY DEF ReadTarget, Types, ParseTypes
<1>2. PICK i, j, v : i = item /\ j = item' /\ v = Content(i.target)
  OBVIOUS
<1>3. i \in Items /\ i.target \in Node
  BY <1>1, <1>2
<1>4. Content(i.target) \in Version
  BY <1>3, FollowTypes, Bounds DEF Content, Entity, Version, Types
<1>5. /\ j.kind = i.kind /\ j.path = i.path /\ j.target = i.target /\ j.script = i.script
      /\ TargetAgrees(j)'
  <2>1. CASE item' = [item EXCEPT !.tver = Content(item.target)]
    <3>1. j = [i EXCEPT !.tver = v] /\ v \in Version
      BY <1>2, <1>4, <2>1
    <3>2. j.kind = i.kind /\ j.path = i.path /\ j.target = i.target /\ j.script = i.script /\ j.tver = v
      BY <1>3, <3>1, SetTver
    <3>3. Plain(i.target)' => v = 1
      BY <1>2, PlainBefore, PlainContent
    <3>. QED
      BY <3>2, <3>3 DEF TargetAgrees
  <2>2. CASE Hush(<<"target", item.target>>) /\ item' = item
    <3>1. Hush(<<"target", i.target>>) /\ j = i
      BY <1>2, <2>2
    <3>2. ~Plain(i.target)'
      BY <1>3, <3>1, NotedNotPlain
    <3>. QED
      BY <3>1, <3>2 DEF TargetAgrees
  <2>. QED
    BY <1>1, <2>1, <2>2
<1>6. ASSUME i.kind = "pam_record" PROVE ModuleAgrees(j)'
  <2>1. PICK k \in DOMAIN Candidates : i.target = Candidates[k] /\ \A h \in 1 .. k - 1 : ~Plain(Candidates[h])
    BY <1>1, <1>2, <1>6 DEF NamedInv, Naming
  <2>2. DOMAIN Candidates = 1 .. Len(Candidates) /\ Len(Candidates) \in Nat
    BY HostAssumption, LenProperties
  <2>3. ASSUME NEW h \in DOMAIN Candidates, Plain(Candidates[h])'
        PROVE  j.target # NoPath /\ (h = 1 => j.target = Candidates[1] /\ j.tver = 1)
    <3>1. Plain(Candidates[h])
      BY <2>3, PlainBefore
    <3>2. h = 1 => k = 1
      BY <2>1, <2>2, <3>1
    <3>. QED
      BY <1>3, <1>5, <2>1, <2>3, <3>2, NoPathIsNone DEF TargetAgrees
  <2>. QED
    BY <2>3 DEF ModuleAgrees
<1>. QED
  BY <1>1, <1>2, <1>5, <1>6, TargetDone


LEMMA FallbackNaming ==
  ASSUME Types, NamedInv, Fallback, [Next]_vars
  PROVE  Naming'
<1>1. /\ pc = "fallback" /\ item \in Items /\ item.target \in Node
      /\ \/ pc' = "write" /\ item' = item
         \/ pc' = "script" /\ item' = [item EXCEPT !.script = item.target]
      /\ TargetAgrees(item) /\ CommandAgrees(item) /\ item.script = NoPath /\ item.kind # "pam_record"
      /\ item.kind \notin Scripts
  BY DEF Fallback, Types, ParseTypes, NamedInv, Naming, InItem
<1>2. PICK i, j, t : i = item /\ j = item' /\ t = item.target
  OBVIOUS
<1>3. /\ TargetAgrees(i)' /\ CommandAgrees(i)'
  BY <1>1, <1>2, AgreesKept
<1>4. j.kind = i.kind /\ j.path = i.path /\ j.target = i.target /\ j.tver = i.tver
  <2>1. i \in Items /\ t \in Node \union {NoPath} /\ (j = i \/ j = [i EXCEPT !.script = t])
    BY <1>1, <1>2
  <2>. QED
    BY <2>1, SetScript
<1>5. TargetAgrees(item)' /\ CommandAgrees(item)'
  BY <1>2, <1>3, <1>4 DEF TargetAgrees, CommandAgrees
<1>6. CASE pc' = "script"
  BY <1>1, <1>2, <1>4, <1>5, <1>6 DEF Naming, InItem
<1>7. CASE pc' = "write" /\ item' = item
  <2>1. ScriptAgrees(item)' /\ ModuleAgrees(item)'
    BY <1>1, <1>7, NoPathIsNone DEF ScriptAgrees, ModuleAgrees, Plain
  <2>. QED
    BY <1>5, <1>7, <2>1 DEF Naming, InItem
<1>. QED
  BY <1>1, <1>6, <1>7

LEMMA LookScriptNaming ==
  ASSUME Types, NamedInv, LookAtScript, [Next]_vars
  PROVE  Naming'
<1>1. /\ pc = "script" /\ UNCHANGED item /\ item \in Items /\ item.script \in Node /\ tree' = tree
      /\ TargetAgrees(item) /\ CommandAgrees(item) /\ item.kind # "pam_record"
  BY DEF LookAtScript, parsing, host, Types, ParseTypes, NamedInv, Naming, InItem
<1>2. PICK i : i = item /\ i = item'
  BY <1>1
<1>3. TargetAgrees(i)' /\ CommandAgrees(i)'
  BY <1>1, <1>2, AgreesKept
<1>4. TargetAgrees(item)' /\ CommandAgrees(item)'
  BY <1>2, <1>3 DEF TargetAgrees, CommandAgrees
<1>5. pc' = "readscript" \/ (pc' = "write" /\ ~Plain(i.script)')
  <2>1. CASE Fault /\ Hush(<<"script", item.script>>) /\ pc' = "write"
    <3>1. i.script \in Node /\ Hush(<<"script", i.script>>)
      BY <1>1, <1>2, <2>1
    <3>. QED
      BY <2>1, <3>1, NotedNotPlain
  <2>2. CASE pc' = (IF tree[item.script].kind = "file" THEN "readscript" ELSE "write")
    <3>1. tree[item.script].kind # "file" => ~Plain(i.script)'
      BY <1>1, <1>2 DEF Plain
    <3>. QED
      BY <2>2, <3>1
  <2>. QED
    BY <2>1, <2>2 DEF LookAtScript
<1>6. CASE pc' = "readscript"
  BY <1>1, <1>4, <1>6 DEF Naming, InItem
<1>7. CASE pc' = "write" /\ ~Plain(i.script)'
  <2>1. ScriptAgrees(item)' /\ ModuleAgrees(item)'
    BY <1>1, <1>2, <1>7 DEF ScriptAgrees, ModuleAgrees
  <2>. QED
    BY <1>4, <1>7, <2>1 DEF Naming, InItem
<1>. QED
  BY <1>5, <1>6, <1>7

LEMMA ReadScriptNaming ==
  ASSUME Types, NamedInv, ReadScript, [Next]_vars
  PROVE  Naming'
<1>1. /\ pc = "readscript" /\ pc' = "write" /\ item \in Items /\ item.script \in Node
      /\ TargetAgrees(item) /\ CommandAgrees(item) /\ item.kind # "pam_record"
      /\ \/ item' = [item EXCEPT !.sver = Content(item.script)]
         \/ Hush(<<"script", item.script>>) /\ item' = item
  BY DEF ReadScript, Types, ParseTypes, NamedInv, Naming, InItem
<1>2. PICK i, j, v : i = item /\ j = item' /\ v = Content(i.script)
  OBVIOUS
<1>3. i \in Items /\ i.script \in Node /\ TargetAgrees(i)' /\ CommandAgrees(i)'
  BY <1>1, <1>2, AgreesKept
<1>4. Content(i.script) \in Version
  BY <1>3, FollowTypes, Bounds DEF Content, Entity, Version, Types
<1>5. j.kind = i.kind /\ j.path = i.path /\ j.target = i.target /\ j.tver = i.tver /\ ScriptAgrees(j)'
  <2>1. CASE item' = [item EXCEPT !.sver = Content(item.script)]
    <3>1. j = [i EXCEPT !.sver = v] /\ v \in Version
      BY <1>2, <1>4, <2>1
    <3>2. /\ j.kind = i.kind /\ j.path = i.path /\ j.target = i.target /\ j.tver = i.tver
          /\ j.script = i.script /\ j.sver = v
      BY <1>3, <3>1, SetSver
    <3>3. Plain(i.script)' => v = 1
      BY <1>2, PlainBefore, PlainContent
    <3>. QED
      BY <3>2, <3>3 DEF ScriptAgrees
  <2>2. CASE Hush(<<"script", item.script>>) /\ item' = item
    <3>1. Hush(<<"script", i.script>>) /\ j = i
      BY <1>2, <2>2
    <3>2. ~Plain(i.script)'
      BY <1>3, <3>1, NotedNotPlain
    <3>. QED
      BY <3>1, <3>2 DEF ScriptAgrees
  <2>. QED
    BY <1>1, <2>1, <2>2
<1>6. TargetAgrees(j)' /\ CommandAgrees(j)' /\ ModuleAgrees(j)'
  BY <1>1, <1>2, <1>3, <1>5 DEF TargetAgrees, CommandAgrees, ModuleAgrees
<1>7. TargetAgrees(item)' /\ CommandAgrees(item)' /\ ModuleAgrees(item)' /\ ScriptAgrees(item)'
  BY <1>2, <1>5, <1>6 DEF TargetAgrees, CommandAgrees, ModuleAgrees, ScriptAgrees
<1>. QED
  BY <1>1, <1>7 DEF Naming, InItem

LEMMA ModuleNaming ==
  ASSUME Types, NamedInv, ResolveModule, [Next]_vars
  PROVE  Naming'
<1>1. /\ pc = "module" /\ item \in Items /\ item.target \in Node /\ item.kind = "pam_record"
      /\ item.script = NoPath /\ tree' = tree
      /\ \E k \in DOMAIN Candidates : /\ item.target = Candidates[k]
                                     /\ \A h \in 1 .. k - 1 : ~Plain(Candidates[h])
  BY KindsApart DEF ResolveModule, host, Types, ParseTypes, NamedInv, Naming
<1>2. PICK i, j, k : /\ i = item /\ j = item' /\ k \in DOMAIN Candidates /\ i.target = Candidates[k]
                     /\ \A h \in 1 .. k - 1 : ~Plain(Candidates[h])
  BY <1>1
<1>3. /\ DOMAIN Candidates = 1 .. Len(Candidates) /\ Len(Candidates) \in Nat
      /\ \A h \in DOMAIN Candidates : Candidates[h] \in Node
  BY HostAssumption, LenProperties
<1>4. \A h \in 1 .. k - 1 : ~Plain(Candidates[h])'
  BY <1>2, PlainBefore
<1>5. ASSUME j.kind = "pam_record", pc' \in {"module", "readtarget"},
             NEW h \in DOMAIN Candidates, j.target = Candidates[h], \A g \in 1 .. h - 1 : ~Plain(Candidates[g])',
             j.script = NoPath
      PROVE  Naming'
  BY <1>2, <1>5, KindsApart DEF Naming, InItem, CommandAgrees
<1>6. ASSUME j.kind = "pam_record", pc' = "write", TargetAgrees(j)', ModuleAgrees(j)', j.script = NoPath
      PROVE  Naming'
  <2>1. ScriptAgrees(j)' /\ CommandAgrees(j)'
    BY <1>6, NoPathIsNone, KindsApart DEF ScriptAgrees, CommandAgrees, Plain
  <2>2. TargetAgrees(item)' /\ ScriptAgrees(item)' /\ CommandAgrees(item)' /\ ModuleAgrees(item)'
    BY <1>2, <1>6, <2>1 DEF TargetAgrees, ScriptAgrees, CommandAgrees, ModuleAgrees
  <2>. QED
    BY <1>6, <2>2 DEF Naming
<1>7. ASSUME NextCandidate, ~Plain(i.target)'
      PROVE  Naming'
  <2>1. \/ k < Len(Candidates) /\ j = [i EXCEPT !.target = Candidates[k + 1]] /\ pc' = "module"
        \/ k = Len(Candidates) /\ j = [i EXCEPT !.target = NoPath] /\ pc' = "write"
    BY <1>1, <1>2, <1>7, NextCandidateFacts
  <2>2. i \in Items
    BY <1>1, <1>2
  <2>3. \A h \in 1 .. k : ~Plain(Candidates[h])'
    BY <1>2, <1>3, <1>4, <1>7
  <2>4. CASE k < Len(Candidates) /\ j = [i EXCEPT !.target = Candidates[k + 1]] /\ pc' = "module"
    <3>. DEFINE t == Candidates[k + 1]
    <3>1. k + 1 \in DOMAIN Candidates /\ t \in Node /\ \A g \in 1 .. (k + 1) - 1 : ~Plain(Candidates[g])'
      BY <1>2, <1>3, <2>3, <2>4
    <3>. HIDE DEF t
    <3>2. j.target = t /\ j.kind = i.kind /\ j.script = i.script
      BY <2>2, <2>4, <3>1, SetTarget DEF t
    <3>. QED
      BY <1>1, <1>2, <1>5, <2>4, <3>1, <3>2 DEF t
  <2>5. CASE k = Len(Candidates) /\ j = [i EXCEPT !.target = NoPath] /\ pc' = "write"
    <3>1. j.target = NoPath /\ j.kind = i.kind /\ j.script = i.script
      BY <2>2, <2>5, SetTarget
    <3>2. TargetAgrees(j)'
      BY <3>1, NoPathIsNone DEF TargetAgrees, Plain
    <3>3. ModuleAgrees(j)'
      BY <1>3, <2>3, <2>5 DEF ModuleAgrees
    <3>. QED
      BY <1>1, <1>2, <1>6, <2>5, <3>1, <3>2, <3>3
  <2>. QED
    BY <2>1, <2>4, <2>5
<1>8. CASE tree[item.target].kind = "none" /\ NextCandidate
  <2>1. ~Plain(i.target)'
    BY <1>1, <1>2, <1>8 DEF Plain
  <2>. QED
    BY <1>7, <1>8, <2>1
<1>9. CASE Hush(<<"module", item.target>>) /\ NextCandidate
  <2>1. i.target \in Node /\ Hush(<<"module", i.target>>)
    BY <1>1, <1>2, <1>9
  <2>. QED
    BY <1>7, <1>9, <2>1, NotedNotPlain
<1>10. CASE pc' = (IF Follow(item.target).kind = "file" THEN "readtarget" ELSE "write") /\ item' = item
  <2>1. CASE pc' = "readtarget"
    BY <1>1, <1>2, <1>4, <1>5, <1>10, <2>1
  <2>2. CASE pc' = "write" /\ Follow(item.target).kind # "file"
    <3>1. ~Plain(j.target)
      BY <1>2, <1>10, <2>2 DEF Plain, Follow
    <3>2. ~Plain(j.target)' /\ j = i
      BY <1>2, <1>10, <3>1, PlainBefore
    <3>3. ASSUME NEW h \in DOMAIN Candidates, Plain(Candidates[h])' PROVE h # 1 /\ j.target # NoPath
      <4>1. h # k
        BY <1>2, <3>2, <3>3
      <4>2. h = 1 => FALSE
        BY <1>2, <1>3, <1>4, <3>3, <4>1
      <4>. QED
        BY <1>1, <1>2, <3>2, <4>2, NoPathIsNone
    <3>4. TargetAgrees(j)' /\ ModuleAgrees(j)'
      BY <3>2, <3>3 DEF TargetAgrees, ModuleAgrees
    <3>. QED
      BY <1>1, <1>2, <1>6, <2>2, <3>2, <3>4
  <2>. QED
    BY <1>10, <2>1, <2>2
<1>. QED
  BY <1>8, <1>9, <1>10 DEF ResolveModule


LEMMA NamedStep ==
  ASSUME Types, Stage, NamedInv, [Next]_vars
  PROVE  NamedInv'
<1>1. DirOnly'
  BY DirOnlyStep DEF NamedInv
<1>2. PICK i, is : i = item /\ is = items
  OBVIOUS
<1>3. \A x \in is : Agrees(x)'
  BY <1>2, AgreesKept DEF NamedInv, Agrees
<1>4. ASSUME UNCHANGED <<pc, item>> PROVE Naming'
  <2>1. pc \in {"module", "readtarget"} /\ i.kind = "pam_record" =>
          \E k \in DOMAIN Candidates : /\ i.target = Candidates[k]
                                      /\ \A j \in 1 .. k - 1 : ~Plain(Candidates[j])'
    BY <1>2, PlainBefore DEF NamedInv, Naming
  <2>2. /\ TargetAgrees(i) => TargetAgrees(i)'
        /\ ScriptAgrees(i) => ScriptAgrees(i)'
        /\ CommandAgrees(i) => CommandAgrees(i)'
        /\ ModuleAgrees(i) => ModuleAgrees(i)'
    BY AgreesKept
  <2>3. i = item'
    BY <1>2, <1>4
  <2>4. /\ TargetAgrees(item) => TargetAgrees(item)'
        /\ ScriptAgrees(item) => ScriptAgrees(item)'
        /\ CommandAgrees(item) => CommandAgrees(item)'
        /\ ModuleAgrees(item) => ModuleAgrees(item)'
    BY <1>2, <2>2, <2>3 DEF TargetAgrees, ScriptAgrees, CommandAgrees, ModuleAgrees
  <2>. QED
    BY <1>4, <1>2, <2>1, <2>4 DEF NamedInv, Naming
<1>5. ASSUME pc' \notin InItem PROVE Naming'
  BY <1>5 DEF Naming, InItem
<1>6. ASSUME Collect PROVE Naming'
  <2>1. ASSUME Outside \/ Recording \/ WriteItem PROVE Naming'
    <3>1. pc' \notin InItem
      <4>1. ASSUME Outside PROVE pc' \notin InItem
        BY <4>1, OutsideElsewhere DEF Elsewhere, InItem
      <4>2. ASSUME Save PROVE pc' \notin InItem
        BY <4>2, SaveShape, BackElsewhere DEF InItem
      <4>3. ASSUME Look \/ ReadLink \/ StatTarget \/ ReadFile \/ ReadFails PROVE pc' \notin InItem
        BY <4>3, RecordStage DEF Elsewhere, InItem
      <4>4. ASSUME WriteItem PROVE pc' \notin InItem
        BY <4>4 DEF WriteItem, InItem
      <4>. QED
        BY <2>1, <4>1, <4>2, <4>3, <4>4 DEF Recording
    <3>. QED
      BY <3>1, <1>5
  <2>2. ASSUME WithinItem PROVE Naming'
    BY <2>2, ChooseNaming, LookTargetNaming, ReadTargetNaming, FallbackNaming, LookScriptNaming, ReadScriptNaming,
       ModuleNaming DEF WithinItem
  <2>. QED
    BY <1>6, <2>1, <2>2, NextItemNaming, CollectGroups
<1>7. Naming'
  BY <1>4, <1>6 DEF Next, HostStep, parsing, vars
<1>8. \A x \in items' : Agrees(x)'
  <2>1. CASE items' = items
    BY <1>2, <1>3, <2>1
  <2>2. CASE WriteItem
    <3>1. pc = "write" /\ items' = items \union {item}
      BY <2>2 DEF WriteItem
    <3>2. Agrees(i)
      BY <1>2, <3>1 DEF NamedInv, Naming, Agrees, InItem
    <3>3. Agrees(i)'
      BY <3>2, AgreesKept DEF Agrees
    <3>. QED
      BY <1>2, <1>3, <3>1, <3>3
  <2>3. CASE Save \/ SaveFails
    BY <1>2, <1>3, <2>3, SaveShape DEF SaveFails
  <2>4. items' = items \/ WriteItem \/ Save \/ SaveFails
    BY OutputShape DEF Next, HostStep, vars, output
  <2>. QED
    BY <2>1, <2>2, <2>3, <2>4
<1>. QED
  BY <1>1, <1>7, <1>8 DEF NamedInv

LEMMA InitNamed == Init => NamedInv
<1>. SUFFICES ASSUME Init PROVE NamedInv
  OBVIOUS
<1>1. DirOnly
  BY DEF Init, DirOnly, OnlyDir
<1>. QED
  BY <1>1 DEF Init, NamedInv, Naming, InItem

\* What an item says of a file nobody touched is that file's content, in its target
\* and in its script alike; the target of a command is its first file where only
\* directories come before it; and a PAM module is found where one is
\* (enrichTargetFileMetadata, enrichScriptFileMetadata, cronCommandTargets,
\* resolvePAMModule).
THEOREM NamedFilesInvariant == Spec => []NamedFilesAgree
<1>1. Init => CopyInv
  BY DEF Init, CopyInv, Stage, Parsing, InItem, Unread
<1>2. CopyInv => Stage
  BY DEF CopyInv
<1>3. Spec => [](Types /\ CopyInv /\ NamedInv)
  BY <1>1, <1>2, InitTypes, InitNamed, TypesStep, CopyStep, NamedStep, PTL DEF Spec
<1>4. NamedInv => NamedFilesAgree
  BY DEF NamedInv, Agrees, TargetAgrees, ScriptAgrees, CommandAgrees, ModuleAgrees, Plain, NamedFilesAgree
<1>. QED
  BY <1>3, <1>4, PTL


----------------------------------------------------------------------------
(* A file nobody touches is reported.                                      *)

\* What is there is in a directory that is there, and is not older than it.
Rooted ==
  \A n \in Node :
    /\ tree[n].kind = "none" => tree[n].ver = 0
    /\ tree[n].kind # "none" => tree[n].ver >= 1
    /\ tree[n].ver <= changes
    /\ tree[n].kind # "none" /\ Up[n] # "/" => tree[Up[n]].kind = "dir" /\ tree[Up[n]].ver <= tree[n].ver

\* What has not changed since the collector looked is what it was.
BaseDir == (pc = "begin" \/ pending # {}) /\ tree[base].ver = 1 => tree[base].kind = "dir"
Listed  == \A x \in pending : tree[x.node].ver = 1 => (x.dir <=> tree[x.node].kind = "dir")
Fresh   == pc \in {"save"} \union Parsing /\ Steady(cur) /\ data.ver # 0 =>
             data.ver = 1 /\ (data.key <=> Follow(cur).key)

\* A reading of /etc/passwd that is over gave every user who has always been
\* there, unless it failed.
UsersKnown ==
  \A j \in Positions : j < at /\ Whole[j].kind = "users" =>
    \/ \A u \in User : listed[u] = 1 => u \in known[Whole[j].reading]
    \/ \E e \in silent : e[2] = "/etc/passwd"

Ended == ret = "ok" => at = Len(Whole) + 1

\* What the collector owes a file: its record and its copy, and its items.
FileReported(n) ==
  LET key == n \in KeyName \/ Follow(n).key IN
  /\ \E k \in DOMAIN files[n] : /\ files[n][k].hash = 1 /\ (files[n][k].key <=> key)
                               /\ (files[n][k].copied <=> ~key)
  /\ key \/ copies[n].ver = 1
ItemReported(n) == \E i \in items : i.path = n /\ i.src = 1
Parsed(e, n) == e.parse # "none" /\ n \notin Long
Reported(n, e) == FileReported(n) /\ (Parsed(e, n) => ItemReported(n))

\* How far its record is.
Working(n) ==
  /\ cur = n /\ use # "dir"
  /\ \/ pc \in {"look", "readlink", "stat", "read"}
     \/ pc = "save" /\ data.ver = 1
     \/ /\ pc \in Parsing /\ data.ver = 1 /\ FileReported(n)
        /\ Parsed(Asked, n) => ItemReported(n) \/ pc \in InItem \/ todo # <<>>

\* How the entry in progress comes to it.
InGlob(n) == Asked.kind = "glob" /\ queue \intersect Above[n] # {} /\ pc \notin {"agenda", "done"}
AtRoot(n) == pc \in {"root", "begin"} /\ base \in Above[n]
InWalk(n) == \E x \in pending : x.node \in Above[n] /\ (pc = "walk" \/ x # Met \/ x.dir)
Coming(n) == pc = "agenda" \/ InGlob(n) \/ AtRoot(n) \/ InWalk(n) \/ Working(n)

Progress(n) ==
  ret # "err" /\ Steady(n) /\ Quiet(n) => \A k \in Positions : Covers(Whole[k], n) =>
    /\ k < at => Reported(n, Whole[k])
    /\ k = at => Reported(n, Whole[k]) \/ Coming(n)

StableInv == /\ Rooted /\ BaseDir /\ Listed /\ Fresh /\ UsersKnown /\ Ended
             /\ \A n \in Node : Progress(n)


LEMMA FollowIn ==
  ASSUME NEW n \in Node, Steady(n)
  PROVE  \E m \in Node : Follow(n) = tree[m] /\ tree[m].ver = 1 /\ tree[n].ver = 1
                         /\ m = (IF tree[n].kind # "link" THEN n ELSE LinkTo[n])
                         /\ (tree[n].kind = "link" => n \in DOMAIN LinkTo)
<1>1. Follow(n).kind = "file" /\ Follow(n).ver = 1 /\ tree[n].ver = 1
  BY DEF Steady
<1>2. CASE tree[n].kind # "link"
  BY <1>1, <1>2 DEF Follow
<1>3. CASE tree[n].kind = "link"
  <2>1. n \in DOMAIN LinkTo
    BY <1>1, <1>3 DEF Follow, Nothing
  <2>2. LinkTo[n] \in Node /\ Follow(n) = tree[LinkTo[n]]
    BY <1>3, <2>1, HostAssumption DEF Follow
  <2>. QED
    BY <1>1, <1>3, <2>1, <2>2
<1>. QED
  BY <1>2, <1>3

LEMMA SteadyBefore ==
  ASSUME Types, [Next]_vars, NEW n \in Node, Steady(n)'
  PROVE  Steady(n) /\ tree'[n] = tree[n] /\ Follow(n)' = Follow(n) /\ tree[n].kind \in {"file", "link"}
<1>1. tree'[n].ver = 1 /\ Follow(n)'.kind = "file" /\ Follow(n)'.ver = 1
  BY DEF Steady
<1>2. tree'[n] = tree[n]
  BY <1>1, FirstVersion
<1>3. CASE tree[n].kind # "link"
  <2>1. Follow(n) = tree[n] /\ Follow(n)' = tree'[n]
    BY <1>2, <1>3 DEF Follow
  <2>. QED
    BY <1>1, <1>2, <2>1 DEF Steady
<1>4. CASE tree[n].kind = "link"
  <2>1. n \in DOMAIN LinkTo
    BY <1>1, <1>2, <1>4 DEF Follow, Nothing
  <2>2. LinkTo[n] \in Node /\ Follow(n)' = tree'[LinkTo[n]] /\ Follow(n) = tree[LinkTo[n]]
    BY <1>2, <1>4, <2>1, HostAssumption DEF Follow
  <2>3. tree'[LinkTo[n]] = tree[LinkTo[n]]
    BY <1>1, <2>2, FirstVersion
  <2>. QED
    BY <1>1, <1>2, <1>4, <2>2, <2>3 DEF Steady
<1>. QED
  BY <1>3, <1>4

LEMMA RootedStep ==
  ASSUME Types, Rooted, [Next]_vars
  PROVE  Rooted'
<1>. DEFINE Fine(n) == /\ tree[n].kind = "none" => tree[n].ver = 0
                       /\ tree[n].kind # "none" => tree[n].ver >= 1
                       /\ tree[n].ver <= changes
                       /\ tree[n].kind # "none" /\ Up[n] # "/" =>
                            tree[Up[n]].kind = "dir" /\ tree[Up[n]].ver <= tree[n].ver
<1>1. CASE UNCHANGED <<tree, changes>>
  BY <1>1 DEF Rooted
<1>2. CASE HostStep /\ tree' = tree
  <2>1. changes' = changes + 1 /\ changes \in Nat
    BY <1>2, HostStepShape DEF Types, HostTypes
  <2>2. \A n \in Node : tree[n].ver \in Nat
    BY Bounds DEF Types, HostTypes, Entity, Version
  <2>. QED
    BY <1>2, <2>1, <2>2 DEF Rooted
<1>3. CASE HostStep /\ \E m \in Node : TreeStep(m)
  <2>1. PICK m \in Node : TreeStep(m)
    BY <1>3
  <2>2. PICK f : /\ tree' = [tree EXCEPT ![m] = f]
                 /\ f = Nothing \/ (f.kind # "none" /\ f.ver = changes')
                 /\ \/ tree[m].kind = "none" /\ Parent(m) /\ f.kind \in May[m]
                    \/ tree[m].kind = "file" /\ f.kind = "file" /\ "file" \in May[m]
                    \/ f = Nothing /\ Empty(m)
    BY <2>1 DEF TreeStep
  <2>3. changes' = changes + 1 /\ changes \in Nat /\ changes >= 1
    BY <1>3, HostStepShape DEF Types, HostTypes
  <2>4. \A n \in Node : tree[n].ver \in Nat /\ tree'[n] = IF n = m THEN f ELSE tree[n]
    BY <2>2, Bounds DEF Types, HostTypes, Entity, Version
  <2>5. \A n \in Node : Up[n] # "/" => Up[n] \in Node /\ Up[n] # n
    BY PositionFacts
  <2>6. Fine(m)'
    <3>1. tree'[m] = f
      BY <2>4
    <3>2. CASE f = Nothing
      BY <2>3, <3>1, <3>2 DEF Nothing
    <3>3. CASE f.kind # "none" /\ f.ver = changes'
      <4>1. Up[m] # "/" => tree[Up[m]].kind = "dir"
        BY <2>2, <3>3 DEF Rooted, Parent, Nothing
      <4>2. Up[m] # "/" => tree'[Up[m]] = tree[Up[m]] /\ tree[Up[m]].ver <= changes /\ tree[Up[m]].ver \in Nat
        BY <2>4, <2>5 DEF Rooted
      <4>. QED
        BY <2>3, <3>1, <3>3, <4>1, <4>2
    <3>. QED
      BY <2>2, <3>2, <3>3
  <2>7. ASSUME NEW n \in Node, n # m PROVE Fine(n)'
    <3>1. tree'[n] = tree[n] /\ Fine(n)
      BY <2>4, <2>7 DEF Rooted
    <3>2. tree[n].kind # "none" /\ Up[n] # "/" => Up[n] # m
      <4>. SUFFICES ASSUME tree[n].kind # "none", Up[n] = m PROVE Up[n] = "/"
        OBVIOUS
      <4>1. Up[n] # "/" => tree[m].kind = "dir"
        BY <3>1
      <4>2. ~Empty(m)
        BY DEF Empty
      <4>. QED
        BY <2>2, <4>1, <4>2
    <3>3. tree[n].kind # "none" /\ Up[n] # "/" => tree'[Up[n]] = tree[Up[n]]
      BY <2>4, <2>5, <3>2
    <3>. QED
      BY <2>3, <2>4, <3>1, <3>3
  <2>. QED
    BY <2>6, <2>7 DEF Rooted
<1>. QED
  BY <1>1, <1>2, <1>3, HostStepShape, CollectHost DEF Next, vars, host, Types

\* All that is above what has always been there has always been there.
LEMMA AboveSteady ==
  ASSUME Types, Rooted, NEW n \in Node, tree[n].ver = 1
  PROVE  \A a \in Above[n] : tree[a].ver = 1 /\ tree[a].kind # "none" /\ (a # n => tree[a].kind = "dir")
<1>. DEFINE Old(a) == tree[a].ver = 1 /\ tree[a].kind # "none"
            Fine(m) == Old(m) => \A a \in Above[m] : Old(a)
            Bad == {m \in Node : ~Fine(m)}
<1>1. Bad = {}
  <2>1. SUFFICES ASSUME Bad # {} PROVE FALSE
    OBVIOUS
  <2>2. PICK m \in Bad : \A x \in Bad : Position[m] <= Position[x]
    <3>1. Bad \subseteq Node
      OBVIOUS
    <3>. HIDE DEF Bad
    <3>. QED
      BY <2>1, <3>1, FirstPath
  <2>3. m \in Node /\ Old(m) /\ Above[m] = {m} \union (IF Up[m] = "/" THEN {} ELSE Above[Up[m]])
    BY AboveEquation
  <2>4. CASE Up[m] = "/"
    BY <2>2, <2>3, <2>4
  <2>5. CASE Up[m] # "/"
    <3>1. Up[m] \in Node /\ Position[Up[m]] < Position[m] /\ Position[m] \in Nat /\ Position[Up[m]] \in Nat
      BY <2>3, <2>5, PositionFacts
    <3>2. Up[m] \notin Bad
      <4>. HIDE DEF Bad
      <4>. QED
        BY <3>1, <2>2
    <3>3. Old(Up[m])
      <4>1. tree[Up[m]].kind = "dir" /\ tree[Up[m]].ver <= 1 /\ tree[Up[m]].ver >= 1
        BY <2>3, <2>5, <3>1 DEF Rooted
      <4>2. tree[Up[m]].ver \in Nat
        BY <3>1, Bounds DEF Types, HostTypes, Entity, Version
      <4>. QED
        BY <4>1, <4>2
    <3>. QED
      BY <2>2, <2>3, <2>5, <3>1, <3>2, <3>3
  <2>. QED
    BY <2>4, <2>5
<1>2. Old(n)
  BY DEF Rooted
<1>3. \A a \in Above[n] : Old(a)
  BY <1>1, <1>2
<1>4. ASSUME NEW a \in Above[n], a # n PROVE tree[a].kind = "dir"
  <2>1. PICK m \in Above[n] : Up[m] = a
    BY <1>4, AboveFacts
  <2>2. m \in Node /\ a \in Node /\ a # "/"
    BY <2>1, AboveFacts, PathAssumption
  <2>. QED
    BY <1>3, <2>1, <2>2 DEF Rooted
<1>. QED
  BY <1>3, <1>4


LEMMA UsersBefore ==
  ASSUME Types, [Next]_vars, NEW u \in User, listed'[u] = 1
  PROVE  listed[u] = 1
<1>1. CASE HostStep
  <2>1. changes' = changes + 1 /\ changes \in Nat /\ changes >= 1 /\ listed \in [User -> Version]
    BY <1>1, HostStepShape DEF Types, HostTypes
  <2>2. CASE listed' = listed
    BY <2>2
  <2>3. CASE \E v \in User : listed' = [listed EXCEPT ![v] = IF @ = 0 THEN changes' ELSE 0]
    <3>1. PICK v \in User : listed' = [listed EXCEPT ![v] = IF @ = 0 THEN changes' ELSE 0]
      BY <2>3
    <3>2. PICK w : w = (IF listed[v] = 0 THEN changes' ELSE 0)
      OBVIOUS
    <3>3. w # 1
      BY <2>1, <3>2
    <3>4. listed'[u] = IF u = v THEN w ELSE listed[u]
      BY <2>1, <3>1, <3>2
    <3>. QED
      BY <3>3, <3>4
  <2>. QED
    BY <1>1, <2>2, <2>3, HostStepShape DEF Types
<1>2. CASE Collect \/ UNCHANGED vars
  BY <1>2, CollectHost DEF vars, host
<1>. QED
  BY <1>1, <1>2 DEF Next

LEMMA CoversBefore ==
  ASSUME Types, [Next]_vars, NEW e, NEW n, Covers(e, n)'
  PROVE  Covers(e, n)
BY UsersBefore DEF Covers

\* The collector goes on to the next entry, or stays.
LEMMA AtShape ==
  ASSUME Types, Collect
  PROVE  at' = at \/ (at \in Positions /\ NextEntry)
<1>1. ASSUME Leave \/ NextEntry, pc # "agenda", pc # "done" PROVE at' = at \/ (at \in Positions /\ NextEntry)
  BY <1>1 DEF Leave, Types, PlaceTypes
<1>2. ASSUME Back, pc # "agenda", pc # "done" PROVE at' = at \/ (at \in Positions /\ NextEntry)
  BY <1>1, <1>2 DEF Back
<1>3. CASE PassCheck \/ ReadUsers \/ NotForUs
  <2>1. ~Finished /\ NextEntry
    BY <1>3 DEF PassCheck, ReadUsers, NotForUs, Reads
  <2>. QED
    BY <2>1, NextEntryAt DEF Types
<1>4. CASE MatchesDone \/ WriteAbsent \/ BeginWalk \/ BeginFails \/ EndWalk
  <2>1. pc # "agenda" /\ pc # "done" /\ (NextEntry \/ Leave \/ at' = at)
    BY <1>4 DEF MatchesDone, WriteAbsent, BeginWalk, BeginFails, EndWalk
  <2>. QED
    BY <1>1, <2>1
<1>5. CASE Look \/ LookFails \/ Save \/ ItemsDone
  <2>1. pc # "agenda" /\ pc # "done" /\ (Back \/ at' = at)
    BY <1>5 DEF Look, LookFails, RecordAbsent, Save, ItemsDone
  <2>. QED
    BY <1>2, <2>1
<1>6. CASE Interrupt \/ BeginEntry \/ Match \/ MatchFails \/ End \/ LookAtRoot \/ RootFails \/ Meet
           \/ ListDir \/ ListFails \/ ReadLink \/ StatTarget \/ ReadFile \/ ReadFails \/ SaveFails
           \/ WriteFails \/ NextItem \/ WriteItem
  BY <1>6 DEF Interrupt, BeginEntry, Match, MatchFails, End, LookAtRoot, RootFails, Meet, ListDir, ListFails,
     ReadLink, StatTarget, ReadFile, ReadFails, SaveFails, WriteFails, NextItem, WriteItem, place
<1>7. CASE WithinItem
  BY <1>7, WithinShape
<1>. QED
  BY <1>3, <1>4, <1>5, <1>6, <1>7 DEF Collect, WithinItem

LEMMA NextPosition ==
  ASSUME NEW k \in Positions
  PROVE  /\ k \in Nat /\ Following[k] \in Nat /\ Following[k] > k
         /\ \A i \in Positions : i \in Nat /\ (i < Following[k] => i <= k)
<1>. DEFINE l == Len(Whole)
            f == Following[k]
<1>1. l \in Nat /\ Positions \subseteq 1 .. l
  BY AgendaFacts
<1>2. k \in 0 .. l
  BY <1>1
<1>3. f \in Positions \union {l + 1} /\ f > k /\ \A i \in Positions : i > k => f <= i
  BY <1>2, FollowingFacts
<1>. HIDE DEF l, f
<1>4. Positions \subseteq Nat /\ f \in Nat
  BY <1>1, <1>3
<1>5. ASSUME NEW i \in Positions, i < f PROVE i <= k
  <2>1. ~(i > k)
    BY <1>3, <1>4, <1>5
  <2>. QED
    BY <1>4, <2>1
<1>. QED
  BY <1>3, <1>4, <1>5 DEF f

\* An entry that is begun is one that reads something.
Begun == pc \notin {"agenda", "done"} => Asked.kind \notin {"check", "users"}

LEMMA BegunStep ==
  ASSUME Types, Begun, [Next]_vars
  PROVE  Begun'
<1>1. CASE Collect
  <2>1. CASE NextEntry
    BY <2>1 DEF NextEntry, Begun
  <2>2. CASE at' = at
    <3>1. Asked' = Asked
      BY <2>2 DEF Asked
    <3>2. CASE pc = "agenda"
      <4>1. PassCheck \/ Interrupt \/ ReadUsers \/ NotForUs \/ BeginEntry \/ End
        BY <1>1, <3>2 DEF Collect, Match, MatchFails, MatchesDone, LookAtRoot, RootFails, WriteAbsent, BeginWalk,
           BeginFails, Meet, ListDir, ListFails, EndWalk, Look, LookFails, ReadLink, StatTarget, ReadFile, ReadFails,
           Save, SaveFails, NextItem, ItemsDone, ChooseTarget, LookAtTarget, ReadTarget, Fallback, LookAtScript,
           ReadScript, ResolveModule, WriteItem, WriteFails
      <4>2. pc' \in {"agenda", "done"} \/ Reads
        BY <4>1 DEF PassCheck, Interrupt, ReadUsers, NotForUs, BeginEntry, End, NextEntry, Return
      <4>. QED
        BY <3>1, <4>2 DEF Reads, Begun
    <3>3. CASE pc # "agenda"
      BY <1>1, <3>1, <3>3, AtEnd DEF Begun
    <3>. QED
      BY <3>2, <3>3
  <2>. QED
    BY <1>1, <2>1, <2>2, AtShape
<1>2. CASE HostStep \/ UNCHANGED vars
  BY <1>2 DEF HostStep, vars, place, Asked, Begun
<1>. QED
  BY <1>1, <1>2 DEF Next

LEMMA UsersKnownStep ==
  ASSUME Types, Begun, UsersKnown, [Next]_vars
  PROVE  UsersKnown'
<1>. SUFFICES ASSUME NEW j \in Positions, j < at', Whole[j].kind = "users"
              PROVE  \/ \A u \in User : listed'[u] = 1 => u \in known'[Whole[j].reading]
                     \/ \E e \in silent' : e[2] = "/etc/passwd"
  BY DEF UsersKnown
<1>1. silent \subseteq silent'
  BY NotedGrow DEF Next, HostStep, vars, noted
<1>2. Whole[j].reading \in {1, 2} /\ Whole[j].path = "/etc/passwd"
  BY AgendaFacts DEF EntryOK
<1>3. known \in [{1, 2} -> SUBSET User]
  BY DEF Types, PlaceTypes
<1>4. CASE ReadUsers
  <2>1. at \in Positions /\ at' = Following[at] /\ Asked.kind = "users"
    BY <1>4, NextEntryAt DEF ReadUsers, Types, NextEntry
  <2>2. Asked.reading \in {1, 2} /\ Asked.path = "/etc/passwd"
    BY <2>1, AgendaFacts DEF EntryOK, Asked
  <2>3. CASE known' = [known EXCEPT ![Asked.reading] = {u \in User : listed[u] # 0}]
    <3>1. CASE Whole[j].reading = Asked.reading
      <4>1. known'[Whole[j].reading] = {u \in User : listed[u] # 0}
        BY <1>2, <1>3, <2>3, <3>1
      <4>2. \A u \in User : listed'[u] = 1 => listed[u] = 1
        BY UsersBefore
      <4>. QED
        BY <4>1, <4>2
    <3>2. CASE Whole[j].reading # Asked.reading
      <4>1. known'[Whole[j].reading] = known[Whole[j].reading]
        BY <1>2, <1>3, <2>2, <2>3, <3>2
      <4>2. j < at
        <5>1. j # at
          BY <3>2 DEF Asked
        <5>2. j <= at
          BY <2>1, NextPosition
        <5>3. j \in Nat /\ at \in Nat
          BY <2>1, AgendaFacts
        <5>. QED
          BY <5>1, <5>2, <5>3
      <4>. QED
        BY <1>1, <4>1, <4>2, UsersBefore DEF UsersKnown
    <3>. QED
      BY <3>1, <3>2
  <2>4. CASE Hush(<<"passwd", Asked.path>>)
    <3>1. <<"passwd", "/etc/passwd">> \in silent'
      BY <2>2, <2>4 DEF Hush
    <3>. QED
      BY <3>1
  <2>. QED
    BY <1>4, <2>3, <2>4 DEF ReadUsers
<1>5. CASE Collect /\ ~ReadUsers
  <2>1. known' = known
    <3>1. CASE Outside
      BY <1>5, <3>1 DEF Outside, PassCheck, Interrupt, NotForUs, BeginEntry, Match, MatchFails, MatchesDone, End,
         LookAtRoot, RootFails, WriteAbsent, BeginWalk, BeginFails, Meet, ListDir, ListFails, EndWalk, LookFails,
         SaveFails, ItemsDone, WriteFails, place
    <3>2. CASE Recording \/ NextItem \/ WriteItem
      BY <3>2 DEF Recording, Look, ReadLink, StatTarget, ReadFile, ReadFails, Save, NextItem, WriteItem, place
    <3>. QED
      BY <1>5, <3>1, <3>2, WithinShape, CollectGroups
  <2>2. CASE j < at
    BY <1>1, <2>1, <2>2, UsersBefore DEF UsersKnown
  <2>3. CASE ~(j < at)
    <3>1. at \in Positions /\ at' = Following[at] /\ at' # at
      BY <1>5, <2>3, AtShape DEF NextEntry
    <3>2. j = at
      <4>1. j <= at /\ j \in Nat /\ at \in Nat
        BY <3>1, NextPosition
      <4>. QED
        BY <2>3, <4>1
    <3>3. Asked.kind = "users" /\ pc = "agenda"
      <4>1. Asked.kind = "users" /\ pc # "done"
        BY <1>5, <3>2, AtEnd DEF Asked
      <4>. QED
        BY <4>1 DEF Begun
    <3>4. PassCheck \/ Interrupt \/ ReadUsers \/ NotForUs \/ BeginEntry \/ End
      BY <1>5, <3>3 DEF Collect, Match, MatchFails, MatchesDone, LookAtRoot, RootFails, WriteAbsent, BeginWalk,
         BeginFails, Meet, ListDir, ListFails, EndWalk, Look, LookFails, ReadLink, StatTarget, ReadFile, ReadFails,
         Save, SaveFails, NextItem, ItemsDone, ChooseTarget, LookAtTarget, ReadTarget, Fallback, LookAtScript,
         ReadScript, ResolveModule, WriteItem, WriteFails
    <3>5. Interrupt \/ End
      BY <1>5, <3>3, <3>4 DEF PassCheck, NotForUs, BeginEntry, Reads
    <3>6. at' = at
      BY <3>5 DEF Interrupt, End, place
    <3>. QED
      BY <3>1, <3>6
  <2>. QED
    BY <2>2, <2>3
<1>6. CASE HostStep \/ UNCHANGED vars
  <2>1. known' = known /\ at' = at
    BY <1>6 DEF HostStep, vars, place
  <2>. QED
    BY <1>1, <2>1, UsersBefore DEF UsersKnown
<1>. QED
  BY <1>4, <1>5, <1>6 DEF Next


\* What a walk has before it grows where a directory is begun or listed only.
LEMMA PendingShape ==
  ASSUME Types, Collect
  PROVE  /\ \/ pending' \subseteq pending
            \/ BeginWalk
            \/ ListDir
         /\ base' = base \/ (pending = {} /\ pending' = {})
         /\ pc' = "begin" => LookAtRoot
<1>1. ASSUME Back \/ pending' = pending PROVE pending' \subseteq pending
  BY <1>1 DEF Back, Rest
<1>2. CASE Outside
  <2>1. CASE BeginEntry \/ Match
    <3>1. pending = {} /\ pending' = pending
      BY <2>1 DEF BeginEntry, Match, Types, PlaceTypes
    <3>2. pc' # "begin"
      BY <2>1 DEF BeginEntry, Match
    <3>. QED
      BY <3>1, <3>2
  <2>2. CASE BeginWalk \/ ListDir
    <3>1. base' = base
      BY <2>2 DEF BeginWalk, ListDir
    <3>2. pc' # "begin"
      BY <2>2, BackElsewhere DEF BeginWalk, ListDir
    <3>. QED
      BY <2>2, <3>1, <3>2
  <2>3. CASE Meet \/ ListFails
    BY <2>3 DEF Meet, ListFails, Rest
  <2>4. CASE LookFails \/ ItemsDone
    <3>1. Back /\ base' = base
      BY <2>4 DEF LookFails, RecordAbsent, ItemsDone
    <3>. QED
      BY <1>1, <3>1, BackElsewhere
  <2>5. CASE PassCheck \/ Interrupt \/ ReadUsers \/ NotForUs \/ MatchFails \/ MatchesDone \/ End \/ RootFails
             \/ WriteAbsent \/ BeginFails \/ EndWalk \/ SaveFails \/ WriteFails
    <3>1. pending' = pending /\ base' = base
      BY <2>5 DEF PassCheck, Interrupt, ReadUsers, NotForUs, MatchFails, MatchesDone, End, RootFails,
         WriteAbsent, BeginFails, EndWalk, SaveFails, WriteFails, place
    <3>2. pc' # "begin"
      BY <2>5, BackElsewhere DEF PassCheck, Interrupt, ReadUsers, NotForUs, MatchFails, MatchesDone, End,
         RootFails, WriteAbsent, BeginFails, EndWalk, SaveFails, WriteFails, Return
    <3>. QED
      BY <3>1, <3>2
  <2>6. CASE LookAtRoot
    BY <2>6 DEF LookAtRoot, place
  <2>. QED
    BY <1>2, <2>1, <2>2, <2>3, <2>4, <2>5, <2>6 DEF Outside
<1>3. CASE Recording
  <2>1. base' = base /\ (Back \/ pending' = pending)
    BY <1>3 DEF Recording, Look, RecordAbsent, ReadLink, StatTarget, ReadFile, ReadFails, Save, place
  <2>2. pc' # "begin"
    <3>1. CASE Look
      <4>1. Back \/ pc' = (CASE tree[cur].kind = "link" -> "readlink" [] tree[cur].kind = "file" -> "read"
                            [] OTHER -> "save")
        BY <3>1 DEF Look, RecordAbsent
      <4>. QED
        BY <4>1, BackElsewhere
    <3>2. CASE ~Look
      BY <1>3, <3>2, BackElsewhere DEF Recording, ReadLink, StatTarget, ReadFile, ReadFails, Save
    <3>. QED
      BY <3>1, <3>2
  <2>. QED
    BY <1>1, <2>1, <2>2
<1>4. CASE NextItem \/ WriteItem
  <2>1. pending' = pending /\ base' = base
    BY <1>4 DEF NextItem, WriteItem, place
  <2>2. pc' # "begin"
    <3>1. RecordTypes /\ todo \in Seq(ItemKinds)
      BY DEF Types, ParseTypes
    <3>. QED
      BY <1>4, <3>1, NextItemShape DEF WriteItem
  <2>. QED
    BY <2>1, <2>2
<1>5. CASE WithinItem
  BY <1>5, WithinShape DEF InItem
<1>. QED
  BY <1>2, <1>3, <1>4, <1>5, CollectGroups

LEMMA BaseDirStep ==
  ASSUME Types, BaseDir, [Next]_vars
  PROVE  BaseDir'
<1>. SUFFICES ASSUME pc' = "begin" \/ pending' # {}, tree'[base'].ver = 1
              PROVE  tree'[base'].kind = "dir"
  BY DEF BaseDir
<1>1. CASE Collect
  <2>1. tree' = tree
    BY <1>1, CollectHost
  <2>2. CASE LookAtRoot
    <3>1. base' = base /\ pending' = pending /\ pending = {} /\ pc' = "begin"
      BY <2>2 DEF LookAtRoot, place, Types, PlaceTypes
    <3>2. tree[base].kind = "dir"
      BY <2>2, <3>1 DEF LookAtRoot
    <3>. QED
      BY <2>1, <3>1, <3>2
  <2>3. CASE ~LookAtRoot
    <3>1. pending' # {} /\ base' = base
      BY <1>1, <2>3, PendingShape
    <3>2. pending # {} \/ pc = "begin"
      <4>1. BeginWalk => pc = "begin"
        BY DEF BeginWalk
      <4>2. ListDir => pending # {}
        BY DEF ListDir, Types, PlaceTypes
      <4>. QED
        BY <1>1, <3>1, <4>1, <4>2, PendingShape
    <3>. QED
      BY <2>1, <3>1, <3>2 DEF BaseDir
  <2>. QED
    BY <2>2, <2>3
<1>2. CASE HostStep \/ UNCHANGED vars
  <2>1. UNCHANGED <<pc, pending, base>>
    BY <1>2 DEF HostStep, vars, place
  <2>2. PICK b : b = base
    OBVIOUS
  <2>3. b \in Node /\ tree'[b].ver = 1
    BY <2>1, <2>2 DEF Types, PlaceTypes
  <2>4. tree'[b] = tree[b]
    BY <2>3, FirstVersion
  <2>. QED
    BY <2>1, <2>2, <2>4 DEF BaseDir
<1>. QED
  BY <1>1, <1>2 DEF Next

LEMMA ListedStep ==
  ASSUME Types, Listed, [Next]_vars
  PROVE  Listed'
<1>. SUFFICES ASSUME NEW x \in pending', tree'[x.node].ver = 1
              PROVE  x.dir <=> tree'[x.node].kind = "dir"
  BY DEF Listed
<1>1. ASSUME x \in pending PROVE x.dir <=> tree'[x.node].kind = "dir"
  <2>1. x.node \in Node
    BY <1>1 DEF Types, PlaceTypes, Listing
  <2>2. tree'[x.node] = tree[x.node]
    BY <2>1, FirstVersion
  <2>. QED
    BY <1>1, <2>2 DEF Listed
<1>2. CASE Collect
  <2>1. tree' = tree
    BY <1>2, CollectHost
  <2>2. CASE BeginWalk
    <3>1. pending' = pending \/ pending' = {[node |-> base, dir |-> tree[base].kind = "dir"]}
      BY <2>2 DEF BeginWalk
    <3>2. CASE x \notin pending
      <4>1. x = [node |-> base, dir |-> tree[base].kind = "dir"]
        BY <3>1, <3>2
      <4>. QED
        BY <2>1, <4>1
    <3>. QED
      BY <1>1, <3>2
  <2>3. CASE ListDir
    <3>1. CASE tree[Met.node].kind = "dir"
      <4>1. pending' = Rest \union {[node |-> m, dir |-> tree[m].kind = "dir"] :
                                    m \in {y \in Node : Up[y] = Met.node /\ tree[y].kind # "none"}}
        BY <2>3, <3>1 DEF ListDir
      <4>2. CASE x \notin pending
        <5>1. PICK m \in Node : x = [node |-> m, dir |-> tree[m].kind = "dir"]
          BY <4>1, <4>2 DEF Rest
        <5>. QED
          BY <2>1, <5>1
      <4>. QED
        BY <1>1, <4>2
    <3>2. CASE tree[Met.node].kind # "dir"
      <4>1. pending' = Rest
        BY <2>3, <3>2 DEF ListDir
      <4>. QED
        BY <1>1, <4>1 DEF Rest
    <3>. QED
      BY <3>1, <3>2
  <2>4. CASE pending' \subseteq pending
    BY <1>1, <2>4
  <2>. QED
    BY <1>2, <2>2, <2>3, <2>4, PendingShape
<1>3. CASE HostStep \/ UNCHANGED vars
  BY <1>1, <1>3 DEF HostStep, vars, place
<1>. QED
  BY <1>2, <1>3 DEF Next

LEMMA EndedStep ==
  ASSUME Types, Ended, [Next]_vars
  PROVE  Ended'
<1>1. CASE Collect
  <2>1. ret = "none"
    BY <1>1, AtEnd DEF Types, RunTypes
  <2>2. CASE End
    <3>1. at' = at /\ at > Len(Whole) /\ at \in Positions \union {Len(Whole) + 1}
      BY <2>2 DEF End, Finished, place, Types, PlaceTypes
    <3>. DEFINE l == Len(Whole)
    <3>2. l \in Nat /\ Positions \subseteq 1 .. l
      BY AgendaFacts
    <3>3. at \in Positions \union {l + 1} /\ at > l
      BY <3>1
    <3>4. at' = l + 1
      <4>. HIDE DEF l
      <4>. QED
        BY <3>1, <3>2, <3>3
    <3>. QED
      BY <3>4 DEF Ended
  <2>3. CASE ~End
    <3>1. ret' = ret \/ ret' = "err"
      BY <1>1, <2>3 DEF Collect, PassCheck, Interrupt, ReadUsers, NotForUs, BeginEntry, Match, MatchFails,
         MatchesDone, LookAtRoot, RootFails, WriteAbsent, BeginWalk, BeginFails, Meet, ListDir, ListFails, EndWalk,
         Look, LookFails, ReadLink, StatTarget, ReadFile, ReadFails, Save, SaveFails, NextItem, ItemsDone,
         ChooseTarget, LookAtTarget, ReadTarget, Fallback, LookAtScript, ReadScript, ResolveModule, WriteItem,
         WriteFails, Return
    <3>. QED
      BY <2>1, <3>1 DEF Ended
  <2>. QED
    BY <2>2, <2>3
<1>2. CASE HostStep \/ UNCHANGED vars
  BY <1>2 DEF HostStep, vars, place, Ended
<1>. QED
  BY <1>1, <1>2 DEF Next

LEMMA FreshStep ==
  ASSUME Types, Stage, Fresh, [Next]_vars
  PROVE  Fresh'
<1>. SUFFICES ASSUME pc' \in {"save"} \union Parsing, Steady(cur)', data'.ver # 0
              PROVE  data'.ver = 1 /\ (data'.key <=> Follow(cur)'.key)
  BY DEF Fresh
<1>1. PICK c : c = cur' /\ Steady(c)'
  BY DEF Steady, Follow
<1>2. c \in Node
  BY <1>1, TypesStep DEF Types, RecordTypes
<1>3. Steady(c) /\ Follow(c)' = Follow(c) /\ Follow(cur)' = Follow(c)'
  BY <1>1, <1>2, SteadyBefore DEF Follow
<1>4. ASSUME pc \in {"save"} \union Parsing, cur' = cur, data' = data
      PROVE  data'.ver = 1 /\ (data'.key <=> Follow(cur)'.key)
  BY <1>1, <1>3, <1>4 DEF Fresh
<1>5. CASE Collect
  <2>1. ~Outside
    BY OutsideElsewhere DEF Elsewhere, Parsing, InItem
  <2>2. CASE Look
    <3>1. CASE tree[cur].kind = "none"
      BY <2>2, <3>1, BackElsewhere DEF Look, RecordAbsent, Parsing, InItem
    <3>2. CASE tree[cur].kind # "none"
      BY <2>2, <3>2 DEF Look, Unread
    <3>. QED
      BY <3>1, <3>2
  <2>3. CASE ReadLink
    BY <2>3 DEF ReadLink, Parsing, InItem
  <2>4. CASE StatTarget \/ ReadFails
    <3>1. data' = data /\ Unhashed
      BY <2>4 DEF StatTarget, ReadFails, record, Stage
    <3>. QED
      BY <3>1 DEF Unhashed, Unread
  <2>5. CASE ReadFile
    <3>1. pc = "read" /\ cur' = cur /\ Unhashed
      BY <2>5 DEF ReadFile, Stage
    <3>2. CASE Follow(cur).kind = "file"
      <4>1. data' = [ver |-> Follow(cur).ver, key |-> Follow(cur).key]
        BY <2>5, <3>2 DEF ReadFile
      <4>2. Follow(c).ver = 1 /\ c = cur
        BY <1>1, <1>3, <3>1 DEF Steady
      <4>. QED
        BY <1>3, <4>1, <4>2
    <3>3. CASE Follow(cur).kind # "file"
      BY <2>5, <3>1, <3>3 DEF ReadFile, Unhashed, Unread
    <3>. QED
      BY <3>2, <3>3
  <2>6. CASE Save
    BY <1>4, <2>6, SaveShape
  <2>7. CASE NextItem \/ WriteItem
    BY <1>4, <2>7 DEF NextItem, WriteItem, record, Parsing, InItem
  <2>8. CASE WithinItem
    BY <1>4, <2>8, WithinShape DEF Parsing
  <2>. QED
    BY <1>5, <2>1, <2>2, <2>3, <2>4, <2>5, <2>6, <2>7, <2>8, CollectGroups DEF Recording
<1>6. CASE HostStep \/ UNCHANGED vars
  BY <1>4, <1>6 DEF HostStep, vars, record
<1>. QED
  BY <1>5, <1>6 DEF Next

\* What was written of a file stays, and is not spoiled by its being scanned again.
LEMMA FilesGrow ==
  ASSUME Types, [Next]_vars, ret' # "err", NEW n \in Node
  PROVE  /\ \A k \in DOMAIN files[n] : k \in DOMAIN files'[n] /\ files'[n][k] = files[n][k]
         /\ items \subseteq items'
         /\ copies' = copies \/ (Save /\ Copied /\ copies' = [copies EXCEPT ![cur] = data])
<1>1. CASE Collect
  <2>1. CASE Save
    <3>1. /\ Append2(cur, Claim(Copied)) /\ Claim(Copied) \in Filed /\ items' = items
          /\ copies' = (IF Copied THEN [copies EXCEPT ![cur] = data] ELSE copies)
      BY <2>1, SaveShape
    <3>2. PICK c, r : c = cur /\ r = Claim(Copied) /\ Append2(c, r) /\ r \in Filed
      BY <3>1
    <3>3. c \in Node
      BY <3>2 DEF Types, RecordTypes
    <3>4. \A k \in DOMAIN files[n] : k \in DOMAIN files'[n] /\ files'[n][k] = files[n][k]
      BY <3>2, <3>3, AppendShape
    <3>. QED
      BY <2>1, <3>1, <3>4
  <2>2. CASE SaveFails
    <3>1. ret' = "err"
      BY <2>2 DEF SaveFails, Return
    <3>. QED
      BY <3>1
  <2>3. CASE WriteItem
    BY <2>3 DEF WriteItem
  <2>4. CASE UNCHANGED <<files, items, copies>>
    BY <2>4
  <2>5. CASE UNCHANGED <<items, copies>> /\ \E m \in Node : Append2(m, Absence)
    <3>1. PICK m \in Node : Append2(m, Absence)
      BY <2>5
    <3>2. Absence \in Filed
      BY DEF Filed
    <3>. QED
      BY <2>5, <3>1, <3>2, AppendShape
  <2>. QED
    BY <1>1, <2>1, <2>2, <2>3, <2>4, <2>5, OutputShape
<1>2. CASE HostStep \/ UNCHANGED vars
  BY <1>2 DEF HostStep, vars, output
<1>. QED
  BY <1>1, <1>2 DEF Next

LEMMA FileKept ==
  ASSUME Types, Stage, Fresh, [Next]_vars, ret' # "err", NEW n \in Node, Steady(n)', FileReported(n)
  PROVE  FileReported(n)'
<1>1. Steady(n) /\ Follow(n)' = Follow(n)
  BY SteadyBefore
<1>2. \A k \in DOMAIN files[n] : k \in DOMAIN files'[n] /\ files'[n][k] = files[n][k]
  BY FilesGrow
<1>3. copies[n].ver = 1 => copies'[n].ver = 1
  <2>1. CASE copies' = copies
    BY <2>1
  <2>2. CASE Save /\ Copied /\ copies' = [copies EXCEPT ![cur] = data]
    <3>1. CASE cur = n
      <4>1. pc = "save" /\ got.hash # 0
        BY <2>2, SaveShape DEF Copied
      <4>2. data.ver # 0
        BY <4>1 DEF Stage, Hashed
      <4>3. data.ver = 1
        BY <1>1, <3>1, <4>1, <4>2 DEF Fresh
      <4>4. copies'[n] = data
        BY <2>2, <3>1 DEF Types, OutputTypes
      <4>. QED
        BY <4>3, <4>4
    <3>2. CASE cur # n
      BY <2>2, <3>2 DEF Types, OutputTypes
    <3>. QED
      BY <3>1, <3>2
  <2>. QED
    BY <2>1, <2>2, FilesGrow
<1>. QED
  BY <1>1, <1>2, <1>3 DEF FileReported

LEMMA ReportedKept ==
  ASSUME Types, Stage, Fresh, [Next]_vars, ret' # "err", NEW n \in Node, Steady(n)', NEW e, Reported(n, e)
  PROVE  Reported(n, e)'
<1>1. FileReported(n)'
  BY FileKept DEF Reported
<1>2. ItemReported(n) => ItemReported(n)'
  BY FilesGrow DEF ItemReported
<1>. QED
  BY <1>1, <1>2 DEF Reported, Parsed

\* What holds of a file the entry in progress is to report, and what a step then
\* does: either the entry goes on and the file is still coming, or it is reported.
Due(n, e) ==
  /\ Types /\ Stage /\ Begun /\ Rooted /\ BaseDir /\ Listed /\ Fresh /\ UsersKnown
  /\ at \in Positions /\ e = Asked /\ Covers(e, n) /\ Steady(n)
Onward(n, e) == \/ at' = at /\ (Reported(n, e)' \/ Coming(n)')
                \/ NextEntry /\ Reported(n, e)'

\* What has always been there above the file, and what the file itself is.
LEMMA DueFacts ==
  ASSUME NEW n \in Node, NEW e, Due(n, e)
  PROVE  /\ \A a \in Above[n] : /\ a \in Node /\ tree[a].ver = 1 /\ tree[a].kind # "none"
                               /\ (a # n => tree[a].kind = "dir")
         /\ tree[n].kind \in {"file", "link"} /\ n \in Above[n] /\ Follow(n).kind = "file" /\ Follow(n).ver = 1
<1>1. tree[n].ver = 1 /\ Follow(n).kind = "file" /\ Follow(n).ver = 1
  BY DEF Due, Steady
<1>2. tree[n].kind \in {"file", "link"}
  <2>1. tree[n].kind # "link" => tree[n].kind = "file"
    BY <1>1 DEF Follow
  <2>. QED
    BY <2>1
<1>. QED
  BY <1>1, <1>2, AboveSteady, AboveFacts DEF Due

\* A failure on the way to a file is noted.
LEMMA NotedNotQuiet ==
  ASSUME NEW n, NEW w, NEW m, m \in Above[n] \union {"/etc/passwd"}, <<w, m>> \in errors' \union silent'
  PROVE  ~Quiet(n)'
<1>1. <<w, m>>[2] = m
  OBVIOUS
<1>. QED
  BY <1>1 DEF Quiet

LEMMA HushNotQuiet ==
  ASSUME NEW n, NEW w, NEW m, m \in Above[n] \union {"/etc/passwd"},
         Hush(<<w, m>>)
  PROVE  ~Quiet(n)'
<1>1. <<w, m>> \in errors' \union silent'
  BY DEF Hush
<1>. QED
  BY <1>1, NotedNotQuiet

LEMMA FailNotQuiet ==
  ASSUME NEW n, NEW w, NEW m, m \in Above[n] \union {"/etc/passwd"},
         FailAndReport(<<w, m>>) \/ Report(<<w, m>>)
  PROVE  ~Quiet(n)'
<1>1. <<w, m>> \in errors' \union silent'
  BY DEF FailAndReport, Report, Hush
<1>. QED
  BY <1>1, NotedNotQuiet

\* The entry that is begun leads to the file.
LEMMA OnwardAgenda ==
  ASSUME NEW n \in Node, NEW e, Due(n, e), Quiet(n)', ret' # "err", Collect, pc = "agenda"
  PROVE  Onward(n, e)
<1>. USE DEF Due
<1>1. PassCheck \/ Interrupt \/ ReadUsers \/ NotForUs \/ BeginEntry \/ End
  BY DEF Collect, Match, MatchFails, MatchesDone, LookAtRoot, RootFails, WriteAbsent, BeginWalk,
     BeginFails, Meet, ListDir, ListFails, EndWalk, Look, LookFails, ReadLink, StatTarget, ReadFile, ReadFails,
     Save, SaveFails, NextItem, ItemsDone, ChooseTarget, LookAtTarget, ReadTarget, Fallback, LookAtScript,
     ReadScript, ResolveModule, WriteItem, WriteFails
<1>2. e.kind \in {"file", "glob", "tree", "pam"}
  BY DEF Covers, Reaches
<1>3. ~PassCheck /\ ~ReadUsers /\ ~Interrupt
  BY <1>2 DEF PassCheck, ReadUsers, Interrupt
<1>4. ~End
  <2>. DEFINE l == Len(Whole)
  <2>1. l \in Nat /\ at \in 1 .. l
    BY AgendaFacts
  <2>2. ~(at > l)
    <3>. HIDE DEF l
    <3>. QED
      BY <2>1
  <2>. QED
    BY <2>2 DEF End, Finished
<1>5. ~NotForUs
  <2>. SUFFICES ASSUME NotForUs PROVE FALSE
    OBVIOUS
  <2>1. e.reading # 0 /\ e.user \notin known[e.reading]
    BY DEF NotForUs, Applies
  <2>2. e.user \in User /\ listed[e.user] = 1
    BY <2>1 DEF Covers, Reaches
  <2>3. PICK j \in Positions : j < at /\ Whole[j].kind = "users" /\ Whole[j].reading = e.reading
    BY <1>2, <2>1, AgendaFacts DEF Asked
  <2>4. PICK x \in silent : x[2] = "/etc/passwd"
    BY <2>1, <2>2, <2>3 DEF UsersKnown
  <2>5. silent' = silent
    BY DEF NotForUs, noted
  <2>. QED
    BY <2>4, <2>5 DEF Quiet
<1>6. BeginEntry
  BY <1>1, <1>3, <1>4, <1>5
<1>7. at' = at
  BY <1>6 DEF BeginEntry
<1>8. CASE e.kind = "file"
  <2>1. cur' = n /\ use' = "text" /\ pc' = "look"
    BY <1>6, <1>8 DEF BeginEntry, Covers, Reaches
  <2>. QED
    BY <1>7, <2>1 DEF Onward, Coming, Working
<1>9. CASE e.kind = "glob"
  <2>1. /\ queue' = {m \in Node : /\ m \in Globbed[e.path] \ e.skip
                                  /\ tree[m].kind # "none"}
        /\ pc' = "glob"
    BY <1>6, <1>9 DEF BeginEntry
  <2>2. PICK m \in Above[n] : m \in Globbed[e.path] \ e.skip
    BY <1>9 DEF Covers, Reaches
  <2>3. m \in Node /\ tree[m].kind # "none"
    BY <2>2, DueFacts
  <2>4. m \in queue' \intersect Above[n]
    BY <2>1, <2>2, <2>3
  <2>5. Asked'.kind = "glob"
    BY <1>7, <1>9 DEF Asked
  <2>6. InGlob(n)'
    BY <2>1, <2>4, <2>5 DEF InGlob
  <2>. QED
    BY <1>7, <2>6 DEF Onward, Coming
<1>10. CASE e.kind \in {"tree", "pam"}
  <2>1. base' = e.path /\ pc' = "root"
    BY <1>6, <1>10 DEF BeginEntry
  <2>2. e.path \in Above[n]
    BY <1>10 DEF Covers, Reaches
  <2>. QED
    BY <1>7, <2>1, <2>2 DEF Onward, Coming, AtRoot
<1>. QED
  BY <1>2, <1>8, <1>9, <1>10

\* While matches of a glob are left, nothing ends its entry.
LEMMA OnwardGlob ==
  ASSUME NEW n \in Node, NEW e, Due(n, e), Quiet(n)', ret' # "err", Collect, InGlob(n)
  PROVE  Onward(n, e)
<1>. USE DEF Due
<1>1. Asked.kind = "glob" /\ pc \notin {"agenda", "done"} /\ queue \subseteq Node /\ queue # {}
  BY DEF InGlob, Types, PlaceTypes
<1>2. CASE Match \/ MatchFails
  <2>1. PICK m : m = Foremost(queue)
    OBVIOUS
  <2>2. m \in queue /\ m \in Node
    BY <1>1, <2>1, ForemostIn
  <2>3. at' = at /\ Asked' = Asked /\ queue' = queue \ {m} /\ pc = "glob"
    BY <1>2, <2>1 DEF Match, MatchFails, Asked
  <2>4. pc' \in {"root", "look", "glob"}
    BY <1>2 DEF Match, MatchFails
  <2>5. CASE m \notin Above[n]
    <3>1. InGlob(n)'
      BY <1>1, <2>3, <2>4, <2>5 DEF InGlob
    <3>. QED
      BY <2>3, <3>1 DEF Onward, Coming
  <2>6. CASE m \in Above[n]
    <3>1. ~MatchFails
      <4>1. MatchFails => FailAndReport(<<"match", m>>)
        BY <2>1 DEF MatchFails
      <4>. QED
        BY <2>6, <4>1, FailNotQuiet
    <3>2. CASE m = n
      <4>1. tree[m].kind \in {"file", "link"}
        BY <3>2, DueFacts
      <4>2. cur' = m /\ use' = "text" /\ pc' = "look"
        BY <1>2, <2>1, <3>1, <4>1 DEF Match
      <4>. QED
        BY <2>3, <3>2, <4>2 DEF Onward, Coming, Working
    <3>3. CASE m # n
      <4>1. tree[m].kind = "dir"
        BY <2>6, <3>3, DueFacts
      <4>2. base' = m /\ pc' = "root"
        BY <1>2, <2>1, <3>1, <4>1 DEF Match
      <4>. QED
        BY <2>3, <2>6, <4>2 DEF Onward, Coming, AtRoot
    <3>. QED
      BY <3>2, <3>3
  <2>. QED
    BY <2>5, <2>6
<1>3. CASE ~(Match \/ MatchFails)
  <2>1. queue' = queue
    <3>1. CASE Outside
      BY <1>1, <1>3, <3>1 DEF Outside, PassCheck, Interrupt, ReadUsers, NotForUs, BeginEntry, MatchesDone, End,
         LookAtRoot, RootFails, WriteAbsent, BeginWalk, BeginFails, Meet, ListDir, ListFails, EndWalk, LookFails,
         SaveFails, ItemsDone, WriteFails, place
    <3>2. CASE Recording \/ NextItem \/ WriteItem
      BY <3>2 DEF Recording, Look, ReadLink, StatTarget, ReadFile, ReadFails, Save, NextItem, WriteItem, place
    <3>. QED
      BY <3>1, <3>2, WithinShape, CollectGroups
  <2>2. ASSUME Leave PROVE at' = at /\ pc' = "glob"
    BY <1>1, <2>2 DEF Leave
  <2>3. ASSUME Back PROVE at' = at /\ pc' \in {"glob", "list", "walk"}
    BY <2>2, <2>3 DEF Back
  <2>4. at' = at /\ pc' \notin {"agenda", "done"}
    <3>1. CASE Outside
      <4>1. CASE WriteAbsent \/ BeginWalk \/ BeginFails \/ EndWalk
        <5>1. Leave \/ (at' = at /\ pc' = "walk")
          BY <4>1 DEF WriteAbsent, BeginWalk, BeginFails, EndWalk
        <5>. QED
          BY <2>2, <5>1
      <4>2. CASE LookFails \/ ItemsDone
        BY <2>3, <4>2 DEF LookFails, RecordAbsent, ItemsDone
      <4>3. CASE SaveFails \/ WriteFails
        BY <4>3 DEF SaveFails, WriteFails, Return
      <4>4. CASE LookAtRoot \/ RootFails \/ Meet \/ ListDir \/ ListFails
        BY <4>4 DEF LookAtRoot, RootFails, Meet, ListDir, ListFails, place
      <4>5. ~(PassCheck \/ Interrupt \/ ReadUsers \/ NotForUs \/ BeginEntry \/ End \/ MatchesDone)
        BY <1>1 DEF PassCheck, Interrupt, ReadUsers, NotForUs, BeginEntry, End, MatchesDone
      <4>. QED
        BY <1>3, <3>1, <4>1, <4>2, <4>3, <4>4, <4>5 DEF Outside
    <3>2. CASE Recording
      <4>1. CASE Look
        <5>1. \/ Back
              \/ /\ at' = at
                 /\ pc' = (CASE tree[cur].kind = "link" -> "readlink" [] tree[cur].kind = "file" -> "read"
                             [] OTHER -> "save")
          BY <4>1 DEF Look, RecordAbsent
        <5>. QED
          BY <2>3, <5>1
      <4>2. CASE Save
        BY <2>3, <4>2, SaveShape
      <4>3. CASE ReadLink \/ StatTarget \/ ReadFile \/ ReadFails
        BY <4>3 DEF ReadLink, StatTarget, ReadFile, ReadFails, place
      <4>. QED
        BY <3>2, <4>1, <4>2, <4>3 DEF Recording
    <3>3. CASE NextItem \/ WriteItem
      <4>1. RecordTypes /\ todo \in Seq(ItemKinds)
        BY DEF Types, ParseTypes
      <4>. QED
        BY <3>3, <4>1, NextItemShape DEF WriteItem, place
    <3>4. CASE WithinItem
      BY <3>4, WithinShape DEF InItem
    <3>. QED
      BY <3>1, <3>2, <3>3, <3>4, CollectGroups
  <2>5. InGlob(n)'
    BY <1>1, <2>1, <2>4 DEF InGlob, Asked
  <2>. QED
    BY <2>4, <2>5 DEF Onward, Coming
<1>. QED
  BY <1>2, <1>3

LEMMA OnwardRoot ==
  ASSUME NEW n \in Node, NEW e, Due(n, e), Quiet(n)', ret' # "err", Collect, AtRoot(n)
  PROVE  Onward(n, e)
<1>. USE DEF Due
<1>1. pc \in {"root", "begin"} /\ base \in Above[n]
  BY DEF AtRoot
<1>2. LookAtRoot \/ RootFails \/ BeginWalk \/ BeginFails
  BY <1>1 DEF Collect, PassCheck, Interrupt, ReadUsers, NotForUs, BeginEntry, Match, MatchFails, MatchesDone, End,
     WriteAbsent, Meet, ListDir, ListFails, EndWalk, Look, LookFails, ReadLink, StatTarget, ReadFile, ReadFails,
     Save, SaveFails, NextItem, ItemsDone, ChooseTarget, LookAtTarget, ReadTarget, Fallback, LookAtScript,
     ReadScript, ResolveModule, WriteItem, WriteFails
<1>3. PICK b : b = base
  OBVIOUS
<1>4. b \in Above[n] /\ tree[b].kind # "none" /\ (b # n => tree[b].kind = "dir")
  BY <1>1, <1>3, DueFacts
<1>5. ~RootFails
  <2>1. RootFails => Hush(<<"root", b>>)
    BY <1>3 DEF RootFails
  <2>. QED
    BY <1>4, <2>1, HushNotQuiet
<1>6. ~BeginFails
  <2>1. BeginFails => FailAndReport(<<"walk", b>>)
    BY <1>3 DEF BeginFails
  <2>. QED
    BY <1>4, <2>1, FailNotQuiet
<1>7. CASE LookAtRoot
  <2>1. at' = at /\ base' = base
    BY <1>7 DEF LookAtRoot, place
  <2>2. CASE tree[b].kind = "dir"
    <3>1. pc' = "begin"
      BY <1>3, <1>7, <2>2 DEF LookAtRoot
    <3>. QED
      BY <1>1, <2>1, <3>1 DEF Onward, Coming, AtRoot
  <2>3. CASE tree[b].kind # "dir"
    <3>1. b = n
      BY <1>4, <2>3
    <3>2. cur' = base /\ pc' = "look" /\ use' # "dir"
      BY <1>3, <1>4, <1>7, <2>3 DEF LookAtRoot
    <3>. QED
      BY <1>3, <2>1, <3>1, <3>2 DEF Onward, Coming, Working
  <2>. QED
    BY <2>2, <2>3
<1>8. CASE BeginWalk
  <2>1. /\ pending' = {[node |-> b, dir |-> tree[b].kind = "dir"]}
        /\ pc' = "walk" /\ at' = at
    BY <1>3, <1>4, <1>8 DEF BeginWalk
  <2>2. PICK x : x = [node |-> b, dir |-> tree[b].kind = "dir"]
    OBVIOUS
  <2>3. x \in pending' /\ x.node \in Above[n]
    BY <1>4, <2>1, <2>2
  <2>. QED
    BY <2>1, <2>3 DEF Onward, Coming, InWalk
<1>. QED
  BY <1>2, <1>5, <1>6, <1>7, <1>8

\* Back from a path, the walk still has what it had not met.
LEMMA WalkKept ==
  ASSUME Types, NEW n, InWalk(n), pc \notin {"walk", "list"}, Back \/ UNCHANGED <<at, pending>>
  PROVE  at' = at /\ InWalk(n)'
<1>1. PICK x \in pending : x.node \in Above[n] /\ (x # Met \/ x.dir)
  BY DEF InWalk
<1>2. ASSUME pending' = pending PROVE InWalk(n)'
  <2>1. Met' = Met
    BY <1>2 DEF Met
  <2>. QED
    BY <1>1, <1>2, <2>1 DEF InWalk
<1>3. CASE UNCHANGED <<at, pending>>
  BY <1>2, <1>3
<1>4. CASE Back
  <2>1. at' = at /\ (IF Met.dir THEN pc' = "list" /\ UNCHANGED pending
                                ELSE pc' = "walk" /\ pending' = Rest)
    BY <1>1, <1>4 DEF Back
  <2>2. CASE Met.dir
    BY <1>2, <2>1, <2>2
  <2>3. CASE ~Met.dir
    <3>1. x # Met
      BY <1>1, <2>3
    <3>2. x \in pending' /\ pc' = "walk"
      BY <1>1, <2>1, <2>3, <3>1 DEF Rest
    <3>. QED
      BY <1>1, <2>1, <3>2 DEF InWalk
  <2>. QED
    BY <2>2, <2>3
<1>. QED
  BY <1>3, <1>4

\* What the walk has listed above the file it goes into, and the file it meets.
LEMMA OnwardMeet ==
  ASSUME NEW n \in Node, NEW e, Due(n, e), Quiet(n)', ret' # "err", Collect, InWalk(n), pc = "walk"
  PROVE  Onward(n, e)
<1>. USE DEF Due
<1>1. PICK x \in pending : x.node \in Above[n]
  BY DEF InWalk
<1>2. Meet
  <2>1. Meet \/ EndWalk
    BY DEF Collect, PassCheck, Interrupt, ReadUsers, NotForUs, BeginEntry, Match, MatchFails, MatchesDone, End,
     LookAtRoot, RootFails, BeginWalk, BeginFails,
     WriteAbsent, ListDir, ListFails, Look, LookFails, ReadLink, StatTarget, ReadFile, ReadFails,
     Save, SaveFails, NextItem, ItemsDone, ChooseTarget, LookAtTarget, ReadTarget, Fallback, LookAtScript,
     ReadScript, ResolveModule, WriteItem, WriteFails
  <2>. QED
    BY <1>1, <2>1 DEF EndWalk
<1>3. at' = at /\ base' = base
  BY <1>2 DEF Meet
<1>4. tree[x.node].ver = 1 /\ (x.node # n => tree[x.node].kind = "dir")
  BY <1>1, DueFacts
<1>5. x.dir <=> tree[x.node].kind = "dir"
  BY <1>1, <1>4 DEF Listed
<1>6. CASE PassedOver
  <2>1. pending' = Rest /\ pc' = "walk"
    BY <1>2, <1>6 DEF Meet
  <2>2. x # Met
    <3>1. e.kind = "tree" /\ Met.node \in e.skip
      BY <1>6 DEF PassedOver
    <3>2. Above[n] \intersect e.skip = {}
      BY <3>1 DEF Covers, Reaches
    <3>. QED
      BY <1>1, <3>1, <3>2
  <2>3. x \in pending'
    BY <1>1, <2>1, <2>2 DEF Rest
  <2>. QED
    BY <1>1, <1>3, <2>1, <2>3 DEF Onward, Coming, InWalk
<1>7. CASE ~PassedOver
  <2>1. /\ cur' = Met.node /\ pc' = "look" /\ pending' = pending
        /\ use' = IF Met.node = base \/ Met.dir THEN "dir" ELSE IF Asked.kind = "pam" THEN "pam" ELSE "text"
    BY <1>2, <1>7 DEF Meet
  <2>2. Met' = Met
    BY <2>1 DEF Met
  <2>3. CASE x # Met \/ x.dir
    <3>1. InWalk(n)'
      BY <1>1, <2>1, <2>2, <2>3 DEF InWalk
    <3>. QED
      BY <1>3, <3>1 DEF Onward, Coming
  <2>4. CASE x = Met /\ ~x.dir
    <3>1. x.node = n
      BY <1>4, <1>5, <2>4
    <3>2. x.node # base
      <4>1. base = n => tree[n].kind = "dir"
        BY <1>1, <1>4, <3>1 DEF BaseDir
      <4>2. tree[n].kind # "dir"
        BY <1>5, <2>4, <3>1
      <4>. QED
        BY <3>1, <4>1, <4>2
    <3>3. use' # "dir" /\ cur' = n
      BY <2>1, <2>4, <3>1, <3>2
    <3>. QED
      BY <1>3, <2>1, <3>3 DEF Onward, Coming, Working
  <2>. QED
    BY <2>3, <2>4
<1>. QED
  BY <1>6, <1>7

LEMMA OnwardList ==
  ASSUME NEW n \in Node, NEW e, Due(n, e), Quiet(n)', ret' # "err", Collect, InWalk(n), pc = "list"
  PROVE  Onward(n, e)
<1>. USE DEF Due
<1>1. PICK x \in pending : x.node \in Above[n]
  BY DEF InWalk
<1>2. ListDir \/ ListFails
  BY DEF Collect, PassCheck, Interrupt, ReadUsers, NotForUs, BeginEntry, Match, MatchFails, MatchesDone, End,
     LookAtRoot, RootFails, BeginWalk, BeginFails,
     WriteAbsent, Meet, EndWalk, Look, LookFails, ReadLink, StatTarget, ReadFile, ReadFails,
     Save, SaveFails, NextItem, ItemsDone, ChooseTarget, LookAtTarget, ReadTarget, Fallback, LookAtScript,
     ReadScript, ResolveModule, WriteItem, WriteFails
<1>3. at' = at /\ pc' = "walk" /\ Rest \subseteq pending'
  BY <1>2 DEF ListDir, ListFails
<1>4. CASE x # Met
  <2>1. x \in pending'
    BY <1>1, <1>3, <1>4 DEF Rest
  <2>. QED
    BY <1>1, <1>3, <2>1 DEF Onward, Coming, InWalk
<1>5. CASE x = Met
  <2>1. PICK d : d = Met.node
    OBVIOUS
  <2>2. d \in Above[n]
    BY <1>1, <1>5, <2>1
  <2>3. ~ListFails
    <3>1. ListFails => FailAndReport(<<"walk", d>>)
      BY <2>1 DEF ListFails
    <3>. QED
      BY <2>2, <3>1, FailNotQuiet
  <2>4. tree[d].kind = "dir"
    <3>1. Met.dir
      BY DEF Types, PlaceTypes
    <3>2. tree[d].ver = 1
      BY <2>2, DueFacts
    <3>. QED
      BY <1>5, <2>1, <3>1, <3>2 DEF Listed
  <2>5. PICK m \in Above[n] : Up[m] = d
    <3>1. d # n
      BY <2>4, DueFacts
    <3>. QED
      BY <2>2, <3>1, AboveFacts
  <2>6. m \in Node /\ tree[m].kind # "none"
    BY <2>5, DueFacts
  <2>7. PICK y : y = [node |-> m, dir |-> tree[m].kind = "dir"]
    OBVIOUS
  <2>8. y \in pending'
    <3>1. pending' = Rest \union {[node |-> c, dir |-> tree[c].kind = "dir"] :
                                  c \in {z \in Node : Up[z] = d /\ tree[z].kind # "none"}}
      BY <1>2, <2>1, <2>3, <2>4 DEF ListDir
    <3>. QED
      BY <2>5, <2>6, <2>7, <3>1
  <2>9. y.node \in Above[n]
    BY <2>5, <2>7
  <2>. QED
    BY <1>3, <2>8, <2>9 DEF Onward, Coming, InWalk
<1>. QED
  BY <1>4, <1>5

LEMMA OnwardWalk ==
  ASSUME NEW n \in Node, NEW e, Due(n, e), Quiet(n)', ret' # "err", Collect, InWalk(n)
  PROVE  Onward(n, e)
<1>1. CASE pc \in {"walk", "list"}
  BY <1>1, OnwardMeet, OnwardList
<1>2. CASE pc \notin {"walk", "list"}
  <2>1. pc \notin {"agenda", "glob", "root", "begin", "absent", "done"}
    BY AtEnd DEF InWalk, Due, Types, PlaceTypes
  <2>2. Back \/ UNCHANGED <<at, pending>>
    <3>1. CASE Outside
      <4>1. LookFails \/ SaveFails \/ ItemsDone \/ WriteFails
        BY <1>2, <2>1, <3>1 DEF Outside, PassCheck, Interrupt, ReadUsers, NotForUs, BeginEntry, Match, MatchFails,
           MatchesDone, End, LookAtRoot, RootFails, WriteAbsent, BeginWalk, BeginFails, Meet, ListDir, ListFails, EndWalk
      <4>. QED
        BY <4>1 DEF LookFails, RecordAbsent, SaveFails, ItemsDone, WriteFails, place
    <3>2. CASE Recording
      BY <3>2 DEF Recording, Look, RecordAbsent, ReadLink, StatTarget, ReadFile, ReadFails, Save, place
    <3>3. CASE NextItem \/ WriteItem
      BY <3>3 DEF NextItem, WriteItem, place
    <3>4. CASE WithinItem
      BY <3>4, WithinShape DEF Due
    <3>. QED
      BY <3>1, <3>2, <3>3, <3>4, CollectGroups
  <2>. QED
    BY <1>2, <2>2, WalkKept DEF Due, Onward, Coming
<1>. QED
  BY <1>1, <1>2

\* A text that could be read gives an item, unless a line is too long.
LEMMA SomeItem ==
  ASSUME NEW parse \in Parses \ {"none"}, data.ver # 0, cur \notin Long
  PROVE  ItemsOf(parse) # <<>>
<1>1. \A k : Scanned(k) = <<k>> /\ <<k>> # <<>>
  BY DEF Scanned
<1>2. CASE parse \in {"periodic", "unit", "at"}
  BY <1>2 DEF ItemsOf, UnitItems, AtItems
<1>3. CASE parse = "init"
  <2>1. ItemsOf(parse) = <<"init_script">> \o RcItems
    BY <1>3 DEF ItemsOf
  <2>2. RcItems = <<"rc_command">>
    BY <1>1 DEF RcItems
  <2>. QED
    BY <2>1, <2>2
<1>4. CASE parse = "ssh"
  <2>1. ItemsOf(parse) = SSHItems
    BY <1>4 DEF ItemsOf
  <2>. QED
    BY <1>1, <2>1 DEF SSHItems, SSHConfigItems, AuthorizedKeys
<1>5. CASE parse \in {"cron", "anacron", "rc", "desktop", "loader", "pam", "profile", "sudoers"}
  BY <1>1, <1>5 DEF ItemsOf, CronItems, AnacronItems, RcItems, DesktopItems, LoaderItems, PAMItems, ProfileItems,
     SudoersItems
<1>. QED
  BY <1>2, <1>3, <1>4, <1>5 DEF Parses

\* The record of the file, step by step.
LEMMA OnwardRead ==
  ASSUME NEW n \in Node, NEW e, Due(n, e), Quiet(n)', ret' # "err", Collect,
         cur = n, use # "dir", pc \in {"look", "readlink", "stat", "read"}
  PROVE  Onward(n, e)
<1>. USE DEF Due
<1>1. tree[n].kind \in {"file", "link"} /\ n \in Above[n] /\ Follow(n).kind = "file" /\ Follow(n).ver = 1
  BY DueFacts
<1>2. Look \/ LookFails \/ ReadLink \/ StatTarget \/ ReadFile \/ ReadFails \/ WriteFails
  BY DEF Collect, PassCheck, Interrupt, ReadUsers, NotForUs, BeginEntry, Match, MatchFails, MatchesDone, End,
     LookAtRoot, RootFails, BeginWalk, BeginFails,
     WriteAbsent, Meet, EndWalk, ListDir, ListFails,
     Save, SaveFails, NextItem, ItemsDone, ChooseTarget, LookAtTarget, ReadTarget, Fallback, LookAtScript,
     ReadScript, ResolveModule, WriteItem
<1>3. ~WriteFails
  BY DEF WriteFails, Return
<1>4. ~LookFails
  <2>1. LookFails => Hush(<<"look", n>>)
    BY DEF LookFails, Loud
  <2>. QED
    BY <1>1, <2>1, HushNotQuiet
<1>5. ~ReadFails
  <2>1. ReadFails => FailAndReport(<<"read", n>>)
    BY DEF ReadFails
  <2>. QED
    BY <1>1, <2>1, FailNotQuiet
<1>6. CASE Look
  <2>1. at' = at /\ cur' = cur /\ use' = use /\ pc' \in {"readlink", "read"}
    BY <1>1, <1>6 DEF Look
  <2>. QED
    BY <2>1 DEF Onward, Coming, Working
<1>7. CASE ReadLink
  <2>1. at' = at /\ cur' = cur /\ use' = use /\ pc' = "stat"
    BY <1>7 DEF ReadLink, place
  <2>. QED
    BY <2>1 DEF Onward, Coming, Working
<1>8. CASE StatTarget
  <2>1. at' = at /\ cur' = cur /\ use' = use
    BY <1>8 DEF StatTarget, place, record
  <2>2. ~Hush(<<"stat", n>>)
    BY <1>1, HushNotQuiet
  <2>3. pc' = "read"
    BY <1>1, <1>8, <2>2 DEF StatTarget
  <2>. QED
    BY <2>1, <2>3 DEF Onward, Coming, Working
<1>9. CASE ReadFile
  <2>1. at' = at /\ cur' = cur /\ use' = use /\ pc' = "save"
    BY <1>9 DEF ReadFile, place
  <2>2. data' = [ver |-> Follow(n).ver, key |-> Follow(n).key]
    BY <1>1, <1>9 DEF ReadFile
  <2>. QED
    BY <1>1, <2>1, <2>2 DEF Onward, Coming, Working
<1>. QED
  BY <1>2, <1>3, <1>4, <1>5, <1>6, <1>7, <1>8, <1>9

LEMMA OnwardSave ==
  ASSUME NEW n \in Node, NEW e, Due(n, e), ret' # "err", Collect,
         cur = n, use # "dir", pc = "save", data.ver = 1
  PROVE  Onward(n, e)
<1>. USE DEF Due
<1>1. Save
  <2>1. Save \/ SaveFails
    BY DEF Collect, PassCheck, Interrupt, ReadUsers, NotForUs, BeginEntry, Match, MatchFails, MatchesDone, End,
     LookAtRoot, RootFails, BeginWalk, BeginFails, Look, LookFails, ReadLink, StatTarget, ReadFile, ReadFails,
     WriteAbsent, Meet, EndWalk, ListDir, ListFails,
     NextItem, ItemsDone, ChooseTarget, LookAtTarget, ReadTarget, Fallback, LookAtScript,
     ReadScript, ResolveModule, WriteItem, WriteFails
  <2>. QED
    BY <2>1 DEF SaveFails, Return
<1>2. /\ Append2(cur, Claim(Copied)) /\ Claim(Copied) \in Filed
      /\ Claim(Copied).copied = Copied /\ Claim(Copied).hash = got.hash
      /\ Claim(Copied).key = got.key
      /\ copies' = (IF Copied THEN [copies EXCEPT ![cur] = data] ELSE copies)
      /\ UNCHANGED <<tree, cur, use, data>>
      /\ pc' = "items" /\ todo' = ItemsOf(Asked.parse) /\ at' = at
  BY <1>1, SaveShape
<1>3. PICK r : r = Claim(Copied)
  OBVIOUS
<1>4. r \in Filed /\ Append2(n, r)
  BY <1>2, <1>3
<1>5. PICK k : k \in DOMAIN files'[n] /\ files'[n][k] = r
  BY <1>4, AppendShape
<1>6. got.hash = 1 /\ (got.key <=> Sensitive(cur, data))
  BY DEF Stage, Hashed
<1>7. data.key <=> Follow(n).key
  BY DEF Fresh
<1>8. r.hash = 1
  BY <1>2, <1>3, <1>6
<1>9. Copied <=> ~got.key
  BY <1>6 DEF Copied
<1>10. Copied => copies'[n].ver = 1
  BY <1>2 DEF Types, OutputTypes
<1>11. got.key <=> n \in KeyName \/ Follow(n).key
  BY <1>6, <1>7, Zenon DEF Sensitive
<1>12. (r.key <=> n \in KeyName \/ Follow(n).key) /\ (r.copied <=> ~(n \in KeyName \/ Follow(n).key))
  <2>1. r.key = got.key /\ r.copied = Copied
    BY <1>2, <1>3
  <2>. QED
    BY <1>9, <1>11, <2>1, Zenon
<1>13. Follow(n)' = Follow(n)
  BY <1>2 DEF Follow
<1>14. FileReported(n)'
  <2>1. \E j \in DOMAIN files'[n] : /\ files'[n][j].hash = 1
                                    /\ (files'[n][j].key <=> n \in KeyName \/ Follow(n).key)
                                    /\ (files'[n][j].copied <=> ~(n \in KeyName \/ Follow(n).key))
    BY <1>5, <1>8, <1>12, Zenon
  <2>2. (n \in KeyName \/ Follow(n).key) \/ copies'[n].ver = 1
    BY <1>9, <1>10, <1>11, Zenon
  <2>. QED
    BY <1>13, <2>1, <2>2, Zenon DEF FileReported
<1>15. Parsed(e, n) => todo' # <<>>
  <2>. SUFFICES ASSUME Parsed(e, n) PROVE todo' # <<>>
    OBVIOUS
  <2>1. e.parse \in Parses \ {"none"} /\ n \notin Long
    BY AgendaFacts DEF Parsed, EntryOK, Asked
  <2>2. ItemsOf(e.parse) # <<>>
    BY <2>1, SomeItem
  <2>. QED
    BY <1>2, <2>2
<1>16. Asked' = e
  BY <1>2 DEF Asked
<1>17. Working(n)'
  BY <1>2, <1>14, <1>15, <1>16 DEF Working, Parsing
<1>. QED
  BY <1>2, <1>17 DEF Onward, Coming

\* The items of the file, until the last is written.
LEMMA OnwardItems ==
  ASSUME NEW n \in Node, NEW e, Due(n, e), [Next]_vars, Steady(n)', ret' # "err", Collect,
         cur = n, use # "dir", pc \in Parsing, data.ver = 1, FileReported(n),
         Parsed(e, n) => ItemReported(n) \/ pc \in InItem \/ todo # <<>>
  PROVE  Onward(n, e)
<1>. USE DEF Due
<1>1. FileReported(n)'
  BY FileKept
<1>2. ItemReported(n) => ItemReported(n)'
  BY FilesGrow DEF ItemReported
<1>3. CASE ItemsDone
  <2>1. todo = <<>> /\ pc = "items" /\ Back
    BY <1>3 DEF ItemsDone
  <2>2. Reported(n, e)'
    BY <1>1, <1>2, <2>1 DEF Reported, Parsed, InItem
  <2>3. at' = at \/ NextEntry
    BY AtShape
  <2>. QED
    BY <2>2, <2>3 DEF Onward
<1>4. CASE NextItem
  <2>1. pc' \in InItem /\ at' = at /\ cur' = cur /\ use' = use /\ data' = data
    <3>1. RecordTypes /\ todo \in Seq(ItemKinds)
      BY DEF Types, ParseTypes
    <3>. QED
      BY <1>4, <3>1, NextItemShape DEF InItem
  <2>2. Working(n)'
    BY <1>1, <2>1 DEF Working, Parsing
  <2>. QED
    BY <2>1, <2>2 DEF Onward, Coming
<1>5. CASE WithinItem
  <2>1. pc' \in InItem /\ at' = at /\ cur' = cur /\ use' = use /\ data' = data
    BY <1>5, WithinShape
  <2>2. Working(n)'
    BY <1>1, <2>1 DEF Working, Parsing
  <2>. QED
    BY <2>1, <2>2 DEF Onward, Coming
<1>6. CASE WriteItem
  <2>1. pc' = "items" /\ at' = at /\ cur' = cur /\ use' = use /\ data' = data /\ item \in items' /\ pc = "write"
    BY <1>6 DEF WriteItem, place, record
  <2>2. item.path = n /\ item.src = 1
    BY <2>1 DEF Stage, Hashed, Parsing, InItem
  <2>3. ItemReported(n)'
    BY <2>1, <2>2 DEF ItemReported
  <2>4. Reported(n, e)'
    BY <1>1, <2>3 DEF Reported
  <2>. QED
    BY <2>1, <2>4 DEF Onward
<1>7. ItemsDone \/ NextItem \/ WithinItem \/ WriteItem
  <2>1. pc \in {"items", "score", "target", "readtarget", "fallback", "script", "readscript", "module", "write"}
    BY DEF Parsing, InItem
  <2>2. ItemsDone \/ NextItem \/ WithinItem \/ WriteItem \/ WriteFails
    BY <2>1 DEF Collect, PassCheck, Interrupt, ReadUsers, NotForUs, BeginEntry, Match, MatchFails, MatchesDone, End,
     LookAtRoot, RootFails, BeginWalk, BeginFails, Look, LookFails, ReadLink, StatTarget, ReadFile, ReadFails,
     WriteAbsent, Meet, EndWalk, ListDir, ListFails, Save, SaveFails, WithinItem
  <2>. QED
    BY <2>2 DEF WriteFails, Return
<1>. QED
  BY <1>3, <1>4, <1>5, <1>6, <1>7

LEMMA OnwardWork ==
  ASSUME NEW n \in Node, NEW e, Due(n, e), [Next]_vars, Steady(n)', Quiet(n)', ret' # "err", Collect, Working(n)
  PROVE  Onward(n, e)
<1>1. cur = n /\ use # "dir" /\ e = Asked
  BY DEF Working, Due
<1>2. CASE pc \in {"look", "readlink", "stat", "read"}
  BY <1>1, <1>2, OnwardRead
<1>3. CASE pc = "save"
  BY <1>1, <1>3, OnwardSave DEF Working, Parsing, InItem
<1>4. CASE pc \in Parsing
  BY <1>1, <1>4, OnwardItems DEF Working, Parsing, InItem
<1>. QED
  BY <1>2, <1>3, <1>4 DEF Working

LEMMA OnwardStep ==
  ASSUME NEW n \in Node, NEW e, Due(n, e), [Next]_vars, Steady(n)', Quiet(n)', ret' # "err", Collect, Coming(n)
  PROVE  Onward(n, e)
BY OnwardAgenda, OnwardGlob, OnwardRoot, OnwardWalk, OnwardWork DEF Coming

LEMMA ProgressStep ==
  ASSUME Types, Stage, Begun, Rooted, BaseDir, Listed, Fresh, UsersKnown, [Next]_vars,
         NEW n \in Node, Progress(n)
  PROVE  Progress(n)'
<1>. SUFFICES ASSUME ret' # "err", Steady(n)', Quiet(n)', NEW k \in Positions, Covers(Whole[k], n)'
              PROVE  /\ k < at' => Reported(n, Whole[k])'
                     /\ k = at' => Reported(n, Whole[k])' \/ Coming(n)'
  BY DEF Progress
<1>1. PICK e : e = Whole[k]
  OBVIOUS
<1>2. Steady(n) /\ Quiet(n) /\ Covers(e, n)
  BY <1>1, SteadyBefore, QuietBefore, CoversBefore
<1>3. ret # "err"
  BY AtEnd DEF Next, HostStep, vars, Types, RunTypes
<1>4. (k < at => Reported(n, e)) /\ (k = at => Reported(n, e) \/ Coming(n))
  BY <1>1, <1>2, <1>3 DEF Progress
<1>5. Reported(n, e) => Reported(n, e)'
  BY ReportedKept
<1>6. SUFFICES ASSUME ~Reported(n, e)
               PROVE  /\ k < at' => Reported(n, e)'
                      /\ k = at' => Reported(n, e)' \/ Coming(n)'
  BY <1>1, <1>5
<1>7. CASE Collect
  <2>1. k \in Nat /\ k \in 1 .. Len(Whole)
    BY AgendaFacts
  <2>2. CASE k = at
    <3>1. Due(n, e)
      BY <1>1, <1>2, <2>2 DEF Due, Asked
    <3>2. Onward(n, e)
      BY <1>4, <1>6, <1>7, <2>2, <3>1, OnwardStep
    <3>3. Following[k] > k /\ Following[k] \in Nat
      BY NextPosition
    <3>. QED
      BY <2>1, <2>2, <3>2, <3>3 DEF Onward, NextEntry
  <2>3. CASE k # at
    <3>. DEFINE l == Len(Whole)
    <3>1. l \in Nat /\ k \in 1 .. l /\ Positions \subseteq 1 .. l /\ at \in Positions \union {l + 1}
      BY AgendaFacts DEF Types, PlaceTypes
    <3>2. ~(k < at)
      BY <1>4, <1>6
    <3>3. at \in Positions /\ k > at /\ at \in Nat
      <4>. HIDE DEF l
      <4>. QED
        BY <2>3, <3>1, <3>2
    <3>4. CASE at' = at
      BY <2>1, <2>3, <3>3, <3>4
    <3>5. CASE NextEntry
      <4>1. k < at' => k <= at
        BY <3>3, <3>5, NextPosition DEF NextEntry
      <4>2. pc' = "agenda"
        BY <3>5 DEF NextEntry
      <4>. QED
        BY <2>1, <3>3, <4>1, <4>2 DEF Coming
    <3>. QED
      BY <1>7, <3>4, <3>5, AtShape
  <2>. QED
    BY <2>2, <2>3
<1>8. CASE HostStep \/ UNCHANGED vars
  <2>1. UNCHANGED <<pc, at, known, queue, base, pending, cur, use, got, data, todo, item, files, items, copies>>
    BY <1>8 DEF HostStep, vars, place, record, parsing, output
  <2>2. Asked' = Asked /\ Met' = Met
    BY <2>1 DEF Asked, Met
  <2>3. FileReported(n) => FileReported(n)'
    BY FileKept
  <2>4. Working(n) => Working(n)'
    BY <2>1, <2>2, <2>3 DEF Working, Parsed, ItemReported
  <2>5. Coming(n) => Coming(n)'
    BY <2>1, <2>2, <2>4 DEF Coming, InGlob, AtRoot, InWalk
  <2>. QED
    BY <1>4, <1>6, <2>1, <2>5
<1>. QED
  BY <1>7, <1>8 DEF Next

LEMMA InitStable == Init => StableInv /\ Begun
<1>. SUFFICES ASSUME Init PROVE StableInv /\ Begun
  OBVIOUS
<1>1. at = Following[0] /\ pc = "agenda" /\ pending = {} /\ ret = "none" /\ tree \in First /\ changes = 1
  BY DEF Init
<1>2. Begun /\ BaseDir /\ Listed /\ Fresh /\ Ended
  BY <1>1 DEF Begun, BaseDir, Listed, Fresh, Ended, Parsing, InItem
<1>3. \A k \in Positions : ~(k < at)
  <2>. DEFINE l == Len(Whole)
              f == Following[0]
  <2>1. l \in Nat /\ Positions \subseteq 1 .. l
    BY AgendaFacts
  <2>2. 0 \in 0 .. l
    BY <2>1
  <2>3. f \in Positions \union {l + 1} /\ \A i \in Positions : i > 0 => f <= i
    BY <2>2, FollowingFacts
  <2>. HIDE DEF l, f
  <2>4. \A k \in Positions : ~(k < f)
    BY <2>1, <2>3
  <2>. QED
    BY <1>1, <2>4 DEF f
<1>4. UsersKnown
  BY <1>3 DEF UsersKnown
<1>5. \A n \in Node : Progress(n)
  BY <1>1, <1>3 DEF Progress, Coming
<1>6. Rooted
  <2>. SUFFICES ASSUME NEW n \in Node
                PROVE  /\ tree[n].kind = "none" => tree[n].ver = 0
                       /\ tree[n].kind # "none" => tree[n].ver >= 1
                       /\ tree[n].ver <= changes
                       /\ tree[n].kind # "none" /\ Up[n] # "/" =>
                            tree[Up[n]].kind = "dir" /\ tree[Up[n]].ver <= tree[n].ver
    BY DEF Rooted
  <2>1. \A m \in Node : /\ tree[m] = Nothing \/ (tree[m].kind # "none" /\ tree[m].ver = 1)
                        /\ tree[m].kind # "none" /\ Up[m] # "/" => tree[Up[m]].kind = "dir"
    BY <1>1, HostAssumption
  <2>2. \A m \in Node : tree[m].kind = "none" => tree[m].ver = 0
    BY <2>1 DEF Nothing
  <2>3. \A m \in Node : tree[m].kind # "none" => tree[m].ver = 1
    BY <2>1 DEF Nothing
  <2>4. tree[n].kind # "none" /\ Up[n] # "/" => Up[n] \in Node /\ tree[Up[n]].kind = "dir"
    BY <2>1, PositionFacts
  <2>. QED
    BY <1>1, <2>2, <2>3, <2>4
<1>. QED
  BY <1>2, <1>3, <1>4, <1>5, <1>6 DEF StableInv

LEMMA StableStep ==
  ASSUME Types, Stage, Begun, StableInv, [Next]_vars
  PROVE  StableInv' /\ Begun'
<1>. USE DEF StableInv
<1>1. Begun' /\ Rooted' /\ UsersKnown'
  BY BegunStep, RootedStep, UsersKnownStep
<1>2. BaseDir' /\ Listed' /\ Fresh' /\ Ended'
  BY BaseDirStep, ListedStep, FreshStep, EndedStep
<1>3. \A n \in Node : Progress(n)'
  BY ProgressStep
<1>. QED
  BY <1>1, <1>2, <1>3

LEMMA StableReported ==
  ASSUME Types, StableInv
  PROVE  StableEntryReported
<1>. SUFFICES ASSUME ret = "ok", NEW n \in Node, NEW k \in Positions, Steady(n), Covers(Whole[k], n), Quiet(n)
              PROVE  LET key == n \in KeyName \/ Follow(n).key IN
                     /\ \E r \in Ran(files[n]) : r.hash = 1 /\ r.key = key /\ r.copied = ~key
                     /\ key \/ copies[n].ver = 1
                     /\ Whole[k].parse # "none" /\ n \notin Long => \E i \in items : i.path = n /\ i.src = 1
  BY DEF StableEntryReported
<1>1. k < at
  <2>. DEFINE l == Len(Whole)
  <2>1. l \in Nat /\ k \in 1 .. l
    BY AgendaFacts
  <2>2. at = l + 1
    BY DEF StableInv, Ended
  <2>. QED
    <3>. HIDE DEF l
    <3>. QED
      BY <2>1, <2>2
<1>2. Reported(n, Whole[k])
  BY <1>1 DEF StableInv, Progress
<1>. DEFINE key == n \in KeyName \/ Follow(n).key
<1>3. PICK j \in DOMAIN files[n] : /\ files[n][j].hash = 1
                                   /\ (files[n][j].key <=> key) /\ (files[n][j].copied <=> ~key)
  BY <1>2, Zenon DEF Reported, FileReported
<1>4. PICK r : r = files[n][j]
  OBVIOUS
<1>5. r \in Ran(files[n])
  BY <1>4 DEF Ran
<1>6. r \in Filed
  <2>1. files[n] \in Seq(Filed)
    BY DEF Types, OutputTypes
  <2>. QED
    BY <1>4, <2>1
<1>7. r.key \in BOOLEAN /\ r.copied \in BOOLEAN
  <2>1. CASE r \in [state : {"there"}, kind : Kind, ver : Version, hash : Version, link : BOOLEAN,
                    key : BOOLEAN, copied : BOOLEAN]
    BY <2>1
  <2>2. CASE r = Absence
    BY <2>2 DEF Absence, Blank
  <2>. QED
    BY <1>6, <2>1, <2>2 DEF Filed
<1>8. r.hash = 1 /\ r.key = key /\ r.copied = ~key
  <2>1. r.hash = 1 /\ (r.key <=> key) /\ (r.copied <=> ~key)
    BY <1>3, <1>4
  <2>2. PICK a, b : a = r.key /\ b = r.copied /\ a \in BOOLEAN /\ b \in BOOLEAN
    BY <1>7
  <2>3. CASE key
    <3>1. a = TRUE /\ b = FALSE
      BY <2>1, <2>2, <2>3, Zenon
    <3>. QED
      BY <2>1, <2>2, <2>3, <3>1, Zenon
  <2>4. CASE ~key
    <3>1. a = FALSE /\ b = TRUE
      BY <2>1, <2>2, <2>4, Zenon
    <3>. QED
      BY <2>1, <2>2, <2>4, <3>1, Zenon
  <2>. QED
    BY <2>3, <2>4
<1>9. key \/ copies[n].ver = 1
  BY <1>2, Zenon DEF Reported, FileReported
<1>10. Whole[k].parse # "none" /\ n \notin Long => \E i \in items : i.path = n /\ i.src = 1
  BY <1>2 DEF Reported, Parsed, ItemReported
<1>. QED
  BY <1>5, <1>8, <1>9, <1>10, Zenon

\* Whatever else changes on the host meanwhile, a run that ended well has the
\* record, the copy and the items of every file in its places that was there all
\* along, or has noted a failure on the way to it (Collect with recordFile and
\* the parsers; scanPath, scanDirectoryEx, scanGlobExtras).
THEOREM StableEntryInvariant == Spec => []StableEntryReported
<1>. DEFINE Inv == Types /\ Stage /\ Begun /\ StableInv
<1>1. Init => Inv
  <2>1. Init => Stage
    BY DEF Init, Stage, Parsing, InItem
  <2>. QED
    BY <2>1, InitTypes, InitStable
<1>2. Inv /\ [Next]_vars => Inv'
  <2>. SUFFICES ASSUME Types, Stage, Begun, StableInv, [Next]_vars PROVE Inv'
    OBVIOUS
  <2>1. Types'
    BY TypesStep
  <2>2. Stage'
    <3>1. CASE Collect
      BY <3>1, StageStep
    <3>2. CASE HostStep \/ UNCHANGED vars
      BY <3>2 DEF HostStep, vars, record, parsing, output, Stage, Unhashed, Hashed, OnFile, Sensitive
    <3>. QED
      BY <3>1, <3>2 DEF Next
  <2>. QED
    BY <2>1, <2>2, StableStep
<1>3. Inv => StableEntryReported
  BY StableReported
<1>. QED
  BY <1>1, <1>2, <1>3, PTL DEF Spec
=============================================================================
